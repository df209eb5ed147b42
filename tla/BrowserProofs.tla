---------------------------- MODULE BrowserProofs ----------------------------
(***************************************************************************)
(* Theorems about the browser: a job in its tabs, for any number of tabs,  *)
(* presses of their users and breaks of a stream; and a search walked page *)
(* by page, for any sources, page sizes, limits and steps of the user.     *)
(*                                                                         *)
(* The second part proves SearchInv.  It says of every search - the one on *)
(* screen, those the walks have, and the one a response is made for - what *)
(* each of its sources has given so far (SourceFits) and that its marker   *)
(* stands exactly behind that (MarkerFits, CursorFits); of a response that *)
(* it has judged the scenes from there up to its own place (RespFits); and *)
(* of the slots that a search whose results are dropped shows none again   *)
(* (SearchAlone).                                                          *)
(***************************************************************************)
EXTENDS JobPanel, SearchWalk, FiniteSetTheorems, SequenceTheorems, WellFoundedInduction, TLAPS

USE DEF Finished, Active, Status, Over, Final

Terms == {"placed", "ended", "term"}

-----------------------------------------------------------------------------
(* Answers and calls *)

LEMMA AnswerKinds ==
  /\ Waits \in Answer /\ Fails \in Answer /\ NoJob \in Answer /\ Doc \subseteq Answer
  /\ Waits.st = "none" /\ Fails.st = "error" /\ NoJob.st = "404"
  /\ Waits \notin Doc /\ Fails \notin Doc /\ NoJob \notin Doc
  /\ \A a \in Answer : a \in Doc <=> a.st \in Status
  /\ \A a \in Answer : a.st = "404" <=> a = NoJob
  /\ \A d \in Doc : d.st \in Status /\ d.expires \in Terms
BY DEF Answer, Doc, Waits, Fails, NoJob, Terms

LEMMA RowIsDoc ==
  ASSUME srv \in [st : Status, held : {"none"} \cup Finished]
  PROVE  /\ Row \in Doc /\ Row.st = srv.st
         /\ Read \in Answer
         /\ Read.st \in {srv.st, "404"} /\ (Read.st = "404" => srv.st = "dismissed")
         /\ Read # Waits /\ Read.st # "none"
<1>1. Expiry \in Terms
  BY DEF Expiry, Terms
<1>2. Row \in Doc /\ Row.st = srv.st
  BY <1>1 DEF Row, Doc, Terms
<1> QED
  BY <1>2, AnswerKinds DEF Read, Live

LEMMA Dismissals ==
  ASSUME srv \in [st : Status, held : {"none"} \cup Finished]
  PROVE  /\ Dismissed \in [st : Status, held : {"none"} \cup Finished]
         /\ Dismissed.st = "dismissed"
         /\ Dismissed.held = "none" => srv.st \in Active \/ Dismissed = srv
         /\ Restored \in [st : Status, held : {"none"} \cup Finished]
         /\ Restored.held = "none"
         /\ Restored.st \in Finished \/ Restored = srv
BY DEF Dismissed, Restored, Live

LEMMA Calls ==
  /\ \A to : Call(to).to = to /\ Call(to).got = Waits
  /\ Off.at = "off" /\ Off.errors = 0 /\ Off.got = Waits
  /\ \A at, e : Following(at, e).at = at /\ Following(at, e).errors = e /\ Following(at, e).got = Waits
  /\ \A b \in Begins : b.got = Waits /\ b.at \in {"open", "ask"} /\ b.errors = 0
BY DEF Call, Off, Following, Begins

-----------------------------------------------------------------------------
(* Types *)

FollowRow == [at : {"off", "open", "stream", "ask"}, errors : 0..Breaks-1, got : Answer]
CancelRow == [to : {"none", "check", "dismiss", "dismissing"}, got : Answer]
DeleteRow == [to : {"none", "delete", "deleting", "restore"}, got : Answer]
KeptRow   == [deleted : BOOLEAN, onServer : BOOLEAN, lost : BOOLEAN, expires : Terms]
ServerRow == [st : Status, held : {"none"} \cup Finished]

LEMMA TypesNamed ==
  TypeOK <=> /\ srv \in ServerRow /\ entry \in [Tabs -> Entry] /\ follow \in [Followers -> FollowRow]
             /\ cancel \in [Tabs -> CancelRow] /\ delete \in [Tabs -> DeleteRow]
             /\ stored \in KeptRow /\ news \in [Tabs -> BOOLEAN] /\ presses \in 0..MaxPresses
BY DEF TypeOK, FollowRow, CancelRow, DeleteRow, KeptRow, ServerRow, Terms

\* What is written is a row of its kind.
LEMMA RowsWritten ==
  /\ Off \in FollowRow /\ Begins \subseteq FollowRow
  /\ \A at \in {"open", "stream", "ask"}, e \in 0..Breaks-1 : Following(at, e) \in FollowRow
  /\ \A x \in FollowRow, a \in Answer : [x EXCEPT !.got = a] \in FollowRow
  /\ \A to \in {"none", "check", "dismiss", "dismissing"} : Call(to) \in CancelRow
  /\ \A to \in {"none", "delete", "deleting", "restore"} : Call(to) \in DeleteRow
  /\ \A x \in CancelRow, a \in Answer : [x EXCEPT !.got = a] \in CancelRow
  /\ \A x \in DeleteRow, a \in Answer : [x EXCEPT !.got = a] \in DeleteRow
<1> USE BreaksAssumption
<1>1. Waits \in Answer
  BY AnswerKinds
<1>2. \A at \in {"off", "open", "stream", "ask"}, e \in 0..Breaks-1 : Following(at, e) \in FollowRow
  BY <1>1 DEF Following, FollowRow
<1>3. Off \in FollowRow /\ Begins \subseteq FollowRow
  BY <1>2 DEF Off, Begins
<1>4. \A x \in FollowRow, a \in Answer : [x EXCEPT !.got = a] \in FollowRow
  BY DEF FollowRow
<1>5. /\ \A to \in {"none", "check", "dismiss", "dismissing"} : Call(to) \in CancelRow
      /\ \A to \in {"none", "delete", "deleting", "restore"} : Call(to) \in DeleteRow
  BY <1>1 DEF Call, CancelRow, DeleteRow
<1>6. /\ \A x \in CancelRow, a \in Answer : [x EXCEPT !.got = a] \in CancelRow
      /\ \A x \in DeleteRow, a \in Answer : [x EXCEPT !.got = a] \in DeleteRow
  BY DEF CancelRow, DeleteRow
<1> QED
  BY <1>2, <1>3, <1>4, <1>5, <1>6

\* Every change of an entry, and what the shelf keeps of one.
LEMMA EntriesWritten ==
  /\ \A e \in Entry : Kept(e) \in KeptRow
  /\ \A k \in KeptRow : Fresh(k) \in Entry
  /\ \A e \in Entry, d \in Doc : Applied(e, d) \in Entry
  /\ \A e \in Entry : Forgotten(e) \in Entry
  /\ \A e \in Entry, b \in BOOLEAN : [e EXCEPT !.cancelling = b] \in Entry /\ [e EXCEPT !.deleting = b] \in Entry
  /\ \A e \in Entry, b \in BOOLEAN : [e EXCEPT !.deleted = b] \in Entry
  /\ \A e \in Entry, p \in {"active"} \cup Over : [e EXCEPT !.phase = p] \in Entry
  /\ \A e \in Entry, b \in BOOLEAN, c \in BOOLEAN : [e EXCEPT !.deleted = b, !.onServer = c] \in Entry
  /\ \A e \in Entry, b \in BOOLEAN, c \in BOOLEAN, p \in {"active"} \cup Over :
       [e EXCEPT !.deleted = b, !.onServer = c, !.phase = p] \in Entry
<1>1. \A e \in Entry : Kept(e) \in KeptRow
  BY DEF Entry, Kept, KeptRow, Terms
<1>2. \A k \in KeptRow : Fresh(k) \in Entry
  BY DEF Entry, Fresh, KeptRow, Terms
<1>3. \A e \in Entry, d \in Doc : Applied(e, d) \in Entry
  <2>1. SUFFICES ASSUME NEW e \in Entry, NEW d \in Doc  PROVE Applied(e, d) \in Entry
    OBVIOUS
  <2>2. d.st \in Status /\ d.expires \in Terms
    BY AnswerKinds
  <2> DEFINE p == IF d.st \in Active THEN "active" ELSE d.st
  <2>3. p \in {"active"} \cup Over
    BY <2>2
  <2>4. Applied(e, d) = [e EXCEPT !.status = TRUE, !.expires = d.expires, !.phase = p]
    BY DEF Applied
  <2> HIDE DEF p
  <2> QED
    BY <2>2, <2>3, <2>4 DEF Entry, Terms
<1>4. \A e \in Entry : Forgotten(e) \in Entry
  BY DEF Forgotten, Entry
<1>5. \A e \in Entry, b \in BOOLEAN :
        [e EXCEPT !.cancelling = b] \in Entry /\ [e EXCEPT !.deleting = b] \in Entry
  BY DEF Entry
<1>6. \A e \in Entry, b \in BOOLEAN : [e EXCEPT !.deleted = b] \in Entry
  BY DEF Entry
<1>7. \A e \in Entry, p \in {"active"} \cup Over : [e EXCEPT !.phase = p] \in Entry
  BY DEF Entry
<1>8. \A e \in Entry, b \in BOOLEAN, c \in BOOLEAN : [e EXCEPT !.deleted = b, !.onServer = c] \in Entry
  BY DEF Entry
<1>9. \A e \in Entry, b \in BOOLEAN, c \in BOOLEAN, p \in {"active"} \cup Over :
         [e EXCEPT !.deleted = b, !.onServer = c, !.phase = p] \in Entry
  BY DEF Entry
<1> QED
  BY <1>1, <1>2, <1>3, <1>4, <1>5, <1>6, <1>7, <1>8, <1>9


LEMMA FieldsKept ==
  ASSUME NEW e \in Entry
  PROVE  /\ \A d : /\ Applied(e, d).onServer = e.onServer
                   /\ Applied(e, d).phase = IF d.st \in Active THEN "active" ELSE d.st
         /\ Forgotten(e).onServer = e.onServer /\ Forgotten(e).phase = "gone"
<1>1. ASSUME NEW d
      PROVE  /\ Applied(e, d).onServer = e.onServer
             /\ Applied(e, d).phase = IF d.st \in Active THEN "active" ELSE d.st
  BY DEF Applied, Entry
<1>2. Forgotten(e).onServer = e.onServer /\ Forgotten(e).phase = "gone"
  BY DEF Forgotten, Entry
<1> QED
  BY <1>1, <1>2

-----------------------------------------------------------------------------
(* Steps *)

LEMMA FollowersOf ==
  /\ \A t \in Tabs : <<t, "known">> \in Followers /\ <<t, "stray">> \in Followers
  /\ \A f \in Followers : /\ f[1] \in Tabs
                          /\ f = <<f[1], "known">> \/ f = <<f[1], "stray">>
  /\ \A t, u \in Tabs : <<t, "known">> # <<u, "stray">>
BY DEF Followers

\* The server's own steps: a job that waits or runs did so before.
LEMMA ServerSteps ==
  ASSUME PanelInv, (\E st \in Status : Moves(st)) \/ TermEnds
  PROVE  PanelInv'
<1>1. /\ UNCHANGED <<entry, follow, cancel, delete, stored, news, presses>>
      /\ srv' \in ServerRow
      /\ srv'.st \in Active => srv.st \in Active
      /\ srv'.st = "dismissed" => srv.st = "dismissed"
      /\ srv.st = "dismissed" => srv'.st = "dismissed"
      /\ srv' # srv /\ srv'.st = "dismissed" => NobodyStale
  <2>1. CASE \E st \in Status : Moves(st)
    <3>1. PICK st \in Status : Moves(st)
      BY <2>1
    <3>2. srv \in ServerRow /\ srv' = [srv EXCEPT !.st = st] /\ srv.st \in Active /\ st # "dismissed"
      BY <3>1, EndsAssumption, TypesNamed DEF Moves, Promise!Works, Promise!Finished, PanelInv, ServerRow
    <3> QED
      BY <3>1, <3>2 DEF Moves, calls, shelf, ServerRow
  <2>2. CASE TermEnds
    BY <2>2, TypesNamed, AnswerKinds DEF TermEnds, calls, shelf, PanelInv, ServerRow, NobodyStale
  <2> QED
    BY <2>1, <2>2
<1>2. TypeOK'
  BY <1>1 DEF PanelInv, TypeOK, ServerRow
<1>3. (srv'.st \in Active => srv.st \in Active) /\ OverMeansOver' /\ NothingFinalBefore' /\ AnswersFit'
  BY <1>1 DEF PanelInv, OverMeansOver, NothingFinalBefore, AnswersFit
<1>4. NoneLate'
  BY <1>1 DEF PanelInv, NoneLate, NobodyStale, AskedBack
<1> QED
  BY <1>2, <1>3, <1>4 DEF PanelInv

\* A follower hears what the server shows now, or is still to hear something.
LEMMA Hearings ==
  ASSUME PanelInv, NEW f \in Followers, Connects(f) \/ Break(f) \/ Event(f) \/ Asked(f),
         UNCHANGED <<srv, cancel, delete, presses>>
  PROVE  PanelInv'
<1> USE BreaksAssumption, TypesNamed, AnswerKinds, RowsWritten
<1>1. UNCHANGED <<srv, entry, cancel, delete, stored, news, presses>> /\ follow[f] # Off
  BY Calls DEF Connects, Break, Event, Asked, shelf
<1>2. PICK x \in FollowRow :
        /\ follow' = [follow EXCEPT ![f] = x]
        /\ x.got.st \in {"none", "404", srv.st} \/ x.got = follow[f].got
        /\ x.got.st = "404" => srv.st = "dismissed" \/ x.got = follow[f].got
  <2>0. follow[f] \in FollowRow /\ follow[f].errors \in 0..Breaks-1
    BY DEF PanelInv, FollowRow
  <2>1. CASE Connects(f)
    <3>1. PICK x \in {Following("stream", follow[f].errors), Following("ask", 0)} : follow' = [follow EXCEPT ![f] = x]
      BY <2>1 DEF Connects, Turn
    <3>2. x \in FollowRow /\ x.got = Waits
      BY <3>1, <2>0, Calls
    <3> QED
      BY <3>1, <3>2
  <2>2. CASE Break(f)
    <3>1. PICK x \in {Following("open", follow[f].errors + 1), Following("ask", 0)} :
            /\ follow' = [follow EXCEPT ![f] = x]
            /\ x = Following("ask", 0) \/ follow[f].errors + 1 < Breaks
      BY <2>2 DEF Break, Turn
    <3>2. x \in FollowRow /\ x.got = Waits
      BY <3>1, <2>0, Calls
    <3> QED
      BY <3>1, <3>2
  <2>3. CASE Event(f)
    <3>1. Row \in Answer /\ Row.st = srv.st
      BY RowIsDoc DEF PanelInv, ServerRow
    <3>2. follow' = [follow EXCEPT ![f] = [follow[f] EXCEPT !.got = Row]]
      BY <2>3 DEF Event
    <3>3. [follow[f] EXCEPT !.got = Row] \in FollowRow /\ [follow[f] EXCEPT !.got = Row].got = Row
      BY <2>0, <3>1 DEF FollowRow
    <3> QED
      BY <3>1, <3>2, <3>3 DEF PanelInv, ServerRow
  <2>4. CASE Asked(f)
    <3>1. Read \in Answer /\ Read.st \in {srv.st, "404"} /\ (Read.st = "404" => srv.st = "dismissed")
      BY RowIsDoc DEF PanelInv, ServerRow
    <3>2. follow' = [follow EXCEPT ![f] = [follow[f] EXCEPT !.got = Read]]
      BY <2>4 DEF Asked
    <3>3. [follow[f] EXCEPT !.got = Read] \in FollowRow /\ [follow[f] EXCEPT !.got = Read].got = Read
      BY <2>0, <3>1 DEF FollowRow
    <3> QED
      BY <3>1, <3>2, <3>3
  <2> QED
    BY <2>1, <2>2, <2>3, <2>4
<1>3. TypeOK'
  BY <1>1, <1>2 DEF PanelInv, TypeOK, FollowRow
<1>4. /\ follow'[f] = x /\ \A g \in Followers : g # f => follow'[g] = follow[g]
      /\ srv.st \in Active => x.got.st \notin Final
      /\ x.got.st \in Active => srv.st \in Active \/ follow[f].got.st \in Active
  BY <1>2 DEF PanelInv, NothingFinalBefore
<1>5. OverMeansOver' /\ AnswersFit'
  BY <1>1 DEF PanelInv, OverMeansOver, AnswersFit
<1>6. NothingFinalBefore'
  <2>1. ASSUME srv.st \in Active, NEW g \in Followers  PROVE follow'[g].got.st \notin Final
    BY <2>1, <1>4 DEF PanelInv, NothingFinalBefore
  <2>2. ASSUME srv.st \in Active, NEW t \in Tabs  PROVE follow'[<<t, "stray">>] = Off
    BY <2>2, <1>1, <1>4, FollowersOf DEF PanelInv, NothingFinalBefore
  <2> QED
    BY <1>1, <2>1, <2>2 DEF PanelInv, NothingFinalBefore
<1>7. NobodyStale /\ srv.st \notin Active => NobodyStale'
  BY <1>4 DEF NobodyStale
<1>8. ASSUME NEW t \in Tabs, entry[t].phase \in Over \/ follow'[<<t, "stray">>] # Off
      PROVE  follow'[<<t, "known">>].got.st \notin Active
  <2>1. entry[t].phase \in Over \/ follow[<<t, "stray">>] # Off
    BY <1>1, <1>4, <1>8, FollowersOf
  <2>2. srv.st \notin Active /\ follow[<<t, "known">>].got.st \notin Active
    BY <2>1 DEF PanelInv, OverMeansOver, NothingFinalBefore, NoneLate
  <2> QED
    BY <1>4, <2>2, FollowersOf
<1>9. NoneLate'
  BY <1>1, <1>7, <1>8 DEF PanelInv, NoneLate, AskedBack, NothingFinalBefore
<1> QED
  BY <1>3, <1>5, <1>9, <1>6 DEF PanelInv

\* The followers, those of a tab set to k and s.
Pair(t, k, s) ==
  [f \in Followers |-> IF f = <<t, "known">> THEN k ELSE IF f = <<t, "stray">> THEN s ELSE follow[f]]

\* All that a step of a tab may change: its entry, what the shelf keeps of it, its two followers, its calls.
TabChange(t, e, k, s, c, d) ==
  /\ entry' = [entry EXCEPT ![t] = e] /\ stored' \in {stored, Kept(e)}
  /\ follow' = Pair(t, k, s)
  /\ cancel' = [cancel EXCEPT ![t] = c] /\ delete' = [delete EXCEPT ![t] = d]
  /\ srv' = srv /\ news' \in [Tabs -> BOOLEAN] /\ presses' \in 0..MaxPresses

\* What makes such a change harmless: it tells of an end only after it, makes no follower hear more,
\* and keeps no follower with a late answer once the entry is over.
LEMMA TabChanges ==
  ASSUME PanelInv, NEW t \in Tabs, NEW e \in Entry, NEW k \in FollowRow, NEW s \in FollowRow,
         NEW c \in CancelRow, NEW d \in DeleteRow, TabChange(t, e, k, s, c, d),
         srv.st \in Active => /\ e.phase = "active" /\ ~e.deleted /\ ~e.onServer /\ ~e.lost
                              /\ s = Off /\ d.to = "none",
         k.got \in {Waits, follow[<<t, "known">>].got},
         s.got \in {Waits, follow[<<t, "known">>].got, follow[<<t, "stray">>].got},
         e.phase \in Over \/ s # Off => k.got.st \notin Active,
         c.got = Waits \/ c = cancel[t],
         d.got = Waits \/ d = delete[t],
         e.onServer \/ d.to \in {"deleting", "restore"} => AskedBack
  PROVE  PanelInv'
<1> USE AnswerKinds
<1> DEFINE known == <<t, "known">>
           stray == <<t, "stray">>
<1>1. /\ known \in Followers /\ stray \in Followers /\ known # stray
      /\ \A u \in Tabs : u # t => /\ <<u, "known">> \in Followers \ {known, stray}
                                  /\ <<u, "stray">> \in Followers \ {known, stray}
  BY DEF Followers
<1>2. /\ follow' \in [Followers -> FollowRow] /\ follow'[known] = k /\ follow'[stray] = s
      /\ \A f \in Followers \ {known, stray} : follow'[f] = follow[f]
  BY <1>1, TypesNamed DEF TabChange, Pair, PanelInv
<1>3. /\ entry' \in [Tabs -> Entry] /\ entry'[t] = e /\ \A u \in Tabs : u # t => entry'[u] = entry[u]
      /\ cancel' \in [Tabs -> CancelRow] /\ cancel'[t] = c /\ \A u \in Tabs : u # t => cancel'[u] = cancel[u]
      /\ delete' \in [Tabs -> DeleteRow] /\ delete'[t] = d /\ \A u \in Tabs : u # t => delete'[u] = delete[u]
  BY TypesNamed DEF TabChange, PanelInv
<1>4. /\ srv' = srv /\ stored' \in {stored, Kept(e)} /\ stored' \in KeptRow
      /\ Kept(e).deleted = e.deleted /\ Kept(e).onServer = e.onServer /\ Kept(e).lost = e.lost
  BY TypesNamed, EntriesWritten DEF TabChange, PanelInv, Kept
<1> HIDE DEF known, stray
<1>5. TypeOK'
  BY <1>2, <1>3, <1>4, TypesNamed
     DEF TabChange, PanelInv, TypeOK, FollowRow, CancelRow, DeleteRow, KeptRow, ServerRow, Terms
<1>6. OverMeansOver'
  BY <1>3, <1>4 DEF PanelInv, OverMeansOver
<1>7. NothingFinalBefore'
  <2>1. ASSUME srv.st \in Active, NEW f \in Followers  PROVE follow'[f].got.st \notin Final
    BY <2>1, <1>1, <1>2 DEF PanelInv, NothingFinalBefore, known, stray
  <2>2. ASSUME srv.st \in Active, NEW u \in Tabs
        PROVE  /\ cancel'[u].got.st \notin Final /\ delete'[u].to = "none" /\ follow'[<<u, "stray">>] = Off
               /\ ~entry'[u].deleted /\ ~entry'[u].onServer /\ ~entry'[u].lost
    <3>1. follow'[<<u, "stray">>] = Off
      <4>1. follow[<<u, "stray">>] = Off
        BY <2>2 DEF PanelInv, NothingFinalBefore
      <4>2. CASE u = t
        BY <2>2, <4>1, <4>2, <1>2 DEF stray
      <4>3. CASE u # t
        <5>1. <<u, "stray">> \in Followers \ {known, stray}
          BY <4>3, <1>1
        <5> QED
          BY <4>1, <5>1, <1>2
      <4> QED
        BY <4>2, <4>3
    <3>2. cancel'[u].got.st \notin Final
      <4>1. cancel[u].got.st \notin Final
        BY <2>2 DEF PanelInv, NothingFinalBefore
      <4> QED
        BY <4>1, <1>3
    <3>3. delete'[u].to = "none" /\ ~entry'[u].deleted /\ ~entry'[u].onServer /\ ~entry'[u].lost
      BY <2>2, <1>3 DEF PanelInv, NothingFinalBefore
    <3> QED
      BY <3>1, <3>2, <3>3
  <2>3. srv.st \in Active => ~stored'.deleted /\ ~stored'.onServer /\ ~stored'.lost
    BY <1>4 DEF PanelInv, NothingFinalBefore
  <2> QED
    BY <1>4, <2>1, <2>2, <2>3 DEF NothingFinalBefore
<1>8. AnswersFit'
  BY <1>3 DEF PanelInv, AnswersFit
<1>9. NobodyStale => NobodyStale'
  BY <1>1, <1>2 DEF NobodyStale, known, stray
<1>10. AskedBack' => AskedBack
  BY <1>3, <1>4 DEF AskedBack
<1>11. ASSUME NEW u \in Tabs, entry'[u].phase \in Over \/ follow'[<<u, "stray">>] # Off
       PROVE  follow'[<<u, "known">>].got.st \notin Active
  BY <1>1, <1>2, <1>3, <1>11 DEF PanelInv, NoneLate, known, stray
<1>12. (\E u \in Tabs : delete'[u].to = "restore" /\ delete'[u].got = NoJob) => NobodyStale'
  BY <1>3, <1>9 DEF PanelInv, NoneLate
<1>13. NoneLate'
  BY <1>4, <1>9, <1>10, <1>11, <1>12 DEF PanelInv, NoneLate
<1> QED
  BY <1>5, <1>6, <1>7, <1>8, <1>13 DEF PanelInv

\* The forms in which the actions write it.
LEMMA Forms ==
  ASSUME TypeOK, NEW t \in Tabs
  PROVE  /\ entry[t] \in Entry /\ cancel[t] \in CancelRow /\ delete[t] \in DeleteRow
         /\ follow[<<t, "known">>] \in FollowRow /\ follow[<<t, "stray">>] \in FollowRow
         /\ [entry EXCEPT ![t] = entry[t]] = entry
         /\ [cancel EXCEPT ![t] = cancel[t]] = cancel
         /\ [delete EXCEPT ![t] = delete[t]] = delete
         /\ follow = Pair(t, follow[<<t, "known">>], follow[<<t, "stray">>])
         /\ Stopped(t) = Pair(t, Off, follow[<<t, "stray">>])
         /\ \A k : [follow EXCEPT ![<<t, "known">>] = k] = Pair(t, k, follow[<<t, "stray">>])
         /\ \A s : [follow EXCEPT ![<<t, "stray">>] = s] = Pair(t, follow[<<t, "known">>], s)
         /\ \A s : [Stopped(t) EXCEPT ![<<t, "stray">>] = s] = Pair(t, Off, s)
<1>1. <<t, "known">> \in Followers /\ <<t, "stray">> \in Followers /\ <<t, "known">> # <<t, "stray">>
  BY DEF Followers
<1>2. follow \in [Followers -> FollowRow]
  BY TypesNamed
<1>3. /\ entry[t] \in Entry /\ cancel[t] \in CancelRow /\ delete[t] \in DeleteRow
      /\ [entry EXCEPT ![t] = entry[t]] = entry
      /\ [cancel EXCEPT ![t] = cancel[t]] = cancel
      /\ [delete EXCEPT ![t] = delete[t]] = delete
  BY TypesNamed
<1>4. /\ follow = Pair(t, follow[<<t, "known">>], follow[<<t, "stray">>])
      /\ Stopped(t) = Pair(t, Off, follow[<<t, "stray">>])
  BY <1>1, <1>2 DEF Pair, Stopped
<1>5. ASSUME NEW k  PROVE [follow EXCEPT ![<<t, "known">>] = k] = Pair(t, k, follow[<<t, "stray">>])
  BY <1>1, <1>2 DEF Pair
<1>6. ASSUME NEW s  PROVE [follow EXCEPT ![<<t, "stray">>] = s] = Pair(t, follow[<<t, "known">>], s)
  BY <1>1, <1>2 DEF Pair
<1>7. ASSUME NEW s  PROVE [Stopped(t) EXCEPT ![<<t, "stray">>] = s] = Pair(t, Off, s)
  BY <1>1, <1>2 DEF Pair, Stopped
<1> QED
  BY <1>1, <1>2, <1>3, <1>4, <1>5, <1>6, <1>7

\* What is shown, and what is persisted.
LEMMA Written ==
  ASSUME TypeOK, NEW t \in Tabs, NEW e, Show(t, e) \/ Keep(t, e)
  PROVE  entry' = [entry EXCEPT ![t] = e] /\ stored' \in {stored, Kept(e)} /\ news' \in [Tabs -> BOOLEAN]
BY TypesNamed DEF Show, Keep, shelf

\* A status or an end is written.
LEMMA DeliverKeeps ==
  ASSUME PanelInv, NEW f \in Followers, Deliver(f) \/ Gone(f), UNCHANGED <<srv, cancel, delete, presses>>
  PROVE  PanelInv'
<1> USE AnswerKinds, BreaksAssumption
<1> DEFINE t == f[1]
           g == follow[f].got
           x == IF g \in Doc /\ g.st \in Active THEN Following(follow[f].at, 0) ELSE Off
           e == IF g \in Doc THEN Applied(entry[t], g) ELSE Forgotten(entry[t])
           k == IF f = <<t, "known">> THEN x ELSE follow[<<t, "known">>]
           s == IF f = <<t, "stray">> THEN x ELSE follow[<<t, "stray">>]
<1>1. t \in Tabs /\ (f = <<t, "known">> \/ f = <<t, "stray">>) /\ <<t, "known">> # <<t, "stray">>
  BY FollowersOf
<1>2. g \in Doc \cup {NoJob} /\ follow[f].at \in {"off", "open", "stream", "ask"} /\ g # Waits
  BY <1>1, Forms DEF Deliver, Gone, PanelInv, FollowRow
<1>3. x \in FollowRow /\ x.got = Waits /\ k \in FollowRow /\ s \in FollowRow
  BY <1>1, <1>2, Forms, Calls, RowsWritten DEF PanelInv, Following, FollowRow
<1>4. e \in Entry
  BY <1>1, <1>2, Forms, EntriesWritten DEF PanelInv
<1>5. TabChange(t, e, k, s, cancel[t], delete[t])
  <2>1. Show(t, e) \/ Keep(t, e)
    BY <1>2 DEF Deliver, Gone, Apply
  <2>2. follow' = [follow EXCEPT ![f] = x]
    BY <1>2 DEF Deliver, Gone, Turn
  <2>3. follow' = Pair(t, k, s)
    <3>1. /\ [follow EXCEPT ![<<t, "known">>] = x] = Pair(t, x, follow[<<t, "stray">>])
          /\ [follow EXCEPT ![<<t, "stray">>] = x] = Pair(t, follow[<<t, "known">>], x)
      BY <1>1, Forms DEF PanelInv
    <3> HIDE DEF t, x
    <3>2. CASE f = <<t, "known">>
      BY <2>2, <3>1, <3>2, <1>1
    <3>3. CASE f = <<t, "stray">>
      BY <2>2, <3>1, <3>3, <1>1
    <3> QED
      BY <1>1, <3>2, <3>3
  <2> HIDE DEF t, e, k, s
  <2> QED
    BY <2>1, <2>3, <1>1, Written, Forms, TypesNamed DEF TabChange, PanelInv
<1>6. srv.st \in Active => /\ e.phase = "active" /\ ~e.deleted /\ ~e.onServer /\ ~e.lost
                          /\ s = Off /\ delete[t].to = "none"
  <2>1. SUFFICES ASSUME srv.st \in Active
                 PROVE  /\ e.phase = "active" /\ ~e.deleted /\ ~e.onServer /\ ~e.lost
                        /\ s = Off /\ delete[t].to = "none"
    OBVIOUS
  <2>2. /\ g.st \notin Final /\ ~entry[t].deleted /\ ~entry[t].onServer /\ ~entry[t].lost
        /\ delete[t].to = "none" /\ follow[<<t, "stray">>] = Off
    BY <2>1, <1>1 DEF PanelInv, NothingFinalBefore
  <2>3. g \in Doc /\ g.st \in Active /\ f # <<t, "stray">>
    BY <2>2, <1>2, Calls
  <2> QED
    BY <2>2, <2>3, <1>1, Forms DEF Applied, PanelInv, Entry
<1>7. /\ k.got \in {Waits, follow[<<t, "known">>].got}
      /\ s.got \in {Waits, follow[<<t, "known">>].got, follow[<<t, "stray">>].got}
  BY <1>3
<1>8. e.phase \in Over \/ s # Off => k.got.st \notin Active
  <2>1. CASE f = <<t, "known">>
    BY <2>1, <1>3
  <2>2. CASE f = <<t, "stray">>
    <3>1. follow[f] # Off
      BY <1>2, Calls
    <3> QED
      BY <2>2, <3>1, <1>1 DEF PanelInv, NoneLate
  <2> QED
    BY <1>1, <2>1, <2>2
<1>9. e.onServer = entry[t].onServer
  BY <1>1, Forms DEF PanelInv, Entry, Applied, Forgotten
<1>10. e.onServer \/ delete[t].to \in {"deleting", "restore"} => AskedBack
  BY <1>1, <1>9 DEF AskedBack
<1> HIDE DEF t, e, k, s
<1> QED
  BY <1>1, <1>3, <1>4, <1>5, <1>6, <1>7, <1>8, <1>10, Forms, TabChanges DEF PanelInv

\* A call goes on at the server.
LEMMA CallAnswered ==
  ASSUME PanelInv, NEW t \in Tabs, NEW c \in CancelRow, NEW d \in DeleteRow,
         cancel' = [cancel EXCEPT ![t] = c], delete' = [delete EXCEPT ![t] = d],
         UNCHANGED <<entry, follow, stored, news, presses>>,
         srv' \in ServerRow, srv'.st \in Active => srv.st \in Active,
         srv'.st = "dismissed" /\ srv'.held = "none" => srv' = srv \/ srv.st \in Active,
         srv'.st \in Active => c.got.st \notin Final,
         c.to = "none" => c.got = Waits,
         c.to = "dismiss" => c.got.st \notin Status,
         c.to = "dismissing" => c.got.st \in {"none", "error", "dismissed"},
         d = delete[t] \/ /\ delete[t].to # "none" /\ d.to # "none" /\ d.got.st \notin Active
                          /\ d.to = "delete" => d.got.st \notin Status
                          /\ d.to \in {"deleting", "restore"} => AskedBack \/ srv'.st # "dismissed"
                          /\ d.to = "restore" /\ d.got = NoJob => NobodyStale
  PROVE  PanelInv'
<1>1. /\ cancel' \in [Tabs -> CancelRow] /\ cancel'[t] = c /\ \A u \in Tabs : u # t => cancel'[u] = cancel[u]
      /\ delete' \in [Tabs -> DeleteRow] /\ delete'[t] = d /\ \A u \in Tabs : u # t => delete'[u] = delete[u]
  BY TypesNamed DEF PanelInv
<1>2. TypeOK'
  BY <1>1 DEF PanelInv, TypeOK, CancelRow, DeleteRow, ServerRow
<1>3. OverMeansOver'
  BY DEF PanelInv, OverMeansOver
<1>4. NothingFinalBefore'
  BY <1>1 DEF PanelInv, NothingFinalBefore
<1>5. AnswersFit'
  <2>1. d.to = "none" => d.got = Waits
    BY DEF PanelInv, AnswersFit
  <2>2. /\ d.to = "delete" => d.got.st \notin Status
        /\ d.got.st \notin Active
    BY DEF PanelInv, AnswersFit
  <2> QED
    BY <1>1, <2>1, <2>2 DEF PanelInv, AnswersFit
<1>6. NobodyStale' <=> NobodyStale
  BY DEF NobodyStale
<1>7. srv'.st = "dismissed" /\ srv'.held = "none" /\ AskedBack' => NobodyStale
  <2>1. SUFFICES ASSUME srv'.st = "dismissed", srv'.held = "none", AskedBack' PROVE NobodyStale
    OBVIOUS
  <2>2. AskedBack
    BY <2>1, <1>1 DEF AskedBack
  <2>3. srv.st \notin Active
    BY <2>2 DEF AskedBack, PanelInv, NothingFinalBefore
  <2> QED
    BY <2>1, <2>2, <2>3 DEF PanelInv, NoneLate
<1>8. (\E u \in Tabs : delete'[u].to = "restore" /\ delete'[u].got = NoJob) => NobodyStale
  BY <1>1 DEF PanelInv, NoneLate
<1>9. NoneLate'
  BY <1>6, <1>7, <1>8 DEF PanelInv, NoneLate
<1> QED
  BY <1>2, <1>3, <1>4, <1>5, <1>9 DEF PanelInv

\* What the server answers after it did as it was told.
LEMMA RowAfter ==
  ASSUME srv' \in ServerRow
  PROVE  Row' \in Answer /\ Row'.st = srv'.st /\ Row' # NoJob
<1>1. Expiry' \in Terms
  BY DEF Expiry, Terms
<1> QED
  BY <1>1, AnswerKinds DEF Row, Doc, Terms, ServerRow, NoJob

LEMMA ServerCancelsKeeps ==
  ASSUME PanelInv, NEW t \in Tabs, ServerCancels(t), UNCHANGED presses
  PROVE  PanelInv'
<1> USE AnswerKinds
<1>1. /\ cancel[t] \in CancelRow /\ [delete EXCEPT ![t] = delete[t]] = delete /\ delete[t] \in DeleteRow
      /\ srv \in ServerRow
  BY Forms, TypesNamed DEF PanelInv
<1>2. UNCHANGED <<entry, follow, delete, stored, news, presses>>
  BY DEF ServerCancels, shelf
<1>3. CASE Reads(cancel, t, "check") /\ UNCHANGED srv
  <2>1. PICK got \in {Read, Fails} : cancel' = [cancel EXCEPT ![t] = [cancel[t] EXCEPT !.got = got]]
    BY <1>3 DEF Reads
  <2>2. got \in Answer /\ (srv.st \in Active => got.st \notin Final)
    BY <2>1, <1>1, RowIsDoc DEF ServerRow
  <2>3. /\ [cancel[t] EXCEPT !.got = got] \in CancelRow
        /\ [cancel[t] EXCEPT !.got = got].to = "check" /\ [cancel[t] EXCEPT !.got = got].got = got
    BY <1>1, <1>3, <2>2 DEF Reads, CancelRow
  <2> QED
    BY <1>1, <1>2, <1>3, <2>1, <2>2, <2>3, CallAnswered
<1>4. CASE ChecksDelete(cancel, t, "dismiss", "dismissing") /\ UNCHANGED srv
  <2>1. CASE cancel' = [cancel EXCEPT ![t] = Call("dismissing")]
    <3>1. Call("dismissing") \in CancelRow /\ Call("dismissing").to = "dismissing" /\ Call("dismissing").got.st = "none"
      BY Calls, RowsWritten
    <3> QED
      BY <1>1, <1>2, <1>4, <2>1, <3>1, CallAnswered
  <2>2. CASE \E got \in {NoJob, Fails} : /\ cancel' = [cancel EXCEPT ![t] = [cancel[t] EXCEPT !.got = got]]
                                         /\ got = NoJob => ~Live
    <3>1. PICK got \in {NoJob, Fails} : /\ cancel' = [cancel EXCEPT ![t] = [cancel[t] EXCEPT !.got = got]]
                                        /\ got = NoJob => ~Live
      BY <2>2
    <3>2. /\ [cancel[t] EXCEPT !.got = got] \in CancelRow
          /\ [cancel[t] EXCEPT !.got = got].to = "dismiss" /\ [cancel[t] EXCEPT !.got = got].got = got
      BY <1>1, <1>4, <3>1 DEF ChecksDelete, CancelRow
    <3>3. got.st \notin Status /\ (srv.st \in Active => got.st \notin Final)
      BY <3>1 DEF Live
    <3> QED
      BY <1>1, <1>2, <1>4, <3>1, <3>2, <3>3, CallAnswered
  <2> QED
    BY <1>4, <2>1, <2>2 DEF ChecksDelete
<1>5. CASE Does(cancel, t, "dismissing", Dismissed)
  <2>1. /\ srv' \in ServerRow /\ srv'.st = "dismissed"
        /\ srv'.held = "none" => srv' = srv \/ srv.st \in Active
    BY <1>1, <1>5, Dismissals DEF Does, ServerRow
  <2>2. PICK got \in {Row', Fails} : cancel' = [cancel EXCEPT ![t] = [cancel[t] EXCEPT !.got = got]]
    BY <1>5 DEF Does
  <2>3. got \in Answer /\ got.st \in {"dismissed", "error"}
    BY <2>1, <2>2, RowAfter
  <2>4. /\ [cancel[t] EXCEPT !.got = got] \in CancelRow
        /\ [cancel[t] EXCEPT !.got = got].to = "dismissing" /\ [cancel[t] EXCEPT !.got = got].got = got
    BY <1>1, <1>5, <2>3 DEF Does, CancelRow
  <2> DEFINE c == [cancel[t] EXCEPT !.got = got]
  <2>5. cancel' = [cancel EXCEPT ![t] = c] /\ delete' = [delete EXCEPT ![t] = delete[t]]
    BY <1>1, <1>2, <2>2
  <2>6. c \in CancelRow /\ c.to = "dismissing" /\ c.got.st \in {"dismissed", "error"}
    BY <2>3, <2>4
  <2> HIDE DEF c
  <2> QED
    BY <1>1, <1>2, <2>1, <2>5, <2>6, CallAnswered
<1> QED
  BY <1>3, <1>4, <1>5 DEF ServerCancels

LEMMA ServerDeletesKeeps ==
  ASSUME PanelInv, NEW t \in Tabs, ServerDeletes(t), UNCHANGED presses
  PROVE  PanelInv'
<1> USE AnswerKinds
<1>1. /\ delete[t] \in DeleteRow /\ [cancel EXCEPT ![t] = cancel[t]] = cancel /\ cancel[t] \in CancelRow
      /\ srv \in ServerRow
  BY Forms, TypesNamed DEF PanelInv
<1>2. UNCHANGED <<entry, follow, cancel, stored, news, presses>>
  BY DEF ServerDeletes, shelf
<1>3. /\ delete[t].to # "none" /\ srv.st \notin Active
      /\ delete[t].to \in {"deleting", "restore"} => AskedBack
  <2>1. delete[t].to # "none"
    BY Calls DEF ServerDeletes, ChecksDelete, Does
  <2> QED
    BY <2>1 DEF PanelInv, NothingFinalBefore, AskedBack
<1>4. /\ cancel[t].to = "none" => cancel[t].got = Waits
      /\ cancel[t].to = "dismiss" => cancel[t].got.st \notin Status
      /\ cancel[t].to = "dismissing" => cancel[t].got.st \in {"none", "error", "dismissed"}
  BY DEF PanelInv, AnswersFit
<1>5. CASE ChecksDelete(delete, t, "delete", "deleting") /\ UNCHANGED srv
  <2>1. CASE Live /\ delete' = [delete EXCEPT ![t] = Call("deleting")]
    <3> DEFINE d == Call("deleting")
    <3>1. d \in DeleteRow /\ d.to = "deleting" /\ d.got.st \notin Active
      BY Calls, RowsWritten
    <3>2. srv'.st # "dismissed" /\ srv' = srv /\ cancel' = [cancel EXCEPT ![t] = cancel[t]]
      BY <1>1, <1>2, <1>5, <2>1 DEF Live
    <3>3. delete' = [delete EXCEPT ![t] = d]
      BY <2>1
    <3> HIDE DEF d
    <3> QED
      BY <1>1, <1>2, <1>3, <1>4, <3>1, <3>2, <3>3, CallAnswered
  <2>2. CASE \E got \in {NoJob, Fails} : delete' = [delete EXCEPT ![t] = [delete[t] EXCEPT !.got = got]]
    <3>1. PICK got \in {NoJob, Fails} : delete' = [delete EXCEPT ![t] = [delete[t] EXCEPT !.got = got]]
      BY <2>2
    <3>2. /\ [delete[t] EXCEPT !.got = got] \in DeleteRow
          /\ [delete[t] EXCEPT !.got = got].to = "delete" /\ [delete[t] EXCEPT !.got = got].got = got
      BY <1>1, <1>5, <3>1 DEF ChecksDelete, DeleteRow
    <3>3. got.st \notin Status
      BY <3>1
    <3> QED
      BY <1>1, <1>2, <1>3, <1>4, <1>5, <3>1, <3>2, <3>3, CallAnswered
  <2> QED
    BY <1>5, <2>1, <2>2 DEF ChecksDelete
<1>6. CASE Does(delete, t, "deleting", Dismissed)
  <2>1. /\ srv' \in ServerRow /\ srv'.st = "dismissed"
        /\ srv'.held = "none" => srv' = srv \/ srv.st \in Active
    BY <1>1, <1>6, Dismissals DEF Does, ServerRow
  <2>2. PICK got \in {Row', Fails} : delete' = [delete EXCEPT ![t] = [delete[t] EXCEPT !.got = got]]
    BY <1>6 DEF Does
  <2>3. got \in Answer /\ got.st \in {"dismissed", "error"}
    BY <2>1, <2>2, RowAfter
  <2>4. /\ [delete[t] EXCEPT !.got = got] \in DeleteRow
        /\ [delete[t] EXCEPT !.got = got].to = "deleting" /\ [delete[t] EXCEPT !.got = got].got = got
    BY <1>1, <1>6, <2>3 DEF Does, DeleteRow
  <2>5. AskedBack
    BY <1>3, <1>6 DEF Does
  <2> DEFINE d == [delete[t] EXCEPT !.got = got]
  <2>6. delete' = [delete EXCEPT ![t] = d] /\ cancel' = [cancel EXCEPT ![t] = cancel[t]]
    BY <1>1, <1>2, <2>2
  <2>7. d \in DeleteRow /\ d.to = "deleting" /\ d.got.st \in {"dismissed", "error"}
    BY <2>3, <2>4
  <2> HIDE DEF d
  <2> QED
    BY <1>1, <1>2, <1>3, <1>4, <2>1, <2>5, <2>6, <2>7, CallAnswered
<1>7. CASE Restored.st # "dismissed" /\ Does(delete, t, "restore", Restored)
  <2>1. /\ srv' \in ServerRow /\ srv'.st # "dismissed" /\ srv'.st \notin Active
    BY <1>1, <1>3, <1>7, Dismissals DEF Does, ServerRow
  <2>2. PICK got \in {Row', Fails} : delete' = [delete EXCEPT ![t] = [delete[t] EXCEPT !.got = got]]
    BY <1>7 DEF Does
  <2>3. got \in Answer /\ got.st \notin Active /\ got # NoJob
    BY <2>1, <2>2, RowAfter DEF ServerRow
  <2>4. /\ [delete[t] EXCEPT !.got = got] \in DeleteRow
        /\ [delete[t] EXCEPT !.got = got].to = "restore" /\ [delete[t] EXCEPT !.got = got].got = got
    BY <1>1, <1>7, <2>3 DEF Does, DeleteRow
  <2> QED
    BY <1>1, <1>2, <1>3, <1>4, <2>1, <2>2, <2>3, <2>4, CallAnswered
<1>8. ASSUME delete[t] = Call("restore"), UNCHANGED srv,
             NEW got \in {Fails} \cup (IF Restored.st = "dismissed" THEN {NoJob} ELSE {}),
             delete' = [delete EXCEPT ![t].got = got]
      PROVE  PanelInv'
  <2>1. delete[t].to = "restore" /\ delete' = [delete EXCEPT ![t] = [delete[t] EXCEPT !.got = got]]
    BY <1>8, Calls
  <2>2. got \in {Fails, NoJob} /\ (got = NoJob => Restored.st = "dismissed")
    BY <1>8
  <2>3. /\ [delete[t] EXCEPT !.got = got] \in DeleteRow
        /\ [delete[t] EXCEPT !.got = got].to = "restore" /\ [delete[t] EXCEPT !.got = got].got = got
    BY <1>1, <2>1, <2>2 DEF DeleteRow
  <2>4. got = NoJob => NobodyStale
    <3>1. got = NoJob => srv.st = "dismissed" /\ srv.held = "none"
      BY <1>1, <2>2 DEF Restored, ServerRow
    <3> QED
      BY <1>3, <2>1, <3>1 DEF PanelInv, NoneLate
  <2>5. got.st \notin Active
    BY <2>2
  <2> QED
    <3> DEFINE d == [delete[t] EXCEPT !.got = got]
    <3>1. d.to # "none" /\ d.to # "delete" /\ d.got.st \notin Active /\ AskedBack
      BY <1>3, <2>1, <2>3, <2>5
    <3>2. cancel' = [cancel EXCEPT ![t] = cancel[t]] /\ delete' = [delete EXCEPT ![t] = d] /\ srv' \in ServerRow
      BY <1>1, <1>2, <1>8, <2>1
    <3>3. srv'.st \notin Active /\ srv' = srv
      BY <1>3, <1>8
    <3>4. d \in DeleteRow /\ (d.to = "restore" /\ d.got = NoJob => NobodyStale)
      BY <2>3, <2>4
    <3> HIDE DEF d
    <3> QED
      BY <1>1, <1>2, <1>3, <1>4, <3>1, <3>2, <3>3, <3>4, CallAnswered
<1> QED
  BY <1>5, <1>6, <1>7, <1>8 DEF ServerDeletes

\* What a tab finds before it acts.
LEMMA Standing ==
  ASSUME PanelInv, NEW t \in Tabs
  PROVE  /\ entry[t] \in Entry /\ cancel[t] \in CancelRow /\ delete[t] \in DeleteRow
         /\ follow[<<t, "known">>] \in FollowRow /\ follow[<<t, "stray">>] \in FollowRow
         /\ stored \in KeptRow
         /\ srv.st \in Active =>
              /\ entry[t].phase = "active" /\ ~entry[t].deleted /\ ~entry[t].onServer /\ ~entry[t].lost
              /\ ~stored.deleted /\ ~stored.onServer /\ ~stored.lost
              /\ follow[<<t, "stray">>] = Off /\ delete[t].to = "none"
         /\ entry[t].phase \in Over \/ follow[<<t, "stray">>] # Off
              => follow[<<t, "known">>].got.st \notin Active
         /\ entry[t].onServer \/ stored.onServer \/ delete[t].to \in {"deleting", "restore"} => AskedBack
         /\ Off.got = Waits /\ Off.got.st = "none"
<1>1. /\ entry[t] \in Entry /\ cancel[t] \in CancelRow /\ delete[t] \in DeleteRow
      /\ follow[<<t, "known">>] \in FollowRow /\ follow[<<t, "stray">>] \in FollowRow
      /\ stored \in KeptRow
  BY Forms, TypesNamed DEF PanelInv
<1>2. srv.st \in Active =>
        /\ entry[t].phase = "active" /\ ~entry[t].deleted /\ ~entry[t].onServer /\ ~entry[t].lost
        /\ ~stored.deleted /\ ~stored.onServer /\ ~stored.lost
        /\ follow[<<t, "stray">>] = Off /\ delete[t].to = "none"
  BY <1>1 DEF PanelInv, OverMeansOver, NothingFinalBefore, Entry
<1>3. entry[t].phase \in Over \/ follow[<<t, "stray">>] # Off => follow[<<t, "known">>].got.st \notin Active
  BY DEF PanelInv, NoneLate
<1> QED
  BY <1>1, <1>2, <1>3, Calls, AnswerKinds DEF AskedBack

LEMMA FollowJobKeeps ==
  ASSUME PanelInv, NEW t \in Tabs, FollowJob(t)
  PROVE  PanelInv'
<1>1. PICK k \in Begins : follow' = Pair(t, k, follow[<<t, "stray">>])
  BY Forms DEF FollowJob, PanelInv
<1>2. k \in FollowRow /\ k.got = Waits /\ Waits.st = "none"
  BY RowsWritten, Calls, AnswerKinds
<1>3. TabChange(t, entry[t], k, follow[<<t, "stray">>], cancel[t], delete[t])
  BY <1>1, Forms, TypesNamed DEF FollowJob, TabChange, shelf, PanelInv
<1> QED
  BY <1>2, <1>3, Standing, TabChanges

\* The entry with what the shelf has of it; b when the shelf takes a deletion back.
Taken(e, b) ==
  [e EXCEPT !.deleted = stored.deleted, !.onServer = stored.onServer, !.lost = stored.lost,
            !.expires = stored.expires, !.phase = IF b THEN "active" ELSE @, !.status = @ /\ ~b]

LEMMA TakeShelfKeeps ==
  ASSUME PanelInv, NEW t \in Tabs, TakeShelf(t)
  PROVE  PanelInv'
<1>1. PICK e :
        /\ entry' = [entry EXCEPT ![t] = e]
        /\ \E b \in BOOLEAN : e = Taken(entry[t], b)
  <2>1. (entry[t].deleted /\ ~stored.deleted /\ ~stored.lost) \in BOOLEAN
    OBVIOUS
  <2> QED
    BY <2>1 DEF TakeShelf, Taken
<1>2. /\ e \in Entry /\ e.phase \in {"active", entry[t].phase}
      /\ e.deleted = stored.deleted /\ e.onServer = stored.onServer /\ e.lost = stored.lost
  <2>1. entry[t] \in Entry /\ stored \in KeptRow
    BY Standing
  <2>2. PICK b \in BOOLEAN : e = Taken(entry[t], b)
    BY <1>1
  <2>3. /\ (entry[t].status /\ ~b) \in BOOLEAN
        /\ (IF b THEN "active" ELSE entry[t].phase) \in {"active", entry[t].phase}
        /\ entry[t].phase \in {"active"} \cup Over
        /\ stored.deleted \in BOOLEAN /\ stored.onServer \in BOOLEAN /\ stored.lost \in BOOLEAN
        /\ stored.expires \in Terms
    BY <2>1 DEF Entry, KeptRow
  <2>4. e = [entry[t] EXCEPT
             !.deleted = stored.deleted, !.onServer = stored.onServer, !.lost = stored.lost,
             !.expires = stored.expires, !.phase = IF b THEN "active" ELSE entry[t].phase,
             !.status = entry[t].status /\ ~b]
    BY <2>2 DEF Taken
  <2>5. /\ e.phase = (IF b THEN "active" ELSE entry[t].phase)
        /\ e.deleted = stored.deleted /\ e.onServer = stored.onServer /\ e.lost = stored.lost
    BY <2>1, <2>4 DEF Entry
  <2>6. e \in Entry
    <3> DEFINE p == IF b THEN "active" ELSE entry[t].phase
               q == entry[t].status /\ ~b
    <3>1. p \in {"active"} \cup Over /\ q \in BOOLEAN
      BY <2>3
    <3>2. e = [entry[t] EXCEPT
             !.deleted = stored.deleted, !.onServer = stored.onServer, !.lost = stored.lost,
             !.expires = stored.expires, !.phase = p, !.status = q]
      BY <2>4
    <3> HIDE DEF p, q
    <3> QED
      BY <2>1, <2>3, <3>1, <3>2 DEF Entry, Terms
  <2> QED
    BY <2>3, <2>5, <2>6
<1>3. TabChange(t, e, follow[<<t, "known">>], follow[<<t, "stray">>], cancel[t], delete[t])
  BY <1>1, Forms, TypesNamed DEF TakeShelf, TabChange, calls, PanelInv
<1> QED
  BY <1>2, <1>3, Standing, TabChanges

-----------------------------------------------------------------------------
(* The buttons *)

LEMMA CancelJobKeeps ==
  ASSUME PanelInv, NEW t \in Tabs, CancelJob(t), presses' \in 0..MaxPresses
  PROVE  PanelInv'
<1> DEFINE e == [entry[t] EXCEPT !.cancelling = TRUE]
<1>1. /\ e \in Entry /\ e.phase = entry[t].phase
      /\ e.deleted = entry[t].deleted /\ e.onServer = entry[t].onServer /\ e.lost = entry[t].lost
  BY Standing DEF Entry
<1>2. Call("check") \in CancelRow /\ Call("check").got = Waits
  BY RowsWritten, Calls
<1>3. TabChange(t, e, follow[<<t, "known">>], follow[<<t, "stray">>], Call("check"), delete[t])
  BY Forms, Written, TypesNamed DEF CancelJob, TabChange, PanelInv
<1> HIDE DEF e
<1> QED
  BY <1>1, <1>2, <1>3, Standing, TabChanges

LEMMA DeleteOneKeeps ==
  ASSUME PanelInv, NEW t \in Tabs, DeleteOne(t), presses' \in 0..MaxPresses
  PROVE  PanelInv'
<1>1. entry[t] \in Entry /\ srv.st \notin Active
  BY Standing DEF DeleteOne
<1>2. Call("delete") \in DeleteRow /\ Call("delete").got = Waits /\ Call("delete").to = "delete"
  BY RowsWritten, Calls
<1>3. PICK e \in Entry, d \in {delete[t], Call("delete")} :
        /\ Show(t, e) \/ Keep(t, e)
        /\ delete' = [delete EXCEPT ![t] = d]
        /\ e.phase = entry[t].phase /\ (e.onServer => entry[t].onServer)
  <2>1. CASE /\ Show(t, [entry[t] EXCEPT !.deleting = TRUE])
             /\ delete' = [delete EXCEPT ![t] = Call("delete")]
    <3>1. /\ [entry[t] EXCEPT !.deleting = TRUE] \in Entry
          /\ [entry[t] EXCEPT !.deleting = TRUE].phase = entry[t].phase
          /\ [entry[t] EXCEPT !.deleting = TRUE].onServer = entry[t].onServer
      BY <1>1 DEF Entry
    <3> QED
      BY <2>1, <3>1
  <2>2. CASE Keep(t, [entry[t] EXCEPT !.deleted = TRUE, !.onServer = FALSE]) /\ UNCHANGED delete
    <3>1. /\ [entry[t] EXCEPT !.deleted = TRUE, !.onServer = FALSE] \in Entry
          /\ [entry[t] EXCEPT !.deleted = TRUE, !.onServer = FALSE].phase = entry[t].phase
          /\ ~[entry[t] EXCEPT !.deleted = TRUE, !.onServer = FALSE].onServer
      BY <1>1 DEF Entry
    <3> QED
      BY <2>2, <3>1, Forms DEF PanelInv
  <2> QED
    BY <2>1, <2>2 DEF DeleteOne
<1>4. TabChange(t, e, follow[<<t, "known">>], follow[<<t, "stray">>], cancel[t], d)
  BY <1>3, Forms, Written, TypesNamed DEF DeleteOne, TabChange, PanelInv
<1> QED
  BY <1>1, <1>2, <1>3, <1>4, Standing, TabChanges

LEMMA RestoreOneKeeps ==
  ASSUME PanelInv, NEW t \in Tabs, RestoreOne(t), presses' \in 0..MaxPresses
  PROVE  PanelInv'
<1>1. entry[t] \in Entry /\ srv.st \notin Active
  BY Standing DEF RestoreOne
<1>2. Call("restore") \in DeleteRow /\ Call("restore").got = Waits /\ Call("restore").to = "restore"
  BY RowsWritten, Calls
<1>3. PICK e \in Entry, d \in {delete[t], Call("restore")} :
        /\ Show(t, e) \/ Keep(t, e)
        /\ delete' = [delete EXCEPT ![t] = d]
        /\ e.phase = entry[t].phase /\ e.onServer = entry[t].onServer
        /\ d = delete[t] \/ entry[t].onServer
  <2>1. CASE Keep(t, [entry[t] EXCEPT !.deleted = FALSE]) /\ UNCHANGED delete /\ ~entry[t].onServer
    <3>1. /\ [entry[t] EXCEPT !.deleted = FALSE] \in Entry
          /\ [entry[t] EXCEPT !.deleted = FALSE].phase = entry[t].phase
          /\ [entry[t] EXCEPT !.deleted = FALSE].onServer = entry[t].onServer
      BY <1>1 DEF Entry
    <3> QED
      BY <2>1, <3>1, Forms DEF PanelInv
  <2>2. CASE /\ entry[t].onServer /\ Show(t, [entry[t] EXCEPT !.deleting = TRUE])
             /\ delete' = [delete EXCEPT ![t] = Call("restore")]
    <3>1. /\ [entry[t] EXCEPT !.deleting = TRUE] \in Entry
          /\ [entry[t] EXCEPT !.deleting = TRUE].phase = entry[t].phase
          /\ [entry[t] EXCEPT !.deleting = TRUE].onServer = entry[t].onServer
      BY <1>1 DEF Entry
    <3> QED
      BY <2>2, <3>1
  <2> QED
    BY <2>1, <2>2 DEF RestoreOne
<1>4. TabChange(t, e, follow[<<t, "known">>], follow[<<t, "stray">>], cancel[t], d)
  BY <1>3, Forms, Written, TypesNamed DEF RestoreOne, TabChange, PanelInv
<1> QED
  BY <1>1, <1>2, <1>3, <1>4, Standing, TabChanges

LEMMA EditKeeps ==
  ASSUME PanelInv, NEW t \in Tabs, Edit(t), presses' \in 0..MaxPresses
  PROVE  PanelInv'
<1>1. TabChange(t, entry[t], follow[<<t, "known">>], follow[<<t, "stray">>], cancel[t], delete[t])
  BY Forms, Written, TypesNamed DEF Edit, calls, TabChange, PanelInv
<1> QED
  BY <1>1, Standing, TabChanges

LEMMA ReloadKeeps ==
  ASSUME PanelInv, NEW t \in Tabs, Reload(t), presses' \in 0..MaxPresses
  PROVE  PanelInv'
<1>1. Off \in FollowRow /\ Off.got = Waits
  BY RowsWritten, Calls
<1>2. PICK k \in FollowRow :
        /\ k.got = Waits
        /\ follow' = [f \in Followers |->
             CASE f = <<t, "known">> -> k [] f = <<t, "stray">> -> Off [] OTHER -> follow[f]]
  BY <1>1, RowsWritten, Calls DEF Reload
<1>3. follow' = Pair(t, k, Off)
  BY <1>2 DEF Pair
<1>4. /\ Fresh(stored) \in Entry
      /\ Fresh(stored).deleted = stored.deleted /\ Fresh(stored).onServer = stored.onServer
      /\ Fresh(stored).lost = stored.lost
      /\ ~stored.deleted /\ ~stored.lost => Fresh(stored).phase = "active"
  BY EntriesWritten, TypesNamed DEF Fresh, PanelInv
<1>5. /\ Call("none") \in CancelRow /\ Call("none") \in DeleteRow
      /\ Call("none").got = Waits /\ Call("none").to = "none"
  BY RowsWritten, Calls
<1>6. TabChange(t, Fresh(stored), k, Off, Call("none"), Call("none"))
  BY <1>3, TypesNamed DEF Reload, TabChange, PanelInv
<1> QED
  BY <1>1, <1>2, <1>4, <1>5, <1>6, Standing, TabChanges, AnswerKinds

-----------------------------------------------------------------------------
(* The answers *)

LEMMA CancelAnswerKeeps ==
  ASSUME PanelInv, NEW t \in Tabs, CancelAnswer(t), UNCHANGED presses
  PROVE  PanelInv'
<1> USE AnswerKinds
<1> DEFINE got == cancel[t].got
           e0  == [entry[t] EXCEPT !.cancelling = FALSE]
<1>1. /\ entry[t] \in Entry /\ cancel[t] \in CancelRow /\ got \in Answer /\ got # Waits
      /\ e0 \in Entry /\ e0.phase = entry[t].phase
      /\ e0.deleted = entry[t].deleted /\ e0.onServer = entry[t].onServer /\ e0.lost = entry[t].lost
  <2>1. entry[t] \in Entry /\ cancel[t] \in CancelRow
    BY Standing
  <2>2. got \in Answer /\ got # Waits
    BY <2>1 DEF CancelAnswer, CancelRow
  <2>3. /\ e0 \in Entry /\ e0.phase = entry[t].phase
        /\ e0.deleted = entry[t].deleted /\ e0.onServer = entry[t].onServer /\ e0.lost = entry[t].lost
    BY <2>1 DEF Entry
  <2> QED
    BY <2>1, <2>2, <2>3
<1>2. srv.st \in Active => got.st \notin Final
  BY DEF PanelInv, NothingFinalBefore
<1>3. /\ Call("dismiss") \in CancelRow /\ Call("dismiss").got = Waits
      /\ Call("none") \in CancelRow /\ Call("none").got = Waits
      /\ Off \in FollowRow
  BY RowsWritten, Calls
<1>4. UNCHANGED <<srv, delete, presses>>
  BY DEF CancelAnswer
<1>5. CASE cancel' = [cancel EXCEPT ![t] = Call("dismiss")] /\ UNCHANGED <<entry, follow, shelf>>
  <2>1. TabChange(t, entry[t], follow[<<t, "known">>], follow[<<t, "stray">>], Call("dismiss"), delete[t])
    BY <1>4, <1>5, Forms, TypesNamed DEF TabChange, shelf, PanelInv
  <2> QED
    BY <1>3, <2>1, Standing, TabChanges
<1>6. ASSUME cancel' = [cancel EXCEPT ![t] = Call("none")], NEW e \in Entry, Show(t, e) \/ Keep(t, e),
             e.onServer = entry[t].onServer, srv.st \notin Active, follow' = Stopped(t)
      PROVE  PanelInv'
  <2>1. TabChange(t, e, Off, follow[<<t, "stray">>], Call("none"), delete[t])
    BY <1>4, <1>6, Forms, Written, TypesNamed DEF TabChange, PanelInv
  <2> QED
    BY <1>3, <1>6, <2>1, Standing, TabChanges
<1>7. CASE /\ cancel' = [cancel EXCEPT ![t] = Call("none")] /\ got.st \in Finished
           /\ Apply(t, e0, got) /\ follow' = Stopped(t)
  <2>1. Show(t, Applied(e0, got)) \/ Keep(t, Applied(e0, got))
    BY <1>7 DEF Apply
  <2>2. Applied(e0, got) \in Entry /\ Applied(e0, got).onServer = entry[t].onServer
    <3>1. got \in Doc
      BY <1>1, <1>7
    <3> HIDE DEF e0, got
    <3>2. Applied(e0, got) \in Entry
      BY <1>1, <3>1, EntriesWritten
    <3>3. Applied(e0, got).onServer = e0.onServer
      BY <1>1, FieldsKept
    <3> QED
      BY <1>1, <3>2, <3>3
  <2> QED
    BY <1>2, <1>6, <1>7, <2>1, <2>2
<1>8. CASE /\ cancel' = [cancel EXCEPT ![t] = Call("none")] /\ cancel[t].to # "check" /\ got \in Doc
           /\ Show(t, [e0 EXCEPT !.phase = "dismissed"]) /\ follow' = Stopped(t)
  <2>1. srv.st \notin Active
    BY <1>1, <1>2, <1>8 DEF PanelInv, AnswersFit, CancelRow
  <2>2. [e0 EXCEPT !.phase = "dismissed"] \in Entry /\ [e0 EXCEPT !.phase = "dismissed"].onServer = e0.onServer
    BY <1>1 DEF Entry
  <2> HIDE DEF e0
  <2> QED
    BY <1>1, <1>6, <1>8, <2>1, <2>2
<1>9. CASE /\ cancel' = [cancel EXCEPT ![t] = Call("none")] /\ got = NoJob
           /\ Keep(t, Forgotten(e0)) /\ follow' = Stopped(t)
  <2>1. Forgotten(e0) \in Entry /\ Forgotten(e0).onServer = entry[t].onServer
    <3> HIDE DEF e0
    <3> QED
      BY <1>1, EntriesWritten, FieldsKept
  <2>2. srv.st \notin Active
    BY <1>2, <1>9
  <2> QED
    BY <1>6, <1>9, <2>1, <2>2
<1>10. CASE /\ cancel' = [cancel EXCEPT ![t] = Call("none")] /\ Show(t, e0) /\ UNCHANGED follow
  <2>1. TabChange(t, e0, follow[<<t, "known">>], follow[<<t, "stray">>], Call("none"), delete[t])
    BY <1>4, <1>10, Forms, Written, TypesNamed DEF TabChange, PanelInv
  <2> HIDE DEF e0, got
  <2>2. srv.st \in Active => e0.phase = "active" /\ ~e0.deleted /\ ~e0.onServer /\ ~e0.lost
    BY <1>1, Standing
  <2> QED
    BY <1>1, <1>3, <2>1, <2>2, Standing, TabChanges
<1> QED
  BY <1>5, <1>7, <1>8, <1>9, <1>10 DEF CancelAnswer

LEMMA DeleteAnswerKeeps ==
  ASSUME PanelInv, NEW t \in Tabs, DeleteAnswer(t), UNCHANGED presses
  PROVE  PanelInv'
<1> USE AnswerKinds
<1> DEFINE got == delete[t].got
           e0  == [entry[t] EXCEPT !.deleting = FALSE]
<1>1. /\ entry[t] \in Entry /\ delete[t] \in DeleteRow
      /\ e0 \in Entry /\ e0.phase = entry[t].phase /\ e0.onServer = entry[t].onServer
  <2>1. entry[t] \in Entry /\ delete[t] \in DeleteRow
    BY Standing
  <2> QED
    BY <2>1 DEF Entry
<1>2. srv.st \notin Active
  BY DEF DeleteAnswer, PanelInv, NothingFinalBefore
<1>3. /\ Call("none") \in DeleteRow /\ Call("none").got = Waits /\ Call("none").to = "none"
      /\ Off \in FollowRow
  BY RowsWritten, Calls
<1>4. UNCHANGED <<srv, cancel, presses>> /\ delete' = [delete EXCEPT ![t] = Call("none")]
  BY DEF DeleteAnswer
<1>5. ASSUME NEW e \in Entry, Show(t, e) \/ Keep(t, e), e.onServer => AskedBack, follow' = Stopped(t)
      PROVE  PanelInv'
  <2>1. TabChange(t, e, Off, follow[<<t, "stray">>], cancel[t], Call("none"))
    BY <1>4, <1>5, Forms, Written, TypesNamed DEF TabChange, PanelInv
  <2> QED
    BY <1>2, <1>3, <1>5, <2>1, Standing, TabChanges
<1>6. CASE /\ got \in Doc /\ follow' = Stopped(t)
           /\ Keep(t, [e0 EXCEPT !.deleted = TRUE, !.onServer = TRUE, !.phase = "dismissed"])
  <2>1. AskedBack
    <3>1. delete[t].to = "deleting"
      BY <1>1, <1>6 DEF DeleteAnswer, PanelInv, AnswersFit, DeleteRow
    <3> QED
      BY <3>1 DEF AskedBack
  <2>2. [e0 EXCEPT !.deleted = TRUE, !.onServer = TRUE, !.phase = "dismissed"] \in Entry
    BY <1>1 DEF Entry
  <2> HIDE DEF e0
  <2> QED
    BY <1>5, <1>6, <2>1, <2>2
<1>7. CASE /\ follow' = Stopped(t)
           /\ Keep(t, [Forgotten(e0) EXCEPT !.deleted = TRUE, !.onServer = FALSE])
  <2>1. /\ [Forgotten(e0) EXCEPT !.deleted = TRUE, !.onServer = FALSE] \in Entry
        /\ ~[Forgotten(e0) EXCEPT !.deleted = TRUE, !.onServer = FALSE].onServer
    <3>1. Forgotten(e0) \in Entry
      BY <1>1, EntriesWritten
    <3> HIDE DEF e0
    <3> QED
      BY <3>1 DEF Entry
  <2> HIDE DEF e0
  <2> QED
    BY <1>5, <1>7, <2>1
<1>8. CASE Show(t, e0) /\ UNCHANGED follow
  <2>1. TabChange(t, e0, follow[<<t, "known">>], follow[<<t, "stray">>], cancel[t], Call("none"))
    BY <1>4, <1>8, Forms, Written, TypesNamed DEF TabChange, PanelInv
  <2> HIDE DEF e0
  <2> QED
    BY <1>1, <1>2, <1>3, <2>1, Standing, TabChanges
<1> QED
  BY <1>6, <1>7, <1>8 DEF DeleteAnswer

LEMMA RestoreAnswerKeeps ==
  ASSUME PanelInv, NEW t \in Tabs, RestoreAnswer(t), UNCHANGED presses
  PROVE  PanelInv'
<1> USE AnswerKinds
<1> DEFINE got  == delete[t].got
           e0   == [entry[t] EXCEPT !.deleting = FALSE]
           back == [e0 EXCEPT !.deleted = FALSE, !.onServer = FALSE]
           known == follow[<<t, "known">>]
           stray == follow[<<t, "stray">>]
<1>1. /\ entry[t] \in Entry /\ delete[t] \in DeleteRow /\ known \in FollowRow /\ stray \in FollowRow
      /\ e0 \in Entry /\ e0.phase = entry[t].phase /\ e0.onServer = entry[t].onServer
      /\ back \in Entry /\ back.onServer = FALSE
  <2>1. entry[t] \in Entry /\ delete[t] \in DeleteRow /\ known \in FollowRow /\ stray \in FollowRow
    BY Standing
  <2>2. e0 \in Entry /\ e0.phase = entry[t].phase /\ e0.onServer = entry[t].onServer
    BY <2>1 DEF Entry
  <2> HIDE DEF e0
  <2>3. back \in Entry /\ back.onServer = FALSE
    BY <2>2 DEF Entry
  <2> QED
    BY <2>1, <2>2, <2>3
<1>2. srv.st \notin Active
  BY DEF RestoreAnswer, PanelInv, NothingFinalBefore
<1>3. /\ Call("none") \in DeleteRow /\ Call("none").got = Waits /\ Call("none").to = "none"
      /\ Off \in FollowRow /\ Off.got = Waits
  BY RowsWritten, Calls
<1>4. UNCHANGED <<srv, cancel, presses>> /\ delete' = [delete EXCEPT ![t] = Call("none")]
  BY DEF RestoreAnswer
<1>5. CASE /\ got \in Doc /\ Keep(t, Applied(back, got))
           /\ follow' = IF got.st \in Active \/ known = Off THEN follow
                        ELSE [Stopped(t) EXCEPT ![<<t, "stray">>] = known]
  <2>1. Applied(back, got) \in Entry /\ Applied(back, got).onServer = FALSE
    <3> HIDE DEF back, got
    <3>1. Applied(back, got) \in Entry
      BY <1>1, <1>5, EntriesWritten
    <3>2. Applied(back, got).onServer = back.onServer
      BY <1>1, FieldsKept
    <3> QED
      BY <1>1, <3>1, <3>2
  <2>2. got.st \notin Active
    BY DEF PanelInv, AnswersFit
  <2>3. PICK s \in {known, stray} : follow' = Pair(t, Off, s)
    <3>1. CASE known = Off
      BY <1>5, <3>1, Forms DEF PanelInv
    <3>2. CASE known # Off
      BY <1>5, <2>2, <3>2, Forms DEF PanelInv
    <3> QED
      BY <3>1, <3>2
  <2>4. TabChange(t, Applied(back, got), Off, s, cancel[t], Call("none"))
    <3> HIDE DEF back
    <3> QED
      BY <1>4, <1>5, <2>3, Forms, Written, TypesNamed DEF TabChange, PanelInv
  <2> HIDE DEF back
  <2> QED
    BY <1>1, <1>2, <1>3, <2>1, <2>3, <2>4, Standing, TabChanges
<1>6. CASE got = NoJob /\ Keep(t, Forgotten(back)) /\ UNCHANGED follow
  <2>1. Forgotten(back) \in Entry /\ Forgotten(back).onServer = FALSE
    <3> HIDE DEF back
    <3> QED
      BY <1>1, EntriesWritten, FieldsKept
  <2>2. known.got.st \notin Active
    BY <1>6, FollowersOf DEF RestoreAnswer, PanelInv, NoneLate, NobodyStale
  <2>3. TabChange(t, Forgotten(back), known, stray, cancel[t], Call("none"))
    <3> HIDE DEF back
    <3> QED
      BY <1>4, <1>6, Forms, Written, TypesNamed DEF TabChange, PanelInv
  <2> HIDE DEF back
  <2> QED
    BY <1>1, <1>2, <1>3, <2>1, <2>2, <2>3, Standing, TabChanges
<1>7. CASE Show(t, e0) /\ UNCHANGED follow
  <2>1. TabChange(t, e0, known, stray, cancel[t], Call("none"))
    BY <1>4, <1>7, Forms, Written, TypesNamed DEF TabChange, PanelInv
  <2> HIDE DEF e0, got, back
  <2> QED
    BY <1>1, <1>2, <1>3, <2>1, Standing, TabChanges
<1> QED
  BY <1>5, <1>6, <1>7 DEF RestoreAnswer

-----------------------------------------------------------------------------
(* The theorems *)

LEMMA InitPanel == Init => PanelInv
<1> SUFFICES ASSUME Init PROVE PanelInv
  OBVIOUS
<1> USE AnswerKinds, Calls
<1>1. srv = [st |-> "accepted", held |-> "none"]
  BY DEF Init
<1>2. PICK begin \in Begins : follow = [f \in Followers |-> IF f = <<Mine, "known">> THEN begin ELSE Off]
  BY DEF Init
<1>3. \A f \in Followers : follow[f].got = Waits
  BY <1>2
<1>4. \A t \in Tabs : follow[<<t, "stray">>] = Off
  BY <1>2, FollowersOf
<1>5. /\ Placed \in KeptRow /\ Fresh(Placed) \in Entry
      /\ Fresh(Placed).phase = "active" /\ ~Fresh(Placed).deleted /\ ~Fresh(Placed).onServer /\ ~Fresh(Placed).lost
  <2>1. Placed \in KeptRow
    BY DEF Placed, KeptRow, Terms
  <2> QED
    BY <2>1, EntriesWritten DEF Fresh, Placed
<1>6. ASSUME NEW t \in Tabs
      PROVE  /\ entry[t] \in Entry
             /\ entry[t].phase = "active" /\ ~entry[t].deleted /\ ~entry[t].onServer /\ ~entry[t].lost
  <2>1. entry[t] = [Fresh(Placed) EXCEPT !.status = (t = Mine)]
    BY DEF Init
  <2>2. (t = Mine) \in BOOLEAN
    OBVIOUS
  <2> QED
    BY <1>5, <2>1, <2>2 DEF Entry
<1>7. TypeOK
  <2>1. follow \in [Followers -> FollowRow]
    BY <1>2, RowsWritten
  <2>2. cancel \in [Tabs -> CancelRow] /\ delete \in [Tabs -> DeleteRow]
    BY RowsWritten DEF Init
  <2>3. entry \in [Tabs -> Entry]
    BY <1>6 DEF Init
  <2>4. srv \in ServerRow /\ stored \in KeptRow /\ news \in [Tabs -> BOOLEAN] /\ presses \in 0..MaxPresses
    BY <1>1, <1>5, MaxPressesAssumption DEF Init, ServerRow
  <2> QED
    BY <2>1, <2>2, <2>3, <2>4, TypesNamed
<1>8. OverMeansOver
  BY <1>6 DEF OverMeansOver
<1>9. NothingFinalBefore
  BY <1>3, <1>4, <1>6 DEF NothingFinalBefore, Init, Placed
<1>10. AnswersFit
  BY DEF AnswersFit, Init
<1>11. NoneLate
  BY <1>1, <1>3, <1>6, FollowersOf DEF NoneLate, NobodyStale, AskedBack, Init
<1> QED
  BY <1>7, <1>8, <1>9, <1>10, <1>11 DEF PanelInv

LEMMA StepPanel == PanelInv /\ [Next]_vars => PanelInv'
<1> SUFFICES ASSUME PanelInv, [Next]_vars PROVE PanelInv'
  OBVIOUS
<1>1. CASE UNCHANGED vars
  <2>1. UNCHANGED <<srv, entry, follow, cancel, delete, stored, news, presses>>
    BY <1>1 DEF vars, calls, shelf
  <2> QED
    BY <2>1 DEF PanelInv, TypeOK, OverMeansOver, NothingFinalBefore, AnswersFit, NoneLate, NobodyStale, AskedBack
<1>2. CASE (\E st \in Status : Moves(st)) \/ TermEnds
  BY <1>2, ServerSteps
<1>3. CASE \E f \in Followers : FollowStep(f)
  BY <1>3, Hearings, DeliverKeeps DEF FollowStep
<1>4. ASSUME NEW t \in Tabs, FollowJob(t) \/ TakeShelf(t)  PROVE PanelInv'
  BY <1>4, FollowJobKeeps, TakeShelfKeeps
<1>5. ASSUME NEW t \in Tabs, Press(t)  PROVE PanelInv'
  <2>1. presses' \in 0..MaxPresses
    BY <1>5, TypesNamed, MaxPressesAssumption DEF Press, PanelInv
  <2> QED
    BY <1>5, <2>1, CancelJobKeeps, DeleteOneKeeps, RestoreOneKeeps, EditKeeps, ReloadKeeps DEF Press
<1>6. ASSUME NEW t \in Tabs, CancelStep(t) \/ DeleteStep(t)  PROVE PanelInv'
  BY <1>6, ServerCancelsKeeps, ServerDeletesKeeps, CancelAnswerKeeps, DeleteAnswerKeeps, RestoreAnswerKeeps
     DEF CancelStep, DeleteStep
<1> QED
  BY <1>1, <1>2, <1>3, <1>4, <1>5, <1>6 DEF Next

\* What a tab shows as over is over on the server, in whatever order answers, other tabs' writes and
\* restorations reach it (processingStore.ts, jobTracker.ts).  Until the job is over no answer on its
\* way, no shelf and no call tells of an end; afterwards only a follower nobody stopped can be late.
THEOREM PanelTellsTheTruth == Spec => []PanelInv
<1>1. Init => PanelInv
  BY InitPanel
<1>2. PanelInv /\ [Next]_vars => PanelInv'
  BY StepPanel
<1> QED
  BY <1>1, <1>2, PTL DEF Spec

LEMMA StaysOver ==
  ASSUME PanelInv, [Next]_vars, NEW t \in Tabs,
         entry[t].phase \in Over, entry'[t].phase = "active", entry'[t].status
  PROVE  follow[<<t, "stray">>] # Off
<1> USE AnswerKinds
<1>1. entry[t] \in Entry /\ entry \in [Tabs -> Entry] /\ entry'[t] # entry[t] /\ srv.st \notin Active
  BY Standing, TypesNamed DEF PanelInv
\* Only a change of the tab's own entry counts.
<1>2. ASSUME NEW u \in Tabs, NEW e, entry' = [entry EXCEPT ![u] = e]  PROVE u = t /\ entry'[t] = e
  BY <1>1, <1>2
<1>3. CASE UNCHANGED vars \/ (\E st \in Status : Moves(st)) \/ TermEnds
  BY <1>1, <1>3 DEF vars, Moves, TermEnds
<1>4. ASSUME NEW f \in Followers, FollowStep(f)  PROVE follow[<<t, "stray">>] # Off
  <2>1. CASE Deliver(f)
    <3>1. entry' = [entry EXCEPT ![f[1]] = Applied(entry[f[1]], follow[f].got)]
      BY <2>1 DEF Deliver, Apply, Show, Keep
    <3>2. f[1] = t /\ entry'[t] = Applied(entry[t], follow[f].got)
      BY <3>1, <1>2, FollowersOf
    <3>3. follow[f].got.st \in Active
      <4>1. follow[f].got.st \in Status
        BY <2>1 DEF Deliver
      <4>2. Applied(entry[t], follow[f].got).phase
              = IF follow[f].got.st \in Active THEN "active" ELSE follow[f].got.st
        BY <1>1, FieldsKept
      <4> QED
        BY <3>2, <4>1, <4>2
    <3>4. f # <<t, "known">> /\ follow[f].got # Waits
      BY <3>3, Standing
    <3> QED
      BY <3>2, <3>4, FollowersOf, Calls
  <2>2. CASE Gone(f)
    <3>1. entry' = [entry EXCEPT ![f[1]] = Forgotten(entry[f[1]])]
      BY <2>2 DEF Gone, Keep
    <3>2. entry'[t] = Forgotten(entry[t])
      BY <3>1, <1>2, FollowersOf
    <3> QED
      BY <1>1, <3>2 DEF Forgotten, Entry
  <2> QED
    BY <1>1, <1>4, <2>1, <2>2 DEF FollowStep, Connects, Break, Event, Asked
\* A button leaves the phase, a page loaded anew has read nothing, and neither has the shelf.
<1>5. ASSUME NEW u \in Tabs, FollowJob(u) \/ TakeShelf(u) \/ Press(u)  PROVE FALSE
  <2>1. CASE FollowJob(u)
    BY <1>1, <2>1 DEF FollowJob
  <2>2. CASE TakeShelf(u)
    <3>1. PICK e : /\ entry' = [entry EXCEPT ![u] = e]
                   /\ \E b \in BOOLEAN : e = Taken(entry[u], b)
      <4>1. (entry[u].deleted /\ ~stored.deleted /\ ~stored.lost) \in BOOLEAN
        OBVIOUS
      <4> QED
        BY <2>2, <4>1 DEF TakeShelf, Taken
    <3>2. u = t /\ entry'[t] = e
      BY <3>1, <1>2
    <3>3. PICK b \in BOOLEAN : e = Taken(entry[t], b)
      BY <3>1, <3>2
    <3>4. e.phase = (IF b THEN "active" ELSE entry[t].phase) /\ e.status = (entry[t].status /\ ~b)
      BY <1>1, <3>3 DEF Taken, Entry
    <3> QED
      BY <1>1, <3>2, <3>4
  <2>3. CASE Press(u)
    <3>1. CASE Reload(u)
      BY <1>2, <3>1 DEF Reload, Fresh
    <3>2. PICK e : entry' = [entry EXCEPT ![u] = e] /\ (e.phase = entry[u].phase \/ Reload(u))
      <4>1. entry[u] \in Entry
        BY Standing
      <4>2. ASSUME NEW b \in BOOLEAN
            PROVE  /\ [entry[u] EXCEPT !.cancelling = b].phase = entry[u].phase
                   /\ [entry[u] EXCEPT !.deleting = b].phase = entry[u].phase
                   /\ [entry[u] EXCEPT !.deleted = b].phase = entry[u].phase
                   /\ [entry[u] EXCEPT !.deleted = b, !.onServer = FALSE].phase = entry[u].phase
        BY <4>1 DEF Entry
      <4>3. CASE Reload(u)
        BY <4>3 DEF Reload
      <4>4. CASE CancelJob(u)
        BY <4>2, <4>4 DEF CancelJob, Show
      <4>5. CASE DeleteOne(u)
        BY <4>2, <4>5 DEF DeleteOne, Show, Keep
      <4>6. CASE RestoreOne(u)
        BY <4>2, <4>6 DEF RestoreOne, Show, Keep
      <4>7. CASE Edit(u)
        BY <4>7 DEF Edit, Keep
      <4> QED
        BY <2>3, <4>3, <4>4, <4>5, <4>6, <4>7 DEF Press
    <3> QED
      BY <1>1, <1>2, <3>1, <3>2
  <2> QED
    BY <1>5, <2>1, <2>2, <2>3
\* An answer writes a phase that is over, or none.
<1>6. ASSUME NEW u \in Tabs, CancelStep(u)  PROVE FALSE
  <2> DEFINE e0 == [entry[u] EXCEPT !.cancelling = FALSE]
  <2>1. e0 \in Entry /\ e0.phase = entry[u].phase
    <3>1. entry[u] \in Entry
      BY Standing
    <3> QED
      BY <3>1 DEF Entry
  <2>2. CASE ServerCancels(u)
    BY <1>1, <2>2 DEF ServerCancels
  <2>3. CASE CancelAnswer(u)
    <3> HIDE DEF e0
    <3>1. PICK e : entry' = [entry EXCEPT ![u] = e] /\ (e.phase = entry[u].phase \/ e.phase \in Over)
      <4>1. CASE UNCHANGED entry
        BY <1>1, <4>1
      <4>2. CASE cancel[u].got.st \in Finished /\ Apply(u, e0, cancel[u].got)
        <5>1. entry' = [entry EXCEPT ![u] = Applied(e0, cancel[u].got)]
          BY <4>2 DEF Apply, Show, Keep
        <5>2. Applied(e0, cancel[u].got).phase = cancel[u].got.st
          <6>1. cancel[u].got.st \notin Active
            BY <4>2
          <6> QED
            BY <2>1, <6>1, FieldsKept
        <5> QED
          BY <4>2, <5>1, <5>2
      <4>3. CASE Show(u, [e0 EXCEPT !.phase = "dismissed"])
        BY <2>1, <4>3 DEF Show, Entry
      <4>4. CASE Keep(u, Forgotten(e0))
        BY <2>1, <4>4, FieldsKept DEF Keep
      <4>5. CASE Show(u, e0)
        BY <2>1, <4>5 DEF Show
      <4> QED
        BY <2>3, <4>1, <4>2, <4>3, <4>4, <4>5 DEF CancelAnswer, e0
    <3> QED
      BY <1>1, <1>2, <3>1
  <2> QED
    BY <1>6, <2>2, <2>3 DEF CancelStep
<1>7. ASSUME NEW u \in Tabs, DeleteStep(u)  PROVE FALSE
  <2> DEFINE e0 == [entry[u] EXCEPT !.deleting = FALSE]
             back == [e0 EXCEPT !.deleted = FALSE, !.onServer = FALSE]
  <2>1. e0 \in Entry /\ e0.phase = entry[u].phase /\ back \in Entry
    <3>1. entry[u] \in Entry
      BY Standing
    <3>2. e0 \in Entry /\ e0.phase = entry[u].phase
      BY <3>1 DEF Entry
    <3> HIDE DEF e0
    <3>3. back \in Entry
      BY <3>2 DEF Entry
    <3> QED
      BY <3>2, <3>3
  <2>2. CASE ServerDeletes(u)
    BY <1>1, <2>2 DEF ServerDeletes
  <2>3. CASE DeleteAnswer(u)
    <3>1. PICK e : entry' = [entry EXCEPT ![u] = e] /\ (e.phase = entry[u].phase \/ e.phase \in Over)
      <4>1. CASE Keep(u, [e0 EXCEPT !.deleted = TRUE, !.onServer = TRUE, !.phase = "dismissed"])
        <5> HIDE DEF e0
        <5> QED
          BY <2>1, <4>1 DEF Keep, Entry
      <4>2. CASE Keep(u, [Forgotten(e0) EXCEPT !.deleted = TRUE, !.onServer = FALSE])
        <5> HIDE DEF e0
        <5> QED
          BY <2>1, <4>2 DEF Keep, Forgotten, Entry
      <4>3. CASE Show(u, e0)
        BY <2>1, <4>3 DEF Show
      <4> QED
        BY <2>3, <4>1, <4>2, <4>3 DEF DeleteAnswer
    <3> QED
      BY <1>1, <1>2, <3>1
  <2>4. CASE RestoreAnswer(u)
    <3>0. delete[u].got.st \notin Active
      BY DEF PanelInv, AnswersFit
    <3>1. PICK e : entry' = [entry EXCEPT ![u] = e] /\ (e.phase = entry[u].phase \/ e.phase \in Over)
      <4>1. CASE delete[u].got \in Doc /\ Keep(u, Applied(back, delete[u].got))
        <5>1. delete[u].got.st \in Finished \cup {"dismissed"}
          BY <3>0, <4>1
        <5> HIDE DEF back
        <5>2. Applied(back, delete[u].got).phase = delete[u].got.st
          <6>1. Applied(back, delete[u].got).phase
                  = IF delete[u].got.st \in Active THEN "active" ELSE delete[u].got.st
            BY <2>1, FieldsKept, ZenonT(30)
          <6> QED
            BY <3>0, <6>1
        <5> QED
          BY <4>1, <5>1, <5>2 DEF Keep
      <4>2. CASE Keep(u, Forgotten(back))
        BY <2>1, <4>2, FieldsKept DEF Keep
      <4>3. CASE Show(u, e0)
        BY <2>1, <4>3 DEF Show
      <4> QED
        BY <2>4, <4>1, <4>2, <4>3 DEF RestoreAnswer
    <3> QED
      BY <1>1, <1>2, <3>1
  <2> QED
    BY <1>7, <2>2, <2>3, <2>4 DEF DeleteStep
<1> QED
  BY <1>3, <1>4, <1>5, <1>6, <1>7 DEF Next

\* No answer of the stream, of a question or of a check that comes late moves a job that is over back
\* to one that waits or runs (jobTracker.ts): only a follower that restoreOne left running could.
THEOREM NothingComesBack == Spec => NoWayBack
<1>1. PanelInv /\ [Next]_vars =>
        [\A t \in Tabs : entry[t].phase \in Over /\ entry'[t].phase = "active" /\ entry'[t].status
           => follow[<<t, "stray">>] # Off]_vars
  BY StaysOver
<1> QED
  BY <1>1, PanelTellsTheTruth, PTL DEF Spec, NoWayBack

(***************************************************************************)
(* The search.                                                             *)
(***************************************************************************)

----------------------------------------------------------------------------
(* What a source that is judged has given.                                 *)

Given(seq) == {seq[i] : i \in DOMAIN seq}

Within(x, upTo) == {i \in Scenes : i <= upTo /\ x.verdict[i] = "in"}

(* The scenes checked that the user would have wanted but did not get.     *)
Missed(x, seq, upTo) ==
  {i \in Scenes : i <= upTo /\ (x.verdict[i] = "broken" \/ (x.verdict[i] = "in" /\ i \notin Given(seq)))}

Starts(x) == CHOOSE starts \in SUBSET Scenes : AreStarts(x, starts)

PassesWhole(x, seq, upTo) ==
  /\ upTo < Total => upTo + 1 \in Starts(x)
  /\ \A i \in Given(seq) : \A j \in Within(x, upTo) : x.pass[i] = x.pass[j] => j \in Given(seq)

JudgedFits(x, seq, c, byPass) ==
  /\ c.checked \in 0..Total /\ c.found \in Nat /\ c.unreadable \in Nat
  /\ c.found + c.unreadable <= c.checked
  /\ seq \in Seq(Scenes)
  /\ \A m, n \in DOMAIN seq : seq[m] = seq[n] => m = n
  /\ c.found = Len(seq)
  /\ Given(seq) \subseteq Within(x, c.checked)
  /\ Cardinality(Missed(x, seq, c.checked)) <= c.unreadable
  /\ byPass => PassesWhole(x, seq, c.checked)

----------------------------------------------------------------------------
(* A response.                                                             *)

PosFits(pos, checked) ==
  /\ pos = Position(pos.page, pos.offset)
  /\ pos.page \in Nat /\ pos.offset \in 0..(PageSize - 1)
  /\ Before(pos) = checked

CursorFits(cur, c) ==
  /\ cur = [pos |-> cur.pos, checked |-> c.checked, found |-> c.found, unreadable |-> c.unreadable]
  /\ PosFits(cur.pos, c.checked)
  /\ c.checked < SearchScenes

ReadingFits(x, u, reading) ==
  /\ reading = [tries |-> reading.tries, got |-> reading.got]
  /\ reading.got \in {"none", "in", "out", "unreadable"}
  /\ reading.got = "in" => x.verdict[Lowest(u)] = "in"
  /\ reading.got = "out" => x.verdict[Lowest(u)] \notin {"in", "broken"}

SliceEnd(page) == Smaller((page + 1) * PageSize, Total)

IsOne(u) == \E i \in Scenes : u = {i}

TakeFits(x, r, time) ==
  /\ r.pos = Position(r.pos.page, r.pos.offset) /\ r.pos.page \in Nat
  /\ r.pos.page * PageSize <= r.checked /\ r.checked <= SliceEnd(r.pos.page)
  /\ r.items = (r.checked + 1)..SliceEnd(r.pos.page)
  /\ \A u \in DOMAIN r.own : ReadingFits(x, u, r.own[u]) /\ IsOne(u)
  /\ \/ r.items = {} \/ {r.checked + 1} \in DOMAIN r.own
     \/ Len(r.kept) >= r.limit \/ r.scenes >= ResponseScenes \/ r.checked >= SearchScenes
     \/ time = "over" /\ r.scenes > 0

PassesOf(x, block) == {{j \in block : x.pass[j] = x.pass[i]} : i \in block}

JudgeFits(x, r) ==
  /\ PosFits(r.pos, r.checked)
  /\ r.items = BlockFrom(x, r.checked + 1) /\ r.items # {}
  /\ DOMAIN r.own = PassesOf(x, r.items)
  /\ \A u \in DOMAIN r.own : ReadingFits(x, u, r.own[u])

RunningShape(r) ==
  /\ r = [st |-> r.st, limit |-> r.limit, byPass |-> r.byPass, pos |-> r.pos, fetched |-> r.fetched, broken |-> r.broken,
          scenes |-> r.scenes, checked |-> r.checked, found |-> r.found, unreadable |-> r.unreadable,
          kept |-> r.kept, lost |-> r.lost, items |-> r.items, own |-> r.own]
  /\ r.scenes \in Nat

RespFits(x, r, time, seq, byPass) ==
  /\ r.byPass = byPass /\ r.kept \in Seq(Scenes)
  /\ JudgedFits(x, seq \o r.kept, r, byPass)
  /\ \/ /\ r.st = "loop" /\ RunningShape(r)
        /\ IF r.pos = None THEN r.checked = Total ELSE PosFits(r.pos, r.checked)
     \/ r.st = "take" /\ RunningShape(r) /\ ~byPass /\ TakeFits(x, r, time)
     \/ r.st = "judge" /\ RunningShape(r) /\ byPass /\ JudgeFits(x, r)
     \/ /\ r.st = "done"
        /\ IF r.next = None THEN r.checked = Total \/ r.limited ELSE CursorFits(r.next, r)

----------------------------------------------------------------------------
(* A search.                                                               *)

Searches == [ids : IdSets, area : Areas, flt : Filters]

PlainFits(k, seq) ==
  /\ seq \in Seq(Nat) /\ IsRun(seq) /\ Len(seq) <= Holds[k]

SourceFits(x, q, k, seq, counts) ==
  IF IsJudged(q, k) THEN JudgedFits(x, seq, counts, q.flt = "pass") ELSE PlainFits(k, seq)

MarkerFits(q, k, m, seq, counts) ==
  /\ m = Marker(q, k, m.at)
  /\ IF IsJudged(q, k) THEN CursorFits(m.at, counts) ELSE m.at = Len(seq)

PendFits(q, k, m, seq, counts) ==
  IF m = None THEN seq = <<>> /\ (IsJudged(q, k) => counts.checked = 0 /\ counts.found = 0 /\ counts.unreadable = 0)
  ELSE MarkerFits(q, k, m, seq, counts)

Complete(q, k, seq, counts) ==
  IF IsJudged(q, k) THEN counts.checked = Total \/ counts.limited ELSE Len(seq) = Holds[k]

PendingOf(q, token) == IF token # None /\ IsMixed(q) THEN token.s ELSE [k \in Keys(q) |-> token]

GotFits(x, c) ==
  /\ c = [q |-> c.q, got |-> c.got, token |-> c.token, open |-> c.open, named |-> c.named, counts |-> c.counts]
  /\ c.q \in Searches
  /\ DOMAIN c.got = Keys(c.q)
  /\ \A k \in Keys(c.q) : SourceFits(x, c.q, k, c.got[k], c.counts)

TokenFits(c) ==
  /\ IsMixed(c.q) => /\ c.token = MixedToken(c.q, c.token.s, c.token.f)
                     /\ DOMAIN c.token.s # {} /\ DOMAIN c.token.s \subseteq Keys(c.q) /\ c.token.f \subseteq Keys(c.q)
  /\ ~IsMixed(c.q) => MarkerFits(c.q, Lone(c.q), c.token, c.got[Lone(c.q)], c.counts)
  /\ \A k \in DOMAIN PendingOf(c.q, c.token) : PendFits(c.q, k, PendingOf(c.q, c.token)[k], c.got[k], c.counts)
  /\ \A k \in Keys(c.q) \ c.named : k \in DOMAIN PendingOf(c.q, c.token) \/ Complete(c.q, k, c.got[k], c.counts)

Said(c) == \A k \in Keys(c.q) \ c.named : k \subseteq c.open \/ Complete(c.q, k, c.got[k], c.counts)

Untouched(c) == \A k \in Keys(c.q) : PendFits(c.q, k, None, c.got[k], c.counts)

ContextFits(x, c) == GotFits(x, c) /\ Said(c) /\ (c.token # None => TokenFits(c))

OutFits(x, q, k, o, share, m, seq) ==
  /\ o.failed \in BOOLEAN
  /\ o.failed => o.items = <<>>
  /\ ~o.failed /\ share = 0 => o.items = <<>> /\ o.next = m
  /\ ~o.failed /\ share # 0 =>
       /\ SourceFits(x, q, k, seq \o o.items, o.counts)
       /\ IF o.next = None THEN Complete(q, k, seq \o o.items, o.counts)
          ELSE MarkerFits(q, k, o.next, seq \o o.items, o.counts)

ReqFits(x, w) ==
  /\ w.req = [pend |-> w.req.pend, share |-> w.req.share, out |-> w.req.out, failed |-> w.req.failed]
  /\ w.req.pend = PendingOf(w.q, w.token)
  /\ w.req.share \in [DOMAIN w.req.pend -> Nat]
  /\ w.req.failed \subseteq Keys(w.q)
  /\ DOMAIN w.req.out \subseteq DOMAIN w.req.pend
  /\ \A k \in DOMAIN w.req.out :
       OutFits(x, w.q, k, w.req.out[k], w.req.share[k], w.req.pend[k], w.seen.got[k])

WalkFits(x, w) ==
  /\ w = [q |-> w.q, base |-> w.base, seen |-> w.seen, token |-> w.token, flt |-> w.flt, stale |-> w.stale, req |-> w.req]
  /\ w.seen.q = w.q /\ w.seen.token = w.token
  /\ GotFits(x, w.seen)
  /\ IF w.token = None THEN Untouched(w.seen) ELSE TokenFits(w.seen)
  /\ w.req # NoReq => ReqFits(x, w)

OwnerFits ==
  /\ owner \in Slots \cup {NoOwner}
  /\ owner \in Slots =>
       LET w == walks[owner]
       IN /\ w # NoWalk /\ w.req # NoReq /\ IsJudged(w.q, {Judged})
          /\ {Judged} \in DOMAIN w.req.pend \ DOMAIN w.req.out
          /\ w.req.share[{Judged}] # 0
          /\ RespFits(source, resp, timeLeft, w.seen.got[{Judged}], w.q.flt = "pass")

SearchAlone ==
  walks["search"] # NoWalk =>
    /\ walks["more"] # NoWalk => walks["more"].stale /\ ~Judges(walks["more"].q)
    /\ ~Judges(walks["search"].q) /\ ~walks["search"].stale => ctx = NoCtx

SearchInv ==
  /\ source \in SourceShapes /\ fields \in Searches
  /\ ctx # NoCtx => ContextFits(source, ctx)
  /\ walks = [s \in Slots |-> walks[s]]
  /\ \A s \in Slots : walks[s] # NoWalk => WalkFits(source, walks[s])
  /\ walks["more"] # NoWalk => GotFits(source, walks["more"].base) /\ Said(walks["more"].base)
  /\ SearchAlone
  /\ OwnerFits

----------------------------------------------------------------------------
(* Arithmetic and sets.                                                    *)

LEMMA SmallestOne ==
  ASSUME NEW S \in SUBSET Nat, S # {}
  PROVE  \E x \in S : \A y \in S : x <= y
<1> DEFINE Less == OpToRel(<, Nat)
<1>0. \A x, y \in Nat : x < y => <<x, y>> \in Less
  <2> TAKE x \in Nat, y \in Nat
  <2> HAVE x < y
  <2>1. <<x, y>>[1] < <<x, y>>[2] /\ <<x, y>> \in Nat \X Nat
    OBVIOUS
  <2> QED
    BY <2>1, Zenon DEF OpToRel
<1>1. \E x \in S : \A y \in S : ~(<<y, x>> \in Less)
  BY NatLessThanWellFounded, WFMin
<1> HIDE DEF Less
<1>2. PICK x \in S : \A y \in S : ~(<<y, x>> \in Less)
  BY <1>1
<1>3. \A y \in S : ~(y < x)
  BY <1>0, <1>2
<1> QED
  BY <1>2, <1>3

LEMMA LowestIs ==
  ASSUME NEW S \in SUBSET Nat, S # {}
  PROVE  Lowest(S) \in S /\ \A y \in S : Lowest(S) <= y
BY SmallestOne DEF Lowest

LEMMA LowestOfOne == \A i \in Nat : Lowest({i}) = i
<1> TAKE i \in Nat
<1> QED
  BY LowestIs

LEMMA LowestOfInterval ==
  ASSUME NEW a \in Nat, NEW b \in Nat, a <= b
  PROVE  Lowest(a..b) = a
<1>1. a..b \in SUBSET Nat /\ a \in a..b
  OBVIOUS
<1>2. Lowest(a..b) \in a..b /\ Lowest(a..b) <= a
  BY <1>1, LowestIs
<1> QED
  BY <1>2

LEMMA Divides ==
  ASSUME NEW a \in Nat, NEW b \in Nat \ {0}
  PROVE  /\ a \div b \in Nat /\ a % b \in 0..(b - 1)
         /\ (a \div b) * b + (a % b) = a
<1>1. a \div b \in Nat /\ a % b \in 0..(b - 1)
  OBVIOUS
<1>2. a % b = a - (a \div b) * b
  OBVIOUS
<1>3. (a \div b) * b \in Nat
  BY <1>1
<1> QED
  BY <1>1, <1>2, <1>3

\* The place the scene after the first n stands at.
LEMMA PlaceOf ==
  ASSUME NEW n \in Nat
  PROVE  PosFits(Position(n \div PageSize, n % PageSize), n)
<1>1. PageSize \in Nat \ {0}
  BY FilterAssumption
<1>2. /\ n \div PageSize \in Nat /\ n % PageSize \in 0..(PageSize - 1)
      /\ (n \div PageSize) * PageSize + (n % PageSize) = n
  BY <1>1, Divides
<1> QED
  BY <1>2 DEF PosFits, Position, Before

----------------------------------------------------------------------------
(* What a judged source gives, scene by scene and block by block.          *)

LEMMA GivenOfConcat ==
  ASSUME NEW S, NEW s \in Seq(S), NEW t \in Seq(S)
  PROVE  Given(s \o t) = Given(s) \cup Given(t)
<1>1. /\ Len(s) \in Nat /\ Len(t) \in Nat /\ DOMAIN s = 1..Len(s) /\ DOMAIN t = 1..Len(t)
      /\ DOMAIN (s \o t) = 1..(Len(s) + Len(t))
      /\ \A i \in 1..(Len(s) + Len(t)) : (s \o t)[i] = IF i <= Len(s) THEN s[i] ELSE t[i - Len(s)]
  BY ConcatProperties, LenProperties
<1>2. ASSUME NEW i \in 1..Len(s) PROVE s[i] \in Given(s \o t)
  BY <1>1 DEF Given
<1>3. ASSUME NEW i \in 1..Len(t) PROVE t[i] \in Given(s \o t)
  <2>1. Len(s) + i \in 1..(Len(s) + Len(t)) /\ (s \o t)[Len(s) + i] = t[i]
    BY <1>1
  <2> QED
    BY <1>1, <2>1 DEF Given
<1>4. ASSUME NEW i \in 1..(Len(s) + Len(t)) PROVE (s \o t)[i] \in Given(s) \cup Given(t)
  <2>1. CASE i <= Len(s)
    BY <1>1, <2>1 DEF Given
  <2>2. CASE i > Len(s)
    <3>1. i - Len(s) \in 1..Len(t) /\ (s \o t)[i] = t[i - Len(s)]
      BY <1>1, <2>2
    <3> QED
      BY <1>1, <3>1 DEF Given
  <2> QED
    BY <1>1, <2>1, <2>2
<1> QED
  BY <1>1, <1>2, <1>3, <1>4 DEF Given

Once(seq) == \A m, n \in DOMAIN seq : seq[m] = seq[n] => m = n

LEMMA CountGiven ==
  ASSUME NEW S, NEW s \in Seq(S), Once(s)
  PROVE  /\ Given(s) \subseteq S
         /\ IsFiniteSet(Given(s)) /\ Cardinality(Given(s)) = Len(s)
<1>1. Len(s) \in Nat /\ DOMAIN s = 1..Len(s) /\ \A i \in 1..Len(s) : s[i] \in S
  BY LenProperties
<1>2. s \in [1..Len(s) -> Given(s)]
  BY <1>1, LenProperties DEF Given
<1>3. s \in Injection(1..Len(s), Given(s)) /\ s \in Surjection(1..Len(s), Given(s))
  BY <1>1, <1>2 DEF Injection, IsInjective, Surjection, Given, Once
<1>4. ExistsBijection(1..Len(s), Given(s))
  BY <1>3 DEF ExistsBijection, Bijection
<1>5. IsFiniteSet(1..Len(s)) /\ Cardinality(1..Len(s)) = Len(s)
  <2>1. \A n \in Nat : IsFiniteSet(1..n) /\ Cardinality(1..n) = n
    BY FS_Interval
  <2> QED
    BY <1>1, <2>1
<1>6. IsFiniteSet(Given(s)) /\ Cardinality(Given(s)) = Cardinality(1..Len(s))
  BY <1>4, <1>5, FS_Bijection
<1> QED
  BY <1>1, <1>5, <1>6 DEF Given

\* The scenes of a set, each once.
LEMMA Listed ==
  ASSUME NEW S, IsFiniteSet(S)
  PROVE  SetToSeq(S) \in Seq(S) /\ Once(SetToSeq(S)) /\ Given(SetToSeq(S)) = S
<1>1. PICK n \in Nat : ExistsBijection(1..n, S)
  BY FS_NatBijection
<1>2. IsFiniteSet(1..n) /\ Cardinality(1..n) = n
  BY FS_Interval
<1>3. Cardinality(S) = n
  BY <1>1, <1>2, FS_Bijection
<1>4. PICK f : f \in Bijection(1..n, S)
  BY <1>1 DEF ExistsBijection
<1>5. f \in [1..Cardinality(S) -> S] /\ IsInjective(f)
  BY <1>3, <1>4 DEF Bijection, Injection
<1>6. SetToSeq(S) \in [1..n -> S] /\ IsInjective(SetToSeq(S))
  BY <1>3, <1>5 DEF SetToSeq
<1>7. SetToSeq(S) \in Injection(1..n, S)
  BY <1>6 DEF Injection
<1>8. SetToSeq(S) \in Surjection(1..n, S)
  BY <1>2, <1>3, <1>7, FS_Injection
<1> QED
  BY <1>6, <1>8 DEF Surjection, Given, Once, IsInjective

LEMMA StartsAre ==
  ASSUME NEW x \in SourceShapes
  PROVE  Starts(x) \subseteq Scenes /\ AreStarts(x, Starts(x))
<1>1. \E starts \in SUBSET Scenes : AreStarts(x, starts)
  BY ShapesAssumption
<1> HIDE DEF AreStarts
<1> QED
  BY <1>1 DEF Starts

\* A step of the judging: the next n scenes are checked, `more` of them are
\* given and those of `lost` counted as unreadable.
LEMMA JudgedStep ==
  ASSUME NEW x \in SourceShapes, NEW seq, NEW c, NEW d, NEW byPass \in BOOLEAN, NEW n \in Nat,
         NEW more \in Seq(Scenes), NEW lost,
         JudgedFits(x, seq, c, byPass), c.checked + n <= Total,
         d.checked = c.checked + n, d.found = c.found + Len(more), d.unreadable = c.unreadable + Cardinality(lost),
         lost \subseteq (c.checked + 1)..(c.checked + n),
         Given(more) \subseteq (c.checked + 1)..(c.checked + n),
         lost \cap Given(more) = {}, Once(more),
         \A i \in Given(more) : x.verdict[i] = "in",
         \A i \in (c.checked + 1)..(c.checked + n) :
           x.verdict[i] \in {"in", "broken"} => i \in Given(more) \cup lost,
         byPass => /\ c.checked + n < Total => c.checked + n + 1 \in Starts(x)
                   /\ \A i \in Given(more) : \A j \in (c.checked + 1)..(c.checked + n) :
                        x.verdict[j] = "in" /\ x.pass[i] = x.pass[j] => j \in Given(more)
  PROVE  JudgedFits(x, seq \o more, d, byPass)
<1> DEFINE block == (c.checked + 1)..(c.checked + n)
           old == c.checked
<1>1. /\ Total \in Nat /\ old \in 0..Total /\ c.found \in Nat /\ c.unreadable \in Nat
      /\ c.found + c.unreadable <= old
      /\ seq \in Seq(Scenes) /\ Once(seq) /\ c.found = Len(seq)
      /\ Given(seq) \subseteq Within(x, old)
      /\ Cardinality(Missed(x, seq, old)) <= c.unreadable
      /\ byPass => PassesWhole(x, seq, old)
  BY FilterAssumption DEF JudgedFits, Once
<1>2. old \in Nat /\ old + n \in 0..Total /\ block \subseteq Scenes /\ \A i \in block : i \in Nat /\ old < i /\ i <= old + n
  BY <1>1 DEF Scenes
<1>3. IsFiniteSet(block) /\ Cardinality(block) = n
  <2>1. \A a, b \in Nat : IsFiniteSet((a + 1)..(a + b)) /\ Cardinality((a + 1)..(a + b)) = b
    <3> TAKE a \in Nat, b \in Nat
    <3>1. a + 1 \in Int /\ a + b \in Int
      OBVIOUS
    <3>2. /\ IsFiniteSet((a + 1)..(a + b))
          /\ Cardinality((a + 1)..(a + b)) = IF a + 1 > a + b THEN 0 ELSE (a + b) - (a + 1) + 1
      BY <3>1, FS_Interval
    <3> QED
      BY <3>2
  <2> QED
    BY <1>2, <2>1
<1> HIDE DEF block
<1>4. lost \subseteq block /\ Given(more) \subseteq block
  BY DEF block
<1>5. /\ IsFiniteSet(lost) /\ IsFiniteSet(Given(more)) /\ Cardinality(Given(more)) = Len(more)
      /\ Cardinality(lost) \in Nat /\ Len(more) \in Nat /\ Len(more) + Cardinality(lost) <= n
  <2>1. IsFiniteSet(lost) /\ IsFiniteSet(Given(more)) /\ Cardinality(Given(more)) = Len(more)
    BY <1>3, <1>4, FS_Subset, CountGiven
  <2>2. Cardinality(lost \cup Given(more)) <= n
    <3>1. lost \cup Given(more) \in SUBSET block
      BY <1>4
    <3> QED
      BY <1>3, <3>1, FS_Subset
  <2>3. Cardinality(lost \cup Given(more)) = Cardinality(lost) + Cardinality(Given(more)) - Cardinality({})
    BY <2>1, FS_Union
  <2>4. Cardinality({}) = 0 /\ Cardinality(lost) \in Nat /\ Cardinality(Given(more)) \in Nat
    BY <2>1, FS_EmptySet, FS_CardinalityType
  <2> QED
    BY <2>1, <2>2, <2>3, <2>4
<1>6. /\ d.checked \in 0..Total /\ d.found \in Nat /\ d.unreadable \in Nat /\ d.found + d.unreadable <= d.checked
  <2>1. d.checked = old + n /\ d.found = c.found + Len(more) /\ d.unreadable = c.unreadable + Cardinality(lost)
    OBVIOUS
  <2>2. \A a, b, m, l \in Nat : a + b <= old /\ m + l <= n => (a + m) + (b + l) <= old + n
    BY <1>2
  <2> HIDE DEF old
  <2>3. (c.found + Len(more)) + (c.unreadable + Cardinality(lost)) <= old + n
    BY <1>1, <1>5, <2>2
  <2>4. c.found + Len(more) \in Nat /\ c.unreadable + Cardinality(lost) \in Nat
    BY <1>1, <1>5
  <2>5. d.found + d.unreadable <= d.checked
    BY <2>1, <2>3
  <2> QED
    BY <1>2, <2>1, <2>4, <2>5
<1>7. /\ seq \o more \in Seq(Scenes) /\ d.found = Len(seq \o more)
      /\ Given(seq \o more) = Given(seq) \cup Given(more)
  <2>1. seq \o more \in Seq(Scenes) /\ Len(seq \o more) = Len(seq) + Len(more)
    BY <1>1, ConcatProperties
  <2> QED
    BY <1>1, <2>1, GivenOfConcat
<1>8. \A i \in Given(seq) : i \in Nat /\ i <= old /\ i \in Within(x, old)
  BY <1>1 DEF Within, Scenes
<1>9. Once(seq \o more)
  <2>1. /\ Len(seq) \in Nat /\ Len(more) \in Nat /\ DOMAIN seq = 1..Len(seq) /\ DOMAIN more = 1..Len(more)
        /\ DOMAIN (seq \o more) = 1..(Len(seq) + Len(more))
        /\ \A i \in 1..(Len(seq) + Len(more)) : (seq \o more)[i] = IF i <= Len(seq) THEN seq[i] ELSE more[i - Len(seq)]
    BY <1>1, ConcatProperties, LenProperties
  <2>2. SUFFICES ASSUME NEW a \in 1..(Len(seq) + Len(more)), NEW b \in 1..(Len(seq) + Len(more)),
                        (seq \o more)[a] = (seq \o more)[b]
                 PROVE  a = b
    BY <2>1 DEF Once
  <2>3. CASE a <= Len(seq) /\ b <= Len(seq)
    <3>1. a \in DOMAIN seq /\ b \in DOMAIN seq /\ seq[a] = seq[b]
      BY <2>1, <2>2, <2>3
    <3> QED
      BY <1>1, <3>1 DEF Once
  <2>4. CASE a > Len(seq) /\ b > Len(seq)
    <3>1. /\ a - Len(seq) \in DOMAIN more /\ b - Len(seq) \in DOMAIN more
          /\ more[a - Len(seq)] = more[b - Len(seq)]
      BY <2>1, <2>2, <2>4
    <3>2. a - Len(seq) = b - Len(seq)
      BY <3>1 DEF Once
    <3> QED
      BY <2>1, <3>2
  <2>5. ASSUME NEW e \in 1..(Len(seq) + Len(more)), NEW f \in 1..(Len(seq) + Len(more)), e <= Len(seq), f > Len(seq),
               (seq \o more)[e] = (seq \o more)[f]
        PROVE  FALSE
    <3>1. e \in DOMAIN seq /\ f - Len(seq) \in DOMAIN more /\ seq[e] = more[f - Len(seq)]
      BY <2>1, <2>5
    <3>2. seq[e] \in Given(seq) /\ more[f - Len(seq)] \in Given(more)
      BY <3>1 DEF Given
    <3> QED
      BY <1>2, <1>4, <1>8, <3>1, <3>2
  <2> QED
    BY <2>1, <2>2, <2>3, <2>4, <2>5
<1>10. Given(seq \o more) \subseteq Within(x, d.checked)
  <2>1. Given(seq) \subseteq Within(x, d.checked)
    BY <1>2, <1>8 DEF Within, Scenes
  <2>2. Given(more) \subseteq Within(x, d.checked)
    BY <1>2, <1>4 DEF Within
  <2> QED
    BY <1>7, <2>1, <2>2
<1>11. Cardinality(Missed(x, seq \o more, d.checked)) <= d.unreadable
  <2>1. Missed(x, seq \o more, d.checked) \subseteq Missed(x, seq, old) \cup lost
    <3>1. SUFFICES ASSUME NEW i \in Scenes, i <= old + n, i \notin lost,
                          x.verdict[i] = "broken" \/ (x.verdict[i] = "in" /\ i \notin Given(seq \o more))
                   PROVE  i \in Missed(x, seq, old)
      BY DEF Missed
    <3>2. i \in Nat /\ (i <= old \/ i \in block)
      BY <1>1, <1>2, <3>1 DEF Scenes, block
    <3>3. CASE i \in block
      BY <1>7, <3>1, <3>3 DEF block
    <3>4. CASE i <= old
      BY <1>7, <3>1, <3>4 DEF Missed
    <3> QED
      BY <3>2, <3>3, <3>4
  <2>2. Missed(x, seq, old) \in SUBSET Scenes /\ IsFiniteSet(Scenes)
    BY <1>1, FS_Interval DEF Missed, Scenes
  <2>3. IsFiniteSet(Missed(x, seq, old)) /\ Cardinality(Missed(x, seq, old)) \in Nat
    BY <2>2, FS_Subset, FS_CardinalityType
  <2>4. /\ IsFiniteSet(Missed(x, seq, old) \cup lost)
        /\ Cardinality(Missed(x, seq, old) \cup lost)
             = Cardinality(Missed(x, seq, old)) + Cardinality(lost) - Cardinality(Missed(x, seq, old) \cap lost)
    BY <1>5, <2>3, FS_Union
  <2>5. Cardinality(Missed(x, seq, old) \cap lost) \in Nat
    BY <2>3, FS_Intersection, FS_CardinalityType
  <2>6. /\ IsFiniteSet(Missed(x, seq \o more, d.checked))
        /\ Cardinality(Missed(x, seq \o more, d.checked)) <= Cardinality(Missed(x, seq, old) \cup lost)
    BY <2>1, <2>4, FS_Subset
  <2>7. Cardinality(Missed(x, seq \o more, d.checked)) \in Nat /\ Cardinality(Missed(x, seq, old) \cup lost) \in Nat
    BY <2>4, <2>6, FS_CardinalityType
  <2> QED
    BY <1>1, <1>5, <2>3, <2>4, <2>5, <2>6, <2>7, SMTT(30)
<1>12. ASSUME byPass PROVE PassesWhole(x, seq \o more, d.checked)
  <2>1. PassesWhole(x, seq, old)
    BY <1>1, <1>12
  <2>2. d.checked < Total => d.checked + 1 \in Starts(x)
    BY <1>12
  <2>3. SUFFICES ASSUME NEW i \in Given(seq) \cup Given(more), NEW j \in Within(x, old + n), x.pass[i] = x.pass[j]
                 PROVE  j \in Given(seq) \cup Given(more)
    BY <1>7, <2>2 DEF PassesWhole
  <2>4. j \in Scenes /\ j \in Nat /\ x.verdict[j] = "in" /\ (j \in block \/ j \in Within(x, old)) /\ i \in Scenes
    BY <1>1, <1>2, <1>4, <1>8 DEF Within, Scenes, block
  <2>5. CASE i \in Given(seq) /\ j \in Within(x, old)
    BY <2>1, <2>3, <2>5 DEF PassesWhole
  <2>6. CASE i \in Given(more) /\ j \in block
    BY <1>12, <2>3, <2>4, <2>6 DEF block
  <2>7. ASSUME NEW e \in Scenes, NEW f \in Scenes, e <= old, f > old, x.pass[e] = x.pass[f] PROVE FALSE
    <3>1. e \in Nat /\ f \in Nat /\ old < Total
      BY <1>1, <2>7 DEF Scenes
    <3>2. old + 1 \in Starts(x)
      BY <2>1, <3>1 DEF PassesWhole
    <3>3. e < old + 1 <=> f < old + 1
      BY <2>7, <3>2, StartsAre DEF AreStarts
    <3> QED
      BY <1>1, <2>7, <3>1, <3>3
  <2>8. CASE i \in Given(seq) /\ j \in block
    BY <1>2, <1>8, <2>3, <2>4, <2>7, <2>8
  <2>9. CASE i \in Given(more) /\ j \in Within(x, old)
    <3>1. j <= old /\ i > old
      BY <1>2, <1>4, <2>9 DEF Within
    <3> QED
      BY <2>3, <2>4, <2>7, <3>1
  <2> QED
    BY <2>3, <2>4, <2>5, <2>6, <2>8, <2>9
<1> QED
  BY <1>6, <1>7, <1>9, <1>10, <1>11, <1>12 DEF JudgedFits, Once


\* One of a set of numbers below a bound is the largest.
LEMMA LargestOne ==
  ASSUME NEW n \in Nat, NEW S \in SUBSET (0 .. n), S # {}
  PROVE  \E x \in S : \A y \in S : y <= x
<1> DEFINE T == {n - x : x \in S}
<1>0. \A x \in S : x \in Nat /\ x <= n /\ n - x \in Nat
  OBVIOUS
<1>1. T \in SUBSET Nat /\ T # {}
  BY <1>0
<1>2. PICK t \in T : \A u \in T : t <= u
  BY <1>1, SmallestOne
<1>3. PICK x \in S : t = n - x
  BY <1>2
<1>4. ASSUME NEW y \in S PROVE y <= x
  <2>1. n - y \in T
    BY <1>4
  <2>2. n - x <= n - y
    BY <1>2, <1>3, <2>1
  <2> QED
    BY <1>0, <1>3, <1>4, <2>2
<1> QED
  BY <1>3, <1>4

LEMMA BlockIs ==
  ASSUME NEW x \in SourceShapes, NEW first \in Scenes
  PROVE  \E n \in Nat : /\ n > 0 /\ first + n <= Total + 1
                        /\ BlockFrom(x, first) = first..(first + n - 1)
                        /\ Cardinality(BlockFrom(x, first)) = n
<1> DEFINE block == BlockFrom(x, first)
           same(i) == \A j \in first..i : x.day[j] = x.day[first] /\ (j > first => x.day[j] # 0)
<1>1. Total \in Nat \ {0} /\ MaxDayScenes \in Nat \ {0} /\ first \in Nat /\ first > 0 /\ first <= Total
  BY FilterAssumption DEF Scenes
<1>2. block = {i \in Scenes : i >= first /\ i < first + MaxDayScenes /\ same(i)}
  BY Zenon DEF BlockFrom
<1>3. first..first = {first}
  BY <1>1
<1>4. first \in block
  BY <1>1, <1>2, <1>3
<1> HIDE DEF block
<1>5. block \in SUBSET (0..Total) /\ block # {}
  BY <1>1, <1>2, <1>4 DEF Scenes
<1>6. PICK m \in block : \A i \in block : i <= m
  BY <1>1, <1>5, LargestOne
<1>7. m \in Nat /\ m >= first /\ m <= Total /\ m < first + MaxDayScenes /\ same(m)
  BY <1>2, <1>5, <1>6
<1>8. block \subseteq first..m
  BY <1>1, <1>2, <1>6, <1>7 DEF Scenes
<1>9. ASSUME NEW i \in first..m PROVE i \in block
  <2>1. i \in Nat /\ i >= first /\ i <= m /\ i \in Scenes /\ i < first + MaxDayScenes
    BY <1>1, <1>7 DEF Scenes
  <2>2. first..i \subseteq first..m
    BY <1>1, <1>7, <2>1
  <2>3. same(i)
    BY <1>7, <2>2
  <2> QED
    BY <1>2, <2>1, <2>3
<1>10. block = first..m
  BY <1>8, <1>9
<1>11. /\ m - first + 1 \in Nat /\ m - first + 1 > 0 /\ first + (m - first + 1) <= Total + 1
       /\ m = first + (m - first + 1) - 1
  BY <1>1, <1>7
<1>12. Cardinality(first..m) = m - first + 1
  <2>1. first \in Int /\ m \in Int /\ ~(first > m)
    BY <1>1, <1>7
  <2> QED
    BY <2>1, FS_Interval
<1> QED
  BY <1>10, <1>11, <1>12 DEF block

----------------------------------------------------------------------------
(* The steps of a response.                                                *)

LEMMA SmallerIs ==
  ASSUME NEW a \in Nat, NEW b \in Nat
  PROVE  /\ Smaller(a, b) \in Nat /\ Smaller(a, b) <= a /\ Smaller(a, b) <= b
         /\ Smaller(a, b) = a \/ Smaller(a, b) = b
BY DEF Smaller

LEMMA SliceIs ==
  ASSUME NEW page \in Nat
  PROVE  /\ SliceEnd(page) \in 0..Total /\ SliceEnd(page) <= page * PageSize + PageSize
         /\ page * PageSize \in Nat /\ (page + 1) * PageSize = page * PageSize + PageSize
         /\ SliceEnd(page) = page * PageSize + PageSize \/ SliceEnd(page) = Total
         /\ PageSize \in Nat \ {0} /\ Total \in Nat \ {0}
<1>1. PageSize \in Nat \ {0} /\ Total \in Nat \ {0}
  BY FilterAssumption
<1>2. page * PageSize \in Nat /\ (page + 1) * PageSize = page * PageSize + PageSize
  BY <1>1
<1>3. (page + 1) * PageSize \in Nat
  BY <1>1, <1>2
<1>4. /\ SliceEnd(page) \in Nat /\ SliceEnd(page) <= (page + 1) * PageSize /\ SliceEnd(page) <= Total
      /\ SliceEnd(page) = (page + 1) * PageSize \/ SliceEnd(page) = Total
  BY <1>1, <1>3, SmallerIs DEF SliceEnd
<1> QED
  BY <1>1, <1>2, <1>4

UnitFits(x, u, reading) == ReadingFits(x, u, reading) /\ IsOne(u)

LEMMA WindowIs ==
  ASSUME NEW items \in SUBSET Scenes, NEW at, NEW scenes \in Nat, NEW checked \in Nat
  PROVE  /\ \A u \in Window(items, at, scenes, checked) : IsOne(u)
         /\ at \in items /\ scenes < ResponseScenes /\ checked < SearchScenes => {at} \in Window(items, at, scenes, checked)
<1> DEFINE allowance == Smaller(Smaller(ResponseScenes - scenes, SearchScenes - checked), Ahead)
<1>1. Window(items, at, scenes, checked) = {{i} : i \in {j \in items : j < at + allowance}}
  BY Zenon DEF Window
<1>2. ASSUME at \in items, scenes < ResponseScenes, checked < SearchScenes PROVE at < at + allowance
  <2>1. ResponseScenes - scenes \in Nat \ {0} /\ SearchScenes - checked \in Nat \ {0} /\ Ahead \in Nat \ {0}
    BY <1>2, FilterAssumption
  <2>2. allowance \in Nat \ {0}
    BY <2>1 DEF Smaller
  <2>3. at \in Nat
    BY <1>2 DEF Scenes
  <2> QED
    BY <2>2, <2>3
<1> QED
  BY <1>1, <1>2 DEF IsOne

LEMMA OpenedIs ==
  ASSUME NEW x, NEW own, NEW units, \A u \in DOMAIN own : UnitFits(x, u, own[u]),
         \A u \in units : IsOne(u)
  PROVE  /\ DOMAIN Opened(own, units) = DOMAIN own \cup units
         /\ \A u \in DOMAIN own \cup units : UnitFits(x, u, Opened(own, units)[u])
<1>1. Opened(own, units) = [u \in DOMAIN own \cup units |-> IF u \in DOMAIN own THEN own[u] ELSE NewReading]
  BY Zenon DEF Opened
<1>2. \A u : ReadingFits(x, u, NewReading)
  BY DEF ReadingFits, NewReading
<1> HIDE DEF UnitFits
<1>3. \A u \in DOMAIN own \cup units : Opened(own, units)[u] = IF u \in DOMAIN own THEN own[u] ELSE NewReading
  BY <1>1
<1>4. \A u \in units : UnitFits(x, u, NewReading)
  BY <1>2 DEF UnitFits
<1> QED
  BY <1>1, <1>3, <1>4

LEMMA NoneOpen == DOMAIN NoReadings = {}
BY DEF NoReadings

LEMMA RestIs ==
  ASSUME NEW a \in Nat, NEW b \in Nat, NEW c \in Nat, a <= b
  PROVE  {i \in (a + 1)..c : i > b} = (b + 1)..c
OBVIOUS

LEMMA FetchPageKeeps ==
  ASSUME NEW seq, NEW byPass, source \in SourceShapes,
         RespFits(source, resp, timeLeft, seq, byPass), FetchPage
  PROVE  RespFits(source, resp', timeLeft', seq, byPass)
<1> DEFINE page == resp.pos.page
           rest == {i \in PageItems(page) : i > Before(resp.pos)}
           own == IF rest = {} THEN NoReadings
                  ELSE Opened(NoReadings, Window(rest, Lowest(rest), resp.scenes, resp.checked))
<1>1. /\ resp.st = "loop" /\ resp.pos # None /\ ~Done /\ ~resp.byPass
      /\ resp' = [resp EXCEPT !.st = "take", !.fetched = TRUE, !.items = rest, !.own = own]
  BY Zenon DEF FetchPage, GoesOn
<1>2. /\ resp.byPass = byPass /\ resp.kept \in Seq(Scenes) /\ JudgedFits(source, seq \o resp.kept, resp, byPass)
      /\ RunningShape(resp) /\ PosFits(resp.pos, resp.checked)
  BY <1>1, Zenon DEF RespFits
<1>3. resp.checked \in 0..Total /\ resp.scenes \in Nat
  BY <1>2 DEF JudgedFits, RunningShape
<1>4. /\ page \in Nat /\ resp.pos.offset \in 0..(PageSize - 1) /\ Before(resp.pos) = resp.checked
      /\ resp.checked = page * PageSize + resp.pos.offset /\ resp.pos = Position(page, resp.pos.offset)
  BY <1>2, Zenon DEF PosFits, Before
<1>5. /\ SliceEnd(page) \in 0..Total /\ page * PageSize \in Nat
      /\ page * PageSize <= resp.checked /\ resp.checked <= SliceEnd(page)
  BY <1>3, <1>4, SliceIs
<1>6. rest = (resp.checked + 1)..SliceEnd(page)
  <2>1. PageItems(page) = (page * PageSize + 1)..SliceEnd(page)
    BY Zenon DEF PageItems, SliceEnd
  <2>2. rest = {i \in (page * PageSize + 1)..SliceEnd(page) : i > resp.checked}
    BY <1>4, <2>1, Zenon
  <2>3. resp.checked \in Nat /\ SliceEnd(page) \in Nat
    BY <1>3, <1>5, FilterAssumption
  <2> QED
    BY <1>5, <2>2, <2>3, RestIs
<1> HIDE DEF rest, own
<1>7. /\ resp'.st = "take" /\ resp'.byPass = byPass /\ resp'.kept = resp.kept /\ resp'.checked = resp.checked
      /\ resp'.found = resp.found /\ resp'.unreadable = resp.unreadable /\ resp'.pos = resp.pos
      /\ resp'.items = rest /\ resp'.own = own /\ resp'.scenes = resp.scenes /\ resp'.limit = resp.limit
      /\ RunningShape(resp')
  BY <1>1, <1>2 DEF RunningShape
<1>8. rest \in SUBSET Scenes
  BY <1>3, <1>5, <1>6, FilterAssumption DEF Scenes
<1>9. JudgedFits(source, seq \o resp'.kept, resp', byPass)
  BY <1>2, <1>7, Zenon DEF JudgedFits
<1>10. CASE rest = {}
  <2>1. DOMAIN own = {}
    BY <1>10, NoneOpen DEF own
  <2>2. TakeFits(source, resp', timeLeft')
    BY <1>4, <1>5, <1>6, <1>7, <1>10, <2>1, Zenon DEF TakeFits
  <2> QED
    BY <1>1, <1>2, <1>7, <1>9, <2>2, Zenon DEF RespFits
<1>11. CASE rest # {}
  <2>1. resp.checked + 1 \in rest /\ Lowest(rest) = resp.checked + 1
    <3>1. resp.checked + 1 \in Nat /\ SliceEnd(page) \in Nat /\ resp.checked + 1 <= SliceEnd(page)
      BY <1>3, <1>5, <1>6, <1>11
    <3> QED
      BY <1>6, <3>1, LowestOfInterval
  <2>2. own = Opened(NoReadings, Window(rest, resp.checked + 1, resp.scenes, resp.checked))
    BY <1>11, <2>1 DEF own
  <2>3. resp.scenes < ResponseScenes /\ resp.checked < SearchScenes
    <3>1. ~(resp.scenes >= ResponseScenes) /\ ~(resp.checked >= SearchScenes)
      BY <1>1, Zenon DEF Done
    <3> QED
      BY <1>3, <3>1, FilterAssumption
  <2>4. /\ \A u \in Window(rest, resp.checked + 1, resp.scenes, resp.checked) : IsOne(u)
        /\ {resp.checked + 1} \in Window(rest, resp.checked + 1, resp.scenes, resp.checked)
    BY <1>3, <1>8, <2>1, <2>3, WindowIs
  <2>5. /\ {resp.checked + 1} \in DOMAIN own
        /\ \A u \in DOMAIN own : UnitFits(source, u, own[u])
    <3> DEFINE units == Window(rest, resp.checked + 1, resp.scenes, resp.checked)
    <3>1. \A u \in DOMAIN NoReadings : UnitFits(source, u, NoReadings[u])
      BY NoneOpen
    <3>2. \A u \in units : IsOne(u)
      BY <2>4
    <3> HIDE DEF units
    <3>3. /\ DOMAIN Opened(NoReadings, units) = DOMAIN NoReadings \cup units
          /\ \A u \in DOMAIN NoReadings \cup units : UnitFits(source, u, Opened(NoReadings, units)[u])
      BY <3>1, <3>2, OpenedIs
    <3> QED
      BY <2>2, <2>4, <3>3 DEF units
  <2>6. TakeFits(source, resp', timeLeft')
    BY <1>4, <1>5, <1>6, <1>7, <2>5, Zenon DEF TakeFits, UnitFits
  <2> QED
    BY <1>1, <1>2, <1>7, <1>9, <2>6, Zenon DEF RespFits
<1> QED
  BY <1>10, <1>11

LEMMA TriedFits ==
  ASSUME NEW u, NEW reading, source \in SourceShapes, Lowest(u) \in Scenes,
         ReadingFits(source, u, reading), NEW outcome \in Tried(u, reading)
  PROVE  ReadingFits(source, u, outcome)
<1> DEFINE verdict == source.verdict[Lowest(u)]
<1>1. verdict \in {"in", "out", "uncovered", "broken"}
  BY ShapesAssumption
<1>2. reading = [tries |-> reading.tries, got |-> reading.got]
  BY DEF ReadingFits
<1>3. \A g : [reading EXCEPT !.got = g] = [tries |-> reading.tries, got |-> g]
  BY <1>2
<1>4. outcome.got \in {"none", "in", "out", "unreadable"} /\ outcome = [tries |-> outcome.tries, got |-> outcome.got]
      /\ (outcome.got = "in" => verdict = "in") /\ (outcome.got = "out" => verdict \notin {"in", "broken"})
  <2>1. CASE verdict = "uncovered"
    <3>1. outcome = [reading EXCEPT !.got = "out"]
      BY <2>1 DEF Tried
    <3> QED
      BY <1>3, <2>1, <3>1
  <2>2. CASE verdict = "broken"
    <3>1. outcome = [reading EXCEPT !.got = "unreadable"]
      BY <2>2 DEF Tried
    <3> QED
      BY <1>3, <2>2, <3>1
  <2>3. CASE verdict \in {"in", "out"}
    <3>1. \/ outcome = [reading EXCEPT !.got = verdict]
          \/ outcome = [tries |-> reading.tries + 1,
                        got |-> IF reading.tries + 1 >= Attempts THEN "unreadable" ELSE "none"]
      BY <2>3 DEF Tried
    <3>2. \E t, g : outcome = [tries |-> t, got |-> g] /\ g \in {verdict, "none", "unreadable"}
      BY <1>3, <3>1
    <3>3. PICK t, g : outcome = [tries |-> t, got |-> g] /\ g \in {verdict, "none", "unreadable"}
      BY <3>2
    <3>4. outcome.got = g /\ outcome.tries = t
      BY <3>3
    <3> QED
      BY <2>3, <3>3, <3>4
  <2> QED
    BY <1>1, <2>1, <2>2, <2>3
<1> QED
  BY <1>4 DEF ReadingFits

LEMMA ReadOwnKeeps ==
  ASSUME NEW seq, NEW byPass, source \in SourceShapes,
         RespFits(source, resp, timeLeft, seq, byPass), ReadOwn
  PROVE  RespFits(source, resp', timeLeft', seq, byPass)
<1>1. PICK u \in Unfinished : \E outcome \in Tried(u, resp.own[u]) : resp' = [resp EXCEPT !.own[u] = outcome]
  BY DEF ReadOwn
<1>2. PICK outcome \in Tried(u, resp.own[u]) : resp' = [resp EXCEPT !.own[u] = outcome]
  BY <1>1
<1>3. InResponse /\ timeLeft' = timeLeft
  BY DEF ReadOwn
<1>4. u \in DOMAIN resp.own
  BY <1>1 DEF Unfinished
<1>5. /\ resp.byPass = byPass /\ resp.kept \in Seq(Scenes) /\ JudgedFits(source, seq \o resp.kept, resp, byPass)
      /\ RunningShape(resp)
      /\ \/ resp.st = "loop" /\ IF resp.pos = None THEN resp.checked = Total ELSE PosFits(resp.pos, resp.checked)
         \/ resp.st = "take" /\ ~byPass /\ TakeFits(source, resp, timeLeft)
         \/ resp.st = "judge" /\ byPass /\ JudgeFits(source, resp)
  BY <1>3 DEF RespFits, InResponse
<1>6. /\ resp'.st = resp.st /\ resp'.byPass = byPass /\ resp'.kept = resp.kept /\ resp'.checked = resp.checked
      /\ resp'.found = resp.found /\ resp'.unreadable = resp.unreadable /\ resp'.pos = resp.pos
      /\ resp'.items = resp.items /\ resp'.scenes = resp.scenes /\ resp'.limit = resp.limit
      /\ resp'.own = [resp.own EXCEPT ![u] = outcome]
      /\ RunningShape(resp')
  BY <1>2, <1>5 DEF RunningShape
<1>7. /\ DOMAIN resp'.own = DOMAIN resp.own
      /\ \A v \in DOMAIN resp.own : resp'.own[v] = IF v = u THEN outcome ELSE resp.own[v]
  BY <1>4, <1>6
<1>8. JudgedFits(source, seq \o resp'.kept, resp', byPass)
  BY <1>5, <1>6 DEF JudgedFits
<1>9. CASE resp.st = "loop"
  BY <1>5, <1>6, <1>8, <1>9 DEF RespFits
<1>10. CASE resp.st = "take"
  <2>1. ~byPass /\ TakeFits(source, resp, timeLeft)
    BY <1>5, <1>10
  <2>2. Lowest(u) \in Scenes /\ ReadingFits(source, u, resp.own[u])
    <3>1. ReadingFits(source, u, resp.own[u]) /\ IsOne(u)
      BY <1>4, <2>1 DEF TakeFits
    <3> QED
      BY <3>1, LowestOfOne DEF Scenes, IsOne
  <2>3. ReadingFits(source, u, outcome)
    BY <1>2, <2>2, TriedFits
  <2>4. \A v \in DOMAIN resp'.own : ReadingFits(source, v, resp'.own[v]) /\ IsOne(v)
    BY <1>7, <2>1, <2>3, Zenon DEF TakeFits
  <2>5. TakeFits(source, resp', timeLeft')
    BY <1>3, <1>6, <1>7, <2>1, <2>4, Zenon DEF TakeFits
  <2> QED
    BY <1>5, <1>6, <1>8, <1>10, <2>1, <2>5 DEF RespFits
<1>11. CASE resp.st = "judge"
  <2>1. byPass /\ JudgeFits(source, resp)
    BY <1>5, <1>11
  <2>2. Lowest(u) \in Scenes
    <3>1. u \in PassesOf(source, resp.items) /\ resp.items \subseteq Scenes
      BY <1>4, <2>1 DEF JudgeFits, BlockFrom
    <3>2. u \subseteq Scenes /\ u # {}
      BY <3>1 DEF PassesOf
    <3>3. u \in SUBSET Nat
      BY <3>2 DEF Scenes
    <3> QED
      BY <3>2, <3>3, LowestIs
  <2>3. ReadingFits(source, u, resp.own[u])
    BY <1>4, <2>1 DEF JudgeFits
  <2>4. ReadingFits(source, u, outcome)
    BY <1>2, <2>2, <2>3, TriedFits
  <2>5. \A v \in DOMAIN resp'.own : ReadingFits(source, v, resp'.own[v])
    BY <1>7, <2>1, <2>4, Zenon DEF JudgeFits
  <2>6. JudgeFits(source, resp')
    BY <1>6, <1>7, <2>1, <2>5, Zenon DEF JudgeFits
  <2> QED
    BY <1>5, <1>6, <1>8, <1>11, <2>1, <2>6 DEF RespFits
<1> QED
  BY <1>5, <1>9, <1>10, <1>11

LEMMA TimePassesKeeps ==
  ASSUME NEW seq, NEW byPass, RespFits(source, resp, timeLeft, seq, byPass), TimePasses
  PROVE  RespFits(source, resp', timeLeft', seq, byPass)
<1>1. resp' = resp /\ (timeLeft = "over" => timeLeft' = "over")
  BY DEF TimePasses
<1>2. TakeFits(source, resp, timeLeft) => TakeFits(source, resp, timeLeft')
  BY <1>1 DEF TakeFits
<1>3. RespFits(source, resp, timeLeft', seq, byPass)
  BY <1>2, Zenon DEF RespFits
<1> QED
  BY <1>1, <1>3

LEMMA LeavePageKeeps ==
  ASSUME NEW seq, NEW byPass, RespFits(source, resp, timeLeft, seq, byPass), LeavePage
  PROVE  RespFits(source, resp', timeLeft', seq, byPass)
<1> DEFINE page == resp.pos.page
           pos == IF resp.items = {} THEN NextPage(page)
                  ELSE Position(page, Lowest(resp.items) - 1 - page * PageSize)
<1>1. resp.st = "take" /\ resp' = [resp EXCEPT !.st = "loop", !.own = NoReadings, !.pos = pos,
                                     !.broken = resp.items # {}, !.items = {}]
  BY Zenon DEF LeavePage
<1>2. /\ resp.byPass = byPass /\ resp.kept \in Seq(Scenes) /\ JudgedFits(source, seq \o resp.kept, resp, byPass)
      /\ RunningShape(resp) /\ TakeFits(source, resp, timeLeft)
  BY <1>1 DEF RespFits
<1>3. /\ page \in Nat /\ page * PageSize <= resp.checked /\ resp.checked <= SliceEnd(page)
      /\ resp.items = (resp.checked + 1)..SliceEnd(page)
  BY <1>2 DEF TakeFits
<1>4. resp.checked \in 0..Total
  BY <1>2 DEF JudgedFits
<1> HIDE DEF pos, page
<1>4a. /\ SliceEnd(page) \in 0..Total /\ SliceEnd(page) <= page * PageSize + PageSize
       /\ page * PageSize \in Nat /\ (page + 1) * PageSize = page * PageSize + PageSize
       /\ SliceEnd(page) = page * PageSize + PageSize \/ SliceEnd(page) = Total
       /\ PageSize \in Nat \ {0} /\ Total \in Nat \ {0} /\ resp.checked \in Nat
  <2>1. page \in Nat
    BY <1>3
  <2>2. Total \in Nat
    BY FilterAssumption
  <2>3. resp.checked \in Nat
    BY <1>4, <2>2
  <2> QED
    BY <2>1, <2>3, SliceIs, Zenon
<1> DEFINE start == page * PageSize
<1>4b. Before(Position(page + 1, 0)) = (page + 1) * PageSize + 0 /\ \A n : Before(Position(page, n)) = start + n
  BY DEF Before, Position
<1>4c. HasNextPage(page) => start + PageSize <= Total
  BY <1>4a DEF HasNextPage
<1>4d. ~HasNextPage(page) => ~(start + PageSize < Total)
  BY <1>4a DEF HasNextPage
<1>4e. Before(Position(page + 1, 0)) = start + PageSize
  BY <1>4a, <1>4b
<1>4f. resp.items # {} => pos = Position(page, Lowest(resp.items) - 1 - start)
  BY DEF pos
<1>4g. /\ SliceEnd(page) \in 0..Total /\ SliceEnd(page) <= start + PageSize
       /\ start \in Nat /\ start <= resp.checked /\ resp.checked <= SliceEnd(page)
       /\ SliceEnd(page) = start + PageSize \/ SliceEnd(page) = Total
       /\ PageSize \in Nat \ {0} /\ Total \in Nat \ {0} /\ resp.checked \in Nat
  BY <1>3, <1>4a
<1> HIDE DEF start
<1>5. /\ resp'.st = "loop" /\ resp'.byPass = byPass /\ resp'.kept = resp.kept /\ resp'.checked = resp.checked
      /\ resp'.found = resp.found /\ resp'.unreadable = resp.unreadable /\ resp'.pos = pos
      /\ RunningShape(resp')
  BY <1>1, <1>2 DEF RunningShape
<1>6. JudgedFits(source, seq \o resp'.kept, resp', byPass)
  BY <1>2, <1>5 DEF JudgedFits
<1>7. ASSUME resp.items = {} PROVE IF pos = None THEN resp.checked = Total ELSE PosFits(pos, resp.checked)
  <2>1. resp.checked = SliceEnd(page)
    <3>1. \A a, b \in Nat : a < b => a + 1 \in (a + 1)..b
      OBVIOUS
    <3>2. SliceEnd(page) \in Nat
      BY <1>4g
    <3>3. ASSUME resp.checked < SliceEnd(page) PROVE FALSE
      <4>1. resp.checked + 1 \in (resp.checked + 1)..SliceEnd(page)
        BY <1>4g, <3>1, <3>2, <3>3
      <4> QED
        BY <1>3, <1>7, <4>1
    <3> QED
      BY <1>4g, <3>2, <3>3
  <2>2. CASE HasNextPage(page)
    <3>1. pos = Position(page + 1, 0)
      BY <1>7, <2>2 DEF pos, NextPage
    <3>2. resp.checked = start + PageSize
      BY <1>4c, <1>4g, <2>1, <2>2
    <3>3. page + 1 \in Nat /\ 0 \in 0..(PageSize - 1)
      BY <1>3, <1>4a
    <3>4. PosFits(Position(page + 1, 0), resp.checked)
      BY <1>4e, <3>2, <3>3 DEF PosFits, Position
    <3>5. Position(page + 1, 0) # None
      BY DEF Position, None
    <3> QED
      BY <3>1, <3>4, <3>5
  <2>3. CASE ~HasNextPage(page)
    <3>1. pos = None
      BY <1>7, <2>3 DEF pos, NextPage
    <3>2. resp.checked = Total
      BY <1>4d, <1>4g, <2>1, <2>3
    <3> QED
      BY <3>1, <3>2
  <2> QED
    BY <2>2, <2>3
<1>8. ASSUME resp.items # {} PROVE IF pos = None THEN resp.checked = Total ELSE PosFits(pos, resp.checked)
  <2>1. resp.checked + 1 \in Nat /\ SliceEnd(page) \in Nat /\ resp.checked + 1 <= SliceEnd(page)
    BY <1>3, <1>4g, <1>8
  <2>2. Lowest(resp.items) = resp.checked + 1
    BY <1>3, <2>1, LowestOfInterval
  <2>3. pos = Position(page, resp.checked - start)
    <3>1. (resp.checked + 1) - 1 - start = resp.checked - start
      BY <1>4g
    <3> QED
      BY <1>4f, <1>8, <2>2, <3>1
  <2>4. resp.checked - start \in 0..(PageSize - 1)
    BY <1>4g, <2>1
  <2>5. Before(Position(page, resp.checked - start)) = resp.checked
    <3>1. start + (resp.checked - start) = resp.checked
      BY <1>4g
    <3> QED
      BY <1>4b, <3>1
  <2>6. PosFits(Position(page, resp.checked - start), resp.checked)
    BY <1>3, <2>4, <2>5 DEF PosFits, Position
  <2>7. Position(page, resp.checked - start) # None
    BY DEF Position, None
  <2> QED
    BY <2>3, <2>6, <2>7
<1>9. IF pos = None THEN resp.checked = Total ELSE PosFits(pos, resp.checked)
  BY <1>7, <1>8
<1> QED
  BY <1>2, <1>5, <1>6, <1>9 DEF RespFits

LEMMA Associates == \A s, t, u \in Seq(Scenes) : (s \o t) \o u = s \o (t \o u) /\ t \o u \in Seq(Scenes)
BY ConcatAssociative, ConcatProperties

LEMMA OneGiven ==
  ASSUME NEW i \in Scenes
  PROVE  /\ <<i>> \in Seq(Scenes) /\ Len(<<i>>) = 1 /\ Given(<<i>>) = {i} /\ Once(<<i>>)
         /\ <<>> \in Seq(Scenes) /\ Len(<<>>) = 0 /\ Given(<<>>) = {} /\ Once(<<>>)
<1>1. DOMAIN <<i>> = {1} /\ <<i>>[1] = i /\ <<i>> \in Seq(Scenes) /\ Len(<<i>>) = 1
  OBVIOUS
<1>2. <<>> \in Seq(Scenes) /\ Len(<<>>) = 0 /\ DOMAIN <<>> = {}
  OBVIOUS
<1> QED
  BY <1>1, <1>2 DEF Given, Once

\* What is taken of a unit of one scene.
LEMMA TakenIs ==
  ASSUME NEW r, RunningShape(r), NEW i \in Scenes, NEW got, NEW t, t = TakenIn(r, {i}, got)
  PROVE  /\ RunningShape(t) /\ t.st = r.st /\ t.limit = r.limit /\ t.byPass = r.byPass /\ t.pos = r.pos
         /\ t.checked = r.checked + 1 /\ t.scenes = r.scenes + 1 /\ t.own = r.own
         /\ t.kept = IF got = "in" THEN Append(r.kept, i) ELSE r.kept
         /\ t.found = IF got = "in" THEN r.found + 1 ELSE r.found
         /\ t.unreadable = IF got = "unreadable" THEN r.unreadable + 1 ELSE r.unreadable
<1>1. Cardinality({i}) = 1
  BY FS_Singleton
<1>2. Lowest({i}) = i
  BY LowestOfOne DEF Scenes
<1> DEFINE found == IF got = "in" THEN r.found + 1 ELSE r.found
           unreadable == IF got = "unreadable" THEN r.unreadable + 1 ELSE r.unreadable
           gone == IF got = "unreadable" THEN r.lost \union {i} ELSE r.lost
           kept == IF got = "in" THEN Append(r.kept, i) ELSE r.kept
<1>3. t = [r EXCEPT !.checked = r.checked + 1, !.scenes = r.scenes + 1, !.found = found,
             !.unreadable = unreadable, !.lost = gone, !.kept = kept]
  BY <1>1, <1>2 DEF TakenIn
<1>4. r.scenes + 1 \in Nat
  BY DEF RunningShape
<1> HIDE DEF found, unreadable, gone, kept
<1>5. /\ RunningShape(t) /\ t.st = r.st /\ t.limit = r.limit /\ t.byPass = r.byPass /\ t.pos = r.pos
      /\ t.checked = r.checked + 1 /\ t.scenes = r.scenes + 1 /\ t.own = r.own
      /\ t.kept = kept /\ t.found = found /\ t.unreadable = unreadable
  BY <1>3, <1>4 DEF RunningShape
<1> QED
  BY <1>5, Zenon DEF found, unreadable, kept

LEMMA TakeSceneKeeps ==
  ASSUME NEW seq \in Seq(Scenes), NEW byPass, source \in SourceShapes,
         RespFits(source, resp, timeLeft, seq, byPass), TakeScene
  PROVE  RespFits(source, resp', timeLeft', seq, byPass)
<1> DEFINE i == resp.checked + 1
           end == SliceEnd(resp.pos.page)
<1>1. resp.st = "take" /\ resp.items # {} /\ ~Done /\ ~OutOfTime /\ timeLeft' = timeLeft
  BY DEF TakeScene
<1>2. /\ resp.byPass = byPass /\ resp.kept \in Seq(Scenes) /\ JudgedFits(source, seq \o resp.kept, resp, byPass)
      /\ RunningShape(resp) /\ byPass = FALSE /\ TakeFits(source, resp, timeLeft)
  <2>1. resp.byPass \in BOOLEAN \/ TRUE
    OBVIOUS
  <2> QED
    BY <1>1 DEF RespFits
<1>3. /\ resp.pos = Position(resp.pos.page, resp.pos.offset) /\ resp.pos.page \in Nat
      /\ resp.pos.page * PageSize <= resp.checked /\ resp.checked <= end
      /\ resp.items = i..end
      /\ \A u \in DOMAIN resp.own : UnitFits(source, u, resp.own[u])
      /\ \/ {i} \in DOMAIN resp.own
         \/ Len(resp.kept) >= resp.limit \/ resp.scenes >= ResponseScenes \/ resp.checked >= SearchScenes
         \/ timeLeft = "over" /\ resp.scenes > 0
  BY <1>1, <1>2, Zenon DEF TakeFits, UnitFits
<1>4. resp.checked \in 0..Total /\ resp.checked \in Nat /\ resp.found \in Nat /\ resp.unreadable \in Nat /\ resp.scenes \in Nat
  BY <1>2, FilterAssumption DEF JudgedFits, RunningShape
<1>5. /\ end \in 0..Total /\ end \in Nat /\ resp.pos.page * PageSize \in Nat /\ Total \in Nat
  <2>1. resp.pos.page \in Nat /\ PageSize \in Nat /\ Total \in Nat
    BY <1>3, FilterAssumption
  <2>2. end \in 0..Total
    BY <2>1, SliceIs, Zenon
  <2>3. resp.pos.page * PageSize \in Nat
    BY <2>1, SMT
  <2> QED
    BY <2>1, <2>2, <2>3
<1> HIDE DEF end
<1>6. i \in Nat /\ i <= end /\ i \in Scenes
  <2>1. i \in Nat /\ i > 0
    BY <1>4
  <2>2. PICK n : n \in i..end
    BY <1>1, <1>3
  <2> HIDE DEF i
  <2>3. i <= end
    BY <1>5, <2>1, <2>2
  <2> QED
    BY <1>5, <2>1, <2>3 DEF Scenes
<1>7. {i} \in DOMAIN resp.own /\ UnitFits(source, {i}, resp.own[{i}])
  BY <1>1, <1>3 DEF Done, OutOfTime
<1>8. Lowest(resp.items) = i /\ Lowest({i}) = i
  BY <1>3, <1>5, <1>6, LowestOfInterval, LowestOfOne
<1> DEFINE rest == resp.items \ {i}
           got == resp.own[{i}].got
           r == TakenIn(resp, {i}, got)
           done == rest = {} \/ timeLeft = "over" \/ Len(r.kept) >= r.limit \/ r.scenes >= ResponseScenes \/ r.checked >= SearchScenes
           more == IF done THEN {} ELSE Window(rest, i + 1, r.scenes, r.checked)
           open == [u \in DOMAIN resp.own \ {{i}} |-> resp.own[u]]
<1>9. got # "none" /\ resp' = [r EXCEPT !.items = rest, !.own = Opened(open, more)]
  BY <1>8 DEF TakeScene
<1>10. /\ got \in {"in", "out", "unreadable"}
       /\ got = "in" => source.verdict[i] = "in"
       /\ got = "out" => source.verdict[i] \notin {"in", "broken"}
  BY <1>7, <1>8, <1>9 DEF UnitFits, ReadingFits
<1>11. rest = (resp.checked + 2)..end /\ rest \in SUBSET Scenes
  BY <1>3, <1>4, <1>5, <1>6 DEF Scenes
<1> DEFINE new == IF got = "in" THEN <<i>> ELSE <<>>
           lost == IF got = "unreadable" THEN {i} ELSE {}
<1> HIDE DEF i, rest, got, new, lost, open, more, done, r
<1>12. /\ RunningShape(r) /\ r.st = "take" /\ r.limit = resp.limit /\ r.byPass = byPass /\ r.pos = resp.pos
       /\ r.checked = resp.checked + 1 /\ r.scenes = resp.scenes + 1 /\ r.own = resp.own
       /\ r.kept = resp.kept \o new
       /\ r.found = resp.found + Len(new) /\ r.unreadable = resp.unreadable + Cardinality(lost)
  <2>1. r = TakenIn(resp, {i}, got)
    BY DEF r
  <2>2. /\ RunningShape(r) /\ r.st = resp.st /\ r.limit = resp.limit /\ r.byPass = resp.byPass /\ r.pos = resp.pos
        /\ r.checked = resp.checked + 1 /\ r.scenes = resp.scenes + 1 /\ r.own = resp.own
        /\ r.kept = IF got = "in" THEN Append(resp.kept, i) ELSE resp.kept
        /\ r.found = IF got = "in" THEN resp.found + 1 ELSE resp.found
        /\ r.unreadable = IF got = "unreadable" THEN resp.unreadable + 1 ELSE resp.unreadable
    <3>1. RunningShape(resp)
      BY <1>2
    <3>2. i \in Scenes
      BY <1>6
    <3> QED
      BY <2>1, <3>1, <3>2, TakenIs
  <2>3. r.kept = resp.kept \o new
    <3>1. CASE got = "in"
      BY <1>2, <1>6, <2>2, <3>1, AppendIsConcat DEF new
    <3>2. CASE got # "in"
      BY <1>2, <2>2, <3>2, ConcatEmptySeq DEF new
    <3> QED
      BY <3>1, <3>2
  <2>4. r.found = resp.found + Len(new)
    BY <1>4, <1>6, <2>2, OneGiven DEF new
  <2>5. r.unreadable = resp.unreadable + Cardinality(lost)
    <3>1. Cardinality({i}) = 1 /\ Cardinality({}) = 0
      BY FS_Singleton, FS_EmptySet
    <3> QED
      BY <1>4, <2>2, <3>1 DEF lost
  <2> QED
    BY <1>1, <1>2, <2>2, <2>3, <2>4, <2>5, Zenon
<1>12a. r.checked = resp.checked + 1 /\ r.scenes = resp.scenes + 1
  BY <1>12, Zenon
<1>12b. r.checked \in Nat /\ r.scenes \in Nat /\ r.scenes > 0
  BY <1>4, <1>12a
<1>13. /\ resp'.st = "take" /\ resp'.byPass = byPass /\ resp'.kept = r.kept /\ resp'.checked = r.checked
       /\ resp'.found = r.found /\ resp'.unreadable = r.unreadable /\ resp'.pos = resp.pos
       /\ resp'.items = rest /\ resp'.own = Opened(open, more) /\ resp'.scenes = r.scenes /\ resp'.limit = r.limit
       /\ RunningShape(resp')
  BY <1>9, <1>12 DEF RunningShape
<1>14. /\ new \in Seq(Scenes) /\ Once(new) /\ Given(new) = IF got = "in" THEN {i} ELSE {}
  BY <1>6, OneGiven DEF new
<1>15. JudgedFits(source, seq \o resp'.kept, resp', byPass)
  <2>1. (resp.checked + 1)..(resp.checked + 1) = {i}
    BY <1>4 DEF i
  <2>2. resp.checked + 1 <= Total
    BY <1>5, <1>6 DEF i
  <2>3. /\ lost \subseteq {i} /\ Given(new) \subseteq {i} /\ lost \cap Given(new) = {}
        /\ \A j \in Given(new) : source.verdict[j] = "in"
        /\ \A j \in {i} : source.verdict[j] \in {"in", "broken"} => j \in Given(new) \cup lost
    BY <1>10, <1>14 DEF lost
  <2>4. JudgedFits(source, (seq \o resp.kept) \o new, resp', byPass)
    <3>1. /\ JudgedFits(source, seq \o resp.kept, resp, FALSE) /\ 1 \in Nat /\ FALSE \in BOOLEAN
          /\ resp'.checked = resp.checked + 1 /\ resp'.found = resp.found + Len(new)
          /\ resp'.unreadable = resp.unreadable + Cardinality(lost)
      BY <1>2, <1>12, <1>13
    <3>2. /\ lost \subseteq (resp.checked + 1)..(resp.checked + 1)
          /\ Given(new) \subseteq (resp.checked + 1)..(resp.checked + 1)
          /\ \A j \in (resp.checked + 1)..(resp.checked + 1) :
               source.verdict[j] \in {"in", "broken"} => j \in Given(new) \cup lost
      BY <2>1, <2>3
    <3>3. JudgedFits(source, (seq \o resp.kept) \o new, resp', FALSE)
      BY <1>14, <2>2, <2>3, <3>1, <3>2, JudgedStep
    <3> QED
      BY <1>2, <3>3
  <2>5. (seq \o resp.kept) \o new = seq \o resp'.kept
    <3>1. resp'.kept = resp.kept \o new /\ new \in Seq(Scenes) /\ resp.kept \in Seq(Scenes)
      BY <1>2, <1>12, <1>13, <1>14
    <3> QED
      <4>1. (seq \o resp.kept) \o new = seq \o (resp.kept \o new)
        BY <3>1, Associates, Zenon
      <4> QED
        BY <3>1, <4>1, Zenon
  <2> QED
    BY <2>4, <2>5
<1>16. resp'.kept \in Seq(Scenes)
  BY <1>2, <1>12, <1>13, <1>14, ConcatProperties
<1>17. /\ \A u \in DOMAIN open : UnitFits(source, u, open[u])
       /\ \A u \in more : IsOne(u)
  <2>1. \A u \in DOMAIN open : UnitFits(source, u, open[u])
    BY <1>3 DEF open
  <2> QED
    <3>1. \A u \in Window(rest, i + 1, r.scenes, r.checked) : IsOne(u)
      BY <1>11, <1>12b, WindowIs
    <3>2. more = {} \/ more = Window(rest, i + 1, r.scenes, r.checked)
      BY DEF more
    <3> QED
      BY <2>1, <3>1, <3>2
<1>18. /\ DOMAIN Opened(open, more) = DOMAIN open \cup more
       /\ \A u \in DOMAIN open \cup more : UnitFits(source, u, Opened(open, more)[u])
  BY <1>17, OpenedIs
<1>19. \/ resp'.items = {} \/ {resp'.checked + 1} \in DOMAIN resp'.own
       \/ Len(resp'.kept) >= resp'.limit \/ resp'.scenes >= ResponseScenes \/ resp'.checked >= SearchScenes
       \/ timeLeft' = "over" /\ resp'.scenes > 0
  <2>1. CASE done
    <3>1. resp'.scenes > 0
      BY <1>4, <1>12, <1>13
    <3> QED
      BY <1>1, <1>13, <2>1, <3>1 DEF done
  <2>2. CASE ~done
    <3>1. more = Window(rest, i + 1, r.scenes, r.checked)
      BY <2>2 DEF more
    <3>2. rest # {} /\ ~(r.scenes >= ResponseScenes) /\ ~(r.checked >= SearchScenes)
      BY <2>2 DEF done
    <3>3. r.scenes \in Nat /\ r.checked \in Nat /\ r.scenes < ResponseScenes /\ r.checked < SearchScenes
      BY <1>12b, <3>2, FilterAssumption
    <3>4. i + 1 \in rest
      BY <1>4, <1>5, <1>11, <3>2 DEF i
    <3>5. {i + 1} \in more
      BY <1>11, <3>1, <3>3, <3>4, WindowIs
    <3>6. resp'.checked + 1 = i + 1
      BY <1>12, <1>13 DEF i
    <3> QED
      BY <1>13, <1>18, <3>5, <3>6
  <2> QED
    BY <2>1, <2>2
<1>20. TakeFits(source, resp', timeLeft')
  <2>1. resp'.checked = resp.checked + 1 /\ resp.pos.page * PageSize <= resp'.checked /\ resp'.checked <= end
    BY <1>3, <1>4, <1>5, <1>6, <1>12, <1>13, SMTT(30) DEF i
  <2>2. resp'.checked + 1 = resp.checked + 2
    BY <1>4, <2>1
  <2>3. resp'.items = (resp'.checked + 1)..end
    BY <1>11, <1>13, <2>2
  <2>4. \A u \in DOMAIN resp'.own : UnitFits(source, u, resp'.own[u])
    BY <1>13, <1>18
  <2> QED
    BY <1>3, <1>13, <1>19, <2>1, <2>3, <2>4, Zenon DEF TakeFits, UnitFits, end
<1> QED
  BY <1>2, <1>13, <1>15, <1>16, <1>20 DEF RespFits

LEMMA NewReadings ==
  ASSUME NEW x, NEW units
  PROVE  /\ DOMAIN Opened(NoReadings, units) = units
         /\ \A u \in units : ReadingFits(x, u, Opened(NoReadings, units)[u])
<1>1. Opened(NoReadings, units)
        = [u \in DOMAIN NoReadings \cup units |-> IF u \in DOMAIN NoReadings THEN NoReadings[u] ELSE NewReading]
  BY Zenon DEF Opened
<1>2. \A u \in units : Opened(NoReadings, units)[u] = NewReading
  BY <1>1, NoneOpen
<1>3. \A u : ReadingFits(x, u, NewReading)
  BY DEF ReadingFits, NewReading
<1>4. DOMAIN Opened(NoReadings, units) = units
  BY <1>1, NoneOpen
<1> QED
  BY <1>2, <1>3, <1>4

LEMMA ReadDayKeeps ==
  ASSUME NEW seq, NEW byPass, source \in SourceShapes,
         RespFits(source, resp, timeLeft, seq, byPass), ReadDay
  PROVE  RespFits(source, resp', timeLeft', seq, byPass)
<1> DEFINE block == Block(resp.pos)
<1>1. /\ resp.st = "loop" /\ resp.pos # None /\ resp.byPass
      /\ resp' = IF block = {} THEN [resp EXCEPT !.fetched = TRUE, !.pos = None]
                 ELSE [resp EXCEPT !.st = "judge", !.fetched = TRUE, !.items = block,
                                   !.own = Opened(NoReadings, Passes(block))]
  BY Zenon DEF ReadDay, GoesOn
<1>2. /\ resp.byPass = byPass /\ resp.kept \in Seq(Scenes) /\ JudgedFits(source, seq \o resp.kept, resp, byPass)
      /\ RunningShape(resp) /\ PosFits(resp.pos, resp.checked)
  BY <1>1, Zenon DEF RespFits
<1>3. resp.checked \in 0..Total
  BY <1>2 DEF JudgedFits
<1>4. block = BlockFrom(source, resp.checked + 1)
  BY <1>2 DEF PosFits, Block
<1> HIDE DEF block
<1>5. CASE block = {}
  <2>1. /\ resp'.st = "loop" /\ resp'.byPass = byPass /\ resp'.kept = resp.kept /\ resp'.checked = resp.checked
        /\ resp'.found = resp.found /\ resp'.unreadable = resp.unreadable /\ resp'.pos = None
        /\ RunningShape(resp')
    BY <1>1, <1>2, <1>5 DEF RunningShape
  <2>2. resp.checked = Total
    <3>1. ASSUME resp.checked + 1 \in Scenes PROVE FALSE
      <4>1. PICK n \in Nat : n > 0 /\ Cardinality(block) = n
        BY <1>4, <3>1, BlockIs
      <4> QED
        BY <1>5, <4>1, FS_EmptySet
    <3> QED
      BY <1>3, <3>1, FilterAssumption DEF Scenes
  <2> QED
    BY <1>2, <2>1, <2>2 DEF RespFits, JudgedFits
<1>6. CASE block # {}
  <2> DEFINE own == Opened(NoReadings, Passes(block))
  <2>1. DOMAIN own = PassesOf(source, block) /\ \A u \in DOMAIN own : ReadingFits(source, u, own[u])
    <3>1. Passes(block) = PassesOf(source, block)
      BY Zenon DEF Passes, PassesOf
    <3> QED
      BY <3>1, NewReadings
  <2> HIDE DEF own
  <2>2. resp' = [resp EXCEPT !.st = "judge", !.fetched = TRUE, !.items = block, !.own = own]
    BY <1>1, <1>6 DEF own
  <2>3. /\ resp'.st = "judge" /\ resp'.byPass = byPass /\ resp'.kept = resp.kept /\ resp'.checked = resp.checked
        /\ resp'.found = resp.found /\ resp'.unreadable = resp.unreadable /\ resp'.pos = resp.pos
        /\ resp'.items = block /\ resp'.own = own /\ RunningShape(resp')
    BY <1>2, <2>2 DEF RunningShape
  <2>4. JudgeFits(source, resp')
    BY <1>2, <1>4, <1>6, <2>1, <2>3, Zenon DEF JudgeFits
  <2>5. JudgedFits(source, seq \o resp'.kept, resp', byPass)
    BY <1>2, <2>3 DEF JudgedFits
  <2> QED
    BY <1>1, <1>2, <2>3, <2>4, <2>5 DEF RespFits
<1> QED
  BY <1>5, <1>6

LEMMA LeaveDayKeeps ==
  ASSUME NEW seq, NEW byPass, RespFits(source, resp, timeLeft, seq, byPass), LeaveDay
  PROVE  RespFits(source, resp', timeLeft', seq, byPass)
<1>1. resp.st = "judge" /\ resp' = [resp EXCEPT !.st = "loop", !.own = NoReadings, !.items = {}, !.broken = TRUE]
  BY DEF LeaveDay
<1>2. /\ resp.byPass = byPass /\ resp.kept \in Seq(Scenes) /\ JudgedFits(source, seq \o resp.kept, resp, byPass)
      /\ RunningShape(resp) /\ JudgeFits(source, resp)
  BY <1>1 DEF RespFits
<1>3. /\ resp'.st = "loop" /\ resp'.byPass = byPass /\ resp'.kept = resp.kept /\ resp'.checked = resp.checked
      /\ resp'.found = resp.found /\ resp'.unreadable = resp.unreadable /\ resp'.pos = resp.pos
      /\ RunningShape(resp')
  BY <1>1, <1>2 DEF RunningShape
<1>4. PosFits(resp'.pos, resp'.checked) /\ resp'.pos # None
  BY <1>2, <1>3 DEF JudgeFits, PosFits, Position, None
<1>5. JudgedFits(source, seq \o resp'.kept, resp', byPass)
  BY <1>2, <1>3 DEF JudgedFits
<1> QED
  BY <1>2, <1>3, <1>4, <1>5 DEF RespFits

LEMMA EndResponseKeeps ==
  ASSUME NEW seq, NEW byPass, RespFits(source, resp, timeLeft, seq, byPass), EndResponse
  PROVE  RespFits(source, resp', timeLeft', seq, byPass)
<1> DEFINE next == IF resp.pos = None \/ LimitReached THEN None
                   ELSE [pos |-> resp.pos, checked |-> resp.checked, found |-> resp.found, unreadable |-> resp.unreadable]
<1>1. /\ resp.st = "loop"
      /\ resp' = [st |-> "done", kept |-> resp.kept, lost |-> resp.lost, byPass |-> resp.byPass, limited |-> LimitReached,
                  checked |-> resp.checked, found |-> resp.found, unreadable |-> resp.unreadable, next |-> next]
  BY Zenon DEF EndResponse
<1>2. /\ resp.byPass = byPass /\ resp.kept \in Seq(Scenes) /\ JudgedFits(source, seq \o resp.kept, resp, byPass)
      /\ IF resp.pos = None THEN resp.checked = Total ELSE PosFits(resp.pos, resp.checked)
  BY <1>1 DEF RespFits
<1> HIDE DEF next
<1>3. /\ resp'.st = "done" /\ resp'.byPass = byPass /\ resp'.kept = resp.kept /\ resp'.checked = resp.checked
      /\ resp'.found = resp.found /\ resp'.unreadable = resp.unreadable /\ resp'.limited = LimitReached /\ resp'.next = next
  BY <1>1, <1>2
<1>4. JudgedFits(source, seq \o resp'.kept, resp', byPass)
  BY <1>2, <1>3 DEF JudgedFits
<1>5. IF resp'.next = None THEN resp'.checked = Total \/ resp'.limited ELSE CursorFits(resp'.next, resp')
  <2>1. CASE resp.pos = None \/ LimitReached
    BY <1>2, <1>3, <2>1 DEF next
  <2>2. CASE ~(resp.pos = None \/ LimitReached)
    <3>1. next = [pos |-> resp.pos, checked |-> resp.checked, found |-> resp.found, unreadable |-> resp.unreadable]
      BY <2>2 DEF next
    <3>2. resp.checked < SearchScenes
      <4>1. ~(resp.checked >= SearchScenes) /\ resp.checked \in 0..Total
        BY <1>2, <2>2 DEF LimitReached, JudgedFits
      <4> QED
        BY <4>1, FilterAssumption
    <3>3. CursorFits(resp'.next, resp')
      BY <1>2, <1>3, <2>2, <3>1, <3>2 DEF CursorFits
    <3>4. resp'.next # None
      BY <1>3, <3>1 DEF None
    <3> QED
      BY <3>3, <3>4
  <2> QED
    BY <2>1, <2>2
<1> QED
  BY <1>2, <1>3, <1>4, <1>5 DEF RespFits

\* The passes of a block are its parts: each scene is in one, with those it
\* shares its pass with.
LEMMA PassesArePart ==
  ASSUME NEW x, NEW block, NEW u \in PassesOf(x, block)
  PROVE  /\ u \subseteq block /\ u # {}
         /\ \A i \in u : \A j \in block : j \in u <=> x.pass[i] = x.pass[j]
BY DEF PassesOf

LEMMA TakeDayKeeps ==
  ASSUME NEW seq \in Seq(Scenes), NEW byPass, source \in SourceShapes,
         RespFits(source, resp, timeLeft, seq, byPass), TakeDay
  PROVE  RespFits(source, resp', timeLeft', seq, byPass)
<1> DEFINE kept == UNION {u \in DOMAIN resp.own : resp.own[u].got = "in"}
           lost == UNION {u \in DOMAIN resp.own : resp.own[u].got = "unreadable"}
           block == resp.items
           pos == BehindBlock(resp.items, resp.pos)
           new == SetToSeq(kept)
           r == Fold(resp, DOMAIN resp.own)
           c == resp.checked
<1>1. resp.st = "judge" /\ Unfinished = {}
      /\ resp' = [r EXCEPT !.st = "loop", !.own = NoReadings, !.items = {}, !.pos = pos]
  BY Zenon DEF TakeDay
<1>2. /\ resp.byPass = byPass /\ resp.kept \in Seq(Scenes) /\ JudgedFits(source, seq \o resp.kept, resp, byPass)
      /\ RunningShape(resp) /\ byPass = TRUE /\ JudgeFits(source, resp)
  BY <1>1 DEF RespFits
<1>3. /\ PosFits(resp.pos, c) /\ block = BlockFrom(source, c + 1) /\ block # {}
      /\ DOMAIN resp.own = PassesOf(source, block)
      /\ \A u \in DOMAIN resp.own : ReadingFits(source, u, resp.own[u])
  BY <1>2, Zenon DEF JudgeFits
<1>4. c \in 0..Total /\ c \in Nat /\ Total \in Nat /\ resp.found \in Nat /\ resp.unreadable \in Nat /\ resp.scenes \in Nat
  BY <1>2, FilterAssumption DEF JudgedFits, RunningShape
<1>5. c + 1 \in Scenes
  <2>1. PICK i : i \in block
    BY <1>3
  <2>2. i \in Scenes /\ i >= c + 1
    BY <1>3, <2>1 DEF BlockFrom
  <2> QED
    BY <1>4, <2>2 DEF Scenes
<1>6. PICK n \in Nat : /\ n > 0 /\ c + 1 + n <= Total + 1
                       /\ block = (c + 1)..(c + 1 + n - 1)
                       /\ Cardinality(block) = n
  BY <1>3, <1>5, BlockIs
<1>7. c + 1 + n - 1 = c + n /\ c + n <= Total /\ block = (c + 1)..(c + n)
  BY <1>4, <1>6
<1>8. block \subseteq Scenes /\ block \subseteq Nat /\ IsFiniteSet(block)
  <2>1. \A a, b \in Nat : IsFiniteSet(a..b)
    <3> TAKE a \in Nat, b \in Nat
    <3>1. a \in Int /\ b \in Int
      OBVIOUS
    <3> QED
      BY <3>1, FS_Interval
  <2>2. c + 1 \in Nat /\ c + n \in Nat
    BY <1>4, <1>6
  <2>3. IsFiniteSet(block)
    BY <1>7, <2>1, <2>2, Zenon
  <2>4. block \subseteq Nat
    BY <1>7, <2>2
  <2>5. block \subseteq Scenes
    <3> HIDE DEF block
    <3>1. SUFFICES ASSUME NEW i \in block PROVE i \in Scenes
      OBVIOUS
    <3>2. i \in (c + 1)..(c + n)
      BY <1>7, <3>1
    <3> QED
      BY <1>4, <1>6, <1>7, <3>2 DEF Scenes
  <2> QED
    BY <2>3, <2>4, <2>5
<1> HIDE DEF block
<1>9. ASSUME NEW u \in DOMAIN resp.own
      PROVE  /\ u \subseteq block /\ u # {}
             /\ \A i \in u : \A j \in block : j \in u <=> source.pass[i] = source.pass[j]
             /\ resp.own[u].got \in {"in", "out", "unreadable"}
             /\ resp.own[u].got = "in" => \A i \in u : source.verdict[i] = "in"
             /\ resp.own[u].got = "out" => \A i \in u : source.verdict[i] \notin {"in", "broken"}
  <2>1. /\ u \subseteq block /\ u # {}
        /\ \A i \in u : \A j \in block : j \in u <=> source.pass[i] = source.pass[j]
    BY <1>3, PassesArePart
  <2>2. resp.own[u].got # "none"
    BY <1>1 DEF Unfinished
  <2>3. Lowest(u) \in u
    <3>1. u \in SUBSET Nat
      BY <1>8, <2>1
    <3> QED
      BY <2>1, <3>1, LowestIs
  <2>4. \A i \in u : source.verdict[i] = source.verdict[Lowest(u)]
    BY <1>8, <2>1, <2>3, ShapesAssumption
  <2> QED
    BY <1>3, <2>1, <2>2, <2>4 DEF ReadingFits
<1>10. \A i \in block : \E u \in DOMAIN resp.own : i \in u
  <2> TAKE i \in block
  <2> DEFINE u == {j \in block : source.pass[j] = source.pass[i]}
  <2>1. u \in PassesOf(source, block) /\ i \in u
    BY DEF PassesOf
  <2> HIDE DEF u
  <2> QED
    BY <1>3, <2>1
<1>11. kept \subseteq block /\ lost \subseteq block
  BY <1>9
<1>12. kept \cap lost = {}
  <2>1. SUFFICES ASSUME NEW i \in kept, i \in lost PROVE FALSE
    OBVIOUS
  <2>2. PICK u \in DOMAIN resp.own : i \in u /\ resp.own[u].got = "in"
    BY <2>1
  <2>3. PICK v \in DOMAIN resp.own : i \in v /\ resp.own[v].got = "unreadable"
    BY <2>1
  <2>4. \A j : j \in u <=> j \in v
    <3>1. ASSUME NEW j \in block PROVE j \in u <=> j \in v
      BY <1>9, <2>2, <2>3, <3>1
    <3> QED
      BY <1>9, <3>1
  <2>5. u = v
    BY <2>4
  <2> QED
    BY <2>2, <2>3, <2>5
<1>13. \A i \in kept : source.verdict[i] = "in"
  BY <1>9
<1>14. ASSUME NEW i \in block, source.verdict[i] \in {"in", "broken"} PROVE i \in kept \cup lost
  <2>1. PICK u \in DOMAIN resp.own : i \in u
    BY <1>10
  <2>2. resp.own[u].got \in {"in", "unreadable"}
    BY <1>9, <1>14, <2>1
  <2> QED
    BY <2>1, <2>2
<1>15. ASSUME NEW i \in kept, NEW j \in block, source.pass[i] = source.pass[j] PROVE j \in kept
  <2>1. PICK u \in DOMAIN resp.own : i \in u /\ resp.own[u].got = "in"
    OBVIOUS
  <2>2. j \in u
    BY <1>9, <1>15, <2>1
  <2> QED
    BY <2>1, <2>2
<1>16. IsFiniteSet(kept) /\ IsFiniteSet(lost)
  BY <1>8, <1>11, FS_Subset
<1> HIDE DEF kept, lost
<1>17. /\ new \in Seq(Scenes) /\ Once(new) /\ Given(new) = kept /\ Len(new) = Cardinality(kept)
  <2>1. new \in Seq(kept) /\ Once(new) /\ Given(new) = kept
    BY <1>16, Listed
  <2>2. Len(new) = Cardinality(kept)
    BY <2>1, CountGiven
  <2>3. new \in Seq(Scenes)
    BY <1>8, <1>11, <2>1, SeqMonotonic
  <2> QED
    BY <2>1, <2>2, <2>3
<1>18. r = [resp EXCEPT !.checked = resp.checked + Cardinality(block), !.scenes = resp.scenes + Cardinality(block),
              !.found = resp.found + Cardinality(kept), !.unreadable = resp.unreadable + Cardinality(lost),
              !.lost = resp.lost \union lost, !.kept = resp.kept \o new]
  BY Zenon DEF Fold, kept, lost, block
<1> DEFINE a1 == resp.checked + Cardinality(block)
           a2 == resp.scenes + Cardinality(block)
           a3 == resp.found + Cardinality(kept)
           a4 == resp.unreadable + Cardinality(lost)
           a5 == resp.lost \union lost
           a6 == resp.kept \o new
<1>19. a2 \in Nat /\ a1 = c + n /\ Cardinality(lost) \in Nat
  BY <1>4, <1>6, <1>16, FS_CardinalityType, SMTT(30)
<1>20. resp' = [[resp EXCEPT !.checked = a1, !.scenes = a2, !.found = a3, !.unreadable = a4, !.lost = a5, !.kept = a6]
                 EXCEPT !.st = "loop", !.own = NoReadings, !.items = {}, !.pos = pos]
  BY <1>1, <1>18, Zenon
<1> HIDE DEF a1, a2, a3, a4, a5, a6, new, pos, r
<1>21. /\ resp'.st = "loop" /\ resp'.byPass = byPass /\ resp'.kept = a6 /\ resp'.checked = a1
       /\ resp'.found = a3 /\ resp'.unreadable = a4 /\ resp'.pos = pos
       /\ RunningShape(resp')
  BY <1>2, <1>19, <1>20 DEF RunningShape
<1>22. JudgedFits(source, seq \o resp'.kept, resp', byPass)
  <2>1. /\ lost \subseteq (c + 1)..(c + n) /\ Given(new) \subseteq (c + 1)..(c + n) /\ lost \cap Given(new) = {}
        /\ \A i \in Given(new) : source.verdict[i] = "in"
        /\ \A i \in (c + 1)..(c + n) : source.verdict[i] \in {"in", "broken"} => i \in Given(new) \cup lost
    BY <1>7, <1>11, <1>12, <1>13, <1>14, <1>17
  <2>2. resp'.checked = c + n /\ resp'.found = resp.found + Len(new) /\ resp'.unreadable = resp.unreadable + Cardinality(lost)
    BY <1>17, <1>19, <1>21 DEF a3, a4
  <2>3. c + n < Total => c + n + 1 \in Starts(source)
    <3>1. c + 1 \in Starts(source)
      <4>1. c < Total
        BY <1>4, <1>6
      <4> QED
        BY <1>2, <4>1 DEF JudgedFits, PassesWhole
    <3>2. (c + 1) + Cardinality(BlockFrom(source, c + 1)) <= Total =>
            (c + 1) + Cardinality(BlockFrom(source, c + 1)) \in Starts(source)
      BY <3>1, StartsAre DEF AreStarts
    <3>3. (c + 1) + n <= Total => (c + 1) + n \in Starts(source)
      BY <1>3, <1>6, <3>2 DEF block
    <3>4. (c + 1) + n = c + n + 1 /\ (c + n < Total => (c + 1) + n <= Total)
      BY <1>4
    <3> QED
      BY <3>3, <3>4
  <2>4. \A i \in Given(new) : \A j \in (c + 1)..(c + n) :
          source.verdict[j] = "in" /\ source.pass[i] = source.pass[j] => j \in Given(new)
    BY <1>7, <1>15, <1>17
  <2>5. /\ JudgedFits(source, seq \o resp.kept, resp, TRUE) /\ resp.checked + n <= Total
    BY <1>2, <1>7
  <2>6. JudgedFits(source, (seq \o resp.kept) \o new, resp', TRUE)
    BY <1>17, <2>1, <2>2, <2>3, <2>4, <2>5, JudgedStep
  <2>7. (seq \o resp.kept) \o new = seq \o resp'.kept
    <3>1. resp'.kept = resp.kept \o new /\ new \in Seq(Scenes) /\ resp.kept \in Seq(Scenes)
      BY <1>2, <1>17, <1>21 DEF a6
    <3>2. (seq \o resp.kept) \o new = seq \o (resp.kept \o new)
      BY <3>1, Associates, Zenon
    <3> QED
      BY <3>1, <3>2, Zenon
  <2> QED
    BY <1>2, <2>6, <2>7
<1>23. resp'.kept \in Seq(Scenes)
  <2>1. resp'.kept = resp.kept \o new
    BY <1>21 DEF a6
  <2> QED
    BY <1>2, <1>17, <2>1, ConcatProperties
<1>24. IF resp'.pos = None THEN resp'.checked = Total ELSE PosFits(resp'.pos, resp'.checked)
  <2>1. Before(resp.pos) + Cardinality(resp.items) = c + n
    BY <1>3, <1>6 DEF PosFits, block
  <2>2. pos = IF c + n >= Total THEN None ELSE Position((c + n) \div PageSize, (c + n) % PageSize)
    BY <2>1 DEF pos, BehindBlock
  <2>3. CASE c + n >= Total
    BY <1>4, <1>7, <1>19, <1>21, <2>2, <2>3
  <2>4. CASE ~(c + n >= Total)
    <3>1. pos = Position((c + n) \div PageSize, (c + n) % PageSize)
      BY <2>2, <2>4
    <3>2. c + n \in Nat
      BY <1>4
    <3>3. PosFits(pos, c + n)
      BY <3>1, <3>2, PlaceOf
    <3>4. pos # None
      BY <3>1 DEF Position, None
    <3> QED
      BY <1>19, <1>21, <3>3, <3>4
  <2> QED
    BY <2>3, <2>4
<1> QED
  BY <1>2, <1>21, <1>22, <1>23, <1>24, Zenon DEF RespFits

\* Every step of a response keeps what holds of it.
LEMMA StepsKeep ==
  ASSUME NEW seq \in Seq(Scenes), NEW byPass, source \in SourceShapes,
         RespFits(source, resp, timeLeft, seq, byPass), Steps
  PROVE  RespFits(source, resp', timeLeft', seq, byPass)
BY FetchPageKeeps, TakeSceneKeeps, LeavePageKeeps, ReadDayKeeps, TakeDayKeeps, LeaveDayKeeps, ReadOwnKeeps,
   TimePassesKeeps, EndResponseKeeps DEF Steps

----------------------------------------------------------------------------
(* The sources of a search and their shares.                               *)

LEMMA KeysAre ==
  ASSUME NEW q \in Searches
  PROVE  /\ IsFiniteSet(Keys(q)) /\ Keys(q) # {} /\ Cardinality(Keys(q)) \in Nat
         /\ \A k \in Keys(q) : Holds[k] \in Nat
         /\ IsJudged(q, {Judged}) => {Judged} \in Keys(q)
<1> DEFINE own == {q.ids \cap Native \cap HasTime, (q.ids \cap Native) \ HasTime}
           others == {{c} : c \in q.ids \cap Federated}
<1>1. /\ q.ids \in IdSets /\ IsFiniteSet(q.ids) /\ q.ids # {} /\ q.ids \subseteq Native \cup Federated
      /\ Judged \in Federated /\ \A k \in Keys([ids |-> q.ids]) : Holds[k] \in Nat
  BY SearchAssumption DEF Searches
<1>2. Keys(q) = (own \ {{}}) \cup others /\ Keys([ids |-> q.ids]) = Keys(q)
  BY DEF Keys
<1>3. IsFiniteSet(own)
  <2>1. \A a, b : IsFiniteSet({a} \cup {b})
    BY FS_Singleton, FS_Union
  <2> DEFINE a == q.ids \cap Native \cap HasTime
             b == (q.ids \cap Native) \ HasTime
  <2>2. own = {a} \cup {b}
    OBVIOUS
  <2> HIDE DEF a, b, own
  <2> QED
    BY <2>1, <2>2
<1>4. IsFiniteSet(others)
  <2>1. IsFiniteSet(q.ids \cap Federated)
    BY <1>1, FS_Subset
  <2> DEFINE f == [c \in q.ids \cap Federated |-> {c}]
  <2>2. f \in Surjection(q.ids \cap Federated, others)
    BY DEF Surjection
  <2> QED
    BY <2>1, <2>2, FS_Surjection
<1>5. IsFiniteSet(Keys(q)) /\ Cardinality(Keys(q)) \in Nat
  <2>1. IsFiniteSet(own \ {{}})
    BY <1>3, FS_Subset
  <2> HIDE DEF own, others
  <2>2. IsFiniteSet((own \ {{}}) \cup others)
    BY <1>4, <2>1, FS_Union
  <2> QED
    BY <1>2, <2>2, FS_CardinalityType
<1>6. Keys(q) # {}
  <2>1. PICK c \in q.ids : TRUE
    BY <1>1
  <2>2. CASE c \in Federated
    <3>1. {c} \in others
      BY <2>2
    <3> QED
      BY <1>2, <3>1
  <2>3. CASE c \in Native
    <3> DEFINE a == q.ids \cap Native \cap HasTime
               b == (q.ids \cap Native) \ HasTime
    <3>1. c \in a \/ c \in b
      BY <2>3
    <3>2. a \in Keys(q) \/ b \in Keys(q)
      <4>1. a # {} \/ b # {}
        BY <3>1
      <4>2. a \in own /\ b \in own
        OBVIOUS
      <4> HIDE DEF a, b, own, others
      <4> QED
        BY <1>2, <4>1, <4>2
    <3> QED
      BY <3>2
  <2> QED
    BY <1>1, <2>1, <2>2, <2>3
<1>7. IsJudged(q, {Judged}) => {Judged} \in Keys(q)
  BY <1>1, <1>2 DEF IsJudged, Judges
<1> QED
  BY <1>1, <1>2, <1>5, <1>6, <1>7

LEMMA LoneIs ==
  ASSUME NEW q \in Searches, ~IsMixed(q)
  PROVE  Keys(q) = {Lone(q)}
<1>1. IsFiniteSet(Keys(q)) /\ Keys(q) # {} /\ Cardinality(Keys(q)) \in Nat
  BY KeysAre
<1>2. ~(Cardinality(Keys(q)) > 1)
  BY DEF IsMixed
<1>3. Cardinality(Keys(q)) # 0
  BY <1>1, FS_EmptySet
<1>4. Cardinality(Keys(q)) = 1
  BY <1>1, <1>2, <1>3
<1>5. PICK k : Keys(q) = {k}
  BY <1>1, <1>4, FS_Singleton
<1> QED
  BY <1>5 DEF Lone

LEMMA SharesAre ==
  ASSUME NEW keys, NEW first, IsFiniteSet(keys)
  PROVE  Shares(keys, first) \in [keys -> Nat]
<1> DEFINE n == Cardinality(keys)
           rest(k) == IF Cardinality({j \in keys \ {k} : IF first THEN InFrontAtFirst(j, k) ELSE InFrontLater(j, k)}) < PageLimit % n
                      THEN 1 ELSE 0
<1>1. Shares(keys, first) = [k \in keys |-> PageLimit \div n + rest(k)]
  BY Zenon DEF Shares
<1>2. \A k : rest(k) \in Nat
  OBVIOUS
<1> HIDE DEF rest
<1>3. ASSUME NEW k \in keys PROVE PageLimit \div n + rest(k) \in Nat
  <2>1. n \in Nat /\ n # 0
    BY <1>3, FS_CardinalityType, FS_EmptySet
  <2>2. PageLimit \div n \in Nat
    BY <2>1, SearchAssumption, Divides
  <2> HIDE DEF n
  <2> QED
    BY <1>2, <2>2
<1> QED
  BY <1>1, <1>3

----------------------------------------------------------------------------
(* Markers of the platform's own are accepted.                             *)

LEMMA MarkerReadable ==
  ASSUME NEW x, NEW q, NEW k, NEW m, NEW seq, NEW counts,
         SourceFits(x, q, k, seq, counts), MarkerFits(q, k, m, seq, counts)
  PROVE  OwnReadable(q, k, m) /\ m # None /\ "s" \notin DOMAIN m
<1>1. m = [of |-> AskedOf(q, k), at |-> m.at]
  BY DEF MarkerFits, Marker
<1>2. ASSUME IsJudged(q, k) PROVE CursorReadable(m.at)
  <2>1. /\ CursorFits(m.at, counts) /\ counts.found + counts.unreadable <= counts.checked
        /\ counts.found \in Nat /\ counts.unreadable \in Nat /\ counts.checked \in 0..Total
    BY <1>2 DEF MarkerFits, SourceFits, JudgedFits
  <2>2. /\ m.at.checked = counts.checked /\ m.at.found = counts.found /\ m.at.unreadable = counts.unreadable
        /\ m.at.pos.offset \in 0..(PageSize - 1) /\ counts.checked < SearchScenes
    BY <2>1 DEF CursorFits, PosFits
  <2> QED
    BY <2>1, <2>2, FilterAssumption DEF CursorReadable
<1> QED
  BY <1>1, <1>2 DEF OwnReadable, None

LEMMA TokenAccepted ==
  ASSUME NEW x, NEW c, GotFits(x, c), TokenFits(c), c.token # None
  PROVE  Accepts(c.q, c.token)
<1>1. c.q \in Searches /\ DOMAIN c.got = Keys(c.q) /\ \A k \in Keys(c.q) : SourceFits(x, c.q, k, c.got[k], c.counts)
  BY DEF GotFits
<1>2. CASE IsMixed(c.q)
  <2>1. /\ c.token = [of |-> c.q, s |-> c.token.s, f |-> c.token.f]
        /\ DOMAIN c.token.s # {} /\ DOMAIN c.token.s \subseteq Keys(c.q) /\ c.token.f \subseteq Keys(c.q)
    BY <1>2 DEF TokenFits, MixedToken
  <2>2. ASSUME NEW k \in DOMAIN c.token.s PROVE OwnReadable(c.q, k, c.token.s[k])
    <3>1. PendingOf(c.q, c.token) = c.token.s
      BY <1>2 DEF PendingOf
    <3>2. PendFits(c.q, k, c.token.s[k], c.got[k], c.counts)
      BY <3>1 DEF TokenFits
    <3>3. SourceFits(x, c.q, k, c.got[k], c.counts)
      BY <1>1, <2>1
    <3>4. CASE c.token.s[k] = None
      BY <3>4 DEF OwnReadable
    <3>5. CASE c.token.s[k] # None
      <4>1. MarkerFits(c.q, k, c.token.s[k], c.got[k], c.counts)
        BY <3>2, <3>5 DEF PendFits
      <4> QED
        BY <3>3, <4>1, MarkerReadable
    <3> QED
      BY <3>4, <3>5
  <2>3. "s" \in DOMAIN c.token /\ c.token.of = c.q
    BY <2>1
  <2> QED
    BY <1>2, <2>1, <2>2, <2>3 DEF Accepts
<1>3. CASE ~IsMixed(c.q)
  <2>1. Lone(c.q) \in Keys(c.q)
    BY <1>1, <1>3, LoneIs
  <2>2. MarkerFits(c.q, Lone(c.q), c.token, c.got[Lone(c.q)], c.counts)
    BY <1>3 DEF TokenFits
  <2>3. SourceFits(x, c.q, Lone(c.q), c.got[Lone(c.q)], c.counts)
    BY <1>1, <2>1
  <2>4. OwnReadable(c.q, Lone(c.q), c.token) /\ "s" \notin DOMAIN c.token
    BY <2>2, <2>3, MarkerReadable
  <2> QED
    BY <1>3, <2>4 DEF Accepts
<1> QED
  BY <1>2, <1>3

\* Where a walk stands before its next request.
LEMMA PendingFits ==
  ASSUME NEW x, NEW w, WalkFits(x, w), NEW k \in DOMAIN PendingOf(w.q, w.token)
  PROVE  /\ k \in Keys(w.q) /\ SourceFits(x, w.q, k, w.seen.got[k], w.seen.counts)
         /\ PendFits(w.q, k, PendingOf(w.q, w.token)[k], w.seen.got[k], w.seen.counts)
<1>1. w.seen.q = w.q /\ w.seen.token = w.token /\ GotFits(x, w.seen)
  BY DEF WalkFits
<1>2. CASE w.token = None
  <2>1. PendingOf(w.q, w.token) = [j \in Keys(w.q) |-> None] /\ Untouched(w.seen)
    BY <1>2 DEF PendingOf, WalkFits
  <2>2. k \in Keys(w.q) /\ PendingOf(w.q, w.token)[k] = None
    BY <2>1
  <2> QED
    BY <1>1, <2>1, <2>2 DEF Untouched, GotFits
<1>3. CASE w.token # None
  <2>1. TokenFits(w.seen)
    BY <1>3 DEF WalkFits
  <2>2. PendFits(w.q, k, PendingOf(w.q, w.token)[k], w.seen.got[k], w.seen.counts)
    BY <1>1, <2>1 DEF TokenFits
  <2>3. k \in Keys(w.q)
    <3>1. CASE IsMixed(w.q)
      BY <1>1, <1>3, <2>1, <3>1 DEF TokenFits, PendingOf
    <3>2. CASE ~IsMixed(w.q)
      BY <3>2 DEF PendingOf
    <3> QED
      BY <3>1, <3>2
  <2> QED
    BY <1>1, <2>2, <2>3 DEF GotFits
<1> QED
  BY <1>2, <1>3

----------------------------------------------------------------------------
(* What is true of a new search.                                           *)

LEMMA EmptyFits ==
  ASSUME NEW x \in SourceShapes, NEW q \in Searches
  PROVE  /\ GotFits(x, EmptyCtx(q)) /\ Untouched(EmptyCtx(q)) /\ EmptyCtx(q).token = None /\ EmptyCtx(q).q = q
<1> DEFINE c == EmptyCtx(q)
<1>1. /\ c = [q |-> q, got |-> [k \in Keys(q) |-> <<>>], token |-> None, open |-> {}, named |-> {}, counts |-> NoCounts]
      /\ c.q = q /\ c.token = None /\ DOMAIN c.got = Keys(q) /\ \A k \in Keys(q) : c.got[k] = <<>>
      /\ c.counts = NoCounts
  BY DEF EmptyCtx
<1>2. NoCounts.checked = 0 /\ NoCounts.found = 0 /\ NoCounts.unreadable = 0
  BY DEF NoCounts
<1> HIDE DEF c
<1>3. \A k \in Keys(q) : PlainFits(k, <<>>)
  <2>1. <<>> \in Seq(Nat) /\ Len(<<>>) = 0 /\ DOMAIN <<>> = {}
    BY EmptySeq
  <2>2. \A k \in Keys(q) : Holds[k] \in Nat
    BY KeysAre
  <2> QED
    BY <2>1, <2>2 DEF PlainFits, IsRun
<1>4. ASSUME NEW byPass \in BOOLEAN PROVE JudgedFits(x, <<>>, NoCounts, byPass)
  <2>1. /\ <<>> \in Seq(Scenes) /\ Len(<<>>) = 0 /\ DOMAIN <<>> = {} /\ Given(<<>>) = {}
    BY EmptySeq DEF Given
  <2>2. Missed(x, <<>>, 0) = {}
    BY DEF Missed, Scenes
  <2>3. Cardinality({}) = 0
    BY FS_EmptySet
  <2>4. 1 \in Starts(x) /\ 0 + 1 = 1
    BY StartsAre DEF AreStarts
  <2>5. PassesWhole(x, <<>>, 0)
    BY <2>1, <2>4 DEF PassesWhole
  <2>6. 0 \in 0..Total /\ 0 \in Nat /\ 0 + 0 <= 0
    BY FilterAssumption
  <2>7. Cardinality(Missed(x, <<>>, 0)) <= 0
    <3>1. Cardinality(Missed(x, <<>>, 0)) = 0
      BY <2>2, <2>3, Zenon
    <3> QED
      BY <3>1
  <2> QED
    BY <1>2, <2>1, <2>5, <2>6, <2>7 DEF JudgedFits
<1>5. \A k \in Keys(q) : SourceFits(x, q, k, <<>>, NoCounts)
  <2>1. (q.flt = "pass") \in BOOLEAN
    OBVIOUS
  <2> QED
    BY <1>3, <1>4, <2>1 DEF SourceFits
<1>6. GotFits(x, c)
  BY <1>1, <1>5 DEF GotFits
<1>7. Untouched(c)
  BY <1>1, <1>2 DEF Untouched, PendFits
<1> QED
  BY <1>1, <1>6, <1>7 DEF c

----------------------------------------------------------------------------
(* A page: what the search has once all sources have answered.             *)

JudgedAnswers(w) == {k \in DOMAIN w.req.out : IsJudged(w.q, k) /\ w.req.share[k] > 0 /\ ~w.req.out[k].failed}

FailedSoFar(w) == w.req.failed \cup {k \in DOMAIN w.req.out : w.req.out[k].failed}

PageShape(w, page) ==
  /\ page = [q |-> page.q, got |-> page.got, token |-> page.token, open |-> page.open,
             named |-> page.named, counts |-> page.counts]
  /\ page.q = w.q
  /\ page.got = [k \in Keys(w.q) |-> IF k \in DOMAIN w.req.out THEN w.seen.got[k] \o w.req.out[k].items
                                     ELSE w.seen.got[k]]
  /\ page.token = NextToken(w.q, w.req)
  /\ page.open = UNION DOMAIN NextPending(w.req)
  /\ page.named = w.seen.named \cup FailedSoFar(w)
  /\ page.counts = IF JudgedAnswers(w) = {} THEN w.seen.counts ELSE w.req.out[{Judged}].counts

LEMMA PageIs ==
  ASSUME NEW x, NEW w, WalkFits(x, w)
  PROVE  PageShape(w, WithPage(w))
<1> DEFINE failed == {k \in DOMAIN w.req.out : w.req.out[k].failed}
           judged == {k \in DOMAIN w.req.out : IsJudged(w.q, k) /\ w.req.share[k] > 0 /\ ~w.req.out[k].failed}
           page == WithPage(w)
           c == w.seen
           got == [k \in DOMAIN c.got |-> IF k \in DOMAIN w.req.out THEN c.got[k] \o w.req.out[k].items ELSE c.got[k]]
           token == NextToken(w.q, w.req)
           open == UNION DOMAIN NextPending(w.req)
           named == c.named \cup w.req.failed \cup failed
           counts == IF judged = {} THEN c.counts ELSE w.req.out[{Judged}].counts
<1>1. page = [c EXCEPT !.got = got, !.token = token, !.open = open, !.named = named, !.counts = counts]
  BY Zenon DEF WithPage
<1>2. /\ c = [q |-> c.q, got |-> c.got, token |-> c.token, open |-> c.open, named |-> c.named, counts |-> c.counts]
      /\ c.q = w.q /\ DOMAIN c.got = Keys(w.q)
  BY DEF WalkFits, GotFits
<1>3. named = c.named \cup FailedSoFar(w)
  BY DEF FailedSoFar
<1>4. got = [k \in Keys(w.q) |-> IF k \in DOMAIN w.req.out THEN w.seen.got[k] \o w.req.out[k].items
                                 ELSE w.seen.got[k]]
  BY <1>2
<1>5. counts = IF JudgedAnswers(w) = {} THEN w.seen.counts ELSE w.req.out[{Judged}].counts
  BY DEF JudgedAnswers
<1> HIDE DEF got, token, open, named, counts, page, c
<1>6. page = [q |-> c.q, got |-> got, token |-> token, open |-> open, named |-> named, counts |-> counts]
  BY <1>1, <1>2
<1>7. /\ page = [q |-> page.q, got |-> page.got, token |-> page.token, open |-> page.open,
                 named |-> page.named, counts |-> page.counts]
      /\ page.q = w.q /\ page.got = got /\ page.token = token /\ page.open = open /\ page.named = named
      /\ page.counts = counts
  BY <1>2, <1>6
<1> QED
  BY <1>3, <1>4, <1>5, <1>7, Zenon DEF token, open, page, c, PageShape

\* What one source has with the page.
LEMMA AnswerFits ==
  ASSUME NEW x, NEW w, WalkFits(x, w), w.req # NoReq, NEW k \in DOMAIN w.req.out
  PROVE  /\ k \in Keys(w.q) /\ k \in DOMAIN w.req.pend
         /\ w.req.out[k].failed \/ w.req.share[k] = 0 =>
              /\ w.seen.got[k] \o w.req.out[k].items = w.seen.got[k]
              /\ SourceFits(x, w.q, k, w.seen.got[k], w.seen.counts)
         /\ ~w.req.out[k].failed /\ w.req.share[k] = 0 =>
              /\ w.req.out[k].next = w.req.pend[k]
              /\ PendFits(w.q, k, w.req.out[k].next, w.seen.got[k], w.seen.counts)
         /\ ~w.req.out[k].failed /\ w.req.share[k] # 0 =>
              /\ SourceFits(x, w.q, k, w.seen.got[k] \o w.req.out[k].items, w.req.out[k].counts)
              /\ IF w.req.out[k].next = None
                 THEN Complete(w.q, k, w.seen.got[k] \o w.req.out[k].items, w.req.out[k].counts)
                 ELSE MarkerFits(w.q, k, w.req.out[k].next, w.seen.got[k] \o w.req.out[k].items, w.req.out[k].counts)
<1>1. /\ w.req.pend = PendingOf(w.q, w.token) /\ DOMAIN w.req.out \subseteq DOMAIN w.req.pend
      /\ OutFits(x, w.q, k, w.req.out[k], w.req.share[k], w.req.pend[k], w.seen.got[k])
  BY DEF WalkFits, ReqFits
<1>2. k \in DOMAIN w.req.pend
  BY <1>1
<1>3. /\ k \in Keys(w.q) /\ SourceFits(x, w.q, k, w.seen.got[k], w.seen.counts)
      /\ PendFits(w.q, k, w.req.pend[k], w.seen.got[k], w.seen.counts)
  BY <1>1, <1>2, PendingFits
<1>4. \E S : w.seen.got[k] \in Seq(S)
  BY <1>3 DEF SourceFits, JudgedFits, PlainFits
<1>5. w.seen.got[k] \o <<>> = w.seen.got[k]
  BY <1>4, ConcatEmptySeq
<1>6. w.req.out[k].failed \/ w.req.share[k] = 0 => w.req.out[k].items = <<>>
  BY <1>1 DEF OutFits
<1> QED
  BY <1>1, <1>2, <1>3, <1>5, <1>6 DEF OutFits

\* The counts of a search are those of its source that is judged.
LEMMA CountsOfOther ==
  ASSUME NEW x, NEW q, NEW k, NEW seq, NEW c, NEW d, ~IsJudged(q, k)
  PROVE  /\ SourceFits(x, q, k, seq, c) <=> SourceFits(x, q, k, seq, d)
         /\ Complete(q, k, seq, c) <=> Complete(q, k, seq, d)
         /\ \A m : MarkerFits(q, k, m, seq, c) <=> MarkerFits(q, k, m, seq, d)
         /\ \A m : PendFits(q, k, m, seq, c) <=> PendFits(q, k, m, seq, d)
BY DEF SourceFits, Complete, MarkerFits, PendFits

\* All of it for one source, as the page has it.
LEMMA SourceOfPage ==
  ASSUME NEW x, NEW w, WalkFits(x, w), w.req # NoReq, DOMAIN w.req.out = DOMAIN w.req.pend,
         NEW page, page = WithPage(w), NEW k \in Keys(w.q)
  PROVE  /\ SourceFits(x, w.q, k, page.got[k], page.counts)
         /\ k \in DOMAIN NextPending(w.req) => PendFits(w.q, k, NextPending(w.req)[k], page.got[k], page.counts)
         /\ k \notin page.named /\ k \notin DOMAIN NextPending(w.req) =>
              Complete(w.q, k, page.got[k], page.counts)
<1> DEFINE out == w.req.out
           judged == {j \in DOMAIN out : IsJudged(w.q, j) /\ w.req.share[j] > 0 /\ ~out[j].failed}
           pending == NextPending(w.req)
<1>1. /\ page.got[k] = IF k \in DOMAIN out THEN w.seen.got[k] \o out[k].items ELSE w.seen.got[k]
      /\ page.counts = IF judged = {} THEN w.seen.counts ELSE out[{Judged}].counts
      /\ page.named = w.seen.named \cup FailedSoFar(w)
  <2>1. PageShape(w, page)
    BY PageIs
  <2>2. /\ page.got = [j \in Keys(w.q) |-> IF j \in DOMAIN w.req.out THEN w.seen.got[j] \o w.req.out[j].items
                                           ELSE w.seen.got[j]]
        /\ page.named = w.seen.named \cup FailedSoFar(w)
        /\ page.counts = IF JudgedAnswers(w) = {} THEN w.seen.counts ELSE w.req.out[{Judged}].counts
    BY <2>1, Zenon DEF PageShape
  <2>3. JudgedAnswers(w) = judged
    BY DEF JudgedAnswers
  <2> QED
    BY <2>2, <2>3, Zenon
<1>2. \A j \in DOMAIN out : w.req.share[j] \in Nat
  BY DEF WalkFits, ReqFits
<1>3. /\ DOMAIN pending = {j \in DOMAIN out : ~out[j].failed /\ (out[j].next # None \/ w.req.share[j] = 0)}
      /\ \A j \in DOMAIN pending : pending[j] = out[j].next
  BY DEF NextPending
<1>4. w.seen.q = w.q /\ SourceFits(x, w.q, k, w.seen.got[k], w.seen.counts)
  BY DEF WalkFits, GotFits
<1>5. CASE k \in DOMAIN out /\ ~out[k].failed /\ w.req.share[k] # 0
  <2> DEFINE seq == w.seen.got[k] \o out[k].items
  <2>1. /\ SourceFits(x, w.q, k, seq, out[k].counts)
        /\ IF out[k].next = None THEN Complete(w.q, k, seq, out[k].counts)
           ELSE MarkerFits(w.q, k, out[k].next, seq, out[k].counts)
    BY <1>5, AnswerFits
  <2>2. page.got[k] = seq
    BY <1>1, <1>5, Zenon
  <2> HIDE DEF seq
  <2>3. IsJudged(w.q, k) => page.counts = out[k].counts
    <3>1. IsJudged(w.q, k) => k = {Judged} /\ k \in judged
      BY <1>2, <1>5 DEF IsJudged
    <3> QED
      BY <1>1, <3>1
  <2>4. /\ SourceFits(x, w.q, k, seq, page.counts)
        /\ IF out[k].next = None THEN Complete(w.q, k, seq, page.counts)
           ELSE MarkerFits(w.q, k, out[k].next, seq, page.counts)
    <3>1. CASE IsJudged(w.q, k)
      BY <2>1, <2>3, <3>1
    <3>2. CASE ~IsJudged(w.q, k)
      BY <2>1, <3>2, CountsOfOther
    <3> QED
      BY <3>1, <3>2
  <2>5. k \in DOMAIN pending <=> out[k].next # None
    BY <1>3, <1>5
  <2>6. ASSUME k \in DOMAIN pending PROVE PendFits(w.q, k, pending[k], seq, page.counts)
    BY <1>3, <2>4, <2>5, <2>6 DEF PendFits
  <2> QED
    BY <2>2, <2>4, <2>5, <2>6
<1>6. ASSUME ~(k \in DOMAIN out /\ ~out[k].failed /\ w.req.share[k] # 0)
      PROVE  /\ page.got[k] = w.seen.got[k]
             /\ IsJudged(w.q, k) => page.counts = w.seen.counts
  <2>1. page.got[k] = w.seen.got[k]
    <3>1. k \in DOMAIN out => w.seen.got[k] \o out[k].items = w.seen.got[k]
      BY <1>6, AnswerFits, ZenonT(30)
    <3> QED
      BY <1>1, <3>1, Zenon
  <2>2. ASSUME IsJudged(w.q, k) PROVE judged = {}
    BY <1>2, <1>6, <2>2 DEF IsJudged
  <2> QED
    BY <1>1, <2>1, <2>2
<1>7. ASSUME ~(k \in DOMAIN out /\ ~out[k].failed /\ w.req.share[k] # 0)
      PROVE  /\ SourceFits(x, w.q, k, page.got[k], page.counts)
             /\ Complete(w.q, k, w.seen.got[k], w.seen.counts) => Complete(w.q, k, page.got[k], page.counts)
             /\ \A m : PendFits(w.q, k, m, w.seen.got[k], w.seen.counts) => PendFits(w.q, k, m, page.got[k], page.counts)
  <2>1. CASE IsJudged(w.q, k)
    BY <1>4, <1>6, <1>7, <2>1
  <2>2. CASE ~IsJudged(w.q, k)
    <3>1. page.got[k] = w.seen.got[k]
      BY <1>6, <1>7
    <3> QED
      BY <1>4, <2>2, <3>1, CountsOfOther
  <2> QED
    BY <2>1, <2>2
<1>8. CASE k \in DOMAIN out /\ ~out[k].failed /\ w.req.share[k] = 0
  <2>1. PendFits(w.q, k, out[k].next, w.seen.got[k], w.seen.counts)
    BY <1>8, AnswerFits
  <2>2. k \in DOMAIN pending /\ pending[k] = out[k].next
    BY <1>3, <1>8
  <2> QED
    BY <1>7, <1>8, <2>1, <2>2
<1>9. CASE k \in DOMAIN out /\ out[k].failed
  <2>1. k \in page.named /\ k \notin DOMAIN pending
    BY <1>1, <1>3, <1>9 DEF FailedSoFar
  <2> QED
    BY <1>7, <1>9, <2>1
<1>10. CASE k \notin DOMAIN out
  <2>1. k \notin DOMAIN pending
    BY <1>3, <1>10
  <2>2. k \notin DOMAIN PendingOf(w.q, w.token)
    BY <1>10 DEF WalkFits, ReqFits
  <2>3. w.token # None
    BY <2>2 DEF PendingOf
  <2>4. TokenFits(w.seen) /\ w.seen.token = w.token
    BY <2>3 DEF WalkFits
  <2>5. k \notin w.seen.named => Complete(w.q, k, w.seen.got[k], w.seen.counts)
    BY <1>4, <2>2, <2>4 DEF TokenFits
  <2>6. k \notin page.named => k \notin w.seen.named
    BY <1>1
  <2> QED
    BY <1>7, <1>10, <2>1, <2>5, <2>6
<1> QED
  BY <1>5, <1>8, <1>9, <1>10

LEMMA PageFits ==
  ASSUME NEW x, NEW w, WalkFits(x, w), w.req # NoReq, DOMAIN w.req.out = DOMAIN w.req.pend,
         NEW page, page = WithPage(w)
  PROVE  /\ page.q = w.q /\ GotFits(x, page) /\ Said(page)
         /\ page.token # None => TokenFits(page)
<1> DEFINE pending == NextPending(w.req)
           q == w.q
<1>1. PageShape(w, page)
  BY PageIs
<1>2. /\ page = [q |-> page.q, got |-> page.got, token |-> page.token, open |-> page.open,
                 named |-> page.named, counts |-> page.counts]
      /\ page.q = q /\ DOMAIN page.got = Keys(q) /\ page.token = NextToken(q, w.req)
      /\ page.open = UNION DOMAIN pending /\ page.named = w.seen.named \cup FailedSoFar(w)
  BY <1>1 DEF PageShape
<1>3. q \in Searches
  BY DEF WalkFits, GotFits
<1>4. \A k \in Keys(q) :
        /\ SourceFits(x, q, k, page.got[k], page.counts)
        /\ k \in DOMAIN pending => PendFits(q, k, pending[k], page.got[k], page.counts)
        /\ k \notin page.named /\ k \notin DOMAIN pending => Complete(q, k, page.got[k], page.counts)
  BY SourceOfPage
<1>5. DOMAIN pending \subseteq Keys(q)
  <2>1. DOMAIN pending \subseteq DOMAIN w.req.out
    BY DEF NextPending
  <2> QED
    BY <2>1, AnswerFits
<1>6. FailedSoFar(w) \subseteq Keys(q)
  <2>1. w.req.failed \subseteq Keys(q)
    BY DEF WalkFits, ReqFits
  <2> QED
    BY <2>1, AnswerFits DEF FailedSoFar
<1> HIDE DEF pending
<1>7. GotFits(x, page)
  BY <1>2, <1>3, <1>4, Zenon DEF GotFits
<1>8. Said(page)
  <2>1. \A k \in DOMAIN pending : k \subseteq page.open
    BY <1>2
  <2> QED
    BY <1>2, <1>4, <2>1 DEF Said
<1>9. ASSUME page.token # None PROVE TokenFits(page)
  <2>1. /\ DOMAIN pending # {}
        /\ page.token = IF IsMixed(q) THEN MixedToken(q, pending, FailedSoFar(w)) ELSE pending[Lone(q)]
    BY <1>2, <1>9 DEF NextToken, FailedSoFar, pending
  <2>2. CASE IsMixed(q)
    <3>1. page.token = MixedToken(q, pending, FailedSoFar(w))
      BY <2>1, <2>2
    <3>2. page.token.s = pending /\ page.token.f = FailedSoFar(w)
      BY <3>1 DEF MixedToken
    <3>3. PendingOf(q, page.token) = pending
      BY <1>9, <2>2, <3>2 DEF PendingOf
    <3>4. /\ page.token = MixedToken(page.q, page.token.s, page.token.f)
          /\ DOMAIN page.token.s # {} /\ DOMAIN page.token.s \subseteq Keys(page.q) /\ page.token.f \subseteq Keys(page.q)
      BY <1>2, <1>5, <1>6, <2>1, <3>1, <3>2
    <3>5. \A k \in DOMAIN pending : PendFits(q, k, pending[k], page.got[k], page.counts)
      BY <1>4, <1>5
    <3>6. \A k \in Keys(q) \ page.named : k \in DOMAIN pending \/ Complete(q, k, page.got[k], page.counts)
      BY <1>4
    <3> QED
      BY <1>2, <2>2, <3>3, <3>4, <3>5, <3>6, Zenon DEF TokenFits
  <2>3. CASE ~IsMixed(q)
    <3>1. Keys(q) = {Lone(q)}
      BY <1>3, <2>3, LoneIs
    <3>2. Lone(q) \in DOMAIN pending
      BY <1>5, <2>1, <3>1
    <3>3. page.token = pending[Lone(q)]
      BY <2>1, <2>3
    <3>4. PendFits(q, Lone(q), page.token, page.got[Lone(q)], page.counts)
      BY <1>4, <1>5, <3>2, <3>3
    <3>5. MarkerFits(q, Lone(q), page.token, page.got[Lone(q)], page.counts)
      BY <1>9, <3>4 DEF PendFits
    <3>6. PendingOf(q, page.token) = [k \in Keys(q) |-> page.token]
      BY <2>3 DEF PendingOf
    <3>7. DOMAIN PendingOf(q, page.token) = Keys(q) /\ \A k \in Keys(q) : PendingOf(q, page.token)[k] = page.token
      BY <3>6
    <3>8. \A k \in Keys(q) : PendFits(q, k, PendingOf(q, page.token)[k], page.got[k], page.counts)
      BY <3>1, <3>4, <3>7
    <3> QED
      BY <1>2, <2>3, <3>5, <3>7, <3>8, Zenon DEF TokenFits
  <2> QED
    BY <2>2, <2>3
<1> QED
  BY <1>2, <1>7, <1>8, <1>9

\* Dropping the marker of what is on screen.
LEMMA WithoutToken ==
  ASSUME NEW x, NEW c, GotFits(x, c), Said(c)
  PROVE  ContextFits(x, [c EXCEPT !.token = None])
<1> DEFINE d == [c EXCEPT !.token = None]
<1>1. /\ d = [q |-> d.q, got |-> d.got, token |-> d.token, open |-> d.open, named |-> d.named, counts |-> d.counts]
      /\ d.q = c.q /\ d.got = c.got /\ d.token = None /\ d.open = c.open /\ d.named = c.named /\ d.counts = c.counts
  BY DEF GotFits
<1> HIDE DEF d
<1>2. GotFits(x, d) /\ Said(d)
  BY <1>1 DEF GotFits, Said
<1>3. ContextFits(x, d)
  BY <1>1, <1>2 DEF ContextFits
<1> QED
  BY <1>3 DEF d

\* What a walk that ended, or shows a page, leaves on screen.
LEMMA ShownFits ==
  ASSUME NEW x, NEW c, GotFits(x, c), Said(c), c.token # None => TokenFits(c), NEW kept \in BOOLEAN
  PROVE  ContextFits(x, [c EXCEPT !.token = IF kept THEN @ ELSE None])
<1>1. CASE kept
  <2>1. c = [q |-> c.q, got |-> c.got, token |-> c.token, open |-> c.open, named |-> c.named, counts |-> c.counts]
    BY DEF GotFits
  <2>2. [c EXCEPT !.token = IF kept THEN c.token ELSE None] = c
    BY <1>1, <2>1
  <2>3. ContextFits(x, c)
    BY DEF ContextFits
  <2> QED
    BY <2>2, <2>3, Zenon
<1>2. CASE ~kept
  BY <1>2, WithoutToken
<1> QED
  BY <1>1, <1>2

----------------------------------------------------------------------------
(* Walks.                                                                  *)

LEMMA WalkChanged ==
  ASSUME NEW s \in Slots, walks = [t \in Slots |-> walks[t]], NEW v, walks' = [walks EXCEPT ![s] = v]
  PROVE  /\ walks' = [t \in Slots |-> walks'[t]] /\ walks'[s] = v
         /\ \A t \in Slots \ {s} : walks'[t] = walks[t]
BY Zenon

LEMMA WalkIsThere ==
  ASSUME NEW x, NEW w, WalkFits(x, w)
  PROVE  w # NoWalk
BY DEF WalkFits, NoWalk

\* One walk goes on; the screen stays.
LEMMA OneWalkKeeps ==
  ASSUME SearchInv, NEW s \in Slots, walks[s] # NoWalk, NEW v, walks' = [walks EXCEPT ![s] = v],
         source' = source, fields' = fields, ctx' = ctx,
         WalkFits(source, v), v.q = walks[s].q, v.base = walks[s].base, v.stale = walks[s].stale, OwnerFits'
  PROVE  SearchInv'
<1>1. /\ source \in SourceShapes /\ fields \in Searches
      /\ ctx # NoCtx => ContextFits(source, ctx)
      /\ walks = [t \in Slots |-> walks[t]]
      /\ \A t \in Slots : walks[t] # NoWalk => WalkFits(source, walks[t])
      /\ walks["more"] # NoWalk => GotFits(source, walks["more"].base) /\ Said(walks["more"].base)
      /\ SearchAlone
  BY DEF SearchInv
<1>2. /\ walks' = [t \in Slots |-> walks'[t]] /\ walks'[s] = v
      /\ \A t \in Slots \ {s} : walks'[t] = walks[t]
  BY <1>1, WalkChanged
<1>3. v # NoWalk
  BY WalkIsThere
<1>4. \A t \in Slots : /\ walks'[t] # NoWalk <=> walks[t] # NoWalk
                       /\ walks'[t].q = walks[t].q /\ walks'[t].base = walks[t].base /\ walks'[t].stale = walks[t].stale
  BY <1>2, <1>3
<1>5. \A t \in Slots : walks'[t] # NoWalk => WalkFits(source, walks'[t])
  BY <1>1, <1>2
<1>6. "search" \in Slots /\ "more" \in Slots
  BY DEF Slots
<1>7. SearchAlone'
  BY <1>1, <1>4, <1>6, Zenon DEF SearchAlone, Judges
<1> QED
  BY <1>1, <1>2, <1>4, <1>5, <1>6, <1>7, Zenon DEF SearchInv

LEMMA OwnerApart ==
  ASSUME OwnerFits, owner' = owner, UNCHANGED filterVars, owner \in Slots => walks'[owner] = walks[owner]
  PROVE  OwnerFits'
<1>1. source' = source /\ resp' = resp /\ timeLeft' = timeLeft
  BY DEF filterVars
<1>2. CASE owner \notin Slots
  BY <1>2 DEF OwnerFits
<1>3. CASE owner \in Slots
  <2> DEFINE w == walks[owner]
  <2>1. /\ w # NoWalk /\ w.req # NoReq /\ IsJudged(w.q, {Judged})
        /\ {Judged} \in DOMAIN w.req.pend \ DOMAIN w.req.out
        /\ w.req.share[{Judged}] # 0
        /\ RespFits(source, resp, timeLeft, w.seen.got[{Judged}], w.q.flt = "pass")
    BY <1>3, Zenon DEF OwnerFits
  <2>2. walks'[owner'] = w
    BY <1>3
  <2> HIDE DEF w
  <2> QED
    BY <1>1, <1>3, <2>1, <2>2, Zenon DEF OwnerFits
<1> QED
  BY <1>2, <1>3

LEMMA OwnerGone == owner' = NoOwner => OwnerFits'
BY DEF OwnerFits, NoOwner, Slots

\* An answer of a source is kept until the others are there.
WithAnswer(w, k, o) ==
  [w EXCEPT !.req.out = [y \in DOMAIN w.req.out \cup {k} |-> IF y = k THEN o ELSE w.req.out[y]]]

Answered(x, w, k, v) ==
  /\ WalkFits(x, v) /\ v.q = w.q /\ v.base = w.base /\ v.stale = w.stale /\ v.seen = w.seen
  /\ v.req # NoReq /\ v.req.pend = w.req.pend /\ v.req.share = w.req.share
  /\ DOMAIN v.req.out = DOMAIN w.req.out \cup {k}

LEMMA AnswerKept ==
  ASSUME NEW x, NEW w, WalkFits(x, w), w.req # NoReq, NEW k \in DOMAIN w.req.pend \ DOMAIN w.req.out, NEW o,
         OutFits(x, w.q, k, o, w.req.share[k], w.req.pend[k], w.seen.got[k]),
         NEW v, v = WithAnswer(w, k, o)
  PROVE  Answered(x, w, k, v)
<1> DEFINE out == [y \in DOMAIN w.req.out \cup {k} |-> IF y = k THEN o ELSE w.req.out[y]]
<1>1. /\ w = [q |-> w.q, base |-> w.base, seen |-> w.seen, token |-> w.token, flt |-> w.flt, stale |-> w.stale, req |-> w.req]
      /\ w.req = [pend |-> w.req.pend, share |-> w.req.share, out |-> w.req.out, failed |-> w.req.failed]
      /\ ReqFits(x, w)
  BY DEF WalkFits, ReqFits
<1>2. /\ DOMAIN out = DOMAIN w.req.out \cup {k} /\ out[k] = o
      /\ \A y \in DOMAIN w.req.out : out[y] = w.req.out[y]
  OBVIOUS
<1> HIDE DEF out
<1>3. v = [w EXCEPT !.req = [w.req EXCEPT !.out = out]]
  BY DEF out, WithAnswer
<1> DEFINE req == [w.req EXCEPT !.out = out]
<1>4. /\ req = [pend |-> w.req.pend, share |-> w.req.share, out |-> out, failed |-> w.req.failed]
  BY <1>1
<1>5. /\ req = [pend |-> req.pend, share |-> req.share, out |-> req.out, failed |-> req.failed]
      /\ req.pend = w.req.pend /\ req.share = w.req.share /\ req.out = out /\ req.failed = w.req.failed
      /\ req # NoReq
  BY <1>4 DEF NoReq
<1> HIDE DEF req
<1>6. /\ v = [q |-> v.q, base |-> v.base, seen |-> v.seen, token |-> v.token, flt |-> v.flt, stale |-> v.stale, req |-> v.req]
      /\ v.q = w.q /\ v.base = w.base /\ v.seen = w.seen /\ v.token = w.token /\ v.stale = w.stale /\ v.req = req
  BY <1>1, <1>3 DEF req
<1>7. ReqFits(x, v)
  <2>1. \A y \in DOMAIN out : OutFits(x, w.q, y, out[y], w.req.share[y], w.req.pend[y], w.seen.got[y])
    BY <1>1, <1>2 DEF ReqFits
  <2>2. DOMAIN out \subseteq DOMAIN w.req.pend
    BY <1>1, <1>2 DEF ReqFits
  <2>3. /\ w.req.pend = PendingOf(w.q, w.token) /\ w.req.share \in [DOMAIN w.req.pend -> Nat] /\ w.req.failed \subseteq Keys(w.q)
    BY <1>1 DEF ReqFits
  <2> QED
    BY <1>5, <1>6, <2>1, <2>2, <2>3, Zenon DEF ReqFits
<1>8. WalkFits(x, v)
  BY <1>6, <1>7, Zenon DEF WalkFits
<1> QED
  BY <1>2, <1>5, <1>6, <1>8, Zenon DEF Answered

----------------------------------------------------------------------------
(* The server's steps.                                                     *)

LEMMA FinitePending ==
  ASSUME NEW x, NEW w, WalkFits(x, w)
  PROVE  IsFiniteSet(DOMAIN PendingOf(w.q, w.token))
<1>1. DOMAIN PendingOf(w.q, w.token) \in SUBSET Keys(w.q)
  BY PendingFits
<1>2. w.q \in Searches
  BY DEF WalkFits, GotFits
<1> QED
  BY <1>1, <1>2, KeysAre, FS_Subset

LEMMA AskPageKeeps ==
  ASSUME SearchInv, NEW s \in Slots, AskPage(s)
  PROVE  SearchInv'
<1> DEFINE w == walks[s]
           pend == PendingOf(w.q, w.token)
           failed == IF IsMixed(w.q) /\ w.token # None THEN w.token.f ELSE {}
           req == [pend |-> pend, share |-> Shares(DOMAIN pend, w.token = None), out |-> NoOut, failed |-> failed]
           v == [w EXCEPT !.req = req]
<1>1. /\ w # NoWalk /\ w.req = NoReq
      /\ walks' = [walks EXCEPT ![s].req = req]
      /\ UNCHANGED <<fields, ctx, owner, budget, filterVars>>
  BY Zenon DEF AskPage, PendingOf
<1>2. walks' = [walks EXCEPT ![s] = v]
  BY <1>1
<1>3. WalkFits(source, w) /\ OwnerFits /\ source \in SourceShapes
  BY <1>1 DEF SearchInv
<1> HIDE DEF w
<1>4. /\ req = [pend |-> req.pend, share |-> req.share, out |-> req.out, failed |-> req.failed]
      /\ req.pend = pend /\ req.share \in [DOMAIN pend -> Nat] /\ DOMAIN req.out = {} /\ req.failed = failed
  <2>1. Shares(DOMAIN pend, w.token = None) \in [DOMAIN pend -> Nat]
    BY <1>3, FinitePending, SharesAre
  <2>2. DOMAIN NoOut = {}
    BY DEF NoOut
  <2> HIDE DEF pend, failed
  <2> QED
    BY <2>1, <2>2
<1>5. failed \subseteq Keys(w.q)
  <2>1. CASE IsMixed(w.q) /\ w.token # None
    <3>1. TokenFits(w.seen) /\ w.seen.q = w.q /\ w.seen.token = w.token
      BY <1>3, <2>1 DEF WalkFits
    <3> QED
      BY <2>1, <3>1 DEF TokenFits
  <2> QED
    BY <2>1
<1>6. w = [q |-> w.q, base |-> w.base, seen |-> w.seen, token |-> w.token, flt |-> w.flt, stale |-> w.stale, req |-> w.req]
  BY <1>3 DEF WalkFits
<1> HIDE DEF req, pend, failed
<1>7. /\ v = [q |-> v.q, base |-> v.base, seen |-> v.seen, token |-> v.token, flt |-> v.flt, stale |-> v.stale, req |-> v.req]
      /\ v.q = w.q /\ v.base = w.base /\ v.seen = w.seen /\ v.token = w.token /\ v.stale = w.stale /\ v.req = req
  BY <1>6
<1> HIDE DEF v
<1>8. ReqFits(source, v)
  BY <1>4, <1>5, <1>7 DEF ReqFits, pend
<1>9. WalkFits(source, v)
  BY <1>3, <1>7, <1>8, Zenon DEF WalkFits
<1>10. source' = source /\ fields' = fields /\ ctx' = ctx /\ owner' = owner
  BY <1>1 DEF filterVars
<1>11. owner \in Slots => owner # s
  BY <1>1, <1>3 DEF OwnerFits, w
<1>12. OwnerFits'
  <2>1. owner \in Slots => walks'[owner] = walks[owner]
    BY <1>2, <1>11, WalkChanged DEF SearchInv
  <2> QED
    BY <1>1, <1>3, <2>1, OwnerApart
<1> QED
  BY <1>1, <1>2, <1>7, <1>9, <1>10, <1>12, OneWalkKeeps DEF w

\* A source has answered: the step of its answer, given that it fits.
LEMMA PutKeeps ==
  ASSUME SearchInv, NEW s \in Slots, NEW k, NEW o, Awaited(s, k), Put(s, k, o),
         source' = source, fields' = fields, ctx' = ctx,
         OutFits(source, walks[s].q, k, o, walks[s].req.share[k], walks[s].req.pend[k], walks[s].seen.got[k]),
         \/ owner' = NoOwner
         \/ owner' = owner /\ UNCHANGED filterVars /\ (owner = s => k # {Judged})
  PROVE  SearchInv'
<1>1. PICK w : w = walks[s]
  OBVIOUS
<1>2. PICK v : v = WithAnswer(w, k, o)
  OBVIOUS
<1>3. w # NoWalk /\ w.req # NoReq /\ k \in DOMAIN w.req.pend \ DOMAIN w.req.out
  BY <1>1 DEF Awaited
<1>4. WalkFits(source, w) /\ OwnerFits
  BY <1>1, <1>3 DEF SearchInv
<1>5. /\ WalkFits(source, v) /\ v.q = w.q /\ v.base = w.base /\ v.stale = w.stale /\ v.seen = w.seen
      /\ v.req # NoReq /\ v.req.pend = w.req.pend /\ v.req.share = w.req.share
      /\ DOMAIN v.req.out = DOMAIN w.req.out \cup {k}
  <2>1. OutFits(source, w.q, k, o, w.req.share[k], w.req.pend[k], w.seen.got[k])
    BY <1>1
  <2>2. WalkFits(source, w) /\ w.req # NoReq /\ k \in DOMAIN w.req.pend \ DOMAIN w.req.out
    BY <1>3, <1>4
  <2>3. Answered(source, w, k, v)
    BY <1>2, <2>1, <2>2, AnswerKept
  <2> QED
    BY <2>3 DEF Answered
<1>6. walks' = [walks EXCEPT ![s] = v]
  BY <1>1, <1>2 DEF Put, WithAnswer
<1>7. /\ walks' = [t \in Slots |-> walks'[t]] /\ walks'[s] = v
      /\ \A t \in Slots \ {s} : walks'[t] = walks[t]
  BY <1>6, WalkChanged DEF SearchInv
<1>8. OwnerFits'
  <2>1. CASE owner' = NoOwner
    BY <2>1, OwnerGone
  <2>2. CASE owner' = owner /\ UNCHANGED filterVars /\ owner # s
    BY <1>4, <1>7, <2>2, OwnerApart
  <2>3. CASE owner' = owner /\ UNCHANGED filterVars /\ owner = s /\ k # {Judged}
    <3>1. /\ IsJudged(w.q, {Judged}) /\ {Judged} \in DOMAIN w.req.pend \ DOMAIN w.req.out
          /\ w.req.share[{Judged}] # 0
          /\ RespFits(source, resp, timeLeft, w.seen.got[{Judged}], w.q.flt = "pass")
      BY <1>1, <1>4, <2>3 DEF OwnerFits
    <3>2. /\ IsJudged(v.q, {Judged}) /\ {Judged} \in DOMAIN v.req.pend \ DOMAIN v.req.out
          /\ v.req.share[{Judged}] # 0
          /\ RespFits(source, resp, timeLeft, v.seen.got[{Judged}], v.q.flt = "pass")
      BY <1>5, <2>3, <3>1
    <3>3. v # NoWalk
      BY <1>5, WalkIsThere
    <3>4. source' = source /\ resp' = resp /\ timeLeft' = timeLeft /\ owner' = s /\ walks'[s] = v
      BY <1>7, <2>3 DEF filterVars
    <3> QED
      BY <1>5, <3>2, <3>3, <3>4, Zenon DEF OwnerFits
  <2> QED
    BY <2>1, <2>2, <2>3
<1> QED
  BY <1>1, <1>3, <1>5, <1>6, <1>8, OneWalkKeeps

\* What Awaited says of the walk: the source is one of the search's and its
\* marker fits what it has given.
LEMMA AskedFits ==
  ASSUME SearchInv, NEW s \in Slots, NEW k, Awaited(s, k)
  PROVE  /\ WalkFits(source, walks[s]) /\ walks[s].req # NoReq
         /\ k \in DOMAIN walks[s].req.pend \ DOMAIN walks[s].req.out
         /\ walks[s].req.share[k] \in Nat
         /\ k \in Keys(walks[s].q) /\ walks[s].q \in Searches /\ walks[s].seen.q = walks[s].q
         /\ SourceFits(source, walks[s].q, k, walks[s].seen.got[k], walks[s].seen.counts)
         /\ PendFits(walks[s].q, k, walks[s].req.pend[k], walks[s].seen.got[k], walks[s].seen.counts)
<1>1. PICK w : w = walks[s]
  OBVIOUS
<1>2. w # NoWalk /\ w.req # NoReq /\ k \in DOMAIN w.req.pend \ DOMAIN w.req.out
  BY <1>1 DEF Awaited
<1>3. WalkFits(source, w)
  BY <1>1, <1>2 DEF SearchInv
<1>4. ReqFits(source, w) /\ w.seen.q = w.q /\ w.q \in Searches
  BY <1>2, <1>3 DEF WalkFits, GotFits
<1>5. w.req.pend = PendingOf(w.q, w.token) /\ w.req.share[k] \in Nat
  BY <1>2, <1>4 DEF ReqFits
<1>6. /\ k \in Keys(w.q) /\ SourceFits(source, w.q, k, w.seen.got[k], w.seen.counts)
      /\ PendFits(w.q, k, w.req.pend[k], w.seen.got[k], w.seen.counts)
  BY <1>2, <1>3, <1>5, PendingFits
<1> QED
  BY <1>1, <1>2, <1>3, <1>4, <1>5, <1>6

LEMMA PassOverKeeps ==
  ASSUME SearchInv, NEW s \in Slots, NEW k, PassOver(s, k)
  PROVE  SearchInv'
<1>1. PICK o : o = [items |-> <<>>, next |-> walks[s].req.pend[k], failed |-> FALSE, counts |-> NoCounts]
  OBVIOUS
<1>2. Awaited(s, k) /\ walks[s].req.share[k] = 0 /\ Put(s, k, o) /\ UNCHANGED <<fields, ctx, owner, budget, filterVars>>
  BY <1>1 DEF PassOver
<1>3. OutFits(source, walks[s].q, k, o, walks[s].req.share[k], walks[s].req.pend[k], walks[s].seen.got[k])
  BY <1>1, <1>2 DEF OutFits
<1>4. owner = s => k # {Judged}
  BY <1>2 DEF SearchInv, OwnerFits
<1>5. source' = source /\ fields' = fields /\ ctx' = ctx /\ owner' = owner /\ UNCHANGED filterVars
  BY <1>2 DEF filterVars
<1> QED
  BY <1>2, <1>3, <1>4, <1>5, PutKeeps

\* The next scenes of a source that gives them from the first on.
LEMMA NextItems ==
  ASSUME NEW seq \in Seq(Nat), IsRun(seq), NEW n \in Nat, NEW at, at = Len(seq),
         NEW items, items = [i \in 1..n |-> at + i]
  PROVE  seq \o items \in Seq(Nat) /\ IsRun(seq \o items) /\ Len(seq \o items) = at + n
<1>1. at \in Nat /\ DOMAIN seq = 1..at /\ \A i \in 1..at : seq[i] = i
  BY LenProperties DEF IsRun
<1>2. items \in Seq(Nat) /\ Len(items) = n /\ \A i \in 1..n : items[i] = at + i
  <2>1. \A i \in 1..n : at + i \in Nat
    BY <1>1
  <2>2. items \in [1..n -> Nat]
    BY <2>1
  <2>3. items \in Seq(Nat)
    BY <2>2, SeqDef
  <2>4. DOMAIN items = 1..n
    OBVIOUS
  <2>5. Len(items) = n
    BY <2>3, <2>4, LenProperties
  <2> QED
    BY <2>3, <2>5
<1>3. /\ seq \o items \in Seq(Nat) /\ Len(seq \o items) = at + n
      /\ \A i \in 1..(at + n) : (seq \o items)[i] = IF i <= at THEN seq[i] ELSE items[i - at]
  BY <1>2, ConcatProperties
<1>4. DOMAIN (seq \o items) = 1..(at + n)
  BY <1>3, LenProperties
<1>5. ASSUME NEW i \in 1..(at + n) PROVE (seq \o items)[i] = i
  <2>1. CASE i <= at
    <3>1. i \in 1..at
      BY <1>1, <2>1
    <3> QED
      BY <1>1, <1>3, <2>1, <3>1
  <2>2. CASE i > at
    <3>1. i - at \in 1..n /\ at + (i - at) = i /\ ~(i <= at)
      BY <1>1, <2>2
    <3> QED
      BY <1>2, <1>3, <3>1
  <2> QED
    BY <1>1, <2>1, <2>2
<1> QED
  BY <1>3, <1>4, <1>5 DEF IsRun

LEMMA AnswerPlainKeeps ==
  ASSUME SearchInv, NEW s \in Slots, NEW k, AnswerPlain(s, k)
  PROVE  SearchInv'
<1>1. PICK w : w = walks[s]
  OBVIOUS
<1>2. PICK at : at = Started(w.req.pend[k])
  OBVIOUS
<1>3. PICK n : n = Smaller(w.req.share[k], Holds[k] - at)
  OBVIOUS
<1>4. PICK items : items = [i \in 1..n |-> at + i]
  OBVIOUS
<1>5. /\ Awaited(s, k) /\ ~IsJudged(w.q, k) /\ w.req.share[k] > 0
      /\ \E linked \in IF at + n < Holds[k] THEN {TRUE} ELSE {FALSE, n = w.req.share[k]} :
           Put(s, k, [items |-> items, failed |-> FALSE, counts |-> NoCounts,
                      next |-> IF linked THEN Marker(w.q, k, at + n) ELSE None])
      /\ UNCHANGED <<fields, ctx, owner, budget, filterVars>>
  BY <1>1, <1>2, <1>3, <1>4, Zenon DEF AnswerPlain
<1>6. PICK linked \in BOOLEAN :
        /\ ~linked => ~(at + n < Holds[k])
        /\ Put(s, k, [items |-> items, failed |-> FALSE, counts |-> NoCounts,
                      next |-> IF linked THEN Marker(w.q, k, at + n) ELSE None])
  BY <1>5
<1>7. PICK o : o = [items |-> items, failed |-> FALSE, counts |-> NoCounts,
                    next |-> IF linked THEN Marker(w.q, k, at + n) ELSE None]
  OBVIOUS
<1>8. /\ w.q \in Searches /\ k \in Keys(w.q) /\ w.req.share[k] \in Nat
      /\ SourceFits(source, w.q, k, w.seen.got[k], w.seen.counts)
      /\ PendFits(w.q, k, w.req.pend[k], w.seen.got[k], w.seen.counts)
  BY <1>1, <1>5, AskedFits
<1>9. PICK seq : seq = w.seen.got[k]
  OBVIOUS
<1>10. Holds[k] \in Nat /\ seq \in Seq(Nat) /\ IsRun(seq) /\ Len(seq) \in Nat /\ Len(seq) <= Holds[k]
  <2>1. Holds[k] \in Nat
    BY <1>8, KeysAre
  <2>2. PlainFits(k, seq)
    BY <1>5, <1>8, <1>9 DEF SourceFits
  <2> QED
    BY <2>1, <2>2, LenProperties DEF PlainFits
<1>11. at = Len(seq)
  <2>1. CASE w.req.pend[k] = None
    <3>1. seq = <<>>
      BY <1>8, <1>9, <2>1 DEF PendFits
    <3>2. Len(seq) = 0
      BY <3>1, EmptySeq
    <3> QED
      BY <1>2, <2>1, <3>2 DEF Started
  <2>2. CASE w.req.pend[k] # None
    BY <1>2, <1>5, <1>8, <1>9, <2>2 DEF Started, PendFits, MarkerFits
  <2> QED
    BY <2>1, <2>2
<1>12. n \in Nat /\ at + n <= Holds[k] /\ at \in Nat
  BY <1>3, <1>8, <1>10, <1>11 DEF Smaller
<1>13. seq \o items \in Seq(Nat) /\ IsRun(seq \o items) /\ Len(seq \o items) = at + n
  BY <1>4, <1>10, <1>11, <1>12, NextItems
<1>14. SourceFits(source, w.q, k, seq \o items, NoCounts)
  BY <1>5, <1>12, <1>13, Zenon DEF SourceFits, PlainFits
<1>15. /\ o.items = items /\ o.failed = FALSE /\ o.counts = NoCounts
       /\ o.next = IF linked THEN Marker(w.q, k, at + n) ELSE None
  BY <1>7
<1>16. IF o.next = None THEN Complete(w.q, k, seq \o items, NoCounts)
       ELSE MarkerFits(w.q, k, o.next, seq \o items, NoCounts)
  <2>1. CASE linked
    <3>1. o.next = [of |-> AskedOf(w.q, k), at |-> at + n]
      BY <1>15, <2>1 DEF Marker
    <3>2. o.next # None /\ o.next.at = at + n /\ o.next = Marker(w.q, k, o.next.at)
      BY <3>1 DEF None, Marker
    <3>3. MarkerFits(w.q, k, o.next, seq \o items, NoCounts)
      BY <1>5, <1>13, <3>2, Zenon DEF MarkerFits
    <3> QED
      BY <3>2, <3>3
  <2>2. CASE ~linked
    <3>1. at + n = Holds[k]
      BY <1>6, <1>10, <1>12, <2>2
    <3>2. Complete(w.q, k, seq \o items, NoCounts)
      BY <1>5, <1>13, <3>1, Zenon DEF Complete
    <3> QED
      BY <1>15, <2>2, <3>2
  <2> QED
    BY <2>1, <2>2
<1>17. OutFits(source, w.q, k, o, w.req.share[k], w.req.pend[k], seq)
  <2>1. w.req.share[k] # 0
    BY <1>5, <1>8
  <2> QED
    BY <1>14, <1>15, <1>16, <2>1, Zenon DEF OutFits
<1>18. k # {Judged} \/ ~IsJudged(w.q, {Judged})
  BY <1>5
<1>19. owner = s => k # {Judged}
  BY <1>1, <1>18 DEF SearchInv, OwnerFits
<1>20. source' = source /\ fields' = fields /\ ctx' = ctx /\ owner' = owner /\ UNCHANGED filterVars
  BY <1>5 DEF filterVars
<1>21. Put(s, k, o)
  BY <1>6, <1>7
<1> QED
  BY <1>1, <1>5, <1>9, <1>17, <1>19, <1>20, <1>21, PutKeeps

LEMMA SourceFailsKeeps ==
  ASSUME SearchInv, NEW s \in Slots, NEW k, SourceFails(s, k)
  PROVE  SearchInv'
<1>1. /\ Awaited(s, k) /\ Put(s, k, FailedSource) /\ UNCHANGED <<fields, ctx, budget>>
      /\ IF IsJudged(walks[s].q, k) THEN owner' = NoOwner /\ AbortResponse ELSE UNCHANGED <<owner, filterVars>>
  BY Zenon DEF SourceFails
<1>2. OutFits(source, walks[s].q, k, FailedSource, walks[s].req.share[k], walks[s].req.pend[k], walks[s].seen.got[k])
  BY DEF OutFits, FailedSource
<1>3. CASE IsJudged(walks[s].q, k)
  <2>1. owner' = NoOwner /\ source' = source /\ fields' = fields /\ ctx' = ctx
    BY <1>1, <1>3 DEF AbortResponse
  <2> QED
    BY <1>1, <1>2, <2>1, PutKeeps
<1>4. CASE ~IsJudged(walks[s].q, k)
  <2>1. source' = source /\ fields' = fields /\ ctx' = ctx /\ owner' = owner /\ UNCHANGED filterVars
    BY <1>1, <1>4 DEF filterVars
  <2>2. owner = s => k # {Judged}
    BY <1>4 DEF SearchInv, OwnerFits
  <2> QED
    BY <1>1, <1>2, <2>1, <2>2, PutKeeps
<1> QED
  BY <1>3, <1>4

\* A step that leaves walks and screen alone.
LEMMA ResponseOnly ==
  ASSUME SearchInv, source' = source, UNCHANGED <<fields, ctx, walks>>, OwnerFits'
  PROVE  SearchInv'
BY Zenon DEF SearchInv, SearchAlone

LEMMA BeginJudgedKeeps ==
  ASSUME SearchInv, NEW s \in Slots, BeginJudged(s)
  PROVE  SearchInv'
<1> DEFINE k == {Judged}
<1>1. PICK w : w = walks[s]
  OBVIOUS
<1>2. PICK cur : cur = IF w.req.pend[k] = None THEN FirstCursor ELSE w.req.pend[k].at
  OBVIOUS
<1>3. PICK byPass : byPass = (w.q.flt = "pass")
  OBVIOUS
<1>4. /\ Awaited(s, k) /\ IsJudged(w.q, k) /\ w.req.share[k] > 0
      /\ BeginResponse(cur, w.req.share[k], byPass)
      /\ owner' = s /\ UNCHANGED <<fields, ctx, walks, budget>>
  BY <1>1, <1>2, <1>3, Zenon DEF BeginJudged
<1>5. /\ WalkFits(source, w) /\ w.req # NoReq /\ k \in DOMAIN w.req.pend \ DOMAIN w.req.out /\ w.req.share[k] \in Nat
      /\ SourceFits(source, w.q, k, w.seen.got[k], w.seen.counts)
      /\ PendFits(w.q, k, w.req.pend[k], w.seen.got[k], w.seen.counts)
  BY <1>1, <1>4, AskedFits
<1>6. PICK seq : seq = w.seen.got[k]
  OBVIOUS
<1>7. PICK c : c = w.seen.counts
  OBVIOUS
<1>8. JudgedFits(source, seq, c, byPass)
  BY <1>3, <1>4, <1>5, <1>6, <1>7 DEF SourceFits
<1>9. /\ cur.checked = c.checked /\ cur.found = c.found /\ cur.unreadable = c.unreadable
      /\ PosFits(cur.pos, c.checked)
  <2>1. CASE w.req.pend[k] = None
    <3>1. cur = FirstCursor /\ c.checked = 0 /\ c.found = 0 /\ c.unreadable = 0
      BY <1>2, <1>4, <1>5, <1>7, <2>1, Zenon DEF PendFits
    <3>2. PosFits(Position(0, 0), 0)
      BY FilterAssumption DEF PosFits, Position, Before
    <3> QED
      BY <3>1, <3>2 DEF FirstCursor
  <2>2. CASE w.req.pend[k] # None
    <3>1. CursorFits(cur, c)
      BY <1>2, <1>4, <1>5, <1>7, <2>2, Zenon DEF PendFits, MarkerFits
    <3> QED
      BY <3>1 DEF CursorFits
  <2> QED
    BY <2>1, <2>2
<1>10. PICK share : share = w.req.share[k]
  OBVIOUS
<1>11. /\ resp' = [st |-> "loop", limit |-> share, byPass |-> byPass, pos |-> cur.pos, fetched |-> FALSE, broken |-> FALSE,
                   scenes |-> 0, checked |-> cur.checked, found |-> cur.found, unreadable |-> cur.unreadable,
                   kept |-> <<>>, lost |-> {}, items |-> {}, own |-> <<>>]
       /\ timeLeft' = "long" /\ source' = source
  BY <1>4, <1>10, Zenon DEF BeginResponse
<1>12. /\ resp'.st = "loop" /\ resp'.byPass = byPass /\ resp'.kept = <<>> /\ resp'.pos = cur.pos
       /\ resp'.checked = c.checked /\ resp'.found = c.found /\ resp'.unreadable = c.unreadable
       /\ RunningShape(resp')
  BY <1>9, <1>11 DEF RunningShape
<1>13. seq \o resp'.kept = seq /\ resp'.kept \in Seq(Scenes)
  <2>1. seq \in Seq(Scenes)
    BY <1>8 DEF JudgedFits
  <2> QED
    BY <1>12, <2>1, ConcatEmptySeq, EmptySeq
<1>14. JudgedFits(source, seq \o resp'.kept, resp', byPass)
  BY <1>8, <1>12, <1>13 DEF JudgedFits
<1>15. PosFits(resp'.pos, resp'.checked) /\ resp'.pos # None
  BY <1>9, <1>12 DEF PosFits, Position, None
<1>16. RespFits(source, resp', timeLeft', seq, byPass)
  BY <1>12, <1>13, <1>14, <1>15, Zenon DEF RespFits
<1>17. /\ owner' = s /\ walks'[s] = w /\ source' = source
  BY <1>1, <1>4, <1>11
<1>18. w # NoWalk
  BY <1>5, WalkIsThere
<1>19. w.req.share[k] # 0
  BY <1>4
<1>20. OwnerFits'
  BY <1>3, <1>4, <1>5, <1>6, <1>16, <1>17, <1>18, <1>19, Zenon DEF OwnerFits
<1> QED
  BY <1>4, <1>17, <1>20, ResponseOnly

LEMMA JudgeOnKeeps ==
  ASSUME SearchInv, JudgeOn
  PROVE  SearchInv'
<1>1. Steps /\ UNCHANGED <<fields, ctx, walks, owner>>
  BY DEF JudgeOn, walkVars
<1>2. source' = source
  BY <1>1 DEF Steps, FetchPage, TakeScene, LeavePage, ReadDay, TakeDay, LeaveDay, ReadOwn, TimePasses, EndResponse
<1>3. OwnerFits /\ source \in SourceShapes
  BY DEF SearchInv
<1>4. OwnerFits'
  <2>1. CASE owner \notin Slots
    BY <1>1, <1>3, <2>1 DEF OwnerFits
  <2>2. CASE owner \in Slots
    <3>1. PICK w : w = walks[owner]
      OBVIOUS
    <3>2. PICK seq : seq = w.seen.got[{Judged}]
      OBVIOUS
    <3>3. PICK byPass : byPass = (w.q.flt = "pass")
      OBVIOUS
    <3>4. /\ w # NoWalk /\ w.req # NoReq /\ IsJudged(w.q, {Judged})
          /\ {Judged} \in DOMAIN w.req.pend \ DOMAIN w.req.out
          /\ w.req.share[{Judged}] # 0
          /\ RespFits(source, resp, timeLeft, seq, byPass)
      BY <1>3, <2>2, <3>1, <3>2, <3>3, Zenon DEF OwnerFits
    <3>5. seq \in Seq(Scenes)
      <4>1. WalkFits(source, w) /\ w.q \in Searches
        BY <2>2, <3>1, <3>4 DEF SearchInv, WalkFits, GotFits
      <4>2. SourceFits(source, w.q, {Judged}, seq, w.seen.counts)
        BY <3>2, <3>4, <4>1, KeysAre DEF WalkFits, GotFits
      <4> QED
        BY <3>4, <4>2 DEF SourceFits, JudgedFits
    <3>6. RespFits(source, resp', timeLeft', seq, byPass)
      BY <1>1, <1>3, <3>4, <3>5, StepsKeep
    <3>7. owner' = owner /\ walks'[owner'] = w
      BY <1>1, <3>1
    <3> QED
      BY <1>2, <2>2, <3>2, <3>3, <3>4, <3>6, <3>7, Zenon DEF OwnerFits
  <2> QED
    BY <2>1, <2>2
<1> QED
  BY <1>1, <1>2, <1>4, ResponseOnly

LEMMA DropOutcomeKeeps ==
  ASSUME SearchInv, DropOutcome
  PROVE  SearchInv'
<1>1. owner' = NoOwner /\ source' = source /\ UNCHANGED <<fields, ctx, walks>>
  BY DEF DropOutcome, walkVars
<1> QED
  BY <1>1, OwnerGone, ResponseOnly

LEMMA TakeOutcomeKeeps ==
  ASSUME SearchInv, NEW s \in Slots, TakeOutcome(s)
  PROVE  SearchInv'
<1> DEFINE k == {Judged}
<1>1. PICK w : w = walks[s]
  OBVIOUS
<1>2. PICK o : o = [items |-> resp.kept, failed |-> FALSE, counts |-> Counted(resp),
                    next |-> IF resp.next = None THEN None ELSE Marker(w.q, k, resp.next)]
  OBVIOUS
<1>3. /\ owner = s /\ resp.st = "done" /\ Put(s, k, o)
      /\ owner' = NoOwner /\ UNCHANGED <<fields, ctx, source>>
  BY <1>1, <1>2, Zenon DEF TakeOutcome
<1>4. PICK seq : seq = w.seen.got[k]
  OBVIOUS
<1>5. /\ w # NoWalk /\ w.req # NoReq /\ IsJudged(w.q, k) /\ k \in DOMAIN w.req.pend \ DOMAIN w.req.out
      /\ RespFits(source, resp, timeLeft, seq, w.q.flt = "pass")
  BY <1>1, <1>3, <1>4, Zenon DEF SearchInv, OwnerFits
<1>6. /\ JudgedFits(source, seq \o resp.kept, resp, w.q.flt = "pass")
      /\ IF resp.next = None THEN resp.checked = Total \/ resp.limited ELSE CursorFits(resp.next, resp)
  BY <1>3, <1>5 DEF RespFits
<1>7. /\ o.items = resp.kept /\ o.failed = FALSE /\ o.counts = Counted(resp)
      /\ o.next = IF resp.next = None THEN None ELSE Marker(w.q, k, resp.next)
  BY <1>2
<1>8. /\ Counted(resp).checked = resp.checked /\ Counted(resp).found = resp.found
      /\ Counted(resp).unreadable = resp.unreadable /\ Counted(resp).limited = resp.limited
  BY DEF Counted
<1>9. SourceFits(source, w.q, k, seq \o resp.kept, Counted(resp))
  <2>1. JudgedFits(source, seq \o resp.kept, Counted(resp), w.q.flt = "pass")
    BY <1>6, <1>8 DEF JudgedFits
  <2> QED
    BY <1>5, <2>1 DEF SourceFits
<1>10. IF o.next = None THEN Complete(w.q, k, seq \o resp.kept, Counted(resp))
       ELSE MarkerFits(w.q, k, o.next, seq \o resp.kept, Counted(resp))
  <2>1. CASE resp.next = None
    BY <1>5, <1>6, <1>7, <1>8, <2>1, Zenon DEF Complete
  <2>2. CASE resp.next # None
    <3>1. o.next = [of |-> AskedOf(w.q, k), at |-> resp.next]
      BY <1>7, <2>2 DEF Marker
    <3>2. o.next # None /\ o.next.at = resp.next /\ o.next = Marker(w.q, k, o.next.at)
      BY <3>1 DEF None, Marker
    <3>3. CursorFits(resp.next, Counted(resp))
      BY <1>6, <1>8, <2>2 DEF CursorFits
    <3>4. MarkerFits(w.q, k, o.next, seq \o resp.kept, Counted(resp))
      BY <1>5, <3>2, <3>3, Zenon DEF MarkerFits
    <3> QED
      BY <3>2, <3>4
  <2> QED
    BY <2>1, <2>2
<1>11. OutFits(source, w.q, k, o, w.req.share[k], w.req.pend[k], seq)
  <2>1. w.req.share[k] # 0
    BY <1>1, <1>3, Zenon DEF SearchInv, OwnerFits
  <2> QED
    BY <1>7, <1>9, <1>10, <2>1, Zenon DEF OutFits
<1>12. Awaited(s, k)
  BY <1>1, <1>5 DEF Awaited
<1>13. source' = source /\ fields' = fields /\ ctx' = ctx
  BY <1>3
<1> QED
  BY <1>1, <1>3, <1>4, <1>11, <1>12, <1>13, PutKeeps

----------------------------------------------------------------------------
(* The browser takes a page.                                               *)

LEMMA AnsweredPage ==
  ASSUME SearchInv, NEW s \in Slots, AllAnswered(s), NEW page, page = WithPage(walks[s])
  PROVE  /\ walks[s] # NoWalk /\ WalkFits(source, walks[s])
         /\ page.q = walks[s].q /\ GotFits(source, page) /\ Said(page)
         /\ page.token # None => TokenFits(page)
         /\ owner # s
<1>1. PICK w : w = walks[s]
  OBVIOUS
<1>2. w # NoWalk /\ w.req # NoReq /\ DOMAIN w.req.out = DOMAIN w.req.pend
  BY <1>1 DEF AllAnswered
<1>3. WalkFits(source, w)
  BY <1>1, <1>2 DEF SearchInv
<1>4. page.q = w.q /\ GotFits(source, page) /\ Said(page) /\ (page.token # None => TokenFits(page))
  BY <1>1, <1>2, <1>3, PageFits
<1>5. owner # s
  BY <1>1, <1>2 DEF SearchInv, OwnerFits
<1> QED
  BY <1>1, <1>2, <1>3, <1>4, <1>5

\* The walk after a page that was not its last.
AfterPage(w, page) == [w EXCEPT !.seen = page, !.token = page.token, !.req = NoReq]

Follows(x, w, v) == WalkFits(x, v) /\ v.q = w.q /\ v.base = w.base /\ v.stale = w.stale

LEMMA WalkGoesOn ==
  ASSUME NEW x, NEW w, WalkFits(x, w), NEW page, page.q = w.q, GotFits(x, page), page.token # None, TokenFits(page),
         NEW v, v = AfterPage(w, page)
  PROVE  Follows(x, w, v)
<1>1. w = [q |-> w.q, base |-> w.base, seen |-> w.seen, token |-> w.token, flt |-> w.flt, stale |-> w.stale, req |-> w.req]
  BY DEF WalkFits
<1>2. PICK token : token = page.token
  OBVIOUS
<1>3. /\ v = [q |-> v.q, base |-> v.base, seen |-> v.seen, token |-> v.token, flt |-> v.flt, stale |-> v.stale, req |-> v.req]
      /\ v.q = w.q /\ v.base = w.base /\ v.seen = page /\ v.token = token /\ v.stale = w.stale /\ v.req = NoReq
  BY <1>1, <1>2 DEF AfterPage
<1> QED
  BY <1>2, <1>3, Zenon DEF WalkFits, Follows

LEMMA GoOnKeeps ==
  ASSUME SearchInv, NEW s \in Slots, GoOn(s)
  PROVE  SearchInv'
<1>1. PICK w : w = walks[s]
  OBVIOUS
<1>2. PICK page : page = WithPage(w)
  OBVIOUS
<1>3. PICK v : v = AfterPage(w, page)
  OBVIOUS
<1>4. /\ AllAnswered(s) /\ ~WalkOver(w, page)
      /\ walks' = [walks EXCEPT ![s].seen = page, ![s].token = page.token, ![s].req = NoReq]
      /\ UNCHANGED <<fields, ctx, owner, budget, filterVars>>
  BY <1>1, <1>2, Zenon DEF GoOn
<1>5. /\ w # NoWalk /\ WalkFits(source, w)
      /\ page.q = w.q /\ GotFits(source, page) /\ (page.token # None => TokenFits(page))
      /\ owner # s
  BY <1>1, <1>2, <1>4, AnsweredPage
<1>6. page.token # None
  BY <1>4 DEF WalkOver
<1>7. WalkFits(source, v) /\ v.q = w.q /\ v.base = w.base /\ v.stale = w.stale
  BY <1>3, <1>5, <1>6, WalkGoesOn DEF Follows
<1>8. walks' = [walks EXCEPT ![s] = v]
  <2>1. walks = [t \in Slots |-> walks[t]]
    BY DEF SearchInv
  <2> QED
    BY <1>1, <1>3, <1>4, <2>1 DEF AfterPage
<1>9. OwnerFits'
  <2>1. owner \in Slots => walks'[owner] = walks[owner]
    BY <1>5, <1>8, WalkChanged DEF SearchInv
  <2>2. OwnerFits /\ owner' = owner /\ UNCHANGED filterVars
    BY <1>4 DEF SearchInv
  <2> QED
    BY <2>1, <2>2, OwnerApart
<1>10. source' = source /\ fields' = fields /\ ctx' = ctx
  BY <1>4 DEF filterVars
<1> QED
  BY <1>1, <1>5, <1>7, <1>8, <1>9, <1>10, OneWalkKeeps

\* A walk ends, or shows what it has; the screen changes with it.
LEMMA WalkEndsKeeps ==
  ASSUME SearchInv, NEW s \in Slots, walks[s] # NoWalk, NEW v, walks' = [walks EXCEPT ![s] = v],
         source' = source, fields' = fields, OwnerFits',
         \/ v = NoWalk
         \/ WalkFits(source, v) /\ v.q = walks[s].q /\ v.base = walks[s].base /\ v.stale = walks[s].stale,
         ctx' # NoCtx => ContextFits(source, ctx'),
         \/ ctx' = ctx
         \/ ~walks[s].stale /\ (s = "search" => v = NoWalk)
         \/ Judges(walks[s].q)
  PROVE  SearchInv'
<1>1. /\ source \in SourceShapes /\ fields \in Searches
      /\ walks = [t \in Slots |-> walks[t]]
      /\ \A t \in Slots : walks[t] # NoWalk => WalkFits(source, walks[t])
      /\ walks["more"] # NoWalk => GotFits(source, walks["more"].base) /\ Said(walks["more"].base)
      /\ SearchAlone
  BY DEF SearchInv
<1>2. /\ walks' = [t \in Slots |-> walks'[t]] /\ walks'[s] = v
      /\ \A t \in Slots \ {s} : walks'[t] = walks[t]
  BY <1>1, WalkChanged
<1>3. "search" \in Slots /\ "more" \in Slots /\ \A t \in Slots : t = "search" \/ t = "more"
  BY DEF Slots
<1>4. \A t \in Slots : walks'[t] # NoWalk =>
        /\ walks[t] # NoWalk
        /\ walks'[t].q = walks[t].q /\ walks'[t].base = walks[t].base /\ walks'[t].stale = walks[t].stale
  BY <1>2
<1>5. \A t \in Slots : walks'[t] # NoWalk => WalkFits(source, walks'[t])
  BY <1>1, <1>2
<1>6. SearchAlone'
  <2>1. SUFFICES ASSUME walks'["search"] # NoWalk
                 PROVE  /\ walks'["more"] # NoWalk => walks'["more"].stale /\ ~Judges(walks'["more"].q)
                        /\ ~Judges(walks'["search"].q) /\ ~walks'["search"].stale => ctx' = NoCtx
    BY Zenon DEF SearchAlone, Judges
  <2>2. /\ walks["search"] # NoWalk
        /\ walks["more"] # NoWalk => walks["more"].stale /\ ~Judges(walks["more"].q)
        /\ ~Judges(walks["search"].q) /\ ~walks["search"].stale => ctx = NoCtx
    BY <1>1, <1>3, <1>4, <2>1 DEF SearchAlone
  <2>3. walks'["more"] # NoWalk => walks'["more"].stale /\ ~Judges(walks'["more"].q)
    BY <1>3, <1>4, <2>2
  <2>4. ~Judges(walks'["search"].q) /\ ~walks'["search"].stale => ctx' = NoCtx
    <3>1. walks'["search"].q = walks["search"].q /\ walks'["search"].stale = walks["search"].stale
      BY <1>3, <1>4, <2>1
    <3>2. CASE ctx' = ctx
      BY <2>2, <3>1, <3>2
    <3>3. CASE ~walks[s].stale /\ (s = "search" => v = NoWalk)
      BY <1>2, <1>3, <2>1, <2>2, <3>3
    <3>4. CASE Judges(walks[s].q)
      BY <1>3, <2>2, <3>1, <3>4
    <3> QED
      BY <3>2, <3>3, <3>4
  <2> QED
    BY <2>3, <2>4
<1> QED
  BY <1>1, <1>2, <1>3, <1>4, <1>5, <1>6, Zenon DEF SearchInv

LEMMA FinishWalkKeeps ==
  ASSUME SearchInv, NEW s \in Slots, FinishWalk(s)
  PROVE  SearchInv'
<1>1. PICK w : w = walks[s]
  OBVIOUS
<1>2. PICK page : page = WithPage(w)
  OBVIOUS
<1>3. PICK kept \in BOOLEAN : kept = (IF s = "search" THEN fields.flt = w.flt ELSE ctx # NoCtx /\ ctx.token = w.base.token)
  OBVIOUS
<1>4. /\ AllAnswered(s)
      /\ ctx' = IF w.stale THEN ctx ELSE [page EXCEPT !.token = IF kept THEN @ ELSE None]
      /\ walks' = [walks EXCEPT ![s] = NoWalk]
      /\ UNCHANGED <<fields, owner, budget, filterVars>>
  BY <1>1, <1>2, <1>3 DEF FinishWalk
<1>5. /\ w # NoWalk
      /\ GotFits(source, page) /\ Said(page) /\ (page.token # None => TokenFits(page))
      /\ owner # s
  BY <1>1, <1>2, <1>4, AnsweredPage
<1>6. ctx' # NoCtx => ContextFits(source, ctx')
  <2>1. ContextFits(source, [page EXCEPT !.token = IF kept THEN @ ELSE None])
    BY <1>5, ShownFits
  <2>2. ctx # NoCtx => ContextFits(source, ctx)
    BY DEF SearchInv
  <2> QED
    BY <1>4, <2>1, <2>2, Zenon
<1>7. OwnerFits'
  <2>1. owner \in Slots => walks'[owner] = walks[owner]
    BY <1>4, <1>5, WalkChanged DEF SearchInv
  <2>2. OwnerFits /\ owner' = owner /\ UNCHANGED filterVars
    BY <1>4 DEF SearchInv
  <2> QED
    BY <2>1, <2>2, OwnerApart
<1>8. source' = source /\ fields' = fields
  BY <1>4 DEF filterVars
<1>9. ctx' = ctx \/ ~walks[s].stale
  BY <1>1, <1>4
<1> QED
  BY <1>1, <1>4, <1>5, <1>6, <1>7, <1>8, <1>9, WalkEndsKeeps

LEMMA ShowPageKeeps ==
  ASSUME SearchInv, NEW s \in Slots, ShowPage(s)
  PROVE  SearchInv'
<1>1. PICK w : w = walks[s]
  OBVIOUS
<1>2. PICK page : page = WithPage(w)
  OBVIOUS
<1>3. PICK kept \in BOOLEAN : kept = (s = "search" => fields.flt = w.flt)
  OBVIOUS
<1>4. PICK v : v = IF ~kept \/ WalkOver(w, page) THEN NoWalk ELSE AfterPage(w, page)
  OBVIOUS
<1>5. /\ AllAnswered(s) /\ Judges(w.q)
      /\ ctx' = [page EXCEPT !.token = IF kept THEN @ ELSE None]
      /\ walks' = [walks EXCEPT ![s] = v]
      /\ UNCHANGED <<fields, owner, budget, filterVars>>
  BY <1>1, <1>2, <1>3, <1>4 DEF ShowPage, AfterPage
<1>6. /\ w # NoWalk /\ WalkFits(source, w)
      /\ page.q = w.q /\ GotFits(source, page) /\ Said(page) /\ (page.token # None => TokenFits(page))
      /\ owner # s
  BY <1>1, <1>2, <1>5, AnsweredPage
<1>7. ctx' # NoCtx => ContextFits(source, ctx')
  <2>1. ContextFits(source, [page EXCEPT !.token = IF kept THEN @ ELSE None])
    BY <1>6, ShownFits
  <2> QED
    BY <1>5, <2>1, Zenon
<1>8. v = NoWalk \/ Follows(source, w, v)
  <2>1. CASE ~kept \/ WalkOver(w, page)
    BY <1>4, <2>1
  <2>2. CASE ~(~kept \/ WalkOver(w, page))
    <3>1. v = AfterPage(w, page) /\ page.token # None
      BY <1>4, <2>2 DEF WalkOver
    <3> QED
      BY <1>6, <3>1, WalkGoesOn
  <2> QED
    BY <2>1, <2>2
<1>9. OwnerFits'
  <2>1. owner \in Slots => walks'[owner] = walks[owner]
    BY <1>5, <1>6, WalkChanged DEF SearchInv
  <2>2. OwnerFits /\ owner' = owner /\ UNCHANGED filterVars
    BY <1>5 DEF SearchInv
  <2> QED
    BY <2>1, <2>2, OwnerApart
<1>10. source' = source /\ fields' = fields
  BY <1>5 DEF filterVars
<1>11. v = NoWalk \/ (WalkFits(source, v) /\ v.q = w.q /\ v.base = w.base /\ v.stale = w.stale)
  BY <1>8 DEF Follows
<1> QED
  BY <1>1, <1>5, <1>6, <1>7, <1>9, <1>10, <1>11, WalkEndsKeeps

LEMMA NoCtxStays == [NoCtx EXCEPT !.token = None] = NoCtx
BY DEF NoCtx

LEMMA RequestFailsKeeps ==
  ASSUME SearchInv, NEW s \in Slots, RequestFails(s)
  PROVE  SearchInv'
<1>1. PICK w : w = walks[s]
  OBVIOUS
<1>2. /\ w # NoWalk
      /\ ctx' = AfterFailure(s)
      /\ walks' = [walks EXCEPT ![s] = NoWalk]
      /\ IF owner = s THEN owner' = NoOwner /\ source' = source ELSE UNCHANGED <<owner, filterVars>>
      /\ fields' = fields
  BY <1>1 DEF RequestFails, AbortResponse
<1>3. source' = source
  BY <1>2 DEF filterVars
<1>4. /\ ctx # NoCtx => ContextFits(source, ctx)
      /\ s = "more" => GotFits(source, w.base) /\ Said(w.base)
      /\ OwnerFits /\ SearchAlone /\ walks = [t \in Slots |-> walks[t]]
  BY <1>1, <1>2 DEF SearchInv
<1>5. OwnerFits'
  <2>1. CASE owner = s
    BY <1>2, <2>1, OwnerGone
  <2>2. CASE owner # s
    <3>1. owner \in Slots => walks'[owner] = walks[owner]
      BY <1>2, <1>4, <2>2, WalkChanged
    <3> QED
      BY <1>2, <1>4, <2>2, <3>1, OwnerApart
  <2> QED
    BY <2>1, <2>2
<1>6. [ctx EXCEPT !.token = None] # NoCtx => ContextFits(source, [ctx EXCEPT !.token = None])
  <2>1. CASE ctx = NoCtx
    BY <2>1, NoCtxStays
  <2>2. CASE ctx # NoCtx
    <3>1. GotFits(source, ctx) /\ Said(ctx)
      BY <1>4, <2>2 DEF ContextFits
    <3> QED
      BY <3>1, WithoutToken
  <2> QED
    BY <2>1, <2>2
<1>7. "search" \in Slots /\ "more" \in Slots /\ (s = "more" \/ s = "search")
  BY DEF Slots
<1>8. ctx' # NoCtx => ContextFits(source, ctx')
  <2>1. CASE w.stale
    BY <1>1, <1>2, <1>4, <2>1 DEF AfterFailure
  <2>2. CASE ~w.stale /\ (s = "more" \/ (ctx # NoCtx /\ Loaded(ctx) # {}))
    <3>1. CASE Judges(w.q)
      <4>1. ctx' = [ctx EXCEPT !.token = None]
        BY <1>1, <1>2, <2>2, <3>1 DEF AfterFailure
      <4> QED
        BY <1>6, <4>1
    <3>2. CASE ~Judges(w.q)
      <4>1. ctx' = [w.base EXCEPT !.token = None]
        BY <1>1, <1>2, <2>2, <3>2 DEF AfterFailure
      <4>2. s = "more"
        BY <1>1, <1>2, <1>4, <1>7, <2>2, <3>2 DEF SearchAlone
      <4> QED
        BY <1>4, <4>1, <4>2, WithoutToken
    <3> QED
      BY <3>1, <3>2
  <2>3. CASE ~w.stale /\ ~(s = "more" \/ (ctx # NoCtx /\ Loaded(ctx) # {}))
    BY <1>1, <1>2, <2>3 DEF AfterFailure
  <2> QED
    BY <2>1, <2>2, <2>3
<1>9. ctx' = ctx \/ ~walks[s].stale
  BY <1>1, <1>2 DEF AfterFailure
<1> QED
  BY <1>1, <1>2, <1>3, <1>5, <1>8, <1>9, WalkEndsKeeps

----------------------------------------------------------------------------
(* The user's steps.                                                       *)

LEMMA OwnerStops ==
  ASSUME SearchInv
  PROVE  OwnerStopped = NoOwner
<1>1. OwnerFits
  BY DEF SearchInv
<1>2. CASE owner \in Slots
  <2>1. walks[owner] # NoWalk /\ Judges(walks[owner].q)
    BY <1>1, <1>2 DEF OwnerFits, IsJudged
  <2> QED
    BY <1>2, <2>1 DEF OwnerStopped, Stoppable
<1>3. CASE owner \notin Slots
  BY <1>1, <1>3 DEF OwnerFits, OwnerStopped
<1> QED
  BY <1>2, <1>3

LEMMA TokenDroppedFits ==
  ASSUME SearchInv
  PROVE  /\ ctx = NoCtx => TokenDropped = NoCtx
         /\ TokenDropped # NoCtx => ContextFits(source, TokenDropped)
<1>1. CASE ctx = NoCtx
  BY <1>1 DEF TokenDropped
<1>2. CASE ctx # NoCtx
  <2>1. GotFits(source, ctx) /\ Said(ctx)
    BY <1>2 DEF SearchInv, ContextFits
  <2>2. TokenDropped = [ctx EXCEPT !.token = None]
    BY <1>2 DEF TokenDropped
  <2> QED
    BY <1>2, <2>1, <2>2, WithoutToken
<1> QED
  BY <1>1, <1>2

\* What may become of a walk when a search is stopped or forgotten.
LeftAs(w, v) ==
  \/ v = NoWalk
  \/ w # NoWalk /\ ~Judges(w.q) /\ v = w
  \/ w # NoWalk /\ ~Judges(w.q) /\ v = [w EXCEPT !.stale = TRUE]

LEMMA StoppedLeaves ==
  /\ WalksStopped = [s \in Slots |-> WalksStopped[s]]
  /\ \A s \in Slots : LeftAs(walks[s], WalksStopped[s])
BY DEF WalksStopped, Stoppable, LeftAs

LEMMA ForgottenLeaves ==
  ASSUME NEW ws, ws = SearchForgotten(WalksStopped)
  PROVE  /\ ws = [s \in Slots |-> ws[s]]
         /\ \A s \in Slots : LeftAs(walks[s], ws[s])
<1>1. ws = [s \in Slots |-> IF WalksStopped[s] = NoWalk THEN NoWalk ELSE [WalksStopped[s] EXCEPT !.stale = TRUE]]
  BY DEF SearchForgotten
<1>2. ASSUME NEW s \in Slots PROVE LeftAs(walks[s], ws[s])
  <2>1. WalksStopped[s] = IF Stoppable(s) THEN NoWalk ELSE walks[s]
    BY DEF WalksStopped
  <2>2. ws[s] = IF WalksStopped[s] = NoWalk THEN NoWalk ELSE [WalksStopped[s] EXCEPT !.stale = TRUE]
    BY <1>1
  <2> QED
    BY <2>1, <2>2, Zenon DEF LeftAs, Stoppable
<1> QED
  BY <1>1, <1>2

LEMMA LeftFits ==
  ASSUME NEW x, NEW w, NEW v, w # NoWalk => WalkFits(x, w), LeftAs(w, v), v # NoWalk
  PROVE  /\ w # NoWalk /\ WalkFits(x, v) /\ v.q = w.q /\ v.base = w.base /\ ~Judges(v.q)
         /\ w.stale => v.stale
<1>1. w # NoWalk /\ ~Judges(w.q) /\ WalkFits(x, w)
  BY DEF LeftAs
<1>2. CASE v = w
  BY <1>1, <1>2
<1>3. CASE v = [w EXCEPT !.stale = TRUE]
  <2>1. w = [q |-> w.q, base |-> w.base, seen |-> w.seen, token |-> w.token, flt |-> w.flt, stale |-> w.stale, req |-> w.req]
    BY <1>1 DEF WalkFits
  <2>2. /\ v = [q |-> v.q, base |-> v.base, seen |-> v.seen, token |-> v.token, flt |-> v.flt, stale |-> v.stale, req |-> v.req]
        /\ v.q = w.q /\ v.base = w.base /\ v.seen = w.seen /\ v.token = w.token /\ v.stale = TRUE /\ v.req = w.req
    BY <1>3, <2>1
  <2>3. ReqFits(x, w) => ReqFits(x, v)
    BY <2>2, Zenon DEF ReqFits
  <2> QED
    BY <1>1, <2>2, <2>3, Zenon DEF WalkFits
<1> QED
  BY <1>2, <1>3 DEF LeftAs

LEMMA LeavesKeep ==
  ASSUME SearchInv, source' = source, fields' \in Searches,
         walks' = [s \in Slots |-> walks'[s]], \A s \in Slots : LeftAs(walks[s], walks'[s]),
         owner' = NoOwner,
         ctx' # NoCtx => ContextFits(source, ctx'), ctx = NoCtx => ctx' = NoCtx
  PROVE  SearchInv'
<1>1. /\ source \in SourceShapes
      /\ \A s \in Slots : walks[s] # NoWalk => WalkFits(source, walks[s])
      /\ walks["more"] # NoWalk => GotFits(source, walks["more"].base) /\ Said(walks["more"].base)
      /\ SearchAlone
  BY DEF SearchInv
<1>2. ASSUME NEW s \in Slots, walks'[s] # NoWalk
      PROVE  /\ walks[s] # NoWalk /\ WalkFits(source, walks'[s]) /\ walks'[s].q = walks[s].q
             /\ walks'[s].base = walks[s].base /\ ~Judges(walks'[s].q)
             /\ walks[s].stale => walks'[s].stale
  <2>1. PICK w : w = walks[s]
    OBVIOUS
  <2>2. PICK v : v = walks'[s]
    OBVIOUS
  <2>3. LeftAs(w, v) /\ v # NoWalk /\ (w # NoWalk => WalkFits(source, w))
    BY <1>1, <1>2, <2>1, <2>2
  <2>4. /\ w # NoWalk /\ WalkFits(source, v) /\ v.q = w.q /\ v.base = w.base /\ ~Judges(v.q)
        /\ w.stale => v.stale
    BY <2>3, LeftFits
  <2> QED
    BY <2>1, <2>2, <2>4
<1>3. "search" \in Slots /\ "more" \in Slots
  BY DEF Slots
<1>4. SearchAlone'
  <2>1. SUFFICES ASSUME walks'["search"] # NoWalk
                 PROVE  /\ walks'["more"] # NoWalk => walks'["more"].stale /\ ~Judges(walks'["more"].q)
                        /\ ~Judges(walks'["search"].q) /\ ~walks'["search"].stale => ctx' = NoCtx
    BY Zenon DEF SearchAlone, Judges
  <2>2. /\ walks["search"] # NoWalk /\ walks'["search"].q = walks["search"].q
        /\ walks["search"].stale => walks'["search"].stale
    BY <1>2, <1>3, <2>1
  <2>3. /\ walks["more"] # NoWalk => walks["more"].stale
        /\ ~Judges(walks["search"].q) /\ ~walks["search"].stale => ctx = NoCtx
    BY <1>1, <2>2 DEF SearchAlone
  <2>4. walks'["more"] # NoWalk => walks'["more"].stale /\ ~Judges(walks'["more"].q)
    BY <1>2, <1>3, <2>3
  <2>5. ~Judges(walks'["search"].q) /\ ~walks'["search"].stale => ctx' = NoCtx
    <3>1. ~Judges(walks'["search"].q) => ~Judges(walks["search"].q)
      BY <2>2
    <3> QED
      BY <2>2, <2>3, <3>1
  <2> QED
    BY <2>4, <2>5
<1>5. OwnerFits'
  BY OwnerGone
<1>6. walks'["more"] # NoWalk => GotFits(source, walks'["more"].base) /\ Said(walks'["more"].base)
  <2>1. walks'["more"] # NoWalk => walks["more"] # NoWalk /\ walks'["more"].base = walks["more"].base
    BY <1>2, <1>3
  <2> QED
    BY <1>1, <2>1
<1> QED
  BY <1>1, <1>2, <1>4, <1>5, <1>6, Zenon DEF SearchInv

LEMMA ChangeAreaKeeps == SearchInv /\ ChangeArea => SearchInv'
<1> SUFFICES ASSUME SearchInv, ChangeArea PROVE SearchInv'
  OBVIOUS
<1>1. /\ \E a \in Areas : fields' = [fields EXCEPT !.area = a]
      /\ ctx' = TokenDropped /\ walks' = WalksStopped /\ owner' = OwnerStopped /\ source' = source
  BY DEF ChangeArea, filterVars
<1>2. fields' \in Searches
  BY <1>1 DEF SearchInv, Searches
<1>3. walks' = [s \in Slots |-> walks'[s]] /\ \A s \in Slots : LeftAs(walks[s], walks'[s])
  BY <1>1, StoppedLeaves
<1>4. owner' = NoOwner /\ (ctx = NoCtx => ctx' = NoCtx) /\ (ctx' # NoCtx => ContextFits(source, ctx'))
  BY <1>1, OwnerStops, TokenDroppedFits
<1> QED
  BY <1>1, <1>2, <1>3, <1>4, LeavesKeep

LEMMA ChangeFiltersKeeps == SearchInv /\ ChangeFilters => SearchInv'
<1> SUFFICES ASSUME SearchInv, ChangeFilters PROVE SearchInv'
  OBVIOUS
<1>1. /\ \E f \in Filters : fields' = [fields EXCEPT !.flt = f]
      /\ \/ ctx' = TokenDropped /\ walks' = WalksStopped /\ owner' = OwnerStopped
         \/ UNCHANGED <<ctx, walks, owner>>
      /\ UNCHANGED filterVars
  BY DEF ChangeFilters
<1>2. fields' \in Searches /\ source' = source
  BY <1>1 DEF SearchInv, Searches, filterVars
<1>3. CASE ctx' = TokenDropped /\ walks' = WalksStopped /\ owner' = OwnerStopped
  <2>1. walks' = [s \in Slots |-> walks'[s]] /\ \A s \in Slots : LeftAs(walks[s], walks'[s])
    BY <1>3, StoppedLeaves
  <2>2. owner' = NoOwner /\ (ctx = NoCtx => ctx' = NoCtx) /\ (ctx' # NoCtx => ContextFits(source, ctx'))
    BY <1>3, OwnerStops, TokenDroppedFits
  <2> QED
    BY <1>2, <2>1, <2>2, LeavesKeep
<1>4. CASE UNCHANGED <<ctx, walks, owner>>
  <2>1. OwnerFits'
    BY <1>1, <1>4, OwnerApart DEF SearchInv
  <2> QED
    BY <1>2, <1>4, <2>1, Zenon DEF SearchInv, SearchAlone
<1> QED
  BY <1>1, <1>3, <1>4

LEMMA ChooseDatasetsKeeps == SearchInv /\ ChooseDatasets => SearchInv'
<1> SUFFICES ASSUME SearchInv, ChooseDatasets PROVE SearchInv'
  OBVIOUS
<1>1. /\ \E ids \in IdSets : fields' = [fields EXCEPT !.ids = ids]
      /\ ctx' = NoCtx /\ walks' = SearchForgotten(WalksStopped) /\ owner' = OwnerStopped /\ source' = source
  BY DEF ChooseDatasets, filterVars
<1>2. fields' \in Searches
  BY <1>1 DEF SearchInv, Searches
<1>3. walks' = [s \in Slots |-> walks'[s]] /\ \A s \in Slots : LeftAs(walks[s], walks'[s])
  BY <1>1, ForgottenLeaves
<1>4. owner' = NoOwner
  BY <1>1, OwnerStops
<1> QED
  BY <1>1, <1>2, <1>3, <1>4, LeavesKeep

LEMMA StopSearchKeeps == SearchInv /\ StopSearch => SearchInv'
<1> SUFFICES ASSUME SearchInv, StopSearch PROVE SearchInv'
  OBVIOUS
<1>1. walks' = WalksStopped /\ owner' = OwnerStopped /\ source' = source /\ fields' = fields /\ ctx' = ctx
  BY DEF StopSearch, filterVars
<1>2. walks' = [s \in Slots |-> walks'[s]] /\ \A s \in Slots : LeftAs(walks[s], walks'[s])
  BY <1>1, StoppedLeaves
<1>3. owner' = NoOwner
  BY <1>1, OwnerStops
<1>4. fields' \in Searches /\ (ctx' # NoCtx => ContextFits(source, ctx'))
  BY <1>1 DEF SearchInv
<1> QED
  BY <1>1, <1>2, <1>3, <1>4, LeavesKeep

LEMMA NewWalkFits ==
  ASSUME NEW x, NEW base, GotFits(x, base), NEW token, token = base.token,
         IF token = None THEN Untouched(base) ELSE TokenFits(base),
         NEW v, v = NewWalk(base, token)
  PROVE  WalkFits(x, v) /\ v # NoWalk /\ v.base = base /\ v.q = base.q
<1>1. /\ v = [q |-> v.q, base |-> v.base, seen |-> v.seen, token |-> v.token, flt |-> v.flt, stale |-> v.stale, req |-> v.req]
      /\ v.q = base.q /\ v.base = base /\ v.seen = base /\ v.token = token /\ v.req = NoReq
  BY DEF NewWalk
<1>2. WalkFits(x, v)
  BY <1>1, Zenon DEF WalkFits
<1> QED
  BY <1>1, <1>2, WalkIsThere

LEMMA LoadMoreKeeps == SearchInv /\ LoadMore => SearchInv'
<1> SUFFICES ASSUME SearchInv, LoadMore PROVE SearchInv'
  OBVIOUS
<1>1. PICK v : v = NewWalk(ctx, ctx.token)
  OBVIOUS
<1>2. /\ ctx # NoCtx /\ ctx.token # None /\ walks["search"] = NoWalk /\ walks["more"] = NoWalk
      /\ walks' = [walks EXCEPT !["more"] = v]
      /\ UNCHANGED <<fields, ctx, owner, filterVars>>
  BY <1>1 DEF LoadMore, Searching
<1>3. GotFits(source, ctx) /\ Said(ctx) /\ TokenFits(ctx)
  BY <1>2 DEF SearchInv, ContextFits
<1>4. WalkFits(source, v) /\ v # NoWalk /\ v.base = ctx
  <2>1. PICK token : token = ctx.token
    OBVIOUS
  <2>2. PICK base : base = ctx
    OBVIOUS
  <2>3. GotFits(source, base) /\ token = base.token /\ (IF token = None THEN Untouched(base) ELSE TokenFits(base))
    BY <1>2, <1>3, <2>1, <2>2
  <2>4. v = NewWalk(base, token)
    BY <1>1, <2>1, <2>2
  <2> QED
    BY <2>2, <2>3, <2>4, NewWalkFits
<1>5. "more" \in Slots /\ "search" \in Slots /\ \A s \in Slots : s # "more" => s = "search"
  BY DEF Slots
<1>6. /\ walks' = [s \in Slots |-> walks'[s]] /\ walks'["more"] = v /\ walks'["search"] = NoWalk
      /\ \A s \in Slots \ {"more"} : walks'[s] = walks[s]
  BY <1>2, <1>5, WalkChanged DEF SearchInv
<1>7. OwnerFits'
  <2>1. owner \in Slots => walks'[owner] = walks[owner]
    BY <1>2, <1>6 DEF SearchInv, OwnerFits
  <2>2. OwnerFits /\ owner' = owner /\ UNCHANGED filterVars
    BY <1>2 DEF SearchInv
  <2> QED
    BY <2>1, <2>2, OwnerApart
<1>8. SearchAlone'
  BY <1>6, Zenon DEF SearchAlone, Judges
<1>9. \A s \in Slots : walks'[s] # NoWalk => WalkFits(source, walks'[s])
  BY <1>4, <1>5, <1>6
<1>10. source' = source /\ fields' = fields /\ ctx' = ctx
  BY <1>2 DEF filterVars
<1> QED
  BY <1>3, <1>4, <1>6, <1>7, <1>8, <1>9, <1>10, Zenon DEF SearchInv

LEMMA RunSearchKeeps == SearchInv /\ RunSearch => SearchInv'
<1> SUFFICES ASSUME SearchInv, RunSearch PROVE SearchInv'
  OBVIOUS
<1>1. PICK ws : ws = SearchForgotten(WalksStopped)
  OBVIOUS
<1>2. PICK base : base = EmptyCtx(fields)
  OBVIOUS
<1>3. PICK v : v = NewWalk(base, None)
  OBVIOUS
<1>4. /\ ctx' = NoCtx /\ owner' = NoOwner /\ fields' = fields /\ source' = source
      /\ walks' = [ws EXCEPT !["search"] = v]
  BY <1>1, <1>2, <1>3, OwnerStops DEF RunSearch, filterVars
<1>5. ws = [s \in Slots |-> ws[s]] /\ \A s \in Slots : LeftAs(walks[s], ws[s])
  BY <1>1, ForgottenLeaves
<1>6. source \in SourceShapes /\ fields \in Searches
  BY DEF SearchInv
<1>7. WalkFits(source, v) /\ v # NoWalk
  <2>1. GotFits(source, base) /\ Untouched(base) /\ base.token = None
    BY <1>2, <1>6, EmptyFits
  <2> QED
    BY <1>3, <2>1, NewWalkFits
<1>8. "more" \in Slots /\ "search" \in Slots /\ \A s \in Slots : s = "more" \/ s = "search"
  BY DEF Slots
<1>9. walks' = [s \in Slots |-> walks'[s]] /\ walks'["search"] = v /\ walks'["more"] = ws["more"]
  BY <1>4, <1>5, <1>8
<1>10. ASSUME walks'["more"] # NoWalk
       PROVE  /\ WalkFits(source, walks'["more"]) /\ GotFits(source, walks'["more"].base) /\ Said(walks'["more"].base)
              /\ walks'["more"].stale /\ ~Judges(walks'["more"].q)
  <2>1. PICK w : w = walks["more"]
    OBVIOUS
  <2>2. PICK u : u = ws["more"]
    OBVIOUS
  <2>3. LeftAs(w, u) /\ u # NoWalk /\ (w # NoWalk => WalkFits(source, w))
    BY <1>5, <1>8, <1>9, <1>10, <2>1, <2>2 DEF SearchInv
  <2>4. w # NoWalk /\ WalkFits(source, u) /\ u.base = w.base /\ ~Judges(u.q)
    BY <2>3, LeftFits
  <2>5. u.stale
    <3>1. PICK t : t = WalksStopped["more"]
      OBVIOUS
    <3>2. t # NoWalk /\ u = [t EXCEPT !.stale = TRUE]
      BY <1>1, <1>8, <2>2, <2>3, <3>1 DEF SearchForgotten
    <3>3. t = w
      BY <1>8, <2>1, <3>1, <3>2 DEF WalksStopped
    <3>4. t = [q |-> t.q, base |-> t.base, seen |-> t.seen, token |-> t.token, flt |-> t.flt, stale |-> t.stale, req |-> t.req]
      BY <2>3, <2>4, <3>3 DEF WalkFits
    <3> QED
      BY <3>2, <3>4
  <2>6. GotFits(source, w.base) /\ Said(w.base)
    BY <2>1, <2>4 DEF SearchInv
  <2> QED
    BY <1>9, <2>2, <2>4, <2>5, <2>6
<1>11. \A s \in Slots : walks'[s] # NoWalk => WalkFits(source, walks'[s])
  BY <1>7, <1>8, <1>9, <1>10
<1>12. SearchAlone'
  BY <1>4, <1>10, Zenon DEF SearchAlone, Judges
<1>13. OwnerFits'
  BY <1>4, OwnerGone
<1> QED
  BY <1>4, <1>6, <1>9, <1>10, <1>11, <1>12, <1>13, Zenon DEF SearchInv

----------------------------------------------------------------------------
(* The invariant, and what follows from it.                                *)

LEMMA SearchInitHolds == WalkInit => SearchInv
<1> SUFFICES ASSUME WalkInit PROVE SearchInv
  OBVIOUS
<1>1. /\ source \in SourceShapes /\ fields \in FirstFields /\ ctx = NoCtx
      /\ walks = [s \in Slots |-> NoWalk] /\ owner = NoOwner
  BY DEF WalkInit, FilterInit
<1>2. fields \in Searches
  BY <1>1, SearchAssumption DEF Searches
<1>3. OwnerFits
  BY <1>1 DEF OwnerFits, NoOwner, Slots
<1>4. walks = [s \in Slots |-> walks[s]] /\ \A s \in Slots : walks[s] = NoWalk
  BY <1>1
<1>5. walks["search"] = NoWalk /\ walks["more"] = NoWalk
  BY <1>4 DEF Slots
<1> QED
  BY <1>1, <1>2, <1>3, <1>4, <1>5, Zenon DEF SearchInv, SearchAlone

LEMMA SearchStepHolds == SearchInv /\ [WalkNext]_searchVars => SearchInv'
<1> SUFFICES ASSUME SearchInv, [WalkNext]_searchVars PROVE SearchInv'
  OBVIOUS
<1>1. CASE User
  BY <1>1, ChangeAreaKeeps, ChangeFiltersKeeps, ChooseDatasetsKeeps, RunSearchKeeps, LoadMoreKeeps, StopSearchKeeps DEF User
<1>2. ASSUME NEW s \in Slots, Serve(s) PROVE SearchInv'
  BY <1>2, AskPageKeeps, PassOverKeeps, AnswerPlainKeeps, BeginJudgedKeeps, TakeOutcomeKeeps, GoOnKeeps, FinishWalkKeeps,
     ShowPageKeeps DEF Serve
<1>3. ASSUME NEW s \in Slots, ServerFails(s) PROVE SearchInv'
  BY <1>3, RequestFailsKeeps, SourceFailsKeeps DEF ServerFails
<1>4. CASE JudgeOn
  BY <1>4, JudgeOnKeeps
<1>5. CASE DropOutcome
  BY <1>5, DropOutcomeKeeps
<1>6. CASE UNCHANGED searchVars
  <2>1. UNCHANGED <<fields, ctx, walks, owner>> /\ UNCHANGED filterVars
    BY <1>6 DEF searchVars, walkVars
  <2>2. source' = source /\ owner' = owner /\ (owner \in Slots => walks'[owner] = walks[owner])
    BY <2>1 DEF filterVars
  <2>3. OwnerFits'
    BY <2>1, <2>2, OwnerApart DEF SearchInv
  <2> QED
    BY <2>1, <2>2, <2>3, ResponseOnly
<1> QED
  BY <1>1, <1>2, <1>3, <1>4, <1>5, <1>6 DEF WalkNext

\* The scenes missed are those not given and those that cannot be read.
Broken(x, upTo) == {i \in Scenes : i <= upTo /\ x.verdict[i] = "broken"}

LEMMA MissedAre ==
  ASSUME NEW x, NEW seq, NEW upTo, NEW within, NEW broken, within = Within(x, upTo), broken = Broken(x, upTo)
  PROVE  Cardinality(within \ Given(seq)) + Cardinality(broken) = Cardinality(Missed(x, seq, upTo))
<1>1. IsFiniteSet(Scenes)
  <2>1. \A n \in Nat : IsFiniteSet(1..n)
    BY FS_Interval
  <2> QED
    BY <2>1, FilterAssumption DEF Scenes
<1>0. /\ within = {i \in Scenes : i <= upTo /\ x.verdict[i] = "in"}
      /\ broken = {i \in Scenes : i <= upTo /\ x.verdict[i] = "broken"}
  BY DEF Within, Broken
<1> DEFINE left == within \ Given(seq)
<1>2. left \in SUBSET Scenes /\ broken \in SUBSET Scenes /\ left \cap broken = {}
  BY <1>0
<1>3. Missed(x, seq, upTo) = left \cup broken
  BY <1>0 DEF Missed
<1> HIDE DEF left
<1>4. IsFiniteSet(left) /\ IsFiniteSet(broken)
  BY <1>1, <1>2, FS_Subset
<1>5. Cardinality(left \cup broken) = Cardinality(left) + Cardinality(broken) - Cardinality(left \cap broken)
  BY <1>4, FS_Union
<1>6. Cardinality(left \cap broken) = 0 /\ Cardinality(left) \in Nat /\ Cardinality(broken) \in Nat
  BY <1>2, <1>4, FS_EmptySet, FS_CardinalityType
<1> QED
  BY <1>3, <1>5, <1>6 DEF left

LEMMA GivesAll == SearchInv => NoneTwiceNoneMissed
<1> SUFFICES ASSUME SearchInv, ctx # NoCtx, NEW k \in Keys(ctx.q)
             PROVE  LET mine == ctx.got[k]
                        given == {mine[i] : i \in DOMAIN mine}
                        within == Verdicts({"in"}, ctx.counts.checked)
                    IN /\ ~IsJudged(ctx.q, k) => IsRun(mine)
                       /\ IsJudged(ctx.q, k) =>
                            /\ Len(mine) = Cardinality(given)
                            /\ given \subseteq within
                            /\ ctx.counts.found = Cardinality(given)
                            /\ Cardinality(within \ given) + Cardinality(Verdicts({"broken"}, ctx.counts.checked)) <= ctx.counts.unreadable
                            /\ ctx.q.flt = "pass" =>
                                 \A i \in given : \A j \in within : source.pass[i] = source.pass[j] => j \in given
  BY Zenon DEF NoneTwiceNoneMissed
<1> DEFINE mine == ctx.got[k]
           within == Verdicts({"in"}, ctx.counts.checked)
           broken == Verdicts({"broken"}, ctx.counts.checked)
           given == {mine[i] : i \in DOMAIN mine}
<1>1. mine = ctx.got[k]
  OBVIOUS
<1>2. within = Verdicts({"in"}, ctx.counts.checked)
  OBVIOUS
<1>3. broken = Verdicts({"broken"}, ctx.counts.checked)
  OBVIOUS
<1>4. given = {mine[i] : i \in DOMAIN mine}
  OBVIOUS
<1> HIDE DEF mine, within, broken, given
<1>5. SourceFits(source, ctx.q, k, mine, ctx.counts)
  BY <1>1 DEF SearchInv, ContextFits, GotFits
<1>6. ~IsJudged(ctx.q, k) => IsRun(mine)
  BY <1>5 DEF SourceFits, PlainFits
<1>7. ASSUME IsJudged(ctx.q, k)
      PROVE  /\ Len(mine) = Cardinality(given)
             /\ given \subseteq within
             /\ ctx.counts.found = Cardinality(given)
             /\ Cardinality(within \ given) + Cardinality(broken) <= ctx.counts.unreadable
             /\ ctx.q.flt = "pass" =>
                  \A i \in given : \A j \in within : source.pass[i] = source.pass[j] => j \in given
  <2>1. JudgedFits(source, mine, ctx.counts, ctx.q.flt = "pass")
    BY <1>5, <1>7 DEF SourceFits
  <2>2. /\ mine \in Seq(Scenes) /\ Once(mine) /\ ctx.counts.found = Len(mine)
        /\ Given(mine) \subseteq Within(source, ctx.counts.checked)
        /\ Cardinality(Missed(source, mine, ctx.counts.checked)) <= ctx.counts.unreadable
        /\ ctx.q.flt = "pass" => PassesWhole(source, mine, ctx.counts.checked)
    BY <2>1, Zenon DEF JudgedFits, Once
  <2>3. given = Given(mine)
    BY <1>4 DEF Given
  <2>4. within = Within(source, ctx.counts.checked)
    BY <1>2 DEF Verdicts, Within
  <2>5. Cardinality(Given(mine)) = Len(mine)
    BY <2>2, CountGiven
  <2>6. Cardinality(within \ given) + Cardinality(broken) = Cardinality(Missed(source, mine, ctx.counts.checked))
    <3>1. PICK x : x = source
      OBVIOUS
    <3>2. PICK upTo : upTo = ctx.counts.checked
      OBVIOUS
    <3>3. within = Within(x, upTo) /\ broken = Broken(x, upTo)
      BY <1>2, <1>3, <3>1, <3>2 DEF Verdicts, Within, Broken
    <3>4. Cardinality(within \ Given(mine)) + Cardinality(broken) = Cardinality(Missed(x, mine, upTo))
      BY <3>3, MissedAre
    <3> QED
      BY <2>3, <3>1, <3>2, <3>4
  <2> QED
    BY <2>2, <2>3, <2>4, <2>5, <2>6 DEF PassesWhole
<1> QED
  BY <1>6, <1>7, Zenon DEF mine, within, broken, given

LEMMA SaysAll == SearchInv => NothingLostSilently
<1> SUFFICES ASSUME SearchInv PROVE NothingLostSilently
  OBVIOUS
<1>1. CompleteOrSaid
  <2>1. SUFFICES ASSUME ctx # NoCtx, NEW k \in Keys(ctx.q) \ ctx.named
                 PROVE  k \subseteq ctx.open \/
                          IF IsJudged(ctx.q, k) THEN ctx.counts.checked = Total \/ ctx.counts.limited
                          ELSE Len(ctx.got[k]) = Holds[k]
    BY Zenon DEF CompleteOrSaid
  <2>2. Said(ctx)
    BY <2>1 DEF SearchInv, ContextFits
  <2> QED
    BY <2>1, <2>2 DEF Said, Complete
<1>2. ASSUME NEW s \in Slots, walks[s] # NoWalk PROVE Accepts(walks[s].q, walks[s].token)
  <2>1. PICK w : w = walks[s]
    OBVIOUS
  <2>2. WalkFits(source, w)
    BY <1>2, <2>1 DEF SearchInv
  <2>3. PICK c : c = w.seen
    OBVIOUS
  <2>4. /\ c.q = w.q /\ c.token = w.token /\ GotFits(source, c)
        /\ w.token # None => TokenFits(c)
    BY <2>2, <2>3 DEF WalkFits
  <2>5. CASE w.token = None
    BY <2>1, <2>5 DEF Accepts
  <2>6. CASE w.token # None
    <3>1. Accepts(c.q, c.token)
      BY <2>4, <2>6, TokenAccepted
    <3> QED
      BY <2>1, <2>4, <3>1
  <2> QED
    BY <2>5, <2>6
<1>3. ctx # NoCtx => Accepts(ctx.q, ctx.token)
  <2>1. SUFFICES ASSUME ctx # NoCtx PROVE Accepts(ctx.q, ctx.token)
    OBVIOUS
  <2>2. CASE ctx.token = None
    BY <2>2 DEF Accepts
  <2>3. CASE ctx.token # None
    <3>1. GotFits(source, ctx) /\ TokenFits(ctx)
      BY <2>1, <2>3 DEF SearchInv, ContextFits
    <3> QED
      BY <2>3, <3>1, TokenAccepted
  <2> QED
    BY <2>2, <2>3
<1> QED
  BY <1>1, <1>2, <1>3, Zenon DEF NothingLostSilently, OwnMarkersAccepted

\* However a search is walked - page sizes, "Load more", failures, changes of
\* the fields in between -, a source that answers by itself has given its
\* scenes from the first on without a gap, and one the API judges exactly the
\* scenes within the filter it says it has checked, each once and no part of
\* an overpass, but for those it counts as unreadable (run_filter,
\* run_pass_filter, searchAllPages).
THEOREM NothingMissedInASearch == WalkSpec => []NoneTwiceNoneMissed
<1>1. WalkSpec => []SearchInv
  BY SearchInitHolds, SearchStepHolds, PTL DEF WalkSpec
<1> QED
  BY <1>1, GivesAll, PTL

\* A source that is not complete on screen is open, named as failed or at the
\* limit of its search, and the server takes every marker it gave out
\* (_mixed_page; decode_mixed_token, decode_cursor).
THEOREM NothingLostInASearch == WalkSpec => []NothingLostSilently
<1>1. WalkSpec => []SearchInv
  BY SearchInitHolds, SearchStepHolds, PTL DEF WalkSpec
<1> QED
  BY <1>1, SaysAll, PTL

=============================================================================
