------------------------------ MODULE JobPanel ------------------------------
(***************************************************************************)
(* A job in the browser (frontend/src/processingStore.ts, jobTracker.ts,   *)
(* jobShelf.ts): every tab lists the job, follows it, and lets its user    *)
(* cancel, delete and restore it; the tabs share a shelf in localStorage.  *)
(*                                                                         *)
(* The server is what it promises a caller (JobPromise), here of one job   *)
(* whose row stays.  The server gives an answer at one moment and the tab  *)
(* takes it at a later one.  A tab runs one callback at a time: what it    *)
(* does from one await to the next is one action.                          *)
(***************************************************************************)
EXTENDS Naturals

CONSTANTS
  Tabs,
  Ends,         \* the ways the job may end
  MaxPresses,   \* bound: what the users do, all in all
  Breaks        \* MAX_STREAM_ERRORS: so many errors without an event end a stream

ASSUME EndsAssumption == Ends \subseteq {"successful", "failed"}
ASSUME MaxPressesAssumption == MaxPresses \in Nat
ASSUME BreaksAssumption == Breaks \in Nat \ {0}

VARIABLES
  srv,      \* the job: its status, and what a deletion of it can be restored to
  entry,    \* the tab's JobEntry
  follow,   \* trackJob: the one the tab knows, and one it lost sight of
  cancel,   \* cancelJob on its way
  delete,   \* deleteOne or restoreOne on its way
  stored,   \* the job in the shelf
  news,     \* a storage event waits for the tab
  presses   \* how often a user did something

calls == <<follow, cancel, delete>>
shelf == <<stored, news>>
vars  == <<srv, entry, calls, shelf, presses>>

Finished == {"successful", "failed"}
Active   == {"accepted", "running"}
Status   == Active \cup Finished \cup {"dismissed"}
Over     == Finished \cup {"dismissed", "gone"}

Entry ==
  [phase      : {"active"} \cup Over,
   status     : BOOLEAN,    \* a status was read
   deleted    : BOOLEAN,    \* deletedUntil
   onServer   : BOOLEAN,    \* serverDeleted
   lost       : BOOLEAN,
   expires    : {"placed", "ended", "term"},
   cancelling : BOOLEAN,
   deleting   : BOOLEAN]

\* What the shelf keeps of an entry, and the entry a page starts with from it (jobEntry).
Kept(e) == [deleted |-> e.deleted, onServer |-> e.onServer, lost |-> e.lost, expires |-> e.expires]

Fresh(kept) ==
  [phase |-> IF kept.lost \/ kept.deleted THEN "gone" ELSE "active", status |-> FALSE,
   deleted |-> kept.deleted, onServer |-> kept.onServer, lost |-> kept.lost,
   expires |-> kept.expires, cancelling |-> FALSE, deleting |-> FALSE]

Placed == [deleted |-> FALSE, onServer |-> FALSE, lost |-> FALSE, expires |-> "placed"]

\* An answer: a status document, or how the call failed.
Doc    == [st : Status, expires : {"placed", "ended", "term"}]
Waits  == [st |-> "none"]
Fails  == [st |-> "error"]
NoJob  == [st |-> "404"]
Answer == Doc \cup {Waits, Fails, NoJob}

Followers == Tabs \X {"known", "stray"}

Call(to)         == [to |-> to, got |-> Waits]
Following(at, e) == [at |-> at, errors |-> e, got |-> Waits]
Off == Following("off", 0)
Begins == {Following("open", 0), Following("ask", 0)}   \* with or without EventSource

Mine == CHOOSE t \in Tabs : TRUE     \* the tabs are alike

\* One tab placed the job and follows it; the others know it from the shelf.
Init ==
  /\ srv = [st |-> "accepted", held |-> "none"]
  /\ entry = [t \in Tabs |-> [Fresh(Placed) EXCEPT !.status = (t = Mine)]]
  /\ \E begin \in Begins :
       follow = [f \in Followers |-> IF f = <<Mine, "known">> THEN begin ELSE Off]
  /\ cancel = [t \in Tabs |-> Call("none")] /\ delete = [t \in Tabs |-> Call("none")]
  /\ stored = Placed /\ news = [t \in Tabs |-> FALSE]
  /\ presses = 0

-----------------------------------------------------------------------------
(* The server *)

Promise == INSTANCE JobPromise WITH
  Jobs <- {0}, view <- [j \in {0} |-> srv.st], held <- [j \in {0} |-> srv.held]

\* The term a status carries: from the placing, from the end of the run, or of a deletion.
Expiry == IF srv.held # "none" THEN "term" ELSE IF srv.st \in Finished THEN "ended" ELSE "placed"

Row  == [st |-> srv.st, expires |-> Expiry]
Live == srv.st # "dismissed"                      \* _live_job
Read == IF Live THEN Row ELSE NoJob

\* The queue moves the job on.
Moves(st) ==
  /\ Promise!Works(srv.st, srv.held, st, srv.held)
  /\ st \in Active \cup Ends
  /\ srv' = [srv EXCEPT !.st = st]
  /\ UNCHANGED <<entry, calls, shelf, presses>>

\* The day of a deletion ends: it outlasts any call.
TermEnds ==
  /\ srv.held # "none"
  /\ \A t \in Tabs : cancel[t].to = "none" /\ delete[t].to = "none"
  /\ \A f \in Followers : follow[f].got = Waits
  /\ srv' = [srv EXCEPT !.held = "none"]
  /\ UNCHANGED <<entry, calls, shelf, presses>>

\* GET, and DELETE up to what it decides on: a call fails, or is answered by the row.
Reads(c, k, to) ==
  /\ c[k].to = to /\ c[k].got = Waits
  /\ \E got \in {Read, Fails} : c' = [c EXCEPT ![k].got = got]

ChecksDelete(c, k, to, then) ==
  /\ c[k].to = to /\ c[k].got = Waits
  /\ \/ Live /\ c' = [c EXCEPT ![k] = Call(then)]
     \/ ~Live /\ c' = [c EXCEPT ![k].got = NoJob]
     \/ c' = [c EXCEPT ![k].got = Fails]

\* dismiss: cancels a job that waits or runs, deletes a finished one with a term.
Dismissed ==
  IF Live THEN [st |-> "dismissed", held |-> IF srv.st \in Finished THEN srv.st ELSE "none"] ELSE srv

\* restore: a job that is not deleted is returned as it is.
Restored == IF srv.held = "none" THEN srv ELSE [st |-> srv.held, held |-> "none"]

\* The call is carried out; its answer may be lost.
Does(c, k, to, done) ==
  /\ c[k].to = to /\ c[k].got = Waits
  /\ srv' = done
  /\ \E got \in {Row', Fails} : c' = [c EXCEPT ![k].got = got]

ServerCancels(t) ==
  /\ \/ Reads(cancel, t, "check") /\ UNCHANGED srv
     \/ ChecksDelete(cancel, t, "dismiss", "dismissing") /\ UNCHANGED srv
     \/ Does(cancel, t, "dismissing", Dismissed)
  /\ UNCHANGED <<entry, follow, delete, shelf>>

ServerDeletes(t) ==
  /\ \/ ChecksDelete(delete, t, "delete", "deleting") /\ UNCHANGED srv
     \/ Does(delete, t, "deleting", Dismissed)
     \/ Restored.st # "dismissed" /\ Does(delete, t, "restore", Restored)
     \/ /\ delete[t] = Call("restore")
        /\ \E got \in {Fails} \cup (IF Restored.st = "dismissed" THEN {NoJob} ELSE {}) :
             delete' = [delete EXCEPT ![t].got = got]
        /\ UNCHANGED srv
  /\ UNCHANGED <<entry, follow, cancel, shelf>>

-----------------------------------------------------------------------------
(* The tab: what is written where *)

Show(t, e) == entry' = [entry EXCEPT ![t] = e] /\ UNCHANGED shelf

\* ... and persisted: this tab's entry replaces what is stored, and the other tabs hear of it.
Keep(t, e) ==
  /\ entry' = [entry EXCEPT ![t] = e]
  /\ stored' = Kept(e)
  /\ news' = [u \in Tabs |-> news[u] \/ (u # t /\ stored' # stored)]

\* applyStatus
Applied(e, doc) ==
  [e EXCEPT !.status = TRUE, !.expires = doc.expires,
            !.phase = IF doc.st \in Active THEN "active" ELSE doc.st]

Apply(t, e, doc) == IF e.expires = doc.expires THEN Show(t, Applied(e, doc)) ELSE Keep(t, Applied(e, doc))

Forgotten(e) == [e EXCEPT !.phase = "gone", !.lost = TRUE]
KeepsOn(t)   == follow                                 \* as if the follower were not stopped
Stopped(t)   == [follow EXCEPT ![<<t, "known">>] = Off]

-----------------------------------------------------------------------------
(* Following: trackJob *)

Turn(f, to) == follow' = [follow EXCEPT ![f] = to]

\* The stream opens; or it is turned away, and the job is asked for.
Connects(f) ==
  /\ follow[f].at = "open"
  /\ \/ Live /\ Turn(f, Following("stream", follow[f].errors))
     \/ Turn(f, Following("ask", 0))
  /\ UNCHANGED <<entry, shelf>>

\* As if the stream closed and nothing took its place.
BreakOff(f) ==
  /\ follow[f].at \in {"open", "stream"}
  /\ Turn(f, IF follow[f].errors + 1 < Breaks THEN Following("open", follow[f].errors + 1) ELSE Off)
  /\ UNCHANGED <<entry, shelf>>

\* onerror: the browser connects again, and after as many errors without an event the tab asks.
Break(f) ==
  /\ follow[f].at \in {"open", "stream"}
  /\ Turn(f, IF follow[f].errors + 1 < Breaks THEN Following("open", follow[f].errors + 1)
                                              ELSE Following("ask", 0))
  /\ UNCHANGED <<entry, shelf>>

\* An event of the stream leaves the server: the row, also of a job that was dismissed.
Event(f) ==
  /\ follow[f].at = "stream" /\ follow[f].got = Waits
  /\ follow' = [follow EXCEPT ![f].got = Row]
  /\ UNCHANGED <<entry, shelf>>

\* GET is answered.  (One that fails changes nothing: with the next timer the tab asks again.)
Asked(f) ==
  /\ follow[f].at = "ask" /\ follow[f].got = Waits
  /\ follow' = [follow EXCEPT ![f].got = Read]
  /\ UNCHANGED <<entry, shelf>>

\* deliver: a final state ends the following.
Deliver(f) ==
  /\ follow[f].got \in Doc
  /\ Apply(f[1], entry[f[1]], follow[f].got)
  /\ Turn(f, IF follow[f].got.st \notin Active THEN Off
             ELSE Following(follow[f].at, 0))

\* onGone
Gone(f) ==
  /\ follow[f].got = NoJob
  /\ Keep(f[1], Forgotten(entry[f[1]]))
  /\ Turn(f, Off)

FollowStep(f) ==
  /\ \/ Connects(f) \/ Break(f) \/ Event(f) \/ Asked(f) \/ Deliver(f) \/ Gone(f)
  /\ UNCHANGED <<srv, cancel, delete, presses>>

\* followJob: the row of a job is shown.
FollowJob(t) ==
  /\ entry[t].phase = "active" /\ ~entry[t].status /\ follow[<<t, "known">>] = Off
  /\ \E begin \in Begins : follow' = [follow EXCEPT ![<<t, "known">>] = begin]
  /\ UNCHANGED <<srv, entry, cancel, delete, shelf, presses>>

-----------------------------------------------------------------------------
(* The user's buttons *)

CancelJob(t) ==
  /\ entry[t].phase = "active" /\ ~entry[t].cancelling
  /\ Show(t, [entry[t] EXCEPT !.cancelling = TRUE])
  /\ cancel' = [cancel EXCEPT ![t] = Call("check")]
  /\ UNCHANGED <<srv, follow, delete>>

\* As if a failed DELETE had cancelled the job.
CancelAnswerAnyway(t) ==
  /\ cancel[t].got # Waits
  /\ cancel' = [cancel EXCEPT ![t] = Call("none")]
  /\ Show(t, [entry[t] EXCEPT !.cancelling = FALSE, !.phase = "dismissed"]) /\ follow' = Stopped(t)
  /\ UNCHANGED <<srv, delete>>

\* The answer to the check, then to the DELETE.
CancelAnswer(t) ==
  LET got == cancel[t].got  e == [entry[t] EXCEPT !.cancelling = FALSE]
  IN  /\ got # Waits
      /\ \/ /\ cancel[t].to = "check" /\ got.st \in Active
            /\ cancel' = [cancel EXCEPT ![t] = Call("dismiss")]
            /\ UNCHANGED <<entry, follow, shelf>>
         \/ /\ cancel' = [cancel EXCEPT ![t] = Call("none")]
            /\ \/ /\ cancel[t].to = "check" /\ got.st \in Finished
                  /\ Apply(t, e, got) /\ follow' = Stopped(t)
               \/ /\ cancel[t].to # "check" /\ got \in Doc
                  /\ Show(t, [e EXCEPT !.phase = "dismissed"]) /\ follow' = Stopped(t)
               \/ got = NoJob /\ Keep(t, Forgotten(e)) /\ follow' = Stopped(t)
               \/ got = Fails /\ Show(t, e) /\ UNCHANGED follow
      /\ UNCHANGED <<srv, delete>>

\* What the server holds is deleted there, any other entry here.
DeleteOne(t) ==
  LET e == entry[t]
  IN  /\ e.phase \in Over /\ ~e.deleted /\ ~e.deleting
      /\ \/ /\ e.phase \in Finished /\ ~e.lost
            /\ Show(t, [e EXCEPT !.deleting = TRUE])
            /\ delete' = [delete EXCEPT ![t] = Call("delete")]
         \/ /\ e.phase \notin Finished \/ e.lost
            /\ Keep(t, [e EXCEPT !.deleted = TRUE, !.onServer = FALSE])
            /\ UNCHANGED delete
      /\ UNCHANGED <<srv, follow, cancel>>

DeleteAnswer(t) ==
  LET got == delete[t].got  e == [entry[t] EXCEPT !.deleting = FALSE]
  IN  /\ delete[t].to \in {"delete", "deleting"} /\ got # Waits
      /\ delete' = [delete EXCEPT ![t] = Call("none")]
      /\ \/ /\ got \in Doc /\ follow' = Stopped(t)
            /\ Keep(t, [e EXCEPT !.deleted = TRUE, !.onServer = TRUE, !.phase = "dismissed"])
         \/ /\ got = NoJob /\ follow' = Stopped(t)
            /\ Keep(t, [Forgotten(e) EXCEPT !.deleted = TRUE, !.onServer = FALSE])
         \/ got = Fails /\ Show(t, e) /\ UNCHANGED follow
      /\ UNCHANGED <<srv, cancel>>

RestoreOne(t) ==
  LET e == entry[t]
  IN  /\ e.deleted /\ ~e.deleting
      /\ \/ /\ ~e.onServer /\ Keep(t, [e EXCEPT !.deleted = FALSE])
            /\ UNCHANGED delete
         \/ /\ e.onServer /\ Show(t, [e EXCEPT !.deleting = TRUE])
            /\ delete' = [delete EXCEPT ![t] = Call("restore")]
      /\ UNCHANGED <<srv, follow, cancel>>

\* A restored job is over: its follower, if it has one, is dropped from the table and runs on.
\* (Bound: one such stray per tab; an older one ends here.)
RestoreAnswer(t) ==
  LET got == delete[t].got  e == [entry[t] EXCEPT !.deleting = FALSE]
      back == [e EXCEPT !.deleted = FALSE, !.onServer = FALSE]
  IN  /\ delete[t].to = "restore" /\ got # Waits
      /\ delete' = [delete EXCEPT ![t] = Call("none")]
      /\ \/ /\ got \in Doc /\ Keep(t, Applied(back, got))
            /\ follow' = IF got.st \in Active \/ follow[<<t, "known">>] = Off THEN follow
                         ELSE [Stopped(t) EXCEPT ![<<t, "stray">>] = follow[<<t, "known">>]]
         \/ got = NoJob /\ Keep(t, Forgotten(back)) /\ UNCHANGED follow
         \/ got = Fails /\ Show(t, e) /\ UNCHANGED follow
      /\ UNCHANGED <<srv, cancel>>

\* Any other change of the job, as a new title or group: the whole entry is persisted.
Edit(t) ==
  /\ Kept(entry[t]) # stored
  /\ Keep(t, entry[t])
  /\ UNCHANGED <<srv, calls>>

\* takeShelf: the shelf as another tab last wrote it.
TakeShelf(t) ==
  LET e == entry[t]
      back == e.deleted /\ ~stored.deleted /\ ~stored.lost
  IN  /\ news[t] /\ news' = [news EXCEPT ![t] = FALSE]
      /\ entry' = [entry EXCEPT ![t] =
           [e EXCEPT !.deleted = stored.deleted, !.onServer = stored.onServer, !.lost = stored.lost,
                     !.expires = stored.expires, !.phase = IF back THEN "active" ELSE @,
                     !.status = @ /\ ~back]]
      /\ UNCHANGED <<srv, calls, stored, presses>>

\* The page is loaded anew (resumeJobs): calls on their way are lost to it.
\* (The job is not archived: the list follows it at once.)
Reload(t) ==
  /\ entry' = [entry EXCEPT ![t] = Fresh(stored)]
  /\ cancel' = [cancel EXCEPT ![t] = Call("none")] /\ delete' = [delete EXCEPT ![t] = Call("none")]
  /\ \E begin \in IF entry'[t].phase = "active" THEN Begins ELSE {Off} :
       follow' = [f \in Followers |->
            CASE f = <<t, "known">> -> begin [] f = <<t, "stray">> -> Off [] OTHER -> follow[f]]
  /\ news' = [news EXCEPT ![t] = FALSE]
  /\ UNCHANGED <<srv, stored>>

Press(t) ==
  /\ presses < MaxPresses /\ presses' = presses + 1
  /\ CancelJob(t) \/ DeleteOne(t) \/ RestoreOne(t) \/ Edit(t) \/ Reload(t)

CancelStep(t) == (ServerCancels(t) \/ CancelAnswer(t)) /\ UNCHANGED presses
DeleteStep(t) == (ServerDeletes(t) \/ DeleteAnswer(t) \/ RestoreAnswer(t)) /\ UNCHANGED presses

Next ==
  \/ \E st \in Status : Moves(st)
  \/ TermEnds
  \/ \E f \in Followers : FollowStep(f)
  \/ \E t \in Tabs : FollowJob(t) \/ Press(t) \/ CancelStep(t) \/ DeleteStep(t) \/ TakeShelf(t)

(* A callback runs in the end and a call is answered; asked over and over, the server answers in    *)
(* the end; a job that waits is taken up and one that runs ends (what JobWorker's runs check).  The *)
(* stream, and what the user does, are left to chance.                                              *)
Fairness ==
  /\ \A f \in Followers : WF_vars(FollowStep(f))
  /\ \A t \in Tabs : /\ SF_vars(Asked(<<t, "known">>) /\ UNCHANGED <<srv, cancel, delete, presses>>)
                     /\ WF_vars(CancelStep(t)) /\ WF_vars(DeleteStep(t)) /\ WF_vars(TakeShelf(t))
  /\ SF_vars(Moves("running")) /\ SF_vars(Moves("successful") \/ Moves("failed"))

Spec == Init /\ [][Next]_vars /\ Fairness

-----------------------------------------------------------------------------
(* Properties *)

TypeOK ==
  /\ srv \in [st : Status, held : {"none"} \cup Finished]
  /\ entry \in [Tabs -> Entry]
  /\ follow \in [Followers -> [at : {"off", "open", "stream", "ask"}, errors : 0..Breaks-1, got : Answer]]
  /\ cancel \in [Tabs -> [to : {"none", "check", "dismiss", "dismissing"}, got : Answer]]
  /\ delete \in [Tabs -> [to : {"none", "delete", "deleting", "restore"}, got : Answer]]
  /\ stored \in [deleted : BOOLEAN, onServer : BOOLEAN, lost : BOOLEAN, expires : {"placed", "ended", "term"}]
  /\ news \in [Tabs -> BOOLEAN]
  /\ presses \in 0..MaxPresses

\* A job that a tab shows as over is over on the server, whatever answer came last, and whichever
\* tab's write the shelf holds.
OverMeansOver == \A t \in Tabs : entry[t].phase \in Over => srv.st \notin Active

\* Until the job is over nobody is told so: not by an answer on its way, not by the shelf, and no tab
\* has a call on its way that only a job that is over gets.
Final == Finished \cup {"dismissed", "404"}
NothingFinalBefore ==
  srv.st \in Active =>
    /\ \A f \in Followers : follow[f].got.st \notin Final
    /\ \A t \in Tabs : /\ cancel[t].got.st \notin Final /\ delete[t].to = "none"
                       /\ follow[<<t, "stray">>] = Off
                       /\ ~entry[t].deleted /\ ~entry[t].onServer /\ ~entry[t].lost
    /\ ~stored.deleted /\ ~stored.onServer /\ ~stored.lost

\* What the answer to a call may be (dismiss, restore).
AnswersFit ==
  \A t \in Tabs :
    /\ cancel[t].to = "none" => cancel[t].got = Waits
    /\ cancel[t].to = "dismiss" => cancel[t].got.st \notin Status
    /\ cancel[t].to = "dismissing" => cancel[t].got.st \in {"none", "error", "dismissed"}
    /\ delete[t].to = "none" => delete[t].got = Waits
    /\ delete[t].to = "delete" => delete[t].got.st \notin Status
    /\ delete[t].got.st \notin Active

\* An answer of a job that waits or runs never reaches a tab that shows it as over, but through a stray:
\* its follower is stopped with the entry's last change, or heard the answer after the end.
NobodyStale == \A f \in Followers : follow[f].got.st \notin Active
AskedBack   == stored.onServer \/ \E t \in Tabs : entry[t].onServer \/ delete[t].to \in {"deleting", "restore"}
NoneLate ==
  /\ \A t \in Tabs : entry[t].phase \in Over \/ follow[<<t, "stray">>] # Off => follow[<<t, "known">>].got.st \notin Active
  /\ srv.st = "dismissed" /\ srv.held = "none" /\ AskedBack => NobodyStale
  /\ (\E t \in Tabs : delete[t].to = "restore" /\ delete[t].got = NoJob) => NobodyStale

\* What a tab shows as over is over (applyStatus, the shelf), and no late answer will move it back.
PanelInv == TypeOK /\ OverMeansOver /\ NothingFinalBefore /\ AnswersFit /\ NoneLate

\* What is over does not wait or run again in a tab: no late answer of the stream, of a question
\* or of a check moves it back.  (The one way: a follower restoreOne left running.)
NoWayBack ==
  [][\A t \in Tabs : entry[t].phase \in Over /\ entry'[t].phase = "active" /\ entry'[t].status
        => follow[<<t, "stray">>] # Off]_vars

\* Once the users let go, no "Cancel" and no "Delete" stays grey, every follower is done, and no tab
\* that has read a status goes on to show the job as one that waits or runs, however calls fail,
\* streams break and answers race.
PanelSettles ==
  <>[](\A t \in Tabs : /\ ~entry[t].cancelling /\ ~entry[t].deleting
                       /\ follow[<<t, "known">>] = Off
                       /\ entry[t].phase = "active" => ~entry[t].status)

\* "Only a job that waits or runs is dismissed": "Cancel" never discards a result.
CancelKeepsResults ==
  [][\A t \in Tabs : cancel[t].to = "dismissing" /\ srv' # srv /\ cancel' # cancel => srv.st \in Active]_vars

\* A job kept as one "the server does not know any more" (and is never asked about again) is one
\* the server has not.
LostMeansGone == stored.lost => ~Live
=============================================================================
