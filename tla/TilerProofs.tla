----------------------------- MODULE TilerProofs -----------------------------
(***************************************************************************)
(* Theorems about the tiler, for any number of requests, items, results    *)
(* and threads.                                                            *)
(***************************************************************************)
EXTENDS Tiler, FiniteSetTheorems, WellFoundedInduction, TLAPS

-----------------------------------------------------------------------------
(* Requests *)

Steps == {"asked", "fetching", "caching", "looking", "reading", "storing", "stored", "building", "answered"}
Replies ==
  {"none", "words", "gone", "refused", "broken", "no cache", "items", "too many", "ok", "unreadable",
   "outside", "too large", "busy"}
Row ==
  [kind : Kinds, groups : Seq(SUBSET Items), at : Steps, conn : BOOLEAN, answer : Replies,
   got : [Items -> Reqs \cup {None} \cup Ends]]

TilerTypeOK ==
  /\ req \in [Reqs -> Row]
  /\ fetch \in [Fetches -> {"none", "queued", "connecting", "upstream"}]
  /\ running \in [Items -> Reqs \cup {None}]
  /\ turn \in Reqs \cup {None}

\* A shared fetch that runs is the one others join.
Joined == \A f \in Fetches : Live(f) /\ Shared(f) => running[f[2]] = f[1]

\* A place is given out while one is free.
PlacesCounted == IsFiniteSet(SlotsTaken) /\ Cardinality(SlotsTaken) <= MaxItemFetches

\* A large crop that is built has the turn.
TurnTaken == \A r \in Reqs : req[r].at = "building" /\ Large(r) => turn = r

TilerInv == TilerTypeOK /\ Joined /\ PlacesCounted /\ TurnTaken

\* A set of numbers has a smallest one.
LEMMA MinBelongs ==
  ASSUME NEW S \in SUBSET Nat, S # {}
  PROVE  Min(S) \in S
<1> DEFINE Less == OpToRel(<, Nat)
<1>0. \A x, y \in Nat : x < y => <<x, y>> \in Less
  <2> TAKE x \in Nat, y \in Nat
  <2> HAVE x < y
  <2>1. <<x, y>>[1] < <<x, y>>[2] /\ <<x, y>> \in Nat \X Nat
    OBVIOUS
  <2> QED
    BY <2>1, Zenon DEF OpToRel
<1>1. \E x \in S : \A y \in S : ~(<<y, x>> \in Less)
  BY NatLessThanWellFounded, WFMin
<1> HIDE DEF Less
<1>2. \E x \in S : \A y \in S : x <= y
  <2> PICK x \in S : \A y \in S : ~(<<y, x>> \in Less)
    BY <1>1
  <2>1. \A y \in S : ~(y < x)
    BY <1>0
  <2> QED
    BY <2>1
<1> QED
  BY <1>2 DEF Min

-----------------------------------------------------------------------------
(* What a step leaves of the rows of requests *)

\* Kinds stay; nobody begins to build, and who builds weighs what it weighed.
RowsGoOn ==
  /\ req' \in [Reqs -> Row]
  /\ \A q \in Reqs : req'[q].kind = req[q].kind
  /\ \A q \in Reqs : req'[q].at = "building" => req[q].at = "building" /\ req'[q].groups = req[q].groups

LEMMA SameLarge ==
  ASSUME NEW r, req'[r].groups = req[r].groups
  PROVE  Large(r)' = Large(r)
BY DEF Large, Files, Survivors

\* A request is answered.
LEMMA Answering ==
  ASSUME req \in [Reqs -> Row], NEW r \in Reqs, NEW a \in Replies, req' = Answers(r, a)
  PROVE  /\ RowsGoOn /\ req'[r].at = "answered"
         /\ \A q \in Reqs : q # r => req'[q] = req[q]
<1>1. Idle \in [Items -> Reqs \cup {None} \cup Ends] /\ <<>> \in Seq(SUBSET Items)
  BY DEF Idle
<1> DEFINE row == [req[r] EXCEPT !.at = "answered", !.answer = a, !.groups = <<>>, !.conn = FALSE, !.got = Idle]
<1>2. req[r] \in Row
  OBVIOUS
<1>3. row \in Row
  BY <1>1, <1>2 DEF Row, Steps
<1>4. row.at = "answered" /\ row.kind = req[r].kind
  BY <1>2 DEF Row
<1>5. req' = [req EXCEPT ![r] = row]
  BY DEF Answers
<1> HIDE DEF row
<1>6. req' \in [Reqs -> Row] /\ req'[r] = row /\ \A q \in Reqs : q # r => req'[q] = req[q]
  BY <1>3, <1>5
<1> QED
  BY <1>4, <1>6 DEF RowsGoOn

\* A request goes on to a step other than building, with what it has.
LEMMA Moving ==
  ASSUME req \in [Reqs -> Row], NEW r \in Reqs, NEW row \in Row, req' = [req EXCEPT ![r] = row],
         row.kind = req[r].kind, row.at # "building"
  PROVE  RowsGoOn
<1>1. req' \in [Reqs -> Row] /\ req'[r] = row /\ \A q \in Reqs : q # r => req'[q] = req[q]
  OBVIOUS
<1> QED
  BY <1>1 DEF RowsGoOn

-----------------------------------------------------------------------------
(* The parts of the invariant *)

\* A step that lets fetches and the turn alone.
LEMMA RowsOnly ==
  ASSUME TilerInv, RowsGoOn, UNCHANGED <<fetch, running, turn>>
  PROVE  TilerInv'
<1>1. TilerTypeOK'
  BY DEF TilerInv, TilerTypeOK, RowsGoOn
<1>2. \A f \in Fetches : Shared(f)' = Shared(f) /\ Live(f)' = Live(f)
  BY DEF RowsGoOn, Shared, Live, Fetches
<1>3. Joined'
  BY <1>2 DEF TilerInv, Joined
<1>4. SlotsTaken' = SlotsTaken
  BY <1>2 DEF SlotsTaken
<1>5. PlacesCounted'
  BY <1>4 DEF TilerInv, PlacesCounted
<1>6. TurnTaken'
  BY SameLarge DEF TilerInv, TurnTaken, RowsGoOn
<1> QED
  BY <1>1, <1>3, <1>5, <1>6 DEF TilerInv

\* A fetch ends, or goes on in its place: no more shared fetches run than before, nor others.
LEMMA FewerPlaces ==
  ASSUME PlacesCounted, SlotsTaken' \subseteq SlotsTaken
  PROVE  PlacesCounted'
<1>1. IsFiniteSet(SlotsTaken)' /\ Cardinality(SlotsTaken)' <= Cardinality(SlotsTaken)
      /\ Cardinality(SlotsTaken) \in Nat /\ Cardinality(SlotsTaken)' \in Nat
  <2> DEFINE before == SlotsTaken  after == SlotsTaken'
  <2>1. IsFiniteSet(before) /\ after \in SUBSET before
    BY DEF PlacesCounted
  <2> HIDE DEF before, after
  <2>2. IsFiniteSet(after) /\ Cardinality(after) <= Cardinality(before)
        /\ Cardinality(before) \in Nat /\ Cardinality(after) \in Nat
    BY <2>1, FS_Subset, FS_CardinalityType
  <2> QED
    BY <2>2 DEF before, after
<1>2. MaxItemFetches \in Nat
  BY TilerAssumption
<1> QED
  BY <1>1, <1>2 DEF PlacesCounted

\* A request starts fetches of its own, for items that have none.
LEMMA BeginFetchKeeps ==
  ASSUME TilerInv, NEW r \in Reqs, BeginFetch(r)
  PROVE  TilerInv'
<1> USE DEF TilerInv, TilerTypeOK
<1> DEFINE alone == req[r].kind = "measure"
           new == {i \in Named(r) : alone \/ running[i] = None}
           got == [i \in Items |-> IF i \in new THEN r ELSE IF i \in Named(r) THEN running[i] ELSE None]
           row == [req[r] EXCEPT !.at = "fetching", !.got = got]
<1>1. /\ req[r].at = "asked"
      /\ req' = [req EXCEPT ![r] = row]
      /\ fetch' = [f \in Fetches |-> IF f[1] = r /\ f[2] \in new
                                      THEN IF alone THEN "connecting" ELSE "queued" ELSE fetch[f]]
      /\ running' = [i \in Items |-> IF i \in new /\ ~alone THEN r ELSE running[i]]
      /\ turn' = turn
  BY Zenon DEF BeginFetch
<1>2. got \in [Items -> Reqs \cup {None} \cup Ends]
  OBVIOUS
<1>3. row \in Row /\ row.kind = req[r].kind /\ row.at = "fetching"
  <2> HIDE DEF got
  <2>1. req[r] \in Row
    OBVIOUS
  <2> QED
    BY <1>2, <2>1 DEF Row, Steps
<1>n. new = {i \in Named(r) : alone \/ running[i] = None}
  OBVIOUS
<1> HIDE DEF row, got, new
<1>4. RowsGoOn
  BY <1>1, <1>3, Moving
<1>5. TilerTypeOK'
  <2>1. fetch' \in [Fetches -> {"none", "queued", "connecting", "upstream"}]
    BY <1>1
  <2>2. running' \in [Items -> Reqs \cup {None}]
    BY <1>1
  <2> QED
    BY <1>1, <1>4, <2>1, <2>2 DEF RowsGoOn
<1>6. \A f \in Fetches : Shared(f)' = Shared(f)
  BY <1>4 DEF RowsGoOn, Shared, Fetches
<1>7. Joined'
  <2> SUFFICES ASSUME NEW f \in Fetches, Live(f)', Shared(f)
               PROVE  running'[f[2]] = f[1]
    BY <1>6 DEF Joined
  <2>0. f[1] \in Reqs /\ f[2] \in Items
    BY DEF Fetches
  <2>1. CASE f[1] = r /\ f[2] \in new
    <3>1. ~alone
      BY <2>1 DEF Shared
    <3> QED
      BY <1>1, <2>0, <2>1, <3>1
  <2>2. CASE ~(f[1] = r /\ f[2] \in new)
    <3>1. fetch'[f] = fetch[f]
      BY <1>1, <2>2
    <3>2. running[f[2]] = f[1]
      BY <3>1 DEF Joined, Live
    <3>3. f[1] # None
      BY <2>0, TilerAssumption
    <3>4. ~(f[2] \in new /\ ~alone)
      BY <3>2, <3>3, <1>n
    <3> QED
      BY <1>1, <2>0, <3>2, <3>4
  <2> QED
    BY <2>1, <2>2
<1>8. SlotsTaken' \subseteq SlotsTaken
  <2> SUFFICES ASSUME NEW f \in Fetches, Shared(f), fetch'[f] \in {"connecting", "upstream"}
               PROVE  fetch[f] \in {"connecting", "upstream"}
    BY <1>6 DEF SlotsTaken
  <2>1. CASE f[1] = r /\ f[2] \in new
    BY <1>1, <2>1 DEF Shared
  <2>2. CASE ~(f[1] = r /\ f[2] \in new)
    BY <1>1, <2>2
  <2> QED
    BY <2>1, <2>2
<1>9. TurnTaken'
  BY <1>1, <1>4, SameLarge DEF TurnTaken, RowsGoOn
<1> QED
  BY <1>5, <1>7, <1>8, <1>9, FewerPlaces

\* A step of one fetch that was live.
LEMMA FetchMoves ==
  ASSUME TilerInv, NEW f \in Fetches, NEW s \in {"connecting", "upstream"}, Live(f),
         fetch' = [fetch EXCEPT ![f] = s], UNCHANGED <<req, running, turn>>
  PROVE  TilerTypeOK' /\ Joined' /\ TurnTaken'
<1>1. TilerTypeOK'
  BY DEF TilerInv, TilerTypeOK
<1>2. Joined'
  <2> SUFFICES ASSUME NEW g \in Fetches, Live(g)', Shared(g)
               PROVE  running[g[2]] = g[1]
    BY DEF Joined, Shared
  <2>1. Live(g)
    BY DEF Live, TilerInv, TilerTypeOK
  <2> QED
    BY <2>1 DEF TilerInv, Joined
<1>3. TurnTaken'
  BY SameLarge DEF TilerInv, TurnTaken
<1> QED
  BY <1>1, <1>2, <1>3

LEMMA TakeSlotKeeps ==
  ASSUME TilerInv, NEW f \in Fetches, TakeSlot(f)
  PROVE  TilerInv'
<1>1. TilerTypeOK' /\ Joined' /\ TurnTaken'
  BY FetchMoves DEF TakeSlot, Live
<1>2. SlotsTaken' \subseteq SlotsTaken \cup {f}
  BY DEF TakeSlot, SlotsTaken, Shared, TilerInv, TilerTypeOK
<1> DEFINE before == SlotsTaken  after == SlotsTaken'
<1>3. after \in SUBSET (before \cup {f}) /\ IsFiniteSet(before) /\ Cardinality(before) < MaxItemFetches
  BY <1>2 DEF TakeSlot, TilerInv, PlacesCounted
<1> HIDE DEF before, after
<1>4. IsFiniteSet(after) /\ Cardinality(after) <= MaxItemFetches
  <2>0. Cardinality(before) \in Nat
    BY <1>3, FS_CardinalityType
  <2>1. IsFiniteSet(before \cup {f}) /\ Cardinality(before \cup {f}) <= Cardinality(before) + 1
    <3>1. IsFiniteSet(before \cup {f})
          /\ Cardinality(before \cup {f}) = IF f \in before THEN Cardinality(before) ELSE Cardinality(before) + 1
      BY <1>3, FS_AddElement, Zenon
    <3> QED
      BY <2>0, <3>1
  <2>2. Cardinality(before \cup {f}) \in Nat
    BY <2>1, FS_CardinalityType
  <2>3. IsFiniteSet(after) /\ Cardinality(after) <= Cardinality(before \cup {f})
    BY <1>3, <2>1, FS_Subset
  <2>4. Cardinality(after) \in Nat /\ MaxItemFetches \in Nat
    BY <2>3, FS_CardinalityType, TilerAssumption
  <2> QED
    BY <1>3, <2>0, <2>1, <2>2, <2>3, <2>4
<1>5. PlacesCounted'
  BY <1>4 DEF PlacesCounted, after
<1> QED
  BY <1>1, <1>5 DEF TilerInv

LEMMA ConnectKeeps ==
  ASSUME TilerInv, NEW f \in Fetches, Connect(f)
  PROVE  TilerInv'
<1>1. TilerTypeOK' /\ Joined' /\ TurnTaken'
  BY FetchMoves DEF Connect, Live
<1>2. SlotsTaken' \subseteq SlotsTaken
  BY DEF Connect, SlotsTaken, Shared, TilerInv, TilerTypeOK
<1> QED
  BY <1>1, <1>2, FewerPlaces DEF TilerInv

\* Whoever waits for a fetch is given its outcome.
LEMMA Delivered ==
  ASSUME req \in [Reqs -> Row], NEW f \in Fetches, NEW e \in Ends, req' = Deliver(f, e, req)
  PROVE  RowsGoOn
<1> SUFFICES ASSUME NEW q \in Reqs
             PROVE  /\ req'[q] \in Row /\ req'[q].kind = req[q].kind
                    /\ req'[q].at = req[q].at /\ req'[q].groups = req[q].groups
  BY DEF RowsGoOn, Deliver
<1>1. req[q] \in Row
  OBVIOUS
<1>2. CASE req[q].got[f[2]] = f[1]
  <2> DEFINE got == [req[q].got EXCEPT ![f[2]] = e]
             row == [req[q] EXCEPT !.got = got]
  <2>1. req'[q] = row
    BY <1>2 DEF Deliver
  <2>2. got \in [Items -> Reqs \cup {None} \cup Ends]
    BY <1>1 DEF Row
  <2> HIDE DEF got
  <2>3. row \in Row /\ row.kind = req[q].kind /\ row.at = req[q].at /\ row.groups = req[q].groups
    BY <1>1, <2>2 DEF Row
  <2> QED
    BY <2>1, <2>3
<1>3. CASE req[q].got[f[2]] # f[1]
  BY <1>1, <1>3 DEF Deliver
<1> QED
  BY <1>2, <1>3

LEMMA EndFetchKeeps ==
  ASSUME TilerInv, NEW f \in Fetches, EndFetch(f)
  PROVE  TilerInv'
<1> USE DEF TilerInv, TilerTypeOK
<1>1. /\ fetch' = [fetch EXCEPT ![f] = "none"] /\ turn' = turn
      /\ running' = [running EXCEPT ![f[2]] = IF @ = f[1] THEN None ELSE @]
  BY DEF EndFetch
<1>2. RowsGoOn
  BY Delivered DEF EndFetch
<1>3. TilerTypeOK'
  BY <1>1, <1>2 DEF RowsGoOn
<1>4. \A g \in Fetches : Shared(g)' = Shared(g)
  BY <1>2 DEF RowsGoOn, Shared, Fetches
<1>5. Joined'
  <2> SUFFICES ASSUME NEW g \in Fetches, Live(g)', Shared(g)
               PROVE  running'[g[2]] = g[1]
    BY <1>4 DEF Joined
  <2>1. g # f /\ Live(g)
    BY <1>1 DEF Live
  <2>2. running[g[2]] = g[1]
    BY <2>1 DEF Joined
  <2>3. g = <<g[1], g[2]>> /\ f = <<f[1], f[2]>> /\ g[2] \in Items /\ f[2] \in Items
    BY DEF Fetches
  <2>4. ~(g[2] = f[2] /\ running[g[2]] = f[1])
    BY <2>1, <2>2, <2>3
  <2> QED
    BY <1>1, <2>2, <2>3, <2>4
<1>6. SlotsTaken' \subseteq SlotsTaken
  BY <1>1, <1>4 DEF SlotsTaken
<1>7. TurnTaken'
  BY <1>1, <1>2, SameLarge DEF TurnTaken, RowsGoOn
<1> QED
  BY <1>3, <1>5, <1>6, <1>7, FewerPlaces

-----------------------------------------------------------------------------
(* The answers of requests *)

LEMMA NamedAreItems ==
  ASSUME TilerTypeOK, NEW r \in Reqs
  PROVE  Named(r) \subseteq Items
<1>1. req[r].groups \in Seq(SUBSET Items)
  BY DEF TilerTypeOK, Row
<1>2. ToSet(req[r].groups) \subseteq SUBSET Items
  BY <1>1 DEF ToSet
<1> QED
  BY <1>2 DEF Named

\* The failure that is answered is one that came.
LEMMA FailuresAreReplies ==
  ASSUME TilerTypeOK, NEW r \in Reqs, NEW i \in Failed(r)
  PROVE  FailureOf(r, i) \in Replies
<1>1. i \in Items /\ req[r].got[i] \in {"refused", "broken", "cancelled"}
  BY NamedAreItems DEF Failed, Ended
<1>2. req[r].got[i] \in Reqs \cup {None} \cup Ends
  BY <1>1 DEF TilerTypeOK, Row
<1>3. req[r].got[i] # "cancelled"
  BY <1>2, TilerAssumption DEF Ends
<1> QED
  BY <1>1, <1>3 DEF FailureOf, Replies

LEMMA AnswerFailureKeeps ==
  ASSUME TilerInv, NEW r \in Reqs, AnswerFailure(r)
  PROVE  TilerInv'
<1>0. TilerTypeOK /\ req \in [Reqs -> Row]
  BY DEF TilerInv, TilerTypeOK
<1>1. Min(Failed(r)) \in Failed(r)
  <2>1. Failed(r) \in SUBSET Nat /\ Failed(r) # {}
    BY <1>0, NamedAreItems, TilerAssumption DEF Failed, Ended, AnswerFailure
  <2> QED
    BY <2>1, MinBelongs
<1>2. \E i \in Failed(r) : req' = Answers(r, FailureOf(r, i))
  BY <1>1 DEF AnswerFailure
<1>3. RowsGoOn
  BY <1>0, <1>2, FailuresAreReplies, Answering
<1> QED
  BY <1>3, RowsOnly DEF AnswerFailure

\* The steps that end in an answer and let the rest alone.
LEMMA AnswersKeep ==
  ASSUME TilerInv, NEW r \in Reqs, RefuseWords(r) \/ GiveUp(r) \/ RefuseItems(r)
  PROVE  TilerInv'
<1>1. /\ UNCHANGED <<fetch, running, turn>>
      /\ \E a \in {"words", "gone", "items"} : req' = Answers(r, a)
  BY DEF RefuseWords, GiveUp, RefuseItems
<1>2. RowsGoOn
  BY <1>1, Answering DEF TilerInv, TilerTypeOK, Replies
<1> QED
  BY <1>1, <1>2, RowsOnly

\* The steps of a request that is served, and end in an answer or before another step of it.
LEMMA GoOnKeeps ==
  ASSUME TilerInv, NEW r \in Reqs, GoOn(r)
  PROVE  TilerInv'
<1>0. req \in [Reqs -> Row] /\ req[r] \in Row
  BY DEF TilerInv, TilerTypeOK
<1>1. CASE req' = Answers(r, "too many") \/ req' = Answers(r, "ok")
  <2>1. RowsGoOn
    BY <1>0, <1>1, Answering DEF Replies
  <2> QED
    BY <2>1, RowsOnly DEF GoOn
<1>2. CASE /\ req[r].kind \in DOMAIN AfterItems
           /\ req' = [req EXCEPT ![r].at = AfterItems[req[r].kind], ![r].got = Idle]
  <2> DEFINE at == AfterItems[req[r].kind]
             row == [req[r] EXCEPT !.at = at, !.got = Idle]
  <2>1. at \in {"reading", "caching"}
    BY <1>2 DEF AfterItems
  <2>2. req' = [req EXCEPT ![r] = row]
    BY <1>2, Zenon
  <2>3. Idle \in [Items -> Reqs \cup {None} \cup Ends]
    BY DEF Idle
  <2> HIDE DEF at
  <2>4. row \in Row /\ row.kind = req[r].kind /\ row.at # "building"
    BY <1>0, <2>1, <2>3 DEF Row, Steps
  <2> HIDE DEF row
  <2>5. RowsGoOn
    BY <1>0, <2>2, <2>4, Moving
  <2> QED
    BY <2>5, RowsOnly DEF GoOn
<1> QED
  BY <1>1, <1>2 DEF GoOn

LEMMA ConnectionsKeep ==
  ASSUME TilerInv, NEW r \in Reqs, TakeConnection(r) \/ NoConnection(r)
  PROVE  TilerInv'
<1>0. req \in [Reqs -> Row] /\ req[r] \in Row /\ UNCHANGED <<fetch, running, turn>>
  BY DEF TilerInv, TilerTypeOK, TakeConnection, NoConnection
<1>1. CASE \E a \in {"broken", "ok"} : req' = Answers(r, a)
  <2>1. RowsGoOn
    BY <1>0, <1>1, Answering DEF Replies
  <2> QED
    BY <1>0, <2>1, RowsOnly
<1>2. CASE \E at \in {"stored", "looking", "reading"}, conn \in BOOLEAN :
             req' = [req EXCEPT ![r] = [@ EXCEPT !.at = at, !.conn = conn]]
  <2> PICK at \in {"stored", "looking", "reading"}, conn \in BOOLEAN :
             req' = [req EXCEPT ![r] = [@ EXCEPT !.at = at, !.conn = conn]]
    BY <1>2
  <2> DEFINE row == [req[r] EXCEPT !.at = at, !.conn = conn]
  <2>1. req' = [req EXCEPT ![r] = row]
    OBVIOUS
  <2>2. row \in Row /\ row.kind = req[r].kind /\ row.at # "building"
    BY <1>0 DEF Row, Steps
  <2> HIDE DEF row
  <2>3. RowsGoOn
    BY <1>0, <2>1, <2>2, Moving
  <2> QED
    BY <1>0, <2>3, RowsOnly
<1>3. CASE TakeConnection(r)
  <2> DEFINE at == IF req[r].at = "storing" THEN "stored"
                   ELSE IF req[r].kind = "measure" THEN "looking" ELSE "reading"
  <2>1. req' = [req EXCEPT ![r] = [@ EXCEPT !.at = at, !.conn = TRUE]]
    BY <1>0, <1>3 DEF TakeConnection, Row
  <2>2. at \in {"stored", "looking", "reading"}
    OBVIOUS
  <2> HIDE DEF at
  <2> QED
    BY <1>2, <2>1, <2>2
<1>4. CASE NoConnection(r)
  <2>1. CASE req' = [req EXCEPT ![r].at = "reading"]
    <3>1. req' = [req EXCEPT ![r] = [@ EXCEPT !.at = "reading", !.conn = req[r].conn]]
      BY <1>0, <2>1 DEF Row
    <3>2. req[r].conn \in BOOLEAN
      BY <1>0 DEF Row
    <3> QED
      BY <1>2, <3>1, <3>2
  <2> QED
    BY <1>1, <1>4, <2>1 DEF NoConnection
<1> QED
  BY <1>3, <1>4

LEMMA LookedKeeps ==
  ASSUME TilerInv, NEW r \in Reqs, Looked(r)
  PROVE  TilerInv'
<1>0. req \in [Reqs -> Row] /\ req[r] \in Row /\ UNCHANGED <<fetch, running, turn>>
  BY DEF TilerInv, TilerTypeOK, Looked
<1>1. CASE req' = Answers(r, "ok")
  <2>1. RowsGoOn
    BY <1>0, <1>1, Answering DEF Replies
  <2> QED
    BY <1>0, <2>1, RowsOnly
<1>2. CASE req' = [req EXCEPT ![r].at = "reading", ![r].conn = FALSE]
  <2> DEFINE row == [req[r] EXCEPT !.at = "reading", !.conn = FALSE]
  <2>1. req' = [req EXCEPT ![r] = row]
    BY <1>2
  <2>2. row \in Row /\ row.kind = req[r].kind /\ row.at # "building"
    BY <1>0 DEF Row, Steps
  <2> HIDE DEF row
  <2>3. RowsGoOn
    BY <1>0, <2>1, <2>2, Moving
  <2> QED
    BY <1>0, <2>3, RowsOnly
<1> QED
  BY <1>1, <1>2 DEF Looked

LEMMA ReadKeeps ==
  ASSUME TilerInv, NEW r \in Reqs, Read(r)
  PROVE  TilerInv'
<1>0. req \in [Reqs -> Row] /\ req[r] \in Row /\ UNCHANGED <<fetch, running, turn>>
  BY DEF TilerInv, TilerTypeOK, Read
<1>1. CASE \E a \in {"ok", "unreadable"} : req' = Answers(r, a)
  <2>1. RowsGoOn
    BY <1>0, <1>1, Answering DEF Replies
  <2> QED
    BY <1>0, <2>1, RowsOnly
<1>2. CASE req' = [req EXCEPT ![r].at = "storing"]
  <2> DEFINE row == [req[r] EXCEPT !.at = "storing"]
  <2>1. req' = [req EXCEPT ![r] = row]
    BY <1>2
  <2>2. row \in Row /\ row.kind = req[r].kind /\ row.at # "building"
    BY <1>0 DEF Row, Steps
  <2> HIDE DEF row
  <2>3. RowsGoOn
    BY <1>0, <2>1, <2>2, Moving
  <2> QED
    BY <1>0, <2>3, RowsOnly
<1> QED
  BY <1>1, <1>2 DEF Read

-----------------------------------------------------------------------------
(* The crop *)

\* A step of a crop: the turn is taken by one that is large, and left by the one that has it.
LEMMA CropMoves ==
  ASSUME TilerInv, NEW r \in Reqs, UNCHANGED <<fetch, running>>, req' \in [Reqs -> Row], turn' \in Reqs \cup {None},
         \A q \in Reqs : req'[q].kind = req[q].kind
  PROVE  TilerTypeOK' /\ Joined' /\ PlacesCounted'
<1>1. TilerTypeOK'
  BY DEF TilerInv, TilerTypeOK
<1>2. \A f \in Fetches : Shared(f)' = Shared(f) /\ Live(f)' = Live(f)
  BY DEF Shared, Live, Fetches
<1>3. Joined'
  BY <1>2 DEF TilerInv, Joined
<1>4. SlotsTaken' = SlotsTaken
  BY <1>2 DEF SlotsTaken
<1> QED
  BY <1>1, <1>3, <1>4 DEF TilerInv, PlacesCounted

LEMMA JudgeCropKeeps ==
  ASSUME TilerInv, NEW r \in Reqs, JudgeCrop(r)
  PROVE  TilerInv'
<1>0. req \in [Reqs -> Row] /\ req[r] \in Row /\ UNCHANGED <<fetch, running>>
  BY DEF TilerInv, TilerTypeOK, JudgeCrop
<1>1. CASE turn' = turn /\ \E a \in {"outside", "too large", "busy"} : req' = Answers(r, a)
  <2>1. RowsGoOn
    BY <1>0, <1>1, Answering DEF Replies
  <2> QED
    BY <1>0, <1>1, <2>1, RowsOnly
<1> DEFINE row == [req[r] EXCEPT !.at = "building", !.got = Idle]
<1>2. CASE /\ req' = [req EXCEPT ![r].at = "building", ![r].got = Idle]
           /\ (~Large(r) /\ turn' = turn) \/ (Large(r) /\ turn = None /\ turn' = r)
  <2>1. req' = [req EXCEPT ![r] = row]
    BY <1>2
  <2>2. Idle \in [Items -> Reqs \cup {None} \cup Ends]
    BY DEF Idle
  <2>3. row \in Row /\ row.kind = req[r].kind /\ row.groups = req[r].groups
    BY <1>0, <2>2 DEF Row, Steps
  <2> HIDE DEF row
  <2>4. req' \in [Reqs -> Row] /\ req'[r] = row /\ \A q \in Reqs : q # r => req'[q] = req[q]
    BY <1>0, <2>1, <2>3
  <2>5. turn' \in Reqs \cup {None}
    BY <1>2 DEF TilerInv, TilerTypeOK
  <2>6. TilerTypeOK' /\ Joined' /\ PlacesCounted'
    BY <1>0, <2>3, <2>4, <2>5, CropMoves
  <2>7. \A q \in Reqs : Large(q)' = Large(q)
    BY <2>3, <2>4, SameLarge
  <2>8. TurnTaken'
    <3> SUFFICES ASSUME NEW q \in Reqs, req'[q].at = "building", Large(q)
                 PROVE  turn' = q
      BY <2>7 DEF TurnTaken
    <3>1. CASE q = r
      BY <1>2, <3>1
    <3>2. CASE q # r
      <4>1. turn = q /\ q # None
        BY <2>4, <3>2, TilerAssumption DEF TilerInv, TurnTaken
      <4> QED
        BY <1>2, <4>1
    <3> QED
      BY <3>1, <3>2
  <2> QED
    BY <2>6, <2>8 DEF TilerInv
<1> HIDE DEF row
<1>3. \/ turn' = turn /\ \E a \in {"outside", "too large", "busy"} : req' = Answers(r, a)
      \/ /\ req' = [req EXCEPT ![r].at = "building", ![r].got = Idle]
         /\ (~Large(r) /\ turn' = turn) \/ (Large(r) /\ turn = None /\ turn' = r)
  <2>1. CASE Survivors(r) = <<>>
    BY <2>1 DEF JudgeCrop
  <2>2. CASE Survivors(r) # <<>> /\ (Cardinality(Scenes(r)) > MaxCropItems \/ Files(r) > MaxCropFiles)
    BY <2>2 DEF JudgeCrop
  <2>3. CASE Survivors(r) # <<>> /\ ~(Cardinality(Scenes(r)) > MaxCropItems \/ Files(r) > MaxCropFiles)
    <3>1. \/ ~Large(r) /\ req' = [req EXCEPT ![r].at = "building", ![r].got = Idle] /\ turn' = turn
          \/ Large(r) /\ turn # None /\ req' = Answers(r, "busy") /\ turn' = turn
          \/ Large(r) /\ turn = None /\ req' = [req EXCEPT ![r].at = "building", ![r].got = Idle] /\ turn' = r
      BY <2>3, Zenon DEF JudgeCrop
    <3> QED
      BY <3>1
  <2> QED
    BY <2>1, <2>2, <2>3
<1> QED
  BY <1>1, <1>2, <1>3

LEMMA BuildKeeps ==
  ASSUME TilerInv, NEW r \in Reqs, Build(r)
  PROVE  TilerInv'
<1>0. req \in [Reqs -> Row] /\ UNCHANGED <<fetch, running>>
  BY DEF TilerInv, TilerTypeOK, Build
<1>1. turn' = (IF turn = r THEN None ELSE turn) /\ turn' \in Reqs \cup {None}
  BY DEF Build, TilerInv, TilerTypeOK
<1>2. RowsGoOn /\ req'[r].at = "answered" /\ \A q \in Reqs : q # r => req'[q] = req[q]
  BY <1>0, Answering DEF Build, Replies
<1>3. TilerTypeOK' /\ Joined' /\ PlacesCounted'
  BY <1>0, <1>1, <1>2, CropMoves DEF RowsGoOn
<1>4. TurnTaken'
  <2> SUFFICES ASSUME NEW q \in Reqs, req'[q].at = "building", Large(q)'
               PROVE  turn' = q
    BY DEF TurnTaken
  <2>1. q # r /\ req'[q] = req[q]
    BY <1>2
  <2>2. turn = q
    BY <2>1, SameLarge DEF TilerInv, TurnTaken
  <2> QED
    BY <1>1, <2>1, <2>2
<1> QED
  BY <1>3, <1>4 DEF TilerInv

-----------------------------------------------------------------------------
(* All of it *)

LEMMA TilerInvInit ==
  ASSUME ProcessInit
  PROVE  TilerInv
<1> PICK w \in Workloads : TilerInit(w.asked)
  BY DEF ProcessInit
<1>1. w.asked \in [Reqs -> [kind : Kinds, groups : Seq(SUBSET Items)]]
  BY TilerAssumption
<1>2. Idle \in [Items -> Reqs \cup {None} \cup Ends]
  BY DEF Idle
<1>3. req \in [Reqs -> Row]
  <2> SUFFICES ASSUME NEW r \in Reqs
               PROVE  [kind |-> w.asked[r].kind, groups |-> w.asked[r].groups, conn |-> FALSE, answer |-> "none",
                       got |-> Idle, at |-> IF w.asked[r].groups = <<>> THEN "answered" ELSE "asked"] \in Row
    BY Zenon DEF TilerInit
  <2> DEFINE at == IF w.asked[r].groups = <<>> THEN "answered" ELSE "asked"
  <2>1. at \in Steps
    BY DEF Steps
  <2>2. w.asked[r].kind \in Kinds /\ w.asked[r].groups \in Seq(SUBSET Items)
    BY <1>1
  <2> HIDE DEF at
  <2>3. [kind |-> w.asked[r].kind, groups |-> w.asked[r].groups, conn |-> FALSE, answer |-> "none",
         got |-> Idle, at |-> at] \in Row
    BY <1>2, <2>1, <2>2 DEF Row, Replies
  <2> QED
    BY <2>3 DEF at
<1>4. TilerTypeOK
  BY <1>3 DEF TilerTypeOK, TilerInit
<1>5. Joined
  BY DEF Joined, Live, TilerInit
<1>6. PlacesCounted
  <2>1. SlotsTaken = {}
    BY DEF SlotsTaken, TilerInit
  <2> QED
    BY <2>1, FS_EmptySet, TilerAssumption DEF PlacesCounted
<1>7. TurnTaken
  BY DEF TurnTaken, TilerInit
<1> QED
  BY <1>4, <1>5, <1>6, <1>7 DEF TilerInv

LEMMA TilerInvNext ==
  ASSUME TilerInv, [ProcessNext]_ProcessVars
  PROVE  TilerInv'
<1>1. CASE UNCHANGED tilerVars
  <2>1. RowsGoOn /\ UNCHANGED <<fetch, running, turn>>
    BY <1>1 DEF tilerVars, RowsGoOn, TilerInv, TilerTypeOK
  <2> QED
    BY <2>1, RowsOnly
<1>2. ASSUME NEW r \in Reqs, RequestStep(r)
      PROVE  TilerInv'
  BY <1>2, BeginFetchKeeps, AnswerFailureKeeps, GoOnKeeps, JudgeCropKeeps, ConnectionsKeep, LookedKeeps, ReadKeeps,
     BuildKeeps DEF RequestStep
<1>3. ASSUME NEW f \in Fetches, FetchStep(f)
      PROVE  TilerInv'
  BY <1>3, TakeSlotKeeps, ConnectKeeps, EndFetchKeeps DEF FetchStep
<1> QED
  BY <1>1, <1>2, <1>3, AnswersKeep DEF ProcessNext, Requests, ProcessVars

LEMMA TilerInvIsEnough ==
  ASSUME TilerInv
  PROVE  SharingHarmsNobody
<1>1. FetchesShared
  <2>1. ASSUME NEW f \in Fetches, NEW g \in Fetches, Live(f), Live(g), Shared(f), Shared(g), f[2] = g[2]
        PROVE  f = g
    BY <2>1 DEF TilerInv, Joined, Fetches
  <2> DEFINE upstream == {f \in Fetches : Shared(f) /\ fetch[f] = "upstream"}
             places == SlotsTaken
  <2>2. upstream \in SUBSET places /\ IsFiniteSet(places) /\ Cardinality(places) <= MaxItemFetches
    BY DEF TilerInv, PlacesCounted, SlotsTaken
  <2> HIDE DEF upstream, places
  <2>3. IsFiniteSet(upstream) /\ Cardinality(upstream) <= Cardinality(places)
    BY <2>2, FS_Subset
  <2>4. Cardinality(upstream) \in Nat /\ Cardinality(places) \in Nat /\ MaxItemFetches \in Nat
    BY <2>2, <2>3, FS_CardinalityType, TilerAssumption
  <2>5. Cardinality(upstream) <= MaxItemFetches
    BY <2>2, <2>3, <2>4
  <2> QED
    BY <2>1, <2>5 DEF FetchesShared, upstream
<1>2. LeaversHarmNobody
  BY DEF TilerInv, TilerTypeOK, Row, Replies, LeaversHarmNobody
<1>3. LargeCropAlone
  <2> DEFINE large == {r \in Reqs : req[r].at = "building" /\ Files(r) >= LargeFrom}
  <2>1. large \in SUBSET {turn}
    BY DEF TilerInv, TurnTaken, Large
  <2> HIDE DEF large
  <2>2. IsFiniteSet({turn}) /\ Cardinality({turn}) = 1
    BY FS_Singleton
  <2>3. Cardinality(large) <= 1
    BY <2>1, <2>2, FS_Subset
  <2> QED
    BY <2>3 DEF LargeCropAlone, large
<1> QED
  BY <1>1, <1>2, <1>3 DEF SharingHarmsNobody

\* However many requests come, leave and fail in whatever order: an item has one shared fetch at a time,
\* no more of them than there are places run, a request that leaves harms no other, and of the large crops one
\* is built at a time.
THEOREM SharingIsSafe == ProcessSpec => []SharingHarmsNobody
<1>1. ProcessInit => TilerInv
  BY TilerInvInit
<1>2. TilerInv /\ [ProcessNext]_ProcessVars => TilerInv'
  BY TilerInvNext
<1>3. TilerInv => SharingHarmsNobody
  BY TilerInvIsEnough
<1> QED
  BY <1>1, <1>2, <1>3, PTL DEF ProcessSpec

-----------------------------------------------------------------------------
(* Results *)

Ats == {"idle", "ask", "copy", "life", "signed", "over"}
CallRow ==
  [result : Results, at : Ats, held : Calls \cup {NoEntry}, urls : Nat, since : Nat,
   answer : {"none", "not found", "unavailable", "expired", "urls"}]
Entry == [modified : Nat, checked : Nat, urls : Nat, signed : Nat]

ResTypeOK ==
  /\ time \in 0..MaxTime
  /\ removed \in [Results -> Nat]
  /\ entry \in [Calls -> Entry]
  /\ kept \in [Results -> Calls \cup {NoEntry}]
  /\ call \in [Calls -> CallRow]

\* An entry its call has made: the store was asked before, and had the result one tick earlier at most.
Made(e) == call[e].at \in {"life", "signed", "over"}
Known(e, x) ==
  /\ e \in Calls /\ call[e].result = x /\ Made(e)
  /\ entry[e].checked <= time /\ entry[e].checked <= removed[x] + 1

\* What a call rests on while it is under way.
CallFits(c) ==
  /\ call[c].at \in {"ask", "copy", "life", "signed"} =>
       /\ call[c].since <= time /\ time <= call[c].since + 1
       /\ call[c].held # NoEntry => Known(call[c].held, call[c].result)
  /\ call[c].at = "copy" => call[c].since <= removed[call[c].result]
  /\ call[c].at \in {"life", "signed"} =>
       call[c].held # NoEntry /\ call[c].since < entry[call[c].held].checked + HeadKept

ResInv ==
  /\ ResTypeOK
  /\ \A x \in Results : removed[x] = Never \/ removed[x] <= time
  /\ \A x \in Results : kept[x] # NoEntry => Known(kept[x], x)
  /\ \A c \in Calls : CallFits(c)

\* A call makes its entry once, and it stays for whom it is about.
CallsGoOn ==
  /\ \A e \in Calls : call'[e].result = call[e].result
  /\ \A e \in Calls : Made(e) => Made(e)' /\ entry'[e].checked = entry[e].checked
  /\ UNCHANGED <<time, removed>>

LEMMA Ticks == MaxTime \in Nat /\ HeadKept \in Nat \ {0} /\ Never \in Nat
<1>1. {HeadKept, UrlReused, ResultLife, MinRemaining, CacheSize, MaxTime} \subseteq Nat \ {0}
  BY ResultSourcesAssumption
<1> QED
  BY <1>1 DEF Never

LEMMA ResTypes ==
  ASSUME ResTypeOK
  PROVE  /\ time \in Nat
         /\ \A c \in Calls : /\ call[c] \in CallRow /\ call[c].result \in Results /\ call[c].at \in Ats
                             /\ call[c].held \in Calls \cup {NoEntry} /\ call[c].urls \in Nat /\ call[c].since \in Nat
         /\ \A e \in Calls : /\ entry[e] \in Entry /\ entry[e].checked \in Nat /\ entry[e].urls \in Nat
                             /\ entry[e].signed \in Nat
         /\ \A x \in Results : removed[x] \in Nat /\ kept[x] \in Calls \cup {NoEntry}
<1> USE DEF ResTypeOK
<1>1. time \in Nat
  BY Ticks
<1>2. \A c \in Calls : call[c] \in CallRow
  OBVIOUS
<1>3. \A e \in Calls : entry[e] \in Entry
  OBVIOUS
<1>4. \A r \in CallRow : /\ r.result \in Results /\ r.at \in Ats /\ r.held \in Calls \cup {NoEntry}
                         /\ r.urls \in Nat /\ r.since \in Nat
  BY DEF CallRow
<1>5. \A r \in Entry : r.checked \in Nat /\ r.urls \in Nat /\ r.signed \in Nat
  BY DEF Entry
<1> QED
  BY <1>1, <1>2, <1>3, <1>4, <1>5

\* A step of one call keeps the invariant if its own row and the cache still fit.
LEMMA CallMoves ==
  ASSUME ResInv, NEW c \in Calls, CallsGoOn, ResTypeOK', CallFits(c)',
         \A d \in Calls : d # c => call'[d] = call[d],
         \A x \in Results : kept'[x] \in {kept[x], NoEntry} \/ Known(kept'[x], x)
  PROVE  ResInv'
<1>1. ASSUME NEW x \in Results, kept'[x] # NoEntry
      PROVE  Known(kept[x], x)'
  <2>1. Known(kept'[x], x)
    BY <1>1 DEF ResInv
  <2> QED
    BY <2>1 DEF Known, Made, CallsGoOn
<1>2. ASSUME NEW d \in Calls, d # c
      PROVE  CallFits(d)'
  <2>1. call'[d] = call[d] /\ CallFits(d)
    BY <1>2 DEF ResInv
  <2> QED
    BY <2>1 DEF CallFits, CallsGoOn, Known, Made
<1>3. \A x \in Results : (removed[x] = Never \/ removed[x] <= time)'
  BY DEF ResInv, CallsGoOn, Never
<1> QED
  BY <1>1, <1>2, <1>3 DEF ResInv

\* A call ends with an answer, whatever becomes of the cache.
LEMMA CallEnds ==
  ASSUME ResTypeOK, NEW c \in Calls, NEW a \in {"not found", "unavailable", "expired", "urls"}, Answer(c, a)
  PROVE  /\ call' \in [Calls -> CallRow] /\ call'[c].at = "over" /\ call'[c].result = call[c].result
         /\ \A d \in Calls : d # c => call'[d] = call[d]
         /\ CallFits(c)'
<1> DEFINE row == [result |-> call[c].result, at |-> "over", held |-> NoEntry, urls |-> Never, since |-> 0, answer |-> a]
<1>1. call' = [call EXCEPT ![c] = row]
  BY DEF Answer
<1>2. call[c].result \in Results /\ Never \in Nat
  BY Ticks, ResTypes
<1>3. row \in CallRow /\ row.at = "over" /\ row.result = call[c].result
  BY <1>2 DEF CallRow, Ats
<1> HIDE DEF row
<1>4. call' \in [Calls -> CallRow] /\ call'[c] = row /\ \A d \in Calls : d # c => call'[d] = call[d]
  BY <1>1, <1>3 DEF ResTypeOK
<1> QED
  BY <1>3, <1>4 DEF CallFits

LEMMA LookKeeps ==
  ASSUME ResInv, NEW c \in Calls, Look(c)
  PROVE  ResInv'
<1> USE DEF ResInv, ResTypeOK
<1> DEFINE x == call[c].result  e == kept[x]
           at == IF Believed(e) THEN "life" ELSE "ask"
           row == [call[c] EXCEPT !.at = at, !.held = e, !.since = time]
<1>1. /\ call[c].at = "idle" /\ UNCHANGED <<time, removed, entry, kept, recent>>
      /\ call' = [call EXCEPT ![c] = row]
  BY DEF Look
<1>2. call[c] \in CallRow /\ x \in Results /\ e \in Calls \cup {NoEntry} /\ time \in Nat
  BY ResTypes
<1>3. at \in {"ask", "life"}
  OBVIOUS
<1>4. /\ e # NoEntry => Known(e, x)
      /\ at = "life" => e # NoEntry /\ time - entry[e].checked < HeadKept
  BY <1>2 DEF Believed
<1> HIDE DEF e, at
<1>5. row \in CallRow /\ row.at = at /\ row.held = e /\ row.since = time /\ row.result = x
  BY <1>2, <1>3 DEF CallRow, Ats
<1> HIDE DEF row
<1>6. /\ call' \in [Calls -> CallRow] /\ call'[c] = row
      /\ \A d \in Calls : d # c => call'[d] = call[d]
  BY <1>1, <1>5
<1>7. CallsGoOn
  BY <1>1, <1>5, <1>6 DEF CallsGoOn, Made
<1>8. CallFits(c)'
  <2>1. e # NoEntry => e \in Calls /\ e # c /\ entry[e].checked \in Nat
    BY <1>1, <1>4 DEF Known, Made, Entry
  <2> QED
    BY <1>1, <1>2, <1>3, <1>4, <1>5, <1>6, <2>1, ResultSourcesAssumption DEF CallFits, Known, Made
<1> QED
  BY <1>1, <1>6, <1>7, <1>8, CallMoves

LEMMA AskStoreKeeps ==
  ASSUME ResInv, NEW c \in Calls, AskStore(c)
  PROVE  ResInv'
<1> USE DEF ResInv, ResTypeOK
<1>0. call[c].at = "ask" /\ UNCHANGED <<time, removed, entry, kept, recent>> /\ call[c] \in CallRow
  BY DEF AskStore
<1>1. CASE \E a \in {"not found", "unavailable"} : Answer(c, a)
  <2>1. /\ call' \in [Calls -> CallRow] /\ call'[c].at = "over" /\ call'[c].result = call[c].result
        /\ \A d \in Calls : d # c => call'[d] = call[d]
        /\ CallFits(c)'
    BY <1>1, CallEnds
  <2>2. CallsGoOn
    BY <1>0, <2>1 DEF CallsGoOn, Made
  <2> QED
    BY <1>0, <2>1, <2>2, CallMoves
<1> DEFINE urls == IF call[c].held = NoEntry THEN Never ELSE entry[call[c].held].urls
           row == [call[c] EXCEPT !.at = "copy", !.urls = urls]
<1>2. CASE There(call[c].result) /\ call' = [call EXCEPT ![c] = row]
  <2>1. urls \in Nat
    BY Ticks, ResTypes
  <2> HIDE DEF urls
  <2>2. /\ row \in CallRow /\ row.at = "copy" /\ row.held = call[c].held /\ row.since = call[c].since
        /\ row.result = call[c].result
    BY <1>0, <2>1 DEF CallRow, Ats
  <2> HIDE DEF row
  <2>3. /\ call' \in [Calls -> CallRow] /\ call'[c] = row
        /\ \A d \in Calls : d # c => call'[d] = call[d]
    BY <1>2, <2>2
  <2>4. CallsGoOn
    BY <1>0, <2>2, <2>3 DEF CallsGoOn, Made
  <2>5. CallFits(c) /\ call[c].since \in Nat /\ removed[call[c].result] \in Nat /\ time \in Nat
    BY ResTypes
  <2>6. CallFits(c)'
    BY <1>0, <1>2, <2>2, <2>3, <2>5 DEF CallFits, Known, Made, There
  <2> QED
    BY <1>0, <2>3, <2>4, <2>6, CallMoves
<1>3. \/ \E a \in {"not found", "unavailable"} : Answer(c, a)
      \/ There(call[c].result) /\ call' = [call EXCEPT ![c] = row]
  BY DEF AskStore
<1> QED
  BY <1>1, <1>2, <1>3

LEMMA CopyKeeps ==
  ASSUME ResInv, NEW c \in Calls, Copy(c)
  PROVE  ResInv'
<1> USE DEF ResInv, ResTypeOK
<1> DEFINE signed == IF call[c].held = NoEntry THEN 0 ELSE entry[call[c].held].signed
           new == [modified |-> 0, checked |-> time, urls |-> call[c].urls, signed |-> signed]
           row == [call[c] EXCEPT !.at = "life", !.held = c]
<1>1. /\ call[c].at = "copy" /\ UNCHANGED <<time, removed, kept, recent>>
      /\ call' = [call EXCEPT ![c] = row] /\ entry' = [entry EXCEPT ![c] = new]
  BY DEF Copy
<1>2. call[c] \in CallRow /\ time \in Nat /\ call[c].held \in Calls \cup {NoEntry} /\ call[c].since \in Nat
      /\ call[c].result \in Results /\ removed[call[c].result] \in Nat
  BY ResTypes
<1>3. signed \in Nat
  BY ResTypes
<1> HIDE DEF signed
<1>4. new \in Entry /\ new.checked = time
  BY <1>2, <1>3 DEF Entry, CallRow
<1>5. /\ row \in CallRow /\ row.at = "life" /\ row.held = c /\ row.since = call[c].since
      /\ row.result = call[c].result
  BY <1>2 DEF CallRow, Ats
<1> HIDE DEF new, row
<1>6. /\ call' \in [Calls -> CallRow] /\ call'[c] = row
      /\ \A d \in Calls : d # c => call'[d] = call[d]
  BY <1>1, <1>5
<1>7. /\ entry' \in [Calls -> Entry] /\ entry'[c] = new
      /\ \A d \in Calls : d # c => entry'[d] = entry[d]
  BY <1>1, <1>4
<1>8. CallsGoOn
  BY <1>1, <1>5, <1>6, <1>7 DEF CallsGoOn, Made
<1>9. CallFits(c)'
  <2>1. call[c].since <= time /\ time <= call[c].since + 1 /\ call[c].since <= removed[call[c].result]
    BY <1>1 DEF CallFits
  <2>2. HeadKept \in Nat \ {0} /\ c # NoEntry
    BY ResultSourcesAssumption
  <2> QED
    BY <1>1, <1>2, <1>4, <1>5, <1>6, <1>7, <2>1, <2>2 DEF CallFits, Known, Made
<1> QED
  BY <1>1, <1>6, <1>7, <1>8, <1>9, CallMoves

LEMMA TooLateKeeps ==
  ASSUME ResInv, NEW c \in Calls, TooLate(c)
  PROVE  ResInv'
<1>1. /\ call' \in [Calls -> CallRow] /\ call'[c].at = "over" /\ call'[c].result = call[c].result
      /\ \A d \in Calls : d # c => call'[d] = call[d]
      /\ CallFits(c)'
  BY CallEnds DEF TooLate, ResInv
<1>2. CallsGoOn
  BY <1>1 DEF CallsGoOn, Made, TooLate
<1>3. ResTypeOK'
  BY <1>1 DEF ResInv, ResTypeOK, TooLate
<1> QED
  BY <1>1, <1>2, <1>3, CallMoves DEF TooLate

\* The entry in hand goes into the cache; of others one may leave it.
LEMMA PutKeeps ==
  ASSUME ResInv, NEW c \in Calls, Put(c), call[c].at \in {"life", "signed"}, UNCHANGED <<time, removed>>,
         entry' \in [Calls -> Entry], \A d \in Calls : entry'[d].checked = entry[d].checked
  PROVE  ResInv'
<1>1. /\ call' \in [Calls -> CallRow] /\ call'[c].at = "over" /\ call'[c].result = call[c].result
      /\ \A d \in Calls : d # c => call'[d] = call[d]
      /\ CallFits(c)'
  BY CallEnds DEF Put, ResInv
<1>2. CallsGoOn
  BY <1>1 DEF CallsGoOn, Made
<1>3. call[c].held \in Calls /\ Known(call[c].held, call[c].result)
  BY DEF ResInv, CallFits, Known
<1>4. /\ kept' \in [Results -> Calls \cup {NoEntry}]
      /\ \A x \in Results : kept'[x] \in {kept[x], NoEntry} \/ (x = call[c].result /\ kept'[x] = call[c].held)
  <2> DEFINE x == call[c].result
             used == Append(SelectSeq(recent, LAMBDA y : y # x), x)
             gone == IF Len(used) > CacheSize THEN {used[1]} ELSE {}
  <2>1. kept' = [y \in Results |-> IF y \in gone THEN NoEntry ELSE IF y = x THEN call[c].held ELSE kept[y]]
    BY DEF Put
  <2> HIDE DEF gone, used, x
  <2>2. kept \in [Results -> Calls \cup {NoEntry}]
    BY DEF ResInv, ResTypeOK
  <2> QED
    BY <1>3, <2>1, <2>2 DEF x
<1>5. ResTypeOK'
  BY <1>1, <1>4 DEF ResInv, ResTypeOK
<1> QED
  BY <1>1, <1>2, <1>3, <1>4, <1>5, CallMoves

LEMMA ReuseKeeps ==
  ASSUME ResInv, NEW c \in Calls, Reuse(c)
  PROVE  ResInv'
BY PutKeeps DEF Reuse, ResInv, ResTypeOK

LEMMA SignUrlsKeeps ==
  ASSUME ResInv, NEW c \in Calls, SignUrls(c)
  PROVE  ResInv'
<1> USE DEF ResInv, ResTypeOK
<1> DEFINE h == call[c].held
           new == [entry[h] EXCEPT !.urls = time]
           row == [call[c] EXCEPT !.at = "signed"]
<1>1. /\ call[c].at = "life" /\ UNCHANGED <<time, removed, kept, recent>>
      /\ call' = [call EXCEPT ![c] = row] /\ entry' = [entry EXCEPT ![h] = new]
  BY DEF SignUrls
<1>2. call[c] \in CallRow /\ time \in Nat /\ h \in Calls /\ entry[h] \in Entry /\ CallFits(c)
  BY <1>1, ResTypes DEF CallFits
<1>3. new \in Entry /\ new.checked = entry[h].checked
  BY <1>2 DEF Entry
<1>4. /\ row \in CallRow /\ row.at = "signed" /\ row.held = h /\ row.since = call[c].since
      /\ row.result = call[c].result
  BY <1>2 DEF CallRow, Ats
<1> HIDE DEF new, row, h
<1>5. /\ call' \in [Calls -> CallRow] /\ call'[c] = row
      /\ \A d \in Calls : d # c => call'[d] = call[d]
  BY <1>1, <1>4
<1>6. entry' \in [Calls -> Entry] /\ \A d \in Calls : entry'[d].checked = entry[d].checked
  BY <1>1, <1>2, <1>3
<1>7. CallsGoOn
  BY <1>1, <1>4, <1>5, <1>6 DEF CallsGoOn, Made
<1>8. CallFits(c)'
  BY <1>1, <1>2, <1>4, <1>5, <1>6 DEF CallFits, Known, Made, h
<1> QED
  BY <1>1, <1>5, <1>6, <1>7, <1>8, CallMoves

LEMMA NoteSignedKeeps ==
  ASSUME ResInv, NEW c \in Calls, NoteSigned(c)
  PROVE  ResInv'
<1> USE DEF ResInv, ResTypeOK
<1> DEFINE h == call[c].held
           new == [entry[h] EXCEPT !.signed = time]
<1>1. call[c].at = "signed" /\ UNCHANGED <<time, removed>> /\ Put(c) /\ entry' = [entry EXCEPT ![h] = new]
  BY DEF NoteSigned
<1>2. time \in Nat /\ h \in Calls /\ entry[h] \in Entry
  BY <1>1, ResTypes DEF CallFits
<1>3. new \in Entry /\ new.checked = entry[h].checked
  BY <1>2 DEF Entry
<1> HIDE DEF new, h
<1>4. entry' \in [Calls -> Entry] /\ \A d \in Calls : entry'[d].checked = entry[d].checked
  BY <1>1, <1>2, <1>3
<1> QED
  BY <1>1, <1>4, PutKeeps

LEMMA LeaveStoreKeeps ==
  ASSUME ResInv, NEW x \in Results, LeaveStore(x)
  PROVE  ResInv'
<1> USE DEF ResInv, ResTypeOK
<1>1. removed' = [removed EXCEPT ![x] = time] /\ UNCHANGED <<time, entry, kept, recent, call>> /\ There(x)
  BY DEF LeaveStore
<1>2. time \in Nat /\ removed' \in [Results -> Nat]
      /\ \A y \in Results : removed'[y] = removed[y] \/ removed'[y] = time
  BY <1>1
<1>3. ASSUME NEW e, NEW y \in Results, Known(e, y)
      PROVE  entry[e].checked <= removed'[y] + 1
  BY <1>2, <1>3 DEF Known, Entry
<1>4. ASSUME NEW c \in Calls
      PROVE  CallFits(c)'
  <2>1. CallFits(c) /\ call[c].since \in Nat /\ call[c].result \in Results
    BY ResTypes
  <2>2. call[c].at \in {"ask", "copy", "life", "signed"} =>
          (call[c].held # NoEntry => Known(call[c].held, call[c].result)')
    BY <1>1, <1>3, <2>1 DEF CallFits, Known, Made
  <2>3. call[c].at = "copy" => call[c].since <= removed'[call[c].result]
    BY <1>2, <2>1 DEF CallFits
  <2> QED
    BY <1>1, <2>1, <2>2, <2>3 DEF CallFits
<1>5. \A y \in Results : kept[y] # NoEntry => Known(kept[y], y)'
  BY <1>1, <1>3 DEF Known, Made
<1> QED
  BY <1>1, <1>2, <1>4, <1>5 DEF Never

LEMMA PassKeeps ==
  ASSUME ResInv, Pass
  PROVE  ResInv'
<1> USE DEF ResInv, ResTypeOK
<1>1. /\ time' = time + 1 /\ time < MaxTime /\ UNCHANGED <<entry, kept, recent, call>>
      /\ \A c \in Calls : call[c].at \in {"idle", "over"} \/ call[c].since = time
      /\ removed' = [x \in Results |-> IF removed[x] = Never /\ time' >= ResultLife THEN time' ELSE removed[x]]
  BY DEF Pass
<1>2. /\ time \in Nat /\ time' \in 0..MaxTime /\ removed' \in [Results -> Nat]
      /\ \A y \in Results : removed'[y] = removed[y] \/ removed'[y] = time'
  BY <1>1, ResultSourcesAssumption
<1>3. ASSUME NEW e, NEW y \in Results, Known(e, y)
      PROVE  entry[e].checked <= removed'[y] + 1 /\ entry[e].checked <= time'
  BY <1>1, <1>2, <1>3 DEF Known, Entry
<1>4. ASSUME NEW c \in Calls
      PROVE  CallFits(c)'
  <2>1. CallFits(c) /\ call[c] \in CallRow /\ (call[c].at \in {"idle", "over"} \/ call[c].since = time)
    BY <1>1
  <2> QED
    <3>1. call[c].since \in Nat /\ call[c].result \in Results /\ entry' = entry /\ call' = call
      BY <1>1, ResTypes
    <3>2. call[c].at \in {"ask", "copy", "life", "signed"} =>
            (call[c].held # NoEntry => Known(call[c].held, call[c].result)')
      BY <1>1, <1>2, <1>3, <2>1, <3>1 DEF CallFits, Known, Made
    <3>3. call[c].at = "copy" => call[c].since <= removed'[call[c].result]
      BY <1>1, <1>2, <2>1, <3>1 DEF CallFits
    <3> QED
      BY <1>1, <1>2, <2>1, <3>1, <3>2, <3>3 DEF CallFits
<1>5. \A y \in Results : kept[y] # NoEntry => Known(kept[y], y)'
  BY <1>1, <1>3 DEF Known, Made
<1>6. \A y \in Results : (removed[y] = Never \/ removed[y] <= time)'
  BY <1>1, <1>2 DEF Never
<1> QED
  BY <1>1, <1>2, <1>4, <1>5, <1>6

LEMMA ResInvInit ==
  ASSUME ResInit
  PROVE  ResInv
<1>1. Never \in Nat /\ 0 \in 0..MaxTime
  BY Ticks
<1>2. NoUrls \in Entry
  BY <1>1 DEF NoUrls, Entry
<1>3. call \in [Calls -> CallRow] /\ \A c \in Calls : call[c].at \in {"idle", "over"}
  <2> DEFINE first == [result : Results, at : {"idle", "over"}, held : {NoEntry}, urls : {Never}, since : {0},
                       answer : {"none"}]
  <2>1. ASSUME NEW r \in first
        PROVE  r \in CallRow /\ r.at \in {"idle", "over"}
    <3>1. /\ r = [result |-> r.result, at |-> r.at, held |-> r.held, urls |-> r.urls, since |-> r.since,
                  answer |-> r.answer]
          /\ r.result \in Results /\ r.at \in {"idle", "over"} /\ r.held = NoEntry /\ r.urls = Never
          /\ r.since = 0 /\ r.answer = "none"
      BY <2>1
    <3>2. r.held \in Calls \cup {NoEntry} /\ r.urls \in Nat /\ r.since \in Nat /\ r.at \in Ats
      BY <1>1, <3>1 DEF Ats
    <3> QED
      BY <3>1, <3>2 DEF CallRow
  <2> HIDE DEF first
  <2>2. call \in [Calls -> first]
    BY DEF ResInit, first
  <2> QED
    BY <2>1, <2>2
<1>4. ResTypeOK
  BY <1>1, <1>2, <1>3 DEF ResInit, ResTypeOK
<1> QED
  BY <1>3, <1>4 DEF ResInit, ResInv, CallFits

LEMMA ResInvNext ==
  ASSUME ResInv, [ProcessNext]_ProcessVars
  PROVE  ResInv'
<1>1. CASE UNCHANGED resVars
  BY <1>1 DEF resVars, ResInv, ResTypeOK, CallFits, Known, Made, Never
<1>2. ASSUME NEW c \in Calls, UrlsStep(c)
      PROVE  ResInv'
  BY <1>2, LookKeeps, AskStoreKeeps, CopyKeeps, TooLateKeeps, ReuseKeeps, SignUrlsKeeps, NoteSignedKeeps DEF UrlsStep
<1> QED
  BY <1>1, <1>2, LeaveStoreKeeps, PassKeeps DEF ProcessNext, ResNext, ProcessVars

\* What a call serves it was told of one tick and the life of a HEAD ago at most.
LEMMA ServedIsThere ==
  ASSUME ResInv, NEW c \in Calls, Served(c)
  PROVE  time <= removed[call[c].result] + HeadKept + 1
<1>1. call[c].at \in {"life", "signed"} /\ call[c] \in CallRow /\ CallFits(c)
  BY DEF Served, Reuse, NoteSigned, ResInv, ResTypeOK
<1> DEFINE h == call[c].held  x == call[c].result
<1>2. /\ time <= call[c].since + 1 /\ call[c].since < entry[h].checked + HeadKept
      /\ h \in Calls /\ entry[h].checked <= removed[x] + 1
  BY <1>1 DEF CallFits, Known
<1>3. /\ time \in Nat /\ call[c].since \in Nat /\ entry[h].checked \in Nat /\ removed[x] \in Nat /\ HeadKept \in Nat
  BY <1>2, Ticks, ResTypes DEF ResInv
<1> QED
  BY <1>2, <1>3

\* Whichever threads wrote which entries into the cache in whatever order: a result is served only while the
\* store has it, but for the time one HEAD is believed and the length of the call.
THEOREM ServedIsInStore == ProcessSpec => ServedWhileThere
<1>1. ProcessInit => ResInv
  BY ResInvInit DEF ProcessInit
<1>2. ResInv /\ [ProcessNext]_ProcessVars => ResInv'
  BY ResInvNext
<1>3. ResInv => [\A c \in Calls : Served(c) => time <= removed[call[c].result] + HeadKept + 1]_resVars
  BY ServedIsThere
<1> QED
  BY <1>1, <1>2, <1>3, PTL DEF ProcessSpec, ServedWhileThere
=============================================================================
