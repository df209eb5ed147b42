-------------------------- MODULE QueueActorsProofs --------------------------
(***************************************************************************)
(* Proofs about those who work on the queue's tables: the supervisors, for *)
(* any number of slots, runs and orders, and the transactions taken apart  *)
(* into statements, for any number of sessions.                            *)
(*                                                                         *)
(* A supervisor keeps to what it knows of its run.  A transaction changes  *)
(* the tables as one step of JobCleanup does: its inductive invariant says *)
(* what a session may rely on between two of its statements.  What it has  *)
(* read of a row it locked is still so, and what it has only read can have *)
(* changed in a few ways, each of which its next statement looks for.      *)
(***************************************************************************)
EXTENDS JobWorker, QueueTx, JobCleanupProofs

USE DEF Active, Over, Rows, NoTerm, NoResult, NoKey

-----------------------------------------------------------------------------
(* What a step that picks nothing up leaves of a run, and of a slot *)

RunGoesOn(r) ==
  \/ run[r].st # "running" /\ run'[r] = NoRunRow("gone")
  \/ /\ run'[r].attempt = run[r].attempt
     /\ Dismissals(r) \subseteq Dismissals(r)'
     /\ run[r].st = "gone" => run'[r].st = "gone"
     /\ run'[r].st = "none" => run[r].st = "none"
     /\ run'[r].st = "running" => run[r].st = "running"
     /\ run'[r].st = "running" /\ run'[r].cancel => run[r].cancel \/ run[r].attempt < Allowed(r)'
     /\ run'[r].st = "accepted" => run[r].st = "accepted" \/ run[r].attempt < Allowed(r)'

SlotGoesOn(w) ==
  \/ slot'[w] = slot[w] \/ slot'[w] = Idle
  \/ /\ slot[w].pc # "idle" /\ slot'[w].pc # "idle"
     /\ slot'[w].run = slot[w].run /\ slot'[w].attempt = slot[w].attempt
     /\ slot'[w].told => slot[w].told \/ (Holds(w) /\ run[slot[w].run].cancel)
     /\ slot'[w].end = "cancelled" => slot'[w].told

GoesOn == /\ \A r \in Runs : RunGoesOn(r)
          /\ \A w \in Slots : SlotGoesOn(w)

\* A dismissal that stays recorded allows no fewer attempts, a new one more.
LEMMA AllowedGrows ==
  ASSUME NEW r, Dismissals(r) \subseteq Dismissals(r)'
  PROVE  /\ Allowed(r) \in Nat /\ Allowed(r)' \in Nat /\ Allowed(r) <= Allowed(r)'
         /\ MaxAttempts <= Allowed(r)' /\ 1 <= Allowed(r)'
         /\ Dismissals(r) # Dismissals(r)' => Allowed(r) < Allowed(r)'
<1>1. IsFiniteSet(Dismissals(r)) /\ IsFiniteSet(Dismissals(r)')
  BY OrdersAssumption, FS_Subset DEF Dismissals, On
<1> DEFINE here == Dismissals(r)  then == Dismissals(r)'
<1>2. Cardinality(here) \in Nat /\ Cardinality(then) \in Nat /\ Cardinality(here) <= Cardinality(then)
      /\ (here # then => Cardinality(here) < Cardinality(then))
  <2> HIDE DEF here, then
  <2>1. here \subseteq then /\ IsFiniteSet(here) /\ IsFiniteSet(then)
    BY <1>1 DEF here, then
  <2> QED
    BY <2>1, FS_Subset, FS_CardinalityType
<1>3. Allowed(r) = MaxAttempts + Cardinality(here) /\ Allowed(r)' = MaxAttempts + Cardinality(then)
  BY DEF Allowed
<1> HIDE DEF here, then
<1>4. (Dismissals(r) # Dismissals(r)') = (here # then)
  BY DEF here, then
<1> QED
  BY <1>2, <1>3, <1>4, LimitsAssumption

\* The counts of the attempts are kept by every step that picks nothing up.
LEMMA CountsAreKept ==
  ASSUME AttemptsInOrder, QueueInv', WorkerTypeOK', GoesOn
  PROVE  AttemptsInOrder'
<1> USE DEF AttemptsInOrder
<1>0. /\ \A r \in Runs : run[r].attempt \in Nat /\ run'[r].attempt \in Nat
      /\ \A w \in Slots : slot[w].attempt \in Nat
  BY DEF QueueInv, TypeOK, RunRow, WorkerTypeOK, SlotState
<1>1. NoRunRow("gone").st = "gone" /\ NoRunRow("gone").attempt = 0
  BY DEF NoRunRow
<1>2. SlotsHoldAttempts'
  <2>1. ASSUME NEW w \in Slots
        PROVE  /\ IF slot'[w].pc = "idle" THEN slot'[w] = Idle ELSE slot'[w].run \in Runs /\ slot'[w].attempt >= 1
               /\ slot'[w].end = "cancelled" => slot'[w].told
    <3>1. /\ IF slot[w].pc = "idle" THEN slot[w] = Idle ELSE slot[w].run \in Runs /\ slot[w].attempt >= 1
          /\ slot[w].end = "cancelled" => slot[w].told
      BY DEF SlotsHoldAttempts
    <3>2. SlotGoesOn(w) /\ Idle.end = "none" /\ Idle.pc = "idle"
      BY DEF GoesOn, Idle
    <3> QED
      BY <3>1, <3>2 DEF SlotGoesOn
  <2>2. \A r \in Runs : run'[r].st = "none" => run'[r].attempt = 0
    BY <1>1 DEF SlotsHoldAttempts, GoesOn, RunGoesOn
  <2> QED
    BY <2>1, <2>2 DEF SlotsHoldAttempts
<1>3. AttemptsAreOwned'
  <2> SUFFICES ASSUME NEW w \in Slots, slot'[w].pc # "idle"
               PROVE  /\ slot'[w].attempt \in Attempts(slot[w].run)' \/ run'[slot'[w].run].st = "gone"
                      /\ \A v \in Slots \ {w} : Upload(v)' # Upload(w)'
    BY DEF AttemptsAreOwned
  <2>1. slot[w].pc # "idle" /\ slot'[w].run = slot[w].run /\ slot'[w].attempt = slot[w].attempt
    BY DEF GoesOn, SlotGoesOn, Idle
  <2>2. slot[w].run \in Runs /\ slot[w].attempt >= 1
    BY <2>1 DEF SlotsHoldAttempts
  <2>3. slot[w].attempt \in Attempts(slot[w].run) \/ run[slot[w].run].st = "gone"
    BY <2>1 DEF AttemptsAreOwned
  <2>4. slot'[w].attempt \in Attempts(slot[w].run)' \/ run'[slot'[w].run].st = "gone"
    <3>1. RunGoesOn(slot[w].run)
      BY <2>2 DEF GoesOn
    <3>2. Attempts(slot[w].run)' = 1 .. run'[slot[w].run].attempt /\ Attempts(slot[w].run) = 1 .. run[slot[w].run].attempt
      BY <2>1 DEF Attempts
    <3> QED
      BY <1>0, <1>1, <2>1, <2>2, <2>3, <3>1, <3>2 DEF RunGoesOn
  <2>5. ASSUME NEW v \in Slots \ {w} PROVE Upload(v)' # Upload(w)'
    <3>1. CASE slot'[v].pc = "idle"
      <4>1. slot'[v].attempt = 0
        BY <1>2, <3>1 DEF SlotsHoldAttempts, Idle
      <4> QED
        BY <1>0, <2>1, <2>2, <4>1 DEF Upload
    <3>2. CASE slot'[v].pc # "idle"
      <4>1. slot'[v].run = slot[v].run /\ slot'[v].attempt = slot[v].attempt
        BY <3>2 DEF GoesOn, SlotGoesOn, Idle
      <4> QED
        BY <2>1, <4>1 DEF Upload, AttemptsAreOwned
    <3> QED
      BY <3>1, <3>2
  <2> QED
    BY <2>4, <2>5
<1>4. FailuresAreBounded'
  <2>1. ASSUME NEW r \in Runs
        PROVE  /\ run'[r].attempt <= Allowed(r)'
               /\ run'[r].st = "accepted" \/ (run'[r].st = "running" /\ run'[r].cancel) => run'[r].attempt < Allowed(r)'
    <3>1. CASE run'[r] = NoRunRow("gone")
      <4>1. Allowed(r)' \in Nat
        <5>1. IsFiniteSet(Dismissals(r)')
          BY OrdersAssumption, FS_Subset DEF Dismissals, On
        <5> QED
          BY <5>1, FS_CardinalityType, LimitsAssumption DEF Allowed
      <4> QED
        BY <1>1, <3>1, <4>1
    <3>2. CASE run'[r] # NoRunRow("gone")
      <4>1. /\ run'[r].attempt = run[r].attempt
            /\ run'[r].st = "running" => run[r].st = "running"
            /\ run'[r].st = "running" /\ run'[r].cancel => run[r].cancel \/ run[r].attempt < Allowed(r)'
            /\ run'[r].st = "accepted" => run[r].st = "accepted" \/ run[r].attempt < Allowed(r)'
            /\ Dismissals(r) \subseteq Dismissals(r)'
        BY <3>2 DEF GoesOn, RunGoesOn
      <4>2. Allowed(r) \in Nat /\ Allowed(r)' \in Nat /\ Allowed(r) <= Allowed(r)'
        BY <4>1, AllowedGrows
      <4>3. /\ run[r].attempt <= Allowed(r)
            /\ run[r].st = "accepted" \/ (run[r].st = "running" /\ run[r].cancel) => run[r].attempt < Allowed(r)
        BY DEF FailuresAreBounded
      <4> HIDE DEF AttemptsInOrder
      <4> QED
        BY <1>0, <4>1, <4>2, <4>3
    <3> QED
      BY <3>1, <3>2
  <2>2. ASSUME NEW w \in Slots, slot'[w].pc # "idle", slot'[w].told, Holds(w)'
        PROVE  slot'[w].attempt < Allowed(slot[w].run)'
    <3>1. /\ slot[w].pc # "idle" /\ slot'[w].run = slot[w].run /\ slot'[w].attempt = slot[w].attempt
          /\ slot[w].told \/ (Holds(w) /\ run[slot[w].run].cancel)
      BY <2>2 DEF GoesOn, SlotGoesOn, Idle
    <3>p. PICK r \in Runs : r = slot[w].run
      BY <3>1 DEF SlotsHoldAttempts
    <3>2. run'[r].st = "running" /\ run'[r].attempt = slot[w].attempt
      BY <2>2, <3>1, <3>p DEF Holds, Owns
    <3>g. RunGoesOn(r)
      BY <3>2 DEF GoesOn
    <3>3. run[r].st = "running" /\ run[r].attempt = slot[w].attempt /\ Dismissals(r) \subseteq Dismissals(r)'
      BY <1>1, <3>2, <3>g DEF RunGoesOn
    <3>4. slot[w].attempt < Allowed(r)
      BY <3>1, <3>3, <3>p DEF FailuresAreBounded, Holds, Owns
    <3>5. Allowed(r) \in Nat /\ Allowed(r)' \in Nat /\ Allowed(r) <= Allowed(r)'
      BY <3>3, AllowedGrows
    <3>6. Allowed(slot[w].run)' = Allowed(r)'
      BY <3>1, <3>p DEF Allowed, Dismissals, On
    <3> QED
      BY <1>0, <3>1, <3>4, <3>5, <3>6, <3>p
  <2> QED
    BY <2>1, <2>2 DEF FailuresAreBounded
<1> QED
  BY <1>2, <1>3, <1>4

-----------------------------------------------------------------------------
(* The runs, call by call *)

LEMMA StillGoesOn ==
  ASSUME UNCHANGED <<run, job>>, NEW r \in Runs
  PROVE  RunGoesOn(r)
BY DEF RunGoesOn, Dismissals, On

LEMMA OneRunGoesOn ==
  ASSUME NEW q \in Runs, job' = job, \A r \in Runs \ {q} : run'[r] = run[r],
         run[q].st \in Active, run'[q].st \in Rows, run'[q].attempt = run[q].attempt,
         run'[q].st = "running" => run[q].st = "running" /\ (run'[q].cancel => run[q].cancel),
         run'[q].st = "accepted" => run[q].st = "accepted" \/ run[q].attempt < Allowed(q),
         NEW r \in Runs
  PROVE  RunGoesOn(r)
<1>1. Dismissals(r)' = Dismissals(r) /\ Allowed(r)' = Allowed(r)
  BY DEF Dismissals, Allowed, On
<1>2. CASE r = q
  BY <1>1, <1>2 DEF RunGoesOn
<1>3. CASE r # q
  BY <1>1, <1>3 DEF RunGoesOn
<1> QED
  BY <1>2, <1>3

\* What a worker or the clock does to a run, and to no other: only a failure within the bound,
\* or a dismissal, gives it back to the queue.
WorkCall(q, a) ==
  \/ Heartbeat(q, a) \/ FinishSuccessful(q, a) \/ LeaseRunsOut(q) \/ BackoffEnds(q)
  \/ \E retryable, rested \in BOOLEAN : EndAttempt(q, a, retryable, rested)
  \/ FinishCancelled(q, a) /\ (Wanted(q) => a < Allowed(q))

LEMMA WorkGoesOn ==
  ASSUME AttemptsInOrder, NEW q \in Runs, NEW a \in Nat, WorkCall(q, a), NEW r \in Runs
  PROVE  RunGoesOn(r)
<1>0. QueueInv /\ run[q] \in RunRow
  BY DEF AttemptsInOrder, QueueInv, TypeOK
<1>1. CASE Heartbeat(q, a)
  <2> DEFINE y == [run[q] EXCEPT !.lease = TRUE]
  <2>1. run' = [run EXCEPT ![q] = y] /\ run'[q] = y /\ (\A i \in Runs \ {q} : run'[i] = run[i]) /\ job' = job /\ run[q].st = "running"
    BY <1>0, <1>1 DEF Heartbeat, Owns, QueueInv, TypeOK
  <2>2. y.st = run[q].st /\ y.attempt = run[q].attempt /\ y.cancel = run[q].cancel
    BY <1>0 DEF RunRow
  <2> QED
    BY <1>0, <2>1, <2>2, OneRunGoesOn
<1>2. CASE FinishSuccessful(q, a)
  <2> DEFINE y == [run[q] EXCEPT !.st = "successful", !.result = a, !.lease = FALSE, !.cancel = FALSE,
                                 !.expires = now + ResultTTL]
  <2>1. run' = [run EXCEPT ![q] = y] /\ run'[q] = y /\ (\A i \in Runs \ {q} : run'[i] = run[i]) /\ job' = job /\ run[q].st = "running"
    BY <1>0, <1>2 DEF FinishSuccessful, Owns, QueueInv, TypeOK
  <2>2. y.st = "successful" /\ y.attempt = run[q].attempt
    BY <1>0 DEF RunRow
  <2> QED
    BY <1>0, <2>1, <2>2, OneRunGoesOn
<1>3. CASE LeaseRunsOut(q)
  <2> DEFINE y == [run[q] EXCEPT !.lease = FALSE]
  <2>1. run' = [run EXCEPT ![q] = y] /\ run'[q] = y /\ (\A i \in Runs \ {q} : run'[i] = run[i]) /\ job' = job /\ run[q].st = "running"
    BY <1>0, <1>3 DEF LeaseRunsOut, QueueInv, TypeOK
  <2>2. y.st = run[q].st /\ y.attempt = run[q].attempt /\ y.cancel = run[q].cancel
    BY <1>0 DEF RunRow
  <2> QED
    BY <1>0, <2>1, <2>2, OneRunGoesOn
<1>4. CASE BackoffEnds(q)
  <2> DEFINE y == [run[q] EXCEPT !.ready = TRUE]
  <2>1. run' = [run EXCEPT ![q] = y] /\ run'[q] = y /\ (\A i \in Runs \ {q} : run'[i] = run[i]) /\ job' = job /\ run[q].st = "accepted"
    BY <1>0, <1>4 DEF BackoffEnds, QueueInv, TypeOK
  <2>2. y.st = run[q].st /\ y.attempt = run[q].attempt /\ y.cancel = run[q].cancel
    BY <1>0 DEF RunRow
  <2> QED
    BY <1>0, <2>1, <2>2, OneRunGoesOn
<1>d. ASSUME run[q].st = "running", job' = job, DismissRun(q) PROVE RunGoesOn(r)
  <2> DEFINE y == [run[q] EXCEPT !.st = "dismissed", !.lease = FALSE, !.cancel = FALSE]
  <2>1. run' = [run EXCEPT ![q] = y] /\ run'[q] = y /\ (\A i \in Runs \ {q} : run'[i] = run[i])
    BY <1>0, <1>d DEF DismissRun, QueueInv, TypeOK
  <2>2. y.st = "dismissed" /\ y.attempt = run[q].attempt
    BY <1>0 DEF RunRow
  <2> QED
    BY <1>0, <1>d, <2>1, <2>2, OneRunGoesOn
<1>f. ASSUME run[q].st = "running", job' = job, FailRun(q) PROVE RunGoesOn(r)
  <2> DEFINE y == [run[q] EXCEPT !.st = "failed", !.lease = FALSE, !.cancel = FALSE, !.expires = now + ResultTTL]
  <2>1. run' = [run EXCEPT ![q] = y] /\ run'[q] = y /\ (\A i \in Runs \ {q} : run'[i] = run[i])
    BY <1>0, <1>f DEF FailRun, QueueInv, TypeOK
  <2>2. y.st = "failed" /\ y.attempt = run[q].attempt
    BY <1>0 DEF RunRow
  <2> QED
    BY <1>0, <1>f, <2>1, <2>2, OneRunGoesOn
<1>r. ASSUME run[q].st = "running", job' = job, NEW rested, Requeue(q, rested), run[q].attempt < Allowed(q)
      PROVE  RunGoesOn(r)
  <2> DEFINE y == [run[q] EXCEPT !.st = "accepted", !.lease = FALSE, !.cancel = FALSE, !.ready = rested]
  <2>1. run' = [run EXCEPT ![q] = y] /\ run'[q] = y /\ (\A i \in Runs \ {q} : run'[i] = run[i])
    BY <1>0, <1>r DEF Requeue, QueueInv, TypeOK
  <2>2. y.st = "accepted" /\ y.attempt = run[q].attempt
    BY <1>0 DEF RunRow
  <2> QED
    BY <1>0, <1>r, <2>1, <2>2, OneRunGoesOn
<1>5. ASSUME NEW retryable \in BOOLEAN, NEW rested \in BOOLEAN, EndAttempt(q, a, retryable, rested) PROVE RunGoesOn(r)
  <2>1. Owns(q, a) /\ job' = job
    BY <1>5 DEF EndAttempt
  <2>2. CASE DismissRun(q)
    BY <1>d, <2>1, <2>2 DEF Owns
  <2>3. CASE FailRun(q)
    BY <1>f, <2>1, <2>3 DEF Owns
  <2>4. CASE MayRetry(a) /\ Requeue(q, rested)
    <3>1. Cardinality(Dismissals(q)) \in Nat
      BY OrdersAssumption, FS_Subset, FS_CardinalityType DEF Dismissals, On
    <3>2. run[q].attempt < Allowed(q)
      BY <2>1, <2>4, <3>1, LimitsAssumption DEF Owns, MayRetry, Allowed
    <3> QED
      BY <1>r, <2>1, <2>4, <3>2 DEF Owns
  <2> QED
    BY <1>5, <2>2, <2>3, <2>4 DEF EndAttempt
<1>6. CASE FinishCancelled(q, a) /\ (Wanted(q) => a < Allowed(q))
  BY <1>6, <1>d, <1>r DEF FinishCancelled, Owns
<1> QED
  BY <1>1, <1>2, <1>3, <1>4, <1>5, <1>6 DEF WorkCall

\* No call of the api takes a run from the worker that computes it; one that asks for its end
\* is a dismissal more.
LEMMA ApiGoesOn ==
  ASSUME AttemptsInOrder, NEW j \in Jobs, ApiCall(j), NEW r \in Runs
  PROVE  /\ RunGoesOn(r)
         /\ run[r].st = "running" => run'[r].st = "running"
<1> USE DEF AttemptsInOrder, QueueInv
<1> DEFINE Fine == RunGoesOn(r) /\ (run[r].st = "running" => run'[r].st = "running")
<1>0. run \in [Runs -> RunRow] /\ run[r] \in RunRow /\ job \in [Jobs -> JobRow]
  BY DEF TypeOK
<1>s. ASSUME \A i \in Jobs : job'[i].run = job[i].run /\ job'[i].dismissed = job[i].dismissed, run' = run PROVE Fine
  <2>1. Dismissals(r)' = Dismissals(r)
    BY <1>s DEF Dismissals, On
  <2> QED
    BY <1>s, <2>1 DEF RunGoesOn
<1>p. ASSUME NEW q \in Runs, Place(j, q), job[j].st = "none"
      PROVE  Dismissals(r)' = Dismissals(r) /\ Allowed(r)' = Allowed(r)
  <2>1. \A i \in Jobs : job'[i] = IF i = j THEN [NoJobRow("there") EXCEPT !.run = q] ELSE job[i]
    BY <1>0, <1>p DEF Place
  <2>2. [NoJobRow("there") EXCEPT !.run = q].dismissed = FALSE /\ job[j].run # r
    BY <1>p, RunsAssumption DEF NoJobRow, JobsHaveRuns
  <2>3. Dismissals(r)' = Dismissals(r)
    BY <2>1, <2>2 DEF Dismissals, On
  <2> QED
    BY <2>3 DEF Allowed
<1>1. ASSUME NEW k, Submit(j, k) PROVE Fine
  <2>0. job[j].st = "none"
    BY <1>1 DEF Submit
  <2>1. CASE SubmitHit(j, k)
    <3>1. PICK q \in Runs : Place(j, q) /\ run' = run
      BY <2>1 DEF SubmitHit
    <3> QED
      BY <1>p, <2>0, <3>1 DEF RunGoesOn
  <2>2. CASE SubmitNew(j, k)
    <3>1. PICK q \in Runs : run[q].st = "none" /\ Place(j, q) /\ run' = [run EXCEPT ![q] = NewRun(k, j)]
      BY <2>2 DEF SubmitNew
    <3>2. NewRun(k, j).st = "accepted" /\ NewRun(k, j).attempt = 0 /\ run[q].attempt = 0
      BY <3>1 DEF NewRun, NoRunRow, SlotsHoldAttempts
    <3>3. run'[r] = IF r = q THEN NewRun(k, j) ELSE run[r]
      BY <1>0, <3>1
    <3>4. Dismissals(r)' = Dismissals(r) /\ 0 < Allowed(r)'
      <4>1. Dismissals(r)' = Dismissals(r)
        BY <1>p, <2>0, <3>1
      <4>2. Allowed(r)' \in Nat /\ 1 <= Allowed(r)'
        BY <4>1, AllowedGrows
      <4> QED
        BY <4>1, <4>2
    <3>5. CASE r = q
      BY <3>1, <3>2, <3>3, <3>4, <3>5 DEF RunGoesOn
    <3>6. CASE r # q
      BY <3>3, <3>4, <3>6 DEF RunGoesOn
    <3> QED
      BY <3>5, <3>6
  <2>3. CASE SubmitAttach(j, k)
    <3>1. PICK q \in Runs : Place(j, q) /\ run' = [run EXCEPT ![q].cancel = FALSE]
      BY <2>3 DEF SubmitAttach, ActiveWith
    <3>2. /\ run'[r].st = run[r].st /\ run'[r].attempt = run[r].attempt
          /\ run'[r].cancel => run[r].cancel
      <4>1. run'[r] = IF r = q THEN [run[r] EXCEPT !.cancel = FALSE] ELSE run[r]
        BY <1>0, <3>1
      <4> QED
        BY <1>0, <4>1 DEF RunRow
    <3>3. Dismissals(r)' = Dismissals(r)
      BY <1>p, <2>0, <3>1
    <3> QED
      BY <3>2, <3>3 DEF RunGoesOn
  <2> QED
    BY <1>1, <2>1, <2>2, <2>3 DEF Submit
<1>2. ASSUME Dismiss(j), DismissFinished(j) PROVE Fine
  <2>1. \A i \in Jobs : job'[i].run = job[i].run /\ job'[i].dismissed = job[i].dismissed
    BY <1>0, <1>2 DEF DismissFinished, JobRow
  <2> QED
    BY <1>2, <1>s, <2>1 DEF DismissFinished
<1>3. ASSUME Dismiss(j), Cancel(j) PROVE Fine
  <2>p. PICK q : q = job[j].run
    OBVIOUS
  <2>0. job[j].st = "there" /\ q \in Runs
    BY <1>3, <2>p DEF Dismiss, JobsHaveRuns
  <2>1. /\ run[q].st \notin {"successful", "failed"}
        /\ job' = [job EXCEPT ![j].dismissed = TRUE]
    BY <1>3, <2>p DEF Cancel
  <2>2. \/ (\A i \in On(q) \ {j} : ~Alive(i)) /\ run[q].st = "accepted" /\ run' = [run EXCEPT ![q].st = "dismissed"]
        \/ (\A i \in On(q) \ {j} : ~Alive(i)) /\ run[q].st = "running" /\ run' = [run EXCEPT ![q].cancel = TRUE]
        \/ run' = run
    BY <1>3, <2>p DEF Cancel
  <2>3. \A i \in Jobs : job'[i].run = job[i].run /\ job'[i].dismissed = (job[i].dismissed \/ i = j)
    BY <1>0, <2>1 DEF JobRow
  <2>4. Dismissals(r) \subseteq Dismissals(r)'
    BY <2>3 DEF Dismissals, On
  <2>5. CASE run' = run
    BY <2>4, <2>5 DEF RunGoesOn
  <2>6. CASE run[q].st = "accepted" /\ run' = [run EXCEPT ![q].st = "dismissed"]
    <3>1. run'[r] = IF r = q THEN [run[r] EXCEPT !.st = "dismissed"] ELSE run[r]
      BY <1>0, <2>0, <2>6
    <3>2. [run[r] EXCEPT !.st = "dismissed"].st = "dismissed" /\ [run[r] EXCEPT !.st = "dismissed"].attempt = run[r].attempt
      BY <1>0 DEF RunRow
    <3>3. CASE r = q
      BY <2>4, <2>6, <3>1, <3>2, <3>3 DEF RunGoesOn
    <3>4. CASE r # q
      BY <2>4, <3>1, <3>4 DEF RunGoesOn
    <3> QED
      BY <3>3, <3>4
  <2>7. CASE (\A i \in On(q) \ {j} : ~Alive(i)) /\ run[q].st = "running" /\ run' = [run EXCEPT ![q].cancel = TRUE]
    <3>1. run'[r] = IF r = q THEN [run[r] EXCEPT !.cancel = TRUE] ELSE run[r]
      BY <1>0, <2>0, <2>7
    <3>2. [run[r] EXCEPT !.cancel = TRUE].st = run[r].st /\ [run[r] EXCEPT !.cancel = TRUE].attempt = run[r].attempt
      BY <1>0 DEF RunRow
    <3>3. CASE r # q
      BY <2>4, <3>1, <3>3 DEF RunGoesOn
    <3>4. CASE r = q
      <4>1. CASE job[j].dismissed
        <5>1. \A i \in On(q) : job[i].dismissed
          BY <2>1, <2>7, <4>1 DEF On, Alive, TermWithinLife
        <5>2. run[q].cancel
          BY <2>0, <2>7, <5>1 DEF WorkIsWanted, Wanted
        <5> QED
          BY <2>4, <2>7, <3>1, <3>2, <3>4, <5>2 DEF RunGoesOn
      <4>2. CASE ~job[j].dismissed
        <5>1. j \in Dismissals(r)' /\ j \notin Dismissals(r)
          BY <2>3, <2>p, <3>4, <4>2 DEF Dismissals, On
        <5>2. Allowed(r) \in Nat /\ Allowed(r)' \in Nat /\ Allowed(r) < Allowed(r)'
          BY <2>4, <5>1, AllowedGrows
        <5>3. run[r].attempt \in Nat /\ run[r].attempt <= Allowed(r)
          BY <1>0 DEF RunRow, FailuresAreBounded
        <5>4. run[r].attempt < Allowed(r)'
          BY <5>2, <5>3
        <5> QED
          BY <2>4, <2>7, <3>1, <3>2, <3>4, <5>4 DEF RunGoesOn
      <4> QED
        BY <4>1, <4>2
    <3> QED
      BY <2>7, <3>1, <3>2, <3>3, <3>4
  <2>8. run[r].st = "running" => run'[r].st = "running"
    BY <1>0, <2>0, <2>2 DEF RunRow
  <2> QED
    BY <2>2, <2>5, <2>6, <2>7, <2>8
<1>4. ASSUME Restore(j) PROVE Fine
  <2>1. \A i \in Jobs : job'[i].run = job[i].run /\ job'[i].dismissed = job[i].dismissed
    BY <1>0, <1>4 DEF Restore, JobRow
  <2> QED
    BY <1>4, <1>s, <2>1 DEF Restore
<1> QED
  BY <1>1, <1>2, <1>3, <1>4 DEF ApiCall, Dismiss

LEMMA BatchGoesOn ==
  ASSUME AttemptsInOrder, Cleanup, NEW r \in Runs
  PROVE  /\ RunGoesOn(r)
         /\ run[r].st = "running" => run'[r].st = "running"
<1>0. QueueInv
  BY DEF AttemptsInOrder
<1>1. PICK gone \in SUBSET Runs : BatchTakes(gone)
  BY <1>0, BatchEffect
<1>2. CASE r \in gone
  BY <1>1, <1>2 DEF BatchTakes, RunGoesOn
<1>3. CASE r \notin gone
  <2>1. \A j \in On(r) : job[j].dismissed => job'[j] = job[j]
    BY <1>0, <1>1, <1>3 DEF BatchTakes, QueueInv, TermWithinLife, Due, On
  <2>2. Dismissals(r) \subseteq Dismissals(r)'
    BY <2>1 DEF Dismissals, On
  <2> QED
    BY <1>1, <1>3, <2>2 DEF BatchTakes, RunGoesOn
<1> QED
  BY <1>2, <1>3

-----------------------------------------------------------------------------
(* The steps of the supervisors *)

SlotsMove == slot' \in [Slots -> SlotState] /\ \A w \in Slots : SlotGoesOn(w)

LEMMA SlotForms ==
  ASSUME AttemptsInOrder, NEW w \in Slots
  PROVE  /\ UNCHANGED slot => SlotsMove
         /\ Done(w) => SlotsMove
         /\ \A pc \in {"upload", "close", "forget"} : slot[w].pc # "idle" /\ MoveTo(w, pc) => SlotsMove
         /\ \A end \in Ends : slot[w].pc # "idle" /\ (end = "cancelled" => slot[w].told) /\ Ended(w, end) => SlotsMove
         /\ slot[w].pc = "watch" /\ Holds(w) /\ slot' = [slot EXCEPT ![w].told = @ \/ run[slot[w].run].cancel]
              => SlotsMove
<1>0. slot \in [Slots -> SlotState] /\ slot[w] \in SlotState /\ Idle \in SlotState
  BY DEF AttemptsInOrder, WorkerTypeOK, Idle, SlotState
<1>h. slot[w].pc # "idle" => slot[w].run \in Runs
  BY DEF AttemptsInOrder, SlotsHoldAttempts
<1>k. slot[w].end = "cancelled" => slot[w].told
  BY DEF AttemptsInOrder, SlotsHoldAttempts
<1>1. ASSUME UNCHANGED slot PROVE SlotsMove
  BY <1>0, <1>1 DEF SlotsMove, SlotGoesOn
<1>2. ASSUME Done(w) PROVE SlotsMove
  BY <1>0, <1>2 DEF Done, SlotsMove, SlotGoesOn
<1>3. ASSUME NEW pc \in {"upload", "close", "forget"}, slot[w].pc # "idle", MoveTo(w, pc) PROVE SlotsMove
  <2> DEFINE y == [slot[w] EXCEPT !.pc = pc]
  <2>1. slot' = [slot EXCEPT ![w] = y]
    BY <1>0, <1>3 DEF MoveTo
  <2>2. y \in SlotState
    BY <1>0 DEF SlotState
  <2>3. y.pc = pc /\ y.run = slot[w].run /\ y.attempt = slot[w].attempt /\ y.told = slot[w].told /\ y.end = slot[w].end
    BY <1>0 DEF SlotState
  <2> HIDE DEF y
  <2>4. slot' \in [Slots -> SlotState] /\ slot'[w] = y /\ \A v \in Slots \ {w} : slot'[v] = slot[v]
    BY <1>0, <2>1, <2>2
  <2> QED
    BY <1>3, <1>k, <2>3, <2>4 DEF SlotsMove, SlotGoesOn
<1>4. ASSUME NEW end \in Ends, slot[w].pc # "idle", end = "cancelled" => slot[w].told, Ended(w, end) PROVE SlotsMove
  <2> DEFINE y == [slot[w] EXCEPT !.pc = "end", !.end = end]
  <2>1. slot' = [slot EXCEPT ![w] = y]
    BY <1>0, <1>4 DEF Ended
  <2>2. y \in SlotState
    BY <1>0 DEF SlotState
  <2>3. y.pc = "end" /\ y.run = slot[w].run /\ y.attempt = slot[w].attempt /\ y.told = slot[w].told /\ y.end = end
    BY <1>0 DEF SlotState
  <2> HIDE DEF y
  <2>4. slot' \in [Slots -> SlotState] /\ slot'[w] = y /\ \A v \in Slots \ {w} : slot'[v] = slot[v]
    BY <1>0, <2>1, <2>2
  <2> QED
    BY <1>4, <2>3, <2>4 DEF SlotsMove, SlotGoesOn
<1>5. ASSUME slot[w].pc = "watch", Holds(w), slot' = [slot EXCEPT ![w].told = @ \/ run[slot[w].run].cancel]
      PROVE  SlotsMove
  <2> DEFINE y == [slot[w] EXCEPT !.told = @ \/ run[slot[w].run].cancel]
  <2>1. slot' = [slot EXCEPT ![w] = y]
    BY <1>0, <1>5
  <2>2. run[slot[w].run].cancel \in BOOLEAN
    BY <1>5, <1>h DEF AttemptsInOrder, QueueInv, TypeOK, RunRow
  <2>3. y \in SlotState
    BY <1>0, <2>2 DEF SlotState
  <2>4. /\ y.pc = "watch" /\ y.run = slot[w].run /\ y.attempt = slot[w].attempt
        /\ y.told = (slot[w].told \/ run[slot[w].run].cancel) /\ y.end = slot[w].end
    BY <1>0, <1>5 DEF SlotState
  <2> HIDE DEF y
  <2>5. slot' \in [Slots -> SlotState] /\ slot'[w] = y /\ \A v \in Slots \ {w} : slot'[v] = slot[v]
    BY <1>0, <2>1, <2>3
  <2> QED
    BY <1>5, <1>k, <2>4, <2>5 DEF SlotsMove, SlotGoesOn
<1> QED
  BY <1>1, <1>2, <1>3, <1>4, <1>5

\* A slot calls the queue in the name of its own attempt, and its own state changes with every
\* call but a heartbeat.
OwnCall(w) ==
  /\ slot[w].pc # "idle"
  /\ WorkCall(slot[w].run, slot[w].attempt)
  /\ slot'[w] # slot[w] \/ Heartbeat(slot[w].run, slot[w].attempt)

Others ==
  \/ UNCHANGED queueVars
  \/ \E q \in Runs : RequeueExpired(q) \/ LeaseRunsOut(q) \/ BackoffEnds(q)
  \/ \E j \in Jobs : ApiCall(j)
  \/ Tick
  \/ Cleanup

Kept(S) == S \subseteq Runs \X Nat

LEMMA SlotSteps ==
  ASSUME AttemptsInOrder, NEW w \in Slots,
         Beat(w) \/ Progress(w) \/ BeatWhileUploading(w) \/ SlotStep(w) \/ Crash(w) \/ AnswerLost(w)
  PROVE  SlotsMove /\ (OwnCall(w) \/ UNCHANGED queueVars) /\ Kept(objects')
<1>0. /\ slot[w] \in SlotState /\ Kept(objects)
      /\ slot[w].pc # "idle" => Upload(w) \in Runs \X Nat
  BY DEF AttemptsInOrder, WorkerTypeOK, CleanupTypeOK, SlotState, SlotsHoldAttempts, Upload, Kept
<1>d. slot \in [Slots -> SlotState] /\ Idle.pc = "idle"
  BY DEF AttemptsInOrder, WorkerTypeOK, Idle
<1>f. /\ UNCHANGED slot => SlotsMove
      /\ Done(w) => SlotsMove
      /\ \A pc \in {"upload", "close", "forget"} : slot[w].pc # "idle" /\ MoveTo(w, pc) => SlotsMove
      /\ \A end \in Ends : slot[w].pc # "idle" /\ (end = "cancelled" => slot[w].told) /\ Ended(w, end) => SlotsMove
      /\ slot[w].pc = "watch" /\ Holds(w) /\ slot' = [slot EXCEPT ![w].told = @ \/ run[slot[w].run].cancel]
           => SlotsMove
  BY SlotForms
<1>w. ASSUME Done(w), slot[w].pc # "idle" PROVE slot'[w] # slot[w]
  BY <1>d, <1>w DEF Done
<1>1. CASE Beat(w)
  BY <1>0, <1>1, <1>f DEF Beat, OwnCall, WorkCall, Heartbeat, Holds, Kept
<1>2. CASE Progress(w)
  BY <1>0, <1>2, <1>f DEF Progress, queueVars, Kept
<1>3. CASE BeatWhileUploading(w)
  BY <1>0, <1>3, <1>f DEF BeatWhileUploading, OwnCall, WorkCall, Kept
<1>4. CASE WatchEnds(w)
  BY <1>0, <1>4, <1>f DEF WatchEnds, Kept
<1>5. CASE Conclude(w)
  <2>1. Done(w) /\ slot[w].pc = "end" /\ objects' = objects
    BY <1>5 DEF Conclude
  <2>2. SlotsMove /\ slot'[w] # slot[w]
    BY <1>w, <1>f, <2>1
  <2>3. CASE EndRun(w)
    <3>1. WorkCall(slot[w].run, slot[w].attempt)
      <4>1. CASE slot[w].end = "cancelled" /\ FinishCancelled(slot[w].run, slot[w].attempt)
        <5>1. slot[w].told /\ Holds(w)
          BY <4>1 DEF AttemptsInOrder, SlotsHoldAttempts, Holds, FinishCancelled
        <5>2. slot[w].attempt < Allowed(slot[w].run)
          BY <2>1, <5>1 DEF AttemptsInOrder, FailuresAreBounded
        <5> QED
          BY <4>1, <5>2 DEF WorkCall
      <4>2. CASE Release(slot[w].run, slot[w].attempt)
        BY <4>2 DEF WorkCall, Release
      <4>3. CASE FinishFailed(slot[w].run, slot[w].attempt, slot[w].end = "retryable")
        BY <4>3 DEF WorkCall, FinishFailed
      <4> QED
        BY <2>3, <4>1, <4>2, <4>3 DEF EndRun
    <3> QED
      BY <1>0, <2>1, <2>2, <3>1 DEF OwnCall
  <2> QED
    BY <1>0, <1>5, <2>1, <2>2, <2>3 DEF Conclude
<1>6. CASE StartUpload(w)
  BY <1>0, <1>6, <1>f DEF StartUpload, Kept
<1>7. CASE Uploaded(w)
  BY <1>0, <1>7, <1>f DEF Uploaded, Kept
<1>8. CASE UploadFails(w)
  BY <1>0, <1>8, <1>f DEF UploadFails, Ends, Kept
<1>9. CASE Close(w)
  <2>1. CASE FinishSuccessful(slot[w].run, slot[w].attempt) /\ Done(w)
    BY <1>0, <1>9, <1>w, <2>1, <1>f DEF Close, OwnCall, WorkCall, Kept
  <2>2. CASE UNCHANGED queueVars /\ MoveTo(w, "forget")
    BY <1>0, <1>9, <2>2, <1>f DEF Close, Kept
  <2> QED
    BY <1>9, <2>1, <2>2 DEF Close
<1>10. CASE CloseErrs(w)
  BY <1>0, <1>10, <1>f DEF CloseErrs, Kept
<1>11. CASE Forget(w)
  BY <1>0, <1>11, <1>f DEF Forget, Kept
<1>12. CASE Lost(w) \/ Crash(w)
  BY <1>0, <1>12, <1>f DEF Lost, Crash, Kept
<1>13. CASE AnswerLost(w)
  <2>1. slot[w].pc = "close" /\ MoveTo(w, "forget") /\ objects' = objects
    BY <1>13 DEF AnswerLost
  <2>2. slot'[w] # slot[w]
    BY <1>d, <1>0, <2>1 DEF MoveTo, SlotState
  <2> QED
    BY <1>0, <1>13, <2>1, <2>2, <1>f DEF AnswerLost, OwnCall, WorkCall, Kept
<1> QED
  BY <1>1, <1>2, <1>3, <1>4, <1>5, <1>6, <1>7, <1>8, <1>9, <1>10, <1>11, <1>12, <1>13 DEF SlotStep

LEMMA WorkInv ==
  ASSUME QueueInv, NEW q \in Runs, NEW a \in Nat, WorkCall(q, a)
  PROVE  QueueInv'
<1>1. ASSUME NEW retryable \in BOOLEAN, NEW rested \in BOOLEAN, EndAttempt(q, a, retryable, rested) PROVE QueueInv'
  BY <1>1, EndAttemptInv
<1> QED
  BY <1>1, HeartbeatInv, FinishSuccessfulInv, LeaseRunsOutInv, BackoffEndsInv, FinishCancelledInv DEF WorkCall

LEMMA SweepIsWork ==
  ASSUME QueueInv, NEW q \in Runs, RequeueExpired(q) \/ LeaseRunsOut(q) \/ BackoffEnds(q)
  PROVE  run[q].attempt \in Nat /\ WorkCall(q, run[q].attempt)
BY DEF QueueInv, TypeOK, RunRow, RequeueExpired, WorkCall

LEMMA WorkerSteps ==
  ASSUME AttemptsInOrder, [WorkerNext]_workerVars
  PROVE  /\ Kept(objects') /\ Kept(unheard')
         /\ \/ \E w \in Slots : Pick(w)
            \/ SlotsMove /\ (Others \/ \E w \in Slots : OwnCall(w))
<1>0. Kept(objects) /\ Kept(unheard) /\ QueueInv
  BY DEF AttemptsInOrder, WorkerTypeOK, CleanupTypeOK, Kept
<1>1. ASSUME NEW w \in Slots, Beat(w) \/ Progress(w) \/ BeatWhileUploading(w) \/ SlotStep(w) \/ Crash(w), UNCHANGED unheard
      PROVE  Kept(objects') /\ Kept(unheard') /\ SlotsMove /\ (Others \/ \E v \in Slots : OwnCall(v))
  BY <1>0, <1>1, SlotSteps DEF Others
<1>2. ASSUME NEW w \in Slots, AnswerLost(w)
      PROVE  Kept(objects') /\ Kept(unheard') /\ SlotsMove /\ (Others \/ \E v \in Slots : OwnCall(v))
  <2>1. Upload(w) \in Runs \X Nat
    BY <1>2 DEF AnswerLost, AttemptsInOrder, SlotsHoldAttempts, WorkerTypeOK, SlotState, Upload
  <2> QED
    BY <1>0, <1>2, <2>1, SlotSteps DEF AnswerLost, Kept, Others
<1>3. ASSUME NEW w \in Slots, Pick(w), UNCHANGED unheard
      PROVE  Kept(objects') /\ Kept(unheard') /\ \E v \in Slots : Pick(v)
  BY <1>0, <1>3 DEF Pick
<1>4. ASSUME UNCHANGED <<slot, unheard>>
      PROVE  SlotsMove /\ Kept(unheard')
  <2>1. SlotsMove
    BY <1>0, <1>4 DEF SlotsMove, SlotGoesOn, AttemptsInOrder, WorkerTypeOK
  <2> QED
    BY <1>0, <1>4, <2>1
<1>5. ASSUME NEW r \in Runs, Sweep(r) \/ Expire(r) \/ Rested(r), UNCHANGED unheard
      PROVE  Kept(objects') /\ Others /\ UNCHANGED slot
  BY <1>0, <1>5 DEF Sweep, Expire, Rested, Others
<1>6. ASSUME NEW j \in Jobs, ApiCall(j), UNCHANGED objects
      PROVE  Kept(objects') /\ Others
  BY <1>0, <1>6 DEF Others
<1>7. ASSUME Tick, UNCHANGED objects PROVE Kept(objects') /\ Others
  BY <1>0, <1>7 DEF Others
<1>8. ASSUME Cleanup PROVE Kept(objects') /\ Others
  BY <1>0, <1>8, BatchEffect DEF BatchTakes, Others, Kept
<1>9. ASSUME CleanupFails PROVE Kept(objects') /\ Others
  BY <1>0, <1>9, FailedBatchEffect DEF FailureTakes, CleanupFails, Others, Kept
<1>10. ASSUME UNCHANGED workerVars PROVE Kept(objects') /\ Others /\ UNCHANGED <<slot, unheard>>
  BY <1>0, <1>10 DEF workerVars, queueVars, Others
<1> QED
  BY <1>1, <1>2, <1>3, <1>4, <1>5, <1>6, <1>7, <1>8, <1>9, <1>10 DEF WorkerNext, WorkerStep

\* A run picked up again gets a number above all that were handed out.
LEMMA PickKeeps ==
  ASSUME AttemptsInOrder, NEW w \in Slots, Pick(w), Kept(objects'), Kept(unheard')
  PROVE  AttemptsInOrder'
<1> USE DEF AttemptsInOrder
<1>1. PICK q \in Runs : Claim(q) /\ slot' = [slot EXCEPT ![w] =
         [Idle EXCEPT !.pc = "watch", !.run = q, !.attempt = run'[q].attempt]]
  BY DEF Pick
<1>2. QueueInv'
  BY <1>1, ClaimInv
<1>3. /\ run[q] \in RunRow /\ run[q].st = "accepted" /\ ~run[q].cancel
      /\ run'[q].st = "running" /\ run'[q].attempt = run[q].attempt + 1 /\ run'[q].cancel = run[q].cancel
      /\ \A r \in Runs \ {q} : run'[r] = run[r]
      /\ job' = job
  <2>1. run[q] \in RunRow /\ run[q].st = "accepted" /\ ~run[q].cancel
    BY <1>1 DEF Claim, QueueInv, TypeOK, WorkIsWanted
  <2> QED
    BY <1>1, <2>1 DEF Claim, QueueInv, TypeOK, RunRow
<1> DEFINE fresh == [Idle EXCEPT !.pc = "watch", !.run = q, !.attempt = run'[q].attempt]
<1>4. /\ fresh \in SlotState /\ fresh.pc = "watch" /\ fresh.run = q /\ fresh.attempt = run[q].attempt + 1
      /\ ~fresh.told /\ fresh.end = "none"
  <2>1. run'[q].attempt \in Nat
    BY <1>3 DEF RunRow
  <2>2. Idle \in SlotState /\ ~Idle.told /\ Idle.end = "none"
    BY DEF Idle, SlotState
  <2>3. fresh \in SlotState
    BY <2>1, <2>2 DEF SlotState
  <2> QED
    BY <1>3, <2>2, <2>3 DEF SlotState
<1>5. slot' \in [Slots -> SlotState] /\ slot'[w] = fresh /\ \A v \in Slots \ {w} : slot'[v] = slot[v]
  BY <1>1, <1>4 DEF WorkerTypeOK
<1> HIDE DEF fresh
<1>6. run[q].attempt \in Nat /\ run[q].attempt < Allowed(q)
  BY <1>3 DEF RunRow, FailuresAreBounded
<1>7. \A r \in Runs : Allowed(r)' = Allowed(r) /\ Allowed(r) \in Nat
  <2> SUFFICES ASSUME NEW r \in Runs PROVE Allowed(r)' = Allowed(r) /\ Allowed(r) \in Nat
    OBVIOUS
  <2>1. Dismissals(r)' = Dismissals(r)
    BY <1>3 DEF Dismissals, On
  <2> QED
    BY <2>1, AllowedGrows DEF Allowed
<1>8. \A v \in Slots \ {w} : slot[v].pc # "idle" /\ slot[v].run = q => slot[v].attempt \in 1 .. run[q].attempt
  BY <1>3 DEF AttemptsAreOwned, Attempts
<1>9. WorkerTypeOK'
  BY <1>2, <1>5 DEF WorkerTypeOK, CleanupTypeOK, QueueInv, Kept
<1>10. SlotsHoldAttempts'
  <2>1. \A r \in Runs : run'[r].st = "none" => run'[r].attempt = 0
    BY <1>3 DEF SlotsHoldAttempts
  <2>2. fresh.attempt >= 1
    BY <1>4, <1>6
  <2> QED
    BY <1>4, <1>5, <2>1, <2>2 DEF SlotsHoldAttempts
<1>11. AttemptsAreOwned'
  <2> SUFFICES ASSUME NEW v \in Slots, slot'[v].pc # "idle"
               PROVE  /\ slot'[v].attempt \in 1 .. run'[slot'[v].run].attempt \/ run'[slot'[v].run].st = "gone"
                      /\ \A u \in Slots \ {v} : <<slot'[u].run, slot'[u].attempt>> # <<slot'[v].run, slot'[v].attempt>>
    BY DEF AttemptsAreOwned, Attempts, Upload
  <2>1. \A u \in Slots : slot'[u].pc = "idle" => slot'[u].attempt = 0
    BY <1>10 DEF SlotsHoldAttempts, Idle
  <2>2. slot'[v].run \in Runs /\ slot'[v].attempt >= 1 /\ \A u \in Slots : slot'[u].attempt \in Nat
    BY <1>5, <1>10 DEF SlotsHoldAttempts, SlotState
  <2>3. CASE v = w
    <3>1. slot'[v].attempt \in 1 .. run'[slot'[v].run].attempt
      BY <1>3, <1>4, <1>5, <1>6, <2>3
    <3>2. ASSUME NEW u \in Slots \ {v}, slot'[u].run = slot'[v].run, slot'[u].attempt = slot'[v].attempt PROVE FALSE
      <4>1. slot'[u] = slot[u] /\ slot[u].pc # "idle" /\ slot[u].run = q
        BY <1>4, <1>5, <2>1, <2>2, <2>3, <3>2
      <4> QED
        BY <1>4, <1>5, <1>6, <1>8, <2>3, <3>2, <4>1
    <3> QED
      BY <3>1, <3>2
  <2>4. CASE v # w
    <3>1. slot'[v] = slot[v] /\ slot[v].pc # "idle"
      BY <1>5, <2>4
    <3>2. slot[v].attempt \in 1 .. run[slot[v].run].attempt \/ run[slot[v].run].st = "gone"
      BY <3>1 DEF AttemptsAreOwned, Attempts
    <3>3. slot'[v].attempt \in 1 .. run'[slot'[v].run].attempt \/ run'[slot'[v].run].st = "gone"
      BY <1>3, <1>6, <2>2, <3>1, <3>2
    <3>4. ASSUME NEW u \in Slots \ {v}, slot'[u].run = slot'[v].run, slot'[u].attempt = slot'[v].attempt PROVE FALSE
      <4>1. CASE u = w
        BY <1>4, <1>5, <1>6, <1>8, <2>4, <3>1, <3>4, <4>1
      <4>2. CASE u # w
        BY <1>5, <3>1, <3>4, <4>2 DEF AttemptsAreOwned, Upload
      <4> QED
        BY <4>1, <4>2
    <3> QED
      BY <3>3, <3>4
  <2> QED
    BY <2>3, <2>4
<1>12. FailuresAreBounded'
  <2>1. ASSUME NEW r \in Runs
        PROVE  /\ run'[r].attempt <= Allowed(r)'
               /\ run'[r].st = "accepted" \/ (run'[r].st = "running" /\ run'[r].cancel) => run'[r].attempt < Allowed(r)'
    <3>1. CASE r = q
      BY <1>3, <1>6, <1>7, <3>1
    <3>2. CASE r # q
      BY <1>3, <1>7, <3>2 DEF FailuresAreBounded
    <3> QED
      BY <3>1, <3>2
  <2>2. ASSUME NEW v \in Slots, slot'[v].pc # "idle", slot'[v].told, Holds(v)'
        PROVE  slot'[v].attempt < Allowed(slot[v].run)'
    <3>1. v # w /\ slot'[v] = slot[v]
      BY <1>4, <1>5, <2>2
    <3>2. slot[v].run # q
      BY <1>3, <1>6, <1>8, <2>2, <3>1 DEF Holds, Owns
    <3>3. PICK r \in Runs : r = slot[v].run
      BY <2>2, <3>1 DEF SlotsHoldAttempts
    <3>4. Holds(v)
      BY <1>3, <2>2, <3>1, <3>2, <3>3 DEF Holds, Owns
    <3>5. slot[v].attempt < Allowed(r)
      BY <2>2, <3>1, <3>3, <3>4 DEF FailuresAreBounded
    <3>6. Allowed(slot[v].run)' = Allowed(r)'
      BY <3>1, <3>3 DEF Allowed, Dismissals, On
    <3> QED
      BY <1>7, <3>1, <3>5, <3>6
  <2> QED
    BY <2>1, <2>2 DEF FailuresAreBounded
<1> QED
  BY <1>2, <1>9, <1>10, <1>11, <1>12

LEMMA StepInOrder ==
  ASSUME AttemptsInOrder, [WorkerNext]_workerVars
  PROVE  AttemptsInOrder'
<1>0. QueueInv /\ \A w \in Slots : slot[w].pc # "idle" => slot[w].run \in Runs /\ slot[w].attempt \in Nat
  BY DEF AttemptsInOrder, SlotsHoldAttempts, WorkerTypeOK, SlotState
<1>1. Kept(objects') /\ Kept(unheard')
  BY WorkerSteps
<1>2. ASSUME SlotsMove, QueueInv', \A r \in Runs : RunGoesOn(r) PROVE AttemptsInOrder'
  <2>1. WorkerTypeOK'
    BY <1>1, <1>2 DEF WorkerTypeOK, CleanupTypeOK, QueueInv, Kept, SlotsMove
  <2> QED
    BY <1>2, <2>1, CountsAreKept DEF GoesOn, SlotsMove
<1>3. ASSUME NEW w \in Slots, SlotsMove, OwnCall(w) PROVE AttemptsInOrder'
  BY <1>0, <1>2, <1>3, WorkInv, WorkGoesOn DEF OwnCall
<1>4. ASSUME NEW q \in Runs, SlotsMove, RequeueExpired(q) \/ LeaseRunsOut(q) \/ BackoffEnds(q) PROVE AttemptsInOrder'
  BY <1>0, <1>2, <1>4, SweepIsWork, WorkInv, WorkGoesOn
<1>5. ASSUME NEW j \in Jobs, SlotsMove, ApiCall(j) PROVE AttemptsInOrder'
  BY <1>0, <1>2, <1>5, ApiCallInv, ApiGoesOn
<1>6. ASSUME SlotsMove, UNCHANGED queueVars \/ Tick PROVE AttemptsInOrder'
  <2>1. QueueInv'
    BY <1>0, <1>6, NextInv DEF Next
  <2> QED
    BY <1>2, <1>6, <2>1, StillGoesOn DEF Tick, queueVars
<1>7. ASSUME SlotsMove, Cleanup PROVE AttemptsInOrder'
  BY <1>0, <1>2, <1>7, BatchEffect, BatchGoesOn
<1> QED
  BY <1>1, <1>3, <1>4, <1>5, <1>6, <1>7, WorkerSteps, PickKeeps DEF Others

LEMMA InitInOrder == WorkerInit => AttemptsInOrder
<1> SUFFICES ASSUME WorkerInit PROVE AttemptsInOrder
  OBVIOUS
<1>1. QueueInv
  BY InitInv DEF WorkerInit, CleanupInit
<1>2. \A r \in Runs : run[r].st = "none" /\ run[r].attempt = 0
  BY DEF WorkerInit, CleanupInit, Init, NoRunRow
<1>3. \A w \in Slots : slot[w] = Idle
  BY DEF WorkerInit
<1>4. Idle \in SlotState /\ Idle.pc = "idle" /\ Idle.end = "none"
  BY DEF Idle, SlotState
<1>5. WorkerTypeOK
  BY <1>1, <1>4 DEF WorkerInit, CleanupInit, WorkerTypeOK, CleanupTypeOK, QueueInv
<1>6. SlotsHoldAttempts /\ AttemptsAreOwned
  BY <1>2, <1>3, <1>4 DEF SlotsHoldAttempts, AttemptsAreOwned
<1>7. \A r \in Runs : Cardinality(Dismissals(r)) \in Nat
  BY OrdersAssumption, FS_Subset, FS_CardinalityType DEF Dismissals, On
<1>8. FailuresAreBounded
  BY <1>2, <1>3, <1>4, <1>7, LimitsAssumption DEF FailuresAreBounded, Allowed
<1> QED
  BY <1>1, <1>5, <1>6, <1>8 DEF AttemptsInOrder

\* No attempt of a run is held by two workers, and failures, crashes and lost leases alone
\* never take a run beyond its bound: every attempt above it was paid for by a dismissal.
THEOREM AttemptsStayInOrder == WorkerSpec => []AttemptsInOrder
BY InitInOrder, StepInOrder, PTL DEF WorkerSpec

-----------------------------------------------------------------------------
(* Runs stay with the slot whose lease holds, and with the orders that want them *)

LEMMA LeaseHolds ==
  ASSUME AttemptsInOrder, [WorkerNext]_workerVars, NEW w \in Slots, NEW r \in Runs, r = slot[w].run,
         slot[w].pc # "idle", Holds(w), run[r].lease, slot'[w] = slot[w]
  PROVE  run'[r].st = "running" /\ run'[r].attempt = slot[w].attempt
<1>0. QueueInv /\ run \in [Runs -> RunRow] /\ run[r] \in RunRow
  BY DEF AttemptsInOrder, QueueInv, TypeOK
<1>1. run[r].st = "running" /\ run[r].attempt = slot[w].attempt /\ slot[w].attempt \in Nat
  BY DEF Holds, Owns, AttemptsInOrder, WorkerTypeOK, SlotState
<1>2. ASSUME NEW v \in Slots, Pick(v) PROVE run'[r] = run[r]
  BY <1>0, <1>1, <1>2 DEF Pick, Claim
<1>3. ASSUME NEW q \in Runs, NEW a, Heartbeat(q, a) \/ LeaseRunsOut(q) \/ BackoffEnds(q)
      PROVE  run'[r].st = run[r].st /\ run'[r].attempt = run[r].attempt
  <2>1. CASE Heartbeat(q, a)
    BY <1>0, <2>1 DEF Heartbeat, RunRow
  <2>2. CASE LeaseRunsOut(q)
    BY <1>0, <2>2 DEF LeaseRunsOut, RunRow
  <2>3. CASE BackoffEnds(q)
    BY <1>0, <2>3 DEF BackoffEnds, RunRow
  <2> QED
    BY <1>3, <2>1, <2>2, <2>3
<1>4. ASSUME NEW q \in Runs \ {r}, NEW a, WorkCall(q, a) PROVE run'[r] = run[r]
  BY <1>0, <1>4 DEF WorkCall, Heartbeat, FinishSuccessful, LeaseRunsOut, BackoffEnds, EndAttempt, FinishCancelled,
     DismissRun, Requeue, FailRun
<1>5. ASSUME NEW v \in Slots, OwnCall(v)
      PROVE  run'[r].st = run[r].st /\ run'[r].attempt = run[r].attempt
  <2>1. slot[v].run \in Runs
    BY <1>5 DEF OwnCall, AttemptsInOrder, SlotsHoldAttempts
  <2>2. CASE Heartbeat(slot[v].run, slot[v].attempt)
    BY <1>3, <2>1, <2>2
  <2>3. CASE ~Heartbeat(slot[v].run, slot[v].attempt)
    <3>1. v # w
      BY <1>5, <2>3 DEF OwnCall
    <3>2. CASE slot[v].run # r
      BY <1>4, <1>5, <2>1, <3>2 DEF OwnCall
    <3>3. CASE slot[v].run = r
      <4>1. slot[v].attempt # run[r].attempt
        BY <1>1, <3>1, <3>3 DEF AttemptsInOrder, AttemptsAreOwned, Upload
      <4>2. run'[r] = run[r] \/ LeaseRunsOut(r) \/ BackoffEnds(r)
        BY <1>5, <2>3, <3>3, <4>1 DEF OwnCall, WorkCall, FinishSuccessful, EndAttempt, FinishCancelled, Owns
      <4> QED
        BY <1>3, <4>2
    <3> QED
      BY <3>2, <3>3
  <2> QED
    BY <2>2, <2>3
<1>6. ASSUME NEW q \in Runs, RequeueExpired(q)
      PROVE  run'[r] = run[r]
  <2>1. q # r
    BY <1>6 DEF RequeueExpired
  <2> QED
    BY <1>0, <1>4, <1>6, <2>1, SweepIsWork
<1>7. ASSUME RunGoesOn(r), run'[r].st = "running" PROVE run'[r].attempt = run[r].attempt
  BY <1>7 DEF RunGoesOn, NoRunRow
<1>8. ASSUME NEW j \in Jobs, ApiCall(j)
      PROVE  run'[r].st = run[r].st /\ run'[r].attempt = run[r].attempt
  BY <1>1, <1>7, <1>8, ApiGoesOn
<1>9. ASSUME Cleanup
      PROVE  run'[r].st = run[r].st /\ run'[r].attempt = run[r].attempt
  BY <1>1, <1>7, <1>9, BatchGoesOn
<1>10. ASSUME UNCHANGED queueVars \/ Tick PROVE run'[r] = run[r]
  BY <1>10 DEF queueVars, Tick
<1> QED
  BY <1>1, <1>2, <1>3, <1>5, <1>6, <1>8, <1>9, <1>10, WorkerSteps DEF Others

LEMMA CancelsSpare ==
  ASSUME AttemptsInOrder, [WorkerNext]_workerVars, NEW r \in Runs,
         run[r].st = "running", run'[r].st = "dismissed"
  PROVE  ~Wanted(r)
<1>0. QueueInv /\ run \in [Runs -> RunRow] /\ run[r] \in RunRow
  BY DEF AttemptsInOrder, QueueInv, TypeOK
<1>1. ASSUME NEW v \in Slots, Pick(v) PROVE FALSE
  BY <1>0, <1>1 DEF Pick, Claim
<1>2. ASSUME NEW q \in Runs, NEW a \in Nat, WorkCall(q, a) PROVE ~Wanted(r)
  <2>1. CASE Heartbeat(q, a)
    BY <1>0, <2>1 DEF Heartbeat, RunRow
  <2>2. CASE LeaseRunsOut(q)
    BY <1>0, <2>2 DEF LeaseRunsOut, RunRow
  <2>3. CASE BackoffEnds(q)
    BY <1>0, <2>3 DEF BackoffEnds, RunRow
  <2>4. CASE FinishSuccessful(q, a)
    BY <1>0, <2>4 DEF FinishSuccessful, RunRow
  <2>5. ASSUME NEW rested, Requeue(q, rested) PROVE FALSE
    BY <1>0, <2>5 DEF Requeue, RunRow
  <2>6. ASSUME FailRun(q) PROVE FALSE
    BY <1>0, <2>6 DEF FailRun, RunRow
  <2>7. DismissRun(q) => q = r
    BY <1>0 DEF DismissRun
  <2>8. ASSUME NEW retryable, NEW rested, EndAttempt(q, a, retryable, rested) PROVE ~Wanted(r)
    BY <2>5, <2>6, <2>7, <2>8 DEF EndAttempt
  <2>9. CASE FinishCancelled(q, a)
    BY <2>5, <2>7, <2>9 DEF FinishCancelled
  <2> QED
    BY <1>2, <2>1, <2>2, <2>3, <2>4, <2>8, <2>9 DEF WorkCall
<1>3. ASSUME NEW v \in Slots, OwnCall(v) PROVE ~Wanted(r)
  BY <1>2, <1>3 DEF OwnCall, AttemptsInOrder, SlotsHoldAttempts, WorkerTypeOK, SlotState
<1>4. ASSUME NEW q \in Runs, RequeueExpired(q) \/ LeaseRunsOut(q) \/ BackoffEnds(q) PROVE ~Wanted(r)
  BY <1>0, <1>2, <1>4, SweepIsWork
<1>5. ASSUME NEW j \in Jobs, ApiCall(j) PROVE FALSE
  BY <1>5, ApiGoesOn
<1>6. ASSUME Cleanup PROVE FALSE
  BY <1>6, BatchGoesOn
<1>7. ASSUME UNCHANGED queueVars \/ Tick PROVE FALSE
  BY <1>7 DEF queueVars, Tick
<1> QED
  BY <1>1, <1>3, <1>4, <1>5, <1>6, <1>7, WorkerSteps DEF Others

\* Nobody takes a run from the slot whose lease holds, and no cancel takes one from an order
\* that wants it, however many supervisors, late workers and clean-ups there are.
THEOREM RunsStayKept == WorkerSpec => RunsAreKept
<1>1. AttemptsInOrder /\ [WorkerNext]_workerVars =>
        [\A w \in Slots :
           LET r == slot[w].run
           IN  slot[w].pc # "idle" /\ Holds(w) /\ run[r].lease /\ slot'[w] = slot[w]
                 => run'[r].st = "running" /\ run'[r].attempt = slot[w].attempt]_workerVars
  BY LeaseHolds DEF AttemptsInOrder, SlotsHoldAttempts
<1>2. AttemptsInOrder /\ [WorkerNext]_workerVars =>
        [\A r \in Runs : run[r].st = "running" /\ run'[r].st = "dismissed" => ~Wanted(r)]_workerVars
  BY CancelsSpare
<1> QED
  BY <1>1, <1>2, AttemptsStayInOrder, PTL DEF WorkerSpec, RunsAreKept, LeaseProtects, CancelSpares

-----------------------------------------------------------------------------
(* The results *)

NoneFinishes ==
  \A r \in Runs :
    /\ run'[r].st = "successful" => run[r].st = "successful" /\ run'[r].result = run[r].result
    /\ r \in Joinable' => r \in Joinable

\* What may vanish from the store: an upload whose slot forgets it, and the result of a run
\* that is not computed and cannot be joined.
Loses ==
  \A o \in objects \ objects' :
    \/ \E w \in Slots : slot[w].pc = "forget" /\ slot'[w] = Idle /\ o = Upload(w)
    \/ \E r \in Runs : o = ResultOf(r) /\ run[r].st # "running" /\ r \notin Joinable'

Closes == \A w \in Slots : slot'[w].pc = "close" => slot[w].pc = "close" \/ Upload(w) \in objects'

LEMMA QuietStepKeeps ==
  ASSUME AttemptsInOrder, UploadsAreKept, GoesOn, NoneFinishes, Loses, Closes, unheard \subseteq unheard'
  PROVE  UploadsAreKept'
<1>1. ASSUME NEW w \in Slots, slot'[w].pc # "idle"
      PROVE  /\ slot[w].pc # "idle" /\ slot'[w].run = slot[w].run /\ slot'[w].attempt = slot[w].attempt
             /\ slot[w].run \in Runs /\ slot'[w] # Idle /\ Upload(w)' = Upload(w)
  <2>1. /\ slot[w].pc # "idle" /\ slot'[w].run = slot[w].run /\ slot'[w].attempt = slot[w].attempt /\ slot'[w] # Idle
    BY <1>1 DEF GoesOn, SlotGoesOn, Idle
  <2> QED
    BY <2>1 DEF AttemptsInOrder, SlotsHoldAttempts, Upload
<1>2. ASSUME NEW w \in Slots, slot'[w].pc = "close", Holds(w)' PROVE Upload(w)' \in objects'
  <2>1. CASE slot[w].pc # "close"
    BY <1>1, <1>2, <2>1 DEF Closes
  <2>2. CASE slot[w].pc = "close"
    <3>p. PICK r \in Runs : r = slot[w].run
      BY <1>1, <1>2
    <3>1. run'[r].st = "running" /\ run'[r].attempt = slot[w].attempt
      BY <1>1, <1>2, <3>p DEF Holds, Owns
    <3>2. run[r].st = "running" /\ run[r].attempt = slot[w].attempt
      BY <3>1 DEF GoesOn, RunGoesOn, NoRunRow
    <3>3. Upload(w) \in objects
      BY <2>2, <3>2, <3>p DEF UploadsAreKept, Holds, Owns
    <3>4. \A v \in Slots : slot'[v] = Idle => Upload(v) # Upload(w)
      BY <1>1, <1>2, <2>2 DEF AttemptsInOrder, AttemptsAreOwned
    <3>5. \A q \in Runs : run[q].st # "running" => ResultOf(q) # Upload(w)
      BY <3>2, <3>p DEF ResultOf, Upload
    <3>6. Upload(w) \in objects'
      BY <3>3, <3>4, <3>5 DEF Loses
    <3> QED
      BY <1>1, <1>2, <3>6
  <2> QED
    BY <2>1, <2>2
<1>3. ASSUME NEW w \in Slots, slot'[w].pc # "idle", run'[slot'[w].run].st = "successful",
             run'[slot'[w].run].result = slot'[w].attempt
      PROVE  Upload(w)' \in unheard'
  BY <1>1, <1>3 DEF UploadsAreKept, NoneFinishes
<1>4. ASSUME NEW r \in Joinable' PROVE ResultOf(r)' \in objects' \cup unheard'
  <2>1. r \in Runs /\ r \in Joinable /\ run[r].st = "successful" /\ run'[r].result = run[r].result
    BY DEF NoneFinishes, Joinable
  <2>2. ResultOf(r) \in objects \cup unheard /\ ResultOf(r)' = ResultOf(r)
    BY <2>1 DEF UploadsAreKept, ResultOf
  <2>3. ASSUME NEW w \in Slots, slot[w].pc = "forget", ResultOf(r) = Upload(w) PROVE ResultOf(r) \in unheard
    BY <2>1, <2>3 DEF UploadsAreKept, ResultOf, Upload
  <2>4. \A q \in Runs : q \notin Joinable' => ResultOf(q) # ResultOf(r)
    BY <1>4 DEF ResultOf
  <2> QED
    BY <2>2, <2>3, <2>4 DEF Loses
<1> QED
  BY <1>2, <1>3, <1>4 DEF UploadsAreKept

\* A closing that succeeds points at what its slot has uploaded.
LEMMA ClosingKeeps ==
  ASSUME AttemptsInOrder, UploadsAreKept, NEW w \in Slots, slot[w].pc = "close",
         FinishSuccessful(slot[w].run, slot[w].attempt), objects' = objects,
         \/ Done(w) /\ unheard' = unheard
         \/ MoveTo(w, "forget") /\ unheard' = unheard \cup {Upload(w)}
  PROVE  UploadsAreKept'
<1>p. PICK r \in Runs : r = slot[w].run
  BY DEF AttemptsInOrder, SlotsHoldAttempts
<1>0. /\ run \in [Runs -> RunRow] /\ run[r] \in RunRow /\ slot \in [Slots -> SlotState] /\ slot[w] \in SlotState
  BY DEF AttemptsInOrder, QueueInv, TypeOK, WorkerTypeOK
<1>1. /\ run[r].st = "running" /\ run[r].attempt = slot[w].attempt
      /\ run'[r].st = "successful" /\ run'[r].result = slot[w].attempt
      /\ (\A q \in Runs \ {r} : run'[q] = run[q]) /\ UNCHANGED <<job, now>>
  BY <1>0, <1>p DEF FinishSuccessful, Owns, RunRow
<1>2. \A v \in Slots \ {w} : slot'[v] = slot[v]
  BY <1>0 DEF Done, MoveTo
<1>3. /\ slot'[w].pc \in {"idle", "forget"}
      /\ slot'[w].pc # "idle" => /\ slot'[w].run = slot[w].run /\ slot'[w].attempt = slot[w].attempt
                                 /\ Upload(w) \in unheard'
  <2>1. CASE Done(w)
    BY <1>0, <2>1 DEF Done, Idle
  <2>2. CASE MoveTo(w, "forget") /\ unheard' = unheard \cup {Upload(w)}
    BY <1>0, <2>2 DEF MoveTo, SlotState
  <2> QED
    BY <2>1, <2>2
<1>4. Upload(w) \in objects
  BY <1>1, <1>p DEF UploadsAreKept, Holds, Owns
<1>5. ASSUME NEW v \in Slots, slot'[v].pc = "close", Holds(v)' PROVE Upload(v)' \in objects'
  <2>1. v # w /\ slot'[v] = slot[v]
    BY <1>2, <1>3, <1>5
  <2>2. slot[v].run \in Runs \ {r}
    BY <1>1, <1>5, <2>1 DEF Holds, Owns, AttemptsInOrder, SlotsHoldAttempts
  <2> QED
    BY <1>1, <1>5, <2>1, <2>2 DEF UploadsAreKept, Holds, Owns, Upload
<1>6. ASSUME NEW v \in Slots, slot'[v].pc # "idle", run'[slot'[v].run].st = "successful",
             run'[slot'[v].run].result = slot'[v].attempt
      PROVE  Upload(v)' \in unheard'
  <2>1. CASE v = w
    BY <1>3, <1>6, <2>1 DEF Upload
  <2>2. CASE v # w
    <3>1. slot'[v] = slot[v] /\ Upload(v) # Upload(w) /\ slot[v].run \in Runs
      BY <1>2, <1>6, <2>2 DEF AttemptsInOrder, AttemptsAreOwned, SlotsHoldAttempts
    <3>2. slot[v].run # r
      BY <1>1, <1>6, <1>p, <3>1 DEF Upload
    <3> QED
      BY <1>1, <1>6, <3>1, <3>2 DEF UploadsAreKept, Upload
  <2> QED
    BY <2>1, <2>2
<1>7. ASSUME NEW q \in Joinable' PROVE ResultOf(q)' \in objects' \cup unheard'
  <2>0. q \in Runs
    BY DEF Joinable
  <2>1. CASE q = r
    BY <1>1, <1>4, <1>p, <2>1 DEF ResultOf, Upload
  <2>2. CASE q # r
    <3>1. run'[q] = run[q] /\ UNCHANGED <<job, now>>
      BY <1>1, <2>0, <2>2
    <3>2. q \in Joinable
      BY <1>7, <2>0, <3>1 DEF Joinable, Serves, Needed, On, Alive, Due, Waiting
    <3> QED
      BY <3>1, <3>2 DEF UploadsAreKept, ResultOf
  <2> QED
    BY <2>1, <2>2
<1> QED
  BY <1>5, <1>6, <1>7 DEF UploadsAreKept

LEMMA PickingKeeps ==
  ASSUME AttemptsInOrder, UploadsAreKept, NEW w \in Slots, Pick(w), UNCHANGED unheard
  PROVE  UploadsAreKept'
<1>1. PICK q \in Runs : Claim(q) /\ slot' = [slot EXCEPT ![w] =
         [Idle EXCEPT !.pc = "watch", !.run = q, !.attempt = run'[q].attempt]]
  BY DEF Pick
<1>0. run \in [Runs -> RunRow] /\ run[q] \in RunRow /\ slot \in [Slots -> SlotState]
  BY DEF AttemptsInOrder, QueueInv, TypeOK, WorkerTypeOK
<1>2. /\ run[q].st = "accepted" /\ run'[q].st = "running" /\ run'[q].attempt = run[q].attempt + 1
      /\ run[q].attempt \in Nat
      /\ (\A r \in Runs \ {q} : run'[r] = run[r]) /\ UNCHANGED <<job, now, objects, unheard>>
  BY <1>0, <1>1 DEF Claim, Pick, RunRow
<1>3. slot'[w].pc = "watch" /\ slot'[w].run = q /\ \A v \in Slots \ {w} : slot'[v] = slot[v]
  BY <1>0, <1>1 DEF Idle
<1>4. ASSUME NEW v \in Slots, slot'[v].pc = "close", Holds(v)' PROVE Upload(v)' \in objects'
  <2>1. slot'[v] = slot[v] /\ slot[v].run \in Runs /\ slot[v].pc = "close"
    BY <1>3, <1>4 DEF AttemptsInOrder, SlotsHoldAttempts
  <2>2. slot[v].run # q
    BY <1>2, <1>4, <2>1 DEF AttemptsInOrder, AttemptsAreOwned, Attempts, Holds, Owns
  <2> QED
    BY <1>2, <1>4, <2>1, <2>2 DEF UploadsAreKept, Holds, Owns, Upload
<1>5. ASSUME NEW v \in Slots, slot'[v].pc # "idle", run'[slot'[v].run].st = "successful",
             run'[slot'[v].run].result = slot'[v].attempt
      PROVE  Upload(v)' \in unheard'
  <2>1. slot'[v] = slot[v] /\ slot[v].run \in Runs \ {q}
    BY <1>2, <1>3, <1>5 DEF AttemptsInOrder, SlotsHoldAttempts
  <2> QED
    BY <1>2, <1>5, <2>1 DEF UploadsAreKept, Upload
<1>6. ASSUME NEW r \in Joinable' PROVE ResultOf(r)' \in objects' \cup unheard'
  <2>1. r \in Runs \ {q}
    BY <1>2 DEF Joinable
  <2>2. r \in Joinable
    BY <1>2, <2>1 DEF Joinable, Serves, Needed, On, Alive, Due, Waiting
  <2> QED
    BY <1>2, <2>1, <2>2 DEF UploadsAreKept, ResultOf
<1> QED
  BY <1>4, <1>5, <1>6 DEF UploadsAreKept

\* A step that finishes no run, for the runs.
LEMMA WorkFinishesNothing ==
  ASSUME QueueInv, NEW q \in Runs, NEW a,
         \/ Heartbeat(q, a) \/ LeaseRunsOut(q) \/ BackoffEnds(q) \/ FinishCancelled(q, a)
         \/ \E retryable, rested \in BOOLEAN : EndAttempt(q, a, retryable, rested)
  PROVE  NoneFinishes
<1>0. run \in [Runs -> RunRow] /\ run[q] \in RunRow
  BY DEF QueueInv, TypeOK
<1>1. /\ run[q].st \in Active /\ UNCHANGED <<job, now>>
      /\ \A r \in Runs \ {q} : run'[r] = run[r]
  BY <1>0 DEF Heartbeat, LeaseRunsOut, BackoffEnds, EndAttempt, FinishCancelled, DismissRun, Requeue, FailRun, Owns
<1>2. run'[q].st # "successful"
  <2>1. CASE Heartbeat(q, a)
    BY <1>0, <2>1 DEF Heartbeat, Owns, RunRow
  <2>2. CASE LeaseRunsOut(q)
    BY <1>0, <2>2 DEF LeaseRunsOut, RunRow
  <2>3. CASE BackoffEnds(q)
    BY <1>0, <2>3 DEF BackoffEnds, RunRow
  <2>4. ASSUME DismissRun(q) PROVE run'[q].st # "successful"
    BY <1>0, <2>4 DEF DismissRun, RunRow
  <2>5. ASSUME NEW rested, Requeue(q, rested) PROVE run'[q].st # "successful"
    BY <1>0, <2>5 DEF Requeue, RunRow
  <2>6. ASSUME FailRun(q) PROVE run'[q].st # "successful"
    BY <1>0, <2>6 DEF FailRun, RunRow
  <2>7. CASE \E retryable, rested \in BOOLEAN : EndAttempt(q, a, retryable, rested)
    BY <2>4, <2>5, <2>6, <2>7 DEF EndAttempt
  <2>8. CASE FinishCancelled(q, a)
    BY <2>4, <2>5, <2>8 DEF FinishCancelled
  <2> QED
    BY <2>1, <2>2, <2>3, <2>7, <2>8
<1> QED
  BY <1>1, <1>2 DEF NoneFinishes, Joinable, Serves, Needed, On, Alive, Due, Waiting

LEMMA OthersFinishNothing ==
  ASSUME QueueInv, Others
  PROVE  NoneFinishes
<1>1. ASSUME [Next]_queueVars, (\E j \in Jobs : ApiCall(j)) \/ UNCHANGED run PROVE NoneFinishes
  <2>1. \A r \in Runs : run'[r].st = "successful" => run[r].st = "successful" /\ run'[r] = run[r]
    BY <1>1, OnlyClosingFinishes, StepKeepsOver DEF QueueInv
  <2>2. \A r \in Joinable' : r \in Joinable
    BY <1>1, <2>1, ServedBefore DEF Joinable
  <2> QED
    BY <2>1, <2>2 DEF NoneFinishes
<1>2. ASSUME NEW q \in Runs, RequeueExpired(q) \/ LeaseRunsOut(q) \/ BackoffEnds(q) PROVE NoneFinishes
  BY <1>2, WorkFinishesNothing DEF RequeueExpired
<1>3. CASE Cleanup
  <2>1. PICK gone \in SUBSET Runs : BatchTakes(gone)
    BY <1>3, BatchEffect
  <2>2. \A r \in Runs : run'[r].st = "successful" => r \notin gone
    BY <2>1 DEF BatchTakes, NoRunRow
  <2> QED
    BY <2>1, <2>2 DEF BatchTakes, NoneFinishes
<1> QED
  BY <1>1, <1>2, <1>3 DEF Others, Next, Tick, queueVars

LEMMA MoveGoesOn ==
  ASSUME AttemptsInOrder, SlotsMove, Others \/ \E w \in Slots : OwnCall(w)
  PROVE  GoesOn
<1>0. QueueInv /\ \A w \in Slots : slot[w].pc # "idle" => slot[w].run \in Runs /\ slot[w].attempt \in Nat
  BY DEF AttemptsInOrder, SlotsHoldAttempts, WorkerTypeOK, SlotState
<1>1. ASSUME NEW w \in Slots, OwnCall(w), NEW r \in Runs PROVE RunGoesOn(r)
  BY <1>0, <1>1, WorkGoesOn DEF OwnCall
<1>2. ASSUME NEW q \in Runs, RequeueExpired(q) \/ LeaseRunsOut(q) \/ BackoffEnds(q), NEW r \in Runs PROVE RunGoesOn(r)
  BY <1>0, <1>2, SweepIsWork, WorkGoesOn
<1>3. ASSUME UNCHANGED queueVars \/ Tick, NEW r \in Runs PROVE RunGoesOn(r)
  BY <1>3, StillGoesOn DEF Tick, queueVars
<1> QED
  BY <1>1, <1>2, <1>3, ApiGoesOn, BatchGoesOn DEF GoesOn, SlotsMove, Others

\* A slot's step that closes no run: it deletes only what it uploaded itself.
LEMMA SlotKeeps ==
  ASSUME AttemptsInOrder, UploadsAreKept, NEW w \in Slots, UNCHANGED unheard,
         Beat(w) \/ Progress(w) \/ BeatWhileUploading(w) \/ SlotStep(w) \/ Crash(w)
  PROVE  UploadsAreKept'
<1>0. QueueInv /\ slot \in [Slots -> SlotState] /\ (slot[w].pc # "idle" => slot[w].run \in Runs)
  BY DEF AttemptsInOrder, WorkerTypeOK, SlotsHoldAttempts
<1>1. SlotsMove /\ (OwnCall(w) \/ UNCHANGED queueVars)
  BY SlotSteps
<1>2. GoesOn
  BY <1>1, MoveGoesOn DEF Others
<1>3. ASSUME NoneFinishes, Loses, Closes PROVE UploadsAreKept'
  BY <1>2, <1>3, QuietStepKeeps
<1>4. UNCHANGED queueVars => NoneFinishes
  BY <1>0, OthersFinishNothing DEF Others
<1>5. ASSUME objects \subseteq objects' PROVE Loses
  BY <1>5 DEF Loses
<1>6. ASSUME UNCHANGED slot PROVE Closes
  BY <1>6 DEF Closes
<1>7. ASSUME NEW pc, MoveTo(w, pc), pc # "close" \/ Upload(w) \in objects' PROVE Closes
  BY <1>0, <1>7 DEF Closes, MoveTo, SlotState
<1>8. ASSUME Done(w) PROVE Closes
  BY <1>0, <1>8 DEF Closes, Done, Idle
<1>9. ASSUME NEW end, Ended(w, end) PROVE Closes
  BY <1>0, <1>9 DEF Closes, Ended, SlotState
<1>10. CASE Beat(w)
  <2>1. NoneFinishes
    BY <1>0, <1>10, WorkFinishesNothing DEF Beat
  <2>2. Closes
    BY <1>0, <1>10 DEF Beat, Closes, SlotState
  <2> QED
    BY <1>3, <1>5, <1>10, <2>1, <2>2 DEF Beat
<1>11. CASE Progress(w)
  <2>1. Closes
    BY <1>0, <1>11 DEF Progress, Closes, SlotState
  <2> QED
    BY <1>3, <1>4, <1>5, <1>11, <2>1 DEF Progress
<1>12. CASE BeatWhileUploading(w)
  <2>1. NoneFinishes
    BY <1>0, <1>12, WorkFinishesNothing DEF BeatWhileUploading
  <2> QED
    BY <1>3, <1>5, <1>6, <1>12, <2>1 DEF BeatWhileUploading
<1>13. CASE WatchEnds(w)
  BY <1>3, <1>4, <1>5, <1>9, <1>13 DEF WatchEnds
<1>14. CASE Conclude(w)
  <2>1. slot[w].run \in Runs
    BY <1>0, <1>14 DEF Conclude
  <2>2. EndRun(w) => NoneFinishes
    BY <1>0, <2>1, WorkFinishesNothing DEF EndRun, Release, FinishFailed
  <2> QED
    BY <1>3, <1>4, <1>5, <1>8, <1>14, <2>2 DEF Conclude
<1>15. CASE StartUpload(w)
  BY <1>3, <1>4, <1>5, <1>7, <1>15 DEF StartUpload
<1>16. CASE Uploaded(w)
  BY <1>3, <1>4, <1>5, <1>7, <1>16 DEF Uploaded
<1>17. CASE UploadFails(w)
  BY <1>3, <1>4, <1>5, <1>9, <1>17 DEF UploadFails
<1>18. CASE Close(w)
  <2>1. CASE FinishSuccessful(slot[w].run, slot[w].attempt) /\ Done(w)
    BY <1>18, <2>1, ClosingKeeps DEF Close
  <2>2. CASE UNCHANGED queueVars /\ MoveTo(w, "forget")
    BY <1>3, <1>4, <1>5, <1>7, <1>18, <2>2 DEF Close
  <2> QED
    BY <1>18, <2>1, <2>2 DEF Close
<1>19. CASE CloseErrs(w)
  BY <1>3, <1>4, <1>5, <1>7, <1>19 DEF CloseErrs
<1>20. CASE Forget(w)
  <2>1. Loses
    BY <1>0, <1>20 DEF Forget, Loses, Done
  <2> QED
    BY <1>3, <1>4, <1>8, <1>20, <2>1 DEF Forget
<1>21. CASE Lost(w) \/ Crash(w)
  BY <1>3, <1>4, <1>5, <1>8, <1>21 DEF Lost, Crash
<1> QED
  BY <1>10, <1>11, <1>12, <1>13, <1>14, <1>15, <1>16, <1>17, <1>18, <1>19, <1>20, <1>21 DEF SlotStep

LEMMA OthersKeep ==
  ASSUME AttemptsInOrder, UploadsAreKept, UNCHANGED <<slot, unheard>>,
         \/ Others /\ (UNCHANGED objects \/ Cleanup)
         \/ CleanupFails
  PROVE  UploadsAreKept'
<1>0. QueueInv /\ SlotsMove
  BY DEF AttemptsInOrder, WorkerTypeOK, SlotsMove, SlotGoesOn
<1>1. Others
  BY DEF Others, CleanupFails
<1>2. GoesOn /\ NoneFinishes /\ Closes
  BY <1>0, <1>1, MoveGoesOn, OthersFinishNothing DEF Closes
<1>3. CASE UNCHANGED objects
  BY <1>2, <1>3, QuietStepKeeps DEF Loses
<1>4. CASE Cleanup
  <2>1. PICK gone \in SUBSET Runs : BatchTakes(gone)
    BY <1>0, <1>4, BatchEffect
  <2>2. Loses
    BY <2>1 DEF Loses, BatchTakes
  <2> QED
    BY <1>2, <2>2, QuietStepKeeps
<1>5. CASE CleanupFails
  <2>1. PICK doomed \in SUBSET Runs : FailureTakes(doomed)
    BY <1>0, <1>5, FailedBatchEffect
  <2>2. Loses
    BY <1>2, <2>1 DEF Loses, FailureTakes, NoneFinishes
  <2> QED
    BY <1>2, <2>2, QuietStepKeeps
<1> QED
  BY <1>3, <1>4, <1>5

LEMMA StepHears ==
  ASSUME AttemptsInOrder, UploadsAreKept, [WorkerNext]_workerVars
  PROVE  UploadsAreKept'
<1>1. ASSUME NEW w \in Slots, AnswerLost(w) PROVE UploadsAreKept'
  BY <1>1, ClosingKeeps DEF AnswerLost
<1>2. ASSUME NEW r \in Runs, Sweep(r) \/ Expire(r) \/ Rested(r), UNCHANGED unheard PROVE UploadsAreKept'
  BY <1>2, OthersKeep DEF Sweep, Expire, Rested, Others
<1>3. ASSUME NEW j \in Jobs, ApiCall(j), UNCHANGED <<objects, slot, unheard>> PROVE UploadsAreKept'
  BY <1>3, OthersKeep DEF Others
<1>4. ASSUME Tick \/ UNCHANGED queueVars, UNCHANGED <<objects, slot, unheard>> PROVE UploadsAreKept'
  BY <1>4, OthersKeep DEF Others
<1>5. ASSUME Cleanup \/ CleanupFails, UNCHANGED <<slot, unheard>> PROVE UploadsAreKept'
  BY <1>5, OthersKeep DEF Others
<1> QED
  BY <1>1, <1>2, <1>3, <1>4, <1>5, PickingKeeps, SlotKeeps DEF WorkerNext, WorkerStep, workerVars, queueVars

\* What an order can read, or be restored to, and what a new one may join, has its bytes but
\* where the answer to a closing was lost: whatever workers crash, wake up late, upload twice
\* or fail to close, and whatever a clean-up deletes meanwhile.
THEOREM ResultsStayThere == WorkerSpec => []ResultThereIfHeard
<1>1. WorkerInit => UploadsAreKept
  <2> SUFFICES ASSUME WorkerInit PROVE UploadsAreKept
    OBVIOUS
  <2>1. \A w \in Slots : slot[w].pc = "idle"
    BY DEF WorkerInit, Idle
  <2>2. \A r \in Runs : run[r].st = "none"
    BY DEF WorkerInit, CleanupInit, Init, NoRunRow
  <2> QED
    BY <2>1, <2>2 DEF UploadsAreKept, Joinable
<1>2. UploadsAreKept => ResultThereIfHeard
  BY DEF UploadsAreKept, ResultThereIfHeard, Served, Joinable, Serves
<1> QED
  BY <1>1, <1>2, StepHears, AttemptsStayInOrder, PTL DEF WorkerSpec

-----------------------------------------------------------------------------
(* What a session may rely on *)

Ending     == {"end", "endHeld", "endRead"}
Claiming   == {"claimLocked", "claimCounted", "claimHeld"}
Ordering   == {"look", "hit", "insert", "conflict", "attach", "hitHeld", "newHeld", "attachHeld"}
Dismissing == {"dismiss", "dismissHeld", "dismissCounted"}
Restoring  == {"restore", "restoreHeld"}
Closed     == {"successful", "failed", "gone"}

\* The row locks, the advisory lock of the pick-up and the unique index on active keys.
Apart(t, u) ==
  /\ ~(t.pc \in Exclusive /\ u.pc \in Exclusive \cup Share /\ u.run = t.run)
  /\ ~(t.pc \in Claiming /\ u.pc \in Claiming)
  /\ ~(t.pc \in Ordering /\ u.pc \in Ordering /\ u.job = t.job)
  /\ ~(t.pc = "newHeld" /\ u.pc = "newHeld" /\ u.key = t.key)

EndReady(t) ==
  /\ t.pc \in Ending => t.run \in Runs /\ t.att \in Nat \ {0} /\ t.how \in Hows
  /\ t.pc \in Ending \ {"end"} => EndMatches(t)
  /\ t.pc = "endRead" => t.live = Wanted(t.run)

ClaimReady(t) ==
  /\ t.pc \in {"claimCounted", "claimHeld"} => KeysRunning \subseteq t.seen /\ IsFiniteSet(t.seen)
  /\ t.pc = "claimHeld" =>
       /\ t.run \in Runs /\ run[t.run].st = "accepted" /\ run[t.run].ready
       /\ run[t.run].attempt < ClaimBound
       /\ FitsBeside(t.run, t.seen)

OrderReady(t) ==
  /\ t.pc \in Ordering =>
       /\ t.job \in Jobs /\ job[t.job].st = "none" /\ t.job \notin recipes
       /\ t.key \in Keys \cup {t.job}
  /\ t.pc \in {"hit", "hitHeld"} => t.run \in Runs /\ IsHit(t.run, t.key)
  /\ t.pc = "newHeld" => ActiveWith(t.key) = {}
  /\ t.pc \in {"attach", "attachHeld"} =>
       t.run \in Runs /\ run[t.run].st # "none"
         /\ (run[t.run].st = "gone" \/ run[t.run].key = t.key)
  /\ t.pc = "attachHeld" => run[t.run].st \in Active

JobKnown(t) ==
  t.pc \in Dismissing \cup Restoring =>
    /\ t.job \in Jobs /\ job[t.job].st # "none"
    /\ t.run \in Runs /\ run[t.run].st # "none"
    /\ job[t.job].st = "there" => job[t.job].run = t.run
    /\ job[t.job].st = "gone" => run[t.run].st \in Closed

DismissReady(t) ==
  /\ t.pc \in Dismissing \ {"dismiss"} => run[t.run].st \in Rows
  /\ t.pc = "dismissCounted" => t.live = OthersLive(t.run, t.job)

RestoreReady(t) ==
  t.pc = "restoreHeld" => run[t.run].expires > now

Ready(t) ==
  EndReady(t) /\ ClaimReady(t) /\ OrderReady(t) /\ JobKnown(t) /\ DismissReady(t) /\ RestoreReady(t)

TxTypeOK == tx \in [Sessions -> Tx]

TxInv ==
  /\ NothingDangles
  /\ TxTypeOK
  /\ \A s \in Sessions : \A v \in Sessions \ {s} : Apart(tx[s], tx[v])
  /\ \A s \in Sessions : Ready(tx[s])

-----------------------------------------------------------------------------
(* A commit is a step of the tables *)

\* The end of an attempt judges by the jobs it read under the lock.
LEMMA EndIsStep ==
  ASSUME TxInv, NEW s \in Sessions, CommitEnd(s)
  PROVE  CleanupNext
<1> DEFINE r == tx[s].run
           a == tx[s].att
           h == tx[s].how
<1>0. tx[s] \in Tx /\ Ready(tx[s]) /\ tx[s].pc = "endRead"
  BY DEF TxInv, TxTypeOK, CommitEnd, At
<1>1. r \in Runs /\ a \in Nat \ {0} /\ h \in Hows /\ Owns(r, a) /\ (h = "expired" => ~run[r].lease)
  BY <1>0 DEF Ready, EndReady, EndMatches, Ending
<1>2. tx[s].live = Wanted(r)
  BY <1>0 DEF Ready, EndReady
<1>3. a = run[r].attempt /\ run[r].st = "running" /\ run[r].attempt \in Nat
  BY <1>1 DEF Owns, TxInv, NothingDangles, QueueInv, TypeOK, RunRow
<1>4. UNCHANGED <<job, recipes, now, objects>>
  BY DEF CommitEnd
<1>5. a \in Attempts(r)
  BY <1>1, <1>3 DEF Attempts
<1>6. /\ h \in {"failed", "retryable", "released", "expired"} =>
           EndAttempt(r, a, h # "failed", h = "released")
      /\ h = "cancelled" => FinishCancelled(r, a)
  <2>1. CASE ~tx[s].live /\ (h = "cancelled" \/ run[r].cancel) /\ DismissRun(r)
    BY <1>1, <1>2, <1>4, <2>1 DEF FinishCancelled, EndAttempt
  <2>2. CASE ~(~tx[s].live /\ (h = "cancelled" \/ run[r].cancel))
    <3> DEFINE again == h = "cancelled" \/ (h # "failed" /\ MayRetry(a))
    <3>1. CASE again /\ Requeue(r, h \in {"cancelled", "released"})
      <4>1. CASE h = "cancelled"
        BY <1>1, <1>2, <1>4, <2>2, <3>1, <4>1 DEF FinishCancelled
      <4>2. CASE h = "released"
        BY <1>1, <1>2, <1>4, <2>2, <3>1, <4>2 DEF EndAttempt
      <4>3. CASE h \in {"failed", "retryable", "expired"}
        BY <1>1, <1>2, <1>4, <2>2, <3>1, <4>3 DEF EndAttempt
      <4> QED
        BY <1>1, <4>1, <4>2, <4>3 DEF Hows
    <3>2. CASE ~again /\ FailRun(r)
      BY <1>1, <1>2, <1>4, <2>2, <3>2 DEF EndAttempt
    <3> QED
      BY <2>2, <3>1, <3>2 DEF CommitEnd
  <2> QED
    BY <2>1, <2>2 DEF CommitEnd
<1>7. /\ h = "cancelled" => FinishCancelled(r, a)
      /\ h = "failed" => FinishFailed(r, a, FALSE)
      /\ h = "retryable" => FinishFailed(r, a, TRUE)
      /\ h = "released" => Release(r, a)
      /\ h = "expired" => RequeueExpired(r)
  BY <1>1, <1>3, <1>6 DEF FinishFailed, Release, RequeueExpired
<1> QED
  BY <1>1, <1>4, <1>5, <1>7 DEF CleanupNext, QueueStep, WorkerCall, Hows

\* One running run per key: counting the keys of the running runs counts the runs.
LEMMA KeysCountRuns ==
  ASSUME QueueInv, NEW keys, KeysRunning \subseteq keys, IsFiniteSet(keys)
  PROVE  /\ Cardinality(Running) <= Cardinality(keys)
         /\ \A h : Cardinality(RunningAt(h)) <= Cardinality({k \in keys : h \in HostsOf[k]})
<1>1. ASSUME NEW R \in SUBSET Running, NEW K \in SUBSET keys, \A r \in R : run[r].key \in K
      PROVE  Cardinality(R) <= Cardinality(K)
  <2>1. IsFiniteSet(K) /\ Cardinality(K) \in Nat
    BY FS_Subset, FS_CardinalityType
  <2>2. IsFiniteSet(R) /\ Cardinality(R) \in Nat
    BY RunsAssumption, FS_Subset, FS_CardinalityType DEF Running
  <2> DEFINE keyOf == [r \in R |-> run[r].key]
  <2>3. keyOf \in [R -> K]
    BY <1>1
  <2>4. \A r, q \in R : keyOf[r] = keyOf[q] => r = q
    BY <1>1 DEF QueueInv, OneActivePerKey, Running
  <2>5. keyOf \in Injection(R, K)
    BY <2>3, <2>4 DEF Injection, IsInjective
  <2> QED
    BY <2>1, <2>5, FS_Injection
<1>2. \A r \in Running : run[r].key \in keys
  BY DEF KeysRunning
<1>3. Cardinality(Running) <= Cardinality(keys)
  BY <1>1, <1>2
<1>4. ASSUME NEW h
      PROVE  Cardinality(RunningAt(h)) <= Cardinality({k \in keys : h \in HostsOf[k]})
  BY <1>1, <1>2 DEF RunningAt
<1> QED
  BY <1>3, <1>4

\* The pick-up counts running runs before it takes one; none is added until it commits.
LEMMA ClaimIsStep ==
  ASSUME TxInv, NEW s \in Sessions, CommitClaim(s)
  PROVE  CleanupNext
<1> DEFINE r == tx[s].run
<1>0. tx[s] \in Tx /\ ClaimReady(tx[s]) /\ tx[s].pc = "claimHeld"
  BY DEF TxInv, TxTypeOK, CommitClaim, At, Ready
<1>1. /\ r \in Runs /\ run[r].st = "accepted" /\ run[r].ready /\ run[r].attempt < ClaimBound
      /\ FitsBeside(r, tx[s].seen)
      /\ KeysRunning \subseteq tx[s].seen /\ IsFiniteSet(tx[s].seen)
  BY <1>0 DEF ClaimReady
<1>2. /\ Cardinality(Running) <= Cardinality(tx[s].seen)
      /\ \A h : Cardinality(RunningAt(h)) <= Cardinality({k \in tx[s].seen : h \in HostsOf[k]})
  BY <1>1, KeysCountRuns DEF TxInv, NothingDangles
<1>3. Cardinality(Running) \in Nat /\ \A h : Cardinality(RunningAt(h)) \in Nat
  BY RunningFinite
<1>4. Cardinality(tx[s].seen) \in Nat /\ \A h : Cardinality({k \in tx[s].seen : h \in HostsOf[k]}) \in Nat
  <2>1. ASSUME NEW h
        PROVE  Cardinality({k \in tx[s].seen : h \in HostsOf[k]}) \in Nat
    BY <1>1, FS_Subset, FS_CardinalityType
  <2> QED
    BY <1>1, <2>1, FS_CardinalityType
<1>5. Fits(r)
  <2>1. Cardinality(Running) < GlobalCap
    BY <1>1, <1>2, <1>3, <1>4, LimitsAssumption DEF FitsBeside
  <2>2. ASSUME NEW h \in HostsOf[run[r].key]
        PROVE  Cardinality(RunningAt(h)) < HostCap
    <3>1. Cardinality({k \in tx[s].seen : h \in HostsOf[k]}) < HostCap
      BY <1>1 DEF FitsBeside
    <3> QED
      BY <1>2, <1>3, <1>4, <3>1, LimitsAssumption
  <2> QED
    BY <2>1, <2>2 DEF Fits
<1>6. Claim(r) /\ UNCHANGED objects
  BY <1>1, <1>5 DEF CommitClaim, Claim
<1> QED
  BY <1>1, <1>6 DEF CleanupNext, QueueStep

\* An order: the finished run found may have got a deleted job since, the active one and the
\* free key have not changed.
LEMMA SubmitIsStep ==
  ASSUME TxInv, NEW s \in Sessions, CommitSubmit(s)
  PROVE  CleanupNext
<1> DEFINE t == tx[s]
<1>0. t \in Tx /\ OrderReady(t) /\ t.pc \in {"hitHeld", "attachHeld", "newHeld"}
  BY DEF TxInv, TxTypeOK, CommitSubmit, At, Ready
<1>1. t.job \in Jobs /\ job[t.job].st = "none" /\ t.job \notin recipes /\ t.key \in Keys \cup {t.job}
  BY <1>0 DEF OrderReady, Ordering
<1>2. SubmitHit(t.job, t.key) \/ SubmitNew(t.job, t.key) \/ SubmitAttach(t.job, t.key)
  <2>1. CASE t.pc = "hitHeld"
    BY <1>0, <2>1 DEF OrderReady, CommitSubmit, At, SubmitHit
  <2>2. CASE t.pc = "newHeld"
    BY <1>0, <2>2 DEF OrderReady, CommitSubmit, At, SubmitNew
  <2>3. CASE t.pc = "attachHeld"
    <3>1. t.run \in ActiveWith(t.key)
      BY <1>0, <2>3 DEF OrderReady, ActiveWith
    <3> QED
      BY <2>3, <3>1 DEF CommitSubmit, At, SubmitAttach
  <2> QED
    BY <1>0, <2>1, <2>2, <2>3
<1>3. Submit(t.job, t.key) /\ UNCHANGED objects
  BY <1>1, <1>2 DEF Submit, CommitSubmit
<1> QED
  BY <1>1, <1>3 DEF CleanupNext, ApiCall

\* A dismissal: the jobs it counted are those of the moment; one removed or deleted
\* meanwhile is left alone, and so is its run, which is over.
LEMMA DismissIsStep ==
  ASSUME TxInv, NEW s \in Sessions, CommitDismiss(s)
  PROVE  CleanupNext \/ UNCHANGED cleanupVars
<1> DEFINE r == tx[s].run
           j == tx[s].job
<1>0. tx[s] \in Tx /\ JobKnown(tx[s]) /\ DismissReady(tx[s]) /\ tx[s].pc = "dismissCounted"
  BY DEF TxInv, TxTypeOK, CommitDismiss, At, Ready
<1>1. j \in Jobs /\ r \in Runs /\ run[r].st \in Rows /\ tx[s].live = OthersLive(r, j)
  BY <1>0 DEF JobKnown, DismissReady, Dismissing
<1>2. \/ job[j].st = "there" /\ job[j].run = r
      \/ job[j].st = "gone" /\ run[r].st \in {"successful", "failed"}
  <2>1. job[j].st \in {"none", "there", "gone"}
    BY <1>1 DEF TxInv, NothingDangles, QueueInv, TypeOK, JobRow
  <2>2. /\ job[j].st # "none"
        /\ job[j].st = "there" => job[j].run = r
        /\ job[j].st = "gone" => run[r].st \in Closed
    BY <1>0 DEF JobKnown, Dismissing
  <2> QED
    BY <1>1, <2>1, <2>2 DEF Closed
<1>3. UNCHANGED <<recipes, now, objects>>
  BY DEF CommitDismiss
<1>4. ASSUME Dismiss(j)
      PROVE  CleanupNext
  BY <1>1, <1>3, <1>4 DEF CleanupNext, ApiCall
<1>5. CASE DeleteJob(r, j)
  <2>1. CASE job[j].st = "there" /\ Alive(j)
    BY <1>2, <1>3, <1>4, <1>5, <2>1 DEF DeleteJob, Dismiss, DismissFinished
  <2>2. CASE ~(job[j].st = "there" /\ Alive(j))
    BY <1>3, <1>5, <2>2 DEF DeleteJob, cleanupVars
  <2> QED
    BY <2>1, <2>2
<1>6. CASE CancelJob(r, j, tx[s].live)
  <2>1. run[r].st \notin {"successful", "failed"} /\ job[j].st = "there" /\ job[j].run = r
    BY <1>2, <1>6 DEF CancelJob
  <2>2. tx[s].live <=> ~(\A i \in On(r) \ {j} : ~Alive(i))
    BY <1>1 DEF OthersLive
  <2>3. run[r].st \in {"accepted", "running", "dismissed"}
    BY <1>1, <2>1
  <2>4. Cancel(j)
    <3> DEFINE alone == \A i \in On(r) \ {j} : ~Alive(i)
    <3>1. job' = [job EXCEPT ![j].dismissed = TRUE]
      BY <1>6, <2>1 DEF CancelJob
    <3>2. \/ alone /\ run[r].st = "accepted" /\ run' = [run EXCEPT ![r].st = "dismissed"]
          \/ alone /\ run[r].st = "running" /\ run' = [run EXCEPT ![r].cancel = TRUE]
          \/ (~alone \/ run[r].st = "dismissed") /\ UNCHANGED run
      BY <1>6, <2>2, <2>3 DEF CancelJob
    <3> QED
      BY <2>1, <3>1, <3>2 DEF Cancel
  <2>5. Dismiss(j)
    BY <1>3, <2>1, <2>4 DEF Dismiss
  <2> QED
    BY <1>4, <2>5
<1> QED
  BY <1>5, <1>6 DEF CommitDismiss

LEMMA RestoreIsStep ==
  ASSUME TxInv, NEW s \in Sessions, CommitRestore(s)
  PROVE  CleanupNext \/ UNCHANGED cleanupVars
<1> DEFINE r == tx[s].run
           j == tx[s].job
<1>0. tx[s] \in Tx /\ JobKnown(tx[s]) /\ RestoreReady(tx[s]) /\ tx[s].pc = "restoreHeld"
  BY DEF TxInv, TxTypeOK, CommitRestore, At, Ready
<1>1. j \in Jobs /\ r \in Runs /\ run[r].expires > now /\ (job[j].st = "there" => job[j].run = r)
  BY <1>0 DEF JobKnown, RestoreReady, Restoring
<1>2. now \in Nat /\ job[j] \in JobRow /\ TermWithinLife
  BY <1>1 DEF TxInv, NothingDangles, QueueInv, TypeOK
<1>3. CASE job[j].until > now
  <2>1. job[j].until # NoTerm
    BY <1>2, <1>3
  <2>2. job[j].st = "there"
    BY <1>1, <1>2, <2>1 DEF TermWithinLife
  <2>3. Restore(j) /\ UNCHANGED objects
    BY <1>1, <1>3, <2>2 DEF CommitRestore, Restore
  <2> QED
    BY <1>1, <2>3 DEF CleanupNext, ApiCall
<1>4. CASE ~(job[j].until > now)
  BY <1>4 DEF CommitRestore, cleanupVars
<1> QED
  BY <1>3, <1>4

\* Every step of the statements changes the tables as one step of JobCleanup, or not at all.
LEMMA StatementIsStep ==
  ASSUME TxInv, TxNext
  PROVE  CleanupNext \/ UNCHANGED cleanupVars
<1>1. ASSUME NEW s \in Sessions, Commit(s)
      PROVE  CleanupNext \/ UNCHANGED cleanupVars
  BY <1>1, EndIsStep, ClaimIsStep, SubmitIsStep, DismissIsStep, RestoreIsStep DEF Commit
<1>2. ASSUME NEW s \in Sessions,
             \/ BeginEnd(s) \/ LockEnd(s) \/ ReadEnd(s)
             \/ BeginClaim(s) \/ LockClaim(s) \/ CountRunning(s) \/ TakeRun(s)
             \/ BeginSubmit(s) \/ Look(s) \/ LockHit(s) \/ Insert(s) \/ FindActive(s) \/ LockActive(s)
             \/ BeginDismiss(s) \/ LockDismiss(s) \/ CountLive(s)
             \/ BeginRestore(s) \/ LockRestore(s)
      PROVE  UNCHANGED cleanupVars
  BY <1>2 DEF Reading, BeginEnd, LockEnd, ReadEnd, BeginClaim, LockClaim, CountRunning, TakeRun, BeginSubmit,
     Look, LockHit, Insert, FindActive, LockActive, BeginDismiss, LockDismiss, CountLive, BeginRestore, LockRestore
<1>3. ASSUME NEW r \in Runs, OneStatement(r)
      PROVE  CleanupNext
  BY <1>3 DEF OneStatement, CleanupNext, QueueStep, WorkerCall
<1>4. ASSUME Time
      PROVE  CleanupNext
  BY <1>4 DEF Time, CleanupNext, QueueStep
<1>5. CleanupAlone => CleanupNext
  BY DEF CleanupAlone, CleanupNext
<1> QED
  BY <1>1, <1>2, <1>3, <1>4, <1>5 DEF TxNext

-----------------------------------------------------------------------------
(* How the tables go on *)

\* A worker, the sweeper or the clock moves one active run and no order.
OneRun(r) ==
  /\ job' = job /\ recipes' = recipes /\ now' = now
  /\ run[r].st \in Active /\ run'[r].st \in Rows /\ run'[r].key = run[r].key
  /\ \A q \in Runs \ {r} : run'[q] = run[q]

LEMMA QueueStepIsOneRun ==
  ASSUME TypeOK, NEW r \in Runs, QueueStep(r) \/ \E a \in Attempts(r) : FinishSuccessful(r, a)
  PROVE  OneRun(r)
<1>0. run \in [Runs -> RunRow] /\ run[r] \in RunRow
  BY DEF TypeOK
<1>1. job' = job /\ recipes' = recipes /\ now' = now
  BY DEF QueueStep, Claim, WorkerCall, Heartbeat, FinishFailed, Release, RequeueExpired, EndAttempt, FinishCancelled,
     FinishSuccessful, LeaseRunsOut, BackoffEnds
<1>2. \A q \in Runs \ {r} : run'[q] = run[q]
  BY <1>0 DEF QueueStep, Claim, WorkerCall, Heartbeat, FinishFailed, Release, RequeueExpired, EndAttempt,
     FinishCancelled, DismissRun, Requeue, FailRun, FinishSuccessful, LeaseRunsOut, BackoffEnds
<1> DEFINE Moves == run[r].st \in Active /\ run'[r].st \in Rows /\ run'[r].key = run[r].key
<1>3. CASE Claim(r)
  BY <1>0, <1>1, <1>2, <1>3 DEF Claim, RunRow, OneRun
<1>4. CASE LeaseRunsOut(r) \/ BackoffEnds(r)
  BY <1>0, <1>1, <1>2, <1>4 DEF LeaseRunsOut, BackoffEnds, RunRow, OneRun
<1>5. ASSUME NEW a, Heartbeat(r, a) \/ FinishSuccessful(r, a) PROVE Moves
  <2>1. CASE Heartbeat(r, a)
    BY <1>0, <2>1 DEF Heartbeat, Owns, RunRow
  <2>2. CASE FinishSuccessful(r, a)
    BY <1>0, <2>2 DEF FinishSuccessful, Owns, RunRow
  <2> QED
    BY <1>5, <2>1, <2>2
<1>6. ASSUME run[r].st = "running", NEW rested, DismissRun(r) \/ Requeue(r, rested) \/ FailRun(r) PROVE Moves
  <2>1. CASE DismissRun(r)
    BY <1>0, <1>6, <2>1 DEF DismissRun, RunRow
  <2>2. CASE Requeue(r, rested)
    BY <1>0, <1>6, <2>2 DEF Requeue, RunRow
  <2>3. CASE FailRun(r)
    BY <1>0, <1>6, <2>3 DEF FailRun, RunRow
  <2> QED
    BY <1>6, <2>1, <2>2, <2>3
<1> HIDE DEF Moves
<1>7. ASSUME NEW a, NEW retryable, NEW rested, EndAttempt(r, a, retryable, rested) \/ FinishCancelled(r, a)
      PROVE  Moves
  BY <1>6, <1>7 DEF EndAttempt, FinishCancelled, Owns
<1>8. CASE ~Claim(r) /\ ~LeaseRunsOut(r) /\ ~BackoffEnds(r)
  <2>1. Moves
    BY <1>5, <1>7, <1>8 DEF QueueStep, WorkerCall, FinishFailed, Release, RequeueExpired
  <2> QED
    BY <1>1, <1>2, <2>1 DEF Moves, OneRun
<1> QED
  BY <1>3, <1>4, <1>8

\* A run number and a job_id are handed out once; a run keeps its key, and what is over
\* stays over; an order stays on its run, and goes only with it or once it is deleted.
RowGoesOn(q) ==
  /\ run[q].st # "none" => run'[q].st = "gone" \/ (run'[q].st # "none" /\ run'[q].key = run[q].key)
  /\ run[q].st \in Closed => run'[q].st \in Closed
  /\ run[q].st = "gone" => run'[q].st = "gone"

JobGoesOn(j) ==
  /\ job[j].st # "none" => job'[j].st # "none"
  /\ job[j].st # "none" /\ job'[j].st = "there" => job[j].st = "there" /\ job'[j].run = job[j].run
  /\ job[j].st = "there" /\ job'[j].st # "there" => run'[job[j].run].st \in Closed

\* A run that can serve another order can do so as long as no time passes.
HitsStay == now' = now => \A q \in Runs, k \in Keys \cup Jobs : IsHit(q, k) => IsHit(q, k)'

TablesGoOn ==
  (\A q \in Runs : RowGoesOn(q)) /\ (\A j \in Jobs : JobGoesOn(j)) /\ HitsStay

LEMMA OneRowGoesOn ==
  ASSUME QueueInv, NEW r \in Runs, OneRun(r)
  PROVE  TablesGoOn
<1>1. \A q \in Runs : RowGoesOn(q)
  BY DEF OneRun, RowGoesOn, Closed
<1>2. \A j \in Jobs : JobGoesOn(j)
  BY DEF OneRun, JobGoesOn
<1>3. ASSUME NEW q \in Runs, NEW k, IsHit(q, k)
      PROVE  IsHit(q, k)'
  <2>1. run'[q] = run[q]
    BY <1>3 DEF OneRun, IsHit
  <2> QED
    BY <1>3, <2>1 DEF OneRun, IsHit, Serves, Needed, On, Due, Alive, Waiting
<1> QED
  BY <1>1, <1>2, <1>3 DEF TablesGoOn, HitsStay

\* A new order: on a run of its own, on an active one, or on a finished one it changes
\* nothing of.
Joins(j, q) ==
  /\ job[j].st = "none" /\ j \notin recipes
  /\ job'[j].st = "there" /\ job'[j].run = q /\ ~job'[j].dismissed /\ job'[j].until = NoTerm
  /\ \A i \in Jobs \ {j} : job'[i] = job[i]
  /\ recipes' = recipes \cup {j} /\ now' = now
  /\ \A r \in Runs \ {q} : run'[r] = run[r]
  /\ \/ run'[q] = run[q] /\ run[q].st = "successful"
     \/ run[q].st = "none" /\ run'[q].st = "accepted"
     \/ run[q].st \in Active /\ run'[q].st = run[q].st /\ run'[q].key = run[q].key

LEMMA SubmitJoins ==
  ASSUME QueueInv, NEW j \in Jobs, NEW k \in Keys \cup {j}, Submit(j, k)
  PROVE  \E q \in Runs : Joins(j, q)
<1>0. TypeOK /\ job[j].st = "none" /\ j \notin recipes
  BY DEF QueueInv, Submit
<1>1. ASSUME NEW q \in Runs, Place(j, q)
      PROVE  /\ job'[j].st = "there" /\ job'[j].run = q /\ ~job'[j].dismissed /\ job'[j].until = NoTerm
             /\ \A i \in Jobs \ {j} : job'[i] = job[i]
             /\ recipes' = recipes \cup {j} /\ now' = now
  BY <1>0, <1>1 DEF Place, NoJobRow, TypeOK
<1>2. CASE SubmitHit(j, k)
  <2>1. PICK q \in Runs : IsHit(q, k) /\ Place(j, q) /\ run' = run
    BY <1>2 DEF SubmitHit
  <2> QED
    BY <1>0, <1>1, <2>1 DEF IsHit, Joins
<1>3. CASE SubmitNew(j, k)
  <2>1. PICK q \in Runs : run[q].st = "none" /\ run' = [run EXCEPT ![q] = NewRun(k, j)] /\ Place(j, q)
    BY <1>3 DEF SubmitNew
  <2>2. NewRun(k, j).st = "accepted"
    BY DEF NewRun, NoRunRow
  <2> QED
    BY <1>0, <1>1, <2>1, <2>2 DEF TypeOK, Joins
<1>4. CASE SubmitAttach(j, k)
  <2>1. PICK q \in ActiveWith(k) : run' = [run EXCEPT ![q].cancel = FALSE] /\ Place(j, q)
    BY <1>4 DEF SubmitAttach
  <2>2. q \in Runs /\ run[q].st \in Active /\ run[q] \in RunRow
    BY <1>0 DEF ActiveWith, TypeOK
  <2>3. run'[q].st = run[q].st /\ run'[q].key = run[q].key /\ \A r \in Runs \ {q} : run'[r] = run[r]
    BY <1>0, <2>1, <2>2 DEF TypeOK, RunRow
  <2> QED
    BY <1>0, <1>1, <2>1, <2>2, <2>3 DEF Joins
<1> QED
  BY <1>2, <1>3, <1>4 DEF Submit

LEMMA JoiningGoesOn ==
  ASSUME QueueInv, NEW j \in Jobs, NEW r \in Runs, Joins(j, r)
  PROVE  TablesGoOn
<1>1. \A q \in Runs : RowGoesOn(q)
  BY DEF Joins, RowGoesOn, Closed
<1>2. \A i \in Jobs : JobGoesOn(i)
  BY DEF Joins, JobGoesOn
<1>3. ASSUME NEW q \in Runs, NEW k, IsHit(q, k)
      PROVE  IsHit(q, k)'
  <2>1. run'[q] = run[q]
    BY <1>3 DEF Joins, IsHit
  <2>2. \A i \in On(q) : job'[i] = job[i] /\ i \in On(q)'
    BY <1>3, RunsAssumption DEF Joins, On, QueueInv, JobsHaveRuns
  <2>3. \A i \in On(q)' : i \in On(q) \/ job'[i].until = NoTerm
    BY DEF Joins, On
  <2>4. Serves(q)'
    BY <1>3, <2>2, <2>3 DEF IsHit, Serves, Needed, Due, Alive, Waiting, Joins
  <2> QED
    BY <1>3, <2>1, <2>4 DEF IsHit, Joins
<1> QED
  BY <1>1, <1>2, <1>3 DEF TablesGoOn, HitsStay

\* A dismissal or a restore marks one order; of a run that is over it changes nothing, and
\* the order of such a run lives or waits for its term then.
Marks(j) ==
  LET q == job[j].run
  IN  /\ job[j].st = "there" /\ q \in Runs /\ run[q].st \in Rows
      /\ job'[j].st = "there" /\ job'[j].run = q
      /\ \A i \in Jobs \ {j} : job'[i] = job[i]
      /\ recipes' = recipes /\ now' = now
      /\ \A r \in Runs \ {q} : run'[r] = run[r]
      /\ run'[q].st \in Rows /\ run'[q].key = run[q].key
      /\ run'[q].st \in Active => run'[q].st = run[q].st
      /\ run[q].st \in Closed => run'[q] = run[q]
      /\ run[q].st = "successful" /\ run[q].expires >= now => Alive(j)' \/ Waiting(j)'

LEMMA DismissMarks ==
  ASSUME QueueInv, NEW j \in Jobs, Dismiss(j)
  PROVE  Marks(j)
<1> DEFINE q == job[j].run
<1>0. TypeOK /\ job[j].st = "there" /\ q \in Runs /\ run[q].st \in Rows /\ run[q] \in RunRow /\ job[j] \in JobRow
  BY DEF QueueInv, Dismiss, JobsHaveRuns, TypeOK
<1>1. recipes' = recipes /\ now' = now /\ now \in Nat
  BY <1>0 DEF Dismiss, TypeOK
<1>2. CASE DismissFinished(j)
  <2> DEFINE term == Earlier(now + DeleteTerm, run[q].expires)
  <2>1. run[q].st \in {"successful", "failed"} /\ run' = run /\ job' = [job EXCEPT ![j].until = term]
    BY <1>2 DEF DismissFinished
  <2>2. term \in Nat /\ (run[q].expires >= now => term >= now)
    BY <1>0, <1>1, LimitsAssumption DEF RunRow, Earlier
  <2>3. job'[j].st = "there" /\ job'[j].run = q /\ job'[j].until = term /\ \A i \in Jobs \ {j} : job'[i] = job[i]
    BY <1>0, <2>1 DEF TypeOK, JobRow
  <2>4. run[q].expires >= now => Waiting(j)'
    BY <1>1, <2>2, <2>3 DEF Waiting
  <2> QED
    BY <1>0, <1>1, <2>1, <2>3, <2>4 DEF Marks
<1>3. CASE Cancel(j)
  <2>1. /\ run[q].st \notin {"successful", "failed"}
        /\ job' = [job EXCEPT ![j].dismissed = TRUE]
        /\ \/ run[q].st = "accepted" /\ run' = [run EXCEPT ![q].st = "dismissed"]
           \/ run[q].st = "running" /\ run' = [run EXCEPT ![q].cancel = TRUE]
           \/ run' = run
    BY <1>3 DEF Cancel
  <2>2. job'[j].st = "there" /\ job'[j].run = q /\ \A i \in Jobs \ {j} : job'[i] = job[i]
    BY <1>0, <2>1 DEF TypeOK, JobRow
  <2>3. \A r \in Runs \ {q} : run'[r] = run[r]
    BY <1>0, <2>1 DEF TypeOK
  <2>4. run'[q].st \in Rows /\ run'[q].key = run[q].key /\ (run'[q].st \in Active => run'[q].st = run[q].st)
    BY <1>0, <2>1 DEF TypeOK, RunRow
  <2> QED
    BY <1>0, <1>1, <2>1, <2>2, <2>3, <2>4 DEF Marks, Closed
<1> QED
  BY <1>2, <1>3 DEF Dismiss

LEMMA RestoreMarks ==
  ASSUME QueueInv, NEW j \in Jobs, Restore(j)
  PROVE  Marks(j)
<1> DEFINE q == job[j].run
<1>0. /\ TypeOK /\ job[j].st = "there" /\ q \in Runs /\ run[q].st \in Rows /\ job[j] \in JobRow
      /\ job[j].until > now /\ now \in Nat
      /\ job' = [job EXCEPT ![j].until = NoTerm] /\ run' = run /\ recipes' = recipes /\ now' = now
  BY DEF QueueInv, Restore, JobsHaveRuns, TypeOK
<1>1. ~job[j].dismissed
  BY <1>0 DEF QueueInv, TermWithinLife
<1>2. /\ job'[j].st = "there" /\ job'[j].run = q /\ job'[j].until = NoTerm /\ job'[j].dismissed = job[j].dismissed
      /\ \A i \in Jobs \ {j} : job'[i] = job[i]
  BY <1>0 DEF TypeOK, JobRow
<1>3. Alive(j)'
  BY <1>1, <1>2 DEF Alive
<1> QED
  BY <1>0, <1>2, <1>3 DEF Marks

LEMMA MarkingGoesOn ==
  ASSUME QueueInv, NEW j \in Jobs, Marks(j)
  PROVE  TablesGoOn
<1>1. \A q \in Runs : RowGoesOn(q)
  BY DEF Marks, RowGoesOn, Closed
<1>2. \A i \in Jobs : JobGoesOn(i)
  BY DEF Marks, JobGoesOn
<1>3. ASSUME NEW q \in Runs, NEW k, IsHit(q, k)
      PROVE  IsHit(q, k)'
  <2>1. run'[q] = run[q]
    BY <1>3 DEF Marks, IsHit, Closed
  <2>2. CASE job[j].run = q
    <3>1. run[q].expires >= now
      BY <1>3, LimitsAssumption DEF IsHit, QueueInv, TypeOK, RunRow
    <3>2. Alive(j)' \/ Waiting(j)'
      BY <1>3, <2>2, <3>1 DEF IsHit, Marks
    <3>3. Serves(q)'
      BY <2>2, <3>2 DEF Marks, Serves, Needed, On
    <3> QED
      BY <1>3, <2>1, <3>3 DEF IsHit, Marks
  <2>3. CASE job[j].run # q
    <3>1. On(q)' = On(q) /\ \A i \in On(q) : job'[i] = job[i]
      BY <2>3 DEF Marks, On
    <3> QED
      BY <1>3, <2>1, <3>1 DEF IsHit, Serves, Needed, Due, Alive, Waiting, Marks
  <2> QED
    BY <2>2, <2>3
<1> QED
  BY <1>1, <1>2, <1>3 DEF TablesGoOn, HitsStay

LEMMA BatchRowsGoOn ==
  ASSUME QueueInv, Cleanup
  PROVE  TablesGoOn
<1>0. PICK gone \in SUBSET Runs : BatchTakes(gone)
  BY BatchEffect
<1>1. ASSUME NEW q \in Runs
      PROVE  RowGoesOn(q) /\ (q \in gone => run'[q].st = "gone") /\ (q \notin gone => run'[q].st = run[q].st)
  BY <1>0 DEF BatchTakes, NoRunRow, RowGoesOn, Closed
<1>2. ASSUME NEW j \in Jobs
      PROVE  JobGoesOn(j)
  <2>1. CASE job'[j] = job[j]
    BY <2>1 DEF JobGoesOn
  <2>2. CASE job[j].st = "there" /\ job'[j].st = "gone" /\ (job[j].run \in gone \/ Due(j))
    <3>1. job[j].run \in Runs /\ (Due(j) => run[job[j].run].st \in {"successful", "failed"})
      BY <2>2 DEF QueueInv, JobsHaveRuns, TermWithinLife, Due
    <3> QED
      BY <1>1, <2>2, <3>1 DEF JobGoesOn, Closed
  <2> QED
    BY <1>0, <2>1, <2>2 DEF BatchTakes
<1>3. ASSUME NEW q \in Runs, NEW k, IsHit(q, k)
      PROVE  IsHit(q, k)'
  <2>1. q \in Joinable
    BY <1>3, LimitsAssumption DEF IsHit, Joinable, QueueInv, TypeOK, RunRow
  <2>2. q \in Joinable' /\ q \notin gone
    BY <1>0, <2>1 DEF BatchTakes
  <2> QED
    BY <1>0, <1>3, <2>2 DEF BatchTakes, IsHit, Joinable
<1> QED
  BY <1>1, <1>2, <1>3 DEF TablesGoOn, HitsStay

LEMMA StepGoesOn ==
  ASSUME QueueInv, CleanupNext
  PROVE  TablesGoOn
<1>1. ASSUME NEW r \in Runs, QueueStep(r) \/ \E a \in Attempts(r) : FinishSuccessful(r, a)
      PROVE  TablesGoOn
  BY <1>1, QueueStepIsOneRun, OneRowGoesOn DEF QueueInv
<1>2. ASSUME NEW j \in Jobs, ApiCall(j)
      PROVE  TablesGoOn
  BY <1>2, SubmitJoins, JoiningGoesOn, DismissMarks, RestoreMarks, MarkingGoesOn DEF ApiCall
<1>3. CASE Tick
  BY <1>3 DEF Tick, TablesGoOn, RowGoesOn, JobGoesOn, HitsStay, QueueInv, TypeOK
<1>4. CASE CleanupFails
  BY <1>4 DEF CleanupFails, queueVars, TablesGoOn, RowGoesOn, JobGoesOn, HitsStay, IsHit, Serves, Needed, On, Due,
     Alive, Waiting
<1> QED
  BY <1>1, <1>2, <1>3, <1>4, BatchRowsGoOn DEF CleanupNext, Deliver

-----------------------------------------------------------------------------
(* What a step leaves to the sessions it is not of *)

\* The row lock: neither the run nor an order on it is changed but by its holder, time apart.
LockHolds(t) ==
  t.pc \in Exclusive =>
    /\ run'[t.run].st = run[t.run].st /\ run'[t.run].key = run[t.run].key
    /\ run'[t.run].attempt = run[t.run].attempt /\ run'[t.run].expires = run[t.run].expires
    /\ run'[t.run].lease => run[t.run].lease
    /\ run[t.run].ready => run'[t.run].ready
    /\ \A j \in Jobs : job[j].run = t.run \/ job'[j].run = t.run => job'[j] = job[j]

\* The number an order has drawn is its own, and the unique index keeps its key free.
OrderHolds(t) ==
  /\ t.pc \in Ordering => job'[t.job].st = "none" /\ t.job \notin recipes'
  /\ t.pc = "newHeld" => ActiveWith(t.key)' = {}

\* The advisory lock: nothing starts to run but by its holder.
CountHolds(t) == t.pc \in {"claimCounted", "claimHeld"} => KeysRunning' \subseteq KeysRunning

HoldsLocks(t) == now' = now /\ LockHolds(t) /\ OrderHolds(t) /\ CountHolds(t)

LEMMA EndStays ==
  ASSUME NEW t, EndReady(t), HoldsLocks(t)
  PROVE  EndReady(t)'
<1>1. t.pc \in Exclusive => (Wanted(t.run)' <=> Wanted(t.run))
  <2> SUFFICES ASSUME t.pc \in Exclusive PROVE Wanted(t.run)' <=> Wanted(t.run)
    OBVIOUS
  <2>1. \A j \in Jobs : job[j].run = t.run \/ job'[j].run = t.run => job'[j] = job[j]
    BY DEF HoldsLocks, LockHolds
  <2> QED
    BY <2>1 DEF Wanted, On
<1>2. t.pc \in Ending \ {"end"} => EndMatches(t)'
  BY DEF HoldsLocks, LockHolds, EndReady, EndMatches, Owns, Ending, Exclusive
<1>3. t.pc = "endRead" => t.live = Wanted(t.run)'
  BY <1>1 DEF EndReady, Exclusive, Wanted
<1> QED
  BY <1>2, <1>3 DEF EndReady

LEMMA ClaimStays ==
  ASSUME NEW t, ClaimReady(t), HoldsLocks(t)
  PROVE  ClaimReady(t)'
BY DEF ClaimReady, HoldsLocks, LockHolds, CountHolds, FitsBeside, Exclusive

LEMMA OrderStays ==
  ASSUME NEW t \in Tx, OrderReady(t), HoldsLocks(t), TablesGoOn
  PROVE  OrderReady(t)'
<1>1. t.pc \in {"hit", "hitHeld"} => t.run \in Runs /\ IsHit(t.run, t.key)'
  <2> SUFFICES ASSUME t.pc \in {"hit", "hitHeld"} PROVE t.run \in Runs /\ IsHit(t.run, t.key)'
    OBVIOUS
  <2>1. t.run \in Runs /\ IsHit(t.run, t.key)
    BY DEF OrderReady
  <2>2. t.key \in Keys \cup Jobs
    BY <2>1, KeysAssumption DEF IsHit
  <2> QED
    BY <2>1, <2>2 DEF HoldsLocks, TablesGoOn, HitsStay
<1>2. t.pc \in {"attach", "attachHeld"} =>
        t.run \in Runs /\ run'[t.run].st # "none" /\ (run'[t.run].st = "gone" \/ run'[t.run].key = t.key)
  BY DEF OrderReady, TablesGoOn, RowGoesOn, Closed
<1>3. t.pc = "attachHeld" => run'[t.run].st \in Active
  BY DEF OrderReady, HoldsLocks, LockHolds, Exclusive
<1> QED
  BY <1>1, <1>2, <1>3 DEF OrderReady, HoldsLocks, OrderHolds

LEMMA KnownStays ==
  ASSUME QueueInv, QueueInv', NEW t, JobKnown(t), TablesGoOn
  PROVE  JobKnown(t)'
<1> SUFFICES ASSUME t.pc \in Dismissing \cup Restoring
             PROVE  /\ job'[t.job].st # "none" /\ run'[t.run].st # "none"
                    /\ job'[t.job].st = "there" => job'[t.job].run = t.run
                    /\ job'[t.job].st = "gone" => run'[t.run].st \in Closed
  BY DEF JobKnown
<1>1. /\ t.job \in Jobs /\ job[t.job].st # "none"
      /\ t.run \in Runs /\ run[t.run].st # "none"
      /\ job[t.job].st = "there" => job[t.job].run = t.run
      /\ job[t.job].st = "gone" => run[t.run].st \in Closed
  BY DEF JobKnown
<1>2. JobGoesOn(t.job) /\ RowGoesOn(t.run)
  BY <1>1 DEF TablesGoOn
<1>3. job[t.job].st \in {"there", "gone"}
  BY <1>1 DEF QueueInv, TypeOK, JobRow
<1> QED
  BY <1>1, <1>2, <1>3 DEF JobGoesOn, RowGoesOn, Closed

LEMMA DismissStays ==
  ASSUME NEW t, DismissReady(t), HoldsLocks(t)
  PROVE  DismissReady(t)'
<1>1. t.pc \in Dismissing \ {"dismiss"} => run'[t.run].st \in Rows
  BY DEF DismissReady, HoldsLocks, LockHolds, Exclusive, Dismissing
<1>2. ASSUME t.pc = "dismissCounted"
      PROVE  t.live = OthersLive(t.run, t.job)'
  <2>1. \A j \in Jobs : job[j].run = t.run \/ job'[j].run = t.run => job'[j] = job[j]
    BY <1>2 DEF HoldsLocks, LockHolds, Exclusive
  <2>2. OthersLive(t.run, t.job)' <=> OthersLive(t.run, t.job)
    BY <2>1 DEF OthersLive, On, Alive
  <2> QED
    BY <1>2, <2>2 DEF DismissReady, OthersLive
<1> QED
  BY <1>1, <1>2 DEF DismissReady

LEMMA ReadyStays ==
  ASSUME QueueInv, QueueInv', NEW t \in Tx, Ready(t), HoldsLocks(t), TablesGoOn
  PROVE  Ready(t)'
<1>1. RestoreReady(t)'
  BY DEF Ready, RestoreReady, HoldsLocks, LockHolds, Exclusive
<1> QED
  BY <1>1, EndStays, ClaimStays, OrderStays, KnownStays, DismissStays DEF Ready

\* A step touches the runs of Q only, and the orders on them.
TouchesOnly(Q) ==
  /\ \A q \in Runs \ Q : run'[q] = run[q]
  /\ \A j \in Jobs : \/ job'[j] = job[j]
                     \/ job[j].run \in Q \cup {NoRun} /\ job'[j].run \in Q \cup {NoRun}

LEMMA UntouchedHolds ==
  ASSUME NEW Q, TouchesOnly(Q), NEW t, t.pc \in Exclusive => t.run \in Runs \ Q
  PROVE  LockHolds(t)
BY RunsAssumption DEF TouchesOnly, LockHolds

\* Who holds a row holds one that exists.
LEMMA HeldRowsExist ==
  ASSUME NEW t, Ready(t), t.pc \in Exclusive \cup Share
  PROVE  t.run \in Runs /\ run[t.run].st # "none"
BY DEF Ready, EndReady, EndMatches, Owns, ClaimReady, OrderReady, IsHit, JobKnown, Ending, Dismissing, Restoring,
   Exclusive, Share

\* No new run, no run that starts: the orders on their way and the pick-up find what they found.
LEMMA QuietHolds ==
  ASSUME NEW t, Ready(t),
         \A q \in Runs : run'[q].st \in Active =>
           run[q].st \in Active /\ run'[q].key = run[q].key /\ (run'[q].st = "running" => run[q].st = "running"),
         \A j \in Jobs : job[j].st = "none" => job'[j].st = "none",
         recipes' \subseteq recipes
  PROVE  OrderHolds(t) /\ CountHolds(t)
<1>1. OrderHolds(t)
  BY DEF Ready, OrderReady, OrderHolds, ActiveWith
<1>2. CountHolds(t)
  BY DEF CountHolds, KeysRunning, Running
<1> QED
  BY <1>1, <1>2

\* What the commit of one session leaves to another.
Leaves(s) == \A v \in Sessions \ {s} : \A u \in Tx : u = tx[v] => HoldsLocks(u)

LEMMA EndLeaves ==
  ASSUME TxInv, NEW s \in Sessions, CommitEnd(s)
  PROVE  Leaves(s)
<1> SUFFICES ASSUME NEW v \in Sessions \ {s}, NEW u \in Tx, u = tx[v] PROVE HoldsLocks(u)
  BY DEF Leaves
<1> DEFINE r == tx[s].run
<1>1. Ready(u) /\ Apart(u, tx[s]) /\ Ready(tx[s]) /\ tx[s].pc = "endRead" /\ TypeOK
  BY DEF TxInv, NothingDangles, QueueInv, CommitEnd, At
<1>2. r \in Runs /\ run[r].st = "running" /\ run[r] \in RunRow /\ run \in [Runs -> RunRow]
  BY <1>1 DEF Ready, EndReady, EndMatches, Owns, Ending, TypeOK
<1>3. /\ job' = job /\ recipes' = recipes /\ now' = now
      /\ DismissRun(r) \/ Requeue(r, tx[s].how \in {"cancelled", "released"}) \/ FailRun(r)
  BY DEF CommitEnd
<1>4. run'[r].key = run[r].key /\ run'[r].st # "running" /\ \A q \in Runs \ {r} : run'[q] = run[q]
  <2>1. CASE DismissRun(r)
    BY <1>2, <2>1 DEF DismissRun, RunRow
  <2>2. ASSUME NEW rested, Requeue(r, rested)
        PROVE  run'[r].key = run[r].key /\ run'[r].st # "running" /\ \A q \in Runs \ {r} : run'[q] = run[q]
    BY <1>2, <2>2 DEF Requeue, RunRow
  <2>3. CASE FailRun(r)
    BY <1>2, <2>3 DEF FailRun, RunRow
  <2> QED
    BY <1>3, <2>1, <2>2, <2>3
<1>5. u.pc \in Exclusive => u.run \in Runs \ {r}
  BY <1>1, HeldRowsExist DEF Apart, Exclusive
<1>6. LockHolds(u)
  BY <1>3, <1>4, <1>5, UntouchedHolds DEF TouchesOnly
<1>7. OrderHolds(u) /\ CountHolds(u)
  BY <1>1, <1>2, <1>3, <1>4, QuietHolds
<1> QED
  BY <1>3, <1>6, <1>7 DEF HoldsLocks

LEMMA ClaimLeaves ==
  ASSUME TxInv, NEW s \in Sessions, CommitClaim(s)
  PROVE  Leaves(s)
<1> SUFFICES ASSUME NEW v \in Sessions \ {s}, NEW u \in Tx, u = tx[v] PROVE HoldsLocks(u)
  BY DEF Leaves
<1> DEFINE r == tx[s].run
<1>1. Ready(u) /\ Apart(u, tx[s]) /\ Ready(tx[s]) /\ tx[s].pc = "claimHeld" /\ TypeOK
  BY DEF TxInv, NothingDangles, QueueInv, CommitClaim, At
<1>2. r \in Runs /\ run[r].st = "accepted" /\ run[r] \in RunRow /\ run \in [Runs -> RunRow]
  BY <1>1 DEF Ready, ClaimReady, TypeOK
<1>3. job' = job /\ recipes' = recipes /\ now' = now
  BY DEF CommitClaim
<1>4. run'[r].key = run[r].key /\ \A q \in Runs \ {r} : run'[q] = run[q]
  BY <1>2 DEF CommitClaim, RunRow
<1>5. u.pc \in Exclusive => u.run \in Runs \ {r}
  BY <1>1, HeldRowsExist DEF Apart, Exclusive
<1>6. LockHolds(u)
  BY <1>3, <1>4, <1>5, UntouchedHolds DEF TouchesOnly
<1>7. OrderHolds(u) /\ CountHolds(u)
  <2>1. u.pc \notin {"claimCounted", "claimHeld"}
    BY <1>1 DEF Apart, Claiming
  <2>2. u.pc = "newHeld" => ActiveWith(u.key)' = {}
    <3> SUFFICES ASSUME u.pc = "newHeld", NEW q \in ActiveWith(u.key)' PROVE FALSE
      OBVIOUS
    <3>1. q \in ActiveWith(u.key)
      BY <1>2, <1>4 DEF ActiveWith
    <3> QED
      BY <1>1, <3>1 DEF Ready, OrderReady
  <2>3. u.pc \in Ordering => job'[u.job].st = "none" /\ u.job \notin recipes'
    BY <1>1, <1>3 DEF Ready, OrderReady
  <2> QED
    BY <2>1, <2>2, <2>3 DEF CountHolds, OrderHolds
<1> QED
  BY <1>3, <1>6, <1>7 DEF HoldsLocks

LEMMA SubmitLeaves ==
  ASSUME TxInv, NEW s \in Sessions, CommitSubmit(s)
  PROVE  Leaves(s)
<1> SUFFICES ASSUME NEW v \in Sessions \ {s}, NEW u \in Tx, u = tx[v] PROVE HoldsLocks(u)
  BY DEF Leaves
<1> DEFINE t == tx[s]
<1>1. /\ Ready(u) /\ Apart(u, t) /\ Apart(t, u) /\ Ready(t)
      /\ t.pc \in {"hitHeld", "attachHeld", "newHeld"}
      /\ run \in [Runs -> RunRow] /\ job \in [Jobs -> JobRow]
  BY DEF TxInv, NothingDangles, QueueInv, TypeOK, CommitSubmit, At
<1>2. t.job \in Jobs /\ job[t.job].st = "none" /\ job[t.job].run = NoRun
  BY <1>1 DEF Ready, OrderReady, Ordering, TxInv, NothingDangles, QueueInv, JobsHaveRuns
<1>3. PICK q \in Runs :
        /\ Place(t.job, q)
        /\ \A r \in Runs \ {q} : run'[r] = run[r]
        /\ \/ t.pc \in {"hitHeld", "attachHeld"} /\ q = t.run /\ run'[q].st = run[q].st /\ run'[q].key = run[q].key
           \/ t.pc = "newHeld" /\ run[q].st = "none" /\ run'[q].st = "accepted" /\ run'[q].key = t.key
  <2>1. CASE t.pc = "hitHeld"
    BY <1>1, <2>1, HeldRowsExist DEF CommitSubmit, At, Share
  <2>2. CASE t.pc = "attachHeld"
    <3>1. t.run \in Runs /\ run[t.run] \in RunRow
      BY <1>1, <2>2, HeldRowsExist DEF Exclusive
    <3>2. Place(t.job, t.run) /\ run' = [run EXCEPT ![t.run].cancel = FALSE]
      BY <2>2 DEF CommitSubmit, At
    <3> QED
      BY <1>1, <2>2, <3>1, <3>2 DEF RunRow
  <2>3. CASE t.pc = "newHeld"
    <3>1. PICK q \in Runs : run[q].st = "none" /\ run' = [run EXCEPT ![q] = NewRun(t.key, t.job)] /\ Place(t.job, q)
      BY <2>3 DEF CommitSubmit, At
    <3>2. NewRun(t.key, t.job).st = "accepted" /\ NewRun(t.key, t.job).key = t.key
      BY DEF NewRun, NoRunRow
    <3> QED
      BY <1>1, <2>3, <3>1, <3>2
  <2> QED
    BY <1>1, <2>1, <2>2, <2>3
<1>4. /\ job'[t.job].run = q /\ \A j \in Jobs \ {t.job} : job'[j] = job[j]
      /\ recipes' = recipes \cup {t.job} /\ now' = now
  BY <1>1, <1>2, <1>3 DEF Place, NoJobRow
<1>5. u.pc \in Exclusive => u.run \in Runs \ {q}
  BY <1>1, <1>3, HeldRowsExist DEF Apart, Exclusive, Share
<1>6. LockHolds(u)
  BY <1>2, <1>3, <1>4, <1>5, UntouchedHolds DEF TouchesOnly
<1>7. CountHolds(u)
  BY <1>3 DEF CountHolds, KeysRunning, Running
<1>8. OrderHolds(u)
  <2>1. ASSUME u.pc \in Ordering
        PROVE  job'[u.job].st = "none" /\ u.job \notin recipes'
    <3>1. u.job \in Jobs /\ job[u.job].st = "none" /\ u.job \notin recipes /\ u.job # t.job
      BY <1>1, <2>1 DEF Ready, OrderReady, Apart, Ordering
    <3> QED
      BY <1>4, <3>1
  <2>2. ASSUME u.pc = "newHeld"
        PROVE  ActiveWith(u.key)' = {}
    <3>1. ActiveWith(u.key) = {}
      BY <1>1, <2>2 DEF Ready, OrderReady
    <3>2. t.pc = "newHeld" => t.key # u.key
      BY <1>1, <2>2 DEF Apart
    <3> QED
      BY <1>3, <3>1, <3>2 DEF ActiveWith
  <2> QED
    BY <2>1, <2>2 DEF OrderHolds
<1> QED
  BY <1>4, <1>6, <1>7, <1>8 DEF HoldsLocks

LEMMA DismissLeaves ==
  ASSUME TxInv, NEW s \in Sessions, CommitDismiss(s)
  PROVE  Leaves(s)
<1> SUFFICES ASSUME NEW v \in Sessions \ {s}, NEW u \in Tx, u = tx[v] PROVE HoldsLocks(u)
  BY DEF Leaves
<1> DEFINE r == tx[s].run
           j == tx[s].job
<1>1. /\ Ready(u) /\ Apart(u, tx[s]) /\ Ready(tx[s]) /\ tx[s].pc = "dismissCounted"
      /\ run \in [Runs -> RunRow] /\ job \in [Jobs -> JobRow] /\ JobsHaveRuns
  BY DEF TxInv, NothingDangles, QueueInv, TypeOK, CommitDismiss, At
<1>2. /\ r \in Runs /\ run[r].st # "none" /\ j \in Jobs /\ run[r] \in RunRow /\ job[j] \in JobRow
      /\ job[j].st = "there" => job[j].run = r
  BY <1>1 DEF Ready, JobKnown, Dismissing
<1>3. recipes' = recipes /\ now' = now
  BY DEF CommitDismiss
<1>4. /\ \A i \in Jobs \ {j} : job'[i] = job[i]
      /\ job'[j].run = job[j].run /\ job'[j].st = job[j].st
      /\ job'[j] = job[j] \/ job[j].st = "there"
  <2>1. CASE DeleteJob(r, j)
    BY <1>1, <1>2, <2>1 DEF DeleteJob, JobRow
  <2>2. CASE CancelJob(r, j, tx[s].live)
    BY <1>1, <1>2, <2>2 DEF CancelJob, JobRow
  <2> QED
    BY <2>1, <2>2 DEF CommitDismiss
<1>5. /\ \A q \in Runs \ {r} : run'[q] = run[q]
      /\ run'[r].key = run[r].key /\ (run'[r].st \in Active => run'[r].st = run[r].st)
  <2>1. \/ run' = run
        \/ run' = [run EXCEPT ![r].st = "dismissed"]
        \/ run' = [run EXCEPT ![r].cancel = TRUE]
    BY DEF CommitDismiss, DeleteJob, CancelJob
  <2> QED
    BY <1>1, <1>2, <2>1 DEF RunRow
<1>6. u.pc \in Exclusive => u.run \in Runs \ {r}
  BY <1>1, HeldRowsExist DEF Apart, Exclusive
<1>7. LockHolds(u)
  BY <1>2, <1>4, <1>5, <1>6, UntouchedHolds DEF TouchesOnly
<1>8. OrderHolds(u) /\ CountHolds(u)
  BY <1>1, <1>2, <1>3, <1>4, <1>5, QuietHolds
<1> QED
  BY <1>3, <1>7, <1>8 DEF HoldsLocks

LEMMA RestoreLeaves ==
  ASSUME TxInv, NEW s \in Sessions, CommitRestore(s)
  PROVE  Leaves(s)
<1> SUFFICES ASSUME NEW v \in Sessions \ {s}, NEW u \in Tx, u = tx[v] PROVE HoldsLocks(u)
  BY DEF Leaves
<1> DEFINE r == tx[s].run
           j == tx[s].job
<1>1. /\ Ready(u) /\ Apart(u, tx[s]) /\ Ready(tx[s]) /\ tx[s].pc = "restoreHeld"
      /\ job \in [Jobs -> JobRow] /\ TermWithinLife /\ now \in Nat
  BY DEF TxInv, NothingDangles, QueueInv, TypeOK, CommitRestore, At
<1>2. r \in Runs /\ j \in Jobs /\ job[j] \in JobRow /\ (job[j].st = "there" => job[j].run = r)
  BY <1>1 DEF Ready, JobKnown, Restoring
<1>3. run' = run /\ recipes' = recipes /\ now' = now
  BY DEF CommitRestore
<1>4. job[j].until > now => job[j].st = "there"
  BY <1>1, <1>2 DEF TermWithinLife
<1>5. /\ \A i \in Jobs \ {j} : job'[i] = job[i]
      /\ job'[j].run = job[j].run /\ job'[j].st = job[j].st
      /\ job'[j] = job[j] \/ job[j].st = "there"
  BY <1>1, <1>2, <1>4 DEF CommitRestore, JobRow
<1>6. u.pc \in Exclusive => u.run \in Runs \ {r}
  BY <1>1, HeldRowsExist DEF Apart, Exclusive
<1>7. LockHolds(u)
  BY <1>2, <1>3, <1>5, <1>6, UntouchedHolds DEF TouchesOnly
<1>8. OrderHolds(u) /\ CountHolds(u)
  BY <1>1, <1>3, <1>5, QuietHolds
<1> QED
  BY <1>3, <1>7, <1>8 DEF HoldsLocks

\* A transaction of one statement waits for the row like any other.
LEMMA StatementLeaves ==
  ASSUME TxInv, NEW r \in Runs, OneStatement(r), NEW s \in Sessions, NEW u \in Tx, u = tx[s]
  PROVE  HoldsLocks(u)
<1>1. Ready(u) /\ TypeOK /\ Free(r)
  BY DEF TxInv, NothingDangles, QueueInv, OneStatement
<1>2. PICK a \in Attempts(r) : FinishSuccessful(r, a) \/ Heartbeat(r, a)
  BY DEF OneStatement, Deliver
<1>3. OneRun(r)
  BY <1>1, <1>2, QueueStepIsOneRun DEF QueueStep, WorkerCall
<1>4. run'[r].st = "running" => run[r].st = "running"
  BY <1>2 DEF FinishSuccessful, Heartbeat, Owns
<1>5. u.pc \in Exclusive => u.run \in Runs \ {r}
  BY <1>1, HeldRowsExist DEF Free, Updating
<1>6. LockHolds(u)
  BY <1>3, <1>5, UntouchedHolds DEF OneRun, TouchesOnly
<1>7. OrderHolds(u) /\ CountHolds(u)
  BY <1>1, <1>3, <1>4, QuietHolds DEF OneRun
<1> QED
  BY <1>3, <1>6, <1>7 DEF HoldsLocks, OneRun

LEMMA BatchLeaves ==
  ASSUME TxInv, CleanupAlone, NEW s \in Sessions, NEW u \in Tx, u = tx[s]
  PROVE  HoldsLocks(u)
<1>1. Ready(u) /\ QueueInv
  BY DEF TxInv, NothingDangles
<1>2. QueueInv' /\ \E gone \in SUBSET Runs : BatchTakes(gone)
  BY <1>1, BatchEffect DEF CleanupAlone
<1>3. PICK gone \in SUBSET Runs : BatchTakes(gone)
  BY <1>2
<1> DEFINE Q == {r \in Runs : run'[r] # run[r] \/ \E j \in On(r) : job'[j] # job[j]}
<1>4. TouchesOnly(Q)
  <2>1. ASSUME NEW j \in Jobs, job'[j] # job[j]
        PROVE  job[j].run \in Q /\ job'[j].run = NoRun
    <3>1. job[j].st = "there" /\ job'[j].st = "gone"
      BY <1>3, <2>1 DEF BatchTakes
    <3>2. job[j].run \in Runs /\ j \in On(job[j].run)
      BY <1>1, <3>1 DEF QueueInv, JobsHaveRuns, On
    <3>3. job'[j].run = NoRun
      BY <1>2, <3>1 DEF QueueInv, JobsHaveRuns
    <3> QED
      BY <2>1, <3>2, <3>3
  <2> QED
    BY <2>1 DEF TouchesOnly
<1>5. u.pc \in Exclusive => u.run \in Runs \ Q
  BY <1>1, HeldRowsExist DEF CleanupAlone, Free, Updating
<1>6. LockHolds(u)
  BY <1>4, <1>5, UntouchedHolds
<1>7. /\ \A q \in Runs : run'[q].st \in Active =>
           run[q].st \in Active /\ run'[q].key = run[q].key /\ (run'[q].st = "running" => run[q].st = "running")
      /\ \A j \in Jobs : job[j].st = "none" => job'[j].st = "none"
      /\ recipes' \subseteq recipes /\ now' = now
  BY <1>3 DEF BatchTakes, NoRunRow
<1>8. OrderHolds(u) /\ CountHolds(u)
  BY <1>1, <1>7, QuietHolds
<1> QED
  BY <1>6, <1>7, <1>8 DEF HoldsLocks

LEMMA TimeLeaves ==
  ASSUME TxInv, Time, NEW s \in Sessions, NEW u \in Tx, u = tx[s]
  PROVE  u.pc = "idle" \/ HoldsLocks(u)
<1>1. Ready(u) /\ TypeOK
  BY DEF TxInv, NothingDangles, QueueInv
<1>2. ASSUME NEW r \in Runs, LeaseRunsOut(r) \/ BackoffEnds(r)
      PROVE  HoldsLocks(u)
  <2>0. run \in [Runs -> RunRow] /\ run[r] \in RunRow
    BY <1>1 DEF TypeOK
  <2>1. /\ run'[r].st = run[r].st /\ run'[r].key = run[r].key
        /\ run'[r].attempt = run[r].attempt /\ run'[r].expires = run[r].expires
        /\ run'[r].lease => run[r].lease
        /\ run[r].ready => run'[r].ready
        /\ \A q \in Runs \ {r} : run'[q] = run[q]
        /\ job' = job /\ recipes' = recipes /\ now' = now
    <3>1. CASE LeaseRunsOut(r)
      BY <2>0, <3>1 DEF LeaseRunsOut, RunRow
    <3>2. CASE BackoffEnds(r)
      BY <2>0, <3>2 DEF BackoffEnds, RunRow
    <3> QED
      BY <1>2, <3>1, <3>2
  <2>2. u.pc \in Exclusive => u.run \in Runs
    BY <1>1, HeldRowsExist
  <2>3. LockHolds(u)
    <3>1. CASE u.run = r
      BY <2>1, <3>1 DEF LockHolds
    <3>2. CASE u.run # r
      BY <2>1, <2>2, <3>2 DEF LockHolds
    <3> QED
      BY <3>1, <3>2
  <2>4. OrderHolds(u) /\ CountHolds(u)
    BY <1>1, <2>1, QuietHolds
  <2> QED
    BY <2>1, <2>3, <2>4 DEF HoldsLocks
<1> QED
  BY <1>2 DEF Time, At

-----------------------------------------------------------------------------
(* Every step keeps what the sessions rely on *)

LEMMA IdleIsReady ==
  /\ \A t : t.pc \in {"idle", "claim", "claimLocked"} => Ready(t) /\ Ready(t)'
  /\ IdleTx.pc = "idle" /\ IdleTx \in Tx
  /\ \A t, u : t.pc \in {"idle", "claim"} \/ u.pc \in {"idle", "claim"} => Apart(t, u)
<1>1. IdleTx.pc = "idle" /\ IdleTx \in Tx
  BY DEF IdleTx, Tx
<1>2. \A t, u : t.pc \in {"idle", "claim"} \/ u.pc \in {"idle", "claim"} => Apart(t, u)
  BY DEF Apart, Exclusive, Share, Claiming, Ordering
<1>3. \A t : t.pc \in {"idle", "claim", "claimLocked"} => Ready(t) /\ Ready(t)'
  BY DEF Ready, EndReady, ClaimReady, OrderReady, JobKnown, DismissReady, RestoreReady, Ending, Ordering, Dismissing,
     Restoring
<1> QED
  BY <1>1, <1>2, <1>3

LEMMA WritingKeepsInv ==
  ASSUME TxInv, TxNext, TxTypeOK',
         \A v \in Sessions : \A u \in Tx : u = tx[v] =>
           tx'[v] = IdleTx \/ (tx'[v] = u /\ (u.pc = "idle" \/ HoldsLocks(u)))
  PROVE  TxInv'
<1>1. CleanupNext \/ UNCHANGED cleanupVars
  BY StatementIsStep
<1>2. NothingDangles'
  BY <1>1, StepDangles DEF TxInv
<1>3. QueueInv /\ QueueInv'
  BY <1>2 DEF TxInv, NothingDangles
<1>4. TablesGoOn
  <2>1. CASE UNCHANGED cleanupVars
    BY <2>1 DEF cleanupVars, TablesGoOn, RowGoesOn, JobGoesOn, HitsStay, IsHit, Serves, Needed, On, Due, Alive, Waiting
  <2> QED
    BY <1>1, <1>3, <2>1, StepGoesOn
<1>5. ASSUME NEW v \in Sessions, NEW t, t = tx'[v]
      PROVE  Ready(t)'
  <2>1. tx[v] \in Tx
    BY DEF TxInv, TxTypeOK
  <2>2. PICK u \in Tx : u = tx[v]
    BY <2>1
  <2>3. Ready(u)
    BY <2>2 DEF TxInv
  <2>4. CASE t.pc = "idle"
    BY <2>4, IdleIsReady
  <2>5. CASE t = u /\ HoldsLocks(u)
    BY <1>3, <1>4, <2>3, <2>5, ReadyStays
  <2> QED
    BY <1>5, <2>2, <2>4, <2>5, IdleIsReady
<1>6. \A v \in Sessions : Ready(tx[v])'
  <2> TAKE v \in Sessions
  <2>1. PICK t : t = tx'[v]
    OBVIOUS
  <2>2. Ready(t)'
    BY <1>5, <2>1
  <2> QED
    BY <2>1, <2>2
<1>7. \A s \in Sessions : \A v \in Sessions \ {s} : Apart(tx'[s], tx'[v])
  <2> SUFFICES ASSUME NEW s \in Sessions, NEW v \in Sessions \ {s} PROVE Apart(tx'[s], tx'[v])
    OBVIOUS
  <2>1. tx[s] \in Tx /\ tx[v] \in Tx /\ Apart(tx[s], tx[v])
    BY DEF TxInv, TxTypeOK
  <2>2. CASE tx'[s] = tx[s] /\ tx'[v] = tx[v]
    BY <2>1, <2>2
  <2>3. CASE tx'[s] = IdleTx \/ tx'[v] = IdleTx
    BY <2>3, IdleIsReady
  <2> QED
    BY <2>1, <2>2, <2>3
<1> QED
  BY <1>2, <1>6, <1>7 DEF TxInv

\* A statement that only reads: the facts of the other sessions are about the tables, and of
\* their own the new ones hold.
LEMMA SameIsReady ==
  ASSUME UNCHANGED cleanupVars, NEW t, Ready(t)
  PROVE  Ready(t)'
<1>1. run' = run /\ job' = job /\ recipes' = recipes /\ now' = now
  BY DEF cleanupVars
<1>2. EndReady(t)'
  BY <1>1 DEF Ready, EndReady, EndMatches, Owns, Wanted, On
<1>3. ClaimReady(t)'
  BY <1>1 DEF Ready, ClaimReady, KeysRunning, Running, FitsBeside
<1>4. OrderReady(t)'
  BY <1>1 DEF Ready, OrderReady, IsHit, Serves, Needed, On, Due, Alive, Waiting, ActiveWith
<1>5. JobKnown(t)' /\ RestoreReady(t)'
  BY <1>1 DEF Ready, JobKnown, RestoreReady
<1>6. DismissReady(t)'
  BY <1>1 DEF Ready, DismissReady, OthersLive, On, Alive
<1> QED
  BY <1>2, <1>3, <1>4, <1>5, <1>6 DEF Ready

StandsApart(y, s) == \A v \in Sessions \ {s} : Apart(y, tx[v]) /\ Apart(tx[v], y)

LEMMA ReadingKeepsInv ==
  ASSUME TxInv, NEW s \in Sessions, UNCHANGED cleanupVars,
         NEW y \in Tx, tx' = [tx EXCEPT ![s] = y], Ready(y), StandsApart(y, s)
  PROVE  TxInv'
<1>0. tx \in [Sessions -> Tx]
  BY DEF TxInv, TxTypeOK
<1>1. NothingDangles'
  BY StepDangles DEF TxInv
<1>2. TxTypeOK'
  BY <1>0 DEF TxTypeOK
<1>3. tx'[s] = y /\ \A v \in Sessions \ {s} : tx'[v] = tx[v]
  BY <1>0
<1>4. \A v \in Sessions : Ready(tx[v])'
  <2> TAKE v \in Sessions
  <2>1. PICK t : t = tx'[v]
    OBVIOUS
  <2>2. Ready(t)
    BY <1>3, <2>1 DEF TxInv
  <2>3. Ready(t)'
    BY <2>2, SameIsReady
  <2> QED
    BY <2>1, <2>3
<1>5. \A v \in Sessions : \A w \in Sessions \ {v} : Apart(tx'[v], tx'[w])
  BY <1>3 DEF TxInv, StandsApart
<1> QED
  BY <1>1, <1>2, <1>4, <1>5 DEF TxInv

\* A session that goes on to pc, or is done.
LEMMA GoesTo ==
  ASSUME TxTypeOK, NEW s \in Sessions, NEW pc, Goto(s, pc)
  PROVE  /\ tx' = [tx EXCEPT ![s] = [tx[s] EXCEPT !.pc = pc]]
         /\ [tx[s] EXCEPT !.pc = pc].pc = pc
         /\ [tx[s] EXCEPT !.pc = pc].run = tx[s].run /\ [tx[s] EXCEPT !.pc = pc].job = tx[s].job
         /\ [tx[s] EXCEPT !.pc = pc].key = tx[s].key /\ [tx[s] EXCEPT !.pc = pc].att = tx[s].att
         /\ [tx[s] EXCEPT !.pc = pc].how = tx[s].how /\ [tx[s] EXCEPT !.pc = pc].live = tx[s].live
         /\ [tx[s] EXCEPT !.pc = pc].seen = tx[s].seen /\ [tx[s] EXCEPT !.pc = pc].round = tx[s].round
BY DEF TxTypeOK, Goto, Tx

LEMMA EndingKeepsInv ==
  ASSUME TxInv, NEW s \in Sessions, End(s), UNCHANGED cleanupVars
  PROVE  TxInv'
<1>1. IdleTx \in Tx /\ Ready(IdleTx) /\ StandsApart(IdleTx, s)
  BY IdleIsReady DEF StandsApart
<1>2. PICK y \in Tx : y = IdleTx
  BY <1>1
<1> QED
  BY <1>1, <1>2, ReadingKeepsInv DEF End

LEMMA EndReads ==
  ASSUME TxInv, NEW s \in Sessions, BeginEnd(s) \/ LockEnd(s) \/ ReadEnd(s)
  PROVE  TxInv'
<1>0. tx[s] \in Tx /\ Ready(tx[s]) /\ StandsApart(tx[s], s) /\ UNCHANGED cleanupVars /\ TxTypeOK
  BY DEF TxInv, TxTypeOK, StandsApart, BeginEnd, LockEnd, ReadEnd, Reading
<1>1. CASE BeginEnd(s)
  <2>1. PICK r \in Runs, how \in Hows : \E a \in Attempts(r) :
          LET t == [IdleTx EXCEPT !.pc = "end", !.run = r, !.att = a, !.how = how, !.live = Wanted(r)]
          IN  EndMatches(t) /\ Begin(s, t) /\ Reading
    BY <1>1 DEF BeginEnd
  <2>2. PICK a \in Attempts(r) :
          Begin(s, [IdleTx EXCEPT !.pc = "end", !.run = r, !.att = a, !.how = how, !.live = Wanted(r)])
    BY <2>1
  <2>3. PICK y : y = [IdleTx EXCEPT !.pc = "end", !.run = r, !.att = a, !.how = how, !.live = Wanted(r)]
    OBVIOUS
  <2>4. a \in Nat \ {0} /\ Wanted(r) \in BOOLEAN
    BY DEF Attempts, Wanted, TxInv, NothingDangles, QueueInv, TypeOK, RunRow
  <2>5. y.pc = "end" /\ y.run = r /\ y.att = a /\ y.how = how
    BY <2>3 DEF IdleTx
  <2>6. y \in Tx
    <3>1. y = [pc |-> "end", run |-> r, job |-> NoRun, key |-> NoKey, att |-> a, how |-> how,
               live |-> Wanted(r), seen |-> {}, round |-> 0]
      BY <2>3 DEF IdleTx
    <3> QED
      BY <2>4, <3>1 DEF Tx
  <2>7. Ready(y)
    BY <2>4, <2>5 DEF Ready, EndReady, ClaimReady, OrderReady, JobKnown, DismissReady, RestoreReady, Ending, Ordering,
       Dismissing, Restoring
  <2>8. StandsApart(y, s)
    BY <2>5 DEF StandsApart, Apart, Exclusive, Share, Claiming, Ordering
  <2> QED
    BY <1>0, <2>2, <2>3, <2>6, <2>7, <2>8, ReadingKeepsInv DEF Begin
<1>2. CASE LockEnd(s) /\ EndMatches(tx[s])
  <2>1. PICK y : y = [tx[s] EXCEPT !.pc = "endHeld"]
    OBVIOUS
  <2>2. Goto(s, "endHeld") /\ tx[s].pc = "end" /\ Free(tx[s].run)
    BY <1>2 DEF LockEnd, At
  <2>3. /\ tx' = [tx EXCEPT ![s] = y]
        /\ y.pc = "endHeld" /\ y.run = tx[s].run /\ y.att = tx[s].att /\ y.how = tx[s].how
    BY <1>0, <2>1, <2>2, GoesTo
  <2>4. y \in Tx
    BY <1>0, <2>1 DEF Tx
  <2>5. Ready(y)
    BY <1>0, <1>2, <2>2, <2>3 DEF Ready, EndReady, EndMatches, ClaimReady, OrderReady, JobKnown, DismissReady,
       RestoreReady, Ending, Ordering, Dismissing, Restoring
  <2>6. StandsApart(y, s)
    BY <2>2, <2>3 DEF StandsApart, Apart, Exclusive, Share, Claiming, Ordering, Free, Updating, Sharing
  <2> QED
    BY <1>0, <2>3, <2>4, <2>5, <2>6, ReadingKeepsInv
<1>3. CASE LockEnd(s) /\ ~EndMatches(tx[s])
  BY <1>0, <1>3, EndingKeepsInv DEF LockEnd
<1>4. CASE ReadEnd(s)
  <2>1. PICK y : y = [tx[s] EXCEPT !.pc = "endRead", !.live = Wanted(tx[s].run)]
    OBVIOUS
  <2>2. tx[s].pc = "endHeld" /\ tx' = [tx EXCEPT ![s] = y]
    BY <1>0, <1>4, <2>1 DEF ReadEnd, At, TxTypeOK, Tx
  <2>3. Wanted(tx[s].run) \in BOOLEAN
    BY DEF Wanted
  <2>4. y \in Tx /\ y.pc = "endRead" /\ y.run = tx[s].run /\ y.att = tx[s].att /\ y.how = tx[s].how
        /\ y.live = Wanted(tx[s].run)
    BY <1>0, <2>1, <2>3 DEF Tx
  <2>5. Ready(y)
    BY <1>0, <2>2, <2>4 DEF Ready, EndReady, EndMatches, ClaimReady, OrderReady, JobKnown, DismissReady,
       RestoreReady, Ending, Ordering, Dismissing, Restoring
  <2>6. StandsApart(y, s)
    BY <1>0, <2>2, <2>4 DEF StandsApart, Apart, Exclusive, Share, Claiming, Ordering
  <2> QED
    BY <1>0, <2>2, <2>4, <2>5, <2>6, ReadingKeepsInv
<1> QED
  BY <1>1, <1>2, <1>3, <1>4

LEMMA ClaimReads ==
  ASSUME TxInv, NEW s \in Sessions, BeginClaim(s) \/ LockClaim(s) \/ CountRunning(s) \/ TakeRun(s)
  PROVE  TxInv'
<1>0. tx[s] \in Tx /\ Ready(tx[s]) /\ StandsApart(tx[s], s) /\ UNCHANGED cleanupVars /\ TxTypeOK
  BY DEF TxInv, TxTypeOK, StandsApart, BeginClaim, LockClaim, CountRunning, TakeRun, Reading
<1>k. KeysRunning \in SUBSET (Keys \cup Jobs \cup {NoKey}) /\ IsFiniteSet(KeysRunning)
  <2> DEFINE keyOf == [r \in Running |-> run[r].key]
  <2>1. KeysRunning \in SUBSET (Keys \cup Jobs \cup {NoKey})
    BY DEF TxInv, NothingDangles, QueueInv, TypeOK, RunRow, KeysRunning, Running
  <2>2. keyOf \in Surjection(Running, KeysRunning)
    BY DEF KeysRunning, Surjection
  <2> QED
    BY <2>1, <2>2, RunningFinite, FS_Surjection
<1>1. CASE BeginClaim(s)
  <2>1. PICK y : y = [IdleTx EXCEPT !.pc = "claim", !.seen = KeysRunning]
    OBVIOUS
  <2>2. y \in Tx /\ y.pc = "claim"
    <3>1. y = [pc |-> "claim", run |-> NoRun, job |-> NoRun, key |-> NoKey, att |-> 0, how |-> "none",
               live |-> FALSE, seen |-> KeysRunning, round |-> 0]
      BY <2>1 DEF IdleTx
    <3> QED
      BY <1>k, <3>1 DEF Tx
  <2>3. Ready(y) /\ StandsApart(y, s)
    BY <2>2, IdleIsReady DEF StandsApart
  <2> QED
    BY <1>0, <1>1, <2>1, <2>2, <2>3, ReadingKeepsInv DEF BeginClaim, Begin
<1>2. CASE LockClaim(s)
  <2>1. PICK y : y = [tx[s] EXCEPT !.pc = "claimLocked"]
    OBVIOUS
  <2>2. Goto(s, "claimLocked") /\ \A v \in Sessions : tx[v].pc \notin Claiming
    BY <1>2 DEF LockClaim, Claiming
  <2>3. tx' = [tx EXCEPT ![s] = y] /\ y.pc = "claimLocked"
    BY <1>0, <2>1, <2>2, GoesTo
  <2>4. y \in Tx /\ Ready(y)
    BY <1>0, <2>1, <2>3, IdleIsReady DEF Tx
  <2>5. StandsApart(y, s)
    BY <2>2, <2>3 DEF StandsApart, Apart, Exclusive, Share, Claiming, Ordering
  <2> QED
    BY <1>0, <2>3, <2>4, <2>5, ReadingKeepsInv
<1>3. CASE CountRunning(s)
  <2>1. PICK y : y = [tx[s] EXCEPT !.pc = "claimCounted", !.seen = KeysRunning]
    OBVIOUS
  <2>2. tx[s].pc = "claimLocked" /\ tx' = [tx EXCEPT ![s] = y]
    BY <1>0, <1>3, <2>1 DEF CountRunning, At, TxTypeOK, Tx
  <2>3. y \in Tx /\ y.pc = "claimCounted" /\ y.seen = KeysRunning
    BY <1>0, <1>k, <2>1 DEF Tx
  <2>4. Ready(y)
    BY <1>k, <2>3 DEF Ready, EndReady, ClaimReady, OrderReady, JobKnown, DismissReady, RestoreReady, Ending,
       Ordering, Dismissing, Restoring
  <2>5. StandsApart(y, s)
    BY <1>0, <2>2, <2>3 DEF StandsApart, Apart, Exclusive, Share, Claiming, Ordering
  <2> QED
    BY <1>0, <2>2, <2>3, <2>4, <2>5, ReadingKeepsInv
<1>4. ASSUME NEW r \in Runs,
             run[r].st = "accepted" /\ run[r].ready /\ run[r].attempt < ClaimBound,
             Free(r) /\ FitsBeside(r, tx[s].seen), tx[s].pc = "claimCounted",
             tx' = [tx EXCEPT ![s].pc = "claimHeld", ![s].run = r]
      PROVE  TxInv'
  <2>1. PICK y : y = [tx[s] EXCEPT !.pc = "claimHeld", !.run = r]
    OBVIOUS
  <2>2. tx' = [tx EXCEPT ![s] = y]
    BY <1>0, <1>4, <2>1 DEF TxTypeOK, Tx
  <2>3. y \in Tx /\ y.pc = "claimHeld" /\ y.run = r /\ y.seen = tx[s].seen
    BY <1>0, <2>1 DEF Tx
  <2>4. ClaimReady(y)
    BY <1>0, <1>4, <2>3 DEF Ready, ClaimReady
  <2>5. Ready(y)
    BY <2>3, <2>4 DEF Ready, EndReady, OrderReady, JobKnown, DismissReady, RestoreReady, Ending, Ordering, Dismissing,
       Restoring
  <2>6. StandsApart(y, s)
    BY <1>0, <1>4, <2>3 DEF StandsApart, Apart, Exclusive, Share, Claiming, Ordering, Free, Updating, Sharing
  <2> QED
    BY <1>0, <2>2, <2>3, <2>5, <2>6, ReadingKeepsInv
<1>5. CASE TakeRun(s)
  BY <1>0, <1>4, <1>5, EndingKeepsInv DEF TakeRun, At
<1> QED
  BY <1>1, <1>2, <1>3, <1>5

\* An order that goes on with its number and its key.
LEMMA OrderGoesOn ==
  ASSUME TxInv, NEW s \in Sessions, UNCHANGED cleanupVars, tx[s].pc \in Ordering,
         NEW y \in Tx, tx' = [tx EXCEPT ![s] = y],
         y.pc \in Ordering, y.job = tx[s].job, y.key = tx[s].key,
         y.pc \in {"hit", "hitHeld"} => y.run \in Runs /\ IsHit(y.run, y.key),
         y.pc = "hitHeld" => Updating(y.run) = {},
         y.pc = "attachHeld" => Free(y.run) /\ run[y.run].st \in Active,
         y.pc \in {"attach", "attachHeld"} =>
           y.run \in Runs /\ run[y.run].st # "none" /\ (run[y.run].st = "gone" \/ run[y.run].key = y.key),
         y.pc = "newHeld" =>
           ActiveWith(y.key) = {} /\ \A v \in Sessions : tx[v].pc = "newHeld" => tx[v].key # y.key
  PROVE  TxInv'
<1>0. tx[s] \in Tx /\ Ready(tx[s]) /\ StandsApart(tx[s], s)
  BY DEF TxInv, TxTypeOK, StandsApart
<1>1. OrderReady(y)
  BY <1>0 DEF Ready, OrderReady
<1>2. Ready(y)
  BY <1>1 DEF Ready, EndReady, ClaimReady, JobKnown, DismissReady, RestoreReady, Ending, Ordering, Dismissing, Restoring
<1>3. StandsApart(y, s)
  <2> SUFFICES ASSUME NEW v \in Sessions \ {s} PROVE Apart(y, tx[v]) /\ Apart(tx[v], y)
    BY DEF StandsApart
  <2>1. Apart(tx[s], tx[v]) /\ Apart(tx[v], tx[s])
    BY <1>0 DEF StandsApart
  <2>2. y.pc \notin Claiming /\ (y.pc \in Exclusive => y.pc = "attachHeld") /\ (y.pc \in Share => y.pc = "hitHeld")
    BY DEF Ordering, Claiming, Exclusive, Share
  <2>3. /\ ~(y.pc \in Exclusive /\ tx[v].pc \in Exclusive \cup Share /\ tx[v].run = y.run)
        /\ ~(tx[v].pc \in Exclusive /\ y.pc \in Exclusive \cup Share /\ tx[v].run = y.run)
    BY <2>2 DEF Free, Updating, Sharing
  <2> QED
    BY <2>1, <2>2, <2>3 DEF Apart
<1> QED
  BY <1>2, <1>3, ReadingKeepsInv

LEMMA NextRoundKeepsInv ==
  ASSUME TxInv, NEW s \in Sessions, UNCHANGED cleanupVars, tx[s].pc \in Ordering, NextRound(s)
  PROVE  TxInv'
<1>0. tx[s] \in Tx /\ TxTypeOK
  BY DEF TxInv, TxTypeOK
<1>1. CASE tx[s].round = 3
  BY <1>1, EndingKeepsInv DEF NextRound
<1>2. CASE tx[s].round # 3
  <2>1. PICK y : y = [tx[s] EXCEPT !.pc = "look", !.run = NoRun, !.round = @ + 1]
    OBVIOUS
  <2>2. tx' = [tx EXCEPT ![s] = y]
    BY <1>0, <1>2, <2>1 DEF NextRound, TxTypeOK, Tx
  <2>3. tx[s].round + 1 \in 0 .. 3
    BY <1>0, <1>2 DEF Tx
  <2>4. y \in Tx /\ y.pc = "look" /\ y.job = tx[s].job /\ y.key = tx[s].key
    BY <1>0, <2>1, <2>3 DEF Tx
  <2> QED
    BY <2>2, <2>4, OrderGoesOn DEF Ordering
<1> QED
  BY <1>1, <1>2

LEMMA OrderReads ==
  ASSUME TxInv, NEW s \in Sessions,
         BeginSubmit(s) \/ Look(s) \/ LockHit(s) \/ Insert(s) \/ FindActive(s) \/ LockActive(s)
  PROVE  TxInv'
<1>0. tx[s] \in Tx /\ Ready(tx[s]) /\ UNCHANGED cleanupVars /\ TxTypeOK
  BY DEF TxInv, TxTypeOK, BeginSubmit, Look, LockHit, Insert, FindActive, LockActive, Reading
\* The order goes on with the run it has.
<1>g. ASSUME NEW pc \in Ordering, Goto(s, pc), tx[s].pc \in Ordering
      PROVE  \E y \in Tx : /\ tx' = [tx EXCEPT ![s] = y] /\ y.pc = pc /\ y.job = tx[s].job /\ y.key = tx[s].key
                           /\ y.run = tx[s].run
  <2>1. PICK y : y = [tx[s] EXCEPT !.pc = pc]
    OBVIOUS
  <2>2. y \in Tx
    BY <1>0, <1>g, <2>1 DEF Tx, Ordering
  <2> QED
    BY <1>0, <1>g, <2>1, <2>2, GoesTo
\* The order goes on with a run it has found.
<1>r. ASSUME NEW pc \in Ordering, NEW r \in Runs, tx[s].pc \in Ordering,
             tx' = [tx EXCEPT ![s].pc = pc, ![s].run = r]
      PROVE  \E y \in Tx : /\ tx' = [tx EXCEPT ![s] = y] /\ y.pc = pc /\ y.job = tx[s].job /\ y.key = tx[s].key
                           /\ y.run = r
  <2>1. PICK y : y = [tx[s] EXCEPT !.pc = pc, !.run = r]
    OBVIOUS
  <2>2. y \in Tx /\ y.pc = pc /\ y.job = tx[s].job /\ y.key = tx[s].key /\ y.run = r
    BY <1>0, <1>r, <2>1 DEF Tx, Ordering
  <2>3. tx' = [tx EXCEPT ![s] = y]
    BY <1>0, <1>r, <2>1 DEF TxTypeOK, Tx
  <2> QED
    BY <2>2, <2>3
<1>1. CASE BeginSubmit(s)
  <2>1. PICK j \in Jobs, k \in Keys \cup Jobs :
          /\ k \in Keys \cup {j} /\ job[j].st = "none" /\ j \notin recipes
          /\ \A v \in Sessions : tx[v].pc # "idle" => tx[v].job # j
          /\ Begin(s, [IdleTx EXCEPT !.pc = "look", !.job = j, !.key = k, !.round = 1])
    BY <1>1 DEF BeginSubmit
  <2>2. PICK y : y = [IdleTx EXCEPT !.pc = "look", !.job = j, !.key = k, !.round = 1]
    OBVIOUS
  <2>3. y = [pc |-> "look", run |-> NoRun, job |-> j, key |-> k, att |-> 0, how |-> "none",
             live |-> FALSE, seen |-> {}, round |-> 1]
    BY <2>2 DEF IdleTx
  <2>4. y \in Tx /\ y.pc = "look" /\ y.job = j /\ y.key = k
    BY <2>3 DEF Tx
  <2>5. Ready(y)
    BY <2>1, <2>4 DEF Ready, EndReady, ClaimReady, OrderReady, JobKnown, DismissReady, RestoreReady, Ending, Ordering,
       Dismissing, Restoring
  <2>6. StandsApart(y, s)
    BY <2>1, <2>4 DEF StandsApart, Apart, Exclusive, Share, Claiming, Ordering
  <2> QED
    BY <1>0, <2>1, <2>2, <2>4, <2>5, <2>6, ReadingKeepsInv DEF Begin
<1>2. CASE Look(s)
  <2>0. tx[s].pc = "look" /\ tx[s].pc \in Ordering
    BY <1>2 DEF Look, At, Ordering
  <2>1. ASSUME NEW r \in Hits(tx[s].key), tx' = [tx EXCEPT ![s].pc = "hit", ![s].run = r]
        PROVE  TxInv'
    <3>1. r \in Runs /\ IsHit(r, tx[s].key)
      BY <2>1 DEF Hits
    <3>2. PICK y \in Tx : /\ tx' = [tx EXCEPT ![s] = y] /\ y.pc = "hit" /\ y.job = tx[s].job /\ y.key = tx[s].key
                          /\ y.run = r
      BY <1>r, <2>0, <2>1, <3>1 DEF Ordering
    <3> QED
      BY <1>0, <2>0, <3>1, <3>2, OrderGoesOn DEF Ordering
  <2>2. CASE Goto(s, "insert")
    <3>1. PICK y \in Tx : tx' = [tx EXCEPT ![s] = y] /\ y.pc = "insert" /\ y.job = tx[s].job /\ y.key = tx[s].key
      BY <1>g, <2>0, <2>2 DEF Ordering
    <3> QED
      BY <1>0, <2>0, <3>1, OrderGoesOn DEF Ordering
  <2> QED
    BY <1>2, <2>1, <2>2 DEF Look
<1>3. CASE LockHit(s)
  <2>0. tx[s].pc = "hit" /\ tx[s].pc \in Ordering /\ Updating(tx[s].run) = {}
    BY <1>3 DEF LockHit, At, Ordering
  <2>1. tx[s].run \in Runs /\ IsHit(tx[s].run, tx[s].key)
    BY <1>0, <2>0 DEF Ready, OrderReady
  <2>2. Goto(s, "hitHeld")
    BY <1>3, <2>1 DEF LockHit, IsHit
  <2>3. PICK y \in Tx : /\ tx' = [tx EXCEPT ![s] = y] /\ y.pc = "hitHeld" /\ y.job = tx[s].job /\ y.key = tx[s].key
                        /\ y.run = tx[s].run
    BY <1>g, <2>0, <2>2 DEF Ordering
  <2> QED
    BY <1>0, <2>0, <2>1, <2>3, OrderGoesOn DEF Ordering
<1>4. CASE Insert(s)
  <2>0. tx[s].pc = "insert" /\ tx[s].pc \in Ordering
    BY <1>4 DEF Insert, At, Ordering
  <2>1. CASE ActiveWith(tx[s].key) = {}
    <3>1. /\ Goto(s, "newHeld")
          /\ \A v \in Sessions : tx[v].pc = "newHeld" => tx[v].key # tx[s].key
      BY <1>4, <2>1 DEF Insert, At
    <3>2. PICK y \in Tx : tx' = [tx EXCEPT ![s] = y] /\ y.pc = "newHeld" /\ y.job = tx[s].job /\ y.key = tx[s].key
      BY <1>g, <2>0, <3>1 DEF Ordering
    <3> QED
      BY <1>0, <2>0, <2>1, <3>1, <3>2, OrderGoesOn DEF Ordering
  <2>2. CASE ActiveWith(tx[s].key) # {}
    <3>1. Goto(s, "conflict")
      BY <1>4, <2>2 DEF Insert
    <3>2. PICK y \in Tx : tx' = [tx EXCEPT ![s] = y] /\ y.pc = "conflict" /\ y.job = tx[s].job /\ y.key = tx[s].key
      BY <1>g, <2>0, <3>1 DEF Ordering
    <3> QED
      BY <1>0, <2>0, <3>2, OrderGoesOn DEF Ordering
  <2> QED
    BY <2>1, <2>2
<1>5. CASE FindActive(s)
  <2>0. tx[s].pc = "conflict" /\ tx[s].pc \in Ordering
    BY <1>5 DEF FindActive, At, Ordering
  <2>1. ASSUME NEW r \in ActiveWith(tx[s].key), tx' = [tx EXCEPT ![s].pc = "attach", ![s].run = r]
        PROVE  TxInv'
    <3>1. r \in Runs /\ run[r].st \in Active /\ run[r].key = tx[s].key
      BY <2>1 DEF ActiveWith
    <3>2. PICK y \in Tx : /\ tx' = [tx EXCEPT ![s] = y] /\ y.pc = "attach" /\ y.job = tx[s].job /\ y.key = tx[s].key
                          /\ y.run = r
      BY <1>r, <2>0, <2>1, <3>1 DEF Ordering
    <3> QED
      BY <1>0, <2>0, <3>1, <3>2, OrderGoesOn DEF Ordering
  <2> QED
    BY <1>0, <1>5, <2>0, <2>1, NextRoundKeepsInv DEF FindActive
<1>6. CASE LockActive(s)
  <2>0. tx[s].pc = "attach" /\ tx[s].pc \in Ordering /\ Free(tx[s].run)
    BY <1>6 DEF LockActive, At, Ordering
  <2>1. CASE run[tx[s].run].st \in Active
    <3>1. Goto(s, "attachHeld")
      BY <1>6, <2>1 DEF LockActive
    <3>2. PICK y \in Tx : /\ tx' = [tx EXCEPT ![s] = y] /\ y.pc = "attachHeld" /\ y.job = tx[s].job
                          /\ y.key = tx[s].key /\ y.run = tx[s].run
      BY <1>g, <2>0, <3>1 DEF Ordering
    <3>3. tx[s].run \in Runs /\ run[tx[s].run].st # "none" /\ (run[tx[s].run].st = "gone" \/ run[tx[s].run].key = tx[s].key)
      BY <1>0, <2>0 DEF Ready, OrderReady
    <3> QED
      BY <1>0, <2>0, <2>1, <3>2, <3>3, OrderGoesOn DEF Ordering
  <2>2. CASE run[tx[s].run].st \notin Active
    BY <1>0, <1>6, <2>0, <2>2, NextRoundKeepsInv DEF LockActive
  <2> QED
    BY <2>1, <2>2
<1> QED
  BY <1>1, <1>2, <1>3, <1>4, <1>5, <1>6

\* A dismissal or a restore that has found its order, and then has its run.
LEMMA CallGoesOn ==
  ASSUME TxInv, NEW s \in Sessions, UNCHANGED cleanupVars, NEW y \in Tx, tx' = [tx EXCEPT ![s] = y],
         y.pc \in Dismissing \cup Restoring, JobKnown(y), DismissReady(y), RestoreReady(y),
         y.pc \in Exclusive => \A v \in Sessions \ {s} : tx[v].pc \in Exclusive \cup Share => tx[v].run # y.run
  PROVE  TxInv'
<1>1. Ready(y)
  BY DEF Ready, EndReady, ClaimReady, OrderReady, Ending, Ordering, Dismissing, Restoring
<1>2. StandsApart(y, s)
  <2>1. y.pc \notin Claiming /\ y.pc \notin Ordering /\ y.pc \notin Share
    BY DEF Dismissing, Restoring, Claiming, Ordering, Share
  <2> QED
    BY <2>1 DEF StandsApart, Apart, Ordering
<1> QED
  BY <1>1, <1>2, ReadingKeepsInv

LEMMA CallReads ==
  ASSUME TxInv, NEW s \in Sessions,
         BeginDismiss(s) \/ LockDismiss(s) \/ CountLive(s) \/ BeginRestore(s) \/ LockRestore(s)
  PROVE  TxInv'
<1>0. /\ tx[s] \in Tx /\ Ready(tx[s]) /\ UNCHANGED cleanupVars /\ TxTypeOK
      /\ StandsApart(tx[s], s) /\ JobsHaveRuns
  BY DEF TxInv, TxTypeOK, StandsApart, NothingDangles, QueueInv, BeginDismiss, LockDismiss, CountLive, BeginRestore,
     LockRestore, Reading
<1>g. ASSUME NEW pc \in {"dismissHeld", "restoreHeld"}, Goto(s, pc)
      PROVE  \E y \in Tx : /\ tx' = [tx EXCEPT ![s] = y] /\ y.pc = pc /\ y.job = tx[s].job /\ y.run = tx[s].run
  <2>1. PICK y : y = [tx[s] EXCEPT !.pc = pc]
    OBVIOUS
  <2>2. y \in Tx
    BY <1>0, <2>1 DEF Tx
  <2> QED
    BY <1>0, <1>g, <2>1, <2>2, GoesTo
<1>f. Free(tx[s].run) => \A v \in Sessions : tx[v].pc \in Exclusive \cup Share => tx[v].run # tx[s].run
  BY DEF Free, Updating, Sharing
\* The order is there, and so is its run.
<1>k. ASSUME NEW j \in Jobs, job[j].st = "there", NEW y, y.pc \in Dismissing \cup Restoring, y.job = j, y.run = job[j].run
      PROVE  JobKnown(y)
  BY <1>0, <1>k DEF JobKnown, JobsHaveRuns
<1>1. CASE BeginDismiss(s)
  <2>1. PICK j \in Jobs :
          /\ job[j].st = "there"
          /\ Begin(s, [IdleTx EXCEPT !.pc = "dismiss", !.job = j, !.run = job[j].run, !.live = OthersLive(job[j].run, j)])
    BY <1>1 DEF BeginDismiss
  <2>2. job[j].run \in Runs /\ OthersLive(job[j].run, j) \in BOOLEAN
    BY <1>0, <2>1 DEF JobsHaveRuns, OthersLive
  <2>3. PICK y : y = [IdleTx EXCEPT !.pc = "dismiss", !.job = j, !.run = job[j].run, !.live = OthersLive(job[j].run, j)]
    OBVIOUS
  <2>4. y = [pc |-> "dismiss", run |-> job[j].run, job |-> j, key |-> NoKey, att |-> 0, how |-> "none",
             live |-> OthersLive(job[j].run, j), seen |-> {}, round |-> 0]
    BY <2>3 DEF IdleTx
  <2>5. y \in Tx /\ y.pc = "dismiss" /\ y.job = j /\ y.run = job[j].run
    BY <2>2, <2>4 DEF Tx
  <2>6. JobKnown(y) /\ DismissReady(y) /\ RestoreReady(y) /\ y.pc \in Dismissing /\ y.pc \notin Exclusive
    BY <1>k, <2>1, <2>5 DEF DismissReady, RestoreReady, Dismissing, Exclusive
  <2> QED
    BY <1>0, <2>1, <2>3, <2>5, <2>6, CallGoesOn DEF Begin
<1>2. CASE LockDismiss(s)
  <2>0. tx[s].pc = "dismiss" /\ Free(tx[s].run)
    BY <1>2 DEF LockDismiss, At
  <2>1. CASE run[tx[s].run].st \in Rows
    <3>1. Goto(s, "dismissHeld")
      BY <1>2, <2>1 DEF LockDismiss
    <3>2. PICK y \in Tx : tx' = [tx EXCEPT ![s] = y] /\ y.pc = "dismissHeld" /\ y.job = tx[s].job /\ y.run = tx[s].run
      BY <1>g, <3>1
    <3>3. JobKnown(y)
      BY <1>0, <2>0, <3>2 DEF Ready, JobKnown, Dismissing
    <3>4. DismissReady(y) /\ RestoreReady(y) /\ y.pc \in Dismissing
      BY <2>1, <3>2 DEF DismissReady, RestoreReady, Dismissing
    <3> QED
      BY <1>0, <1>f, <2>0, <3>2, <3>3, <3>4, CallGoesOn
  <2>2. CASE run[tx[s].run].st \notin Rows
    BY <1>0, <1>2, <2>2, EndingKeepsInv DEF LockDismiss
  <2> QED
    BY <2>1, <2>2
<1>3. CASE CountLive(s)
  <2>0. tx[s].pc = "dismissHeld" /\ OthersLive(tx[s].run, tx[s].job) \in BOOLEAN
    BY <1>3 DEF CountLive, At, OthersLive
  <2>1. PICK y : y = [tx[s] EXCEPT !.pc = "dismissCounted", !.live = OthersLive(tx[s].run, tx[s].job)]
    OBVIOUS
  <2>2. tx' = [tx EXCEPT ![s] = y]
    BY <1>0, <1>3, <2>1 DEF CountLive, TxTypeOK, Tx
  <2>3. /\ y \in Tx /\ y.pc = "dismissCounted" /\ y.job = tx[s].job /\ y.run = tx[s].run
        /\ y.live = OthersLive(tx[s].run, tx[s].job)
    BY <1>0, <2>0, <2>1 DEF Tx
  <2>4. JobKnown(y)
    BY <1>0, <2>0, <2>3 DEF Ready, JobKnown, Dismissing
  <2>5. DismissReady(y) /\ RestoreReady(y) /\ y.pc \in Dismissing
    BY <1>0, <2>0, <2>3 DEF Ready, DismissReady, RestoreReady, Dismissing
  <2>6. \A v \in Sessions \ {s} : tx[v].pc \in Exclusive \cup Share => tx[v].run # y.run
    BY <1>0, <2>0, <2>3 DEF StandsApart, Apart, Exclusive
  <2> QED
    BY <1>0, <2>2, <2>3, <2>4, <2>5, <2>6, CallGoesOn
<1>4. CASE BeginRestore(s)
  <2>1. PICK j \in Jobs :
          /\ job[j].st = "there"
          /\ Begin(s, [IdleTx EXCEPT !.pc = "restore", !.job = j, !.run = job[j].run])
    BY <1>4 DEF BeginRestore
  <2>2. job[j].run \in Runs
    BY <1>0, <2>1 DEF JobsHaveRuns
  <2>3. PICK y : y = [IdleTx EXCEPT !.pc = "restore", !.job = j, !.run = job[j].run]
    OBVIOUS
  <2>4. y = [pc |-> "restore", run |-> job[j].run, job |-> j, key |-> NoKey, att |-> 0, how |-> "none",
             live |-> FALSE, seen |-> {}, round |-> 0]
    BY <2>3 DEF IdleTx
  <2>5. y \in Tx /\ y.pc = "restore" /\ y.job = j /\ y.run = job[j].run
    BY <2>2, <2>4 DEF Tx
  <2>6. JobKnown(y) /\ DismissReady(y) /\ RestoreReady(y) /\ y.pc \in Restoring /\ y.pc \notin Exclusive
    BY <1>k, <2>1, <2>5 DEF DismissReady, RestoreReady, Restoring, Dismissing, Exclusive
  <2> QED
    BY <1>0, <2>1, <2>3, <2>5, <2>6, CallGoesOn DEF Begin
<1>5. CASE LockRestore(s)
  <2>0. tx[s].pc = "restore" /\ Free(tx[s].run)
    BY <1>5 DEF LockRestore, At
  <2>1. CASE run[tx[s].run].expires > now
    <3>1. Goto(s, "restoreHeld")
      BY <1>5, <2>1 DEF LockRestore
    <3>2. PICK y \in Tx : tx' = [tx EXCEPT ![s] = y] /\ y.pc = "restoreHeld" /\ y.job = tx[s].job /\ y.run = tx[s].run
      BY <1>g, <3>1
    <3>3. JobKnown(y)
      BY <1>0, <2>0, <3>2 DEF Ready, JobKnown, Restoring
    <3>4. DismissReady(y) /\ RestoreReady(y) /\ y.pc \in Restoring
      BY <2>1, <3>2 DEF DismissReady, RestoreReady, Dismissing, Restoring
    <3> QED
      BY <1>0, <1>f, <2>0, <3>2, <3>3, <3>4, CallGoesOn
  <2>2. CASE ~(run[tx[s].run].expires > now)
    BY <1>0, <1>5, <2>2, EndingKeepsInv DEF LockRestore
  <2> QED
    BY <2>1, <2>2
<1> QED
  BY <1>1, <1>2, <1>3, <1>4, <1>5

LEMMA CommitKeepsInv ==
  ASSUME TxInv, TxNext, NEW s \in Sessions, Commit(s)
  PROVE  TxInv'
<1>1. Leaves(s)
  BY EndLeaves, ClaimLeaves, SubmitLeaves, DismissLeaves, RestoreLeaves DEF Commit
<1>2. tx' = [tx EXCEPT ![s] = IdleTx] /\ tx \in [Sessions -> Tx]
  BY DEF Commit, CommitEnd, CommitClaim, CommitSubmit, CommitDismiss, CommitRestore, End, TxInv, TxTypeOK
<1>3. TxTypeOK'
  BY <1>2, IdleIsReady DEF TxTypeOK
<1>4. \A v \in Sessions : \A u \in Tx : u = tx[v] => tx'[v] = IdleTx \/ (tx'[v] = u /\ HoldsLocks(u))
  BY <1>1, <1>2 DEF Leaves
<1> QED
  BY <1>3, <1>4, WritingKeepsInv

LEMMA TxNextInv == TxInv /\ [TxNext]_txVars => TxInv'
<1> SUFFICES ASSUME TxInv, [TxNext]_txVars PROVE TxInv'
  OBVIOUS
<1>0. TxTypeOK
  BY DEF TxInv
<1>1. ASSUME NEW s \in Sessions,
             \/ BeginEnd(s) \/ LockEnd(s) \/ ReadEnd(s)
             \/ BeginClaim(s) \/ LockClaim(s) \/ CountRunning(s) \/ TakeRun(s)
             \/ BeginSubmit(s) \/ Look(s) \/ LockHit(s) \/ Insert(s) \/ FindActive(s) \/ LockActive(s)
             \/ BeginDismiss(s) \/ LockDismiss(s) \/ CountLive(s)
             \/ BeginRestore(s) \/ LockRestore(s)
      PROVE  TxInv'
  BY <1>1, EndReads, ClaimReads, OrderReads, CallReads
<1>2. ASSUME NEW s \in Sessions, Commit(s), TxNext
      PROVE  TxInv'
  BY <1>2, CommitKeepsInv
<1>3. ASSUME TxNext, UNCHANGED tx,
             \A s \in Sessions : \A u \in Tx : u = tx[s] => u.pc = "idle" \/ HoldsLocks(u)
      PROVE  TxInv'
  <2>1. TxTypeOK'
    BY <1>0, <1>3 DEF TxTypeOK
  <2> QED
    BY <1>3, <2>1, WritingKeepsInv
<1>4. ASSUME TxNext, NEW r \in Runs, OneStatement(r)
      PROVE  TxInv'
  BY <1>3, <1>4, StatementLeaves DEF OneStatement
<1>5. ASSUME TxNext, CleanupAlone
      PROVE  TxInv'
  BY <1>3, <1>5, BatchLeaves DEF CleanupAlone
<1>6. ASSUME TxNext, Time
      PROVE  TxInv'
  BY <1>3, <1>6, TimeLeaves DEF Time
<1>7. CASE UNCHANGED txVars
  <2>1. UNCHANGED cleanupVars /\ tx' = tx
    BY <1>7 DEF txVars, cleanupVars
  <2>2. NothingDangles'
    BY <2>1, StepDangles DEF TxInv
  <2>3. \A v \in Sessions : Ready(tx[v])'
    <3> TAKE v \in Sessions
    <3>1. PICK t : t = tx'[v]
      OBVIOUS
    <3>2. Ready(t)'
      BY <2>1, <3>1, SameIsReady DEF TxInv
    <3> QED
      BY <3>1, <3>2
  <2>4. \A s \in Sessions : \A v \in Sessions \ {s} : Apart(tx'[s], tx'[v])
    BY <2>1 DEF TxInv
  <2> QED
    BY <1>0, <2>1, <2>2, <2>3, <2>4 DEF TxInv, TxTypeOK
<1> QED
  BY <1>1, <1>2, <1>4, <1>5, <1>6, <1>7 DEF TxNext

LEMMA TxInitInv == TxInit => TxInv
<1> SUFFICES ASSUME TxInit PROVE TxInv
  OBVIOUS
<1>1. NothingDangles
  BY InitDangles DEF TxInit
<1>2. \A s \in Sessions : tx[s] = IdleTx
  BY DEF TxInit
<1>3. TxTypeOK
  BY IdleIsReady DEF TxInit, TxTypeOK
<1> QED
  BY <1>1, <1>2, <1>3, IdleIsReady DEF TxInv

-----------------------------------------------------------------------------
(* The theorems *)

\* Between any two statements of any transactions the tables are whole, and what a session
\* has locked or counted is still as it read it (queue.py, submit.py).
THEOREM SessionsAreTold == TxSpec => []TxInv
BY TxInitInv, TxNextInv, PTL DEF TxSpec

\* Every transaction, however its statements fall between those of others, changes the tables as
\* one step of JobCleanup does: what is proved of JobQueue and JobCleanup holds of the statements.
THEOREM TransactionsAreSteps == TxSpec => StatementsMakeSteps
<1>1. TxInv /\ [TxNext]_txVars => [UNCHANGED cleanupVars \/ CleanupNext]_cleanupVars
  BY StatementIsStep DEF txVars, cleanupVars
<1> QED
  BY <1>1, SessionsAreTold, PTL DEF TxSpec, StatementsMakeSteps

\* The statements implement JobCleanup, and with it the promise to a caller.
THEOREM StatementsImplement == TxSpec => CleanupSpec
<1>1. TxInit => CleanupInit
  BY DEF TxInit
<1>2. [UNCHANGED cleanupVars \/ CleanupNext]_cleanupVars => [CleanupNext]_cleanupVars
  OBVIOUS
<1> QED
  BY <1>1, <1>2, TransactionsAreSteps, PTL DEF TxSpec, CleanupSpec, StatementsMakeSteps

THEOREM StatementsKeepThePromise == TxSpec => []NothingDangles /\ PromiseKept
BY StatementsImplement, NothingEverDangles, PromiseIsKept, PTL

=============================================================================
