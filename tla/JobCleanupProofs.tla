-------------------------- MODULE JobCleanupProofs --------------------------
(* Theorems about the queue with its clean-up, for any number of runs and  *)
(* orders, any terms and any size of a batch.                              *)
EXTENDS JobCleanup, FiniteSetTheorems, TLAPS

USE DEF Active, Over, Rows, NoTerm, NoResult, NoKey

-----------------------------------------------------------------------------
(* The queue alone *)

\* What the transactions write is a row of the table.
LEMMA RowUpdates ==
  ASSUME NEW x \in RunRow, NEW st \in Rows, NEW cancel \in BOOLEAN, NEW lease \in BOOLEAN,
         NEW ready \in BOOLEAN, NEW attempt \in Nat, NEW result \in Nat, NEW expires \in Nat
  PROVE  /\ [x EXCEPT !.st = st, !.attempt = attempt, !.lease = lease] \in RunRow
         /\ [x EXCEPT !.st = st, !.result = result, !.lease = lease, !.cancel = cancel,
                      !.expires = expires] \in RunRow
         /\ [x EXCEPT !.st = st, !.lease = lease, !.cancel = cancel] \in RunRow
         /\ [x EXCEPT !.st = st, !.lease = lease, !.cancel = cancel, !.ready = ready] \in RunRow
         /\ [x EXCEPT !.st = st, !.lease = lease, !.cancel = cancel, !.expires = expires] \in RunRow
         /\ [x EXCEPT !.st = st] \in RunRow
         /\ [x EXCEPT !.lease = lease] \in RunRow
         /\ [x EXCEPT !.cancel = cancel] \in RunRow
         /\ [x EXCEPT !.ready = ready] \in RunRow
<1>1. [x EXCEPT !.st = st, !.attempt = attempt, !.lease = lease] \in RunRow
  BY Zenon DEF RunRow
<1>2. [x EXCEPT !.st = st, !.result = result, !.lease = lease, !.cancel = cancel,
                      !.expires = expires] \in RunRow
  BY Zenon DEF RunRow
<1>3. [x EXCEPT !.st = st, !.lease = lease, !.cancel = cancel] \in RunRow
  BY Zenon DEF RunRow
<1>4. [x EXCEPT !.st = st, !.lease = lease, !.cancel = cancel, !.ready = ready] \in RunRow
  BY Zenon DEF RunRow
<1>5. [x EXCEPT !.st = st, !.lease = lease, !.cancel = cancel, !.expires = expires] \in RunRow
  BY Zenon DEF RunRow
<1>6. [x EXCEPT !.st = st] \in RunRow
  BY Zenon DEF RunRow
<1>7. [x EXCEPT !.lease = lease] \in RunRow
  BY Zenon DEF RunRow
<1>8. [x EXCEPT !.cancel = cancel] \in RunRow
  BY Zenon DEF RunRow
<1>9. [x EXCEPT !.ready = ready] \in RunRow
  BY Zenon DEF RunRow
<1> QED
  BY <1>1, <1>2, <1>3, <1>4, <1>5, <1>6, <1>7, <1>8, <1>9

THEOREM InitInv == Init => QueueInv
<1> SUFFICES ASSUME Init PROVE QueueInv
  OBVIOUS
<1>1. TypeOK
  BY RunsAssumption DEF Init, TypeOK, RunRow, JobRow, NoRunRow, NoJobRow
<1>2. JobsHaveRuns
  BY DEF Init, JobsHaveRuns, NoJobRow
<1>3. OneActivePerKey /\ WorkIsWanted /\ ResultOfTheOwner
  BY DEF Init, OneActivePerKey, WorkIsWanted, ResultOfTheOwner, NoRunRow
<1>4. NobodyElseCancels /\ TermWithinLife
  BY DEF Init, NobodyElseCancels, TermWithinLife, NoJobRow
<1> QED
  BY <1>1, <1>2, <1>3, <1>4 DEF QueueInv

LEMMA ClaimInv ==
  ASSUME QueueInv, NEW r \in Runs, Claim(r)
  PROVE  QueueInv'
<1>1. TypeOK'
  <2>1. run[r] \in RunRow /\ now + ResultTTL \in Nat
    BY LimitsAssumption DEF QueueInv, TypeOK
  <2>2. run[r].attempt + 1 \in Nat
    BY <2>1 DEF RunRow
  <2> QED
    BY <2>1, <2>2, RowUpdates DEF QueueInv, TypeOK, Claim
<1>2. JobsHaveRuns'
  BY DEF QueueInv, TypeOK, RunRow, JobRow, Claim, JobsHaveRuns
<1>3. OneActivePerKey'
  BY DEF QueueInv, TypeOK, RunRow, JobRow, Claim, OneActivePerKey
<1>4. WorkIsWanted'
  BY DEF QueueInv, TypeOK, RunRow, JobRow, Claim, WorkIsWanted, Wanted, On
<1>5. NobodyElseCancels'
  BY DEF QueueInv, TypeOK, RunRow, JobRow, Claim, NobodyElseCancels, JobsHaveRuns
<1>6. TermWithinLife'
  BY DEF QueueInv, TypeOK, RunRow, JobRow, Claim, TermWithinLife, JobsHaveRuns
<1>7. ResultOfTheOwner'
  BY DEF QueueInv, TypeOK, RunRow, JobRow, Claim, ResultOfTheOwner
<1> QED
  BY <1>1, <1>2, <1>3, <1>4, <1>5, <1>6, <1>7 DEF QueueInv

LEMMA HeartbeatInv ==
  ASSUME QueueInv, NEW r \in Runs, NEW a \in Nat, Heartbeat(r, a)
  PROVE  QueueInv'
<1>1. TypeOK'
  <2>1. run[r] \in RunRow /\ now + ResultTTL \in Nat
    BY LimitsAssumption DEF QueueInv, TypeOK
  <2> QED
    BY <2>1, RowUpdates DEF QueueInv, TypeOK, Heartbeat
<1>2. JobsHaveRuns'
  BY DEF QueueInv, TypeOK, RunRow, JobRow, Heartbeat, Owns, JobsHaveRuns
<1>3. OneActivePerKey'
  BY DEF QueueInv, TypeOK, RunRow, JobRow, Heartbeat, Owns, OneActivePerKey
<1>4. WorkIsWanted'
  BY DEF QueueInv, TypeOK, RunRow, JobRow, Heartbeat, Owns, WorkIsWanted, Wanted, On
<1>5. NobodyElseCancels'
  BY DEF QueueInv, TypeOK, RunRow, JobRow, Heartbeat, Owns, NobodyElseCancels, JobsHaveRuns
<1>6. TermWithinLife'
  BY DEF QueueInv, TypeOK, RunRow, JobRow, Heartbeat, Owns, TermWithinLife, JobsHaveRuns
<1>7. ResultOfTheOwner'
  BY DEF QueueInv, TypeOK, RunRow, JobRow, Heartbeat, Owns, ResultOfTheOwner
<1> QED
  BY <1>1, <1>2, <1>3, <1>4, <1>5, <1>6, <1>7 DEF QueueInv

LEMMA LeaseRunsOutInv ==
  ASSUME QueueInv, NEW r \in Runs, LeaseRunsOut(r)
  PROVE  QueueInv'
<1>1. TypeOK'
  <2>1. run[r] \in RunRow /\ now + ResultTTL \in Nat
    BY LimitsAssumption DEF QueueInv, TypeOK
  <2> QED
    BY <2>1, RowUpdates DEF QueueInv, TypeOK, LeaseRunsOut
<1>2. JobsHaveRuns'
  BY DEF QueueInv, TypeOK, RunRow, JobRow, LeaseRunsOut, JobsHaveRuns
<1>3. OneActivePerKey'
  BY DEF QueueInv, TypeOK, RunRow, JobRow, LeaseRunsOut, OneActivePerKey
<1>4. WorkIsWanted'
  BY DEF QueueInv, TypeOK, RunRow, JobRow, LeaseRunsOut, WorkIsWanted, Wanted, On
<1>5. NobodyElseCancels'
  BY DEF QueueInv, TypeOK, RunRow, JobRow, LeaseRunsOut, NobodyElseCancels, JobsHaveRuns
<1>6. TermWithinLife'
  BY DEF QueueInv, TypeOK, RunRow, JobRow, LeaseRunsOut, TermWithinLife, JobsHaveRuns
<1>7. ResultOfTheOwner'
  BY DEF QueueInv, TypeOK, RunRow, JobRow, LeaseRunsOut, ResultOfTheOwner
<1> QED
  BY <1>1, <1>2, <1>3, <1>4, <1>5, <1>6, <1>7 DEF QueueInv

LEMMA BackoffEndsInv ==
  ASSUME QueueInv, NEW r \in Runs, BackoffEnds(r)
  PROVE  QueueInv'
<1>1. TypeOK'
  <2>1. run[r] \in RunRow /\ now + ResultTTL \in Nat
    BY LimitsAssumption DEF QueueInv, TypeOK
  <2> QED
    BY <2>1, RowUpdates DEF QueueInv, TypeOK, BackoffEnds
<1>2. JobsHaveRuns'
  BY DEF QueueInv, TypeOK, RunRow, JobRow, BackoffEnds, JobsHaveRuns
<1>3. OneActivePerKey'
  BY DEF QueueInv, TypeOK, RunRow, JobRow, BackoffEnds, OneActivePerKey
<1>4. WorkIsWanted'
  BY DEF QueueInv, TypeOK, RunRow, JobRow, BackoffEnds, WorkIsWanted, Wanted, On
<1>5. NobodyElseCancels'
  BY DEF QueueInv, TypeOK, RunRow, JobRow, BackoffEnds, NobodyElseCancels, JobsHaveRuns
<1>6. TermWithinLife'
  BY DEF QueueInv, TypeOK, RunRow, JobRow, BackoffEnds, TermWithinLife, JobsHaveRuns
<1>7. ResultOfTheOwner'
  BY DEF QueueInv, TypeOK, RunRow, JobRow, BackoffEnds, ResultOfTheOwner
<1> QED
  BY <1>1, <1>2, <1>3, <1>4, <1>5, <1>6, <1>7 DEF QueueInv

LEMMA FinishSuccessfulInv ==
  ASSUME QueueInv, NEW r \in Runs, NEW a \in Nat, FinishSuccessful(r, a)
  PROVE  QueueInv'
<1>1. TypeOK'
  <2>1. run[r] \in RunRow /\ now + ResultTTL \in Nat
    BY LimitsAssumption DEF QueueInv, TypeOK
  <2> QED
    BY <2>1, RowUpdates DEF QueueInv, TypeOK, FinishSuccessful
<1>2. JobsHaveRuns'
  BY DEF QueueInv, TypeOK, RunRow, JobRow, FinishSuccessful, Owns, JobsHaveRuns
<1>3. OneActivePerKey'
  BY DEF QueueInv, TypeOK, RunRow, JobRow, FinishSuccessful, Owns, OneActivePerKey
<1>4. WorkIsWanted'
  BY DEF QueueInv, TypeOK, RunRow, JobRow, FinishSuccessful, Owns, WorkIsWanted, Wanted, On
<1>5. NobodyElseCancels'
  BY DEF QueueInv, TypeOK, RunRow, JobRow, FinishSuccessful, Owns, NobodyElseCancels, JobsHaveRuns
<1>6. TermWithinLife'
  BY DEF QueueInv, TypeOK, RunRow, JobRow, FinishSuccessful, Owns, TermWithinLife, JobsHaveRuns
<1>7. ResultOfTheOwner'
  BY DEF QueueInv, TypeOK, RunRow, JobRow, FinishSuccessful, Owns, ResultOfTheOwner
<1> QED
  BY <1>1, <1>2, <1>3, <1>4, <1>5, <1>6, <1>7 DEF QueueInv

LEMMA DismissRunInv ==
  ASSUME QueueInv, NEW r \in Runs, run[r].st = "running", ~Wanted(r),
         DismissRun(r), UNCHANGED <<job, recipes, now>>
  PROVE  QueueInv'
<1>1. TypeOK'
  <2>1. run[r] \in RunRow /\ now + ResultTTL \in Nat
    BY LimitsAssumption DEF QueueInv, TypeOK
  <2> QED
    BY <2>1, RowUpdates DEF QueueInv, TypeOK, DismissRun
<1>2. JobsHaveRuns'
  BY DEF QueueInv, TypeOK, RunRow, JobRow, DismissRun, Wanted, On, JobsHaveRuns
<1>3. OneActivePerKey'
  BY DEF QueueInv, TypeOK, RunRow, JobRow, DismissRun, Wanted, On, OneActivePerKey
<1>4. WorkIsWanted'
  BY DEF QueueInv, TypeOK, RunRow, JobRow, DismissRun, Wanted, On, WorkIsWanted, Wanted, On
<1>5. NobodyElseCancels'
  BY DEF QueueInv, TypeOK, RunRow, JobRow, DismissRun, Wanted, On, NobodyElseCancels, JobsHaveRuns
<1>6. TermWithinLife'
  BY DEF QueueInv, TypeOK, RunRow, JobRow, DismissRun, Wanted, On, TermWithinLife, JobsHaveRuns
<1>7. ResultOfTheOwner'
  BY DEF QueueInv, TypeOK, RunRow, JobRow, DismissRun, Wanted, On, ResultOfTheOwner
<1> QED
  BY <1>1, <1>2, <1>3, <1>4, <1>5, <1>6, <1>7 DEF QueueInv

LEMMA RequeueInv ==
  ASSUME QueueInv, NEW r \in Runs, NEW rested \in BOOLEAN, run[r].st = "running", Wanted(r),
         Requeue(r, rested), UNCHANGED <<job, recipes, now>>
  PROVE  QueueInv'
<1>1. TypeOK'
  <2>1. run[r] \in RunRow /\ now + ResultTTL \in Nat
    BY LimitsAssumption DEF QueueInv, TypeOK
  <2> QED
    BY <2>1, RowUpdates DEF QueueInv, TypeOK, Requeue
<1>2. JobsHaveRuns'
  BY DEF QueueInv, TypeOK, RunRow, JobRow, Requeue, Wanted, On, JobsHaveRuns
<1>3. OneActivePerKey'
  BY DEF QueueInv, TypeOK, RunRow, JobRow, Requeue, Wanted, On, OneActivePerKey
<1>4. WorkIsWanted'
  BY DEF QueueInv, TypeOK, RunRow, JobRow, Requeue, Wanted, On, WorkIsWanted, Wanted, On
<1>5. NobodyElseCancels'
  BY DEF QueueInv, TypeOK, RunRow, JobRow, Requeue, Wanted, On, NobodyElseCancels, JobsHaveRuns
<1>6. TermWithinLife'
  BY DEF QueueInv, TypeOK, RunRow, JobRow, Requeue, Wanted, On, TermWithinLife, JobsHaveRuns
<1>7. ResultOfTheOwner'
  BY DEF QueueInv, TypeOK, RunRow, JobRow, Requeue, Wanted, On, ResultOfTheOwner
<1> QED
  BY <1>1, <1>2, <1>3, <1>4, <1>5, <1>6, <1>7 DEF QueueInv

LEMMA FailRunInv ==
  ASSUME QueueInv, NEW r \in Runs, run[r].st = "running",
         FailRun(r), UNCHANGED <<job, recipes, now>>
  PROVE  QueueInv'
<1>1. TypeOK'
  <2>1. run[r] \in RunRow /\ now + ResultTTL \in Nat
    BY LimitsAssumption DEF QueueInv, TypeOK
  <2> QED
    BY <2>1, RowUpdates DEF QueueInv, TypeOK, FailRun
<1>2. JobsHaveRuns'
  BY DEF QueueInv, TypeOK, RunRow, JobRow, FailRun, JobsHaveRuns
<1>3. OneActivePerKey'
  BY DEF QueueInv, TypeOK, RunRow, JobRow, FailRun, OneActivePerKey
<1>4. WorkIsWanted'
  BY DEF QueueInv, TypeOK, RunRow, JobRow, FailRun, WorkIsWanted, Wanted, On
<1>5. NobodyElseCancels'
  BY DEF QueueInv, TypeOK, RunRow, JobRow, FailRun, NobodyElseCancels, JobsHaveRuns
<1>6. TermWithinLife'
  BY DEF QueueInv, TypeOK, RunRow, JobRow, FailRun, TermWithinLife, JobsHaveRuns
<1>7. ResultOfTheOwner'
  BY DEF QueueInv, TypeOK, RunRow, JobRow, FailRun, ResultOfTheOwner
<1> QED
  BY <1>1, <1>2, <1>3, <1>4, <1>5, <1>6, <1>7 DEF QueueInv

LEMMA EndAttemptInv ==
  ASSUME QueueInv, NEW r \in Runs, NEW a \in Nat, NEW retryable \in BOOLEAN,
         NEW rested \in BOOLEAN, EndAttempt(r, a, retryable, rested)
  PROVE  QueueInv'
<1>1. run[r].st = "running" /\ UNCHANGED <<job, recipes, now>>
  BY DEF EndAttempt, Owns
<1>2. run[r].cancel <=> ~Wanted(r)
  BY <1>1 DEF QueueInv, WorkIsWanted
<1>3. CASE run[r].cancel /\ ~Wanted(r) /\ DismissRun(r)
  BY <1>1, <1>3, DismissRunInv
<1>4. CASE ~(run[r].cancel /\ ~Wanted(r)) /\ Requeue(r, rested)
  BY <1>1, <1>2, <1>4, RequeueInv
<1>5. CASE FailRun(r)
  BY <1>1, <1>5, FailRunInv
<1> QED
  BY <1>3, <1>4, <1>5 DEF EndAttempt

LEMMA FinishCancelledInv ==
  ASSUME QueueInv, NEW r \in Runs, NEW a \in Nat, FinishCancelled(r, a)
  PROVE  QueueInv'
<1>1. run[r].st = "running" /\ UNCHANGED <<job, recipes, now>>
  BY DEF FinishCancelled, Owns
<1>2. CASE ~Wanted(r) /\ DismissRun(r)
  BY <1>1, <1>2, DismissRunInv
<1>3. CASE Wanted(r) /\ Requeue(r, TRUE)
  BY <1>1, <1>3, RequeueInv
<1> QED
  BY <1>2, <1>3 DEF FinishCancelled

\* What Place does: the order hangs on its run, and no other run is wanted more or less.
HangsOn(j, r) ==
  /\ job' \in [Jobs -> JobRow] /\ recipes' = recipes \cup {j} /\ now' = now
  /\ job'[j].st = "there" /\ job'[j].run = r
  /\ ~job'[j].dismissed /\ job'[j].until = NoTerm
  /\ \A i \in Jobs \ {j} : job'[i] = job[i]
  /\ Wanted(r)'
  /\ \A q \in Runs \ {r} : Wanted(q)' <=> Wanted(q)

LEMMA PlaceHangs ==
  ASSUME QueueInv, NEW j \in Jobs, job[j].st = "none", NEW r \in Runs, Place(j, r)
  PROVE  HangsOn(j, r)
<1>1. job[j].run = NoRun
  BY DEF QueueInv, JobsHaveRuns
<1>2. job'[j] = [st |-> "there", run |-> r, dismissed |-> FALSE, until |-> NoTerm]
  BY DEF Place, NoJobRow, QueueInv, TypeOK
<1>3. \A i \in Jobs \ {j} : job'[i] = job[i]
  BY DEF Place, QueueInv, TypeOK
<1>4. job' \in [Jobs -> JobRow]
  BY DEF Place, NoJobRow, QueueInv, TypeOK, JobRow
<1>5. Wanted(r)'
  BY <1>2 DEF Wanted, On
<1>6. ASSUME NEW q \in Runs \ {r} PROVE Wanted(q)' <=> Wanted(q)
  BY <1>1, <1>2, <1>3, RunsAssumption DEF Wanted, On
<1> QED
  BY <1>2, <1>3, <1>4, <1>5, <1>6 DEF HangsOn, Place

LEMMA SubmitHitInv ==
  ASSUME QueueInv, NEW j \in Jobs, NEW k \in Keys \cup Jobs, job[j].st = "none", SubmitHit(j, k)
  PROVE  QueueInv'
<1>p. PICK r \in Runs : run[r].st = "successful" /\ Place(j, r) /\ run' = run
  BY DEF SubmitHit, IsHit
<1>h. HangsOn(j, r)
  BY <1>p, PlaceHangs
<1> USE RunsAssumption
<1>1. run' = run
  BY <1>p
<1>2. TypeOK'
  BY <1>p, <1>h DEF HangsOn, QueueInv, TypeOK
<1>3. JobsHaveRuns'
  BY <1>1, <1>p, <1>h DEF HangsOn, QueueInv, JobsHaveRuns
<1>4. OneActivePerKey'
  BY <1>1, <1>p, <1>h DEF HangsOn, QueueInv, OneActivePerKey, TypeOK
<1>5. WorkIsWanted'
  BY <1>1, <1>p, <1>h DEF HangsOn, QueueInv, WorkIsWanted
<1>6. NobodyElseCancels'
  BY <1>1, <1>p, <1>h DEF HangsOn, QueueInv, NobodyElseCancels, JobsHaveRuns
<1>7. TermWithinLife'
  BY <1>1, <1>p, <1>h DEF HangsOn, QueueInv, TermWithinLife, JobsHaveRuns
<1>8. ResultOfTheOwner'
  BY <1>1, <1>p, <1>h DEF HangsOn, QueueInv, ResultOfTheOwner
<1> QED
  BY <1>2, <1>3, <1>4, <1>5, <1>6, <1>7, <1>8 DEF QueueInv

LEMMA SubmitNewInv ==
  ASSUME QueueInv, NEW j \in Jobs, NEW k \in Keys \cup Jobs, job[j].st = "none", SubmitNew(j, k)
  PROVE  QueueInv'
<1>p. PICK r \in Runs : /\ run[r].st = "none" /\ Place(j, r)
                        /\ run' = [run EXCEPT ![r] = NewRun(k, j)]
                        /\ ActiveWith(k) = {}
  BY DEF SubmitNew
<1>h. HangsOn(j, r)
  BY <1>p, PlaceHangs
<1> USE RunsAssumption
<1>1. /\ run'[r].st = "accepted" /\ run'[r].key = k
      /\ ~run'[r].cancel /\ run'[r].result = NoResult
      /\ \A q \in Runs \ {r} : run'[q] = run[q] /\ (run[q].st \in Active => run[q].key # k)
  BY <1>p DEF NewRun, NoRunRow, ActiveWith, QueueInv, TypeOK
<1>2. TypeOK'
  <2>1. now + ResultTTL \in Nat
    BY LimitsAssumption DEF QueueInv, TypeOK
  <2>2. NewRun(k, j) \in RunRow
    BY <2>1 DEF RunRow, NewRun, NoRunRow
  <2> QED
    BY <2>2, <1>p, <1>h DEF HangsOn, QueueInv, TypeOK
<1>3. JobsHaveRuns'
  BY <1>1, <1>p, <1>h DEF HangsOn, QueueInv, JobsHaveRuns
<1>4. OneActivePerKey'
  BY <1>1, <1>p, <1>h DEF HangsOn, QueueInv, OneActivePerKey, TypeOK
<1>5. WorkIsWanted'
  BY <1>1, <1>p, <1>h DEF HangsOn, QueueInv, WorkIsWanted
<1>6. NobodyElseCancels'
  BY <1>1, <1>p, <1>h DEF HangsOn, QueueInv, NobodyElseCancels, JobsHaveRuns
<1>7. TermWithinLife'
  BY <1>1, <1>p, <1>h DEF HangsOn, QueueInv, TermWithinLife, JobsHaveRuns
<1>8. ResultOfTheOwner'
  BY <1>1, <1>p, <1>h DEF HangsOn, QueueInv, ResultOfTheOwner
<1> QED
  BY <1>2, <1>3, <1>4, <1>5, <1>6, <1>7, <1>8 DEF QueueInv

LEMMA SubmitAttachInv ==
  ASSUME QueueInv, NEW j \in Jobs, NEW k \in Keys \cup Jobs, job[j].st = "none", SubmitAttach(j, k)
  PROVE  QueueInv'
<1>p. PICK r \in Runs : /\ run[r].st \in Active /\ Place(j, r)
                        /\ run' = [run EXCEPT ![r].cancel = FALSE]
  BY DEF SubmitAttach, ActiveWith
<1>h. HangsOn(j, r)
  BY <1>p, PlaceHangs
<1> USE RunsAssumption
<1>1. /\ run'[r].st = run[r].st /\ run'[r].key = run[r].key /\ ~run'[r].cancel
      /\ run'[r].result = run[r].result /\ run'[r].attempt = run[r].attempt
      /\ run'[r].expires = run[r].expires
      /\ \A q \in Runs \ {r} : run'[q] = run[q]
  BY <1>p DEF QueueInv, TypeOK, RunRow
<1>2. TypeOK'
  BY <1>p, <1>h, RowUpdates DEF HangsOn, QueueInv, TypeOK
<1>3. JobsHaveRuns'
  BY <1>1, <1>p, <1>h DEF HangsOn, QueueInv, JobsHaveRuns
<1>4. OneActivePerKey'
  BY <1>1, <1>p, <1>h DEF HangsOn, QueueInv, OneActivePerKey, TypeOK
<1>5. WorkIsWanted'
  BY <1>1, <1>p, <1>h DEF HangsOn, QueueInv, WorkIsWanted
<1>6. NobodyElseCancels'
  BY <1>1, <1>p, <1>h DEF HangsOn, QueueInv, NobodyElseCancels, JobsHaveRuns
<1>7. TermWithinLife'
  BY <1>1, <1>p, <1>h DEF HangsOn, QueueInv, TermWithinLife, JobsHaveRuns
<1>8. ResultOfTheOwner'
  BY <1>1, <1>p, <1>h DEF HangsOn, QueueInv, ResultOfTheOwner
<1> QED
  BY <1>2, <1>3, <1>4, <1>5, <1>6, <1>7, <1>8 DEF QueueInv

LEMMA DismissFinishedInv ==
  ASSUME QueueInv, NEW j \in Jobs, job[j].st = "there", DismissFinished(j),
         UNCHANGED <<recipes, now>>
  PROVE  QueueInv'
<1> DEFINE until == Earlier(now + DeleteTerm, run[job[j].run].expires)
<1>1. /\ job[j].run \in Runs /\ run[job[j].run].st \in {"successful", "failed"}
      /\ ~job[j].dismissed
      /\ job' = [job EXCEPT ![j].until = until] /\ run' = run
      /\ recipes' = recipes /\ now' = now
  BY DEF DismissFinished, QueueInv, JobsHaveRuns, Alive
<1>2. until \in Nat /\ until <= run[job[j].run].expires
  BY <1>1, LimitsAssumption DEF QueueInv, TypeOK, RunRow, Earlier
<1> HIDE DEF until
<1>3. /\ job'[j].st = "there" /\ job'[j].run = job[j].run /\ ~job'[j].dismissed
      /\ job'[j].until = until
      /\ \A i \in Jobs \ {j} : job'[i] = job[i]
  BY <1>1 DEF QueueInv, TypeOK, JobRow
<1>4. TypeOK'
  BY <1>1, <1>2 DEF QueueInv, TypeOK, JobRow
<1>5. JobsHaveRuns'
  BY <1>1, <1>3 DEF QueueInv, JobsHaveRuns
<1>6. OneActivePerKey' /\ ResultOfTheOwner'
  BY <1>1 DEF QueueInv, OneActivePerKey, ResultOfTheOwner
<1>7. WorkIsWanted'
  BY <1>1, <1>3 DEF QueueInv, WorkIsWanted, Wanted, On
<1>8. NobodyElseCancels'
  BY <1>1, <1>3 DEF QueueInv, NobodyElseCancels, JobsHaveRuns
<1>9. TermWithinLife'
  BY <1>1, <1>2, <1>3 DEF QueueInv, TermWithinLife, JobsHaveRuns
<1> QED
  BY <1>4, <1>5, <1>6, <1>7, <1>8, <1>9 DEF QueueInv

LEMMA CancelInv ==
  ASSUME QueueInv, NEW j \in Jobs, job[j].st = "there", Cancel(j), UNCHANGED <<recipes, now>>
  PROVE  QueueInv'
<1> DEFINE r     == job[j].run
           alone == \A i \in On(r) \ {j} : ~Alive(i)
<1>1. /\ r \in Runs /\ run[r].st \in {"accepted", "running", "dismissed"}
      /\ job' = [job EXCEPT ![j].dismissed = TRUE]
      /\ recipes' = recipes /\ now' = now
  BY DEF Cancel, QueueInv, JobsHaveRuns
<1>2. \/ alone /\ run[r].st = "accepted" /\ run' = [run EXCEPT ![r].st = "dismissed"]
      \/ alone /\ run[r].st = "running" /\ run' = [run EXCEPT ![r].cancel = TRUE]
      \/ (~alone \/ run[r].st = "dismissed") /\ run' = run
  BY DEF Cancel
<1>3. /\ job'[j].st = "there" /\ job'[j].run = r /\ job'[j].dismissed
      /\ job'[j].until = job[j].until /\ \A i \in Jobs \ {j} : job'[i] = job[i]
  BY <1>1 DEF QueueInv, TypeOK, JobRow
<1>4. \A i \in On(r) : job[i].until = NoTerm
  BY <1>1 DEF QueueInv, TermWithinLife, On
<1>5. /\ alone => ~Wanted(r)' /\ \A i \in On(r) : job'[i].dismissed
      /\ ~alone => Wanted(r)' /\ Wanted(r)
  <2>1. alone => \A i \in On(r) : job'[i].dismissed
    BY <1>3, <1>4 DEF Alive, On
  <2>2. On(r)' = On(r)
    BY <1>3 DEF On
  <2> QED
    BY <1>3, <2>1, <2>2 DEF Wanted, Alive, On
<1>6. \A q \in Runs \ {r} : run'[q] = run[q] /\ (Wanted(q)' <=> Wanted(q))
  BY <1>1, <1>2, <1>3 DEF Wanted, On, QueueInv, TypeOK
<1>7. /\ run'[r].key = run[r].key /\ run'[r].attempt = run[r].attempt
      /\ run'[r].result = run[r].result /\ run'[r].expires = run[r].expires
  BY <1>1, <1>2 DEF QueueInv, TypeOK, RunRow
<1>8. \/ /\ alone /\ run[r].st = "accepted"
         /\ run'[r].st = "dismissed" /\ run'[r].cancel = run[r].cancel
      \/ /\ alone /\ run[r].st = "running"
         /\ run'[r].st = "running" /\ run'[r].cancel
      \/ (~alone \/ run[r].st = "dismissed") /\ run'[r] = run[r]
  BY <1>1, <1>2 DEF QueueInv, TypeOK, RunRow
<1>9. TypeOK'
  <2>1. job' \in [Jobs -> JobRow]
    BY <1>1 DEF QueueInv, TypeOK, JobRow
  <2>2. run' \in [Runs -> RunRow]
    <3>1. run[r] \in RunRow
      BY <1>1 DEF QueueInv, TypeOK
    <3>2. /\ [run[r] EXCEPT !.st = "dismissed"] \in RunRow
          /\ [run[r] EXCEPT !.cancel = TRUE] \in RunRow
      BY <3>1 DEF RunRow
    <3> QED
      BY <1>1, <1>2, <3>2 DEF QueueInv, TypeOK
  <2> QED
    BY <1>1, <2>1, <2>2 DEF QueueInv, TypeOK
<1> HIDE DEF alone
<1>10. JobsHaveRuns'
  BY <1>1, <1>3, <1>6, <1>8 DEF QueueInv, JobsHaveRuns
<1>11. OneActivePerKey'
  BY <1>1, <1>6, <1>7, <1>8 DEF QueueInv, OneActivePerKey
<1>12. WorkIsWanted'
  <2>1. ~run[r].cancel \/ run[r].st = "running"
    BY <1>1 DEF QueueInv, WorkIsWanted
  <2>2. run[r].st = "running" => (run[r].cancel <=> ~Wanted(r))
    BY <1>1 DEF QueueInv, WorkIsWanted
  <2>3. /\ run'[r].st = "accepted" => Wanted(r)'
        /\ run'[r].st = "running" => (run'[r].cancel <=> ~Wanted(r)')
        /\ run'[r].cancel => run'[r].st = "running"
    BY <1>1, <1>5, <1>8, <2>1, <2>2
  <2>4. ASSUME NEW q \in Runs \ {r}
        PROVE  /\ run'[q].st = "accepted" => Wanted(q)'
               /\ run'[q].st = "running" => (run'[q].cancel <=> ~Wanted(q)')
               /\ run'[q].cancel => run'[q].st = "running"
    BY <1>6 DEF QueueInv, WorkIsWanted
  <2> QED
    BY <1>1, <2>3, <2>4 DEF WorkIsWanted
<1>13. NobodyElseCancels'
  BY <1>1, <1>3, <1>5, <1>6, <1>8 DEF QueueInv, NobodyElseCancels, On, JobsHaveRuns
<1>14. TermWithinLife'
  BY <1>1, <1>3, <1>4, <1>6, <1>8 DEF QueueInv, TermWithinLife, JobsHaveRuns, On
<1>15. ResultOfTheOwner'
  BY <1>1, <1>6, <1>7, <1>8 DEF QueueInv, ResultOfTheOwner
<1> QED
  BY <1>9, <1>10, <1>11, <1>12, <1>13, <1>14, <1>15 DEF QueueInv

LEMMA RestoreInv ==
  ASSUME QueueInv, NEW j \in Jobs, Restore(j)
  PROVE  QueueInv'
<1>1. /\ job[j].st = "there" /\ job' = [job EXCEPT ![j].until = NoTerm]
      /\ run' = run /\ recipes' = recipes /\ now' = now
  BY DEF Restore
<1>2. /\ job'[j].st = "there" /\ job'[j].run = job[j].run
      /\ job'[j].dismissed = job[j].dismissed /\ job'[j].until = NoTerm
      /\ \A i \in Jobs \ {j} : job'[i] = job[i]
  BY <1>1 DEF QueueInv, TypeOK, JobRow
<1>3. TypeOK'
  BY <1>1 DEF QueueInv, TypeOK, JobRow
<1>4. JobsHaveRuns'
  BY <1>1, <1>2 DEF QueueInv, JobsHaveRuns
<1>5. OneActivePerKey' /\ ResultOfTheOwner'
  BY <1>1 DEF QueueInv, OneActivePerKey, ResultOfTheOwner
<1>6. WorkIsWanted'
  BY <1>1, <1>2 DEF QueueInv, WorkIsWanted, Wanted, On
<1>7. NobodyElseCancels' /\ TermWithinLife'
  BY <1>1, <1>2 DEF QueueInv, NobodyElseCancels, TermWithinLife
<1> QED
  BY <1>3, <1>4, <1>5, <1>6, <1>7 DEF QueueInv

LEMMA SameInv ==
  ASSUME QueueInv, UNCHANGED <<run, job, recipes>>, now' \in Nat
  PROVE  QueueInv'
BY DEF QueueInv, TypeOK, JobsHaveRuns, OneActivePerKey, WorkIsWanted, NobodyElseCancels,
       TermWithinLife, ResultOfTheOwner, Wanted, On

LEMMA QueueStepInv ==
  ASSUME QueueInv, NEW r \in Runs, QueueStep(r)
  PROVE  QueueInv'
<1>1. CASE Claim(r)
  BY <1>1, ClaimInv
<1>2. CASE WorkerCall(r)
  <2>1. PICK a \in Attempts(r) :
          \/ Heartbeat(r, a)
          \/ \E retryable \in BOOLEAN : FinishFailed(r, a, retryable)
          \/ Release(r, a)
          \/ FinishCancelled(r, a)
    BY <1>2 DEF WorkerCall
  <2>2. a \in Nat
    BY DEF Attempts
  <2>3. CASE Heartbeat(r, a)
    BY <2>2, <2>3, HeartbeatInv
  <2>4. ASSUME NEW retryable \in BOOLEAN, FinishFailed(r, a, retryable)
        PROVE  QueueInv'
    BY <2>2, <2>4, EndAttemptInv DEF FinishFailed
  <2>5. CASE Release(r, a)
    BY <2>2, <2>5, EndAttemptInv DEF Release
  <2>6. CASE FinishCancelled(r, a)
    BY <2>2, <2>6, FinishCancelledInv
  <2> QED
    BY <2>1, <2>3, <2>4, <2>5, <2>6
<1>3. CASE RequeueExpired(r)
  <2>1. run[r].attempt \in Nat
    BY DEF QueueInv, TypeOK, RunRow
  <2> QED
    BY <1>3, <2>1, EndAttemptInv DEF RequeueExpired
<1>4. CASE LeaseRunsOut(r)
  BY <1>4, LeaseRunsOutInv
<1>5. CASE BackoffEnds(r)
  BY <1>5, BackoffEndsInv
<1> QED
  BY <1>1, <1>2, <1>3, <1>4, <1>5 DEF QueueStep

LEMMA ApiCallInv ==
  ASSUME QueueInv, NEW j \in Jobs, ApiCall(j)
  PROVE  QueueInv'
<1>1. ASSUME NEW k \in Keys \cup {j}, Submit(j, k)
      PROVE  QueueInv'
  BY <1>1, SubmitHitInv, SubmitNewInv, SubmitAttachInv DEF Submit
<1>2. CASE Dismiss(j)
  BY <1>2, DismissFinishedInv, CancelInv DEF Dismiss
<1>3. CASE Restore(j)
  BY <1>3, RestoreInv
<1> QED
  BY <1>1, <1>2, <1>3 DEF ApiCall

LEMMA NextInv == QueueInv /\ [Next]_queueVars => QueueInv'
<1> SUFFICES ASSUME QueueInv, [Next]_queueVars PROVE QueueInv'
  OBVIOUS
<1>1. ASSUME NEW r \in Runs, QueueStep(r) PROVE QueueInv'
  BY <1>1, QueueStepInv
<1>2. ASSUME NEW r \in Runs, NEW a \in Attempts(r), FinishSuccessful(r, a) PROVE QueueInv'
  BY <1>2, FinishSuccessfulInv DEF Attempts
<1>3. ASSUME NEW j \in Jobs, ApiCall(j) PROVE QueueInv'
  BY <1>3, ApiCallInv
<1>4. CASE Tick
  BY <1>4, SameInv DEF Tick, QueueInv, TypeOK
<1>5. CASE UNCHANGED queueVars
  BY <1>5, SameInv DEF queueVars, QueueInv, TypeOK
<1> QED
  BY <1>1, <1>2, <1>3, <1>4, <1>5 DEF Next

\* The queue keeps its rows consistent for every number of runs, orders, keys and
\* attempts, whatever workers call, however late and in whatever order: every order has
\* its run, equal orders share one active run, and a run closes with its owner's result.
THEOREM QueueInvariant == Spec => []QueueInv
BY InitInv, NextInv, PTL DEF Spec

\* The two promises of F6 in docs/adr/0013-job-queue.md: what waits is wanted and what
\* nobody wants is asked to stop; nobody's order is cancelled by somebody else.
THEOREM NobodyCancelsAnother == Spec => [](NobodyElseCancels /\ WorkIsWanted)
BY QueueInvariant, PTL DEF QueueInv

\* A late worker never slips its result under a newer attempt.
THEOREM LateResultsAreRefused == Spec => []ResultOfTheOwner
BY QueueInvariant, PTL DEF QueueInv

-----------------------------------------------------------------------------
(* The caps *)

\* No step but a pick-up adds to the running runs, and none re-keys them.
NoneAdded == \A q \in Runs : run'[q].st = "running" =>
               run[q].st = "running" /\ run'[q].key = run[q].key

LEMMA RunningFinite ==
  /\ IsFiniteSet(Running) /\ Cardinality(Running) \in Nat
  /\ \A h : IsFiniteSet(RunningAt(h)) /\ Cardinality(RunningAt(h)) \in Nat
<1>1. Running \subseteq Runs /\ \A h : RunningAt(h) \subseteq Runs
  BY DEF Running, RunningAt
<1> QED
  BY <1>1, RunsAssumption, FS_Subset, FS_CardinalityType

LEMMA NoneAddedCaps ==
  ASSUME CapsHeld, NoneAdded
  PROVE  CapsHeld'
<1>1. Running' \subseteq Running /\ \A h \in Hosts : RunningAt(h)' \subseteq RunningAt(h)
  BY DEF NoneAdded, Running, RunningAt
<1>2. Cardinality(Running)' \in Nat /\ Cardinality(Running)' <= Cardinality(Running)
  BY <1>1, RunningFinite, FS_Subset, FS_CardinalityType
<1>3. ASSUME NEW h \in Hosts
      PROVE  /\ Cardinality(RunningAt(h))' \in Nat
             /\ Cardinality(RunningAt(h))' <= Cardinality(RunningAt(h))
  BY <1>1, RunningFinite, FS_Subset, FS_CardinalityType
<1> QED
  BY <1>2, <1>3, RunningFinite, LimitsAssumption DEF CapsHeld

LEMMA ClaimCaps ==
  ASSUME TypeOK, CapsHeld, NEW r \in Runs, Claim(r)
  PROVE  CapsHeld'
<1>1. /\ run[r].st = "accepted" /\ Fits(r)
      /\ run'[r].st = "running" /\ run'[r].key = run[r].key
      /\ \A q \in Runs \ {r} : run'[q] = run[q]
  BY DEF Claim, TypeOK, RunRow
<1>2. Running' = Running \cup {r} /\ r \notin Running
  BY <1>1 DEF Running
<1>3. Cardinality(Running') = Cardinality(Running) + 1
  BY <1>2, RunningFinite, FS_AddElement
<1>4. Cardinality(Running') <= GlobalCap
  BY <1>1, <1>3, RunningFinite, LimitsAssumption DEF Fits
<1>5. ASSUME NEW h \in Hosts
      PROVE  Cardinality(RunningAt(h)') <= HostCap
  <2>1. CASE h \in HostsOf[run[r].key]
    <3>1. RunningAt(h)' = RunningAt(h) \cup {r} /\ r \notin RunningAt(h)
      BY <1>1, <1>2, <2>1 DEF RunningAt, Running
    <3>2. Cardinality(RunningAt(h)') = Cardinality(RunningAt(h)) + 1
      BY <3>1, RunningFinite, FS_AddElement
    <3>3. Cardinality(RunningAt(h)) < HostCap
      BY <1>1, <2>1 DEF Fits
    <3> QED
      BY <3>2, <3>3, RunningFinite, LimitsAssumption
  <2>2. CASE h \notin HostsOf[run[r].key]
    <3>1. RunningAt(h)' = RunningAt(h)
      BY <1>1, <1>2, <2>2 DEF RunningAt, Running
    <3> QED
      BY <3>1 DEF CapsHeld
  <2> QED
    BY <2>1, <2>2
<1> QED
  BY <1>4, <1>5 DEF CapsHeld

LEMMA EndAttemptAddsNone ==
  ASSUME TypeOK, NEW r \in Runs, NEW a, NEW retryable, NEW rested,
         EndAttempt(r, a, retryable, rested) \/ FinishCancelled(r, a)
  PROVE  NoneAdded
BY DEF EndAttempt, FinishCancelled, Owns, DismissRun, Requeue, FailRun, TypeOK, RunRow, NoneAdded

LEMMA NextCaps ==
  ASSUME TypeOK, CapsHeld, [Next]_queueVars
  PROVE  CapsHeld'
<1>1. ASSUME NEW r \in Runs, Claim(r) PROVE CapsHeld'
  BY <1>1, ClaimCaps
<1>2. ASSUME NEW r \in Runs, WorkerCall(r) PROVE NoneAdded
  <2>1. ASSUME NEW a, Heartbeat(r, a) PROVE NoneAdded
    BY <2>1 DEF Heartbeat, Owns, TypeOK, RunRow, NoneAdded
  <2>2. ASSUME NEW a, NEW retryable, FinishFailed(r, a, retryable) PROVE NoneAdded
    BY <2>2, EndAttemptAddsNone DEF FinishFailed
  <2>3. ASSUME NEW a, Release(r, a) \/ FinishCancelled(r, a) PROVE NoneAdded
    BY <2>3, EndAttemptAddsNone DEF Release
  <2> QED
    BY <1>2, <2>1, <2>2, <2>3 DEF WorkerCall
<1>3. ASSUME NEW r \in Runs, RequeueExpired(r) \/ LeaseRunsOut(r) \/ BackoffEnds(r)
      PROVE  NoneAdded
  <2>1. CASE RequeueExpired(r)
    BY <2>1, EndAttemptAddsNone DEF RequeueExpired
  <2>2. CASE LeaseRunsOut(r) \/ BackoffEnds(r)
    BY <2>2 DEF LeaseRunsOut, BackoffEnds, TypeOK, RunRow, NoneAdded
  <2> QED
    BY <1>3, <2>1, <2>2
<1>4. ASSUME NEW r \in Runs, NEW a, FinishSuccessful(r, a) PROVE NoneAdded
  BY <1>4 DEF FinishSuccessful, TypeOK, RunRow, NoneAdded
<1>5. ASSUME NEW j \in Jobs, NEW k, Submit(j, k) PROVE NoneAdded
  <2>1. CASE SubmitHit(j, k)
    BY <2>1 DEF SubmitHit, NoneAdded
  <2>2. CASE SubmitNew(j, k)
    BY <2>2 DEF SubmitNew, NewRun, NoRunRow, TypeOK, RunRow, NoneAdded
  <2>3. CASE SubmitAttach(j, k)
    BY <2>3 DEF SubmitAttach, ActiveWith, TypeOK, RunRow, NoneAdded
  <2> QED
    BY <1>5, <2>1, <2>2, <2>3 DEF Submit
<1>6. ASSUME NEW j \in Jobs, Dismiss(j) \/ Restore(j) PROVE NoneAdded
  BY <1>6 DEF Dismiss, DismissFinished, Cancel, Restore, TypeOK, RunRow, NoneAdded
<1>7. CASE UNCHANGED run
  BY <1>7, NoneAddedCaps DEF NoneAdded
<1> QED
  BY <1>1, <1>2, <1>3, <1>4, <1>5, <1>6, <1>7, NoneAddedCaps
     DEF Next, QueueStep, ApiCall, Tick, queueVars

\* Never more runs at once than the cap, nor more on a host than its limit, for every
\* cap, limit and number of workers: the count and the pick are one step under the lock.
THEOREM CapsAlwaysHold == Spec => []CapsHeld
<1>1. Init => CapsHeld
  <2> SUFFICES ASSUME Init PROVE CapsHeld
    OBVIOUS
  <2>1. Running = {} /\ \A h \in Hosts : RunningAt(h) = {}
    BY DEF Init, Running, RunningAt, NoRunRow
  <2> QED
    BY <2>1, FS_EmptySet, LimitsAssumption DEF CapsHeld
<1>2. TypeOK /\ CapsHeld /\ [Next]_queueVars => CapsHeld'
  BY NextCaps
<1>3. QueueInv => TypeOK
  BY DEF QueueInv
<1> QED
  BY <1>1, <1>2, <1>3, QueueInvariant, PTL DEF Spec

-----------------------------------------------------------------------------
(* What is over *)

LEMMA StepKeepsOver ==
  ASSUME TypeOK, [Next]_queueVars, NEW r \in Runs, run[r].st \in Over
  PROVE  run'[r] = run[r]
<1>1. ASSUME NEW q \in Runs, QueueStep(q) PROVE run'[r] = run[r]
  BY <1>1 DEF QueueStep, Claim, WorkerCall, Heartbeat, FinishFailed, Release, RequeueExpired,
     EndAttempt, FinishCancelled, Owns, DismissRun, Requeue, FailRun, LeaseRunsOut,
     BackoffEnds, TypeOK
<1>2. ASSUME NEW q \in Runs, NEW a, FinishSuccessful(q, a) PROVE run'[r] = run[r]
  BY <1>2 DEF FinishSuccessful, Owns, TypeOK
<1>3. ASSUME NEW j \in Jobs, NEW k, Submit(j, k) PROVE run'[r] = run[r]
  BY <1>3 DEF Submit, SubmitHit, SubmitNew, SubmitAttach, ActiveWith, TypeOK
<1>4. ASSUME NEW j \in Jobs, Dismiss(j) \/ Restore(j) PROVE run'[r] = run[r]
  BY <1>4 DEF Dismiss, DismissFinished, Cancel, Restore, TypeOK
<1> QED
  BY <1>1, <1>2, <1>3, <1>4 DEF Next, ApiCall, Tick, queueVars

\* No late call, retry, attach or dismissal moves a run that is over.
THEOREM OverStaysOver == Spec => OverIsFinal
<1>1. TypeOK /\ [Next]_queueVars =>
        [\A r \in Runs : run[r].st \in Over =>
            \/ run'[r] = [run[r] EXCEPT !.recipe = run'[r].recipe]
            \/ run'[r].st = "gone"]_run
  <2> SUFFICES ASSUME TypeOK, [Next]_queueVars, NEW r \in Runs, run[r].st \in Over
               PROVE  run'[r] = [run[r] EXCEPT !.recipe = run'[r].recipe]
    OBVIOUS
  <2>1. run'[r] = run[r]
    BY StepKeepsOver
  <2>2. run[r] = [run[r] EXCEPT !.recipe = run[r].recipe]
    BY DEF TypeOK, RunRow
  <2> QED
    BY <2>1, <2>2
<1>2. QueueInv => TypeOK
  BY DEF QueueInv
<1> QED
  BY <1>1, <1>2, QueueInvariant, PTL DEF Spec, OverIsFinal

-----------------------------------------------------------------------------
(* The steps of the queue *)

\* A run keeps its recipe, or is a new one with a recipe of its own.
LEMMA RecipeStays ==
  ASSUME QueueInv, [Next]_queueVars, NEW r \in Runs, run'[r].st \in Rows
  PROVE  \/ run[r].st \in Rows /\ run'[r].recipe = run[r].recipe /\ recipes \subseteq recipes'
         \/ run'[r].recipe \in recipes'
<1> USE DEF QueueInv, TypeOK, RunRow
<1>0. ASSUME NEW q \in Runs, NEW y, run' = [run EXCEPT ![q] = y], recipes' = recipes,
             run[q].st \in Rows, y.recipe = run[q].recipe
      PROVE  run[r].st \in Rows /\ run'[r].recipe = run[r].recipe /\ recipes' = recipes
  BY <1>0
<1>1. ASSUME NEW q \in Runs, QueueStep(q)
      PROVE  run[r].st \in Rows /\ run'[r].recipe = run[r].recipe /\ recipes' = recipes
  <2>0. run[q] \in RunRow
    OBVIOUS
  <2>1. CASE Claim(q)
    BY <1>0, <2>0, <2>1 DEF Claim
  <2>2. CASE LeaseRunsOut(q)
    BY <1>0, <2>0, <2>2 DEF LeaseRunsOut
  <2>3. CASE BackoffEnds(q)
    BY <1>0, <2>0, <2>3 DEF BackoffEnds
  <2>4. ASSUME NEW a, Heartbeat(q, a)
        PROVE  run[r].st \in Rows /\ run'[r].recipe = run[r].recipe /\ recipes' = recipes
    BY <2>4 DEF Heartbeat, Owns
  <2>5. ASSUME run[q].st = "running", recipes' = recipes, NEW rested, DismissRun(q) \/ Requeue(q, rested) \/ FailRun(q)
        PROVE  run[r].st \in Rows /\ run'[r].recipe = run[r].recipe /\ recipes' = recipes
    <3>1. CASE DismissRun(q)
      BY <1>0, <2>0, <2>5, <3>1 DEF DismissRun
    <3>2. CASE Requeue(q, rested)
      BY <1>0, <2>0, <2>5, <3>2 DEF Requeue
    <3>3. CASE FailRun(q)
      BY <1>0, <2>0, <2>5, <3>3 DEF FailRun
    <3> QED
      BY <2>5, <3>1, <3>2, <3>3
  <2> HIDE DEF QueueInv, TypeOK, RunRow
  <2>6. ASSUME NEW a, NEW retryable, NEW rested, EndAttempt(q, a, retryable, rested)
        PROVE  run[r].st \in Rows /\ run'[r].recipe = run[r].recipe /\ recipes' = recipes
    BY <2>5, <2>6 DEF EndAttempt, Owns
  <2>7. ASSUME NEW a, FinishCancelled(q, a)
        PROVE  run[r].st \in Rows /\ run'[r].recipe = run[r].recipe /\ recipes' = recipes
    BY <2>5, <2>7 DEF FinishCancelled, Owns
  <2> QED
    BY <1>1, <2>1, <2>2, <2>3, <2>4, <2>6, <2>7 DEF QueueStep, WorkerCall, FinishFailed, Release, RequeueExpired
<1>2. ASSUME NEW q \in Runs, NEW a, FinishSuccessful(q, a)
      PROVE  run[r].st \in Rows /\ run'[r].recipe = run[r].recipe /\ recipes' = recipes
  BY <1>2 DEF FinishSuccessful, Owns
<1>3. ASSUME NEW j \in Jobs, NEW k, SubmitHit(j, k)
      PROVE  run[r].st \in Rows /\ run'[r].recipe = run[r].recipe /\ recipes \subseteq recipes'
  BY <1>3 DEF SubmitHit, Place
<1>4. ASSUME NEW j \in Jobs, NEW k, SubmitNew(j, k)
      PROVE  \/ run[r].st \in Rows /\ run'[r].recipe = run[r].recipe /\ recipes \subseteq recipes'
             \/ run'[r].recipe \in recipes'
  <2>1. PICK q \in Runs : run' = [run EXCEPT ![q] = NewRun(k, j)] /\ recipes' = recipes \cup {j}
    BY <1>4 DEF SubmitNew, Place
  <2>2. NewRun(k, j).recipe = j
    BY DEF NewRun, NoRunRow
  <2> QED
    BY <2>1, <2>2
<1>5. ASSUME NEW j \in Jobs, NEW k, SubmitAttach(j, k)
      PROVE  run[r].st \in Rows /\ run'[r].recipe = run[r].recipe /\ recipes \subseteq recipes'
  BY <1>5 DEF SubmitAttach, Place, ActiveWith
<1>6. ASSUME NEW j \in Jobs, Dismiss(j) \/ Restore(j)
      PROVE  run[r].st \in Rows /\ run'[r].recipe = run[r].recipe /\ recipes' = recipes
  BY <1>6 DEF Dismiss, DismissFinished, Cancel, Restore, JobsHaveRuns
<1>7. CASE UNCHANGED <<run, recipes>>
  BY <1>7
<1> QED
  BY <1>1, <1>2, <1>3, <1>4, <1>5, <1>6, <1>7 DEF Next, ApiCall, Submit, Tick, queueVars

LEMMA TimeGoesOn ==
  ASSUME [Next]_queueVars
  PROVE  now' = now \/ now' = now + 1
BY DEF Next, QueueStep, ApiCall, Claim, WorkerCall, Heartbeat, FinishFailed, Release, RequeueExpired, EndAttempt,
   FinishCancelled, FinishSuccessful, LeaseRunsOut, BackoffEnds, Submit, SubmitHit, SubmitNew, SubmitAttach, Place,
   Dismiss, Restore, Tick, queueVars

\* An order joins, and a deleted one returns to, only a run that served before.
LEMMA ServedBefore ==
  ASSUME QueueInv, [Next]_queueVars, NEW r \in Joinable', run[r].st = "successful"
  PROVE  r \in Joinable
<1> USE DEF QueueInv, TypeOK, JobRow, On, Alive, Due, Waiting, Needed, Serves
<1>1. r \in Runs /\ run'[r] = run[r]
  BY StepKeepsOver DEF Joinable
<1>2. now \in Nat /\ run[r].expires \in Nat /\ (now' = now \/ now' = now + 1)
  <2>1. run[r] \in RunRow
    BY <1>1
  <2> QED
    BY <2>1, TimeGoesOn DEF RunRow
<1>3. run[r].expires >= now
  BY <1>1, <1>2 DEF Joinable
<1>4. Serves(r)' => Serves(r)
  <2>1. ASSUME UNCHANGED <<job, now>> PROVE Serves(r)' => Serves(r)
    BY <2>1
  <2>2. ASSUME NEW j \in Jobs, NEW q \in Runs \ {r}, job[j].st = "none", Place(j, q) PROVE Serves(r)' => Serves(r)
    <3>1. job[j].run # r /\ now' = now
      BY <1>1, <2>2, RunsAssumption DEF Place, JobsHaveRuns
    <3>2. \A i \in Jobs : job'[i] = IF i = j THEN [NoJobRow("there") EXCEPT !.run = q] ELSE job[i]
      BY <2>2 DEF Place
    <3>3. [NoJobRow("there") EXCEPT !.run = q].run = q
      BY DEF NoJobRow
    <3>4. On(r)' = On(r) /\ \A i \in On(r) : job'[i] = job[i]
      BY <3>1, <3>2, <3>3
    <3> QED
      BY <3>1, <3>4
  <2>3. ASSUME NEW j \in Jobs, NEW k, Submit(j, k) PROVE Serves(r)' => Serves(r)
    <3>1. CASE SubmitHit(j, k)
      <4>1. PICK q \in Runs : IsHit(q, k) /\ Place(j, q)
        BY <3>1 DEF SubmitHit
      <4>2. CASE q = r
        BY <4>1, <4>2 DEF IsHit
      <4> QED
        BY <2>2, <2>3, <4>1, <4>2 DEF Submit
    <3>2. CASE SubmitNew(j, k)
      <4>1. PICK q \in Runs : run[q].st = "none" /\ Place(j, q)
        BY <3>2 DEF SubmitNew
      <4> QED
        BY <2>2, <2>3, <4>1 DEF Submit
    <3>3. CASE SubmitAttach(j, k)
      <4>1. PICK q \in Runs : run[q].st \in Active /\ Place(j, q)
        BY <3>3 DEF SubmitAttach, ActiveWith
      <4> QED
        BY <2>2, <2>3, <4>1 DEF Submit
    <3> QED
      BY <2>3, <3>1, <3>2, <3>3 DEF Submit
  <2>4. ASSUME NEW j \in Jobs, Dismiss(j) PROVE Serves(r)' => Serves(r)
    <3>1. CASE DismissFinished(j)
      <4>1. /\ Alive(j) /\ now' = now
            /\ \A i \in Jobs : job'[i].run = job[i].run /\ (i # j => job'[i] = job[i])
        BY <2>4, <3>1 DEF Dismiss, DismissFinished
      <4> QED
        BY <4>1
    <3>2. CASE Cancel(j)
      <4>1. /\ job[j].run # r /\ now' = now
            /\ \A i \in Jobs : job'[i].run = job[i].run /\ (i # j => job'[i] = job[i])
        BY <2>4, <3>2 DEF Dismiss, Cancel
      <4> QED
        BY <4>1
    <3> QED
      BY <2>4, <3>1, <3>2 DEF Dismiss
  <2>5. ASSUME NEW j \in Jobs, Restore(j) PROVE Serves(r)' => Serves(r)
    <3>1. /\ now' = now /\ job[j].until > now
          /\ \A i \in Jobs : job'[i].run = job[i].run /\ (i # j => job'[i] = job[i])
      BY <2>5 DEF Restore
    <3> QED
      BY <1>2, <3>1
  <2>6. CASE Tick
    <3>1. job' = job /\ now' = now + 1
      BY <2>6 DEF Tick
    <3> QED
      BY <1>2, <3>1
  <2> QED
    BY <2>1, <2>3, <2>4, <2>5, <2>6 DEF Next, QueueStep, ApiCall, Claim, WorkerCall, Heartbeat, FinishFailed, Release,
       RequeueExpired, EndAttempt, FinishCancelled, FinishSuccessful, LeaseRunsOut, BackoffEnds, queueVars
<1> QED
  BY <1>1, <1>3, <1>4 DEF Joinable

LEMMA DeliveredThen ==
  ASSUME TypeOK, NEW q \in Runs, NEW a, Deliver(q, a)
  PROVE  run'[q].st = "successful" /\ run'[q].result = a /\ objects' = objects \cup {<<q, a>>}
<1> DEFINE y == [run[q] EXCEPT !.st = "successful", !.result = a,
                               !.lease = FALSE, !.cancel = FALSE, !.expires = now + ResultTTL]
<1>1. run'[q] = y /\ objects' = objects \cup {<<q, a>>}
  BY DEF Deliver, FinishSuccessful, TypeOK
<1>2. y.st = "successful" /\ y.result = a
  <2>1. run[q] \in RunRow
    BY DEF TypeOK
  <2> QED
    BY <2>1 DEF RunRow
<1> QED
  BY <1>1, <1>2

\* What may be joined is there after a step of the queue, if what finished in it was delivered.
LEMMA QueueStepDangles ==
  ASSUME NothingDangles, [Next]_queueVars,
         \/ objects' = objects /\ \A r \in Joinable' : run[r].st = "successful"
         \/ \E q \in Runs : \E a \in Attempts(q) : Deliver(q, a)
  PROVE  NothingDangles'
<1> USE DEF NothingDangles
<1>1. QueueInv'
  BY NextInv
<1>2. CleanupTypeOK'
  BY <1>1 DEF CleanupTypeOK, QueueInv, Deliver, Attempts, TypeOK, RunRow
<1>3. NoRowDangles'
  <2>1. \A r \in Runs : run'[r].st \in Rows => run'[r].recipe \in recipes'
    BY RecipeStays DEF NoRowDangles
  <2> QED
    BY <1>1, <2>1 DEF NoRowDangles, QueueInv, JobsHaveRuns
<1>4. NothingLeftBehind'
  <2>1. \A o \in objects : o[1] \in Runs /\ run'[o[1]] = run[o[1]]
    BY StepKeepsOver DEF NothingLeftBehind, CleanupTypeOK, QueueInv
  <2>2. ASSUME NEW q \in Runs, NEW a \in Attempts(q), Deliver(q, a)
        PROVE  run'[q].st = "successful" /\ run'[q].result = a /\ objects' = objects \cup {<<q, a>>}
    BY <2>2, DeliveredThen DEF QueueInv
  <2> QED
    BY <2>1, <2>2 DEF NothingLeftBehind
<1>5. JoinedThere'
  <2> SUFFICES ASSUME NEW r \in Joinable' PROVE ResultOf(r)' \in objects'
    BY DEF JoinedThere
  <2>1. objects \subseteq objects'
    BY DEF Deliver
  <2>2. CASE run[r].st = "successful"
    <3>1. r \in Joinable /\ run'[r] = run[r]
      BY <2>2, ServedBefore, StepKeepsOver DEF Joinable, QueueInv
    <3> QED
      BY <2>1, <3>1 DEF JoinedThere, ResultOf
  <2>3. CASE run[r].st # "successful"
    <3>0. PICK q \in Runs : \E a \in Attempts(q) : Deliver(q, a)
      BY <2>3
    <3>1. PICK a \in Attempts(q) : Deliver(q, a)
      BY <3>0
    <3>2. r \in Runs /\ run'[r].st = "successful"
      BY DEF Joinable
    <3>3. r = q
      BY <2>3, <3>1, <3>2 DEF Deliver, FinishSuccessful, QueueInv, TypeOK
    <3>4. run'[q].result = a /\ objects' = objects \cup {<<q, a>>}
      BY <3>1, DeliveredThen DEF QueueInv
    <3> QED
      BY <3>3, <3>4 DEF ResultOf
  <2> QED
    BY <2>2, <2>3
<1>6. ResultThere'
  BY <1>5 DEF ResultThere, JoinedThere, Served, Joinable, Serves
<1> QED
  BY <1>1, <1>2, <1>3, <1>4, <1>5, <1>6

\* Only the closing of a run makes it successful.
LEMMA OnlyClosingFinishes ==
  ASSUME QueueInv, NEW r \in Runs, run'[r].st = "successful",
         \/ \E q \in Runs : QueueStep(q)
         \/ \E j \in Jobs : ApiCall(j)
         \/ UNCHANGED run
  PROVE  run[r].st = "successful"
<1> USE DEF QueueInv, TypeOK, RunRow
<1>1. ASSUME NEW q \in Runs, Claim(q) PROVE run[r].st = "successful"
  BY <1>1 DEF Claim
<1>2. ASSUME NEW q \in Runs, NEW a, Heartbeat(q, a) PROVE run[r].st = "successful"
  BY <1>2 DEF Heartbeat
<1>3. ASSUME NEW q \in Runs, NEW a, NEW retryable, NEW rested, EndAttempt(q, a, retryable, rested)
      PROVE  run[r].st = "successful"
  BY <1>3 DEF EndAttempt, DismissRun, Requeue, FailRun
<1>4. ASSUME NEW q \in Runs, NEW a, FinishCancelled(q, a) PROVE run[r].st = "successful"
  BY <1>4 DEF FinishCancelled, DismissRun, Requeue
<1>5. ASSUME NEW q \in Runs, LeaseRunsOut(q) \/ BackoffEnds(q) PROVE run[r].st = "successful"
  BY <1>5 DEF LeaseRunsOut, BackoffEnds
<1>6. ASSUME NEW j \in Jobs, NEW k, Submit(j, k) PROVE run[r].st = "successful"
  <2>1. CASE SubmitNew(j, k)
    <3>1. NewRun(k, j).st = "accepted"
      BY DEF NewRun, NoRunRow
    <3> QED
      BY <2>1, <3>1 DEF SubmitNew
  <2>2. CASE SubmitHit(j, k) \/ SubmitAttach(j, k)
    BY <2>2 DEF SubmitHit, SubmitAttach, ActiveWith
  <2> QED
    BY <1>6, <2>1, <2>2 DEF Submit
<1>7. ASSUME NEW j \in Jobs, Dismiss(j) \/ Restore(j) PROVE run[r].st = "successful"
  BY <1>7 DEF Dismiss, DismissFinished, Cancel, Restore
<1> QED
  BY <1>1, <1>2, <1>3, <1>4, <1>5, <1>6, <1>7 DEF QueueStep, WorkerCall, FinishFailed, Release, RequeueExpired, ApiCall

-----------------------------------------------------------------------------
(* A batch of the clean-up *)

\* What a failed batch can have lost: results nobody can join.
FailureTakes(doomed) ==
  /\ objects' \subseteq objects
  /\ \A o \in objects \ objects' : \E r \in doomed : o = ResultOf(r)
  /\ \A r \in doomed : run[r].st \in Over \cup {"accepted"} /\ r \notin Joinable

LEMMA FailedBatchEffect ==
  ASSUME QueueInv, CleanupFails
  PROVE  \E doomed \in SUBSET Runs : FailureTakes(doomed)
<1>1. PICK expired \in ExpiredBatches : \E due \in UpTo(DueRuns(expired)) :
        \E lost \in SUBSET GoneObjects(expired, WholeRuns(due)) : objects' = objects \ lost
  BY DEF CleanupFails
<1>2. PICK due \in UpTo(DueRuns(expired)) :
        \E lost \in SUBSET GoneObjects(expired, WholeRuns(due)) : objects' = objects \ lost
  BY <1>1
<1>3. PICK lost \in SUBSET GoneObjects(expired, WholeRuns(due)) : objects' = objects \ lost
  BY <1>2
<1>4. \A r \in expired : r \in Runs /\ run[r].st \in Over \cup {"accepted"} /\ run[r].expires < now
  BY DEF ExpiredBatches, UpTo, Expired
<1>5. \A r \in Runs : run[r].expires \in Nat /\ now \in Nat
  BY DEF QueueInv, TypeOK, RunRow
<1>6. \A r \in WholeRuns(due) : run[r].st \in Over /\ ~Needed(r) /\ \E j \in On(r) : Due(j)
  BY DEF WholeRuns, UpTo, DueRuns, On
<1>7. \A r \in WholeRuns(due) : r \in Runs
  BY DEF WholeRuns, UpTo, DueRuns, Due, QueueInv, TermWithinLife, JobsHaveRuns
<1>8. \A r \in expired \cup WholeRuns(due) : r \notin Joinable
  BY <1>4, <1>5, <1>6 DEF Joinable, Serves
<1>9. FailureTakes(expired \cup WholeRuns(due))
  BY <1>3, <1>4, <1>6, <1>8 DEF FailureTakes, GoneObjects
<1> QED
  BY <1>4, <1>7, <1>9

LEMMA FailedBatchDangles ==
  ASSUME NothingDangles, CleanupFails
  PROVE  NothingDangles'
<1> USE DEF NothingDangles
<1>1. PICK doomed \in SUBSET Runs : FailureTakes(doomed)
  BY FailedBatchEffect
<1>2. UNCHANGED <<run, job, recipes, now>>
  BY DEF CleanupFails, queueVars
<1>3. QueueInv' /\ NoRowDangles' /\ CleanupTypeOK' /\ NothingLeftBehind'
  <2>1. QueueInv'
    BY <1>2, SameInv DEF QueueInv, TypeOK
  <2> QED
    BY <1>1, <1>2, <2>1 DEF FailureTakes, NoRowDangles, CleanupTypeOK, QueueInv, NothingLeftBehind
<1>4. \A r \in Joinable : ResultOf(r) \in objects'
  BY <1>1 DEF FailureTakes, JoinedThere, ResultOf
<1>5. JoinedThere'
  BY <1>2, <1>4 DEF JoinedThere, Joinable, ResultOf, Serves, Needed, On, Alive, Due, Waiting
<1>6. ResultThere'
  BY <1>5 DEF ResultThere, JoinedThere, Served, Joinable, Serves
<1> QED
  BY <1>3, <1>5, <1>6

\* What one batch takes: whole runs with their results, and the due jobs of others.
BatchTakes(gone) ==
  /\ \A r \in gone : run[r].st \in Over \cup {"accepted"} /\ run'[r] = NoRunRow("gone")
  /\ \A r \in Runs \ gone :
       /\ run'[r].st = run[r].st /\ run'[r].key = run[r].key /\ run'[r].attempt = run[r].attempt
       /\ run'[r].cancel = run[r].cancel /\ run'[r].lease = run[r].lease
       /\ run'[r].result = run[r].result /\ run'[r].expires = run[r].expires
  /\ \A r \in Runs : On(r)' \subseteq On(r) /\ \A j \in On(r)' : job'[j] = job[j]
  /\ \A r \in Runs \ gone : \A j \in On(r) : job'[j] = job[j] \/ Due(j)
  /\ objects' = objects \ {ResultOf(r) : r \in gone}
  /\ \A r \in Joinable' : r \in Joinable \ gone
  /\ Joinable \subseteq Joinable'
  /\ \A j \in Jobs : \/ job'[j] = job[j]
                     \/ job[j].st = "there" /\ job'[j].st = "gone" /\ (job[j].run \in gone \/ Due(j))
  /\ recipes' \subseteq recipes /\ now' = now

LEMMA BatchEffect ==
  ASSUME QueueInv, Cleanup
  PROVE  /\ QueueInv' /\ (NoRowDangles => NoRowDangles')
         /\ \E gone \in SUBSET Runs : BatchTakes(gone)
<1>e. PICK expired \in ExpiredBatches : \E due \in UpTo(DueRuns(expired)), heir \in [Runs -> Jobs] :
        Removal(expired, due, heir) /\ SweepRecipes
  BY DEF Cleanup
<1>d. PICK due \in UpTo(DueRuns(expired)), heir \in [Runs -> Jobs] :
        Removal(expired, due, heir) /\ SweepRecipes
  BY <1>e
<1> DEFINE whole == WholeRuns(due)
           moved == PointAtDue(due \ whole)
           stuck == {r \in moved : \A j \in On(r) : Due(j)}
           goneRuns == expired \cup whole
           goneJobs == GoneJobs(goneRuns, (due \ whole) \ stuck)
<1>0. TypeOK /\ QueueInv /\ now' = now /\ now \in Nat
  BY DEF QueueInv, TypeOK, Cleanup
<1>r. \A r \in Runs : run[r] \in RunRow
  BY <1>0 DEF TypeOK
<1>1. \A r \in expired : r \in Runs /\ run[r].st \in Over \cup {"accepted"} /\ run[r].expires < now
  BY DEF ExpiredBatches, UpTo, Expired
<1>2. \A j \in Jobs : Due(j) => /\ job[j].st = "there" /\ ~job[j].dismissed /\ job[j].run \in Runs
                                /\ run[job[j].run].st \in {"successful", "failed"}
  BY <1>0 DEF Due, QueueInv, TermWithinLife, JobsHaveRuns
<1>3. \A r \in whole : r \in Runs /\ ~Needed(r) /\ run[r].st \in Over /\ \E j \in On(r) : Due(j)
  BY <1>2 DEF WholeRuns, UpTo, DueRuns, On
<1>4. goneRuns \subseteq Runs
  BY <1>1, <1>3
<1>5. \A r \in Runs : run'[r] = CASE r \in goneRuns      -> NoRunRow("gone")
                                  [] r \in moved \ stuck -> [run[r] EXCEPT !.recipe = heir[r]]
                                  [] OTHER               -> run[r]
  BY <1>d DEF Removal
<1>6. \A r \in moved \ stuck : heir[r] \in On(r) /\ ~Due(heir[r])
  BY <1>d DEF Removal
<1>7. \A j \in Jobs : job'[j] = IF j \in goneJobs THEN NoJobRow("gone") ELSE job[j]
  BY <1>d DEF Removal
<1>8. \A j \in Jobs : job[j].run \in goneRuns => j \in goneJobs
  BY DEF GoneJobs
<1>g. goneJobs = GoneJobs(goneRuns, (due \ whole) \ stuck)
  OBVIOUS
<1>m. \A r \in moved : r \in due \ goneRuns
  BY DEF PointAtDue, UpTo, DueRuns
<1>9. \A j \in goneJobs : j \in Jobs /\ (job[j].run \in goneRuns \/ (Due(j) /\ job[j].run \in due))
  <2> HIDE DEF whole, moved, stuck, goneRuns, goneJobs
  <2> QED
    BY <1>g DEF GoneJobs
<1>10. objects' = objects \ {ResultOf(r) : r \in goneRuns}
  BY <1>d DEF Removal, GoneObjects
<1>s. PICK swept : recipes' = recipes \ swept /\ \A j \in swept : ~Referenced(j)'
  BY <1>d DEF SweepRecipes, UpTo
<1> HIDE DEF whole, moved, stuck, goneRuns, goneJobs
\* A run that stays keeps all but its recipe ...
<1>11. \A r \in Runs \ goneRuns :
         /\ run'[r] \in RunRow
         /\ run'[r].st = run[r].st /\ run'[r].key = run[r].key /\ run'[r].attempt = run[r].attempt
         /\ run'[r].cancel = run[r].cancel /\ run'[r].lease = run[r].lease /\ run'[r].result = run[r].result /\ run'[r].expires = run[r].expires
         /\ run'[r].recipe = run[r].recipe \/ (run'[r].recipe \in Jobs /\ job[run'[r].recipe].st = "there")
  <2> SUFFICES ASSUME NEW r \in Runs \ goneRuns
               PROVE  /\ run'[r] \in RunRow
                      /\ run'[r].st = run[r].st /\ run'[r].key = run[r].key /\ run'[r].attempt = run[r].attempt
                      /\ run'[r].cancel = run[r].cancel /\ run'[r].lease = run[r].lease /\ run'[r].result = run[r].result /\ run'[r].expires = run[r].expires
                      /\ run'[r].recipe = run[r].recipe \/ (run'[r].recipe \in Jobs /\ job[run'[r].recipe].st = "there")
    OBVIOUS
  <2>1. CASE r \in moved \ stuck
    <3>1. heir[r] \in Jobs /\ job[heir[r]].st = "there"
      BY <1>0, <1>6, <2>1, RunsAssumption DEF On, QueueInv, JobsHaveRuns
    <3>2. run'[r] = [run[r] EXCEPT !.recipe = heir[r]] /\ run[r] \in RunRow
      BY <1>5, <1>r, <2>1
    <3>3. run'[r] \in RunRow
      BY <3>1, <3>2, Zenon DEF RunRow
    <3> QED
      BY <3>1, <3>2, <3>3 DEF RunRow
  <2>2. CASE r \notin moved \ stuck
    <3>1. run'[r] = run[r]
      BY <1>5, <2>2
    <3> QED
      BY <1>r, <3>1
  <2> QED
    BY <2>1, <2>2
<1>12. \A r \in goneRuns : run'[r] = NoRunRow("gone") /\ NoRunRow("gone") \in RunRow /\ NoRunRow("gone").st = "gone"
  <2>1. NoRunRow("gone") \in RunRow /\ NoRunRow("gone").st = "gone"
    BY DEF NoRunRow, RunRow
  <2> QED
    BY <1>4, <1>5, <1>m, <2>1
\* ... and all its jobs, if it has not finished.
<1>13. \A j \in Jobs : \/ j \in goneJobs /\ job'[j] = NoJobRow("gone")
                       \/ j \notin goneJobs /\ job'[j] = job[j]
  BY <1>7
<1>14. NoJobRow("gone") = [st |-> "gone", run |-> NoRun, dismissed |-> FALSE, until |-> -1]
  BY DEF NoJobRow
<1>15. \A r \in Runs \ goneRuns : \A j \in On(r) : job'[j] = job[j] \/ (Due(j) /\ r \in due)
  <2> SUFFICES ASSUME NEW r \in Runs \ goneRuns, NEW j \in On(r) PROVE job'[j] = job[j] \/ (Due(j) /\ r \in due)
    OBVIOUS
  <2>1. j \in Jobs /\ job[j].run = r
    BY DEF On
  <2>2. CASE j \in goneJobs
    BY <1>9, <2>1, <2>2
  <2> QED
    BY <1>13, <2>1, <2>2
<1>16. \A r \in Runs : On(r)' \subseteq On(r) /\ \A j \in On(r)' : job'[j] = job[j]
  BY <1>13, <1>14, RunsAssumption DEF On
<1>17. \A r \in Runs \ goneRuns : run[r].st \notin {"successful", "failed"} => On(r)' = On(r)
  BY <1>2, <1>15, <1>16 DEF On
<1>18. \A r \in goneRuns : On(r)' = {}
  BY <1>8, <1>13, <1>14, <1>4, RunsAssumption DEF On
<1>19. TypeOK'
  <2>1. run' \in [Runs -> RunRow]
    <3>1. DOMAIN run' = Runs /\ run' = [r \in Runs |-> run'[r]]
      BY <1>d DEF Removal
    <3> QED
      BY <1>11, <1>12, <3>1
  <2>2. job' \in [Jobs -> JobRow]
    <3>1. NoJobRow("gone") \in JobRow
      BY DEF NoJobRow, JobRow
    <3>2. job' = [j \in Jobs |-> IF j \in goneJobs THEN NoJobRow("gone") ELSE job[j]]
      BY <1>d DEF Removal, goneJobs, goneRuns, stuck, moved, whole
    <3> QED
      BY <1>0, <3>1, <3>2 DEF TypeOK
  <2> QED
    BY <1>0, <1>s, <2>1, <2>2 DEF TypeOK
<1>20. JobsHaveRuns'
  <2> SUFFICES ASSUME NEW j \in Jobs
               PROVE  IF job'[j].st = "there"
                      THEN j \in recipes' /\ job'[j].run \in Runs /\ run'[job'[j].run].st \in Rows
                      ELSE job'[j].run = NoRun
    BY DEF JobsHaveRuns
  <2>1. CASE j \in goneJobs
    BY <1>7, <1>14, <2>1
  <2>2. CASE j \notin goneJobs
    <3>1. job'[j] = job[j] /\ (job[j].run \notin goneRuns)
      BY <1>7, <1>8, <2>2
    <3>2. job'[j].st = "there" => j \notin swept
      BY <1>s DEF Referenced
    <3> QED
      BY <1>0, <1>s, <1>11, <3>1, <3>2 DEF QueueInv, JobsHaveRuns
  <2> QED
    BY <2>1, <2>2
<1>21. OneActivePerKey'
  BY <1>0, <1>11, <1>12 DEF QueueInv, OneActivePerKey
<1>22. WorkIsWanted'
  <2> SUFFICES ASSUME NEW r \in Runs
               PROVE  /\ run'[r].st = "accepted" => Wanted(r)'
                      /\ run'[r].st = "running" => (run'[r].cancel <=> ~Wanted(r)')
                      /\ run'[r].cancel => run'[r].st = "running"
    BY DEF WorkIsWanted
  <2>1. CASE r \in goneRuns
    BY <1>12, <2>1 DEF NoRunRow
  <2>2. CASE r \notin goneRuns
    <3>1. run'[r].st = run[r].st /\ run'[r].cancel = run[r].cancel
      BY <1>11, <2>2
    <3>2. run[r].st \in Active => (Wanted(r)' <=> Wanted(r))
      BY <1>16, <1>17, <2>2 DEF Wanted
    <3> QED
      BY <1>0, <3>1, <3>2 DEF QueueInv, WorkIsWanted
  <2> QED
    BY <2>1, <2>2
<1>23. NobodyElseCancels' /\ TermWithinLife'
  <2> SUFFICES ASSUME NEW j \in Jobs
               PROVE  /\ job'[j].st = "there" /\ run'[job'[j].run].st = "dismissed" => job'[j].dismissed
                      /\ job'[j].until # NoTerm =>
                           /\ job'[j].st = "there" /\ ~job'[j].dismissed
                           /\ run'[job'[j].run].st \in {"successful", "failed"}
                           /\ job'[j].until <= run'[job'[j].run].expires
    BY DEF NobodyElseCancels, TermWithinLife
  <2>1. CASE j \in goneJobs
    BY <1>7, <1>14, <2>1
  <2>2. CASE j \notin goneJobs
    <3>1. job'[j] = job[j] /\ (job[j].run \notin goneRuns)
      BY <1>7, <1>8, <2>2
    <3>2. job[j].st = "there" => job[j].run \in Runs \ goneRuns
      BY <1>0, <3>1 DEF QueueInv, JobsHaveRuns
    <3>3. job[j].until # NoTerm => job[j].st = "there"
      BY <1>0 DEF QueueInv, TermWithinLife
    <3> QED
      BY <1>0, <1>11, <3>1, <3>2, <3>3 DEF QueueInv, NobodyElseCancels, TermWithinLife
  <2> QED
    BY <2>1, <2>2
<1>24. ResultOfTheOwner'
  BY <1>0, <1>11, <1>12 DEF QueueInv, ResultOfTheOwner, NoRunRow
<1>25. QueueInv'
  BY <1>19, <1>20, <1>21, <1>22, <1>23, <1>24 DEF QueueInv
<1>26. NoRowDangles => NoRowDangles'
  <2> SUFFICES ASSUME NoRowDangles, NEW r \in Runs, run'[r].st \in Rows PROVE run'[r].recipe \in recipes'
    BY <1>25 DEF NoRowDangles, QueueInv, JobsHaveRuns
  <2>1. r \notin goneRuns
    BY <1>12
  <2>2. run'[r].recipe \in recipes
    BY <1>0, <1>11, <2>1 DEF NoRowDangles, QueueInv, JobsHaveRuns
  <2>3. PICK i \in recipes : i = run'[r].recipe
    BY <2>2
  <2>4. Referenced(i)'
    BY <2>3 DEF Referenced
  <2>5. i \notin swept
    BY <1>s, <2>4
  <2> QED
    BY <1>s, <2>3, <2>5
<1>27. ASSUME NEW r \in Joinable' PROVE r \in Joinable \ goneRuns
  <2>1. r \in Runs \ goneRuns
    BY <1>12 DEF Joinable
  <2>2. run[r].st = "successful" /\ run[r].expires >= now
    BY <1>0, <1>11, <2>1 DEF Joinable
  <2>3. CASE r \in due
    <3>1. Needed(r)
      BY <2>1, <2>2, <2>3 DEF WholeRuns, goneRuns, whole
    <3> QED
      BY <2>1, <2>2, <3>1 DEF Joinable, Serves
  <2>4. CASE r \notin due
    <3>1. On(r)' = On(r) /\ \A j \in On(r) : job'[j] = job[j]
      BY <1>15, <1>16, <2>1, <2>4 DEF On
    <3>2. Serves(r)'
      BY DEF Joinable
    <3> QED
      BY <1>0, <2>1, <2>2, <3>1, <3>2 DEF Joinable, Serves, Needed, Alive, Due, Waiting
  <2> QED
    BY <2>3, <2>4
<1>28. goneRuns \subseteq Runs /\ \A r \in goneRuns : run[r].st \in Over \cup {"accepted"}
  BY <1>1, <1>3, <1>4 DEF goneRuns
<1>29. ASSUME NEW r \in Joinable PROVE r \in Joinable'
  <2>1. r \in Runs /\ run[r].st = "successful" /\ run[r].expires >= now /\ run[r].expires \in Nat /\ Serves(r)
    BY <1>r DEF Joinable, RunRow
  <2>2. r \notin goneRuns
    BY <1>0, <1>1, <1>3, <2>1 DEF Serves, goneRuns
  <2>3. \A j \in On(r) : job[j] \in JobRow /\ (~Due(j) => job'[j] = job[j] /\ j \in On(r)')
    BY <1>0, <1>15, <2>1, <2>2 DEF On, TypeOK
  <2>4. Serves(r)'
    <3>1. CASE \A j \in On(r) : ~Due(j)
      BY <1>0, <1>16, <2>1, <3>1 DEF Serves, Due
    <3>2. CASE Needed(r)
      <4>1. PICK j \in On(r) : Alive(j) \/ Waiting(j)
        BY <3>2 DEF Needed
      <4>2. ~Due(j)
        BY <1>0, <2>3, <4>1 DEF Alive, Waiting, Due, JobRow
      <4>3. job'[j] = job[j] /\ j \in On(r)'
        BY <2>3, <4>2
      <4> QED
        BY <1>0, <4>1, <4>3 DEF Serves, Needed, Alive, Waiting
    <3> QED
      BY <2>1, <3>1, <3>2 DEF Serves
  <2> QED
    BY <1>0, <1>11, <2>1, <2>2, <2>4 DEF Joinable
<1>30. \A j \in Jobs : \/ job'[j] = job[j]
                       \/ job[j].st = "there" /\ job'[j].st = "gone" /\ (job[j].run \in goneRuns \/ Due(j))
  <2> SUFFICES ASSUME NEW j \in Jobs, j \in goneJobs
               PROVE  job[j].st = "there" /\ job'[j].st = "gone" /\ (job[j].run \in goneRuns \/ Due(j))
    BY <1>13
  <2>1. job[j].run \in goneRuns \/ Due(j)
    BY <1>9
  <2>2. job[j].st = "there"
    BY <1>0, <1>2, <1>4, <2>1, RunsAssumption DEF QueueInv, JobsHaveRuns
  <2> QED
    BY <1>13, <1>14, <2>1, <2>2
<1>31. BatchTakes(goneRuns)
  <2>1. \A r \in Runs \ goneRuns : \A j \in On(r) : job'[j] = job[j] \/ Due(j)
    BY <1>15
  <2>2. recipes' \subseteq recipes
    BY <1>s
  <2> QED
    BY <1>0, <1>10, <1>11, <1>12, <1>16, <1>27, <1>28, <1>29, <1>30, <2>1, <2>2 DEF BatchTakes
<1> QED
  BY <1>25, <1>26, <1>28, <1>31

LEMMA BatchDangles ==
  ASSUME NothingDangles, Cleanup
  PROVE  NothingDangles'
<1>1. PICK gone \in SUBSET Runs : BatchTakes(gone)
  BY BatchEffect DEF NothingDangles
<1>2. QueueInv' /\ NoRowDangles'
  BY BatchEffect DEF NothingDangles
<1>3. CleanupTypeOK'
  BY <1>1, <1>2 DEF NothingDangles, CleanupTypeOK, QueueInv, BatchTakes
<1>4. NothingLeftBehind'
  <2> SUFFICES ASSUME NEW o \in objects' PROVE run'[o[1]].st = "successful" /\ run'[o[1]].result = o[2]
    BY DEF NothingLeftBehind
  <2>1. o \in objects /\ o[1] \in Runs /\ o = <<o[1], o[2]>>
    BY <1>1 DEF NothingDangles, CleanupTypeOK, BatchTakes
  <2>2. run[o[1]].st = "successful" /\ run[o[1]].result = o[2]
    BY <2>1 DEF NothingDangles, NothingLeftBehind
  <2>3. o[1] \notin gone
    BY <1>1, <2>1, <2>2 DEF ResultOf, BatchTakes
  <2> QED
    BY <1>1, <2>1, <2>2, <2>3 DEF BatchTakes
<1>5. JoinedThere'
  <2> SUFFICES ASSUME NEW r \in Joinable' PROVE ResultOf(r)' \in objects'
    BY DEF JoinedThere
  <2>1. r \in Joinable /\ r \in Runs \ gone
    BY <1>1 DEF BatchTakes, Joinable
  <2>2. ResultOf(r)' = ResultOf(r) /\ ResultOf(r) \in objects
    BY <1>1, <2>1 DEF NothingDangles, JoinedThere, BatchTakes, ResultOf
  <2>3. ResultOf(r) \notin {ResultOf(q) : q \in gone}
    BY <2>1 DEF ResultOf
  <2> QED
    BY <1>1, <2>2, <2>3 DEF BatchTakes
<1>6. ResultThere'
  BY <1>5 DEF ResultThere, JoinedThere, Served, Joinable, Serves
<1> QED
  BY <1>2, <1>3, <1>4, <1>5, <1>6 DEF NothingDangles

\* Every step of the queue with its clean-up keeps rows, recipes and objects together.
LEMMA StepDangles ==
  ASSUME NothingDangles, [CleanupNext]_cleanupVars
  PROVE  NothingDangles'
<1>0. QueueInv
  BY DEF NothingDangles
<1>1. ASSUME NEW r \in Runs, QueueStep(r), UNCHANGED objects PROVE NothingDangles'
  <2>1. [Next]_queueVars /\ \A q \in Joinable' : run[q].st = "successful"
    BY <1>0, <1>1, OnlyClosingFinishes DEF Next, Joinable
  <2> QED
    BY <1>1, <2>1, QueueStepDangles
<1>2. ASSUME NEW r \in Runs, NEW a \in Attempts(r), Deliver(r, a) PROVE NothingDangles'
  BY <1>2, QueueStepDangles DEF Next, Deliver
<1>3. ASSUME NEW j \in Jobs, ApiCall(j), UNCHANGED objects PROVE NothingDangles'
  <2>1. [Next]_queueVars /\ \A q \in Joinable' : run[q].st = "successful"
    BY <1>0, <1>3, OnlyClosingFinishes DEF Next, Joinable
  <2> QED
    BY <1>3, <2>1, QueueStepDangles
<1>4. ASSUME Tick \/ UNCHANGED queueVars, UNCHANGED objects PROVE NothingDangles'
  <2>1. [Next]_queueVars /\ \A q \in Joinable' : run[q].st = "successful"
    BY <1>0, <1>4, OnlyClosingFinishes DEF Next, Joinable, Tick, queueVars
  <2> QED
    BY <1>4, <2>1, QueueStepDangles
<1> QED
  BY <1>1, <1>2, <1>3, <1>4, BatchDangles, FailedBatchDangles DEF CleanupNext, cleanupVars, queueVars

LEMMA InitDangles == CleanupInit => NothingDangles
<1> SUFFICES ASSUME CleanupInit PROVE NothingDangles
  OBVIOUS
<1>1. QueueInv /\ objects = {}
  BY InitInv DEF CleanupInit
<1>2. \A r \in Runs : run[r].st = "none"
  BY DEF CleanupInit, Init, NoRunRow
<1>3. \A j \in Jobs : job[j].st = "none"
  BY DEF CleanupInit, Init, NoJobRow
<1> QED
  BY <1>1, <1>2, <1>3 DEF NothingDangles, CleanupTypeOK, QueueInv, NoRowDangles, NothingLeftBehind, ResultThere,
     JoinedThere, Served, Joinable

\* No row ever points at one that was deleted, no object is forgotten, and whatever can be
\* read, restored or joined has its bytes: for every size of a batch, every term, and however
\* often a batch fails between two objects (cleanup_batch).
THEOREM NothingEverDangles == CleanupSpec => []NothingDangles
BY InitDangles, StepDangles, PTL DEF CleanupSpec

-----------------------------------------------------------------------------
(* The promise to a caller *)

Steady(j) == View'[j] = View[j] /\ Held'[j] = Held[j]

\* What a caller reads of an order, row by row.
LEMMA Reads ==
  ASSUME NEW j \in Jobs
  PROVE  /\ View[j] = IF job[j].st # "there" THEN job[j].st
                      ELSE IF job[j].dismissed \/ job[j].until # NoTerm THEN "dismissed" ELSE run[job[j].run].st
         /\ View'[j] = IF job'[j].st # "there" THEN job'[j].st
                       ELSE IF job'[j].dismissed \/ job'[j].until # NoTerm THEN "dismissed" ELSE run'[job'[j].run].st
         /\ Held[j] = IF job[j].until # NoTerm THEN run[job[j].run].st ELSE "none"
         /\ Held'[j] = IF job'[j].until # NoTerm THEN run'[job'[j].run].st ELSE "none"
BY DEF View, Held

\* The values a caller reads after a step, and what a deleted order is held at.
LEMMA ReadsWell ==
  ASSUME QueueInv'
  PROVE  Promise!TypePreserved
<1>1. ASSUME NEW j \in Jobs
      PROVE  /\ View'[j] \in {"none", "accepted", "running", "dismissed", "gone"} \cup Promise!Finished
             /\ Held'[j] \in {"none"} \cup Promise!Finished
  <2>1. job'[j].st \in {"none", "there", "gone"}
    BY DEF QueueInv, TypeOK, JobRow
  <2>2. job'[j].st = "there" => run'[job'[j].run].st \in Rows
    BY DEF QueueInv, JobsHaveRuns
  <2>3. job'[j].until # NoTerm => run'[job'[j].run].st \in {"successful", "failed"}
    BY DEF QueueInv, TermWithinLife
  <2>4. job'[j].st = "there" /\ run'[job'[j].run].st = "dismissed" => job'[j].dismissed
    BY DEF QueueInv, NobodyElseCancels
  <2> QED
    BY <2>1, <2>2, <2>3, <2>4, Reads DEF Promise!Finished
<1> QED
  BY <1>1 DEF View, Held, Promise!TypePreserved

\* The queue's own steps: an order waits, is computed, waits again, or ends.
LEMMA QueueStepServes ==
  ASSUME QueueInv, NEW r \in Runs, QueueStep(r) \/ \E a \in Attempts(r) : FinishSuccessful(r, a), NEW j \in Jobs
  PROVE  Promise!Unasked(j)
<1> USE DEF QueueInv
<1>1. job' = job
  BY DEF QueueStep, Claim, WorkerCall, Heartbeat, FinishFailed, Release, RequeueExpired, EndAttempt, FinishCancelled,
     FinishSuccessful, LeaseRunsOut, BackoffEnds
<1>2. \A q \in Runs \ {r} : run'[q] = run[q]
  BY DEF TypeOK, QueueStep, Claim, WorkerCall, Heartbeat, FinishFailed, Release, RequeueExpired, EndAttempt,
     FinishCancelled, DismissRun, Requeue, FailRun, FinishSuccessful, LeaseRunsOut, BackoffEnds
<1>3. /\ run[r].st \in Active
      /\ \/ run'[r].st = run[r].st
         \/ run[r].st = "accepted" /\ run'[r].st = "running"
         \/ run[r].st = "running" /\ run'[r].st \in {"accepted", "successful", "failed"}
         \/ run[r].st = "running" /\ run'[r].st = "dismissed" /\ ~Wanted(r)
  <2> DEFINE Moves == /\ run[r].st \in Active
                      /\ \/ run'[r].st = run[r].st
                         \/ run[r].st = "accepted" /\ run'[r].st = "running"
                         \/ run[r].st = "running" /\ run'[r].st \in {"accepted", "successful", "failed"}
                         \/ run[r].st = "running" /\ run'[r].st = "dismissed" /\ ~Wanted(r)
  <2>0. run \in [Runs -> RunRow] /\ run[r] \in RunRow
    BY DEF TypeOK
  <2>1. CASE Claim(r)
    BY <2>0, <2>1 DEF Claim, RunRow
  <2>2. CASE LeaseRunsOut(r) \/ BackoffEnds(r)
    BY <2>0, <2>2 DEF LeaseRunsOut, BackoffEnds, RunRow
  <2>3. ASSUME NEW a, Heartbeat(r, a) \/ FinishSuccessful(r, a) PROVE Moves
    <3>1. CASE Heartbeat(r, a)
      BY <2>0, <3>1 DEF Heartbeat, Owns, RunRow
    <3>2. CASE FinishSuccessful(r, a)
      BY <2>0, <3>2 DEF FinishSuccessful, Owns, RunRow
    <3> QED
      BY <2>3, <3>1, <3>2
  <2>4. ASSUME run[r].st = "running", DismissRun(r), ~Wanted(r) PROVE Moves
    BY <2>0, <2>4 DEF DismissRun, RunRow
  <2>5. ASSUME run[r].st = "running", NEW rested, Requeue(r, rested) \/ FailRun(r) PROVE Moves
    <3>1. CASE Requeue(r, rested)
      BY <2>0, <2>5, <3>1 DEF Requeue, RunRow
    <3>2. CASE FailRun(r)
      BY <2>0, <2>5, <3>2 DEF FailRun, RunRow
    <3> QED
      BY <2>5, <3>1, <3>2
  <2> HIDE DEF Moves
  <2>6. ASSUME NEW a, NEW retryable, NEW rested, EndAttempt(r, a, retryable, rested) PROVE Moves
    BY <2>4, <2>5, <2>6 DEF EndAttempt, Owns
  <2>7. ASSUME NEW a, FinishCancelled(r, a) PROVE Moves
    BY <2>4, <2>5, <2>7 DEF FinishCancelled, Owns
  <2>8. Moves
    BY <2>1, <2>2, <2>3, <2>6, <2>7 DEF Moves, QueueStep, WorkerCall, FinishFailed, Release, RequeueExpired
  <2> QED
    BY <2>8 DEF Moves
<1>4. CASE job[j].run # r
  <2>1. job[j].st = "there" => run'[job[j].run] = run[job[j].run]
    BY <1>2, <1>4 DEF JobsHaveRuns
  <2>2. job[j].until # NoTerm => job[j].st = "there"
    BY DEF TermWithinLife
  <2> QED
    BY <1>1, <2>1, <2>2, Reads DEF Promise!Unasked
<1>5. CASE job[j].run = r
  <2>1. job[j].st = "there" /\ job[j].until = NoTerm
    BY <1>3, <1>5, RunsAssumption DEF TermWithinLife, JobsHaveRuns
  <2>2. ~Wanted(r) => job[j].dismissed
    BY <1>5 DEF Wanted, On
  <2> QED
    BY <1>1, <1>3, <1>5, <2>1, <2>2, Reads DEF Promise!Unasked, Promise!Works, Promise!Finished
<1> QED
  BY <1>4, <1>5

\* A call of the api moves at most the order it is about, as its caller asked.
LEMMA ApiCallServes ==
  ASSUME QueueInv, NEW j \in Jobs, ApiCall(j)
  PROVE  /\ Promise!Asked(j) \/ Steady(j)
         /\ \A i \in Jobs \ {j} : Steady(i)
<1> USE DEF QueueInv
<1> DEFINE Moves == (Promise!Asked(j) \/ Steady(j)) /\ \A i \in Jobs \ {j} : Steady(i)
<1>0. /\ \A i \in Jobs : job[i].until # NoTerm => job[i].st = "there"
      /\ \A i \in Jobs : job[i].st = "there" => job[i].run \in Runs /\ run[job[i].run].st \in Rows
      /\ \A i \in Jobs : job[i].st # "there" => job[i].run = NoRun
  BY DEF TermWithinLife, JobsHaveRuns
<1>p. ASSUME NEW r \in Runs, Place(j, r), job[j].st = "none",
             run'[r].st \in {"accepted", "running", "successful"},
             \A q \in Runs \ {r} : run'[q] = run[q], run'[r].st = run[r].st \/ run[r].st = "none"
      PROVE  Moves
  <2>1. \A i \in Jobs \ {j} : job'[i] = job[i]
    BY <1>p DEF Place
  <2>2. \A i \in Jobs \ {j} : Steady(i)
    BY <1>0, <1>p, <2>1, Reads DEF Steady
  <2>3. job'[j].st = "there" /\ job'[j].run = r /\ ~job'[j].dismissed /\ job'[j].until = NoTerm
    BY <1>p DEF Place, NoJobRow, TypeOK
  <2>4. Promise!Asked(j)
    BY <1>0, <1>p, <2>3, Reads DEF Promise!Asked, Promise!Places
  <2> QED
    BY <2>2, <2>4
<1>1. ASSUME NEW k, Submit(j, k) PROVE Moves
  <2>1. CASE SubmitHit(j, k)
    BY <1>1, <1>p, <2>1 DEF Submit, SubmitHit, IsHit
  <2>2. CASE SubmitNew(j, k)
    <3>1. PICK r \in Runs : run[r].st = "none" /\ run' = [run EXCEPT ![r] = NewRun(k, j)] /\ Place(j, r)
      BY <2>2 DEF SubmitNew
    <3>2. NewRun(k, j).st = "accepted"
      BY DEF NewRun, NoRunRow
    <3> QED
      BY <1>1, <1>p, <3>1, <3>2 DEF Submit, TypeOK
  <2>3. CASE SubmitAttach(j, k)
    <3>1. PICK r \in ActiveWith(k) : run' = [run EXCEPT ![r].cancel = FALSE] /\ Place(j, r)
      BY <2>3 DEF SubmitAttach
    <3>2. r \in Runs /\ run[r].st \in Active /\ run'[r].st = run[r].st /\ \A q \in Runs \ {r} : run'[q] = run[q]
      BY <3>1 DEF ActiveWith, TypeOK, RunRow
    <3> QED
      BY <1>1, <1>p, <3>1, <3>2 DEF Submit
  <2> QED
    BY <1>1, <2>1, <2>2, <2>3 DEF Submit
<1>2. ASSUME Dismiss(j) PROVE Moves
  <2>0. job[j].st = "there" /\ job[j].run \in Runs /\ run[job[j].run].st \in Rows
    BY <1>0, <1>2 DEF Dismiss
  <2>1. CASE DismissFinished(j)
    <3>1. /\ run[job[j].run].st \in {"successful", "failed"} /\ Alive(j) /\ run' = run
          /\ job' = [job EXCEPT ![j].until = Earlier(now + DeleteTerm, run[job[j].run].expires)]
      BY <2>1 DEF DismissFinished
    <3>2. Earlier(now + DeleteTerm, run[job[j].run].expires) \in Nat
      BY <2>0, LimitsAssumption DEF TypeOK, RunRow, Earlier
    <3>3. /\ job'[j].st = "there" /\ job'[j].run = job[j].run /\ job'[j].until # NoTerm
          /\ \A i \in Jobs \ {j} : job'[i] = job[i]
      BY <2>0, <3>1, <3>2 DEF TypeOK, JobRow
    <3>4. \A i \in Jobs \ {j} : Steady(i)
      BY <3>1, <3>3, Reads DEF Steady
    <3>5. Promise!Asked(j)
      BY <2>0, <3>1, <3>3, Reads DEF Alive, Promise!Asked, Promise!Deletes, Promise!Finished
    <3> QED
      BY <3>4, <3>5
  <2>2. CASE Cancel(j)
    <3> DEFINE r == job[j].run
    <3>1. /\ run[r].st \notin {"successful", "failed"}
          /\ job' = [job EXCEPT ![j].dismissed = TRUE]
          /\ \/ /\ \A i \in On(r) \ {j} : ~Alive(i)
                /\ run[r].st = "accepted" /\ run' = [run EXCEPT ![r].st = "dismissed"]
             \/ run[r].st = "running" /\ run' = [run EXCEPT ![r].cancel = TRUE]
             \/ run' = run
      BY <2>2 DEF Cancel
    <3>2. /\ job'[j].st = "there" /\ job'[j].run = r /\ job'[j].dismissed /\ job'[j].until = job[j].until
          /\ \A i \in Jobs \ {j} : job'[i] = job[i]
      BY <2>0, <3>1 DEF TypeOK, JobRow
    <3>3. \A i \in Jobs : job[i].run = r => job[i].st = "there" /\ job[i].until = NoTerm
      BY <1>0, <2>0, <3>1, RunsAssumption DEF TermWithinLife
    <3>4. /\ \A q \in Runs \ {r} : run'[q] = run[q]
          /\ \/ run'[r].st = run[r].st
             \/ \A i \in Jobs \ {j} : job[i].run = r => job[i].dismissed
      <4>1. \A i \in Jobs \ {j} : job[i].run = r /\ ~Alive(i) => job[i].dismissed
        BY <3>3 DEF Alive
      <4>2. run \in [Runs -> RunRow] /\ run[r] \in RunRow
        BY <2>0 DEF TypeOK
      <4>3. CASE \A i \in On(r) \ {j} : ~Alive(i)
        BY <2>0, <3>1, <4>1, <4>2, <4>3 DEF On
      <4>4. CASE ~\A i \in On(r) \ {j} : ~Alive(i)
        BY <2>0, <3>1, <4>2, <4>4 DEF RunRow
      <4> QED
        BY <4>3, <4>4
    <3>5. ASSUME NEW i \in Jobs \ {j} PROVE Steady(i)
      <4>1. CASE job[i].run = r
        BY <3>2, <3>3, <3>4, <4>1, Reads DEF Steady
      <4>2. CASE job[i].run # r
        BY <1>0, <3>2, <3>4, <4>2, Reads DEF Steady
      <4> QED
        BY <4>1, <4>2
    <3>6. View'[j] = "dismissed" /\ Held'[j] = "none" /\ Held[j] = "none"
      BY <3>2, <3>3, Reads
    <3>7. View[j] \in {"accepted", "running", "dismissed"}
      <4>1. View[j] = IF job[j].dismissed THEN "dismissed" ELSE run[r].st
        BY <2>0, <3>3, Reads
      <4> QED
        BY <2>0, <3>1, <4>1
    <3> QED
      BY <3>5, <3>6, <3>7 DEF Promise!Asked, Promise!Cancels, Steady
  <2> QED
    BY <1>2, <2>1, <2>2 DEF Dismiss
<1>3. ASSUME Restore(j) PROVE Moves
  <2>1. /\ job[j].st = "there" /\ job[j].until > now /\ run' = run
        /\ job' = [job EXCEPT ![j].until = NoTerm]
    BY <1>3 DEF Restore
  <2>2. job[j].until # NoTerm /\ job[j] \in JobRow
    BY <2>1 DEF TypeOK
  <2>3. ~job[j].dismissed /\ run[job[j].run].st \in {"successful", "failed"}
    BY <2>2 DEF TermWithinLife
  <2>4. /\ job'[j].st = "there" /\ job'[j].run = job[j].run /\ job'[j].dismissed = job[j].dismissed /\ job'[j].until = NoTerm
        /\ \A i \in Jobs \ {j} : job'[i] = job[i]
    BY <2>1, <2>2 DEF TypeOK, JobRow
  <2>5. \A i \in Jobs \ {j} : Steady(i)
    BY <2>1, <2>4, Reads DEF Steady
  <2>6. Promise!Asked(j)
    BY <2>1, <2>2, <2>3, <2>4, Reads DEF Promise!Asked, Promise!Restores, Promise!Finished
  <2> QED
    BY <2>5, <2>6
<1> QED
  BY <1>1, <1>2, <1>3 DEF ApiCall

\* A batch takes an order only from an end it has reached, or from an expired wait.
LEMMA BatchServes ==
  ASSUME QueueInv, Cleanup, NEW j \in Jobs
  PROVE  Promise!Unasked(j)
<1>e. PICK expired \in ExpiredBatches : \E due \in UpTo(DueRuns(expired)), heir \in [Runs -> Jobs] :
        Removal(expired, due, heir)
  BY DEF Cleanup
<1>d. PICK due \in UpTo(DueRuns(expired)), heir \in [Runs -> Jobs] : Removal(expired, due, heir)
  BY <1>e
<1> DEFINE whole == WholeRuns(due)
           moved == PointAtDue(due \ whole)
           stuck == {r \in moved : \A i \in On(r) : Due(i)}
           goneRuns == expired \cup whole
           goneJobs == GoneJobs(goneRuns, (due \ whole) \ stuck)
<1>1. \A r \in goneRuns : run[r].st \in Over \cup {"accepted"}
  BY DEF ExpiredBatches, UpTo, Expired, WholeRuns
<1>2. job'[j] = IF j \in goneJobs THEN NoJobRow("gone") ELSE job[j]
  BY <1>d DEF Removal
<1>3. \A r \in Runs : run'[r] = CASE r \in goneRuns      -> NoRunRow("gone")
                                  [] r \in moved \ stuck -> [run[r] EXCEPT !.recipe = heir[r]]
                                  [] OTHER               -> run[r]
  BY <1>d DEF Removal
<1>g. goneJobs = GoneJobs(goneRuns, (due \ whole) \ stuck)
  OBVIOUS
<1> HIDE DEF whole, moved, stuck, goneRuns, goneJobs
<1>4. job[j].run \in goneRuns => j \in goneJobs
  BY <1>g DEF GoneJobs
<1>5. j \in goneJobs => job[j].run \in goneRuns \/ Due(j)
  BY <1>g DEF GoneJobs
<1>6. \A r \in Runs \ goneRuns : run'[r].st = run[r].st
  <2>1. \A r \in Runs : run[r] \in RunRow
    BY DEF QueueInv, TypeOK
  <2> QED
    BY <1>3, <2>1 DEF RunRow
<1>7. /\ job[j].until # NoTerm => job[j].st = "there"
      /\ job[j].st = "there" => job[j].run \in Runs /\ run[job[j].run].st \in Rows
      /\ job[j].st # "there" => job[j].run = NoRun
      /\ Due(j) => job[j].until # NoTerm
  BY DEF QueueInv, TermWithinLife, JobsHaveRuns, Due
<1>8. CASE j \notin goneJobs
  <2>1. job'[j] = job[j] /\ job[j].run \notin goneRuns
    BY <1>2, <1>4, <1>8
  <2>2. job[j].st = "there" => run'[job[j].run].st = run[job[j].run].st
    BY <1>6, <1>7, <2>1
  <2> QED
    BY <1>7, <2>1, <2>2, Reads DEF Promise!Unasked
<1>9. CASE j \in goneJobs
  <2>1. View'[j] = "gone" /\ Held'[j] = "none"
    BY <1>2, <1>9, Reads DEF NoJobRow
  <2>2. job[j].st = "there"
    <3>1. NoRun \notin goneRuns
      BY RunsAssumption DEF goneRuns, whole, ExpiredBatches, UpTo, Expired, WholeRuns, DueRuns, QueueInv, TermWithinLife, JobsHaveRuns, Due
    <3> QED
      BY <1>5, <1>7, <1>9, <3>1
  <2>3. View[j] \in {"accepted", "dismissed"} \cup Promise!Finished
    <3>1. CASE Due(j)
      BY <1>7, <2>2, <3>1, Reads
    <3>2. CASE job[j].run \in goneRuns
      BY <1>1, <2>2, <3>2, Reads DEF Promise!Finished
    <3> QED
      BY <1>5, <1>9, <3>1, <3>2
  <2> QED
    BY <2>1, <2>3 DEF Promise!Unasked, Promise!Leaves
<1> QED
  BY <1>8, <1>9

\* The queue and its clean-up implement what the job service promises a caller, for any number
\* of orders and runs: an order moves only forward, is dismissed by nobody but its caller, and
\* a deleted one comes back as it was or not at all.
THEOREM PromiseIsKept == CleanupSpec => PromiseKept
<1>1. CleanupInit => Promise!PromiseInit
  <2> SUFFICES ASSUME CleanupInit PROVE Promise!PromiseInit
    OBVIOUS
  <2>1. \A j \in Jobs : job[j].st = "none" /\ job[j].until = NoTerm
    BY DEF CleanupInit, Init, NoJobRow
  <2>2. \A j \in Jobs : View[j] = "none" /\ Held[j] = "none"
    BY <2>1, Reads
  <2> QED
    BY <2>2 DEF Promise!PromiseInit, View, Held
<1>2. NothingDangles /\ [CleanupNext]_cleanupVars => [Promise!PromiseNext]_<<View, Held>>
  <2> SUFFICES ASSUME NothingDangles, [CleanupNext]_cleanupVars
               PROVE  Promise!PromiseNext \/ UNCHANGED <<View, Held>>
    OBVIOUS
  <2>0. QueueInv /\ QueueInv'
    BY StepDangles DEF NothingDangles
  <2>1. Promise!TypePreserved
    BY <2>0, ReadsWell
  <2>2. ASSUME NEW r \in Runs, QueueStep(r) \/ \E a \in Attempts(r) : Deliver(r, a) PROVE Promise!PromiseNext
    BY <2>0, <2>1, <2>2, QueueStepServes DEF Promise!PromiseNext, Promise!ServiceStep, Deliver
  <2>3. ASSUME NEW j \in Jobs, ApiCall(j) PROVE Promise!PromiseNext
    <3>1. CASE Promise!Asked(j)
      BY <2>0, <2>1, <2>3, <3>1, ApiCallServes DEF Promise!PromiseNext, Promise!CallerStep, Steady
    <3>2. CASE Steady(j)
      BY <2>0, <2>1, <2>3, <3>2, ApiCallServes DEF Promise!PromiseNext, Promise!ServiceStep, Promise!Unasked, Steady
    <3> QED
      BY <2>0, <2>3, <3>1, <3>2, ApiCallServes
  <2>4. CASE Cleanup
    BY <2>0, <2>1, <2>4, BatchServes DEF Promise!PromiseNext, Promise!ServiceStep
  <2>5. CASE UNCHANGED <<run, job>>
    BY <2>5 DEF View, Held
  <2> QED
    BY <2>2, <2>3, <2>4, <2>5 DEF CleanupNext, CleanupFails, Tick, cleanupVars, queueVars
<1> QED
  BY <1>1, <1>2, NothingEverDangles, PTL DEF CleanupSpec, PromiseKept, Promise!PromiseSpec, Promise!vars
=============================================================================
