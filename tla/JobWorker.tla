----------------------------- MODULE JobWorker ------------------------------
(***************************************************************************)
(* The supervisors (jobs/worker.py) over the queue, the clean-up and the   *)
(* object store: slots that pick up a run, watch the child that computes   *)
(* it, and write how it ended.                                             *)
(*                                                                         *)
(* A slot is one thread with one database connection.  It may crash with   *)
(* its container or lose its connection at any moment, and it may be so    *)
(* slow that its lease runs out and another attempt owns the run before it *)
(* goes on.  A child is what the slot hears of it: how it ended.           *)
(***************************************************************************)
EXTENDS JobCleanup

CONSTANTS
  Slots,      \* the slot threads of all supervisors
  AckLoss     \* may the answer to a commit be lost (the connection breaks after it)?

ASSUME AckLossAssumption == AckLoss \in BOOLEAN
ASSUME OrdersAssumption == IsFiniteSet(Jobs)   \* a job_id is a UUID

VARIABLES
  slot,
  unheard     \* ghost: the uploads of closings whose answer was lost

workerVars == <<run, job, recipes, now, objects, slot, unheard>>

\* How an attempt ended: the child sent "done" or "failed" with a kind that may be
\* tried again or not (also: crashed, out of time, no disk space), or "cancelled", or
\* was killed for it; or the container shuts down.
Ends == {"done", "retryable", "fatal", "cancelled", "shutdown"}

SlotState ==
  [pc      : {"idle", "watch", "end", "upload", "close", "forget"},
   run     : Runs \cup {NoRun},
   attempt : Nat,
   told    : BOOLEAN,              \* the child was told to cancel (cancel_sent_at)
   end     : Ends \cup {"none"}]

Idle == [pc |-> "idle", run |-> NoRun, attempt |-> 0, told |-> FALSE, end |-> "none"]

WorkerInit == CleanupInit /\ slot = [w \in Slots |-> Idle] /\ unheard = {}

Holds(w)      == Owns(slot[w].run, slot[w].attempt)
Upload(w)     == <<slot[w].run, slot[w].attempt>>
MoveTo(w, pc) == slot' = [slot EXCEPT ![w].pc = pc]
Ended(w, end) == slot' = [slot EXCEPT ![w].pc = "end", ![w].end = end]
Done(w)       == slot' = [slot EXCEPT ![w] = Idle]

-----------------------------------------------------------------------------
(* One slot *)

Pick(w) ==
  /\ slot[w].pc = "idle"
  /\ \E r \in Runs :
       /\ Claim(r)
       /\ slot' = [slot EXCEPT ![w] =
            [Idle EXCEPT !.pc = "watch", !.run = r, !.attempt = run'[r].attempt]]
  /\ UNCHANGED objects

\* The heartbeat of _watch; the flag it brings back goes to the child.
Beat(w) ==
  /\ slot[w].pc = "watch"
  /\ Heartbeat(slot[w].run, slot[w].attempt)
  /\ slot' = [slot EXCEPT ![w].told = @ \/ run[slot[w].run].cancel]
  /\ UNCHANGED objects

\* The heartbeat touched no row: the child is killed and nothing is written.
Lost(w) ==
  /\ slot[w].pc = "watch" /\ ~Holds(w)
  /\ Done(w)
  /\ UNCHANGED <<queueVars, objects>>

\* A message with the progress: stores it and passes on the flag, renews no lease.
Progress(w) ==
  /\ slot[w].pc = "watch" /\ Holds(w)
  /\ slot' = [slot EXCEPT ![w].told = @ \/ run[slot[w].run].cancel]
  /\ UNCHANGED <<queueVars, objects>>

\* The loop of _watch ends; only a child that was told stops as cancelled.
WatchEnds(w) ==
  /\ slot[w].pc = "watch"
  /\ \E end \in Ends : (end = "cancelled" => slot[w].told) /\ Ended(w, end)
  /\ UNCHANGED <<queueVars, objects>>

\* _conclude: written as this attempt, or not at all if it no longer owns the run.
EndRun(w) ==
  LET r == slot[w].run
      a == slot[w].attempt
  IN  \/ slot[w].end = "shutdown" /\ Release(r, a)
      \/ slot[w].end = "cancelled" /\ FinishCancelled(r, a)
      \/ slot[w].end \in {"retryable", "fatal"} /\ FinishFailed(r, a, slot[w].end = "retryable")

Conclude(w) ==
  /\ slot[w].pc = "end" /\ slot[w].end # "done"
  /\ EndRun(w) \/ (~Holds(w) /\ UNCHANGED queueVars)
  /\ Done(w)
  /\ UNCHANGED objects

StartUpload(w) ==
  /\ slot[w].pc = "end" /\ slot[w].end = "done"
  /\ MoveTo(w, "upload")
  /\ UNCHANGED <<queueVars, objects>>

\* _while_beating: the lease is renewed if it can be; the answer is not looked at.
BeatWhileUploading(w) ==
  /\ slot[w].pc = "upload"
  /\ Heartbeat(slot[w].run, slot[w].attempt)
  /\ UNCHANGED <<slot, objects>>

Uploaded(w) ==
  /\ slot[w].pc = "upload"
  /\ objects' = objects \cup {Upload(w)}
  /\ MoveTo(w, "close")
  /\ UNCHANGED queueVars

\* The object store refuses: what went up is deleted again if the store lets it.
UploadFails(w) ==
  /\ slot[w].pc = "upload"
  /\ objects' \in {objects, objects \cup {Upload(w)}}
  /\ Ended(w, "fatal")
  /\ UNCHANGED queueVars

Close(w) ==
  /\ slot[w].pc = "close"
  /\ \/ FinishSuccessful(slot[w].run, slot[w].attempt) /\ Done(w)
     \/ ~Holds(w) /\ UNCHANGED queueVars /\ MoveTo(w, "forget")
  /\ UNCHANGED objects

\* A database error while uploading or closing, and nothing was written: the upload is
\* deleted again.
CloseErrs(w) ==
  /\ slot[w].pc \in {"upload", "close"}
  /\ MoveTo(w, "forget")
  /\ objects' \in {objects} \cup (IF slot[w].pc = "upload" THEN {objects \cup {Upload(w)}} ELSE {})
  /\ UNCHANGED queueVars

\* The same error to the worker, but PostgreSQL had committed.
AnswerLost(w) ==
  /\ AckLoss /\ slot[w].pc = "close"
  /\ FinishSuccessful(slot[w].run, slot[w].attempt)
  /\ MoveTo(w, "forget")
  /\ unheard' = unheard \cup {Upload(w)}
  /\ UNCHANGED objects

\* A mutant: everything the run ever uploaded is deleted.
ForgetRun(w) ==
  /\ slot[w].pc = "forget"
  /\ objects' \in {objects, {o \in objects : o[1] # slot[w].run}}
  /\ Done(w)
  /\ UNCHANGED queueVars

\* _forget: a failure of the object store is suppressed.
Forget(w) ==
  /\ slot[w].pc = "forget"
  /\ objects' \in {objects, objects \ {Upload(w)}}
  /\ Done(w)
  /\ UNCHANGED queueVars

\* The container dies, or the slot's connection breaks outside an upload: the run is
\* not ended here, its lease runs out.
Crash(w) ==
  /\ slot[w].pc # "idle"
  /\ Done(w)
  /\ UNCHANGED <<queueVars, objects>>

SlotStep(w) ==
  \/ WatchEnds(w) \/ Conclude(w) \/ StartUpload(w) \/ Uploaded(w)
  \/ UploadFails(w) \/ Close(w) \/ CloseErrs(w) \/ Forget(w) \/ Lost(w)

-----------------------------------------------------------------------------

Sweep(r) == RequeueExpired(r) /\ UNCHANGED <<objects, slot>>
Expire(r) == LeaseRunsOut(r) /\ UNCHANGED <<objects, slot>>
Rested(r) == BackoffEnds(r) /\ UNCHANGED <<objects, slot>>

Abandoned(r) == \A w \in Slots : Upload(w) # <<r, run[r].attempt>>

WorkerStep ==
  \/ \E w \in Slots : Pick(w) \/ Beat(w) \/ Progress(w) \/ BeatWhileUploading(w)
                        \/ SlotStep(w) \/ Crash(w)
  \/ \E r \in Runs : Sweep(r) \/ Expire(r) \/ Rested(r)
  \/ \E j \in Jobs : ApiCall(j) /\ UNCHANGED <<objects, slot>>
  \/ Tick /\ UNCHANGED <<objects, slot>>
  \/ (Cleanup \/ CleanupFails) /\ UNCHANGED slot

WorkerNext == (WorkerStep /\ UNCHANGED unheard) \/ \E w \in Slots : AnswerLost(w)

\* A slot thread that is not dead goes on; max_seconds ends every watch; a lease no
\* slot renews runs out, a backoff ends, and some supervisor sweeps.  Nothing is
\* assumed of heartbeats, of the clean-up, or of crashes staying away.
WorkerFairness ==
  /\ \A w \in Slots : /\ WF_workerVars(Pick(w) /\ UNCHANGED unheard)
                      /\ WF_workerVars(SlotStep(w) /\ UNCHANGED unheard)
  /\ \A r \in Runs : /\ WF_workerVars(Sweep(r) /\ UNCHANGED unheard)
                     /\ WF_workerVars(Rested(r) /\ UNCHANGED unheard)
                     /\ WF_workerVars(Abandoned(r) /\ Expire(r) /\ UNCHANGED unheard)

WorkerSpec == WorkerInit /\ [][WorkerNext]_workerVars /\ WorkerFairness

-----------------------------------------------------------------------------
(* Properties *)

WorkerTypeOK == CleanupTypeOK /\ slot \in [Slots -> SlotState] /\ unheard \subseteq Runs \X Nat

\* What a closing will point at is in the store, and what a slot may still delete is no result
\* an order can read, but where the answer to the closing was lost.
UploadsAreKept ==
  /\ \A w \in Slots : slot[w].pc = "close" /\ Holds(w) => Upload(w) \in objects
  /\ \A w \in Slots : slot[w].pc # "idle" /\ run[slot[w].run].st = "successful"
                        /\ run[slot[w].run].result = slot[w].attempt => Upload(w) \in unheard
  /\ \A r \in Joinable : ResultOf(r) \in objects \cup unheard

\* No upload, late upload, failed closing or clean-up takes the bytes of an order that can be
\* read, but where the answer to a commit was lost (the run lost_answer).
ResultThereIfHeard == UploadsAreKept /\ \A r \in Served : ResultOf(r) \in objects \cup unheard

\* A slot at rest holds nothing, one at work a number that was handed out, and it takes a child
\* for cancelled only if it told it to stop; a run that has not been created has no attempts.
SlotsHoldAttempts ==
  /\ \A w \in Slots : IF slot[w].pc = "idle" THEN slot[w] = Idle
                      ELSE slot[w].run \in Runs /\ slot[w].attempt >= 1
  /\ \A w \in Slots : slot[w].end = "cancelled" => slot[w].told
  /\ \A r \in Runs : run[r].st = "none" => run[r].attempt = 0

\* No two slots hold the same attempt of a run, and no slot one that was never picked
\* up: the attempt number is what shields a run from a worker that wakes up late.
AttemptsAreOwned ==
  \A w \in Slots : slot[w].pc # "idle" =>
    /\ slot[w].attempt \in Attempts(slot[w].run) \/ run[slot[w].run].st = "gone"
    /\ \A v \in Slots \ {w} : Upload(v) # Upload(w)

\* While a slot holds a run under a lease that has not run out, nobody but that slot
\* takes the run out of its hands: not a sweep, not a dismissal, not a late worker.
LeaseProtects ==
  [][\A w \in Slots :
       LET r == slot[w].run
       IN  slot[w].pc # "idle" /\ Holds(w) /\ run[r].lease /\ slot'[w] = slot[w]
             => run'[r].st = "running" /\ run'[r].attempt = slot[w].attempt]_workerVars

\* A run ends by a cancel only if no order wants it: the child was told to stop, but
\* an order that attached since brings the run back (finish_cancelled).
CancelSpares ==
  [][\A r \in Runs : run[r].st = "running" /\ run'[r].st = "dismissed" => ~Wanted(r)]_workerVars

\* The documented bound of docs/adr/0013-job-queue.md: at most MaxAttempts attempts.
AtMostMaxAttempts == \A r \in Runs : run[r].attempt <= MaxAttempts

Dismissals(r) == {j \in On(r) : job[j].dismissed}
Allowed(r)    == MaxAttempts + Cardinality(Dismissals(r))

\* Failures and crashes alone never go beyond the bound: every attempt above it was paid for by
\* an order that was dismissed while a newer one took its place.  One more attempt is in hand
\* while a run waits, and once a dismissal has asked for its end or reached its slot.
FailuresAreBounded ==
  /\ \A r \in Runs :
       /\ run[r].attempt <= Allowed(r)
       /\ run[r].st = "accepted" \/ (run[r].st = "running" /\ run[r].cancel) => run[r].attempt < Allowed(r)
  /\ \A w \in Slots : slot[w].pc # "idle" /\ slot[w].told /\ Holds(w) => slot[w].attempt < Allowed(slot[w].run)

\* An attempt number belongs to one slot, and is never higher than failures and cancels explain,
\* while the rows stay those of the queue (claim, finish_failed, requeue_expired).
AttemptsInOrder == QueueInv /\ WorkerTypeOK /\ SlotsHoldAttempts /\ AttemptsAreOwned /\ FailuresAreBounded

\* Nobody takes a run from the slot whose lease holds, and no cancel takes it from an
\* order that wants it (_lock_attempt, finish_cancelled).
RunsAreKept == LeaseProtects /\ CancelSpares

\* Every order somebody waits for comes to an end, whatever crashes, hangs, retries
\* and cancels happen: an accepted run is over at last, or was removed at its expiry.
EveryRunEnds ==
  \A r \in Runs : run[r].st \in Active ~> run[r].st \in Over \cup {"gone"}

=============================================================================
