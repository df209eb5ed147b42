------------------------------ MODULE JobQueue ------------------------------
(***************************************************************************)
(* The job queue of the backend: the rows of earthx_run, earthx_job and    *)
(* earthx_recipe, and the transactions of jobs/queue.py and jobs/submit.py *)
(* on them.                                                                *)
(*                                                                         *)
(* An order is a job.  Equal orders share one run, the unit a worker       *)
(* computes.  A worker holds a run through the number of the attempt it    *)
(* picked the run up with, and through a lease.                            *)
(*                                                                         *)
(* One action is one committed transaction.  Every transaction locks the   *)
(* row of its run before it reads anything it decides by, so a transaction *)
(* behaves as one step; QueueTx takes the transactions apart into their    *)
(* statements and shows it.  Where one does not, the action allows what    *)
(* the statements do: Submit looks for a finished run and for an active    *)
(* one in two statements, and Claim skips the rows another one holds.      *)
(***************************************************************************)
EXTENDS Integers, FiniteSets

CONSTANTS
  Runs,         \* run numbers the identity column can hand out
  NoRun,        \* the run of a job that has no row
  Jobs,         \* an order: its job_id and, one to one with it, its recipe_id
  Keys,         \* run keys of equal orders; an export has its own recipe_id as key
  Cacheable,    \* the keys whose results may serve another order
  Hosts,        \* hosts a recipe reads from
  HostsOf,      \* the hosts of a key
  GlobalCap,    \* earthx_job_limits.global_cap
  HostCap,      \* earthx_job_limits.host_cap
  MaxAttempts,  \* earthx_run.max_attempts
  ResultTTL,    \* RESULT_TTL, 7 days in the code
  DeleteTerm,   \* DELETE_TERM, 1 day
  CacheMin,     \* CACHE_MIN_REMAINING, 1 day
  MaxNow,       \* bound of the clock
  ClaimBound    \* bound on the attempts of a run in Spec

ASSUME RunsAssumption == IsFiniteSet(Runs) /\ NoRun \notin Runs
ASSUME KeysAssumption ==
  /\ Keys \cap Jobs = {}
  /\ Cacheable \subseteq Keys
  /\ HostsOf \in [Keys \cup Jobs -> SUBSET Hosts]
ASSUME LimitsAssumption ==
  /\ GlobalCap \in Nat \ {0} /\ HostCap \in Nat \ {0} /\ MaxAttempts \in Nat \ {0}
  /\ ResultTTL \in Nat \ {0} /\ DeleteTerm \in Nat \ {0} /\ CacheMin \in Nat \ {0}
  /\ MaxNow \in Nat /\ ClaimBound \in Nat

VARIABLES
  run,      \* the rows of earthx_run
  job,      \* the rows of earthx_job
  recipes,  \* the rows of earthx_recipe, named by the order that brought them
  now       \* the database's clock

queueVars == <<run, job, recipes, now>>

-----------------------------------------------------------------------------
(* Rows *)

Active == {"accepted", "running"}
Over   == {"successful", "failed", "dismissed"}
Rows   == Active \cup Over

NoTerm   == -1   \* earthx_job.deleted_until IS NULL
NoResult == 0    \* earthx_run.result_id IS NULL
NoKey    == NoRun

\* A result is named by the attempt that uploaded it: every upload draws a new
\* random result_id.  "none" is a number not handed out yet, "gone" a deleted row;
\* neither a run number nor a job_id is ever handed out again.
RunRow ==
  [st      : Rows \cup {"none", "gone"},
   key     : Keys \cup Jobs \cup {NoKey},
   recipe  : Jobs \cup {NoRun},
   attempt : Nat,
   cancel  : BOOLEAN,               \* cancel_requested
   ready   : BOOLEAN,               \* not_before has passed
   lease   : BOOLEAN,               \* lease_until lies ahead
   result  : Nat,
   expires : Nat]

JobRow ==
  [st        : {"none", "there", "gone"},
   run       : Runs \cup {NoRun},
   dismissed : BOOLEAN,
   until     : Nat \cup {NoTerm}]   \* deleted_until

NoRunRow(st) ==
  [st |-> st, key |-> NoKey, recipe |-> NoRun, attempt |-> 0, cancel |-> FALSE,
   ready |-> FALSE, lease |-> FALSE, result |-> NoResult, expires |-> 0]

NoJobRow(st) == [st |-> st, run |-> NoRun, dismissed |-> FALSE, until |-> NoTerm]

NewRun(k, j) ==
  [NoRunRow("accepted") EXCEPT !.key = k, !.recipe = j, !.ready = TRUE,
                               !.expires = now + ResultTTL]

Init ==
  /\ run = [r \in Runs |-> NoRunRow("none")]
  /\ job = [j \in Jobs |-> NoJobRow("none")]
  /\ recipes = {}
  /\ now = 0

On(r) == {j \in Jobs : job[j].run = r}

\* What the end of an attempt counts as a live job, in _lock_attempt ...
Wanted(r) == \E j \in On(r) : ~job[j].dismissed

\* ... and what _cancel and the look for a cache hit count: also not deleted.
Alive(j) == ~job[j].dismissed /\ job[j].until = NoTerm

\* A deleted job is past its term, or may still be restored.
Due(j)     == job[j].until # NoTerm /\ job[j].until < now
Waiting(j) == job[j].until >= now

\* Somebody can read the run's result, or get it back.
Needed(r) == \E j \in On(r) : Alive(j) \/ Waiting(j)

Running       == {r \in Runs : run[r].st = "running"}
RunningAt(h)  == {r \in Running : h \in HostsOf[run[r].key]}

ActiveWith(k) == {r \in Runs : run[r].st \in Active /\ run[r].key = k}

Earlier(s, t) == IF s <= t THEN s ELSE t

-----------------------------------------------------------------------------
(* queue.py: what a worker calls *)

\* A mutant: the limits are checked against what already runs, not with the new run.
FitsOneMore(r) ==
  /\ Cardinality(Running) <= GlobalCap
  /\ \A h \in HostsOf[run[r].key] : Cardinality(RunningAt(h)) <= HostCap

Fits(r) ==
  /\ Cardinality(Running) < GlobalCap
  /\ \A h \in HostsOf[run[r].key] : Cardinality(RunningAt(h)) < HostCap

\* A mutant: a run that is picked up again keeps its attempt number.
ClaimSameAttempt(r) ==
  /\ run[r].st = "accepted" /\ run[r].ready
  /\ Fits(r)
  /\ run' = [run EXCEPT ![r].st = "running", ![r].lease = TRUE,
                        ![r].attempt = IF @ = 0 THEN 1 ELSE @]
  /\ UNCHANGED <<job, recipes, now>>

\* The oldest fitting row that no other transaction holds (SKIP LOCKED).  Which
\* rows are held at the moment is open, so any fitting row may be the one.
Claim(r) ==
  /\ run[r].st = "accepted" /\ run[r].ready
  /\ Fits(r)
  /\ run' = [run EXCEPT ![r] = [@ EXCEPT !.st = "running", !.attempt = run[r].attempt + 1,
                                         !.lease = TRUE]]
  /\ UNCHANGED <<job, recipes, now>>

OwnsAnyStatus(r, a)  == run[r].st \in Rows /\ run[r].attempt = a
Owns(r, a) == run[r].st = "running" /\ run[r].attempt = a

Heartbeat(r, a) ==
  /\ Owns(r, a)
  /\ run' = [run EXCEPT ![r].lease = TRUE]
  /\ UNCHANGED <<job, recipes, now>>

FinishSuccessful(r, a) ==
  /\ Owns(r, a)
  /\ run' = [run EXCEPT ![r] = [@ EXCEPT !.st = "successful", !.result = a,
                 !.lease = FALSE, !.cancel = FALSE, !.expires = now + ResultTTL]]
  /\ UNCHANGED <<job, recipes, now>>

\* _dismiss_locked: the term counted from the creation stays.
DismissRun(r) ==
  run' = [run EXCEPT ![r] = [@ EXCEPT !.st = "dismissed", !.lease = FALSE, !.cancel = FALSE]]

Requeue(r, rested) ==
  run' = [run EXCEPT ![r] = [@ EXCEPT !.st = "accepted", !.lease = FALSE,
                                      !.cancel = FALSE, !.ready = rested]]

FailRun(r) ==
  run' = [run EXCEPT ![r] = [@ EXCEPT !.st = "failed", !.lease = FALSE,
                 !.cancel = FALSE, !.expires = now + ResultTTL]]

MayRetry(a) == a < MaxAttempts

\* A run being cancelled that nobody waits for any more is dismissed; else the run
\* goes back to the queue if the reason allows it and attempts are left, else fails.
EndAttempt(r, a, retryable, rested) ==
  LET unwanted == run[r].cancel /\ ~Wanted(r)
      again    == retryable /\ MayRetry(a)
  IN  /\ Owns(r, a)
      /\ \/ unwanted /\ DismissRun(r)
         \/ ~unwanted /\ again /\ Requeue(r, rested)
         \/ ~unwanted /\ ~again /\ FailRun(r)
      /\ UNCHANGED <<job, recipes, now>>

FinishFailed(r, a, retryable) == EndAttempt(r, a, retryable, FALSE)

\* release: a lost lease without the backoff.
Release(r, a) == EndAttempt(r, a, TRUE, TRUE)

\* Two mutants: the lease is not looked at again under the lock; the sweeper looks for
\* leases that still hold.
RequeueAny(r)  == EndAttempt(r, run[r].attempt, TRUE, FALSE)
RequeueHeld(r) == run[r].lease /\ EndAttempt(r, run[r].attempt, TRUE, FALSE)

\* One row of requeue_expired: finish_failed("lease_lost", lease_expired_only=True).
RequeueExpired(r) == ~run[r].lease /\ EndAttempt(r, run[r].attempt, TRUE, FALSE)

\* A mutant: what attached since the cancel is not counted.
FinishCancelledBlindly(r, a) ==
  Owns(r, a) /\ DismissRun(r) /\ UNCHANGED <<job, recipes, now>>

FinishCancelled(r, a) ==
  /\ Owns(r, a)
  /\ \/ ~Wanted(r) /\ DismissRun(r)
     \/ Wanted(r) /\ Requeue(r, TRUE)
  /\ UNCHANGED <<job, recipes, now>>

-----------------------------------------------------------------------------
(* submit.py: what the api calls *)

\* A finished run of the key that can serve another order; one that only deleted orders hang
\* on does not.  That, and which run is the newest, the statement judges by its snapshot: a
\* deletion that commits while it waits for the row escapes it (see QueueTx).  So the newest
\* is not asked for, and a deletion counts once its term, which no transaction outlasts, is over.
Serves(r) == (\A j \in On(r) : ~Due(j)) \/ Needed(r)

IsHit(r, k) ==
  /\ k \in Cacheable
  /\ run[r].st = "successful" /\ run[r].key = k
  /\ run[r].expires >= now + CacheMin
  /\ Serves(r)

\* A mutant: the recipe row is shared, so none is written for an order on a known run.
PlaceWithoutRecipe(j, r) ==
  /\ job' = [job EXCEPT ![j] = [NoJobRow("there") EXCEPT !.run = r]]
  /\ recipes' = IF run[r].st = "none" THEN recipes \cup {j} ELSE recipes
  /\ UNCHANGED now

Place(j, r) ==
  /\ job' = [job EXCEPT ![j] = [NoJobRow("there") EXCEPT !.run = r]]
  /\ recipes' = recipes \cup {j}
  /\ UNCHANGED now

SubmitHit(j, k) ==
  \E r \in Runs :
    /\ IsHit(r, k)
    /\ Place(j, r)
    /\ UNCHANGED run

\* The look for a hit is a statement of its own: a run that finished after it is
\* missed, so neither of the next two actions asks that there be no hit.
SubmitNew(j, k) ==
  /\ ActiveWith(k) = {}
  /\ \E r \in Runs :
       /\ run[r].st = "none"
       /\ run' = [run EXCEPT ![r] = NewRun(k, j)]
       /\ Place(j, r)

SubmitAttach(j, k) ==
  \E r \in ActiveWith(k) :
    /\ run' = [run EXCEPT ![r].cancel = FALSE]
    /\ Place(j, r)

\* k = j is an export: its key holds its own recipe_id.
Submit(j, k) ==
  /\ job[j].st = "none" /\ j \notin recipes
  /\ k \in Keys \cup {j}
  /\ \/ SubmitHit(j, k)
     \/ SubmitNew(j, k)
     \/ SubmitAttach(j, k)

\* dismiss on a job whose run has finished: deleted with a term.
DismissFinished(j) ==
  LET r == job[j].run
  IN  /\ run[r].st \in {"successful", "failed"}
      /\ Alive(j)
      /\ job' = [job EXCEPT ![j].until = Earlier(now + DeleteTerm, run[r].expires)]
      /\ UNCHANGED run

\* _cancel: the run stops with the last live job on it.
Cancel(j) ==
  LET r     == job[j].run
      alone == \A i \in On(r) \ {j} : ~Alive(i)
  IN  /\ run[r].st \notin {"successful", "failed"}
      /\ job' = [job EXCEPT ![j].dismissed = TRUE]
      /\ \/ alone /\ run[r].st = "accepted"
            /\ run' = [run EXCEPT ![r].st = "dismissed"]
         \/ alone /\ run[r].st = "running"
            /\ run' = [run EXCEPT ![r].cancel = TRUE]
         \/ (~alone \/ run[r].st = "dismissed") /\ UNCHANGED run

Dismiss(j) ==
  /\ job[j].st = "there"
  /\ DismissFinished(j) \/ Cancel(j)
  /\ UNCHANGED <<recipes, now>>

Restore(j) ==
  /\ job[j].st = "there"
  /\ run[job[j].run].expires > now
  /\ job[j].until > now
  /\ job' = [job EXCEPT ![j].until = NoTerm]
  /\ UNCHANGED <<run, recipes, now>>

-----------------------------------------------------------------------------
(* Time *)

LeaseRunsOut(r) ==
  /\ run[r].st = "running" /\ run[r].lease
  /\ run' = [run EXCEPT ![r].lease = FALSE]
  /\ UNCHANGED <<job, recipes, now>>

BackoffEnds(r) ==
  /\ run[r].st = "accepted" /\ ~run[r].ready
  /\ run' = [run EXCEPT ![r].ready = TRUE]
  /\ UNCHANGED <<job, recipes, now>>

Tick ==
  /\ now < MaxNow
  /\ now' = now + 1
  /\ UNCHANGED <<run, job, recipes>>

-----------------------------------------------------------------------------
(* The queue under any workers: an attempt that was ever picked up may call *)
(* at any later time, any number of times, in any order.                    *)

Attempts(r) == 1 .. run[r].attempt

WorkerCall(r) ==
  \E a \in Attempts(r) :
    \/ Heartbeat(r, a)
    \/ \E retryable \in BOOLEAN : FinishFailed(r, a, retryable)
    \/ Release(r, a)
    \/ FinishCancelled(r, a)

QueueStep(r) ==
  \/ run[r].attempt < ClaimBound /\ Claim(r)
  \/ WorkerCall(r)
  \/ RequeueExpired(r) \/ LeaseRunsOut(r) \/ BackoffEnds(r)

ApiCall(j) ==
  \/ \E k \in Keys \cup {j} : Submit(j, k)
  \/ Dismiss(j)
  \/ Restore(j)

Next ==
  \/ \E r \in Runs : QueueStep(r) \/ \E a \in Attempts(r) : FinishSuccessful(r, a)
  \/ \E j \in Jobs : ApiCall(j)
  \/ Tick

Spec == Init /\ [][Next]_queueVars

-----------------------------------------------------------------------------
(* Properties *)

\* Every row has the columns and values of its table.
TypeOK ==
  /\ run \in [Runs -> RunRow]
  /\ job \in [Jobs -> JobRow]
  /\ recipes \subseteq Jobs
  /\ now \in Nat

\* Equal orders share one computation: no second run of a key is queued or
\* running, whatever attempts end, come back or attach (earthx_run_active_key_idx).
OneActivePerKey ==
  \A r, q \in Runs :
    run[r].st \in Active /\ run[q].st \in Active /\ run[r].key = run[q].key => r = q

\* Never more runs at once than the cap, nor more on one host than its limit, also
\* when runs come back to the queue and are picked up again (claim).
CapsHeld ==
  /\ Cardinality(Running) <= GlobalCap
  /\ \A h \in Hosts : Cardinality(RunningAt(h)) <= HostCap

\* A waiting run is one somebody still wants, and a running one is asked to stop
\* exactly when nobody does: the flag survives no attach and no end of an attempt
\* (dismiss, _run_for, finish_*).
WorkIsWanted ==
  \A r \in Runs :
    /\ run[r].st = "accepted" => Wanted(r)
    /\ run[r].st = "running" => (run[r].cancel <=> ~Wanted(r))
    /\ run[r].cancel => run[r].st = "running"

\* Nobody's order is cancelled by another's dismissal: a run is dismissed only when
\* every order on it was dismissed by its own caller (F6, _lock_attempt).
NobodyElseCancels ==
  \A j \in Jobs :
    job[j].st = "there" /\ run[job[j].run].st = "dismissed" => job[j].dismissed

\* A deleted job is one of a finished run, was not dismissed before, and its term
\* never outlives the run and its result (dismiss, restore).
TermWithinLife ==
  \A j \in Jobs :
    job[j].until # NoTerm =>
      /\ job[j].st = "there" /\ ~job[j].dismissed
      /\ run[job[j].run].st \in {"successful", "failed"}
      /\ job[j].until <= run[job[j].run].expires

\* A run closes with the result of the attempt that owns it: a worker that wakes up
\* late does not slip its own result under a newer attempt (finish_successful).
ResultOfTheOwner ==
  \A r \in Runs : run[r].result # NoResult =>
    run[r].st = "successful" /\ run[r].result = run[r].attempt

\* Every job row has its run and its recipe, and a job without a row has no trace:
\* with the invariants above it is what the proofs of JobCleanupProofs build on.
JobsHaveRuns ==
  \A j \in Jobs :
    IF job[j].st = "there"
    THEN j \in recipes /\ job[j].run \in Runs /\ run[job[j].run].st \in Rows
    ELSE job[j].run = NoRun

\* The inductive invariant: no conjunct alone survives every transaction.  That a
\* cancel leaves no waiting run unwanted needs TermWithinLife (an order on an active
\* run is not deleted), and that needs JobsHaveRuns.
QueueInv ==
  /\ TypeOK
  /\ JobsHaveRuns
  /\ OneActivePerKey
  /\ WorkIsWanted
  /\ NobodyElseCancels
  /\ TermWithinLife
  /\ ResultOfTheOwner

\* What is over stays as it ended: no late call, retry, attach or dismissal moves a
\* finished run, its result or its term.
OverIsFinal ==
  [][\A r \in Runs : run[r].st \in Over =>
        \/ run'[r] = [run[r] EXCEPT !.recipe = run'[r].recipe]
        \/ run'[r].st = "gone"]_run
=============================================================================
