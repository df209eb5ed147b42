----------------------------- MODULE JobCleanup -----------------------------
(***************************************************************************)
(* The hourly clean-up (jobs/cleanup.py) over the tables of JobQueue and   *)
(* the object store the results lie in.                                    *)
(*                                                                         *)
(* cleanup_batch is one transaction: it locks every run it will touch      *)
(* before it deletes an object, so for the rows it is one step.  The       *)
(* object store takes part in no transaction: a batch that fails on the    *)
(* way has deleted some objects and no row (CleanupFails).                 *)
(***************************************************************************)
EXTENDS JobQueue

CONSTANT Batch   \* rows per batch, BATCH in the code

ASSUME BatchAssumption == Batch \in Nat \ {0}

VARIABLE objects   \* result objects in the store, <<run, attempt that uploaded it>>

cleanupVars == <<run, job, recipes, now, objects>>

ResultOf(r) == <<r, run[r].result>>

CleanupInit == Init /\ objects = {}

-----------------------------------------------------------------------------
(* One batch *)

Expired == {r \in Runs : run[r].st \in Over \cup {"accepted"} /\ run[r].expires < now}

\* What LIMIT can return of a set: as many as there are, up to a batch.
UpTo(S) == {T \in SUBSET S : Cardinality(T) = Earlier(Batch, Cardinality(S))}

\* ORDER BY expires_at LIMIT batch.
ExpiredBatches ==
  {T \in UpTo(Expired) :
     \A r \in T, q \in Expired \ T : run[r].expires <= run[q].expires}

\* Runs with a job past its term, once the expired runs of the batch are gone.
DueRuns(expired) == {job[j].run : j \in {i \in Jobs : Due(i)}} \ expired

\* A mutant: only the live jobs count, not those that may still be restored.
WholeUnlessLive(due) == {r \in due : ~(\E j \in On(r) : Alive(j)) /\ run[r].st \in Over}

\* Of these, the runs that go whole: over, and no job lives or may be restored.
WholeRuns(due) == {r \in due : ~Needed(r) /\ run[r].st \in Over}

\* The runs that stay but point at the recipe of a due job.
PointAtDue(R) == {r \in R : run[r].recipe \in {j \in On(r) : Due(j)}}

\* The job rows that go: all of a run that goes, the due ones of a run that stays.
GoneJobs(goneRuns, staying) ==
  {j \in Jobs : job[j].run \in goneRuns \/ (Due(j) /\ job[j].run \in staying)}

GoneObjects(expired, whole) == {ResultOf(r) : r \in expired \cup whole}

\* The rows and objects one batch removes.  A run that pointed at the recipe of a due
\* job points at the recipe of one that stays; without one it keeps its due jobs.
Removal(expired, due, heir) ==
  LET whole    == WholeRuns(due)
      moved    == PointAtDue(due \ whole)
      stuck    == {r \in moved : \A j \in On(r) : Due(j)}
      goneRuns == expired \cup whole
      goneJobs == GoneJobs(goneRuns, (due \ whole) \ stuck)
  IN  /\ \A r \in moved \ stuck : heir[r] \in {j \in On(r) : ~Due(j)}
      /\ run' = [r \in Runs |-> CASE r \in goneRuns      -> NoRunRow("gone")
                                  [] r \in moved \ stuck -> [run[r] EXCEPT !.recipe = heir[r]]
                                  [] OTHER               -> run[r]]
      /\ job' = [j \in Jobs |-> IF j \in goneJobs THEN NoJobRow("gone") ELSE job[j]]
      /\ objects' = objects \ GoneObjects(expired, whole)

\* A recipe goes when neither a job nor a run refers to it.
Referenced(j) == job[j].st = "there" \/ \E r \in Runs : run[r].recipe = j

SweepRecipes ==
  \E swept \in UpTo({j \in recipes : ~Referenced(j)'}) : recipes' = recipes \ swept

Cleanup ==
  \E expired \in ExpiredBatches :
    \E due \in UpTo(DueRuns(expired)), heir \in [Runs -> Jobs] :
      /\ Removal(expired, due, heir)
      /\ SweepRecipes
      /\ UNCHANGED now

\* The object store refuses, or the worker dies, between two deletions: the
\* transaction rolls back, the objects deleted so far are gone.
CleanupFails ==
  \E expired \in ExpiredBatches :
    \E due \in UpTo(DueRuns(expired)) :
      \E lost \in SUBSET GoneObjects(expired, WholeRuns(due)) :
        /\ objects' = objects \ lost
        /\ UNCHANGED queueVars

-----------------------------------------------------------------------------
(* The queue with its results: a worker puts the object there before it     *)
(* closes the run (the two steps are taken apart in JobWorker).             *)

Deliver(r, a) ==
  /\ FinishSuccessful(r, a)
  /\ objects' = objects \cup {<<r, a>>}

CleanupNext ==
  \/ \E r \in Runs : \/ QueueStep(r) /\ UNCHANGED objects
                     \/ \E a \in Attempts(r) : Deliver(r, a)
  \/ \E j \in Jobs : ApiCall(j) /\ UNCHANGED objects
  \/ Tick /\ UNCHANGED objects
  \/ Cleanup
  \/ CleanupFails

CleanupSpec == CleanupInit /\ [][CleanupNext]_cleanupVars

-----------------------------------------------------------------------------
(* Properties *)

CleanupTypeOK == TypeOK /\ objects \subseteq Runs \X Nat

\* What the foreign keys ask: no deletion leaves a job without its run or recipe or a
\* run without a recipe, also when a run outlives the order that brought its recipe.
\* RESTRICT would refuse the whole batch, every hour again.
NoRowDangles ==
  /\ \A j \in Jobs : job[j].st = "there" =>
       job[j].run \in Runs /\ run[job[j].run].st \in Rows /\ j \in recipes
  /\ \A r \in Runs : run[r].st \in Rows => run[r].recipe \in recipes

\* The runs with a result that some order still reads, or can be restored to.
Served ==
  {r \in Runs : run[r].st = "successful" /\ run[r].expires >= now /\ Needed(r)}

\* An order that can still be read, or restored, has its bytes: no clean-up of another order's
\* deletion, nor a failed one, takes the result away before its time; nor that of a run a new
\* order may still join, for it could be read then.
ResultThere == \A r \in Served : ResultOf(r) \in objects

Joinable == {r \in Runs : run[r].st = "successful" /\ run[r].expires >= now /\ Serves(r)}

JoinedThere == \A r \in Joinable : ResultOf(r) \in objects

\* The store holds nothing the queue has forgotten: an object of a deleted run is deleted with
\* it or before it, and every other is the result its run points at.
NothingLeftBehind == \A o \in objects : run[o[1]].st = "successful" /\ run[o[1]].result = o[2]

\* No table and no object refers to what is not there, in either direction, and what can be
\* read is there, while the rows stay those of the queue (cleanup_batch).
NothingDangles ==
  QueueInv /\ CleanupTypeOK /\ NoRowDangles /\ NothingLeftBehind /\ ResultThere /\ JoinedThere

\* Nothing is left that should have gone: no run past its expiry, no job past its term, no
\* recipe of a job that has gone, also where other orders keep the run it brought.
Settled ==
  /\ {r \in Expired : run[r].st \in Over} = {}
  /\ {j \in Jobs : Due(j)} = {}
  /\ {j \in recipes : job[j].st = "gone"} = {}

\* What job_status shows of an order, and what restore can bring it back to.
View == [j \in Jobs |->
  IF job[j].st # "there" THEN job[j].st
  ELSE IF job[j].dismissed \/ job[j].until # NoTerm THEN "dismissed"
  ELSE run[job[j].run].st]

Held == [j \in Jobs |-> IF job[j].until # NoTerm THEN run[job[j].run].st ELSE "none"]

Promise == INSTANCE JobPromise WITH view <- View, held <- Held

\* The queue, the clean-up and any workers together implement the promise to a caller:
\* an order moves only forward, is dismissed by nobody but its caller, and a deleted
\* one comes back as it was or not at all.
PromiseKept == Promise!PromiseSpec
=============================================================================
