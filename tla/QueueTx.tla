------------------------------- MODULE QueueTx -------------------------------
(***************************************************************************)
(* The transactions of jobs/queue.py and jobs/submit.py taken apart into   *)
(* their statements, as PostgreSQL runs them at READ COMMITTED.            *)
(*                                                                         *)
(* A statement judges the rows by a snapshot taken when it begins, then    *)
(* waits for the row it found, and goes on with the newest version of that *)
(* row if the row still answers to its WHERE; rows of other tables it has  *)
(* read are not read again.  What a transaction writes is seen when it     *)
(* commits.  The tables of JobQueue hold what is committed; tx[s] is what  *)
(* the transaction of session s has read and locked so far.                *)
(*                                                                         *)
(* This module shows that JobQueue and JobCleanup may take a transaction   *)
(* for one step (StatementsMakeSteps).                                     *)
(***************************************************************************)
EXTENDS JobCleanup

CONSTANT Sessions   \* database connections of the api and of the slots

VARIABLE tx

txVars == <<run, job, recipes, now, objects, tx>>

\* How an attempt ends: finish_failed with a kind that may be tried again or not, release,
\* requeue_expired, finish_cancelled.
Hows == {"failed", "retryable", "released", "expired", "cancelled"}

Tx ==
  [pc    : {"idle",
            "end", "endHeld", "endRead",                          \* _lock_attempt and after
            "claim", "claimLocked", "claimCounted", "claimHeld",  \* claim
            "look", "hit", "insert", "conflict", "attach",        \* _run_for
            "hitHeld", "newHeld", "attachHeld",
            "dismiss", "dismissHeld", "dismissCounted",           \* dismiss
            "restore", "restoreHeld"},                            \* restore
   run   : Runs \cup {NoRun},      \* the row found, waited for or locked
   job   : Jobs \cup {NoRun},
   key   : Keys \cup Jobs \cup {NoKey},
   att   : Nat,
   how   : Hows \cup {"none"},
   live  : BOOLEAN,                \* what it read of the jobs of its run
   seen  : SUBSET (Keys \cup Jobs \cup {NoKey}), \* the keys, and so the hosts, of the running runs it counted
   round : 0 .. 3]                 \* of the loop in _run_for

IdleTx ==
  [pc |-> "idle", run |-> NoRun, job |-> NoRun, key |-> NoKey, att |-> 0, how |-> "none",
   live |-> FALSE, seen |-> {}, round |-> 0]

TxInit == CleanupInit /\ tx = [s \in Sessions |-> IdleTx]

-----------------------------------------------------------------------------
(* Row locks *)

Exclusive == {"endHeld", "endRead", "claimHeld", "attachHeld", "dismissHeld",
              "dismissCounted", "restoreHeld"}
Share     == {"hitHeld"}

Updating(r) == {s \in Sessions : tx[s].run = r /\ tx[s].pc \in Exclusive}
Sharing(r)  == {s \in Sessions : tx[s].run = r /\ tx[s].pc \in Share}
Free(r)     == Updating(r) \cup Sharing(r) = {}

At(s, pc)   == tx[s].pc = pc
Goto(s, pc) == tx' = [tx EXCEPT ![s].pc = pc]
Begin(s, t) == At(s, "idle") /\ tx' = [tx EXCEPT ![s] = t]
End(s)      == tx' = [tx EXCEPT ![s] = IdleTx]
Reading     == UNCHANGED cleanupVars

-----------------------------------------------------------------------------
(* The end of an attempt *)

EndMatches(t) == Owns(t.run, t.att) /\ (t.how = "expired" => ~run[t.run].lease)

BeginEnd(s) ==
  \E r \in Runs, how \in Hows : \E a \in Attempts(r) :
    LET t == [IdleTx EXCEPT !.pc = "end", !.run = r, !.att = a, !.how = how, !.live = Wanted(r)]
    IN  EndMatches(t) /\ Begin(s, t) /\ Reading

\* A mutant: the row is taken as the snapshot showed it.
LockEndAsFound(s) == At(s, "end") /\ Free(tx[s].run) /\ Goto(s, "endHeld") /\ Reading

LockEnd(s) ==
  /\ At(s, "end") /\ Free(tx[s].run)
  /\ IF EndMatches(tx[s]) THEN Goto(s, "endHeld") ELSE End(s)
  /\ Reading

\* The second statement of _lock_attempt has a snapshot of its own.
ReadEnd(s) ==
  /\ At(s, "endHeld")
  /\ tx' = [tx EXCEPT ![s].pc = "endRead", ![s].live = Wanted(tx[s].run)]
  /\ Reading

CommitEnd(s) ==
  LET t        == tx[s]
      unwanted == ~t.live /\ (t.how = "cancelled" \/ run[t.run].cancel)
      again    == t.how = "cancelled" \/ (t.how # "failed" /\ MayRetry(t.att))
  IN  /\ At(s, "endRead")
      /\ \/ unwanted /\ DismissRun(t.run)
         \/ ~unwanted /\ again /\ Requeue(t.run, t.how \in {"cancelled", "released"})
         \/ ~unwanted /\ ~again /\ FailRun(t.run)
      /\ End(s)
      /\ UNCHANGED <<job, recipes, now, objects>>

-----------------------------------------------------------------------------
(* The pick-up *)

KeysRunning == {run[r].key : r \in Running}

FitsBeside(r, keys) ==
  /\ Cardinality(keys) < GlobalCap
  /\ \A h \in HostsOf[run[r].key] : Cardinality({k \in keys : h \in HostsOf[k]}) < HostCap

BeginClaim(s) ==
  Begin(s, [IdleTx EXCEPT !.pc = "claim", !.seen = KeysRunning]) /\ Reading

\* pg_advisory_xact_lock, held until the commit.
LockClaim(s) ==
  /\ At(s, "claim")
  /\ \A v \in Sessions : tx[v].pc \notin {"claimLocked", "claimCounted", "claimHeld"}
  /\ Goto(s, "claimLocked")
  /\ Reading

CountRunning(s) ==
  /\ At(s, "claimLocked")
  /\ tx' = [tx EXCEPT ![s].pc = "claimCounted", ![s].seen = KeysRunning]
  /\ Reading

\* SKIP LOCKED: a row that another transaction holds is not waited for.
TakeRun(s) ==
  LET fitting == {r \in Runs : /\ run[r].st = "accepted" /\ run[r].ready
                               /\ run[r].attempt < ClaimBound
                               /\ Free(r) /\ FitsBeside(r, tx[s].seen)}
  IN  /\ At(s, "claimCounted")
      /\ \/ \E r \in fitting : tx' = [tx EXCEPT ![s].pc = "claimHeld", ![s].run = r]
         \/ fitting = {} /\ End(s)
      /\ Reading

CommitClaim(s) ==
  LET r == tx[s].run
  IN  /\ At(s, "claimHeld")
      /\ run' = [run EXCEPT ![r] = [@ EXCEPT !.st = "running", !.attempt = run[r].attempt + 1,
                                             !.lease = TRUE]]
      /\ End(s)
      /\ UNCHANGED <<job, recipes, now, objects>>

-----------------------------------------------------------------------------
(* An order *)

BeginSubmit(s) ==
  \E j \in Jobs : \E k \in Keys \cup {j} :
    /\ job[j].st = "none" /\ j \notin recipes
    /\ \A v \in Sessions : tx[v].pc # "idle" => tx[v].job # j
    /\ Begin(s, [IdleTx EXCEPT !.pc = "look", !.job = j, !.key = k, !.round = 1])
    /\ Reading

\* A result that only deleted jobs hang on is no hit; one with a job that lives is.
LooksServed(r) == (\A j \in On(r) : job[j].until = NoTerm) \/ \E j \in On(r) : Alive(j)

Hits(k) == {r \in Runs : IsHit(r, k) /\ LooksServed(r)}

Look(s) ==
  LET hits == Hits(tx[s].key)
  IN  /\ At(s, "look")
      /\ \/ \E r \in hits :
              /\ \A q \in hits : run[q].expires <= run[r].expires
              /\ tx' = [tx EXCEPT ![s].pc = "hit", ![s].run = r]
         \/ hits = {} /\ Goto(s, "insert")
      /\ Reading

\* FOR SHARE: the clean-up is kept off; a row it has deleted meanwhile is no hit.
LockHit(s) ==
  /\ At(s, "hit") /\ Updating(tx[s].run) = {}
  /\ Goto(s, IF run[tx[s].run].st = "successful" THEN "hitHeld" ELSE "insert")
  /\ Reading

\* ON CONFLICT DO NOTHING looks at the newest rows, and waits for one on its way.
Insert(s) ==
  /\ At(s, "insert")
  /\ \A v \in Sessions : At(v, "newHeld") => tx[v].key # tx[s].key
  /\ Goto(s, IF ActiveWith(tx[s].key) = {} THEN "newHeld" ELSE "conflict")
  /\ Reading

\* A round without a run; after the third the order is refused and rolled back.
NextRound(s) ==
  IF tx[s].round = 3 THEN End(s)
  ELSE tx' = [tx EXCEPT ![s].pc = "look", ![s].run = NoRun, ![s].round = @ + 1]

FindActive(s) ==
  LET active == ActiveWith(tx[s].key)
  IN  /\ At(s, "conflict")
      /\ \/ \E r \in active : tx' = [tx EXCEPT ![s].pc = "attach", ![s].run = r]
         \/ active = {} /\ NextRound(s)
      /\ Reading

LockActive(s) ==
  /\ At(s, "attach") /\ Free(tx[s].run)
  /\ IF run[tx[s].run].st \in Active THEN Goto(s, "attachHeld") ELSE NextRound(s)
  /\ Reading

CommitSubmit(s) ==
  LET t == tx[s]
  IN  /\ \/ At(s, "hitHeld") /\ Place(t.job, t.run) /\ UNCHANGED run
         \/ At(s, "attachHeld") /\ Place(t.job, t.run)
            /\ run' = [run EXCEPT ![t.run].cancel = FALSE]
         \/ At(s, "newHeld") /\ \E r \in Runs :
              /\ run[r].st = "none"
              /\ run' = [run EXCEPT ![r] = NewRun(t.key, t.job)]
              /\ Place(t.job, r)
      /\ End(s)
      /\ UNCHANGED objects

-----------------------------------------------------------------------------
(* A dismissal, a restore *)

OthersLive(r, j) == \E i \in On(r) \ {j} : Alive(i)

BeginDismiss(s) ==
  \E j \in Jobs :
    /\ job[j].st = "there"
    /\ Begin(s, [IdleTx EXCEPT !.pc = "dismiss", !.job = j, !.run = job[j].run,
                               !.live = OthersLive(job[j].run, j)])
    /\ Reading

LockDismiss(s) ==
  /\ At(s, "dismiss") /\ Free(tx[s].run)
  /\ IF run[tx[s].run].st \in Rows THEN Goto(s, "dismissHeld") ELSE End(s)
  /\ Reading

CountLive(s) ==
  /\ At(s, "dismissHeld")
  /\ tx' = [tx EXCEPT ![s].pc = "dismissCounted", ![s].live = OthersLive(tx[s].run, tx[s].job)]
  /\ Reading

\* A job that was removed or deleted while this one waited is no longer touched.
DeleteJob(r, j) ==
  /\ run[r].st \in {"successful", "failed"}
  /\ job' = IF job[j].st = "there" /\ Alive(j)
            THEN [job EXCEPT ![j].until = Earlier(now + DeleteTerm, run[r].expires)] ELSE job
  /\ UNCHANGED run

CancelJob(r, j, live) ==
  /\ run[r].st \notin {"successful", "failed"}
  /\ job' = IF job[j].st = "there" THEN [job EXCEPT ![j].dismissed = TRUE] ELSE job
  /\ run' = IF live THEN run
            ELSE IF run[r].st = "accepted" THEN [run EXCEPT ![r].st = "dismissed"]
            ELSE IF run[r].st = "running" THEN [run EXCEPT ![r].cancel = TRUE]
            ELSE run

CommitDismiss(s) ==
  LET t == tx[s]
  IN  /\ At(s, "dismissCounted")
      /\ DeleteJob(t.run, t.job) \/ CancelJob(t.run, t.job, t.live)
      /\ End(s)
      /\ UNCHANGED <<recipes, now, objects>>

BeginRestore(s) ==
  \E j \in Jobs :
    /\ job[j].st = "there" /\ run[job[j].run].expires > now
    /\ Begin(s, [IdleTx EXCEPT !.pc = "restore", !.job = j, !.run = job[j].run])
    /\ Reading

LockRestore(s) ==
  /\ At(s, "restore") /\ Free(tx[s].run)
  /\ IF run[tx[s].run].expires > now THEN Goto(s, "restoreHeld") ELSE End(s)
  /\ Reading

CommitRestore(s) ==
  LET j == tx[s].job
  IN  /\ At(s, "restoreHeld")
      /\ job' = IF job[j].until > now THEN [job EXCEPT ![j].until = NoTerm] ELSE job
      /\ End(s)
      /\ UNCHANGED <<run, recipes, now, objects>>

-----------------------------------------------------------------------------
(* Transactions of one statement, the clean-up, and time *)

OneStatement(r) ==
  /\ Free(r)
  /\ \E a \in Attempts(r) : Deliver(r, a) \/ (Heartbeat(r, a) /\ UNCHANGED objects)
  /\ UNCHANGED tx

\* A batch holds every run it touches before it deletes anything.
CleanupAlone ==
  /\ Cleanup
  /\ \A r \in Runs : run'[r] # run[r] \/ (\E j \in On(r) : job'[j] # job[j]) => Free(r)
  /\ UNCHANGED tx

\* A transaction takes less than the unit of the clock.
Time ==
  /\ \/ \E r \in Runs : LeaseRunsOut(r) \/ BackoffEnds(r)
     \/ (\A s \in Sessions : At(s, "idle")) /\ Tick
  /\ UNCHANGED <<objects, tx>>

Commit(s) ==
  CommitEnd(s) \/ CommitClaim(s) \/ CommitSubmit(s) \/ CommitDismiss(s) \/ CommitRestore(s)

TxNext ==
  \/ \E s \in Sessions :
       \/ BeginEnd(s) \/ LockEnd(s) \/ ReadEnd(s)
       \/ BeginClaim(s) \/ LockClaim(s) \/ CountRunning(s) \/ TakeRun(s)
       \/ BeginSubmit(s) \/ Look(s) \/ LockHit(s) \/ Insert(s) \/ FindActive(s) \/ LockActive(s)
       \/ BeginDismiss(s) \/ LockDismiss(s) \/ CountLive(s)
       \/ BeginRestore(s) \/ LockRestore(s)
       \/ Commit(s)
  \/ \E r \in Runs : OneStatement(r)
  \/ CleanupAlone
  \/ Time

TxSpec == TxInit /\ [][TxNext]_txVars

-----------------------------------------------------------------------------
(* Properties *)

\* Every transaction, however its statements fall between those of others, changes the
\* tables as one step of JobCleanup does, which are those of JobQueue and a clean-up batch
\* (UNCHANGED spares TLC the search for a step where a statement only reads).
StatementsMakeSteps == [][UNCHANGED cleanupVars \/ CleanupNext]_cleanupVars
=============================================================================
