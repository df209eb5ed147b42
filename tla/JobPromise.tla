----------------------------- MODULE JobPromise -----------------------------
(***************************************************************************)
(* What the job service promises the caller of one order, told by the      *)
(* states job_status shows and without runs, attempts, leases or workers:  *)
(* the abstract specification that JobCleanup implements.                  *)
(*                                                                         *)
(* Orders are served together (equal orders share a computation), so one   *)
(* step may move any number of them, each along its own life.              *)
(***************************************************************************)
CONSTANT Jobs

VARIABLES
  view,   \* the status a caller reads; "none" before the order, "gone" after its end
  held    \* the finished status a deleted order can still be restored to, or "none"

vars == <<view, held>>

Finished == {"successful", "failed"}

\* An order can be followed from any state it is in, but for a deleted one.
PromiseInit ==
  /\ view \in [Jobs -> {"none", "accepted", "running", "gone"} \cup Finished]
  /\ held = [j \in Jobs |-> "none"]

\* The steps of one order, from status s with h held to status t with i held.
\* A new order joins a run in any state but a failed or dismissed one.
Places(s, h, t, i) == s = "none" /\ t \in {"accepted", "running", "successful"} /\ i = "none"

\* Waiting, computing, waiting again, and an end: no way back from the end.
Works(s, h, t, i) ==
  /\ i = h
  /\ \/ s = "accepted" /\ t = "running"
     \/ s = "running" /\ t \in {"accepted"} \cup Finished

\* Its own caller, and nobody else, dismisses an order that has not finished ...
Cancels(s, h, t, i) == s \in {"accepted", "running"} /\ t = "dismissed" /\ i = "none"

\* ... and deletes one that has, and may take the deletion back to the same status.
Deletes(s, h, t, i)  == s \in Finished /\ t = "dismissed" /\ i = s
Restores(s, h, t, i) == h \in Finished /\ s = "dismissed" /\ t = h /\ i = "none"

\* The clean-up takes an order that is over, or waited until its term ended.
Leaves(s, h, t, i) == s \in {"accepted", "dismissed"} \cup Finished /\ t = "gone" /\ i = "none"

\* Without its caller: what happens to an order while the caller only looks.
Unasked(j) ==
  LET s == view[j]  t == view'[j]  h == held[j]  i == held'[j]
  IN  (s = t /\ h = i) \/ Works(s, h, t, i) \/ Leaves(s, h, t, i)

Asked(j) ==
  LET s == view[j]  t == view'[j]  h == held[j]  i == held'[j]
  IN  Places(s, h, t, i) \/ Cancels(s, h, t, i) \/ Deletes(s, h, t, i) \/ Restores(s, h, t, i)

TypePreserved ==
  /\ view' \in [Jobs -> {"none", "accepted", "running", "dismissed", "gone"} \cup Finished]
  /\ held' \in [Jobs -> {"none"} \cup Finished]

\* A caller acts on one order at a time, and no other order moves with it.
CallerStep == \E j \in Jobs :
  /\ Asked(j)
  /\ \A i \in Jobs \ {j} : view'[i] = view[i] /\ held'[i] = held[i]

ServiceStep == \A j \in Jobs : Unasked(j)

PromiseNext == TypePreserved /\ (CallerStep \/ ServiceStep)

PromiseSpec == PromiseInit /\ [][PromiseNext]_vars
=============================================================================
