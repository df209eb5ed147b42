---------------------------- MODULE MCJobWorker -----------------------------
(* Instances of the supervisors for TLC. *)
EXTENDS JobWorker

\* Hosts play no part here.
MCHostsOf == [k \in Keys \cup Jobs |-> {}]
=============================================================================
