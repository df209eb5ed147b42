------------------------------ MODULE MCQueueTx ------------------------------
(* Instances of the transactions for TLC. *)
EXTENDS QueueTx, TLC

\* Hosts play no part here: the limit per host is counted like the cap.
MCHostsOf == [k \in Keys \cup Jobs |-> {}]

Symmetry == Permutations(Runs) \cup Permutations(Jobs) \cup Permutations(Sessions)
\* One bound on the states explored: time passes, and the clean-up removes, with
\* one run only; two runs meet, each attempted once, while no time passes.
TimeOrTwoRuns ==
  \/ Cardinality({r \in Runs : run[r].st # "none"}) <= 1
  \/ now = 0 /\ \A r \in Runs : run[r].attempt <= 1
=============================================================================
