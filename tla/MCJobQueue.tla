----------------------------- MODULE MCJobQueue -----------------------------
(* Instances of the queue for TLC: two exports read from one host, so that *)
(* its cap holds one of them back, and the third and the other orders from *)
(* hosts of their own, so that the common cap holds back what the hosts do *)
(* not.                                                                    *)
EXTENDS JobQueue, TLC

CONSTANTS j1, j2, h1, h2, h3

MCHostsOf == [k \in Keys \cup Jobs |-> IF k \in Cacheable THEN {h1} ELSE IF k \in {j1, j2} THEN {h2} ELSE {h3}]

Symmetry == Permutations(Runs) \cup Permutations({j1, j2})
=============================================================================
