----------------------------- MODULE MCGeocoder -----------------------------
(* Two hosts.  Either two requests of the harvester obey robots.txt over   *)
(* one connection to each, or two of an adapter are made over two, or      *)
(* three places are looked up over two connections of the pool.            *)
EXTENDS Geocoder

CONSTANTS r1, r2, r3, a, b

MCInterval == [h \in Hosts |-> IF h = a THEN 1 ELSE 0]

Harvest == [robots |-> TRUE, retry |-> TRUE, within |-> Hosts, limit |-> 1, slot |-> FALSE]
Narrow == [robots |-> FALSE, retry |-> TRUE, within |-> {a}, limit |-> 2, slot |-> FALSE]
Place == [robots |-> FALSE, retry |-> FALSE, within |-> {b}, limit |-> 1, slot |-> TRUE]

MCScenarios == {[r \in {r1, r2} |-> Harvest], [r \in {r1, r2} |-> Narrow], [r \in Requests |-> Place]}
=============================================================================
