----------------------------- MODULE MCDelivery -----------------------------
(* Instances of the clean-up and the downloads for TLC. *)
EXTENDS Delivery

CONSTANTS j1, j2, r1, r2, k1, d1, d2, d3, d4, d5, b1

\* Hosts play no part here.
MCHostsOf == [k \in Keys \cup Jobs |-> {}]

ZipOf(j) == [kind |-> "zip", jobs |-> <<j>>]

\* One client makes a bundle of both jobs and reads it, one finds it made, one reads the link and
\* the ZIP of a job and keeps a permalink, the others the ZIP alone.
MCWants ==
  [c \in Clients |->
     CASE c = d1 -> {[kind |-> "new bundle", jobs |-> <<j1, j2>>], [kind |-> "bundle", list |-> b1]}
       [] c = d2 -> {ZipOf(j1), [kind |-> "link", jobs |-> <<j1>>], [kind |-> "permalink"]}
       [] c \in {d3, d4} -> {ZipOf(j1)}
       [] c = d5 -> {[kind |-> "bundle", list |-> b1]}]

Asking(C) == conn = [c \in Clients |-> IF c \in C THEN Idle ELSE Off]

NoLists   == [b \in Lists |-> NoList]

\* Nobody asks, and the queue begins empty.
OnlyCleanup == CleanupInit /\ Begin(NoLists, 0, 0) /\ Asking({})

Ended(j, ends) ==
  [NoRunRow("successful") EXCEPT !.key = k1, !.recipe = j, !.attempt = 1, !.ready = TRUE,
                                 !.result = 1, !.expires = ends]

\* One job whose run has ended; the other one is long gone.
OneResult ==
  /\ run = [r \in Runs |-> IF r = r1 THEN Ended(j1, 3) ELSE NoRunRow("gone")]
  /\ job = [j \in Jobs |-> IF j = j1 THEN [NoJobRow("there") EXCEPT !.run = r1] ELSE NoJobRow("gone")]
  /\ recipes = {j1} /\ objects = {<<r1, 1>>}
  /\ now = 0
  /\ \/ Begin(NoLists, 1, 0) /\ Asking({d2})
     \/ Begin(NoLists, 2, MaxBook) /\ Asking({d3, d4})

\* Two equal orders with a run each, for the first was deleted when the second came, and taken
\* back: its run has ended, that of the second waits.  A bundle of them is to be made, or was.
TwoResults ==
  /\ now = 2
  /\ run = [r \in Runs |-> IF r = r1 THEN Ended(j1, 3) ELSE [NewRun(k1, j2) EXCEPT !.expires = 5]]
  /\ objects = {<<r1, 1>>}
  /\ job = [j \in Jobs |-> [NoJobRow("there") EXCEPT !.run = IF j = j1 THEN r1 ELSE r2]]
  /\ recipes = Jobs
  /\ \/ Begin(NoLists, 1, MaxBook) /\ Asking({d1})
     \/ Begin([NoLists EXCEPT ![b1] = [st |-> "bundle", jobs |-> <<j1, j2>>, expires |-> 3]], 1, MaxBook)
        /\ Asking({d5})

MCInit == OnlyCleanup \/ OneResult \/ TwoResults
MCSpec == MCInit /\ [][DeliveryNext]_allVars /\ WF_allVars(CleanupBatch)
=============================================================================
