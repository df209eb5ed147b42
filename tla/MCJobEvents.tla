----------------------------- MODULE MCJobEvents -----------------------------
(* An instance of the job-event hub for TLC: two browsers on one job. *)
EXTENDS JobEvents, TLC

CONSTANTS j1, r1

MCJobOf == [c \in Clients |-> j1]
MCRunOf == [j \in Jobs |-> r1]
=============================================================================
