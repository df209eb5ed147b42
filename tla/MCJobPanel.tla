----------------------------- MODULE MCJobPanel -----------------------------
(* Instances of the browser's tabs for TLC. *)
EXTENDS JobPanel
=============================================================================
