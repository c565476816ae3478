------------------------------ MODULE MCProcesses ------------------------------
(* A small instance of Processes for TLC. *)
EXTENDS Processes, TLC

CONSTANTS c1, c2, c3

Three == {c1, c2, c3}
=============================================================================
