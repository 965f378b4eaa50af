------------------------------ MODULE MCRunner ------------------------------
(* Instances of Runner for TLC. *)
EXTENDS Runner

CONSTANTS r1, r2
=============================================================================
