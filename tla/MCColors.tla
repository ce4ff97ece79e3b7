------------------------------- MODULE MCColors -------------------------------
(* The Colors runs: every constant is given in the .cfg. *)
EXTENDS Colors

CONSTANTS r1, r2
==============================================================================
