----------------------------- MODULE MCWholeDown -----------------------------
(* The WholeDown runs: every constant is given in the .cfg. *)
EXTENDS WholeDown
==============================================================================
