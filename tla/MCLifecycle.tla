------------------------------ MODULE MCLifecycle ------------------------------
(* The Lifecycle run: a create and a teardown of one layer, and the values of *)
(* the other constants in the .cfg.                                           *)
EXTENDS Lifecycle

MCKindOf == [o \in Operations |-> IF o = "make" THEN "create"
                                  ELSE IF o = "look" THEN "plan" ELSE "teardown"]
==============================================================================
