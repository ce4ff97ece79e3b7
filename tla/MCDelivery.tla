------------------------------ MODULE MCDelivery ------------------------------
(* The Delivery runs: every constant is given in the .cfg. *)
EXTENDS Delivery
==============================================================================
