------------------------- MODULE MCMutationAuthority -------------------------
(* MutationAuthority in two casts: two deliveries and the cleanup of whichever *)
(* was last, every invocation with an operation of its own; and two           *)
(* invocations of one lifecycle operation with a delivery between them.       *)
EXTENDS MutationAuthority, TLC

CONSTANTS i1, i2, i3, i4, i5, o1, o2, o3, o4, r1, r2

MCOperation == i1 :> o1 @@ i2 :> o2 @@ i3 :> o3 @@ i4 :> o4 @@ i5 :> o4
MCBinding   == o1 :> "delivery" @@ o2 :> "delivery" @@ o3 :> "cleanup" @@ o4 :> "lifecycle"
MCRequest   == i1 :> r1 @@ i2 :> r2 @@ i3 :> r1 @@ i4 :> r1 @@ i5 :> r1

VARIABLE cast

\* Only the cast's invocations are at work, on its operations.
CastNext ==
  /\ Environment \/ \E i \in cast : Execute(i)
  /\ UNCHANGED cast

CastInit == Init /\ cast \in {{i1, i2, i3}, {i2, i4, i5}}
CastSpec == CastInit /\ [][CastNext]_<<vars, cast>>
==============================================================================
