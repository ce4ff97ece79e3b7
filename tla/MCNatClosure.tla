----------------------------- MODULE MCNatClosure -----------------------------
(* NatClosure with two invocations, which are alike, and one operation that   *)
(* takes the environment down.  The closure is an instance whose variables    *)
(* share no name with those of WholeDown, so that one module can hold the     *)
(* proofs about both.                                                         *)
EXTENDS TLC

CONSTANTS Invocations, Down, Limit, MaxGeneration, MaxFlying, MaxInspections, None

VARIABLES generation, owner, head, flying, proc, dispatched, effect, evidence, intent, report,
          inspections

C == INSTANCE NatClosure
     WITH gen <- generation, holder <- owner, sent <- dispatched, journal <- evidence

ASSUME ClosureHolds == C!ClosureAssumption

Symmetry == Permutations(Invocations)

ClosureSpec == C!Spec

\* NatClosure.tla: the head accounts for every call of EC2.
Accounted == C!Accounted

\* NatClosure.tla: what is closed stays closed, and calls nothing new.
ClosedToNew == C!ClosedToNew
===============================================================================
