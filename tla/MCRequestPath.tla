----------------------------- MODULE MCRequestPath -----------------------------
(* The RequestPath run: three clients of one operation id, of which two send  *)
(* the same request and one another.  It checks the internal release too,    *)
(* which shares nothing with them: a behaviour is one of the path, or of one *)
(* release in which MaxFaults calls raise and the finalizer is invoked twice, *)
(* or of two, of which nobody asks, with one such call.                      *)
EXTENDS RequestPath

CONSTANTS c1, c2, c3, r1, r2, o1, o2, Operations, Digests, MaxInvocations, MaxFaults, None

VARIABLES part, gateway, objects, late, images, outer, finalizer, told, faults

releases == <<gateway, objects, late, images, outer, finalizer, told, faults>>

Internal == INSTANCE Release

ASSUME ReleaseHolds == Internal!ReleaseAssumption

MCRequestOf == [i \in Invocations |-> IF i = c3 THEN r2 ELSE r1]

BothInit == part \in {"path", "alone", "together"} /\ Init /\ Internal!Init
BothNext ==
  \/ part = "path" /\ Next /\ UNCHANGED <<part, releases>>
  \/ part = "alone" /\ Internal!Next /\ gateway'[o2] = "idle" /\ UNCHANGED <<part, vars>>
  \/ /\ part = "together" /\ Internal!Next
     /\ faults' <= 1 /\ \A o \in Operations : finalizer'[o][2] = "none"
     /\ UNCHANGED <<part, told, vars>>

\* In a behaviour of the path no release has begun, and nothing of it is enabled.
BothSpec == BothInit /\ [][BothNext]_<<part, vars, releases>> /\ Internal!Fairness

\* Release.tla: what qualifies was built, and is not told to have failed.
Qualified == Internal!Qualified

\* Release.tla: an operation that was answered comes to its end.
Released == Internal!Released
================================================================================
