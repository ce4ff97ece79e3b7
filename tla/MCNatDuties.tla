----------------------------- MODULE MCNatDuties -----------------------------
(* NatDuties in four casts, which bound what the others leave to explore: the   *)
(* launch of the first instance or of its successor, without faults; one duty   *)
(* of both instances, with three faults; two duties of one instance, each       *)
(* invoked twice, with one fault; a call of an instance that is never answered  *)
(* and all duties of a successor that is launched early.                        *)
EXTENDS NatDuties

VARIABLE cast

Casts ==
  [ops : {Ops}, instances : {1, 2}, invocations : {1}, faults : {0}, leavers : {{1}}, trouble : {FALSE}]
    \cup [ops : {Instance \X {d} : d \in Duties},
          instances : {2}, invocations : {1}, faults : {3}, leavers : {Instance}, trouble : {TRUE}]
    \cup [ops : {Instance \X {d, "disable_sdc"} : d \in Duties},
          instances : {1}, invocations : {2}, faults : {1}, leavers : {Instance}, trouble : {TRUE}]
    \cup [ops : {{<<1, d>>} \cup ({2} \X Duties) : d \in {"assign_eip", "change_rt"}},
          instances : {2}, invocations : {1}, faults : {3}, leavers : {{1}}, trouble : {FALSE}]

\* A step in which no more happens than the cast allows.
Played ==
  /\ launched' <= cast.instances
  /\ faults' <= cast.faults
  /\ leaving' \subseteq cast.leavers
  /\ Trouble => cast.trouble \/ \E d \in Duties : LoseAnswer(1, d)
  /\ \A o \in Ops : invoked'[o] <= IF o \in cast.ops THEN cast.invocations ELSE 0
  /\ UNCHANGED cast

CastVars == <<vars, cast>>

CastInit == Init /\ cast \in Casts /\ (cast.faults = 0 => launched = cast.instances - 1)

\* The fairness of FairSpec in the first cast, in which the neighbour never leaves.
Fairly(A) == cast.faults = 0 /\ A /\ Played

CastSpec ==
  /\ CastInit
  /\ [][Next /\ Played]_CastVars
  /\ \A i \in Instance, d \in Duties :
       WF_CastVars(Fairly(Run(i, d))) /\ WF_CastVars(Fairly(Ec2(i, d)))

\* SlotRecovers, of the first cast.
Recovered == cast.faults = 0 => SlotRecovers
==============================================================================
