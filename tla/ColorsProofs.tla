----------------------------- MODULE ColorsProofs -----------------------------
(***************************************************************************)
(* Proofs about Colors, for any releases, replica count, generations,      *)
(* faults and takeovers: the serving colour runs a release that passed E3, *)
(* an emergency is possible whenever the environment is free, and a        *)
(* cleanup removes its own schedule only.                                  *)
(*                                                                         *)
(* None of it is inductive.  A mutation is harmless because of what its    *)
(* guard saw, and it may come late, when the operation is long stopped:    *)
(* CallTells keeps what the guard saw for as long as the call is out.  The *)
(* guard sees it because the routes tell how far the operation is          *)
(* (TopologyTells, from the stages that are left), and because a switch    *)
(* is only reached through E3, or to a colour with a published success     *)
(* (PlaceTells, ServiceTells).  That the other colour can be returned to   *)
(* needs to be followed from the first mutation to the release             *)
(* (ReturnTells); that a proof is of the own schedule needs the order of   *)
(* generations (ScheduleTells).                                            *)
(***************************************************************************)
EXTENDS Colors, SequenceTheorems, TLAPS

\* What is left of each kind of operation: its stages in order, from any of them on.
Routes == {<<"switch", "candidate", "schedule">>, <<"candidate", "schedule">>, <<"schedule">>, << >>}
Preparations ==
  {<<"register", "drain", "attach", "start", "switch", "candidate", "schedule">>,
   <<"drain", "attach", "start", "switch", "candidate", "schedule">>,
   <<"attach", "start", "switch", "candidate", "schedule">>,
   <<"start", "switch", "candidate", "schedule">>}
Scalings == {<<"scale", "switch", "candidate", "schedule">>}
Removals == {<<"scale_zero", "remove_target", "delete_rule">>, <<"remove_target", "delete_rule">>,
             <<"delete_rule">>, << >>}

Left(kind) == CASE kind = "delivery"  -> Preparations \cup Routes
                [] kind = "emergency" -> Scalings \cup Routes
                [] kind = "cleanup"   -> Removals

\* Stages that change the service of the operation's colour.
Scales == {"drain", "attach", "start", "scale", "scale_zero"}

Staging == {"guard", "e3", "call", "observe"}
Ending  == {"final", "publish", "finish"}
Working == Staging \cup Ending

\* E2 is held from the admission on, and a lost call is that of a stopped operation.
HeldTells ==
  /\ head.held <=> op.phase # "done"
  /\ op.phase = "done" => op = NoOperation
  /\ op.phase = "prepare" => ~ op.touched
  /\ flight # {} => op.phase = "stopped"

\* Where the operation is, and what it is about.
PlaceTells ==
  /\ op.phase \in Working => op.active # op.color /\ op.todo \in Left(op.kind)
  /\ op.phase \in Staging => op.todo # << >>
  /\ op.phase \in Ending => op.todo = << >>
  /\ op.phase = "e3" => op.kind = "delivery" /\ Head(op.todo) = "switch"
  /\ op.phase = "publish" => op.kind = "delivery"
  /\ op.phase \in Working \cup {"prepare"} /\ op.kind = "delivery" => op.release \in Releases
  /\ op.phase \in Working /\ op.kind = "emergency" =>
       op.release # Null /\ op.release = history[op.color]
  /\ op.phase \in Working \ {"e3"} /\ op.kind = "delivery" /\ op.todo \in Routes =>
       <<op.release, op.color>> \in activated

\* What the guard of a stage saw, as far as it lasts until the call takes effect.
Guards(stage) ==
  /\ stage \in Scales => normal # op.color
  /\ stage = "switch" => /\ service[op.color].desired = Count
                         /\ service[op.color].release = op.release
                         /\ <<op.release, op.color>> \in activated
  /\ stage = "schedule" => op.kind # "cleanup"
  /\ stage = "remove_target" => op.kind = "cleanup"

CallTells ==
  /\ op.phase = "call" => Guards(Head(op.todo))
  /\ \A stage \in flight : Guards(stage)

\* Every success was accepted by E3, and the counts are all or nothing.
ServiceTells ==
  /\ \A c \in Color : service[c].desired \in {0, Count}
  /\ \A c \in Color : history[c] # Null => <<history[c], c>> \in activated
  /\ service[normal].desired = Count
  /\ <<service[normal].release, normal>> \in activated

\* The service of a colour still is of the colour's last success.
Kept(c) == history[c] # Null => service[c].release = history[c]

\* Until an operator ends a hold, the other colour can be returned to.
ReturnTells ==
  /\ op.phase \in {"publish", "finish"} =>
       Inactive /\ (op.kind = "delivery" => service[op.color].release = op.release)
  /\ op.phase = "finish" /\ op.kind = "delivery" => history[op.color] = op.release
  /\ takeovers = 0 /\ op.phase # "stopped" =>
       /\ ~ op.touched => Inactive /\ \A c \in Color : Kept(c)
       /\ op.phase \in Working =>
            Kept(op.active) /\ (op.kind # "delivery" => Kept(op.color))

\* The schedules of the rule, of the events and of the head.
ScheduleTells ==
  /\ rule.proof <= head.generation /\ head.schedule <= head.generation
  /\ \A p \in events : p # 0 /\ p <= head.generation
  /\ op.phase # "done" => head.generation > 0
  /\ op.phase # "done" /\ head.schedule # head.generation =>
       rule.proof < head.generation /\ \A p \in events : p < head.generation
  /\ head.schedule \in events => rule.proof \in {0, head.schedule}
  /\ "schedule" \in flight => head.schedule = head.generation
  /\ op.phase # "done" /\ op.kind = "cleanup" =>
       op.proof = head.schedule /\ rule.proof \in {0, op.proof}
  /\ op.kind # "cleanup" =>
       /\ op.phase \in {"prepare", "guard", "e3", "call"} => head.schedule = 0
       /\ op.phase = "observe" /\ Head(op.todo) # "schedule" => head.schedule = 0

ColorsInv == /\ TypeOK /\ HeldTells /\ PlaceTells /\ CallTells /\ ServiceTells /\ ReturnTells
             /\ ScheduleTells

\* What the service of a colour is, and the head of E2.
ServiceRecord == [release : Releases \cup {Null}, desired : 0 .. Count, running : 0 .. Count,
                  lingering : BOOLEAN]
HeadRecord == [generation : Proof, held : BOOLEAN, schedule : Proof]

USE ColorsAssumption DEF ServiceRecord, HeadRecord

------------------------------------------------------------------------------
(* The stages that are left. *)

\* The first of the stages that are left, and what is left after it.
LEMMA LeftIs ==
  ASSUME NEW kind \in Kind, NEW todo \in Left(kind), todo # << >>
  PROVE  /\ todo \in Seq(Stage) /\ Head(todo) \in Stage
         /\ Tail(todo) \in Left(kind) /\ (Len(todo) = 1 <=> Tail(todo) = << >>)
         /\ kind = "cleanup" <=> Head(todo) \in {"scale_zero", "remove_target", "delete_rule"}
         /\ kind # "cleanup" => (Head(todo) = "schedule" <=> Len(todo) = 1)
         /\ kind = "delivery" => Head(todo) # "scale"
         /\ kind = "emergency" => Head(todo) \in {"scale", "switch", "candidate", "schedule"}
         /\ todo \in Routes <=> Head(todo) \in {"switch", "candidate", "schedule"}
         /\ kind = "delivery" /\ Tail(todo) \in Routes =>
              Head(todo) = "start" \/ todo \in Routes
         /\ Head(todo) = "start" => Head(Tail(todo)) = "switch" /\ Tail(todo) # << >>
<1> USE DEF Kind, Left, Preparations, Routes, Scalings, Removals
<1>1. CASE kind = "cleanup"
  <2>1. CASE todo = <<"scale_zero", "remove_target", "delete_rule">>
    BY <1>1, <2>1 DEF Stage
  <2>2. CASE todo = <<"remove_target", "delete_rule">>
    BY <1>1, <2>2 DEF Stage
  <2>3. CASE todo = <<"delete_rule">>
    BY <1>1, <2>3 DEF Stage
  <2> QED
    BY <1>1, <2>1, <2>2, <2>3
<1>2. ASSUME kind # "cleanup", todo \in Routes
      PROVE  /\ todo \in Seq(Stage) /\ Head(todo) \in {"switch", "candidate", "schedule"}
             /\ Tail(todo) \in Routes /\ (Len(todo) = 1 <=> Tail(todo) = << >>)
             /\ Head(todo) = "schedule" <=> Len(todo) = 1
  <2>1. CASE todo = <<"switch", "candidate", "schedule">>
    BY <2>1 DEF Stage
  <2>2. CASE todo = <<"candidate", "schedule">>
    BY <2>2 DEF Stage
  <2>3. CASE todo = <<"schedule">>
    BY <2>3 DEF Stage
  <2> QED
    BY <1>2, <2>1, <2>2, <2>3
<1>3. CASE kind = "emergency" /\ todo \notin Routes
  <2>1. todo = <<"scale", "switch", "candidate", "schedule">>
    BY <1>3
  <2> QED
    BY <1>3, <2>1 DEF Stage
<1>4. CASE kind = "delivery" /\ todo \notin Routes
  <2>1. CASE todo = <<"register", "drain", "attach", "start", "switch", "candidate", "schedule">>
    BY <1>4, <2>1 DEF Stage
  <2>2. CASE todo = <<"drain", "attach", "start", "switch", "candidate", "schedule">>
    BY <1>4, <2>2 DEF Stage
  <2>3. CASE todo = <<"attach", "start", "switch", "candidate", "schedule">>
    BY <1>4, <2>3 DEF Stage
  <2>4. CASE todo = <<"start", "switch", "candidate", "schedule">>
    BY <1>4, <2>4 DEF Stage
  <2> QED
    BY <1>4, <2>1, <2>2, <2>3, <2>4
<1>5. CASE kind # "cleanup" /\ todo \in Routes
  <2>1. Tail(todo) \in Left(kind)
    BY <1>2, <1>5
  <2> QED
    BY <1>2, <1>5, <2>1 DEF Stage
<1> QED
  BY <1>1, <1>3, <1>4, <1>5

\* Which routes are still to be made.
LEMMA LeftTells ==
  ASSUME NEW kind \in Kind, NEW todo \in Left(kind), kind # "cleanup"
  PROVE  LET left == { todo[n] : n \in DOMAIN todo } IN
         /\ todo = << >> => "switch" \notin left /\ "candidate" \notin left
         /\ todo # << >> /\ Head(todo) \notin {"candidate", "schedule"} => "switch" \in left
BY DEF Kind, Left, Preparations, Routes, Scalings, Stage

\* Before the switch the listener stays with the colour that served; at the end
\* the two routes name the two colours of the operation.
LEMMA TopologyTells ==
  ASSUME ColorsInv, op.phase \in Working, Topology
  PROVE  /\ op.todo # << >> /\ Head(op.todo) \notin {"candidate", "schedule"} => normal = op.active
         /\ op.todo = << >> => Inactive
         /\ op.todo = << >> /\ op.kind # "cleanup" => normal = op.color
<1>1. op.kind \in Kind /\ op.todo \in Left(op.kind) /\ op.active # op.color
  BY DEF ColorsInv, TypeOK, Operation, PlaceTells
<1>2. CASE op.kind = "cleanup"
  BY <1>1, <1>2 DEF Topology, Inactive
<1>3. CASE op.kind # "cleanup"
  BY <1>1, <1>3, LeftTells DEF Topology, Inactive
<1> QED
  BY <1>2, <1>3

LEMMA NoOperationIs ==
  /\ NoOperation \in Operation
  /\ NoOperation.kind = "cleanup" /\ NoOperation.phase = "done" /\ NoOperation.touched = FALSE
<1>1. Idle \in ServiceRecord
  BY DEF Idle
<1>2. << >> \in Seq(Stage) /\ 0 \in Proof /\ "cleanup" \in Kind /\ "done" \in Phase
      /\ "blue" \in Color /\ "green" \in Color
  BY DEF Proof, Kind, Phase, Color
<1> QED
  BY <1>1, <1>2 DEF NoOperation, Operation

LEMMA Initially == Init => ColorsInv
<1> SUFFICES ASSUME Init PROVE ColorsInv
  OBVIOUS
<1> USE DEF Init
<1>1. op \in Operation /\ op.kind = "cleanup" /\ op.phase = "done" /\ op.touched = FALSE
  BY NoOperationIs
<1>2. TypeOK
  <2>1. normal \in Color /\ candidate \in Color
    BY DEF Color
  <2>2. service \in [Color -> ServiceRecord]
    BY DEF Idle
  <2>3. rule \in [exists : BOOLEAN, proof : Proof] /\ head \in HeadRecord
    BY DEF Proof
  <2>4. history \in [Color -> Releases \cup {Null}] /\ activated \subseteq Releases \X Color
    BY DEF Color
  <2>5. faults \in 0 .. MaxFaults /\ takeovers \in 0 .. MaxTakeovers
    OBVIOUS
  <2> QED
    BY <1>1, <2>1, <2>2, <2>3, <2>4, <2>5 DEF TypeOK
<1>3. HeldTells /\ PlaceTells
  BY <1>1 DEF HeldTells, PlaceTells, Working, Staging, Ending
<1>4. CallTells
  BY <1>1 DEF CallTells
<1>5. ServiceTells /\ ReturnTells
  BY <1>1 DEF ServiceTells, ReturnTells, Working, Staging, Ending, Color, Idle, Inactive, Kept
<1>6. ScheduleTells
  BY <1>1 DEF ScheduleTells
<1> QED
  BY <1>2, <1>3, <1>4, <1>5, <1>6 DEF ColorsInv

------------------------------------------------------------------------------
(* ECS, the ALB and EventBridge. *)

\* What ECS and the ALB do by themselves touches neither a revision nor a desired count.
LEMMA ServicesMove ==
  ASSUME ColorsInv,
         UNCHANGED <<normal, candidate, rule, flight, events, history, activated, head, op, takeovers>>,
         faults' \in 0 .. MaxFaults,
         service' \in [Color -> ServiceRecord],
         \A c \in Color : service'[c].release = service[c].release /\ service'[c].desired = service[c].desired
  PROVE  ColorsInv'
<1> normal \in Color /\ op.color \in Color /\ op.active \in Color
  BY DEF ColorsInv, TypeOK, Operation
<1>0. TypeOK'
  BY DEF ColorsInv, TypeOK
<1>1. HeldTells' /\ PlaceTells' /\ ScheduleTells'
  BY DEF ColorsInv, HeldTells, PlaceTells, ScheduleTells
<1>2. CallTells' /\ ServiceTells'
  BY DEF ColorsInv, CallTells, Guards, ServiceTells
<1>3. ReturnTells'
  BY DEF ColorsInv, ReturnTells, Kept, Inactive
<1> QED
  BY <1>0, <1>1, <1>2, <1>3 DEF ColorsInv

LEMMA EnvironmentSteps ==
  ASSUME ColorsInv, NEW c \in Color,
         TaskStarts(c) \/ TaskStops(c) \/ TaskLost(c) \/ TargetGone(c)
  PROVE  ColorsInv'
<1>0. service \in [Color -> ServiceRecord] /\ faults \in 0 .. MaxFaults
  BY DEF ColorsInv, TypeOK
<1>1. CASE TaskStarts(c)
  <2>1. service[c].running + 1 \in 0 .. Count
    BY <1>0, <1>1 DEF TaskStarts
  <2>2. service' \in [Color -> ServiceRecord]
    BY <1>0, <1>1, <2>1 DEF TaskStarts
  <2> QED
    BY <1>0, <1>1, <2>2, ServicesMove DEF TaskStarts, bounds
<1>2. CASE TaskStops(c) \/ TaskLost(c)
  <2>1. service[c].running - 1 \in 0 .. Count /\ faults' \in 0 .. MaxFaults
    BY <1>0, <1>2 DEF TaskStops, TaskLost, TaskGone, Fault
  <2>2. service' \in [Color -> ServiceRecord]
    BY <1>0, <1>2, <2>1 DEF TaskStops, TaskLost, TaskGone
  <2> QED
    BY <1>0, <1>2, <2>1, <2>2, ServicesMove DEF TaskStops, TaskLost, TaskGone
<1>3. CASE TargetGone(c)
  <2>1. service' \in [Color -> ServiceRecord]
    BY <1>0, <1>3 DEF TargetGone
  <2> QED
    BY <1>0, <1>3, <2>1, ServicesMove DEF TargetGone, bounds
<1> QED
  BY <1>1, <1>2, <1>3

\* A proof is never 0, and never of the future.
LEMMA FireSteps == ColorsInv /\ Fire => ColorsInv'
<1> SUFFICES ASSUME ColorsInv, Fire PROVE ColorsInv'
  OBVIOUS
<1> USE DEF Fire, aws, bounds
<1>1. TypeOK'
  BY DEF ColorsInv, TypeOK
<1>2. HeldTells' /\ PlaceTells' /\ CallTells' /\ ServiceTells' /\ ReturnTells'
  BY DEF ColorsInv, HeldTells, PlaceTells, CallTells, Guards, ServiceTells, ReturnTells, Kept, Inactive
<1>3. ScheduleTells'
  BY DEF ColorsInv, TypeOK, Proof, ScheduleTells
<1> QED
  BY <1>1, <1>2, <1>3 DEF ColorsInv

------------------------------------------------------------------------------
(* Admission and the end of an operation. *)

LEMMA BeginSteps ==
  ASSUME ColorsInv, NEW kind \in {"delivery", "emergency"}, NEW release \in Releases \cup {Null},
         kind = "delivery" => release \in Releases, Begin(kind, release)
  PROVE  ColorsInv'
<1> USE DEF Begin, Free, aws, bounds
<1>1. op = NoOperation /\ op.touched = FALSE /\ op.phase = "done" /\ flight = {}
  BY NoOperationIs DEF ColorsInv, HeldTells
<1>2. op' \in Operation /\ op'.phase = "prepare" /\ op'.touched = FALSE /\ op'.kind = kind /\ op'.release = release
  BY <1>1 DEF ColorsInv, TypeOK, Operation, Kind, Phase
<1>3. head.generation \in Nat /\ head'.generation = head.generation + 1 /\ head'.schedule = 0 /\ head'.held = TRUE
  BY DEF ColorsInv, TypeOK, Proof
<1>4. head' \in HeadRecord
  <2>1. head.generation + 1 \in Proof /\ 0 \in Proof
    BY <1>3 DEF Proof
  <2> QED
    BY <2>1
<1>5. TypeOK'
  BY <1>2, <1>4 DEF ColorsInv, TypeOK
<1>6. HeldTells' /\ PlaceTells' /\ CallTells'
  BY <1>1, <1>2, <1>3 DEF HeldTells, PlaceTells, Working, Staging, Ending, CallTells
<1>7. ServiceTells' /\ ReturnTells'
  BY <1>1, <1>2 DEF ColorsInv, ServiceTells, ReturnTells, Kept, Inactive, Working, Staging, Ending
<1>8. ScheduleTells'
  BY <1>1, <1>2, <1>3 DEF ColorsInv, TypeOK, Proof, ScheduleTells
<1> QED
  BY <1>5, <1>6, <1>7, <1>8 DEF ColorsInv

LEMMA BeginCleanupSteps ==
  ASSUME ColorsInv, NEW proof \in events, BeginCleanup(proof)
  PROVE  ColorsInv'
<1> USE DEF BeginCleanup, aws, bounds
<1>1. CASE ~(Free /\ Current(proof))
  <2> events' \subseteq events /\ UNCHANGED <<aws, flight, history, activated, head, op, bounds>>
    BY <1>1
  <2>1. TypeOK'
    BY DEF ColorsInv, TypeOK
  <2>2. HeldTells' /\ PlaceTells' /\ CallTells' /\ ServiceTells' /\ ReturnTells'
    BY DEF ColorsInv, HeldTells, PlaceTells, CallTells, Guards, ServiceTells, ReturnTells, Kept, Inactive
  <2>3. ScheduleTells'
    BY DEF ColorsInv, ScheduleTells
  <2> QED
    BY <2>1, <2>2, <2>3 DEF ColorsInv
<1>2. CASE Free /\ Current(proof)
  <2>1. op = NoOperation /\ op.touched = FALSE /\ op.phase = "done" /\ flight = {}
    BY <1>2, NoOperationIs DEF Free, ColorsInv, HeldTells
  <2>2. proof \in Proof /\ head.schedule = proof
    BY <1>2 DEF Current, ColorsInv, TypeOK
  <2>a. /\ head' = [head EXCEPT !.generation = @ + 1, !.held = TRUE]
        /\ op' = [op EXCEPT !.kind = "cleanup", !.phase = "prepare", !.proof = proof]
    BY <1>2
  <2>3. /\ op' \in Operation /\ op'.phase = "prepare" /\ op'.touched = FALSE /\ op'.kind = "cleanup"
        /\ op'.proof = proof
    BY <2>a, <2>1, <2>2 DEF ColorsInv, TypeOK, Operation, Kind, Phase
  <2>4. /\ head.generation \in Nat /\ head'.generation = head.generation + 1
        /\ head'.schedule = head.schedule /\ head'.held = TRUE
    BY <2>a DEF ColorsInv, TypeOK, Proof
  <2>5. head' \in HeadRecord
    <3>1. head.generation + 1 \in Proof
      BY <1>2, <2>4 DEF Proof, Free
    <3> QED
      BY <2>a, <3>1 DEF ColorsInv, TypeOK
  <2>6. TypeOK'
    BY <2>3, <2>5 DEF ColorsInv, TypeOK
  <2>7. HeldTells' /\ PlaceTells' /\ CallTells'
    BY <2>1, <2>3, <2>4 DEF HeldTells, PlaceTells, Working, Staging, Ending, CallTells
  <2>8. ServiceTells' /\ ReturnTells'
    BY <2>1, <2>3 DEF ColorsInv, ServiceTells, ReturnTells, Kept, Inactive, Working, Staging, Ending
  <2>9. ScheduleTells'
    BY <2>1, <2>2, <2>3, <2>4 DEF ColorsInv, TypeOK, Proof, ScheduleTells
  <2> QED
    BY <2>6, <2>7, <2>8, <2>9 DEF ColorsInv
<1> QED
  BY <1>1, <1>2

LEMMA TakeoverSteps == ColorsInv /\ Takeover => ColorsInv'
<1> SUFFICES ASSUME ColorsInv, Takeover PROVE ColorsInv'
  OBVIOUS
<1> USE DEF Takeover, aws
<1>1. op' \in Operation /\ op'.kind = "cleanup" /\ op'.phase = "done" /\ op'.touched = FALSE /\ op' = NoOperation
  BY NoOperationIs
<1>2. takeovers' \in 0 .. MaxTakeovers /\ takeovers' # 0
  BY DEF ColorsInv, TypeOK
<1>3. /\ head' \in HeadRecord
      /\ head'.held = FALSE /\ head'.generation = head.generation /\ head'.schedule \in {head.schedule, 0}
  <2>1. head.schedule \in Proof /\ 0 \in Proof
    BY DEF ColorsInv, TypeOK, Proof
  <2>2. PICK schedule \in {head.schedule, 0} : head' = [head EXCEPT !.held = FALSE, !.schedule = schedule]
    OBVIOUS
  <2> QED
    BY <2>1, <2>2 DEF ColorsInv, TypeOK
<1>4. TypeOK' /\ HeldTells' /\ PlaceTells' /\ CallTells' /\ ServiceTells' /\ ReturnTells'
  BY <1>1, <1>2, <1>3 DEF ColorsInv, TypeOK, HeldTells, PlaceTells, CallTells, ServiceTells, ReturnTells,
     Working, Staging, Ending
<1>5. ScheduleTells'
  BY <1>1, <1>3 DEF ColorsInv, TypeOK, Proof, ScheduleTells
<1> QED
  BY <1>4, <1>5 DEF ColorsInv

\* A rejection ends an operation that sent nothing, and holds the environment otherwise.
LEMMA RejectedSteps ==
  ASSUME ColorsInv, Rejected, op.phase \in Working \cup {"prepare"},
         UNCHANGED <<aws, flight, events, history, activated, takeovers>>, faults' \in 0 .. MaxFaults
  PROVE  ColorsInv'
<1> USE DEF aws
<1>0. flight = {}
  BY DEF ColorsInv, HeldTells, Working, Staging, Ending
<1>1. CASE op.touched
  <2>1. /\ op' \in Operation /\ op'.phase = "stopped" /\ op'.touched = op.touched /\ op'.kind = op.kind
        /\ op'.proof = op.proof /\ head' = head /\ op.phase # "done"
    BY <1>1 DEF Rejected, ColorsInv, TypeOK, Operation, Phase, Working, Staging, Ending
  <2>2. TypeOK' /\ HeldTells' /\ PlaceTells' /\ CallTells' /\ ServiceTells' /\ ReturnTells'
    BY <1>0, <2>1 DEF ColorsInv, TypeOK, HeldTells, PlaceTells, CallTells, ServiceTells, ReturnTells,
       Working, Staging, Ending
  <2>3. ScheduleTells'
    BY <2>1 DEF ColorsInv, ScheduleTells
  <2> QED
    BY <2>2, <2>3 DEF ColorsInv
<1>2. CASE ~op.touched
  <2>1. op' \in Operation /\ op'.kind = "cleanup" /\ op'.phase = "done" /\ op'.touched = FALSE /\ op' = NoOperation
    BY <1>2, NoOperationIs DEF Rejected
  <2>2. /\ head' \in HeadRecord
        /\ head'.held = FALSE /\ head'.generation = head.generation /\ head'.schedule = head.schedule
    BY <1>2 DEF Rejected, ColorsInv, TypeOK
  <2>3. TypeOK' /\ HeldTells' /\ PlaceTells' /\ CallTells' /\ ServiceTells'
    BY <1>0, <2>1, <2>2 DEF ColorsInv, TypeOK, HeldTells, PlaceTells, CallTells, ServiceTells,
       Working, Staging, Ending
  <2>4. ReturnTells'
    BY <1>2, <2>1 DEF ColorsInv, ReturnTells, Kept, Inactive, Working, Staging, Ending
  <2>5. ScheduleTells'
    BY <2>1, <2>2 DEF ColorsInv, ScheduleTells
  <2> QED
    BY <2>3, <2>4, <2>5 DEF ColorsInv
<1> QED
  BY <1>1, <1>2

------------------------------------------------------------------------------
(* The mutations. *)

LEMMA ServiceChanges ==
  ASSUME NEW s \in ServiceRecord,
         NEW count \in {0, Count}, NEW release \in Releases \cup {Null}
  PROVE  /\ [s EXCEPT !.desired = count] \in ServiceRecord
         /\ [s EXCEPT !.desired = count].desired = count
         /\ [s EXCEPT !.desired = count].release = s.release
         /\ [s EXCEPT !.desired = count, !.release = release] \in ServiceRecord
         /\ [s EXCEPT !.desired = count, !.release = release].desired = count
<1>1. count \in 0 .. Count
  OBVIOUS
<1> QED
  BY <1>1

\* A mutation is about the service of the operation's colour, the routes and the rule.
LEMMA EffectIs ==
  ASSUME ColorsInv, NEW stage \in Stage, Effect(stage)
  PROVE  /\ normal' \in Color /\ candidate' \in Color
         /\ normal' = IF stage = "switch" THEN op.color ELSE normal
         /\ service' \in [Color -> ServiceRecord]
         /\ \A c \in Color : c # op.color \/ stage \notin Scales => service'[c] = service[c]
         /\ stage \in Scales => service'[op.color].desired \in {0, Count}
         /\ stage # "attach" => service'[op.color].release = service[op.color].release
         /\ rule' \in [exists : BOOLEAN, proof : Proof]
         /\ stage = "schedule" => rule'.proof = head.generation
         /\ stage # "schedule" => rule'.proof \in {rule.proof, 0}
<1>1. /\ normal \in Color /\ candidate \in Color /\ op.color \in Color /\ op.active \in Color
      /\ op.release \in Releases \cup {Null}
      /\ service \in [Color -> ServiceRecord] /\ service[op.color] \in ServiceRecord
      /\ rule \in [exists : BOOLEAN, proof : Proof] /\ head.generation \in Proof /\ 0 \in Proof
  BY DEF ColorsInv, TypeOK, Operation, Proof
<1>2. normal' \in Color /\ candidate' \in Color /\ normal' = IF stage = "switch" THEN op.color ELSE normal
  BY <1>1 DEF Effect
<1>a. ASSUME NEW t \in ServiceRecord, service' = [service EXCEPT ![op.color] = t]
      PROVE  /\ service' \in [Color -> ServiceRecord] /\ service'[op.color] = t
             /\ \A c \in Color : c # op.color => service'[c] = service[c]
  BY <1>1, <1>a
<1>b. ASSUME rule' = rule
      PROVE  rule' \in [exists : BOOLEAN, proof : Proof] /\ rule'.proof \in {rule.proof, 0}
  BY <1>1, <1>b
<1>3. CASE stage \in {"drain", "scale_zero"}
  <2> DEFINE t == [service[op.color] EXCEPT !.desired = 0]
  <2>1. service' = [service EXCEPT ![op.color] = t] /\ rule' = rule
    BY <1>3 DEF Effect
  <2>2. t \in ServiceRecord /\ t.desired = 0 /\ t.release = service[op.color].release
    BY <1>1
  <2> HIDE DEF t
  <2>3. /\ service' \in [Color -> ServiceRecord] /\ service'[op.color] = t
        /\ \A c \in Color : c # op.color => service'[c] = service[c]
    BY <1>a, <2>1, <2>2
  <2> QED
    BY <1>2, <1>3, <1>b, <2>1, <2>2, <2>3 DEF Scales
<1>4. CASE stage = "attach"
  <2> DEFINE t == [service[op.color] EXCEPT !.desired = 0, !.release = op.release]
  <2>1. service' = [service EXCEPT ![op.color] = t] /\ rule' = rule
    BY <1>4 DEF Effect
  <2>2. t \in ServiceRecord /\ t.desired = 0
    BY <1>1, ServiceChanges
  <2> HIDE DEF t
  <2>3. /\ service' \in [Color -> ServiceRecord] /\ service'[op.color] = t
        /\ \A c \in Color : c # op.color => service'[c] = service[c]
    BY <1>a, <2>1, <2>2
  <2> QED
    BY <1>2, <1>4, <1>b, <2>1, <2>2, <2>3 DEF Scales
<1>5. CASE stage \in {"start", "scale"}
  <2> DEFINE t == [service[op.color] EXCEPT !.desired = Count]
  <2>1. service' = [service EXCEPT ![op.color] = t] /\ rule' = rule
    BY <1>5 DEF Effect
  <2>2. t \in ServiceRecord /\ t.desired = Count /\ t.release = service[op.color].release
    BY <1>1
  <2> HIDE DEF t
  <2>3. /\ service' \in [Color -> ServiceRecord] /\ service'[op.color] = t
        /\ \A c \in Color : c # op.color => service'[c] = service[c]
    BY <1>a, <2>1, <2>2
  <2> QED
    BY <1>2, <1>5, <1>b, <2>1, <2>2, <2>3 DEF Scales
<1>6. CASE stage \notin Scales
  <2>1. service' = [service EXCEPT ![op.color] = @]
    BY <1>6 DEF Effect, Scales
  <2>2. service' = service
    BY <1>1, <2>1
  <2>3. rule' \in [exists : BOOLEAN, proof : Proof]
        /\ (stage = "schedule" => rule'.proof = head.generation)
        /\ (stage # "schedule" => rule'.proof \in {rule.proof, 0})
    BY <1>1 DEF Effect
  <2> QED
    BY <1>1, <1>2, <1>6, <2>2, <2>3 DEF Scales
<1> QED
  BY <1>3, <1>4, <1>5, <1>6 DEF Scales

\* What its guard saw lets the mutation leave a serving colour that E3 accepted.
LEMMA EffectServes ==
  ASSUME ColorsInv, NEW stage \in Stage, Guards(stage), Effect(stage), UNCHANGED <<history, activated>>
  PROVE  ServiceTells'
<1>1. normal \in Color /\ op.color \in Color
  BY DEF ColorsInv, TypeOK, Operation
<1>2. CASE stage \in Scales
  BY <1>1, <1>2, EffectIs DEF ColorsInv, ServiceTells, Guards, Scales
<1>3. CASE stage = "switch"
  BY <1>1, <1>3, EffectIs DEF ColorsInv, ServiceTells, Guards, Scales
<1>4. CASE stage \notin Scales \cup {"switch"}
  BY <1>1, <1>4, EffectIs DEF ColorsInv, ServiceTells
<1> QED
  BY <1>2, <1>3, <1>4

LEMMA LateSteps == ColorsInv /\ Late => ColorsInv'
<1> SUFFICES ASSUME ColorsInv, Late PROVE ColorsInv'
  OBVIOUS
<1> USE DEF bounds
<1>1. flight' = {} /\ UNCHANGED <<events, history, activated, head, op, faults, takeovers>>
  BY DEF Late
<1>2. PICK stage \in flight : Effect(stage) \/ UNCHANGED aws
  BY DEF Late
<1>3. op.phase = "stopped" /\ Guards(stage) /\ stage \in Stage
  BY DEF ColorsInv, TypeOK, HeldTells, CallTells
<1>4. HeldTells' /\ PlaceTells' /\ CallTells' /\ ReturnTells'
  BY <1>1, <1>3 DEF ColorsInv, HeldTells, PlaceTells, CallTells, ReturnTells, Working, Staging, Ending
<1>5. CASE Effect(stage)
  <2>1. TypeOK'
    BY <1>1, <1>3, <1>5, EffectIs DEF ColorsInv, TypeOK
  <2>2. ServiceTells'
    BY <1>1, <1>3, <1>5, EffectServes
  <2>3. rule'.proof \in {rule.proof, 0} \/ (stage = "schedule" /\ rule'.proof = head.generation)
    BY <1>3, <1>5, EffectIs
  <2>4. ScheduleTells'
    BY <1>1, <1>3, <2>3 DEF ColorsInv, TypeOK, Proof, ScheduleTells, Guards
  <2> QED
    BY <1>4, <2>1, <2>2, <2>4 DEF ColorsInv
<1>6. CASE UNCHANGED aws
  <2> USE DEF aws
  <2>1. TypeOK'
    BY <1>1, <1>6 DEF ColorsInv, TypeOK
  <2>2. ServiceTells' /\ ScheduleTells'
    BY <1>1, <1>6 DEF ColorsInv, ServiceTells, ScheduleTells
  <2> QED
    BY <1>4, <2>1, <2>2 DEF ColorsInv
<1> QED
  BY <1>2, <1>5, <1>6

LEMMA StopSteps == ColorsInv /\ Stop => ColorsInv'
<1> SUFFICES ASSUME ColorsInv, Stop PROVE ColorsInv'
  OBVIOUS
<1>1. /\ UNCHANGED <<normal, candidate, service, events, history, activated, takeovers>>
      /\ flight = {} /\ faults' \in 0 .. MaxFaults /\ op.phase \notin {"stopped", "done"}
  BY DEF Stop, Fault, ColorsInv, TypeOK, HeldTells
<1>2. /\ op' \in Operation /\ op'.phase = "stopped" /\ op'.kind = op.kind /\ op'.proof = op.proof
      /\ op'.color = op.color /\ op'.release = op.release /\ op'.touched = op.touched
  BY DEF Stop, ColorsInv, TypeOK, Operation, Phase
<1>3. CASE UNCHANGED <<flight, head, rule>>
  <2>1. TypeOK'
    BY <1>1, <1>2, <1>3 DEF ColorsInv, TypeOK
  <2>2. HeldTells' /\ PlaceTells' /\ CallTells' /\ ServiceTells' /\ ReturnTells'
    BY <1>1, <1>2, <1>3 DEF ColorsInv, HeldTells, PlaceTells, CallTells, ServiceTells, ReturnTells,
       Working, Staging, Ending
  <2>3. ScheduleTells'
    BY <1>1, <1>2, <1>3 DEF ColorsInv, ScheduleTells
  <2> QED
    BY <2>1, <2>2, <2>3 DEF ColorsInv
<1>4. CASE /\ op.phase = "call"
           /\ flight' \in {{}, {Head(op.todo)}}
           /\ IF Head(op.todo) = "schedule"
              THEN /\ head' = [head EXCEPT !.schedule = head.generation]
                   /\ rule' \in {rule, [rule EXCEPT !.exists = TRUE]}
              ELSE UNCHANGED <<head, rule>>
  <2>1. Head(op.todo) \in Stage /\ Guards(Head(op.todo))
    BY <1>4, LeftIs DEF ColorsInv, TypeOK, Operation, PlaceTells, CallTells, Working, Staging
  <2>2. /\ head' \in HeadRecord
        /\ head'.generation = head.generation /\ head'.held = head.held
        /\ Head(op.todo) = "schedule" => head'.schedule = head.generation
        /\ Head(op.todo) # "schedule" => head'.schedule = head.schedule
        /\ rule' \in [exists : BOOLEAN, proof : Proof] /\ rule'.proof = rule.proof
    <3>1. CASE Head(op.todo) = "schedule"
      <4>1. head' = [head EXCEPT !.schedule = head.generation] /\ rule' \in {rule, [rule EXCEPT !.exists = TRUE]}
        BY <1>4, <3>1
      <4>2. [rule EXCEPT !.exists = TRUE] \in [exists : BOOLEAN, proof : Proof]
            /\ [rule EXCEPT !.exists = TRUE].proof = rule.proof
        BY DEF ColorsInv, TypeOK
      <4> QED
        BY <3>1, <4>1, <4>2 DEF ColorsInv, TypeOK
    <3>2. CASE Head(op.todo) # "schedule"
      BY <1>4, <3>2 DEF ColorsInv, TypeOK
    <3> QED
      BY <3>1, <3>2
  <2>3. TypeOK'
    BY <1>1, <1>2, <1>4, <2>1, <2>2 DEF ColorsInv, TypeOK
  <2>4. HeldTells' /\ PlaceTells' /\ ServiceTells' /\ ReturnTells'
    BY <1>1, <1>2, <1>4, <2>2 DEF ColorsInv, HeldTells, PlaceTells, ServiceTells, ReturnTells,
       Working, Staging, Ending
  <2>5. CallTells'
    BY <1>1, <1>2, <1>4, <2>1 DEF CallTells, Guards
  <2>6. ScheduleTells'
    BY <1>1, <1>2, <1>4, <2>1, <2>2 DEF ColorsInv, TypeOK, Proof, ScheduleTells, Guards
  <2> QED
    BY <2>3, <2>4, <2>5, <2>6 DEF ColorsInv
<1> QED
  BY <1>3, <1>4 DEF Stop

LEMMA CallSteps == ColorsInv /\ Call => ColorsInv'
<1> SUFFICES ASSUME ColorsInv, Call PROVE ColorsInv'
  OBVIOUS
<1> USE DEF bounds
<1> DEFINE stage == Head(op.todo)
<1>1. /\ UNCHANGED <<flight, events, history, activated, faults, takeovers>>
      /\ op.phase = "call" /\ flight = {} /\ Effect(stage)
  BY DEF Call, ColorsInv, HeldTells
<1>2. /\ op' \in Operation /\ op'.phase = "observe" /\ op'.kind = op.kind /\ op'.proof = op.proof
      /\ op'.active = op.active /\ op'.color = op.color /\ op'.release = op.release
      /\ op'.todo = op.todo /\ op'.touched = TRUE
  BY DEF Call, ColorsInv, TypeOK, Operation, Phase
<1>3. /\ op.kind \in Kind /\ op.active \in Color /\ op.color \in Color /\ op.active # op.color
      /\ stage \in Stage /\ Guards(stage) /\ op.todo \in Left(op.kind) /\ op.todo # << >>
  BY <1>1, LeftIs DEF ColorsInv, TypeOK, Operation, PlaceTells, CallTells, Working, Staging
<1>4. /\ head' \in HeadRecord
      /\ head'.generation = head.generation /\ head'.held = head.held
      /\ stage = "schedule" => head'.schedule = head.generation
      /\ stage # "schedule" => head'.schedule = head.schedule
  BY DEF Call, ColorsInv, TypeOK
<1>5. TypeOK'
  BY <1>1, <1>2, <1>3, <1>4, EffectIs DEF ColorsInv, TypeOK
<1>6. HeldTells' /\ PlaceTells' /\ CallTells'
  BY <1>1, <1>2, <1>4 DEF ColorsInv, HeldTells, PlaceTells, CallTells, Working, Staging, Ending
<1>7. ServiceTells'
  BY <1>1, <1>3, EffectServes
<1>8. ReturnTells'
  <2>1. op.kind # "delivery" => stage # "attach"
    BY <1>3, LeftIs DEF Kind
  <2>2. service'[op.active] = service[op.active]
        /\ (op.kind # "delivery" => service'[op.color].release = service[op.color].release)
    BY <1>1, <1>3, <2>1, EffectIs
  <2> QED
    BY <1>1, <1>2, <2>2 DEF ColorsInv, ReturnTells, Kept, Working, Staging, Ending
<1>9. ScheduleTells'
  <2>1. rule'.proof \in {rule.proof, 0} \/ (stage = "schedule" /\ rule'.proof = head.generation)
    BY <1>1, <1>3, EffectIs
  <2> QED
    BY <1>1, <1>2, <1>3, <1>4, <2>1 DEF ColorsInv, TypeOK, Proof, ScheduleTells, Guards
<1> QED
  BY <1>5, <1>6, <1>7, <1>8, <1>9 DEF ColorsInv

------------------------------------------------------------------------------
(* The steps of an operation. *)

\* A plan is made for the two colours that the routes tell apart.
LEMMA PlannedSteps ==
  ASSUME ColorsInv, op.phase = "prepare", NEW release \in Releases \cup {Null},
         NEW stages \in Left(op.kind), stages # << >>, Inactive, Planned(release, stages),
         op.kind = "delivery" => release = op.release /\ stages \notin Routes,
         op.kind = "emergency" => release # Null /\ release = history[candidate],
         UNCHANGED <<aws, flight, events, history, activated, takeovers, faults>>
  PROVE  ColorsInv'
<1> USE DEF aws
<1>1. /\ op.kind \in Kind /\ op.proof \in Proof /\ op.touched = FALSE /\ head' = head /\ flight = {}
      /\ op.kind = "delivery" => release \in Releases
  BY DEF Planned, ColorsInv, TypeOK, Operation, HeldTells, PlaceTells
<1>2. /\ op' \in Operation /\ op'.phase = "guard" /\ op'.kind = op.kind /\ op'.proof = op.proof
      /\ op'.active = normal /\ op'.color = candidate /\ op'.release = release
      /\ op'.todo = stages /\ op'.touched = FALSE
  <2>1. stages \in Seq(Stage)
    BY <1>1, LeftIs
  <2> QED
    BY <1>1, <2>1 DEF Planned, Observation, ColorsInv, TypeOK, Operation, Phase
<1>3. TypeOK'
  BY <1>1, <1>2 DEF ColorsInv, TypeOK
<1>4. HeldTells' /\ CallTells' /\ ServiceTells'
  BY <1>1, <1>2 DEF ColorsInv, HeldTells, CallTells, ServiceTells
<1>5. PlaceTells'
  BY <1>1, <1>2 DEF PlaceTells, Inactive, Working, Staging, Ending
<1>6. ReturnTells'
  BY <1>1, <1>2 DEF ColorsInv, TypeOK, ReturnTells, Kept, Inactive, Working, Staging, Ending
<1>7. ScheduleTells'
  BY <1>1, <1>2 DEF ColorsInv, ScheduleTells
<1> QED
  BY <1>3, <1>4, <1>5, <1>6, <1>7 DEF ColorsInv

LEMMA Prefixed ==
  ASSUME NEW S, NEW a \in S, NEW s \in Seq(S), NEW t \in Seq(S),
         Len(t) = Len(s) + 1, t[1] = a, \A i \in 1 .. Len(s) : t[i + 1] = s[i]
  PROVE  <<a>> \o s = t
<1> DEFINE c == <<a>> \o s
<1>1. <<a>> \in Seq(S) /\ Len(<<a>>) = 1 /\ <<a>>[1] = a
  OBVIOUS
<1>2. c \in Seq(S) /\ Len(c) = Len(t) /\ \A i \in 1 .. Len(t) : c[i] = t[i]
  BY <1>1
<1> HIDE DEF c
<1>3. c = t
  BY <1>2, SeqEqual
<1> QED
  BY <1>3 DEF c

\* The two plans that may leave their first stage out.
LEMMA PlansAre ==
  /\ << >> \o <<"switch", "candidate", "schedule">> = <<"switch", "candidate", "schedule">>
  /\ <<"scale">> \o <<"switch", "candidate", "schedule">> = <<"scale", "switch", "candidate", "schedule">>
  /\ << >> \o <<"remove_target", "delete_rule">> = <<"remove_target", "delete_rule">>
  /\ <<"scale_zero">> \o <<"remove_target", "delete_rule">> = <<"scale_zero", "remove_target", "delete_rule">>
<1>1. << >> \o <<"switch", "candidate", "schedule">> = <<"switch", "candidate", "schedule">>
      /\ << >> \o <<"remove_target", "delete_rule">> = <<"remove_target", "delete_rule">>
  <2>1. <<"switch", "candidate", "schedule">> \in Seq(Stage) /\ <<"remove_target", "delete_rule">> \in Seq(Stage)
    BY DEF Stage
  <2> QED
    BY <2>1, ConcatEmptySeq
<1>2. <<"scale">> \o <<"switch", "candidate", "schedule">> = <<"scale", "switch", "candidate", "schedule">>
  <2> DEFINE s == <<"switch", "candidate", "schedule">>
             t == <<"scale", "switch", "candidate", "schedule">>
  <2>1. "scale" \in Stage /\ s \in Seq(Stage) /\ t \in Seq(Stage)
    BY DEF Stage
  <2>2. Len(t) = Len(s) + 1 /\ t[1] = "scale" /\ \A i \in 1 .. Len(s) : t[i + 1] = s[i]
    OBVIOUS
  <2> HIDE DEF s, t
  <2>3. <<"scale">> \o s = t
    BY <2>1, <2>2, Prefixed
  <2> QED
    BY <2>3 DEF s, t
<1>3. <<"scale_zero">> \o <<"remove_target", "delete_rule">> = <<"scale_zero", "remove_target", "delete_rule">>
  <2> DEFINE s == <<"remove_target", "delete_rule">>
             t == <<"scale_zero", "remove_target", "delete_rule">>
  <2>1. "scale_zero" \in Stage /\ s \in Seq(Stage) /\ t \in Seq(Stage)
    BY DEF Stage
  <2>2. Len(t) = Len(s) + 1 /\ t[1] = "scale_zero" /\ \A i \in 1 .. Len(s) : t[i + 1] = s[i]
    OBVIOUS
  <2> HIDE DEF s, t
  <2>3. <<"scale_zero">> \o s = t
    BY <2>1, <2>2, Prefixed
  <2> QED
    BY <2>3 DEF s, t
<1> QED
  BY <1>1, <1>2, <1>3

LEMMA PrepareSteps == ColorsInv /\ Prepare => ColorsInv'
<1> SUFFICES ASSUME ColorsInv, Prepare PROVE ColorsInv'
  OBVIOUS
<1>0. /\ op.phase = "prepare" /\ UNCHANGED <<aws, flight, events, history, activated, takeovers>>
      /\ normal \in Color /\ candidate \in Color /\ history[candidate] \in Releases \cup {Null}
      /\ faults \in 0 .. MaxFaults /\ op.release \in Releases \cup {Null}
  BY DEF Prepare, PrepareDelivery, PrepareEmergency, PrepareCleanup, ColorsInv, TypeOK, Operation
<1>1. CASE Rejected /\ (UNCHANGED faults \/ Fault)
  <2>1. faults' \in 0 .. MaxFaults
    BY <1>0, <1>1 DEF Fault
  <2> QED
    BY <1>0, <1>1, <2>1, RejectedSteps
<1>2. CASE PrepareDelivery
  <2> DEFINE stages == <<"register", "drain", "attach", "start", "switch", "candidate", "schedule">>
  <2>1. stages \in Left("delivery") /\ stages # << >> /\ stages \notin Routes
    BY DEF Left, Preparations, Routes
  <2>2. /\ op.kind = "delivery"
        /\ \/ Inactive /\ UNCHANGED faults /\ Planned(op.release, stages)
           \/ Rejected /\ (UNCHANGED faults \/ Fault)
    BY <1>2 DEF PrepareDelivery, Look
  <2> HIDE DEF stages
  <2> QED
    BY <1>0, <1>1, <2>1, <2>2, PlannedSteps
<1>3. CASE PrepareEmergency
  <2> DEFINE stages == (IF service[candidate].desired = 0 THEN <<"scale">> ELSE << >>)
                         \o <<"switch", "candidate", "schedule">>
  <2>1. stages \in Left("emergency") /\ stages # << >>
    <3>1. stages \in {<<"switch", "candidate", "schedule">>, <<"scale", "switch", "candidate", "schedule">>}
      BY PlansAre, Zenon
    <3> HIDE DEF stages
    <3> QED
      BY <3>1 DEF Left, Scalings, Routes
  <2>2. /\ op.kind = "emergency"
        /\ \/ Recoverable /\ UNCHANGED faults /\ Planned(history[candidate], stages)
           \/ Rejected /\ (UNCHANGED faults \/ Fault)
    BY <1>3 DEF PrepareEmergency, Look, LastSuccess
  <2> HIDE DEF stages
  <2> QED
    BY <1>0, <1>1, <2>1, <2>2, PlannedSteps DEF Recoverable, LastSuccess
<1>4. CASE PrepareCleanup
  <2> DEFINE stages == (IF service[candidate].desired > 0 \/ service[candidate].running > 0
                        THEN <<"scale_zero">> ELSE << >>)
                         \o <<"remove_target", "delete_rule">>
  <2>1. stages \in Left("cleanup") /\ stages # << >>
    <3>1. stages \in {<<"remove_target", "delete_rule">>, <<"scale_zero", "remove_target", "delete_rule">>}
      BY PlansAre, Zenon
    <3> HIDE DEF stages
    <3> QED
      BY <3>1 DEF Left, Removals
  <2>2. /\ op.kind = "cleanup"
        /\ \/ Inactive /\ UNCHANGED faults /\ Planned(Null, stages)
           \/ Rejected /\ (UNCHANGED faults \/ Fault)
    BY <1>4 DEF PrepareCleanup, Look
  <2> HIDE DEF stages
  <2> QED
    BY <1>0, <1>1, <2>1, <2>2, PlannedSteps
<1> QED
  BY <1>2, <1>3, <1>4 DEF Prepare

\* An operation that goes on to another phase, and changes nothing else.
LEMMA GotoIs ==
  ASSUME ColorsInv, NEW phase \in Phase, Goto(phase)
  PROVE  /\ op' \in Operation /\ op'.phase = phase /\ op'.kind = op.kind /\ op'.proof = op.proof
         /\ op'.active = op.active /\ op'.color = op.color /\ op'.release = op.release
         /\ op'.todo = op.todo /\ op'.touched = op.touched /\ head' = head
BY DEF Goto, ColorsInv, TypeOK, Operation

\* What the guard saw is what the call relies on.
LEMMA GuardedTells ==
  ASSUME ColorsInv, op.phase = "guard", Guarded
  PROVE  Guards(Head(op.todo))
<1> DEFINE stage == Head(op.todo)
<1>1. /\ op.kind \in Kind /\ op.todo \in Left(op.kind) /\ op.todo # << >> /\ op.phase \in Working \ {"e3"}
      /\ op.active # op.color
  BY DEF ColorsInv, TypeOK, Operation, PlaceTells, Working, Staging, Ending
<1>2. Topology
  BY <1>1 DEF Guarded, EmergencyGuard, CleanupGuard, DeliveryGuard, Kind
<1>3. stage \in Scales => normal # op.color
  BY <1>1, <1>2, TopologyTells DEF Scales
<1>4. (stage = "schedule" => op.kind # "cleanup") /\ (stage = "remove_target" => op.kind = "cleanup")
  BY <1>1, LeftIs
<1>5. ASSUME stage = "switch"
      PROVE  /\ service[op.color].desired = Count /\ service[op.color].release = op.release
             /\ <<op.release, op.color>> \in activated
  <2>1. op.todo \in Routes /\ op.kind # "cleanup"
    BY <1>1, <1>5, LeftIs
  <2>2. CASE op.kind = "delivery"
    BY <1>1, <1>5, <2>1, <2>2 DEF Guarded, DeliveryGuard, Healthy, Selected, ColorsInv, PlaceTells
  <2>3. CASE op.kind = "emergency"
    BY <1>1, <1>5, <2>1, <2>3 DEF Guarded, EmergencyGuard, Healthy, Selected, ColorsInv, TypeOK, Operation,
       PlaceTells, ServiceTells
  <2> QED
    BY <1>1, <2>1, <2>2, <2>3 DEF Kind
<1> QED
  BY <1>3, <1>4, <1>5 DEF Guards

LEMMA GuardSteps == ColorsInv /\ Guard => ColorsInv'
<1> SUFFICES ASSUME ColorsInv, Guard PROVE ColorsInv'
  OBVIOUS
<1> USE DEF aws
<1>0. /\ op.phase = "guard" /\ UNCHANGED <<aws, flight, events, history, activated, takeovers>>
      /\ faults \in 0 .. MaxFaults /\ flight = {}
      /\ (Guarded /\ UNCHANGED faults /\ Goto("call")) \/ (Rejected /\ (UNCHANGED faults \/ Fault))
  BY DEF Guard, Look, ColorsInv, TypeOK, HeldTells
<1>1. CASE Rejected /\ (UNCHANGED faults \/ Fault)
  <2>1. faults' \in 0 .. MaxFaults
    BY <1>0, <1>1 DEF Fault
  <2> QED
    BY <1>0, <1>1, <2>1, RejectedSteps DEF Working, Staging
<1>2. CASE Guarded /\ UNCHANGED faults /\ Goto("call")
  <2>1. /\ op' \in Operation /\ op'.phase = "call" /\ op'.kind = op.kind /\ op'.proof = op.proof
        /\ op'.active = op.active /\ op'.color = op.color /\ op'.release = op.release
        /\ op'.todo = op.todo /\ op'.touched = op.touched /\ head' = head
    BY <1>2, GotoIs DEF Phase
  <2>2. TypeOK'
    BY <1>0, <1>2, <2>1 DEF ColorsInv, TypeOK
  <2>3. HeldTells' /\ PlaceTells' /\ ServiceTells' /\ ReturnTells'
    BY <1>0, <2>1 DEF ColorsInv, HeldTells, PlaceTells, ServiceTells, ReturnTells, Kept, Inactive,
       Working, Staging, Ending
  <2>4. CallTells'
    BY <1>0, <1>2, <2>1, GuardedTells DEF CallTells, Guards
  <2>5. ScheduleTells'
    BY <1>0, <2>1 DEF ColorsInv, ScheduleTells
  <2> QED
    BY <2>2, <2>3, <2>4, <2>5 DEF ColorsInv
<1> QED
  BY <1>0, <1>1, <1>2

\* E3 accepted what the service of the operation's colour then runs.
LEMMA GateSteps == ColorsInv /\ Gate => ColorsInv'
<1> SUFFICES ASSUME ColorsInv, Gate PROVE ColorsInv'
  OBVIOUS
<1> USE DEF aws
<1>0. /\ op.phase = "e3" /\ UNCHANGED <<aws, flight, events, history, takeovers>>
      /\ activated' = IF op'.phase = "guard" THEN activated \cup {<<op.release, op.color>>} ELSE activated
      /\ faults \in 0 .. MaxFaults /\ flight = {} /\ op.phase \in Working
      /\ (UNCHANGED faults /\ Goto("guard")) \/ (Rejected /\ (UNCHANGED faults \/ Fault))
  BY DEF Gate, Look, ColorsInv, TypeOK, HeldTells, Working, Staging
<1>1. CASE Rejected /\ (UNCHANGED faults \/ Fault)
  <2>1. faults' \in 0 .. MaxFaults
    BY <1>0, <1>1 DEF Fault
  <2>2. op'.phase # "guard"
    BY <1>1, NoOperationIs DEF Rejected, ColorsInv, TypeOK, Operation
  <2> QED
    BY <1>0, <1>1, <2>1, <2>2, RejectedSteps
<1>2. CASE UNCHANGED faults /\ Goto("guard")
  <2>1. /\ op' \in Operation /\ op'.phase = "guard" /\ op'.kind = op.kind /\ op'.proof = op.proof
        /\ op'.active = op.active /\ op'.color = op.color /\ op'.release = op.release
        /\ op'.todo = op.todo /\ op'.touched = op.touched /\ head' = head
    BY <1>2, GotoIs DEF Phase
  <2>2. activated' = activated \cup {<<op.release, op.color>>} /\ op.release \in Releases /\ op.color \in Color
    BY <1>0, <2>1 DEF ColorsInv, TypeOK, Operation, PlaceTells
  <2>3. TypeOK'
    BY <1>0, <1>2, <2>1, <2>2 DEF ColorsInv, TypeOK
  <2>4. HeldTells' /\ CallTells' /\ ServiceTells'
    BY <1>0, <2>1, <2>2 DEF ColorsInv, HeldTells, CallTells, ServiceTells
  <2>5. PlaceTells'
    BY <1>0, <2>1, <2>2 DEF ColorsInv, PlaceTells, Working, Staging, Ending
  <2>6. ReturnTells' /\ ScheduleTells'
    BY <1>0, <2>1 DEF ColorsInv, ReturnTells, Kept, Inactive, ScheduleTells, Working, Staging, Ending
  <2> QED
    BY <2>3, <2>4, <2>5, <2>6 DEF ColorsInv
<1> QED
  BY <1>0, <1>1, <1>2

LEMMA ObserveSteps == ColorsInv /\ Observe => ColorsInv'
<1> SUFFICES ASSUME ColorsInv, Observe PROVE ColorsInv'
  OBVIOUS
<1> USE DEF aws, bounds
<1>0. /\ op.phase = "observe" /\ flight = {}
      /\ UNCHANGED <<aws, flight, events, history, activated, head, bounds>>
      /\ op.kind \in Kind /\ op.todo \in Left(op.kind) /\ op.todo # << >>
  BY DEF Observe, ColorsInv, TypeOK, Operation, HeldTells, PlaceTells, Working, Staging
<1>1. /\ op' \in Operation /\ op'.kind = op.kind /\ op'.proof = op.proof
      /\ op'.active = op.active /\ op'.color = op.color /\ op'.release = op.release
      /\ op'.todo = Tail(op.todo) /\ op'.touched = op.touched /\ op'.phase = After(Head(op.todo))
  <2>1. After(Head(op.todo)) \in Phase /\ Tail(op.todo) \in Seq(Stage)
    <3>1. op.todo \in Seq(Stage)
      BY <1>0, LeftIs
    <3> QED
      BY <1>0, <3>1 DEF After, Phase
  <2> QED
    BY <2>1 DEF Observe, ColorsInv, TypeOK, Operation
<1>2. /\ op'.phase \in {"final", "e3", "guard"}
      /\ op'.phase = "final" <=> Len(op.todo) = 1
      /\ op'.phase = "e3" => op.kind = "delivery" /\ Head(op.todo) = "start"
      /\ op'.phase = "guard" => ~(op.kind = "delivery" /\ Head(op.todo) = "start")
  <2>1. Head(op.todo) = "start" => Len(op.todo) # 1
    BY <1>0, LeftIs
  <2> QED
    BY <1>1, <2>1 DEF After
<1>3. TypeOK'
  BY <1>0, <1>1 DEF ColorsInv, TypeOK
<1>4. HeldTells' /\ CallTells' /\ ServiceTells'
  BY <1>0, <1>1, <1>2 DEF ColorsInv, HeldTells, CallTells, ServiceTells
<1>5. PlaceTells'
  <2>1. /\ op'.active # op'.color /\ op'.todo \in Left(op'.kind) /\ (op'.todo = << >> <=> op'.phase = "final")
        /\ op'.phase = "e3" => Head(op'.todo) = "switch"
    BY <1>0, <1>1, <1>2, LeftIs DEF ColorsInv, PlaceTells, Working, Staging
  <2>2. op.kind = "delivery" /\ op'.todo \in Routes /\ op'.phase # "e3" => op.todo \in Routes
    BY <1>0, <1>1, <1>2, LeftIs
  <2>3. /\ op.kind = "delivery" => op.release \in Releases
        /\ op.kind = "emergency" => op.release # Null /\ op.release = history[op.color]
        /\ op.kind = "delivery" /\ op.todo \in Routes => <<op.release, op.color>> \in activated
    BY <1>0 DEF ColorsInv, PlaceTells, Working, Staging
  <2> QED
    BY <1>0, <1>1, <1>2, <2>1, <2>2, <2>3 DEF PlaceTells, Working, Staging, Ending
<1>6. ReturnTells'
  BY <1>0, <1>1, <1>2 DEF ColorsInv, ReturnTells, Kept, Inactive, Working, Staging, Ending
<1>7. ScheduleTells'
  <2>1. op'.phase \in {"e3", "guard"} /\ op.kind # "cleanup" => Head(op.todo) # "schedule"
    BY <1>0, <1>2, LeftIs
  <2> QED
    BY <1>0, <1>1, <1>2, <2>1 DEF ColorsInv, ScheduleTells
<1> QED
  BY <1>3, <1>4, <1>5, <1>6, <1>7 DEF ColorsInv

LEMMA FinalSteps == ColorsInv /\ Final => ColorsInv'
<1> SUFFICES ASSUME ColorsInv, Final PROVE ColorsInv'
  OBVIOUS
<1> USE DEF aws
<1> DEFINE next == IF op.kind = "delivery" THEN "publish" ELSE "finish"
<1>0. /\ op.phase = "final" /\ UNCHANGED <<aws, flight, events, history, activated, takeovers>>
      /\ faults \in 0 .. MaxFaults /\ flight = {} /\ op.phase \in Working
      /\ (Complete /\ UNCHANGED faults /\ Goto(next)) \/ (Rejected /\ (UNCHANGED faults \/ Fault))
  BY DEF Final, Look, ColorsInv, TypeOK, HeldTells, Working, Ending
<1>1. CASE Rejected /\ (UNCHANGED faults \/ Fault)
  <2>1. faults' \in 0 .. MaxFaults
    BY <1>0, <1>1 DEF Fault
  <2> QED
    BY <1>0, <1>1, <2>1, RejectedSteps
<1>2. CASE Complete /\ UNCHANGED faults /\ Goto(next)
  <2>0. next \in Phase
    BY DEF Phase
  <2>1. /\ op' \in Operation /\ op'.phase = next /\ op'.kind = op.kind /\ op'.proof = op.proof
        /\ op'.active = op.active /\ op'.color = op.color /\ op'.release = op.release
        /\ op'.todo = op.todo /\ op'.touched = op.touched /\ head' = head
    BY <1>2, <2>0, GotoIs
  <2>2. TypeOK'
    BY <1>0, <1>2, <2>1 DEF ColorsInv, TypeOK
  <2>3. HeldTells' /\ PlaceTells' /\ CallTells' /\ ServiceTells'
    BY <1>0, <2>1 DEF ColorsInv, HeldTells, PlaceTells, CallTells, ServiceTells, Working, Staging, Ending
  <2>4. op.kind \in Kind /\ op.todo = << >>
    BY <1>0 DEF ColorsInv, TypeOK, Operation, PlaceTells, Ending
  <2>5. Topology /\ (op.kind = "delivery" => Selected)
    BY <1>2, <2>4 DEF Complete, Kind
  <2>6. Inactive
    BY <1>0, <2>4, <2>5, TopologyTells
  <2>7. ReturnTells'
    BY <1>0, <2>1, <2>5, <2>6 DEF ColorsInv, ReturnTells, Kept, Inactive, Selected, Working, Staging, Ending
  <2>8. ScheduleTells'
    BY <1>0, <2>1 DEF ColorsInv, ScheduleTells
  <2> QED
    BY <2>2, <2>3, <2>7, <2>8 DEF ColorsInv
<1> QED
  BY <1>0, <1>1, <1>2

LEMMA PublishSteps == ColorsInv /\ Publish => ColorsInv'
<1> SUFFICES ASSUME ColorsInv, Publish PROVE ColorsInv'
  OBVIOUS
<1> USE DEF aws, bounds
<1>0. /\ op.phase = "publish" /\ UNCHANGED <<aws, flight, events, activated, bounds>> /\ flight = {}
      /\ history' = [history EXCEPT ![op.color] = op.release] /\ history \in [Color -> Releases \cup {Null}]
      /\ op.color \in Color /\ op.kind = "delivery" /\ op.release \in Releases
      /\ <<op.release, op.color>> \in activated /\ service[op.color].release = op.release /\ Inactive
  BY DEF Publish, ColorsInv, TypeOK, Operation, HeldTells, PlaceTells, ReturnTells, Routes, Working, Staging, Ending
<1>1. /\ op' \in Operation /\ op'.phase = "finish" /\ op'.kind = op.kind /\ op'.proof = op.proof
      /\ op'.active = op.active /\ op'.color = op.color /\ op'.release = op.release
      /\ op'.todo = op.todo /\ op'.touched = op.touched /\ head' = head
  BY GotoIs DEF Publish, Phase
<1>2. /\ history' \in [Color -> Releases \cup {Null}] /\ history'[op.color] = op.release
      /\ \A c \in Color : c # op.color => history'[c] = history[c]
  BY <1>0
<1>3. TypeOK'
  BY <1>0, <1>1, <1>2 DEF ColorsInv, TypeOK
<1>4. HeldTells' /\ PlaceTells' /\ CallTells'
  BY <1>0, <1>1 DEF ColorsInv, HeldTells, PlaceTells, CallTells, Working, Staging, Ending
<1>5. ServiceTells'
  BY <1>0, <1>2 DEF ColorsInv, ServiceTells
<1>6. ReturnTells'
  <2>1. op.active \in Color /\ op.active # op.color
    BY <1>0 DEF ColorsInv, TypeOK, Operation, PlaceTells, Working, Ending
  <2> QED
    BY <1>0, <1>1, <1>2, <2>1 DEF ColorsInv, ReturnTells, Kept, Inactive, Working, Staging, Ending
<1>7. ScheduleTells'
  BY <1>0, <1>1 DEF ColorsInv, ScheduleTells
<1> QED
  BY <1>3, <1>4, <1>5, <1>6, <1>7 DEF ColorsInv

LEMMA FinishSteps == ColorsInv /\ Finish => ColorsInv'
<1> SUFFICES ASSUME ColorsInv, Finish PROVE ColorsInv'
  OBVIOUS
<1> USE DEF aws, bounds
<1>0. /\ op.phase = "finish" /\ UNCHANGED <<aws, flight, events, history, activated, bounds>> /\ flight = {}
      /\ op.active \in Color /\ op.color \in Color /\ op.active # op.color
  BY DEF Finish, ColorsInv, TypeOK, Operation, HeldTells, PlaceTells, Working, Ending
<1>1. /\ op' \in Operation /\ op'.kind = "cleanup" /\ op'.phase = "done" /\ op'.touched = FALSE
      /\ op' = NoOperation
  BY NoOperationIs DEF Finish
<1>2. /\ head' \in HeadRecord
      /\ head'.held = FALSE /\ head'.generation = head.generation /\ head'.schedule \in {head.schedule, 0}
  <2>1. head.schedule \in Proof /\ 0 \in Proof
    BY DEF ColorsInv, TypeOK, Proof
  <2>2. PICK schedule \in {head.schedule, 0} : head' = [head EXCEPT !.held = FALSE, !.schedule = schedule]
    BY DEF Finish
  <2> QED
    BY <2>1, <2>2 DEF ColorsInv, TypeOK
<1>3. TypeOK'
  BY <1>0, <1>1, <1>2 DEF ColorsInv, TypeOK
<1>4. HeldTells' /\ PlaceTells' /\ CallTells' /\ ServiceTells'
  BY <1>0, <1>1, <1>2 DEF ColorsInv, HeldTells, PlaceTells, CallTells, ServiceTells, Working, Staging, Ending
<1>5. ReturnTells'
  <2>1. takeovers = 0 => Inactive /\ Kept(op.active) /\ Kept(op.color)
    BY <1>0 DEF ColorsInv, ReturnTells, Kept, Working, Ending
  <2>2. \A c \in Color : c = op.active \/ c = op.color
    BY <1>0 DEF Color
  <2> QED
    BY <1>0, <1>1, <2>1, <2>2 DEF ReturnTells, Kept, Inactive, Working, Staging, Ending
<1>6. ScheduleTells'
  <2>1. /\ rule' = rule /\ events' = events /\ flight' = {} /\ op'.phase = "done"
        /\ head'.generation = head.generation /\ head'.schedule \in {head.schedule, 0}
    BY <1>0, <1>1, <1>2
  <2>2. head.generation \in Nat /\ ScheduleTells
    BY DEF ColorsInv, TypeOK, Proof
  <2> QED
    BY <2>1, <2>2 DEF ScheduleTells
<1> QED
  BY <1>3, <1>4, <1>5, <1>6 DEF ColorsInv

------------------------------------------------------------------------------

LEMMA ColorsAlways == Spec => []ColorsInv
<1>1. ColorsInv /\ [Next]_vars => ColorsInv'
  <2> SUFFICES ASSUME ColorsInv, [Next]_vars PROVE ColorsInv'
    OBVIOUS
  <2>1. CASE \E c \in Color : TaskStarts(c) \/ TaskStops(c) \/ TaskLost(c) \/ TargetGone(c)
    BY <2>1, EnvironmentSteps
  <2>2. CASE Fire \/ Late
    BY <2>2, FireSteps, LateSteps
  <2>3. CASE (\E release \in Releases : Deliver(release)) \/ Recover
    BY <2>3, BeginSteps DEF Deliver, Recover
  <2>4. CASE \E proof \in events : BeginCleanup(proof)
    BY <2>4, BeginCleanupSteps
  <2>5. CASE Work
    BY <2>5, PrepareSteps, GateSteps, GuardSteps, CallSteps, ObserveSteps, FinalSteps, PublishSteps, FinishSteps
       DEF Work
  <2>6. CASE Stop \/ Takeover
    BY <2>6, StopSteps, TakeoverSteps
  <2>7. CASE UNCHANGED vars
    <3> USE <2>7 DEF vars, aws, bounds
    <3>1. TypeOK'
      BY DEF ColorsInv, TypeOK
    <3>2. HeldTells' /\ PlaceTells' /\ CallTells' /\ ServiceTells'
      BY DEF ColorsInv, HeldTells, PlaceTells, CallTells, Guards, ServiceTells
    <3>3. ReturnTells' /\ ScheduleTells'
      BY DEF ColorsInv, ReturnTells, Kept, Inactive, ScheduleTells
    <3> QED
      BY <3>1, <3>2, <3>3 DEF ColorsInv
  <2> QED
    BY <2>1, <2>2, <2>3, <2>4, <2>5, <2>6, <2>7 DEF Next
<1> QED
  BY Initially, <1>1, PTL DEF Spec

\* The colour that serves is told to run all its replicas, of a release that passed
\* E3 in that colour: whatever was broken off, lost or late, no scale-down, no
\* attachment and no switch takes that away (wp4d/aws_runtime.py, recovery/application.py).
THEOREM ServesActivatedAlways == Spec => []ServesActivated
<1>1. ColorsInv => ServesActivated
  BY DEF ColorsInv, ServiceTells, ServesActivated
<1> QED
  BY <1>1, ColorsAlways, PTL

\* Whenever the environment is free, and no operator has cut a hold short, the routes
\* are distinct and the other colour still has the release and a count that an
\* emergency asks for (Emergency.prepare in recovery/application.py).
THEOREM EmergencyPossibleAlways == Spec => []EmergencyPossible
<1>1. ColorsInv => EmergencyPossible
  <2> SUFFICES ASSUME ColorsInv, ~ head.held, takeovers = 0
               PROVE  Inactive /\ (history[candidate] # Null => Recoverable)
    BY DEF EmergencyPossible
  <2>1. op.phase = "done" /\ op.touched = FALSE /\ candidate \in Color
    BY NoOperationIs DEF ColorsInv, TypeOK, HeldTells
  <2>2. Inactive /\ Kept(candidate) /\ service[candidate].desired \in {0, Count}
    BY <2>1 DEF ColorsInv, ReturnTells, ServiceTells
  <2> QED
    BY <2>2 DEF Recoverable, LastSuccess, Kept
<1> QED
  BY <1>1, ColorsAlways, PTL

\* The target of the schedule is removed by the cleanup that its own event started,
\* by its call or by one that comes late, and by no other step.
THEOREM RemovesOwn == Spec => RemovesOwnSchedule
<1> DEFINE Removes == rule.proof # 0 /\ rule'.proof = 0 => op.proof = rule.proof
<1>1. ColorsInv /\ [Next]_vars => [Removes]_vars
  <2> SUFFICES ASSUME ColorsInv, [Next]_vars, rule.proof # 0, rule'.proof = 0 PROVE op.proof = rule.proof
    OBVIOUS
  <2> USE DEF aws, bounds
  <2>1. ASSUME NEW stage \in Stage, Guards(stage), Effect(stage), op.phase # "done" PROVE op.proof = rule.proof
    <3>1. stage \in {"schedule", "remove_target"}
      BY <2>1 DEF Effect, ColorsInv, TypeOK
    <3>2. stage # "schedule"
      <4>1. head.generation # 0
        BY <2>1 DEF ColorsInv, ScheduleTells
      <4> QED
        BY <2>1, <4>1, EffectIs
    <3>3. op.kind = "cleanup"
      BY <2>1, <3>1, <3>2 DEF Guards
    <3> QED
      BY <2>1, <3>3 DEF ColorsInv, ScheduleTells
  <2>2. CASE Late
    <3>1. PICK stage \in flight : Effect(stage)
      BY <2>2 DEF Late
    <3>2. op.phase = "stopped" /\ Guards(stage) /\ stage \in Stage
      BY DEF ColorsInv, TypeOK, HeldTells, CallTells
    <3> QED
      BY <2>1, <3>1, <3>2
  <2>3. CASE Call
    <3>1. op.phase = "call" /\ Effect(Head(op.todo)) /\ Guards(Head(op.todo)) /\ Head(op.todo) \in Stage
      BY <2>3, LeftIs DEF Call, ColorsInv, TypeOK, Operation, PlaceTells, CallTells, Working, Staging
    <3> QED
      BY <2>1, <3>1
  <2>4. CASE rule' = rule
    BY <2>4
  <2>5. CASE Stop
    BY <2>5 DEF Stop, ColorsInv, TypeOK
  <2>6. Late \/ Call \/ Stop \/ rule' = rule
    BY DEF Next, TaskStarts, TaskStops, TaskLost, TaskGone, TargetGone, Fire, Deliver, Recover, Begin,
       BeginCleanup, Work, Prepare, PrepareDelivery, PrepareEmergency, PrepareCleanup, Gate, Guard,
       Observe, Final, Publish, Finish, Takeover, vars
  <2> QED
    BY <2>2, <2>3, <2>4, <2>5, <2>6
<1> QED
  BY <1>1, ColorsAlways, PTL DEF Spec, RemovesOwnSchedule
==============================================================================
