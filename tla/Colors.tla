-------------------------------- MODULE Colors --------------------------------
(***************************************************************************)
(* The two colours of an environment under its application operations:     *)
(* normal deliveries, emergencies (scripts/recovery/application.py,        *)
(* Emergency) and scheduled cleanups (Cleanup), one at a time, on the      *)
(* adapter of scripts/wp4d/aws_runtime.py (Application) with the index of  *)
(* successes of scripts/wp4d/adapters.py (History).                        *)
(*                                                                         *)
(* The operations meet in the listener, the candidate rule, the two ECS    *)
(* services, the cleanup rule and its target in EventBridge, and the       *)
(* history.  Each goes through its stages: a fresh look at all of this     *)
(* (guard), the mutation (call), its readback (observe); at the end it     *)
(* looks once more (final) and finishes.  Between any two of these ECS and *)
(* the ALB move, and the operation may stop for good.                      *)
(*                                                                         *)
(* What other modules show is taken as it is: an admission, and a release, *)
(* are one step (MutationAuthority implements ExclusiveEpochs); a stage is *)
(* not sent twice and a verdict is known (RecoveryJournal, Delivery), so   *)
(* an operation runs through its stages once, and when it does not succeed *)
(* it has released the environment if it sent nothing and holds it         *)
(* otherwise.  A delivery is seen at the same grain as the other two: what *)
(* its cohort is, and how E3 looks at it, is Delivery's.                   *)
(*                                                                         *)
(* Abstractions.  A task definition revision is the release it was made    *)
(* from; Count is the replica count of every release.  "lingering" are     *)
(* ALB targets of tasks that are gone.  Whether a release is still         *)
(* authorized is one of the reads that may fail.                           *)
(***************************************************************************)
EXTENDS Naturals, Sequences

CONSTANTS
  Releases,       \* releases that may be delivered
  First,          \* the release that serves at the start
  Null,           \* no release: None in the history
  Count,          \* replicas of a serving colour
  MaxGeneration,  \* bound on admissions
  MaxFaults,      \* bound on lost tasks, failed reads, lost calls and stops
  MaxTakeovers,   \* bound on holds that an operator ends
  Drained         \* cleanup waits for the ALB too: TRUE in the DEV packages

ASSUME ColorsAssumption ==
  /\ First \in Releases /\ Null \notin Releases
  /\ Count \in Nat \ {0}
  /\ MaxGeneration \in Nat /\ MaxFaults \in Nat /\ MaxTakeovers \in Nat
  /\ Drained \in BOOLEAN

Color == {"blue", "green"}
Kind  == {"delivery", "emergency", "cleanup"}
Stage == {"register", "drain", "attach", "start", "switch", "candidate", "schedule",
          "scale", "scale_zero", "remove_target", "delete_rule"}
Phase == {"prepare", "guard", "e3", "call", "observe", "final", "publish", "finish",
          "stopped", "done"}

Proof == 0 .. MaxGeneration   \* the generation that attached a schedule; 0 is none

VARIABLES
  normal,     \* the colour the listener forwards to
  candidate,  \* the colour the candidate rule forwards to
  service,    \* of each colour: its revision, counts, and lingering targets
  rule,       \* the EventBridge cleanup rule, and the proof in its target
  flight,     \* the stage whose lost call may still take effect, in a set
  events,     \* proofs in scheduled events that were not yet handled
  history,    \* the release of the last published success of each colour
  activated,  \* the releases that passed E3, each with its colour
  head,       \* E2: the generation, whether it is held, its schedule
  op,         \* the operation of the newest generation
  faults,     \* what has gone wrong so far
  takeovers   \* holds that an operator has ended

aws    == <<normal, candidate, service, rule>>
bounds == <<faults, takeovers>>
vars   == <<aws, flight, events, history, activated, head, op, bounds>>

Operation == [kind : Kind, phase : Phase, proof : Proof, active : Color, color : Color,
              release : Releases \cup {Null}, todo : Seq(Stage), touched : BOOLEAN,
              seen : [Color -> [release : Releases \cup {Null}, desired : 0 .. Count,
                                running : 0 .. Count, lingering : BOOLEAN]]]

\* The service of a colour: revision, counts, and whether targets linger.
Idle == [release |-> Null, desired |-> 0, running |-> 0, lingering |-> FALSE]

NoOperation ==
  [kind |-> "cleanup", phase |-> "done", proof |-> 0, active |-> "blue", color |-> "green",
   release |-> Null, todo |-> << >>, touched |-> FALSE, seen |-> [c \in Color |-> Idle]]

Init ==
  /\ normal = "blue"
  /\ candidate = "green"
  /\ service = [c \in Color |-> IF c = "blue"
                  THEN [release |-> First, desired |-> Count, running |-> Count, lingering |-> FALSE]
                  ELSE Idle]
  /\ rule = [exists |-> FALSE, proof |-> 0]
  /\ flight = {}
  /\ events = {}
  /\ history = [c \in Color |-> IF c = "blue" THEN First ELSE Null]
  /\ activated = {<<First, "blue">>}
  /\ head = [generation |-> 0, held |-> FALSE, schedule |-> 0]
  /\ op = NoOperation
  /\ faults = 0
  /\ takeovers = 0

Fault == faults < MaxFaults /\ faults' = faults + 1

------------------------------------------------------------------------------
(* ECS, the ALB and EventBridge. *)

TaskStarts(c) ==
  /\ service[c].running < service[c].desired
  /\ service' = [service EXCEPT ![c].running = @ + 1]
  /\ UNCHANGED <<normal, candidate, rule, flight, events, history, activated, head, op, bounds>>

\* The target of a task that is gone stays with the ALB for the deregistration delay.
TaskGone(c) ==
  /\ service[c].running > 0
  /\ service' = [service EXCEPT ![c].running = @ - 1, ![c].lingering = TRUE]
  /\ UNCHANGED <<normal, candidate, rule, flight, events, history, activated, head, op, takeovers>>

TaskStops(c) == service[c].running > service[c].desired /\ TaskGone(c) /\ UNCHANGED faults

TaskLost(c) == service[c].running <= service[c].desired /\ TaskGone(c) /\ Fault

TargetGone(c) ==
  /\ service[c].lingering
  /\ service' = [service EXCEPT ![c].lingering = FALSE]
  /\ UNCHANGED <<normal, candidate, rule, flight, events, history, activated, head, op, bounds>>

\* The schedule is a rate: the rule fires again and again, with the proof in its target.
Fire ==
  /\ rule.exists /\ rule.proof # 0
  /\ events' = events \cup {rule.proof}
  /\ UNCHANGED <<aws, flight, history, activated, head, op, bounds>>

\* What the mutation of a stage of op does.
Effect(stage) ==
  /\ normal' = IF stage = "switch" THEN op.color ELSE normal
  /\ candidate' = IF stage = "candidate" THEN op.active ELSE candidate
  /\ service' = [service EXCEPT ![op.color] =
       CASE stage \in {"drain", "scale_zero"} -> [@ EXCEPT !.desired = 0]
         [] stage = "attach"                  -> [@ EXCEPT !.desired = 0, !.release = op.release]
         [] stage \in {"start", "scale"}      -> [@ EXCEPT !.desired = Count]
         [] OTHER                             -> @]
  /\ rule' = CASE stage = "schedule"      -> [exists |-> TRUE, proof |-> head.generation]
               [] stage = "remove_target" -> [rule EXCEPT !.proof = 0]
               [] stage = "delete_rule"   -> [rule EXCEPT !.exists = FALSE]
               [] OTHER                   -> rule

\* A call whose answer was lost takes effect, or never does.
Late ==
  /\ \E stage \in flight : Effect(stage) \/ UNCHANGED aws
  /\ flight' = {}
  /\ UNCHANGED <<events, history, activated, head, op, bounds>>

------------------------------------------------------------------------------
(* Admission and the end of an operation. *)

Free == ~ head.held /\ head.generation < MaxGeneration

\* acquire() for an operation that may schedule drops the schedule of its predecessor.
Begin(kind, release) ==
  /\ Free
  /\ head' = [generation |-> head.generation + 1, held |-> TRUE, schedule |-> 0]
  /\ op' = [op EXCEPT !.kind = kind, !.phase = "prepare", !.release = release]
  /\ UNCHANGED <<aws, flight, events, history, activated, bounds>>

\* Mutant of Current: any schedule of the past admits a cleanup.
CurrentOnce(proof) == proof <= head.generation

\* acquire() for a cleanup demands the newest schedule, and keeps it.
Current(proof) == head.schedule = proof

BeginCleanup(proof) ==
  /\ proof \in events
  /\ events' = events \ {proof}
  /\ IF Free /\ Current(proof)
     THEN /\ head' = [head EXCEPT !.generation = @ + 1, !.held = TRUE]
          /\ op' = [op EXCEPT !.kind = "cleanup", !.phase = "prepare", !.proof = proof]
     ELSE UNCHANGED <<head, op>>   \* reported as UNCERTAIN; the event is gone
  /\ UNCHANGED <<aws, flight, history, activated, bounds>>

\* Mutant of Rejected: a definitive failure always releases the environment.
RejectedReleases ==
  /\ op' = NoOperation
  /\ head' = [head EXCEPT !.held = FALSE]

\* A rejection is a definitive failure, and finish() releases the environment,
\* as long as nothing was sent.
Rejected ==
  IF op.touched
  THEN /\ op' = [op EXCEPT !.phase = "stopped"]
       /\ UNCHANGED head
  ELSE /\ op' = NoOperation
       /\ head' = [head EXCEPT !.held = FALSE]

Goto(phase) == op' = [op EXCEPT !.phase = phase] /\ UNCHANGED head

\* The worker stops, or an answer or a readback does not come in time: the
\* environment stays held.  A call that was under way was not sent, or is lost,
\* or late; a schedule may then be attached to the head, and its rule be there.
Stop ==
  /\ op.phase \notin {"stopped", "done"}
  /\ Fault
  /\ op' = [op EXCEPT !.phase = "stopped"]
  /\ \/ UNCHANGED <<flight, head, rule>>
     \/ /\ op.phase = "call"
        /\ flight' \in {{}, {Head(op.todo)}}
        /\ IF Head(op.todo) = "schedule"
           THEN /\ head' = [head EXCEPT !.schedule = head.generation]
                /\ rule' \in {rule, [rule EXCEPT !.exists = TRUE]}
           ELSE UNCHANGED <<head, rule>>
  /\ UNCHANGED <<normal, candidate, service, events, history, activated, takeovers>>

\* An operator, who has made sure that nothing is under way, ends a hold, and
\* may cancel the schedule (terraform/docs/e2-environment-mutation.md:82-86,
\* deployment.md:415-428).
Takeover ==
  /\ takeovers < MaxTakeovers
  /\ op.phase = "stopped" /\ head.held /\ flight = {}
  /\ \E schedule \in {head.schedule, 0} :
       head' = [head EXCEPT !.held = FALSE, !.schedule = schedule]
  /\ takeovers' = takeovers + 1
  /\ op' = NoOperation
  /\ UNCHANGED <<aws, flight, events, history, activated, faults>>

------------------------------------------------------------------------------
(* What an operation sees. *)

\* Application.observe: both services, with their revisions and targets.
Observation == service

\* History.current: the release of the last success of a colour.
LastSuccess(c) == history[c]

\* Observer.targets: the targets of both colours are exactly their tasks.
Matched == \A c \in Color : ~ service[c].lingering

\* A task that is pending makes it raise as well; between two attempts of ECS
\* there is none.
Pending == \E c \in Color : service[c].running < service[c].desired

\* The routes are those that the stages so far have made.
Topology ==
  LET left == { op.todo[n] : n \in DOMAIN op.todo }
      moved(stage) == op.kind # "cleanup" /\ stage \notin left
  IN  /\ normal = IF moved("switch") THEN op.color ELSE op.active
      /\ candidate = IF moved("candidate") THEN op.active ELSE op.color

\* Emergency.candidate, and prepared() of a delivery.
Selected == service[op.color].release = op.release

Healthy(c) == service[c].desired = Count /\ service[c].running = Count

\* Cleanup.safe
Safe == service[op.active].desired > 0 /\ service[op.active].running > 0

\* The fresh guard before the next stage: for an emergency and a cleanup guard()
\* and topology(); for a delivery guard_preparation, the last switch
\* observation and guard_post_switch.
EmergencyGuard ==
  /\ Matched /\ Topology /\ Selected
  /\ LastSuccess(op.color) = op.release
  /\ IF Head(op.todo) = "scale" THEN Observation[op.color] = op.seen[op.color]
                                ELSE Healthy(op.color)

CleanupGuard ==
  /\ Matched /\ Topology /\ Safe
  /\ IF Head(op.todo) = "scale_zero" THEN Observation = op.seen
                                     ELSE service[op.color].desired = 0

DeliveryGuard ==
  LET s == service[op.color] IN
  /\ Topology
  /\ CASE Head(op.todo) = "attach" -> s.desired = 0 /\ s.running = 0
       [] Head(op.todo) = "start"  -> s.desired = 0 /\ s.running = 0 /\ Selected
       [] Head(op.todo) \in {"switch", "candidate", "schedule"} -> Healthy(op.color) /\ Selected
       [] OTHER -> TRUE

Guarded == CASE op.kind = "emergency" -> EmergencyGuard
             [] op.kind = "cleanup"   -> CleanupGuard
             [] op.kind = "delivery"  -> DeliveryGuard

\* The last look before success.
Complete ==
  CASE op.kind = "cleanup" -> Matched /\ Topology /\ Safe /\ service[op.color].desired = 0
    [] op.kind = "emergency" -> /\ Matched /\ Topology /\ Selected /\ Healthy(op.color)
                                /\ LastSuccess(op.color) = op.release
    [] op.kind = "delivery"  -> Topology /\ Selected /\ Healthy(op.color)

\* Mutant of Verified: zero tasks settle a scale-down, as in the PROD packages.
VerifiedByTasks(stage) ==
  CASE stage \in {"drain", "attach", "start", "scale", "scale_zero"} ->
         service[op.color].running = service[op.color].desired
    [] OTHER -> TRUE

\* The correction of the DEV packages: a scale-down settles with the ALB too.
Deregistered(c) == Drained => ~ service[c].lingering

\* What the adapter polls for before it calls the effect of a stage APPLIED.
Verified(stage) ==
  LET s == service[op.color] IN
  CASE stage = "scale_zero"  -> s.desired = 0 /\ s.running = 0 /\ Deregistered(op.color)
    [] stage \in {"drain", "attach", "start", "scale"} -> s.running = s.desired
    [] OTHER -> TRUE

------------------------------------------------------------------------------
(* The steps of an operation. *)

\* Mutant of Inactive: the listener alone selects the colors.
InactiveUnchecked == normal \in Color

\* inactive(): the candidate rule names the colour that does not serve.
Inactive == normal # candidate

\* A look passes, or it raises: for what it sees, because a task is pending,
\* or by a fault of its own.
Look(passes, next) ==
  \/ passes /\ UNCHANGED faults /\ next
  \/ ~ passes /\ UNCHANGED faults /\ Rejected
  \/ op.kind # "delivery" /\ Pending /\ UNCHANGED faults /\ Rejected
  \/ Fault /\ Rejected

Planned(release, stages) ==
  /\ op' = [op EXCEPT !.phase = "guard", !.active = normal, !.color = candidate,
                      !.release = release, !.todo = stages, !.seen = Observation]
  /\ UNCHANGED head

PrepareDelivery ==
  /\ op.phase = "prepare" /\ op.kind = "delivery"
  /\ Look(Inactive, Planned(op.release, <<"register", "drain", "attach", "start",
                                          "switch", "candidate", "schedule">>))
  /\ UNCHANGED <<aws, flight, events, history, activated, takeovers>>

\* The history of the inactive colour is what its service still runs.
Recoverable ==
  /\ Inactive
  /\ LastSuccess(candidate) # Null
  /\ service[candidate].release = LastSuccess(candidate)
  /\ service[candidate].desired \in {0, Count}

PrepareEmergency ==
  /\ op.phase = "prepare" /\ op.kind = "emergency"
  /\ Look(Matched /\ Recoverable,
          Planned(LastSuccess(candidate),
                  (IF service[candidate].desired = 0 THEN <<"scale">> ELSE << >>)
                    \o <<"switch", "candidate", "schedule">>))
  /\ UNCHANGED <<aws, flight, events, history, activated, takeovers>>

PrepareCleanup ==
  /\ op.phase = "prepare" /\ op.kind = "cleanup"
  /\ Look(/\ Matched /\ Inactive
          /\ service[normal].desired > 0 /\ service[normal].running > 0,
          Planned(Null, (IF service[candidate].desired > 0 \/ service[candidate].running > 0
                         THEN <<"scale_zero">> ELSE << >>)
                          \o <<"remove_target", "delete_rule">>))
  /\ UNCHANGED <<aws, flight, events, history, activated, takeovers>>

\* E3 accepts the cohort that is up: this is the proof that the switch names.
Gate ==
  /\ op.phase = "e3"
  /\ Look(Healthy(op.color) /\ Selected, Goto("guard"))
  /\ activated' = IF op'.phase = "guard" THEN activated \cup {<<op.release, op.color>>} ELSE activated
  /\ UNCHANGED <<aws, flight, events, history, takeovers>>

Guard ==
  /\ op.phase = "guard"
  /\ Look(Guarded, Goto("call"))
  /\ UNCHANGED <<aws, flight, events, history, activated, takeovers>>

\* Authority.call: the mutation is acknowledged.  The two calls of a schedule
\* go through Authority.schedule, which attaches it to the head.
Call ==
  /\ op.phase = "call"
  /\ Effect(Head(op.todo))
  /\ op' = [op EXCEPT !.phase = "observe", !.touched = TRUE]
  /\ head' = IF Head(op.todo) = "schedule" THEN [head EXCEPT !.schedule = head.generation] ELSE head
  /\ UNCHANGED <<flight, events, history, activated, bounds>>

\* What follows a stage.
After(stage) ==
  CASE Len(op.todo) = 1 -> "final"
    [] op.kind = "delivery" /\ stage = "start" -> "e3"
    [] OTHER -> "guard"

Observe ==
  /\ op.phase = "observe"
  /\ Verified(Head(op.todo))
  /\ op' = [op EXCEPT !.phase = After(Head(op.todo)), !.todo = Tail(@)]
  /\ UNCHANGED <<aws, flight, events, history, activated, head, bounds>>

Final ==
  /\ op.phase = "final"
  /\ Look(Complete, Goto(IF op.kind = "delivery" THEN "publish" ELSE "finish"))
  /\ UNCHANGED <<aws, flight, events, history, activated, takeovers>>

\* History.publish, within the grant.
Publish ==
  /\ op.phase = "publish"
  /\ history' = [history EXCEPT ![op.color] = op.release]
  /\ Goto("finish")
  /\ UNCHANGED <<aws, flight, events, activated, bounds>>

\* finish() after a success; a cleanup's consumes the schedule.
Finish ==
  /\ op.phase = "finish"
  /\ op' = NoOperation
  /\ head' = [head EXCEPT !.held = FALSE, !.schedule = IF op.kind = "cleanup" THEN 0 ELSE @]
  /\ UNCHANGED <<aws, flight, events, history, activated, bounds>>

------------------------------------------------------------------------------

Prepare == PrepareDelivery \/ PrepareEmergency \/ PrepareCleanup

Work == Prepare \/ Gate \/ Guard \/ Call \/ Observe \/ Final \/ Publish \/ Finish

Deliver(release) == Begin("delivery", release)
Recover          == Begin("emergency", Null)

Next ==
  \/ \E c \in Color : TaskStarts(c) \/ TaskStops(c) \/ TaskLost(c) \/ TargetGone(c)
  \/ Fire \/ Late
  \/ \E release \in Releases : Deliver(release)
  \/ Recover
  \/ \E proof \in events : BeginCleanup(proof)
  \/ Work \/ Stop \/ Takeover

Spec == Init /\ [][Next]_vars

\* ECS converges, the ALB deregisters, the rule fires, its events are handled,
\* and a worker that has not stopped goes on.
FairSpec ==
  /\ Spec
  /\ \A c \in Color : WF_vars(TaskStarts(c)) /\ WF_vars(TaskStops(c)) /\ WF_vars(TargetGone(c))
  /\ WF_vars(Fire) /\ WF_vars(Work)
  /\ \A proof \in Proof : WF_vars(BeginCleanup(proof))

------------------------------------------------------------------------------
(* Correctness. *)

TypeOK ==
  /\ normal \in Color /\ candidate \in Color
  /\ service \in [Color -> [release : Releases \cup {Null}, desired : 0 .. Count,
                            running : 0 .. Count, lingering : BOOLEAN]]
  /\ rule \in [exists : BOOLEAN, proof : Proof]
  /\ flight \subseteq Stage
  /\ events \subseteq Proof
  /\ history \in [Color -> Releases \cup {Null}]
  /\ activated \subseteq Releases \X Color
  /\ head \in [generation : Proof, held : BOOLEAN, schedule : Proof]
  /\ op \in Operation
  /\ faults \in 0 .. MaxFaults /\ takeovers \in 0 .. MaxTakeovers

\* The colour that serves is told to run all its replicas, of a release that
\* passed E3 in that colour: no cleanup, late call or emergency after a
\* delivery that was broken off takes it down or puts traffic on anything else.  In
\* states of the right type.
ServesActivated ==
  /\ TypeOK
  /\ service[normal].desired = Count
  /\ <<service[normal].release, normal>> \in activated

\* Whenever the environment is free, and no operator has cut a hold short, an
\* emergency has what it needs: two distinct routes, and on the other colour
\* the very release, and the count, of its last published success.
EmergencyPossible ==
  ~ head.held /\ takeovers = 0 =>
    /\ Inactive
    /\ history[candidate] # Null => Recoverable

\* The installed schedule is removed by the cleanup that it started, never by
\* the event of an earlier one.
RemovesOwnSchedule ==
  [][rule.proof # 0 /\ rule'.proof = 0 => op.proof = rule.proof]_vars

\* A schedule whose operation is over is cleaned up: the other colour ends at
\* zero and the schedule is consumed, unless another operation takes the
\* environment, or something goes wrong.
Scheduled(proof) == head.schedule = proof /\ ~ head.held /\ faults = 0

ScheduledIsCleaned ==
  \A proof \in Proof \ {0} :
    Scheduled(proof) ~>
      \/ head.schedule # proof
      \/ faults > 0 \/ head.generation = MaxGeneration
=============================================================================
