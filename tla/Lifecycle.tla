------------------------------- MODULE Lifecycle -------------------------------
(***************************************************************************)
(* One layer of a protected environment (scripts/lifecycle): a gateway      *)
(* records a request and starts a build; the build finds its request by its *)
(* own id, and plans, or runs a create or a teardown under E2: a validated  *)
(* saved plan, a retained intent, one terraform apply, an independent       *)
(* readback, a completion.  A public record tells the client the result.    *)
(*                                                                         *)
(* Every record is a create-only S3 key, and every call can be lost: the    *)
(* put or the call has its effect or not, and its caller raises.  E2 is the *)
(* holder of its head and the terminals (MutationAuthority); deliveries     *)
(* compete for it, and only they start tasks.                               *)
(***************************************************************************)
EXTENDS Naturals

CONSTANTS
  Operations,  \* operation UUIDs
  KindOf,      \* what each asks for
  MaxGateways, \* bound on invocations of the gateway
  MaxBuilds,   \* bound on the builds CodeBuild starts
  MaxFaults,   \* bound on lost calls and crashes
  None

Kinds  == {"plan", "create", "teardown"}
Gateways == 1..MaxGateways        \* in the order in which they begin
Builds   == 1..MaxBuilds
Delivery == 0                     \* the other owner of E2

ASSUME LifecycleAssumption ==
  /\ KindOf \in [Operations -> Kinds]
  /\ {MaxGateways, MaxBuilds, MaxFaults} \subseteq Nat
  /\ None \notin Operations /\ None \notin Nat
  /\ None \notin {"PLANNED", "UNKNOWN", "SUCCESS"}

VARIABLES
  environment, \* "dev" or "prod"
  active,      \* whether the configuration has the contract and the approvals
  gateway,     \* each invocation: where it is, its operation and its build
  request,     \* operations with a request record
  mapping,     \* the operation of each build, in builds/<id>
  intent,      \* the intent record: none, PLANNED or UNKNOWN
  completed,   \* operations with a completed record
  public,      \* the public record of each operation
  holder,      \* who is ACTIVE in E2
  terminal,    \* operations with a SUCCESS terminal in E2
  build,       \* each build: where it is, its operation and result, the state
               \* its plan was made for, whether it touched anything
  infra,       \* what there is of the layer
  serial,      \* the serial of its Terraform state
  tasks,       \* whether tasks run on it
  faults

install == <<environment, active>>
gate    == <<gateway, request>>
records == <<intent, completed, public>>
e2      == <<holder, terminal>>
layer   == <<infra, serial, tasks>>
vars    == <<install, gate, mapping, records, e2, build, layer, faults>>

Init ==
  /\ environment \in {"dev", "prod"} /\ active = TRUE
  /\ gateway = [g \in Gateways |-> [pc |-> "idle", op |-> None, id |-> None]]
  /\ request = {}
  /\ mapping = [b \in Builds |-> None]
  /\ intent = [o \in Operations |-> None] /\ completed = {}
  /\ public = [o \in Operations |-> None]
  /\ holder = None /\ terminal = {}
  /\ build = [b \in Builds |-> [pc |-> "unused", op |-> None, result |-> None,
                                base |-> 0, touched |-> FALSE]]
  /\ infra \in {"absent", "present"} /\ serial = 0 /\ tasks = FALSE
  /\ faults = 0
-----------------------------------------------------------------------------
(* Others.                                                                  *)

Deactivate ==
  /\ active /\ active' = FALSE
  /\ UNCHANGED <<environment, gate, mapping, records, e2, build, layer, faults>>

DeliveryBegins ==
  /\ holder = None /\ holder' = Delivery
  /\ UNCHANGED <<install, gate, mapping, records, terminal, build, layer, faults>>

\* It starts tasks, or stops them all, while it owns the environment.
DeliveryScales ==
  /\ holder = Delivery /\ infra = "present"
  /\ tasks' = ~tasks
  /\ UNCHANGED <<install, gate, mapping, records, e2, build, infra, serial, faults>>

DeliveryEnds ==
  /\ holder = Delivery /\ holder' = None
  /\ UNCHANGED <<install, gate, mapping, records, terminal, build, layer, faults>>
-----------------------------------------------------------------------------
(* The gateway.                                                             *)

\* Both exact package versions are read back, of an active contract.
Installed == active

\* contract.authorize: the binding, the layer, its prerequisites, and for a
\* high-risk operation the approval of this request, by the configuration read.
Authorized == active

GatewayTo(g, pc) == gateway' = [gateway EXCEPT ![g].pc = pc]

\* The caller's raise, with or without the effect of the call.
Fault == faults < MaxFaults /\ faults' = faults + 1

GatewayBegin(g, o) ==
  /\ gateway[g].pc = "idle" /\ \A h \in 1..(g - 1) : gateway[h].pc # "idle"
  /\ Installed /\ Authorized
  /\ gateway' = [gateway EXCEPT ![g] = [@ EXCEPT !.pc = "check", !.op = o]]
  /\ UNCHANGED <<install, request, mapping, records, e2, build, layer, faults>>

\* A known operation is answered UNKNOWN, whatever it was requested with.
GatewayCheck(g) ==
  /\ gateway[g].pc = "check"
  /\ GatewayTo(g, IF gateway[g].op \in request THEN "UNKNOWN" ELSE "put")
  /\ UNCHANGED <<install, request, mapping, records, e2, build, layer, faults>>

\* Mutant: the record is written whether there is one or not.
GatewayPutAnyway(g) ==
  /\ gateway[g].pc = "put"
  /\ request' = request \cup {gateway[g].op}
  /\ GatewayTo(g, "start")
  /\ UNCHANGED <<install, mapping, records, e2, build, layer, faults>>

GatewayPut(g) ==
  /\ gateway[g].pc = "put" /\ gateway[g].op \notin request
  /\ request' = request \cup {gateway[g].op}
  /\ \/ GatewayTo(g, "start") /\ UNCHANGED faults
     \/ GatewayTo(g, "raised") /\ Fault
  /\ UNCHANGED <<install, mapping, records, e2, build, layer>>

GatewayStart(g) ==
  /\ gateway[g].pc = "start"
  /\ \E b \in Builds :
       /\ build[b].pc = "unused" /\ \A c \in 1..(b - 1) : build[c].pc # "unused"
       /\ build' = [build EXCEPT ![b].pc = "begin"]
       /\ \/ /\ gateway' = [gateway EXCEPT ![g] = [@ EXCEPT !.pc = "map", !.id = b]]
             /\ UNCHANGED faults
          \/ GatewayTo(g, "raised") /\ Fault
  /\ UNCHANGED <<install, request, mapping, records, e2, layer>>

GatewayMap(g) ==
  /\ gateway[g].pc = "map"
  /\ mapping' = [mapping EXCEPT ![gateway[g].id] = gateway[g].op]
  /\ \/ GatewayTo(g, "STARTED") /\ UNCHANGED faults
     \/ GatewayTo(g, "raised") /\ Fault
  /\ UNCHANGED <<install, request, records, e2, build, layer>>

\* The put finds another's record: it raises.
GatewayLoses(g) ==
  /\ gateway[g].pc = "put" /\ gateway[g].op \in request
  /\ GatewayTo(g, "raised")
  /\ UNCHANGED <<install, request, mapping, records, e2, build, layer, faults>>

GatewayFails(g) ==
  /\ gateway[g].pc \in {"check", "put", "start", "map"} /\ Fault
  /\ GatewayTo(g, "raised")
  /\ UNCHANGED <<install, request, mapping, records, e2, build, layer>>
-----------------------------------------------------------------------------
(* The build.                                                               *)

Op(b)   == build[b].op
Kind(b) == KindOf[Op(b)]
At(b, pc) == build[b].pc = pc
To(b, pc) == build' = [build EXCEPT ![b].pc = pc]
Result(b, pc, state) == build' = [build EXCEPT ![b].pc = pc, ![b].result = state]

BuildBegins(b) ==
  /\ At(b, "begin") /\ To(b, IF Installed /\ Authorized THEN "waiting" ELSE "dead")
  /\ UNCHANGED <<install, gate, mapping, records, e2, layer, faults>>

BuildFinds(b) ==
  /\ At(b, "waiting") /\ mapping[b] # None
  /\ build' = [build EXCEPT ![b].pc = "read", ![b].op = mapping[b]]
  /\ UNCHANGED <<install, gate, mapping, records, e2, layer, faults>>

\* Mutant: it looks once.
GivesUpAtOnce(b) ==
  /\ At(b, "waiting") /\ mapping[b] = None
  /\ To(b, "dead")
  /\ UNCHANGED <<install, gate, mapping, records, e2, layer, faults>>

\* A hundred looks, 0.25 seconds apart, outlast a gateway that goes on; one that is
\* slower is as if the build had died while it was waiting.
BuildGivesUp(b) ==
  /\ At(b, "waiting") /\ mapping[b] = None
  /\ \A g \in Gateways : ~(gateway[g].pc = "map" /\ gateway[g].id = b)
  /\ To(b, "dead")
  /\ UNCHANGED <<install, gate, mapping, records, e2, layer, faults>>

\* Records.read: the completion, or else the intent.
Retained(o) == IF o \in completed THEN "SUCCESS" ELSE intent[o]

BuildReads(b) ==
  /\ At(b, "read")
  /\ IF Retained(Op(b)) # None THEN Result(b, "publish", Retained(Op(b)))
     ELSE To(b, IF Kind(b) = "plan" THEN "plan" ELSE "acquire")
  /\ UNCHANGED <<install, gate, mapping, records, e2, layer, faults>>

\* arbitrate: the terminal there is, or the grant, or UNKNOWN.
Acquire(b) ==
  /\ At(b, "acquire")
  /\ CASE Op(b) \in terminal -> Result(b, "publish", "SUCCESS") /\ UNCHANGED <<holder, faults>>
       [] Op(b) \notin terminal /\ holder = None ->
            /\ holder' = b
            /\ \/ To(b, "plan") /\ UNCHANGED faults
               \/ Result(b, "publish", "UNKNOWN") /\ Fault
       [] OTHER -> Result(b, "publish", "UNKNOWN") /\ UNCHANGED <<holder, faults>>
  /\ UNCHANGED <<install, gate, mapping, records, terminal, layer>>

\* Terraform.observe: a missing cluster has no services and no tasks.
Observed == infra # "absent" /\ tasks

\* contract.quiescent of it.
Quiet == ~Observed

\* contract.validate_plan: a teardown only deletes, what is quiet.
Admitted(b) == Kind(b) = "teardown" => Quiet

\* Controller.run up to the plan: it is saved for the state it was made for.
Plan(b) ==
  /\ At(b, "plan") /\ Retained(Op(b)) = None
  /\ Admitted(b)
  /\ build' = [build EXCEPT ![b].pc = "intent", ![b].base = serial]
  /\ UNCHANGED <<install, gate, mapping, records, e2, layer, faults>>

\* What raises before the intent: E2 stays held.
Refused(b) ==
  /\ At(b, "plan")
  /\ Retained(Op(b)) # None \/ ~Admitted(b)
  /\ To(b, "dead")
  /\ UNCHANGED <<install, gate, mapping, records, e2, layer, faults>>

Intent(b) ==
  /\ At(b, "intent") /\ intent[Op(b)] = None
  /\ LET state == IF Kind(b) = "plan" THEN "PLANNED" ELSE "UNKNOWN"
     IN /\ intent' = [intent EXCEPT ![Op(b)] = state]
        /\ \/ /\ Result(b, IF Kind(b) = "plan" THEN "publish" ELSE "apply", state)
              /\ UNCHANGED faults
           \/ To(b, "dead") /\ Fault
  /\ UNCHANGED <<install, gate, mapping, completed, public, e2, layer>>

\* Authority.call: the owner is read again, and what follows has touched it.
Apply(b) ==
  /\ At(b, "apply")
  /\ IF holder = b /\ Admitted(b)
     THEN build' = [build EXCEPT ![b].pc = "terraform", ![b].touched = TRUE]
     ELSE To(b, "publish")
  /\ UNCHANGED <<install, gate, mapping, records, e2, layer, faults>>

\* The combined guard of one DEV layer has no whole DOWN to belong to: it denies.
Denied(b) == environment = "dev" /\ Kind(b) = "teardown"

\* A plan made for another state of the layer is refused by terraform.
Sealed(b) == build[b].base = serial

Target(b) == IF Kind(b) = "teardown" THEN "absent" ELSE "present"

Terraform(b) ==
  /\ At(b, "terraform")
  /\ IF Denied(b) \/ ~Sealed(b) THEN To(b, "publish") /\ UNCHANGED layer
     ELSE \/ /\ infra' = Target(b) /\ serial' = serial + 1
             /\ tasks' = (tasks /\ Kind(b) # "teardown")
             /\ To(b, "verify")
          \/ /\ infra' = "partial" /\ serial' = serial + 1
             /\ tasks' = (tasks /\ Kind(b) # "teardown")
             /\ To(b, "publish")
          \/ To(b, "publish") /\ UNCHANGED layer
  /\ UNCHANGED <<install, gate, mapping, records, e2, faults>>

\* A refreshed plan has nothing to do, and after a teardown no managed resource.
Readback(b) == infra = Target(b)

\* Terraform.verify: an independent readback, not the exit code.
Verify(b) ==
  /\ At(b, "verify")
  /\ To(b, IF Readback(b) /\ Admitted(b) THEN "complete" ELSE "publish")
  /\ UNCHANGED <<install, gate, mapping, records, e2, layer, faults>>

Complete(b) ==
  /\ At(b, "complete")
  /\ completed' = completed \cup {Op(b)}
  /\ \/ Result(b, "finish", "SUCCESS") /\ UNCHANGED faults
     \/ To(b, "dead") /\ Fault
  /\ UNCHANGED <<install, gate, mapping, intent, public, e2, layer>>

\* Authority.finish of a SUCCESS; an UNKNOWN leaves the environment held.
FinishTerminal(b) ==
  /\ At(b, "finish") /\ holder = b
  /\ terminal' = terminal \cup {Op(b)}
  /\ To(b, "release")
  /\ UNCHANGED <<install, gate, mapping, records, holder, layer, faults>>

Release(b) ==
  /\ At(b, "release") /\ holder = b
  /\ holder' = None
  /\ To(b, "publish")
  /\ UNCHANGED <<install, gate, mapping, records, terminal, layer, faults>>

\* Mutant: whatever became of it, the environment is released.
PublishReleased(b) ==
  /\ At(b, "publish")
  /\ public' = [public EXCEPT ![Op(b)] = IF @ = None THEN build[b].result ELSE @]
  /\ holder' = IF holder = b THEN None ELSE holder
  /\ To(b, "done")
  /\ UNCHANGED <<install, gate, mapping, intent, completed, terminal, layer, faults>>

\* The public record: created, or the same one already there.
Publish(b) ==
  /\ At(b, "publish") /\ public[Op(b)] \in {None, build[b].result}
  /\ public' = [public EXCEPT ![Op(b)] = build[b].result]
  /\ \/ To(b, "done") /\ UNCHANGED faults
     \/ To(b, "dead") /\ Fault
  /\ UNCHANGED <<install, gate, mapping, intent, completed, e2, layer>>

\* Anything raised, or the end of the build's host.
Dies(b) ==
  /\ build[b].pc \notin {"unused", "done", "dead"} /\ Fault
  /\ To(b, "dead")
  /\ UNCHANGED <<install, gate, mapping, records, e2, layer>>
-----------------------------------------------------------------------------
Gateway(g) == \/ \E o \in Operations : GatewayBegin(g, o)
              \/ GatewayCheck(g) \/ GatewayPut(g) \/ GatewayStart(g) \/ GatewayMap(g)
              \/ GatewayLoses(g) \/ GatewayFails(g)

Build(b) == \/ BuildBegins(b) \/ BuildFinds(b) \/ BuildGivesUp(b) \/ BuildReads(b)
            \/ Acquire(b) \/ Plan(b) \/ Refused(b) \/ Intent(b) \/ Apply(b) \/ Terraform(b)
            \/ Verify(b) \/ Complete(b) \/ FinishTerminal(b) \/ Release(b) \/ Publish(b)

Others == Deactivate \/ DeliveryBegins \/ DeliveryScales \/ DeliveryEnds

Next == Others \/ (\E g \in Gateways : Gateway(g)) \/ (\E b \in Builds : Build(b) \/ Dies(b))

\* Lambda and CodeBuild run what was started to its end.
Fairness == /\ \A g \in Gateways : WF_vars(GatewayCheck(g) \/ GatewayPut(g) \/ GatewayStart(g)
                                            \/ GatewayMap(g) \/ GatewayLoses(g))
            /\ \A b \in Builds : WF_vars(Build(b))

Spec     == Init /\ [][Next]_vars
FairSpec == Spec /\ Fairness
-----------------------------------------------------------------------------
TypeOK ==
  /\ environment \in {"dev", "prod"} /\ active \in BOOLEAN
  /\ gateway \in [Gateways ->
       [pc : {"idle", "check", "put", "start", "map", "UNKNOWN", "STARTED", "raised"},
        op : Operations \cup {None}, id : Builds \cup {None}]]
  /\ request \subseteq Operations
  /\ mapping \in [Builds -> Operations \cup {None}]
  /\ intent \in [Operations -> {None, "PLANNED", "UNKNOWN"}]
  /\ completed \subseteq Operations
  /\ public \in [Operations -> {None, "PLANNED", "UNKNOWN", "SUCCESS"}]
  /\ holder \in Builds \cup {None, Delivery} /\ terminal \subseteq Operations
  /\ build \in [Builds ->
       [pc : {"unused", "begin", "waiting", "read", "acquire", "plan", "intent", "apply", "terraform",
              "verify", "complete", "finish", "release", "publish", "done", "dead"},
        op : Operations \cup {None}, result : {None, "PLANNED", "UNKNOWN", "SUCCESS"},
        base : Nat, touched : BOOLEAN]]
  /\ infra \in {"absent", "present", "partial"} /\ serial \in Nat /\ tasks \in BOOLEAN
  /\ faults \in 0..MaxFaults

\* An operation that touched the layer has ended well, or it still holds the
\* environment: a lost answer, a partial apply or a death at any point neither
\* lets another in nor is told as SUCCESS (runtime.py:300-322,
\* controller.py:41-55, environment_mutation.py:212-217).  In states of the
\* right type.
HeldUnlessDone ==
  /\ TypeOK
  /\ \A b \in Builds : build[b].touched =>
       holder = b \/ (Op(b) \in completed /\ Op(b) \in terminal)
  /\ \A b \in Builds : build[b].pc \in {"finish", "release"} => infra = Target(b)
  /\ \A o \in Operations : public[o] = "SUCCESS" => o \in completed /\ o \in terminal

\* The layer changes only by a build that holds E2, has retained its intent and
\* not completed, and is the only one that can find the request; a teardown
\* finds no task (controller.py:36-49, runtime.py:91-107, 259-284).
ChangedAsRequested ==
  [][serial' # serial =>
       \E b \in Builds :
         /\ holder = b /\ intent[Op(b)] = "UNKNOWN" /\ Op(b) \notin completed
         /\ \A c \in Builds \ {b} : mapping[c] # Op(b)
         /\ Kind(b) = "teardown" => Quiet]_vars

\* A request that was recorded is answered in public, whatever is lost of others'
\* requests, unless no gateway that had it could tell of its start, its own build
\* died or refused it, or the contract was deactivated (runtime.py:279-322).  A
\* build that had to look for its request longer than it may look is not excused.
Answered ==
  \A o \in Operations :
    o \in request ~>
      \/ public[o] # None \/ ~active
      \/ \A g \in Gateways : gateway[g].op = o => gateway[g].pc \in {"raised", "UNKNOWN"}
      \/ \E b \in Builds : build[b].pc = "dead" /\ (Op(b) = o \/ (faults > 0 /\ mapping[b] = o))
=============================================================================
