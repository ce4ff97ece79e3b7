-------------------------- MODULE MutationAuthority --------------------------
(***************************************************************************)
(* E2 environment mutation ownership: scripts/environment_mutation.py.     *)
(*                                                                         *)
(* One conflict domain (dev or prod, "application") is one versioned S3    *)
(* object, the head.  An invocation of an installed controller runs        *)
(* execute(): it looks for the terminal of its operation, acquires the     *)
(* head with a compare-and-swap, runs the body, whose every AWS mutation   *)
(* goes through Authority.call, and finishes.                              *)
(*                                                                         *)
(* A conditional put is sent once (the SDK has total_max_attempts = 1) and *)
(* its acknowledgement proves nothing: the put is a message that lands or  *)
(* is lost at any later moment, and the caller settles by one exact read   *)
(* which may run before the put lands, after it, or fail.  A mutation of   *)
(* ECS, the ALB or EventBridge is a message too.  Invocations interleave   *)
(* between any two storage or AWS operations, and may crash.               *)
(*                                                                         *)
(* Abstractions.  The ETag of the head is its content: heads are canonical *)
(* JSON and the module compares bytes.  An operation stands for its UUID   *)
(* together with its binding, as in the key of its terminal.  The binding  *)
(* "delivery" stands for normal-delivery/* and emergency-recovery/*, the   *)
(* bindings that may schedule.  Status UNKNOWN is written UNCERTAIN: the   *)
(* code treats them alike.  The time limit of an operation only forbids a  *)
(* call that was already checked (CallExpires).                            *)
(***************************************************************************)
EXTENDS Naturals

CONSTANTS
  Invocations,   \* invocations of the installed controllers; also the owner UUIDs
  Operations,    \* logical operations
  Requests,      \* request digests
  OperationOf,   \* the operation an invocation was started for
  RequestOf,     \* the request an invocation was started with
  BindingOf,     \* the binding of an operation
  MaxGeneration, \* 2^63 - 1 in the code
  Null           \* JSON null

Bindings == {"delivery", "cleanup", "lifecycle"}

ASSUME AuthorityAssumption ==
  /\ OperationOf \in [Invocations -> Operations]
  /\ RequestOf \in [Invocations -> Requests]
  /\ BindingOf \in [Operations -> Bindings]
  /\ MaxGeneration \in Nat
  /\ Null \notin Invocations \cup Operations \cup Requests

Generations == 0 .. MaxGeneration

\* The proof a delivery attaches to the cleanup schedule it installs.
Proofs == [generation : Generations, operation : Operations]

Heads == [generation : Generations,
          state      : {"ACTIVE", "RELEASED"},
          owner      : Invocations \cup {Null},
          operation  : Operations \cup {Null},
          request    : Requests \cup {Null},
          schedule   : Proofs \cup {Null}]

Terminals == [request    : Requests,
              generation : Generations,
              status     : {"SUCCESS", "FAILURE"}]

\* JSON null is not an object.
ASSUME NullAssumption == Null \notin Terminals

HeadWrites     == [by : Invocations, expected : Heads, value : Heads]
TerminalWrites == [operation : Operations, value : Terminals]
Mutations      == [by : Invocations, generation : Generations, proof : Proofs \cup {Null}]

VARIABLES
  head,           \* the stored ownership object
  terminals,      \* the stored terminal of each operation, or Null
  headWrites,     \* conditional puts of the head that have not landed
  terminalWrites, \* conditional puts of terminals that have not landed
  mutations,      \* AWS mutations issued and not yet applied or lost
  landed,         \* generation of the newest mutation that took effect
  target,         \* the proof in the installed EventBridge target, or Null
  events,         \* the proof carried by the event of a cleanup operation, or Null
  activation,     \* generation of the newest admission that is not a cleanup
  pc,             \* where each invocation is in execute()
  value,          \* Authority.value; while acquiring, the value being written
  touched,        \* Authority.touched
  result          \* the status the body returned, then what execute() reported

stored  == <<head, terminals>>
network == <<headWrites, terminalWrites, mutations>>
world   == <<landed, target, events, activation>>
local   == <<pc, value, touched, result>>
vars    == <<stored, network, world, local>>

Cleanup(i) == BindingOf[OperationOf[i]] = "cleanup"

Init ==
  /\ head = [generation |-> 0, state |-> "RELEASED", owner |-> Null,
             operation |-> Null, request |-> Null, schedule |-> Null]
  /\ terminals = [o \in Operations |-> Null]
  /\ headWrites = {}
  /\ terminalWrites = {}
  /\ mutations = {}
  /\ landed = 0
  /\ target = Null
  /\ events = [o \in Operations |-> Null]
  /\ activation = 0
  /\ pc = [i \in Invocations |-> "idle"]
  /\ value = [i \in Invocations |-> Null]
  /\ touched = [i \in Invocations |-> FALSE]
  /\ result = [i \in Invocations |-> "none"]

------------------------------------------------------------------------------
(* Storage, AWS and the schedule. *)

\* An admission is the change of the head from RELEASED to ACTIVE.
Admits(old, new) == old.state = "RELEASED" /\ new.state = "ACTIVE"

\* A put of the head lands: IfMatch holds and the object is replaced, or it is refused.
LandHead(w) ==
  /\ w \in headWrites
  /\ headWrites' = headWrites \ {w}
  /\ head' = IF head = w.expected THEN w.value ELSE head
  /\ activation' = IF head = w.expected /\ Admits(head, w.value) /\ ~ Cleanup(w.by)
                   THEN w.value.generation ELSE activation
  /\ UNCHANGED <<terminals, terminalWrites, mutations, landed, target, events, local>>

LoseHead(w) ==
  /\ w \in headWrites
  /\ headWrites' = headWrites \ {w}
  /\ UNCHANGED <<stored, terminalWrites, mutations, world, local>>

\* A put of a terminal lands: IfNoneMatch "*" admits only the first.
LandTerminal(w) ==
  /\ w \in terminalWrites
  /\ terminalWrites' = terminalWrites \ {w}
  /\ terminals' = [terminals EXCEPT ![w.operation] = IF @ = Null THEN w.value ELSE @]
  /\ UNCHANGED <<head, headWrites, mutations, world, local>>

LoseTerminal(w) ==
  /\ w \in terminalWrites
  /\ terminalWrites' = terminalWrites \ {w}
  /\ UNCHANGED <<stored, headWrites, mutations, world, local>>

\* A mutation takes effect; one that installs a target replaces the proof in it.
LandMutation(m) ==
  /\ m \in mutations
  /\ mutations' = mutations \ {m}
  /\ landed' = m.generation
  /\ target' = IF m.proof = Null THEN target ELSE m.proof
  /\ UNCHANGED <<stored, headWrites, terminalWrites, events, activation, local>>

LoseMutation(m) ==
  /\ m \in mutations
  /\ mutations' = mutations \ {m}
  /\ UNCHANGED <<stored, headWrites, terminalWrites, world, local>>

\* The schedule fires: the event of cleanup operation o carries the installed
\* proof.  It may be delivered late and more than once (see Retained).
Fire(o) ==
  /\ BindingOf[o] = "cleanup"
  /\ events[o] = Null
  /\ target # Null
  /\ events' = [events EXCEPT ![o] = target]
  /\ UNCHANGED <<stored, network, landed, target, activation, local>>

------------------------------------------------------------------------------
(* execute() and Authority.  Every read of S3 may also fail. *)

Report(i, status) ==
  /\ pc' = [pc EXCEPT ![i] = "done"]
  /\ result' = [result EXCEPT ![i] = status]

Continue(i, at) ==
  /\ pc' = [pc EXCEPT ![i] = at]
  /\ UNCHANGED result

\* _check(): the exact read of the head before anything the owner does.
Owns(i) == head = value[i] /\ head.state = "ACTIVE"

\* A cleanup invocation exists once its event does; a second invocation of the
\* same operation is a retried or duplicated event.  A terminal of another
\* request is refused like a failed read.
Retained(i) ==
  /\ pc[i] = "idle"
  /\ Cleanup(i) => events[OperationOf[i]] # Null
  /\ LET terminal == terminals[OperationOf[i]]
     IN  \/ terminal = Null /\ Continue(i, "retained")
         \/ terminal # Null /\ terminal.request = RequestOf[i] /\ Report(i, terminal.status)
         \/ Report(i, "UNCERTAIN")
  /\ UNCHANGED <<stored, network, world, value, touched>>

\* Mutant: the proof in the event is not compared with the schedule of the head.
AdmissibleUnscheduled(i, prior) ==
  /\ prior.state = "RELEASED"
  /\ prior.operation # OperationOf[i]
  /\ prior.generation < MaxGeneration

\* Mutant: the state of the head is not looked at.
AdmissibleWhileActive(i, prior) ==
  /\ prior.operation # OperationOf[i]
  /\ Cleanup(i) => prior.schedule = events[OperationOf[i]] /\ prior.schedule # Null
  /\ prior.generation < MaxGeneration

Admissible(i, prior) ==
  /\ prior.state = "RELEASED"
  /\ prior.operation # OperationOf[i]
  /\ Cleanup(i) => prior.schedule = events[OperationOf[i]] /\ prior.schedule # Null
  /\ prior.generation < MaxGeneration

Granted(i, prior) ==
  [generation |-> prior.generation + 1,
   state      |-> "ACTIVE",
   owner      |-> i,
   operation  |-> OperationOf[i],
   request    |-> RequestOf[i],
   schedule   |-> IF Cleanup(i) THEN prior.schedule ELSE Null]

Acquire(i) ==
  /\ pc[i] = "retained"
  /\ \/ /\ Admissible(i, head)
        /\ headWrites' = headWrites \cup
             {[by |-> i, expected |-> head, value |-> Granted(i, head)]}
        /\ value' = [value EXCEPT ![i] = Granted(i, head)]
        /\ Continue(i, "acquiring")
     \/ /\ Report(i, "UNCERTAIN")
        /\ UNCHANGED <<headWrites, value>>
  /\ UNCHANGED <<stored, terminalWrites, mutations, world, touched>>

\* The exact read that settles the put.
AcquireRead(i) ==
  /\ pc[i] = "acquiring"
  /\ \/ head = value[i] /\ Continue(i, "owner")
     \/ Report(i, "UNCERTAIN")
  /\ UNCHANGED <<stored, network, world, value, touched>>

\* Authority.call: the ownership read, and then the function it guards.
Call(i) ==
  /\ \/ pc[i] = "owner" /\ Continue(i, "calling")
     \/ pc[i] = "scheduled" /\ Continue(i, "targeting")
  /\ Owns(i)
  /\ touched' = [touched EXCEPT ![i] = TRUE]
  /\ UNCHANGED <<stored, network, world, value>>

\* put_targets carries the proof; every other mutation carries none.
Dispatch(i) ==
  /\ pc[i] \in {"calling", "targeting"}
  /\ \E proof \in {Null} \cup (IF pc[i] = "targeting" THEN {value[i].schedule} ELSE {}) :
       mutations' = mutations \cup
         {[by |-> i, generation |-> value[i].generation, proof |-> proof]}
  /\ Continue(i, "owner")
  /\ UNCHANGED <<stored, headWrites, terminalWrites, world, value, touched>>

CallExpires(i) ==
  /\ pc[i] \in {"calling", "targeting"}
  /\ Continue(i, "owner")
  /\ UNCHANGED <<stored, network, world, value, touched>>

ScheduleProof(i) == [generation |-> value[i].generation, operation |-> value[i].operation]

Scheduled(i) == [value[i] EXCEPT !.schedule = ScheduleProof(i)]

Schedule(i) ==
  /\ pc[i] = "owner"
  /\ BindingOf[OperationOf[i]] = "delivery"
  /\ Owns(i)
  /\ IF Scheduled(i) = value[i]
     THEN Continue(i, "scheduled") /\ UNCHANGED headWrites
     ELSE /\ headWrites' = headWrites \cup
               {[by |-> i, expected |-> head, value |-> Scheduled(i)]}
          /\ Continue(i, "scheduling")
  /\ UNCHANGED <<stored, terminalWrites, mutations, world, value, touched>>

ScheduleRead(i) ==
  /\ pc[i] = "scheduling"
  /\ \/ /\ head = Scheduled(i)
        /\ value' = [value EXCEPT ![i] = head]
        /\ Continue(i, "scheduled")
     \/ /\ Continue(i, "owner")
        /\ UNCHANGED value
  /\ UNCHANGED <<stored, network, world, touched>>

\* Mutant: the body reports SUCCESS with mutations in flight.
SettledUnproven(i) == TRUE

\* The body returns.  It reports SUCCESS only when each mutation it issued has
\* been observed to have taken effect, which is the contract of the journals
\* (scripts/recovery/journal.py, scripts/normal_delivery/delivery.py); every
\* other status may leave mutations in flight.  finish() then keeps the
\* ownership, or makes its first put.
Settled(i) == \A m \in mutations : m.by # i

Terminal(i, status) ==
  [request |-> RequestOf[i], generation |-> value[i].generation, status |-> status]

Released(i, successful) ==
  [value[i] EXCEPT !.state = "RELEASED",
                   !.schedule = IF Cleanup(i) /\ successful THEN Null ELSE @]

ReleasePut(i, successful) ==
  headWrites' = headWrites \cup
    {[by |-> i, expected |-> value[i], value |-> Released(i, successful)]}

\* finish() returns at once and the domain stays ACTIVE.
FinishHeld(i, status) ==
  /\ pc[i] = "owner"
  /\ status = "UNCERTAIN" \/ (touched[i] /\ status # "SUCCESS")
  /\ Report(i, status)
  /\ UNCHANGED <<stored, network, world, value, touched>>

FinishTerminal(i, status) ==
  /\ pc[i] = "owner"
  /\ status = "FAILURE" => ~ touched[i]
  /\ status = "SUCCESS" => Settled(i)
  /\ Owns(i)
  /\ terminalWrites' = terminalWrites \cup
       {[operation |-> OperationOf[i], value |-> Terminal(i, status)]}
  /\ pc' = [pc EXCEPT ![i] = "settling"]
  /\ result' = [result EXCEPT ![i] = status]
  /\ UNCHANGED <<stored, headWrites, mutations, world, value, touched>>

\* Mutant: an owner that touched the environment is released like a plan.
FinishPlannedTouched(i) ==
  /\ pc[i] = "owner"
  /\ Owns(i)
  /\ ReleasePut(i, FALSE)
  /\ pc' = [pc EXCEPT ![i] = "releasing"]
  /\ result' = [result EXCEPT ![i] = "PLANNED"]
  /\ UNCHANGED <<stored, terminalWrites, mutations, world, value, touched>>

\* A plan made no mutation: it is released without a terminal.
FinishPlanned(i) ==
  /\ pc[i] = "owner"
  /\ ~ touched[i]
  /\ Owns(i)
  /\ ReleasePut(i, FALSE)
  /\ pc' = [pc EXCEPT ![i] = "releasing"]
  /\ result' = [result EXCEPT ![i] = "PLANNED"]
  /\ UNCHANGED <<stored, terminalWrites, mutations, world, value, touched>>

\* Mutant: the terminal that is read back is not compared.
SettleUncompared(i) ==
  /\ pc[i] = "settling"
  /\ ReleasePut(i, result[i] = "SUCCESS")
  /\ Continue(i, "releasing")
  /\ UNCHANGED <<stored, terminalWrites, mutations, world, value, touched>>

SettleRead(i) ==
  /\ pc[i] = "settling"
  /\ terminals[OperationOf[i]] = Terminal(i, result[i])
  /\ ReleasePut(i, result[i] = "SUCCESS")
  /\ Continue(i, "releasing")
  /\ UNCHANGED <<stored, terminalWrites, mutations, world, value, touched>>

ReleaseRead(i) ==
  /\ pc[i] = "releasing"
  /\ head = Released(i, result[i] = "SUCCESS")
  /\ Continue(i, "done")
  /\ UNCHANGED <<stored, network, world, value, touched>>

\* Any read or comparison of finish() or of the body's last ownership check may
\* fail: execute() lets the exception through.
Raise(i) ==
  /\ pc[i] \in {"owner", "settling", "releasing"}
  /\ Report(i, "RAISED")
  /\ UNCHANGED <<stored, network, world, value, touched>>

\* A crash, or the time limit of the Lambda function or of the build.
Crash(i) ==
  /\ pc[i] \notin {"idle", "done"}
  /\ Report(i, "CRASHED")
  /\ UNCHANGED <<stored, network, world, value, touched>>

------------------------------------------------------------------------------
Environment ==
  \/ \E w \in headWrites : LandHead(w) \/ LoseHead(w)
  \/ \E w \in terminalWrites : LandTerminal(w) \/ LoseTerminal(w)
  \/ \E m \in mutations : LandMutation(m) \/ LoseMutation(m)
  \/ \E o \in Operations : Fire(o)

Execute(i) ==
  \/ Retained(i)
  \/ Acquire(i)
  \/ AcquireRead(i)
  \/ Call(i)
  \/ Dispatch(i)
  \/ CallExpires(i)
  \/ Schedule(i)
  \/ ScheduleRead(i)
  \/ \E status \in {"SUCCESS", "FAILURE", "UNCERTAIN", "PLANNED"} : FinishHeld(i, status)
  \/ \E status \in {"SUCCESS", "FAILURE"} : FinishTerminal(i, status)
  \/ FinishPlanned(i)
  \/ SettleRead(i)
  \/ ReleaseRead(i)
  \/ Raise(i)
  \/ Crash(i)

Next == Environment \/ \E i \in Invocations : Execute(i)

Spec == Init /\ [][Next]_vars

------------------------------------------------------------------------------
(* Properties. *)

Places == {"idle", "retained", "acquiring", "owner", "calling", "scheduling", "scheduled",
           "targeting", "settling", "releasing", "done"}

Results == {"none", "SUCCESS", "FAILURE", "UNCERTAIN", "PLANNED", "RAISED", "CRASHED"}

\* Every variable has its type; in particular each stored head is one that
\* validate() accepts a field at a time.
TypeOK ==
  /\ head \in Heads
  /\ terminals \in [Operations -> Terminals \cup {Null}]
  /\ headWrites \subseteq HeadWrites
  /\ terminalWrites \subseteq TerminalWrites
  /\ mutations \subseteq Mutations
  /\ landed \in Generations
  /\ target \in Proofs \cup {Null}
  /\ events \in [Operations -> Proofs \cup {Null}]
  /\ activation \in Generations
  /\ pc \in [Invocations -> Places]
  /\ value \in [Invocations -> Heads \cup {Null}]
  /\ touched \in [Invocations -> BOOLEAN]
  /\ result \in [Invocations -> Results]

\* i owns the domain in generation g.
Holds(i, g) == head.state = "ACTIVE" /\ head.owner = i /\ head.generation = g

\* Whatever the order in which conditional puts land or are lost, a mutation that
\* can still take effect, or is about to be sent after its ownership read, was
\* issued by the present owner in the present generation (Authority.call,
\* finish): no worker acts on the environment after another was admitted.
EffectsFenced ==
  /\ \A m \in mutations : Holds(m.by, m.generation)
  /\ \A i \in Invocations :
       pc[i] \in {"calling", "targeting"} => Holds(i, value[i].generation)

\* A cleanup can act only for the newest activation: as long as one of its
\* mutations can take effect, no delivery, recovery or lifecycle operation was
\* admitted after the one that installed the schedule whose event started it
\* (acquire compares the schedule of the head with the proof in the event).
CleanupFresh ==
  \A m \in mutations :
    Cleanup(m.by) => events[OperationOf[m.by]].generation = activation

\* A status that execute() reported as decided is the retained terminal of the
\* operation, with the same request, so that every later invocation of the
\* operation reports the same one.
DecidedIsRetained ==
  \A i \in Invocations :
    (/\ pc[i] = "done"
     /\ result[i] \in {"SUCCESS", "FAILURE"}
     /\ ~ (touched[i] /\ result[i] = "FAILURE"))
      => LET terminal == terminals[OperationOf[i]]
         IN  terminal # Null /\ terminal.request = RequestOf[i] /\ terminal.status = result[i]

\* The domain is given up only with proof: when the head is RELEASED and its last
\* owner touched the environment, the terminal of that operation is retained as a
\* SUCCESS of this very generation (finish holds the domain otherwise).
TouchedIsReleasedWithSuccess ==
  LET last == head.owner
  IN  head.state = "RELEASED" /\ head.generation > 0 /\ touched[last]
        => terminals[head.operation] =
             [request |-> head.request, generation |-> head.generation, status |-> "SUCCESS"]

\* One domain, one owner, no epoch twice, and no effect outside an epoch: the
\* promise of the protocol, whatever is lost, late or crashed.
Exclusive == INSTANCE ExclusiveEpochs WITH
  Holders  <- Invocations,
  MaxEpoch <- MaxGeneration,
  NoHolder <- Null,
  epoch    <- head.generation,
  holder   <- IF head.state = "ACTIVE" THEN head.owner ELSE Null,
  landed   <- landed

ImplementsExclusiveEpochs == Exclusive!Spec
==============================================================================
