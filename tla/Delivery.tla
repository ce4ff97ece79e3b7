------------------------------- MODULE Delivery -------------------------------
(***************************************************************************)
(* A normal delivery: scripts/normal_delivery/delivery.py on the adapter   *)
(* of scripts/wp4d/aws_runtime.py, as installed, that is, one invocation   *)
(* of run_owned under an E2 grant: a pass of run and, when the switch was  *)
(* attempted and the outcome is uncertain, one pass of                     *)
(* recover_post_switch that runs it again.                                 *)
(*                                                                         *)
(* The seven mutations prepare the inactive colour (register, drain,       *)
(* attach, start), give it the traffic (switch), point the candidate rule  *)
(* at the former colour and schedule its scale-down (cleanup).  Meanwhile  *)
(* ECS converges on what it was told in its own time and may replace a     *)
(* task, the authorization facts change, the deadline passes, and any      *)
(* read, write or call may fail; a lost put or call may land later.        *)
(*                                                                         *)
(* Abstractions.  Only this operation mutates the environment (E2, module  *)
(* MutationAuthority), so the routes are known from the mutations that     *)
(* have landed.  A cohort and its deployment are one number, new for each  *)
(* set of tasks; running = desired and pending = 0 are "settled".  Of the  *)
(* records only the key is kept, in create-only storage; what they say is  *)
(* fixed by the operation except for the cohorts (startup and the          *)
(* activation proofs) and the planned state, which are variables.          *)
(* "observed" stands for observed and reconciled.  The content of a        *)
(* request, an intent, a registration or a receipt, and the runtime        *)
(* settings other than the revision and the counts, are authorization.py's *)
(* and pass or fail with the other reads.  outcomes/ and post-switch-*/    *)
(* records are written and never read.                                     *)
(***************************************************************************)
EXTENDS Naturals, Sequences

CONSTANT
  MaxFaults   \* failures, of all kinds, that are explored in an invocation

ASSUME FaultsAssumption == MaxFaults \in Nat

Register  == 1
Drain     == 2
Attach    == 3
Start     == 4
Switch    == 5
Candidate == 6
Cleanup   == 7
STAGES == Register .. Cleanup

Operation == 0    \* the scope of the records no stage has to itself

Key == {"plan", "attempt", "ack", "observed"} \X STAGES
         \cup {"intent", "registered", "startup", "activation", "success"} \X {Operation}

VARIABLES
  records,     \* the records that are stored
  late,        \* records whose lost put may still land
  service,     \* the inactive ECS service: revision, desired count, tasks
  flight,      \* mutations whose lost call may still take effect
  landed,      \* mutations that took effect
  authorized,  \* authorize() still answers the retained intent
  expired,     \* the deadline in the intent has passed
  faults,      \* failures so far
  pc,          \* where the invocation is
  stage,       \* the stage it is at
  pass,        \* 1, or 2 in the recovery pass
  preparing,   \* Delivery.preparing_stage, or 0
  error,       \* the exception that is raised
  seen,        \* the service in the expected_state of the stage's plan
  startup,     \* the cohort in the startup record and the E3 context
  accepted,    \* the cohort the E3 gate observed and accepted
  fresh,       \* ECS did not move since the last snapshot
  calls,       \* the mutations sent, in that order
  verdict      \* the status that run_owned returns

storage == <<records, late>>
cloud   == <<service, flight, landed, calls>>
facts   == <<authorized, expired>>
local   == <<pass, preparing, seen, startup, accepted>>
vars    == <<storage, cloud, facts, faults, pc, stage, error, fresh, local, verdict>>

NoError == [kind |-> "none", scope |-> Operation]

\* After an earlier delivery the inactive service runs its old release until
\* the scheduled cleanup scales it down.
Init ==
  /\ records = {}
  /\ late = {}
  /\ \E n \in {0, 1} :
       service = [revision |-> "old", desired |-> n, settled |-> TRUE, cohort |-> n, last |-> 1]
  /\ flight = {}
  /\ landed = {}
  /\ authorized = TRUE
  /\ expired = FALSE
  /\ faults = 0
  /\ pc = "owned"
  /\ stage = Register
  /\ pass = 1
  /\ preparing = 0
  /\ error = NoError
  /\ seen = service
  /\ startup = 0
  /\ accepted = 0
  /\ fresh = FALSE
  /\ calls = << >>
  /\ verdict = "none"

Has(kind, scope) == <<kind, scope>> \in records

Attempted == { s \in STAGES : Has("attempt", s) }

------------------------------------------------------------------------------
(* How a step ends: it goes on, it raises, or it is made to fail. *)

Fault == faults < MaxFaults /\ faults' = faults + 1

Goto(p, s) == pc' = p /\ stage' = s /\ UNCHANGED error

Raise(kind, scope) ==
  /\ pc' = "raised"
  /\ error' = [kind |-> kind, scope |-> scope]
  /\ UNCHANGED stage

\* A check that reads the world: require() and exact() raise a plain exception.
Check(condition, p, s) ==
  /\ UNCHANGED faults
  /\ \/ condition /\ ~ expired /\ Goto(p, s)
     \/ ~ (condition /\ ~ expired) /\ Raise("plain", Operation)

\* The read itself fails: a plain exception from AWS or the fact stores, a
\* JournalError from the records of one of the scopes.
Unreadable(scopes) ==
  /\ Fault
  /\ \/ Raise("plain", Operation)
     \/ \E scope \in scopes : Raise("journal", scope)

\* put(): the acknowledgement of create is ignored and the record is read back.
Put(key, p, s) ==
  \/ /\ records' = records \cup {key}
     /\ Goto(p, s)
     /\ UNCHANGED <<late, faults>>
  \/ /\ Fault
     /\ \/ /\ records' \in {records, records \cup {key}}
           /\ Raise("journal", key[2])
           /\ UNCHANGED late
        \/ /\ key \notin records
           /\ late' \in {late, late \cup {key}}
           /\ Raise("unwritten", key[2])
           /\ UNCHANGED records

------------------------------------------------------------------------------
(* What the reads of AWS show. *)

\* routes(): the listener and the candidate rule, of which each was exchanged or not.
Routes(switched, candidate) ==
  /\ switched <=> Switch \in landed
  /\ candidate <=> Candidate \in landed

\* prepared() of the registered revision.
Prepared(count) ==
  /\ service.revision = "new"
  /\ service.desired = count
  /\ service.settled

Stopped == service.desired = 0 /\ service.settled

\* snapshot: the service, its tasks and the routes as they are now; ECS may then move.
Snapshot == fresh' = TRUE

\* e3_context: the cohort and the deployment that were started.
InContext == service.cohort = startup

\* activation: the proof the plan of the switch names, and the records it quotes.
Activation ==
  {<<"plan", Switch>>, <<"activation", Operation>>, <<"registered", Operation>>,
   <<"startup", Operation>>} \subseteq records

\* What the adapter polls for before it calls the effect of a stage APPLIED.
Verified(s) ==
  CASE s = Register -> TRUE
    [] s = Drain    -> Stopped
    [] s = Attach   -> Prepared(0)
    [] s = Start    -> Prepared(1)
    [] OTHER        -> s \in landed

\* Runtime.effect answers APPLIED: the adapter's own record of the
\* acknowledged call is there and the resource agrees.
Applied(s) == Has("ack", s) /\ Verified(s)

------------------------------------------------------------------------------
(* The world around the invocation. *)

\* ECS reaches the counts it was told, with new tasks.
Converge ==
  /\ ~ service.settled
  /\ service' = IF service.desired = 0
                THEN [service EXCEPT !.settled = TRUE, !.cohort = 0]
                ELSE [service EXCEPT !.settled = TRUE, !.cohort = service.last + 1,
                                     !.last = @ + 1]
  /\ fresh' = FALSE
  /\ UNCHANGED <<storage, flight, landed, calls, facts, faults, pc, stage, error, local, verdict>>

\* A task stops and ECS starts another.
Replace ==
  /\ Fault
  /\ service.settled /\ service.desired = 1
  /\ service' = [service EXCEPT !.settled = FALSE]
  /\ fresh' = FALSE
  /\ UNCHANGED <<storage, flight, landed, calls, facts, pc, stage, error, local, verdict>>

\* The service after the mutation of a stage.
Told(s) ==
  CASE s = Drain  -> [service EXCEPT !.desired = 0, !.settled = @ /\ service.desired = 0]
    [] s = Attach -> [service EXCEPT !.desired = 0, !.settled = FALSE, !.revision = "new"]
    [] s = Start  -> [service EXCEPT !.desired = 1, !.settled = FALSE, !.revision = "new"]
    [] OTHER      -> service

LandCall(s) ==
  /\ s \in flight
  /\ flight' = flight \ {s}
  /\ landed' = landed \cup {s}
  /\ service' = Told(s)
  /\ UNCHANGED <<storage, calls, facts, faults, pc, stage, error, local, fresh, verdict>>

LandPut(key) ==
  /\ key \in late
  /\ late' = late \ {key}
  /\ records' = records \cup {key}
  /\ UNCHANGED <<cloud, facts, faults, pc, stage, error, local, fresh, verdict>>

\* Qualification, eligibility, approval or binding change.
Revoke ==
  /\ Fault
  /\ authorized
  /\ authorized' = FALSE
  /\ UNCHANGED <<storage, cloud, expired, pc, stage, error, local, fresh, verdict>>

\* 1800 seconds after the clock reading in the intent.
Expire ==
  /\ Fault
  /\ Has("intent", Operation) /\ ~ expired
  /\ expired' = TRUE
  /\ UNCHANGED <<storage, cloud, authorized, pc, stage, error, local, fresh, verdict>>

World ==
  \/ Converge \/ Replace \/ Revoke \/ Expire
  \/ \E s \in STAGES : LandCall(s)
  \/ \E key \in Key : LandPut(key)

------------------------------------------------------------------------------
(* run: accept, reconcile, and what a retained success returns. *)

Return(status) ==
  /\ pc' = "done"
  /\ verdict' = status
  /\ UNCHANGED <<stage, error>>

\* run_owned: the grant is checked before anything is read.
Owned ==
  /\ pc = "owned"
  /\ \/ UNCHANGED <<faults, verdict>> /\ Goto("accept", Register)
     \/ Fault /\ Return("UNCERTAIN")
  /\ UNCHANGED <<storage, cloud, facts, local, fresh>>

\* accept: the intent is decided once and retained.
Accept ==
  /\ pc = "accept"
  /\ IF Has("intent", Operation)
     THEN /\ UNCHANGED storage
          /\ \/ UNCHANGED faults /\ Goto("reconcile", Register)
             \/ Unreadable({Operation})
     ELSE \/ authorized /\ Routes(FALSE, FALSE) /\ Put(<<"intent", Operation>>, "reconcile", Register)
          \/ ~ authorized /\ Raise("plain", Operation) /\ UNCHANGED <<storage, faults>>
          \/ Unreadable({Operation}) /\ UNCHANGED storage
  /\ UNCHANGED <<cloud, facts, local, fresh, verdict>>

\* reconcile: every attempted stage has an effect that is stored or can be
\* established now, with a budget of its own; anything else is uncertain.
Reconciles(s) ==
  \/ Has("observed", s)
  \/ Has("plan", s) /\ Applied(s)

Reconcile(from, to) ==
  /\ pc = from
  /\ \/ /\ \A s \in Attempted : Reconciles(s)
        /\ records' = records \cup {"observed"} \X Attempted
        /\ Goto(to, Register)
        /\ UNCHANGED faults
     \/ /\ \E s \in Attempted : ~ Reconciles(s)
        /\ Raise("uncertain", Operation)
        /\ UNCHANGED <<records, faults>>
     \/ /\ Fault
        /\ Raise("uncertain", Operation)
        /\ UNCHANGED records
  /\ UNCHANGED <<late, cloud, facts, local, fresh, verdict>>

\* A retained success is returned, after its own validation, and nothing is done.
Resume ==
  /\ pc = "resume"
  /\ \/ /\ Has("success", Operation)
        /\ \/ Return("SUCCESS") /\ UNCHANGED faults
           \/ Unreadable({Operation}) /\ UNCHANGED verdict
     \/ /\ ~ Has("success", Operation)
        /\ \/ Check(authorized, "effect", Register)
           \/ Unreadable({Operation})
        /\ UNCHANGED verdict
  /\ UNCHANGED <<storage, cloud, facts, local, fresh>>

------------------------------------------------------------------------------
(* deliver and effect: what one stage goes through. *)

\* The preparation stages plan against a snapshot.
Preparation == {Drain, Attach, Start}

Before ==
  /\ pc = "before"
  /\ \/ Check(/\ Routes(FALSE, FALSE)
              /\ stage = Attach => Stopped
              /\ stage = Start => Prepared(0), "effect", stage)
     \/ Unreadable({stage})
  /\ seen' = service
  /\ Snapshot
  /\ UNCHANGED <<storage, cloud, facts, pass, preparing, startup, accepted, verdict>>

\* A planned stage is never planned again: its effect, established by
\* reconcile, is reused; a plan without an attempt is terminal.
Effect ==
  /\ pc = "effect"
  /\ \/ /\ Has("plan", stage)
        /\ \/ Has("attempt", stage) /\ Goto("after", stage)
           \/ ~ Has("attempt", stage) /\ Raise("plain", Operation)
        /\ UNCHANGED <<faults, preparing>>
     \/ /\ ~ Has("plan", stage)
        /\ Check(authorized, "plan", stage)
        /\ preparing' = IF authorized /\ ~ expired THEN stage ELSE preparing
     \/ Unreadable({stage} \cup IF stage = Switch THEN {Operation} ELSE {}) /\ UNCHANGED preparing
  /\ UNCHANGED <<storage, cloud, facts, pass, seen, startup, accepted, fresh, verdict>>

Plan ==
  /\ pc = "plan"
  /\ Put(<<"plan", stage>>, "attempt", stage)
  /\ UNCHANGED <<cloud, facts, local, fresh, verdict>>

Attempt ==
  /\ pc = "attempt"
  /\ Put(<<"attempt", stage>>, "guard", stage)
  /\ UNCHANGED <<cloud, facts, local, fresh, verdict>>

\* Mutant: the switch trusts the readiness established before its records.
GuardedStale(s) ==
  /\ authorized
  /\ s \in Preparation => Routes(FALSE, FALSE) /\ service = seen
  /\ s = Switch => Routes(FALSE, FALSE)
  /\ s \in {Candidate, Cleanup} => Routes(TRUE, s = Cleanup) /\ Prepared(1)

\* After the write-ahead records and before the call, the authorization and
\* the state of the environment are read once more.
Guarded(s) ==
  /\ authorized
  /\ s \in Preparation =>
       /\ Routes(FALSE, FALSE)
       /\ service = seen
       /\ s = Attach => Stopped
       /\ s = Start => Prepared(0)
  /\ s = Switch => Routes(FALSE, FALSE) /\ Prepared(1) /\ InContext
  /\ s \in {Candidate, Cleanup} =>
       Routes(TRUE, s = Cleanup) /\ Prepared(1) /\ InContext

Guard ==
  /\ pc = "guard"
  /\ \/ Check(Guarded(stage), "call", stage)
     \/ Unreadable({})
  /\ Snapshot
  /\ UNCHANGED <<storage, cloud, facts, local, verdict>>

\* The call, whose exceptions are swallowed: refused before it is sent (the
\* deadline, E2), acknowledged and remembered, or lost with or without effect.
\* In cleanup, PutRule may succeed and PutTargets fail: that schedules nothing.
Call ==
  /\ pc = "call"
  /\ preparing' = 0
  /\ Goto("observe", stage)
  /\ \/ /\ expired \/ faults < MaxFaults
        /\ faults' = IF expired THEN faults ELSE faults + 1
        /\ UNCHANGED <<records, cloud>>
     \/ /\ ~ expired
        /\ calls' = Append(calls, stage)
        /\ \/ /\ records' = records \cup {<<"ack", stage>>}
              /\ landed' = landed \cup {stage}
              /\ service' = Told(stage)
              /\ UNCHANGED <<flight, faults>>
           \/ /\ Fault
              /\ landed' = landed \cup {stage}
              /\ service' = Told(stage)
              /\ UNCHANGED <<records, flight>>
           \/ /\ Fault
              /\ flight' \in {flight, flight \cup {stage}}
              /\ UNCHANGED <<records, landed, service>>
  /\ UNCHANGED <<late, facts, pass, seen, startup, accepted, fresh, verdict>>

\* The effect is polled for; whatever is not APPLIED in time is uncertain.
Observe ==
  /\ pc = "observe"
  /\ \/ /\ Applied(stage) /\ ~ expired
        /\ Goto("evidence", stage)
        /\ UNCHANGED faults
     \/ /\ ~ (Applied(stage) /\ ~ expired)
        /\ Raise("uncertain", stage)
        /\ UNCHANGED faults
     \/ Fault /\ Raise("uncertain", stage)
  /\ UNCHANGED <<storage, cloud, facts, local, fresh, verdict>>

\* The observed effect is retained: here every failure of put is uncertain.
Evidence ==
  /\ pc = "evidence"
  /\ \/ /\ records' = records \cup {<<"observed", stage>>}
        /\ Goto("after", stage)
        /\ UNCHANGED <<late, faults>>
     \/ /\ Fault
        /\ Raise("uncertain", stage)
        /\ \/ records' \in {records, records \cup {<<"observed", stage>>}} /\ UNCHANGED late
           \/ late' = late \cup {<<"observed", stage>>} /\ UNCHANGED records
  /\ UNCHANGED <<cloud, facts, local, fresh, verdict>>

------------------------------------------------------------------------------
(* deliver: what is checked after a stage, and where it goes on. *)

\* The registration is read back and retained; once the switch is planned
\* the preparation is not looked at again.
Registered ==
  /\ pc = "after" /\ stage = Register
  /\ \/ /\ ~ expired
        /\ IF Has("plan", Switch)
           THEN Put(<<"registered", Operation>>, "effect", Switch)
           ELSE Put(<<"registered", Operation>>, "before", Drain)
     \/ /\ expired
        /\ Raise("plain", Operation)
        /\ UNCHANGED <<storage, faults>>
     \/ Unreadable({}) /\ UNCHANGED storage
  /\ UNCHANGED <<cloud, facts, local, fresh, verdict>>

AfterPreparation ==
  /\ pc = "after" /\ stage \in Preparation
  /\ \/ /\ Routes(FALSE, FALSE) /\ Verified(stage) /\ ~ expired
        /\ IF stage = Start THEN Goto("startup", Start) ELSE Goto("before", stage + 1)
        /\ UNCHANGED faults
     \/ /\ ~ (Routes(FALSE, FALSE) /\ Verified(stage) /\ ~ expired)
        /\ Raise("plain", Operation)
        /\ UNCHANGED faults
     \/ Unreadable({})
  /\ Snapshot
  /\ UNCHANGED <<storage, cloud, facts, local, verdict>>

\* The started cohort is retained: it is the one E3 is asked about.
Startup ==
  /\ pc = "startup"
  /\ \/ /\ Routes(FALSE, FALSE) /\ Prepared(1) /\ ~ expired
        /\ startup' = service.cohort
        /\ Put(<<"startup", Operation>>, "gate", Start)
     \/ /\ ~ (Routes(FALSE, FALSE) /\ Prepared(1) /\ ~ expired)
        /\ Raise("plain", Operation)
        /\ UNCHANGED <<storage, faults, startup>>
     \/ Unreadable({Operation}) /\ UNCHANGED <<storage, startup>>
  /\ Snapshot
  /\ UNCHANGED <<cloud, facts, pass, preparing, seen, accepted, verdict>>

\* Gate.run: the E3 process observes the service until it is stable and
\* healthy, or rejects it; its evidence must name the cohort of the context.
Gate ==
  /\ pc = "gate"
  /\ \/ /\ Prepared(1) /\ InContext /\ ~ expired
        /\ accepted' = service.cohort
        /\ Goto("final", Start)
     \/ Raise("plain", Operation) /\ UNCHANGED accepted
  /\ UNCHANGED <<storage, cloud, facts, faults, pass, preparing, seen, startup, fresh, verdict>>

\* The last observation before the switch is retained with the E3 evidence as
\* the activation proof, which the plan of the switch will name.
Final ==
  /\ pc = "final"
  /\ LET unchanged == /\ authorized /\ ~ expired
                      /\ Routes(FALSE, FALSE) /\ Prepared(1) /\ InContext
     IN \/ unchanged /\ Put(<<"activation", Operation>>, "effect", Switch)
        \/ /\ ~ unchanged
           /\ Raise("plain", Operation)
           /\ UNCHANGED <<storage, faults>>
        \/ Unreadable({Operation}) /\ UNCHANGED storage
  /\ Snapshot
  /\ UNCHANGED <<cloud, facts, local, verdict>>

AfterSwitch ==
  /\ pc = "after" /\ stage \in {Switch, Candidate}
  /\ \/ Check(/\ Switch \in landed
              /\ stage = Candidate => Routes(TRUE, TRUE)
              /\ Prepared(1)
              /\ stage = Switch => InContext, "effect", stage + 1)
     \/ Unreadable({Operation})
  /\ Snapshot
  /\ UNCHANGED <<storage, cloud, facts, local, verdict>>

\* The receipt: the final state, and the stored effects of all the stages.
\* A receipt of the first pass that lands in between differs in its times.
Receipt ==
  /\ pc = "after" /\ stage = Cleanup
  /\ LET complete == /\ authorized /\ ~ expired
                     /\ Routes(TRUE, TRUE) /\ Prepared(1) /\ InContext
                     /\ \A s \in STAGES : Has("observed", s)
                     /\ ~ Has("success", Operation)
     IN \/ complete /\ Put(<<"success", Operation>>, "written", Cleanup)
        \/ /\ ~ complete
           /\ Raise("plain", Operation)
           /\ UNCHANGED <<storage, faults>>
        \/ Unreadable({Operation}) /\ UNCHANGED storage
  /\ Snapshot
  /\ UNCHANGED <<cloud, facts, local, verdict>>

Written ==
  /\ pc = "written"
  /\ Return("SUCCESS")
  /\ UNCHANGED <<storage, cloud, facts, faults, local, fresh>>

------------------------------------------------------------------------------
(* The outcome of a pass, and the one recovery pass. *)

\* Mutant: an attempted switch alone does not make an outcome uncertain.
UncertainUnlessObserved ==
  \/ error.kind = "uncertain"
  \/ error.kind \in {"journal", "unwritten"} /\ preparing = 0 /\ error.scope \in Attempted

\* What run makes of an exception: uncertain if a mutation, of the stage or of
\* any stage, may have been attempted whose effect is not known, and whenever the
\* switch was attempted, unless it is known that the call was not reached.
Uncertain ==
  \/ error.kind = "uncertain"
  \/ /\ error.kind \in {"journal", "unwritten"}
     /\ preparing = 0
     /\ Attempted \cap (IF error.scope = Operation THEN STAGES ELSE {error.scope}) # {}
  \/ error.kind = "unwritten" /\ Attempted # {}
  \/ preparing # Switch /\ Switch \in Attempted

\* The first pass: its outcome is returned unless it is uncertain and the switch was
\* attempted.  Attempts that cannot be read are uncertain, and not continued.
Conclude ==
  /\ pc = "raised" /\ pass = 1
  /\ \/ /\ ~ Uncertain
        /\ Return("FAILURE")
        /\ UNCHANGED <<faults, pass, preparing>>
     \/ /\ Uncertain /\ Switch \notin Attempted
        /\ Return("UNCERTAIN")
        /\ UNCHANGED <<faults, pass, preparing>>
     \/ /\ Uncertain /\ Switch \in Attempted
        /\ Goto("recover", Register)
        /\ pass' = 2
        /\ preparing' = 0
        /\ UNCHANGED <<faults, verdict>>
     \/ /\ Fault
        /\ Return("UNCERTAIN")
        /\ UNCHANGED <<pass, preparing>>
  /\ UNCHANGED <<storage, cloud, facts, seen, startup, accepted, fresh>>

\* recovery_blocked: nothing that goes wrong in the second pass is decided.
Blocked ==
  /\ pc = "raised" /\ pass = 2
  /\ Return("UNCERTAIN")
  /\ UNCHANGED <<storage, cloud, facts, faults, local, fresh>>

\* recover_post_switch, up to the activation proof the plan of the switch names.
Recover ==
  /\ pc = "recover"
  /\ \/ /\ Has("intent", Operation) /\ Activation
        /\ Goto(IF Has("success", Operation) THEN "accept" ELSE "recheck", Register)
        /\ UNCHANGED faults
     \/ Unreadable({Operation})
  /\ UNCHANGED <<storage, cloud, facts, local, fresh, verdict>>

\* Mutant: the superseded preparation is read back as if it were current.
ReadbackAll ==
  /\ pc = "readback"
  /\ IF \A s \in Attempted : Applied(s) THEN Goto("topology", Register)
                                        ELSE Raise("plain", Operation)
  /\ UNCHANGED <<storage, cloud, facts, faults, local, fresh, verdict>>

\* The effects that still have a meaning are observed anew, in AWS.
Readback ==
  /\ pc = "readback"
  /\ LET current(s) == IF Has("attempt", s) THEN Applied(s)
                                             ELSE ~ Has("plan", s) /\ s # Switch
     IN \/ /\ \A s \in Switch .. Cleanup : current(s)
           /\ Goto("topology", Register)
           /\ UNCHANGED faults
        \/ /\ \E s \in Switch .. Cleanup : ~ current(s)
           /\ Raise("plain", Operation)
           /\ UNCHANGED faults
        \/ Unreadable({Operation})
  /\ UNCHANGED <<storage, cloud, facts, local, fresh, verdict>>

\* The authorization, the routes and the activated cohort are what they were.
Topology ==
  /\ pc = "topology"
  /\ \/ Check(/\ authorized
              /\ Routes(TRUE, Has("observed", Candidate))
              /\ Prepared(1) /\ InContext, "accept", Register)
     \/ Unreadable({Operation})
  /\ Snapshot
  /\ UNCHANGED <<storage, cloud, facts, local, verdict>>

Run ==
  \/ Accept \/ Reconcile("reconcile", "resume") \/ Resume
  \/ Before \/ Effect \/ Plan \/ Attempt \/ Guard \/ Call \/ Observe \/ Evidence
  \/ Registered \/ AfterPreparation \/ Startup \/ Gate \/ Final
  \/ AfterSwitch \/ Receipt \/ Written

RunOwned ==
  \/ Owned \/ Run \/ Conclude \/ Blocked
  \/ Recover \/ Reconcile("recheck", "readback") \/ Readback \/ Topology

Next == World \/ RunOwned

\* The runner is one process that is not descheduled for ever; nothing is
\* assumed of AWS, whose polls end by the deadline.
Spec == Init /\ [][Next]_vars /\ WF_vars(RunOwned)

------------------------------------------------------------------------------
(* Properties. *)

Places == {"owned", "accept", "reconcile", "resume", "before", "effect", "plan", "attempt",
           "guard", "call", "observe", "evidence", "after", "startup", "gate", "final",
           "written", "raised", "recover", "recheck", "readback", "topology", "done"}

Services == [revision : {"old", "new"}, desired : {0, 1}, settled : BOOLEAN,
             cohort : Nat, last : Nat]

\* Every variable has its type.
TypeOK ==
  /\ records \subseteq Key
  /\ late \subseteq Key
  /\ service \in Services
  /\ flight \subseteq STAGES
  /\ landed \subseteq STAGES
  /\ authorized \in BOOLEAN
  /\ expired \in BOOLEAN
  /\ faults \in 0 .. MaxFaults
  /\ pc \in Places
  /\ stage \in STAGES
  /\ pass \in {1, 2}
  /\ preparing \in {0} \cup STAGES
  /\ error \in [kind : {"none", "plain", "journal", "unwritten", "uncertain"},
                scope : {Operation} \cup STAGES]
  /\ seen \in Services
  /\ startup \in Nat
  /\ accepted \in Nat
  /\ fresh \in BOOLEAN
  /\ calls \in Seq(STAGES)
  /\ verdict \in {"none", "SUCCESS", "FAILURE", "UNCERTAIN"}

\* The operation is a StagedEffects: over both passes and whatever is lost or lands
\* late, the mutations are sent in order, each once and only when the earlier ones
\* have taken effect in AWS; SUCCESS means that all seven have, FAILURE that
\* the traffic was not switched and that nothing is in doubt, so that E2 may hand
\* the environment to another operation (effect, reconcile, the except clause of run).
Staged == INSTANCE StagedEffects WITH Last <- 7, Commit <- Switch, report <- verdict
StagedSpec == Staged!Spec

\* Traffic is given, and the former colour's routes and capacity taken away, only
\* while the cohort that E3 accepted is running, and it still runs when SUCCESS
\* is returned, except for what ECS did since the very last snapshot: the race
\* that the head of delivery.py admits, and nothing more.  In states of the right
\* type.
ServesAccepted ==
  /\ TypeOK
  /\ fresh /\ ((pc = "call" /\ stage >= Switch) \/ verdict = "SUCCESS") =>
       /\ service.settled /\ service.desired = 1 /\ service.revision = "new"
       /\ service.cohort = accepted

\* The one fault so far struck after the switch took effect and was acknowledged
\* and with no stage between its plan and its acknowledgement, and left the
\* authorization, the deadline and the cohort alone.
Recoverable ==
  /\ pc = "raised" /\ pass = 1
  /\ faults = 1
  /\ Has("ack", Switch) /\ preparing = 0
  /\ late \subseteq {"observed"} \X STAGES
  /\ \A s \in STAGES : Has("plan", s) => Has("ack", s)
  /\ authorized /\ ~ expired
  /\ Prepared(1) /\ service.cohort = startup

\* E4: such a fault, the lost evidence of the switch among others, is always
\* made good by the one recovery pass when nothing else fails; and whatever fails,
\* the invocation returns: no read, poll or pass goes on for ever.
Recovers ==
  /\ Recoverable ~> (verdict = "SUCCESS" \/ faults > 1)
  /\ <>(pc = "done")
==============================================================================
