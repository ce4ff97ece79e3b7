------------------------------ MODULE WholeDown ------------------------------
(***************************************************************************)
(* The whole DOWN of the DEV environment (scripts/lifecycle): one          *)
(* invocation, under one grant of E2, destroys five Terraform layers in    *)
(* reverse dependency order.  Every layer has an approval of its own,      *)
(* prepared, issued and withdrawn by others (handoff.py, exact_destroy.py),*)
(* and is destroyed between two gates that look at ECS again               *)
(* (operational.py, ecs_quiescence.py).  Nothing of it may be resumed.     *)
(*                                                                         *)
(* The records are create-only S3 keys; a put whose answer is lost raises, *)
(* and any read, put, proof or call may raise: Raise is possible wherever  *)
(* the invocation is, with or without the effect of the step it stands at. *)
(* Crash ends the process anywhere.  E2 is modelled by its generation and  *)
(* its holder: MutationAuthority shows that this is what it is.            *)
(*                                                                         *)
(* Two facts of the installation are chosen in Init.  "ports" is "shipped" *)
(* when the closure of NAT, the proof of the ECS boundary and the residual *)
(* inventory are the ones in the repository, which always raise, and       *)
(* "installed" when ports that can answer have been supplied, as the tests *)
(* do.  "route" is "distinct" when approvals are prepared by               *)
(* publish_prepared, one owner for each layer, and "common" when one owner *)
(* prepares all, which the design asks for and the repository lacks.       *)
(***************************************************************************)
EXTENDS Naturals, FiniteSets

CONSTANTS
  Tasks,          \* ECS tasks of the service that has any
  MaxSamples,     \* MAX_SAMPLES of ecs_quiescence.py
  HoldSeconds,    \* HOLD_SECONDS, in ticks
  FreshSeconds,   \* FRESH_SECONDS, in ticks
  Expiry,         \* when every approval (and the SQL consent) expires
  MaxTime,        \* bound on the clock
  MaxOthers       \* bound on how often others interfere

ASSUME DownAssumption ==
  /\ {MaxSamples, HoldSeconds, FreshSeconds, Expiry} \subseteq Nat \ {0}
  /\ {MaxTime, MaxOthers} \subseteq Nat

\* dev_down.DOWN
Stage  == [i \in 1..5 |-> <<"edge", "apps", "platform", "data", "global">>[i]]
Layers == {Stage[i] : i \in 1..5}
Colors == {"blue", "green"}
NoTime == MaxTime + 1

VARIABLES
  ports, route,  \* what is installed
  now,           \* the clock
  gen, holder,   \* the E2 head: its generation and who is ACTIVE
  prepared,      \* layers whose destroy plan is published
  issued,        \* layers whose approval is issued and selected
  expects,       \* the generation each approval expects
  stale,         \* layers whose state is not the one prepared any more
  config,        \* when current.json was changed, if at all
  decision,      \* the decision slot of each layer
  attempted,     \* layers whose attempt slot is filled
  sent,          \* layers whose terraform apply was started
  infra,         \* what there is of each layer
  service,       \* the two ECS services
  task,          \* each task of them
  known,         \* tasks in the retained observations
  intentAt,      \* started_at of the ECS intent
  drains,        \* colors with a retained drain attempt
  drained,       \* how often UpdateService was sent
  samples,       \* samples retained
  drainSamples,  \* of which drain_until_quiet used
  seal,          \* whether terminal-seal, terminal-invalid are retained
  invalid,
  pc, at,        \* where the invocation is; the index of its layer
  look,          \* when the sample being taken was started
  manifest,      \* the whole intent and its residual, verified, terminal
  closing,
  result,        \* the controller's record of each layer
  verified,      \* layers with a verified record
  answer,        \* what a call of execute answered
  others         \* how often others interfered

install  == <<ports, route>>
e2       == <<gen, holder>>
approval == <<prepared, issued, expects, stale, config, decision, attempted, others>>
ecs      == <<service, task>>
journal  == <<known, intentAt, drains, drained, samples, drainSamples, seal, invalid>>
records  == <<manifest, closing, result, verified>>
place    == <<pc, at, look, answer>>
vars     == <<install, now, e2, approval, sent, infra, ecs, journal, records, place>>

Init ==
  /\ ports \in {"shipped", "installed"}
  /\ route \in {"distinct", "common"}
  /\ now = 0
  /\ gen = 1 /\ holder = "none"
  /\ prepared = {} /\ issued = {} /\ others = 0
  /\ expects = [l \in Layers |-> 0]
  /\ stale = {} /\ config = "prepared"
  /\ decision = [l \in Layers |-> "none"]
  /\ attempted = {} /\ sent = {}
  /\ infra = [l \in Layers |-> "present"]
  /\ \E blue \in {"up", "missing"} : service = [blue |-> blue, green |-> "zero"]
  /\ task = [t \in Tasks |-> "absent"]
  /\ known = {} /\ intentAt = NoTime /\ drains = {}
  /\ drained = [c \in Colors |-> 0]
  /\ samples = 0 /\ drainSamples = 0 /\ seal = FALSE /\ invalid = FALSE
  /\ pc = "idle" /\ at = 1 /\ look = NoTime
  /\ manifest = FALSE /\ closing = "none"
  /\ result = [l \in Layers |-> "none"]
  /\ verified = {}
  /\ answer = "none"

\* Time that passes while nothing runs changes nothing that Execute does not
\* find out, except that approvals expire: it is enough that it passes in the run.
Stopped == {"idle", "done", "dead"}
Running == pc \notin Stopped

Tick ==
  /\ Running /\ now < MaxTime
  /\ now' = now + 1
  /\ UNCHANGED <<install, e2, approval, sent, infra, ecs, journal, records, place>>
-----------------------------------------------------------------------------
(* ECS.  A service at "up" keeps one task running; the others have none.    *)

Cluster == infra["platform"] # "absent"

\* ListTasks with desiredStatus RUNNING.
Live == {t \in Tasks : task[t] = "running"}

TaskStarts(t) ==
  /\ pc \notin {"done", "dead"}
  /\ service["blue"] = "up" /\ Live = {} /\ task[t] = "absent"
  /\ task' = [task EXCEPT ![t] = "running"]
  /\ UNCHANGED <<install, now, e2, approval, sent, infra, service, journal, records, place>>

TaskFails(t) ==
  /\ task[t] = "running"
  /\ task' = [task EXCEPT ![t] = "stopped"]
  /\ UNCHANGED <<install, now, e2, approval, sent, infra, service, journal, records, place>>

\* A service at zero tells its tasks to stop (desiredStatus STOPPED) ...
TaskStops(t) ==
  /\ service["blue"] # "up" /\ task[t] = "running"
  /\ task' = [task EXCEPT ![t] = "stopping"]
  /\ UNCHANGED <<install, now, e2, approval, sent, infra, service, journal, records, place>>

\* ... and they end later.
TaskEnds(t) ==
  /\ task[t] = "stopping"
  /\ task' = [task EXCEPT ![t] = "stopped"]
  /\ UNCHANGED <<install, now, e2, approval, sent, infra, service, journal, records, place>>

\* contract.quiescent of runtime.observe: both services at zero or missing and
\* no task listed; a missing cluster has neither.
Quiescent == ~Cluster \/ (service["blue"] # "up" /\ Live = {})

\* The tasks an observation describes: those listed and those seen before.
Seen == known \cup Live

\* The services that are not missing, and their counts and deployments.
Services == {c \in Colors : service[c] # "missing"}
Zero(c)  == service[c] = "zero"

\* Mutant: tasks seen before are forgotten once they are not listed.
QuietNow(tasks) == Live = {} /\ \A c \in Services : Zero(c)

\* ecs_quiescence.quiet of an observation.
Quiet(tasks) == /\ Live = {}
                /\ \A t \in tasks : task[t] = "stopped"
                /\ \A c \in Services : Zero(c)
-----------------------------------------------------------------------------
(* Others: deliveries between operations, preparation owners, the           *)
(* administrator.  They interfere at most MaxOthers times, once something  *)
(* is prepared and until the end of the run.                                *)

Interfere == pc \notin {"done", "dead"} /\ prepared # {} /\ others < MaxOthers /\ others' = others + 1

\* Another operation takes E2 and gives it back; it may change a layer's state.
OtherOperation ==
  /\ holder = "none" /\ pc = "idle" /\ Interfere
  /\ gen' = gen + 1
  /\ \E changed \in {{}, {"edge"}, {"data"}} : stale' = stale \cup changed
  /\ UNCHANGED <<install, now, holder, prepared, issued, expects, config, decision,
                 attempted, sent, infra, ecs, journal, records, place>>

\* publish_prepared: an owner with an operation id and a request of its own
\* holds E2 while it publishes, so each layer has a generation of its own.  The
\* layer destroyed first is prepared last: only then is its generation the next.
PublishPrepared(l) ==
  /\ route = "distinct" /\ pc = "idle" /\ holder = "none" /\ config = "prepared"
  /\ \E k \in 1..5 : l = Stage[k] /\ prepared = {Stage[j] : j \in (k + 1)..5}
  /\ gen' = gen + 1
  /\ prepared' = prepared \cup {l}
  /\ expects' = [expects EXCEPT ![l] = gen + 2]
  /\ stale' = stale \ {l}
  /\ UNCHANGED <<install, now, holder, issued, config, decision, attempted, others,
                 sent, infra, ecs, journal, records, place>>

\* The route the design asks for: one owner publishes all five.
PublishTogether ==
  /\ route = "common" /\ pc = "idle" /\ prepared = {} /\ holder = "none" /\ config = "prepared"
  /\ gen' = gen + 1
  /\ prepared' = Layers
  /\ expects' = [l \in Layers |-> gen + 2]
  /\ stale' = {}
  /\ UNCHANGED <<install, now, holder, issued, config, decision, attempted, others,
                 sent, infra, ecs, journal, records, place>>

\* handoff.current: the configuration and the state are the ones prepared.
Current(l) == config = "prepared" /\ l \notin stale

\* The review of a layer's plan and the consents to it have a window of their
\* own; all of them end together here.
Unexpired   == now < Expiry
Reviewed(l) == Unexpired
Consented   == Unexpired
DataConsent == Consented

\* handoff.read_prepared: the packet, in the versions the selection names.
Packet(l) == l \in prepared

\* exact_destroy.evidence: the prepared packet is there and its review current.
Evidence(l) == Packet(l) /\ Reviewed(l)

\* exact_destroy.issue, up to its write.
Issuable(l) == l \notin issued /\ Evidence(l) /\ Consented /\ Current(l)

\* write_approval puts the approval first and the selection last; an approval
\* without a selection is never found.
Select(l) == issued' = issued \cup {l}

\* approve_destroy, in the order of Stage, of some perhaps only in the run.
Issue(l) ==
  /\ Issuable(l)
  /\ \E k \in 1..5 : l = Stage[k] /\ prepared \cap {Stage[j] : j \in 1..(k - 1)} \subseteq issued
  /\ Select(l)
  /\ IF pc = "idle" THEN UNCHANGED others ELSE Interfere
  /\ UNCHANGED <<install, now, e2, prepared, expects, stale, config, decision,
                 attempted, sent, infra, ecs, journal, records, place>>

\* handoff.resolve: the selection, immutable once it is read.
Selected(l) == l \in issued

\* exact_destroy.validate, under the configuration the invocation started with.
Validate(l) == Selected(l) /\ Evidence(l) /\ Consented /\ config # "before"

\* Mutant: the put is not conditional, and the last decision wins.
PutDecisionLast(l, by) == decision' = [decision EXCEPT ![l] = by]

\* DecisionJournal.put_once: the claim and the withdrawal want the same slot.
PutDecision(l, by) == decision[l] = "none" /\ decision' = [decision EXCEPT ![l] = by]

\* exact_destroy.withdraw: the administrator's put of the decision slot.
Withdraw(l) ==
  /\ Validate(l) /\ Interfere
  /\ PutDecision(l, "withdrawn")
  /\ UNCHANGED <<install, now, e2, prepared, issued, expects, stale, config,
                 attempted, sent, infra, ecs, journal, records, place>>

\* The administrator replaces current.json, before or after an invocation read it.
Reconfigure ==
  /\ config = "prepared" /\ Interfere
  /\ config' = IF pc = "idle" THEN "before" ELSE "after"
  /\ UNCHANGED <<install, now, e2, prepared, issued, expects, stale, decision,
                 attempted, sent, infra, ecs, journal, records, place>>
-----------------------------------------------------------------------------
(* The invocation.                                                          *)

Gates   == {"stage", "dispatch", "readback", "after"}
Before  == {"stage", "dispatch"}
Layer   == Stage[at]

Owner == holder = "down"

\* ProtectedBoundary.require: as shipped it always raises.
Boundary == ports = "installed"

\* Quiescence.closure: every writer of ECS is shut out, under this owner.
Closure == Boundary /\ Owner

\* Operation.check: the owner and the manifest are the original ones, and every
\* earlier layer has its verified record.
Check == /\ Owner /\ manifest
         /\ \A i \in 1..(at - 1) : Stage[i] \in verified

\* Operation.require: a gate is of the current layer of this operation.
Ordered == pc \in Gates => Check

\* Quiescence.intent: the window of the ECS intent is still open.
Window == intentAt # NoTime /\ now < intentAt + HoldSeconds

\* Mutant: platform is sampled after its destruction too.
SampledTwice == \/ pc = "drain"
                \/ pc \in Gates /\ Layer \in {"edge", "apps", "platform"}

\* A gate asks for a sample, or, once the cluster is gone, for the sealed one.
Sampled == \/ pc = "drain"
           \/ pc \in Gates /\ Layer \in {"edge", "apps"}
           \/ pc \in Before /\ Layer = "platform"
Terminal == pc \in Gates /\ ~Sampled

\* A slot of the sixteen sample keys is left.
SampleLeft == samples < MaxSamples

\* A readback that took longer proves nothing.
Fresh == now - look < FreshSeconds

\* The first sample before platform is destroyed is sealed; the one after it
\* must find the same cohort.
Sealing       == pc \in Before /\ Layer = "platform"
Seal          == seal' = TRUE
PredeleteSeal == (seal => Seen = known) /\ Seal

\* A failed handoff, or a failed check of a seal that exists, is retained.
Invalidated == Terminal \/ (Sampled /\ Sealing /\ seal)

Next_(gate) == CASE gate = "stage"    -> "plan"
                 [] gate = "dispatch" -> "claim"
                 [] gate = "readback" -> "complete"
                 [] gate = "after"    -> "retain"

Go(to) == pc' = to /\ UNCHANGED <<at, look, answer>>

\* execute, for an operation that has no manifest, and the acquisition of E2.
Execute ==
  /\ pc \in Stopped /\ ~manifest /\ holder = "none"
  /\ DataConsent
  /\ gen' = gen + 1 /\ holder' = "down"
  /\ Go("run")
  /\ UNCHANGED <<install, now, approval, sent, infra, ecs, journal, records>>

\* execute, for an operation that has one: it answers from the records.
Repeat ==
  /\ pc \in {"done", "dead"} /\ manifest
  /\ answer' = CASE closing \notin {"verified", "terminal"}        -> "UNKNOWN"
                 [] closing = "terminal" /\ holder = "none"       -> "SUCCESS"
                 [] OTHER                                         -> "raised"
  /\ UNCHANGED <<install, now, e2, approval, sent, infra, ecs, journal, records, pc, at, look>>

Retain ==
  /\ pc = "run" /\ Owner /\ ~manifest
  /\ \A l \in Layers : result[l] = "none"
  /\ manifest' = TRUE
  /\ Go("guard")
  /\ UNCHANGED <<install, now, e2, approval, sent, infra, ecs, journal, closing, result, verified>>

\* guard_factory, and NAT's closure before anything else: the shipped ports raise.
Prepare ==
  /\ pc = "guard" /\ ports = "installed"
  /\ Go("begin")
  /\ UNCHANGED <<install, now, e2, approval, sent, infra, ecs, journal, records>>

Begin ==
  /\ pc = "begin" /\ intentAt = NoTime /\ Closure /\ Cluster
  /\ intentAt' = now
  /\ known' = Seen
  /\ Go("blue")
  /\ UNCHANGED <<install, now, e2, approval, sent, infra, ecs, drains, drained,
                 samples, drainSamples, seal, invalid, records>>

AfterColor(c) == IF c = "blue" THEN "green" ELSE "drain"

\* The attempt of one color is retained before its call, and skipped when the
\* baseline misses the service.
DrainAttempt(c) ==
  /\ pc = c /\ Window /\ Closure /\ c \notin drains
  /\ IF service[c] = "missing"
     THEN Go(AfterColor(c)) /\ UNCHANGED drains
     ELSE Go("send") /\ drains' = drains \cup {c}
  /\ UNCHANGED <<install, now, e2, approval, sent, infra, ecs, known, intentAt, drained,
                 samples, drainSamples, seal, invalid, records>>

\* ECS.drain: UpdateService with a desired count of zero.
DrainSend(c) ==
  /\ pc = "send" /\ Window /\ Closure
  /\ c \in drains /\ (c = "blue" => "green" \notin drains)
  /\ drained' = [drained EXCEPT ![c] = @ + 1]
  /\ service' = [service EXCEPT ![c] = "zero"]
  /\ Go(AfterColor(c))
  /\ UNCHANGED <<install, now, e2, approval, sent, infra, task, known, intentAt, drains,
                 samples, drainSamples, seal, invalid, records>>

\* Quiescence.check up to its reads, which may be as late as what follows: no
\* task starts after the drain.
Observe ==
  /\ Sampled /\ look = NoTime
  /\ Window /\ SampleLeft /\ Closure
  /\ Ordered
  /\ look' = now
  /\ UNCHANGED <<install, now, e2, approval, sent, infra, ecs, journal, records, pc, at, answer>>

\* The rest of it: the sample is retained and must still be fresh, and quiet.
Publish ==
  /\ Sampled /\ look # NoTime
  /\ Window /\ Cluster /\ Closure /\ Fresh
  /\ samples' = samples + 1
  /\ known' = Seen
  /\ look' = NoTime
  /\ Quiet(Seen)
  /\ IF pc = "drain" THEN pc' = "stage" /\ drainSamples' = samples'
                     ELSE pc' = Next_(pc) /\ UNCHANGED drainSamples
  /\ IF Sealing THEN PredeleteSeal ELSE UNCHANGED seal
  /\ UNCHANGED <<install, now, e2, approval, sent, infra, ecs, intentAt, drains, drained,
                 invalid, records, at, answer>>

\* drain_until_quiet looks again, at once, when a sample was not quiet; a gate raises.
LookAgain ==
  /\ pc = "drain" /\ look # NoTime
  /\ Window /\ Cluster /\ Closure /\ Fresh
  /\ ~Quiet(Seen)
  /\ samples' = samples + 1
  /\ known' = Seen
  /\ look' = NoTime
  /\ UNCHANGED <<install, now, e2, approval, sent, infra, ecs, intentAt, drains, drained,
                 drainSamples, seal, invalid, records, pc, at, answer>>

\* require_terminal_handoff: the seal, its sample and the absence of the cluster.
Handoff ==
  /\ Terminal /\ Check
  /\ ~invalid /\ seal /\ Window /\ Closure /\ ~Cluster
  /\ Go(Next_(pc))
  /\ UNCHANGED <<install, now, e2, approval, sent, infra, ecs, journal, records>>

\* handoff and exact_destroy: the approval is of the state and for the grant.
Approved(l) == gen = expects[l] /\ Current(l)

\* Execution.load: the selected approval's own binary, whatever terraform would plan.
Load(l) == Validate(l)

\* Controller.run up to its intent: the approved plan is loaded and inspected.
Plan ==
  /\ pc = "plan" /\ result[Layer] = "none"
  /\ Load(Layer) /\ Quiescent
  /\ result' = [result EXCEPT ![Layer] = "UNKNOWN"]
  /\ Go("apply")
  /\ UNCHANGED <<install, now, e2, approval, sent, infra, ecs, journal, manifest, closing, verified>>

\* Terraform.apply and before_dispatch up to its gate.
Apply ==
  /\ pc = "apply" /\ Quiescent
  /\ Validate(Layer) /\ Check
  /\ Approved(Layer)
  /\ Go("dispatch")
  /\ UNCHANGED <<install, now, e2, approval, sent, infra, ecs, journal, records>>

\* before_dispatch after its gate: everything once more, then the decision slot.
Claim ==
  /\ pc = "claim" /\ Quiescent
  /\ Validate(Layer) /\ Current(Layer) /\ Owner
  /\ PutDecision(Layer, "claimed")
  /\ Go("consume")
  /\ UNCHANGED <<install, now, e2, prepared, issued, expects, stale, config, attempted, others,
                 sent, infra, ecs, journal, records>>

Consume ==
  /\ pc = "consume" /\ Current(Layer) /\ Layer \notin attempted
  /\ attempted' = attempted \cup {Layer}
  /\ Go("terraform")
  /\ UNCHANGED <<install, now, e2, prepared, issued, expects, stale, config, decision, others,
                 sent, infra, ecs, journal, records>>

\* terraform apply; an exit code other than zero ends the run.
Terraform ==
  /\ pc = "terraform" /\ Owner /\ Unexpired
  /\ sent' = sent \cup {Layer}
  /\ \E after \in {"absent", "partial", "present"} :
       /\ infra' = [infra EXCEPT ![Layer] = after]
       /\ service' = IF Layer = "apps" /\ after = "absent"
                     THEN [c \in Colors |-> "missing"] ELSE service
       /\ IF after = "absent"
          THEN Go("verify")
          ELSE pc' = "done" /\ answer' = "UNKNOWN" /\ UNCHANGED <<at, look>>
  /\ UNCHANGED <<install, now, e2, approval, task, journal, records>>

\* Terraform is killed after 900 seconds; what it had asked for goes on.
LateEffect(l) ==
  /\ infra[l] = "partial"
  /\ infra' = [infra EXCEPT ![l] = "absent"]
  /\ service' = IF l = "apps" THEN [c \in Colors |-> "missing"] ELSE service
  /\ UNCHANGED <<install, now, e2, approval, sent, task, journal, records, place>>

\* Terraform.verify up to its gate, and the controller's completion.
Verify ==
  /\ pc = "verify" /\ infra[Layer] = "absent" /\ Quiescent
  /\ Go("readback")
  /\ UNCHANGED <<install, now, e2, approval, sent, infra, ecs, journal, records>>

Complete ==
  /\ pc = "complete"
  /\ result' = [result EXCEPT ![Layer] = "SUCCESS"]
  /\ Go("after")
  /\ UNCHANGED <<install, now, e2, approval, sent, infra, ecs, journal, manifest, closing, verified>>

RetainVerified ==
  /\ pc = "retain" /\ result[Layer] = "SUCCESS"
  /\ verified' = verified \cup {Layer}
  /\ IF at < 5 THEN pc' = "stage" /\ at' = at + 1
               ELSE pc' = "residual" /\ UNCHANGED at
  /\ UNCHANGED <<install, now, e2, approval, sent, infra, ecs, journal, manifest, closing,
                 result, look, answer>>

\* residual_result: nothing of the layers is left, and no task.
Gone == /\ \A l \in Layers : infra[l] = "absent"
        /\ \A t \in Tasks : task[t] \notin {"running", "stopping"}

\* The inventory of what is left, fresh when it is retained.
Inventory ==
  /\ pc = "residual" /\ look = NoTime /\ Check
  /\ look' = now
  /\ UNCHANGED <<install, now, e2, approval, sent, infra, ecs, journal, records, pc, at, answer>>

Residual ==
  /\ pc = "residual" /\ look # NoTime /\ Check
  /\ Fresh /\ Gone
  /\ closing' = "residual"
  /\ pc' = "publish" /\ look' = NoTime
  /\ UNCHANGED <<install, now, e2, approval, sent, infra, ecs, journal, manifest, result,
                 verified, at, answer>>

PublishVerified ==
  /\ pc = "publish"
  /\ closing' = "verified"
  /\ Go("finish")
  /\ UNCHANGED <<install, now, e2, approval, sent, infra, ecs, journal, manifest, result, verified>>

\* Authority.finish: the terminal record first, then the head.
Finish ==
  /\ pc = "finish" /\ Owner
  /\ closing' = "terminal"
  /\ Go("release")
  /\ UNCHANGED <<install, now, e2, approval, sent, infra, ecs, journal, manifest, result, verified>>

Release ==
  /\ pc = "release" /\ Owner
  /\ holder' = "none"
  /\ pc' = "done" /\ answer' = "SUCCESS"
  /\ UNCHANGED <<install, now, gen, approval, sent, infra, ecs, journal, records, at, look>>

\* Mutant: an invocation that fails gives E2 back.
RaiseReleased ==
  /\ Running
  /\ pc' = "done" /\ answer' = "UNKNOWN" /\ look' = NoTime
  /\ holder' = "none"
  /\ invalid' = (invalid \/ Invalidated)
  /\ UNCHANGED <<install, now, gen, approval, sent, infra, ecs, known, intentAt, drains, drained,
                 samples, drainSamples, seal, records, at>>

\* Anything raised: a blocked record, UNKNOWN, and E2 stays held.
Raise ==
  /\ Running
  /\ pc' = "done" /\ answer' = "UNKNOWN" /\ look' = NoTime
  /\ invalid' = (invalid \/ Invalidated)
  /\ UNCHANGED <<install, now, e2, approval, sent, infra, ecs, known, intentAt, drains, drained,
                 samples, drainSamples, seal, records, at>>

Crash ==
  /\ Running
  /\ pc' = "dead" /\ look' = NoTime
  /\ UNCHANGED <<install, now, e2, approval, sent, infra, ecs, journal, records, at, answer>>
-----------------------------------------------------------------------------
Environment ==
  \/ Tick \/ OtherOperation \/ PublishTogether \/ Reconfigure
  \/ \E l \in Layers : PublishPrepared(l) \/ Issue(l) \/ Withdraw(l) \/ LateEffect(l)
  \/ \E t \in Tasks : TaskStarts(t) \/ TaskFails(t) \/ TaskStops(t) \/ TaskEnds(t)

Invocation ==
  \/ Execute \/ Repeat \/ Retain \/ Prepare \/ Begin
  \/ \E c \in Colors : DrainAttempt(c) \/ DrainSend(c)
  \/ Observe \/ Publish \/ LookAgain \/ Handoff \/ Plan \/ Apply \/ Claim \/ Consume \/ Terraform
  \/ Verify \/ Complete \/ RetainVerified \/ Inventory \/ Residual \/ PublishVerified
  \/ Finish \/ Release \/ Raise \/ Crash

Next == Environment \/ Invocation
Spec == Init /\ [][Next]_vars
-----------------------------------------------------------------------------
TypeOK ==
  /\ ports \in {"shipped", "installed"} /\ route \in {"distinct", "common"}
  /\ now \in 0..MaxTime /\ gen \in Nat /\ holder \in {"none", "down"}
  /\ prepared \subseteq Layers /\ issued \subseteq Layers /\ others \in 0..MaxOthers /\ expects \in [Layers -> Nat]
  /\ stale \subseteq Layers /\ config \in {"prepared", "before", "after"}
  /\ decision \in [Layers -> {"none", "withdrawn", "claimed"}]
  /\ attempted \subseteq Layers /\ sent \subseteq Layers
  /\ infra \in [Layers -> {"present", "partial", "absent"}]
  /\ service \in [Colors -> {"up", "zero", "missing"}]
  /\ task \in [Tasks -> {"absent", "running", "stopping", "stopped"}]
  /\ known \subseteq Tasks /\ intentAt \in 0..NoTime
  /\ drains \subseteq Colors /\ drained \in [Colors -> Nat]
  /\ samples \in 0..MaxSamples /\ drainSamples \in 0..samples
  /\ seal \in BOOLEAN /\ invalid \in BOOLEAN
  /\ pc \in Stopped \cup Gates \cup Colors \cup
            {"run", "guard", "begin", "send", "drain", "plan", "apply", "claim", "consume",
             "terraform", "verify", "complete", "retain", "residual", "publish", "finish", "release"}
  /\ at \in 1..5 /\ look \in 0..NoTime
  /\ manifest \in BOOLEAN /\ closing \in {"none", "residual", "verified", "terminal"}
  /\ result \in [Layers -> {"none", "UNKNOWN", "SUCCESS"}] /\ verified \subseteq Layers
  /\ answer \in {"none", "UNKNOWN", "SUCCESS", "raised"}

\* A layer is destroyed only after every layer that depends on it is verified
\* gone, and after the tasks the operation has seen ended; each service is drained
\* at most once (operational.py:140-153, 175-179, ecs_quiescence.py:369-399),
\* whoever withdrew, changed or crashed meanwhile.
InOrder ==
  /\ \A c \in Colors : drained[c] <= 1
  /\ \A i \in 1..5 : Stage[i] \in sent =>
       /\ \A j \in 1..(i - 1) : Stage[j] \in verified /\ infra[Stage[j]] = "absent"
       /\ Live = {} /\ \A t \in known : task[t] = "stopped"

\* What starts a destruction is an approval of this layer for this grant, for
\* the state the layer is in, unexpired, claimed before it was withdrawn and
\* used once; a claim or a withdrawal stands (exact_destroy.py:174-220, 252-295).
\* As shipped nothing is destroyed, and with approvals prepared one by one, each
\* under a grant of its own, nothing after edge (runtime.py:411-414, handoff.py:253-291).
DispatchedIsApproved ==
  [][\A l \in Layers :
       /\ l \in sent' \ sent =>
            /\ decision[l] = "claimed" /\ l \in attempted
            /\ expects[l] = gen /\ l \notin stale /\ now < Expiry
            /\ holder = "down" /\ ports = "installed" /\ (route = "distinct" => l = "edge")
       /\ decision[l] # "none" => decision'[l] = decision[l]]_vars

\* E2 is not given back before the environment is down: while anything was
\* drained or destroyed it stays held, unless all is gone and on record, and
\* only then is SUCCESS answered (operational.py:205-247).  In states of the right
\* type.
HeldUntilDown ==
  /\ TypeOK
  /\ (sent # {} \/ \E c \in Colors : drained[c] > 0) /\ holder = "none" => closing = "terminal"
  /\ closing \in {"verified", "terminal"} \/ answer = "SUCCESS" =>
       verified = Layers /\ \A l \in Layers : infra[l] = "absent"
  /\ answer = "SUCCESS" => closing = "terminal"

\* The samples are shared by the drain and the gates.  No gate runs out of them
\* unless the drain left fewer than the ten the gates of edge, apps and platform
\* use (ecs_quiescence.py:375-382).
SamplesSuffice ==
  pc \in Gates /\ Sampled /\ look = NoTime /\ samples = MaxSamples => drainSamples > MaxSamples - 10
=============================================================================
