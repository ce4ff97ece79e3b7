# Verification of the protected control plane

This directory holds TLA+ models of the control plane of this repository, the
TLC runs that check them on small instances, and TLAPS proofs for instances of
any size. The repository operates one blue/green ECS service per environment
(dev, prod): requests reach it through GitHub workflows and gateway Lambdas,
CodeBuild projects and EventBridge-driven Lambdas act on ECS, the ALB and EC2,
Terraform layers are created and destroyed by protected builds, and everything
they must remember is in create-only or compare-and-swap S3 objects. There is no
lock service: the correctness of the control plane is that of the protocols in
S3, under lost answers, late writes, crashes and repeated deliveries. Beside it,
the SQL host backs its database up and is recovered from those backups; what is
remembered there are files, locks and S3 objects of a host that may be killed or
rebooted at any moment. Both are modelled.

- [Inventory](#inventory)
- [Modules](#modules)
- [Runs](#runs)
- [Proofs](#proofs)
- [Divergences](#divergences)
- [Not modelled](#not-modelled)
- [Plan](#plan)

To check: `tlc -config MCMutationAuthority_succession.cfg MCMutationAuthority.tla`
and likewise for the other `.cfg` files (each is `<module>_<run>.cfg`);
`tlapm MutationAuthorityProofs.tla` and likewise for the other `*Proofs.tla`.

## Inventory

For each part: what it keeps, what it does, whom it meets, what is hard, and
what makes it correct. `PROJECT.json` lists the same parts with their files and
the hazards with their lines.

**Environment mutation authority (E2)**, `scripts/environment_mutation.py`.
State: one S3 object per conflict domain, the *head* (generation, owner,
operation, schedule proof), changed only by conditional puts; one create-only
*terminal* per operation. Operations: acquire, call (a guarded AWS mutation),
schedule (attach to the head the proof a later cleanup must present), finish
(write the terminal, release). Every delivery, emergency, cleanup and lifecycle
operation runs inside it. Hard: an acknowledgement proves nothing, so that a
conditional put may land after its writer has given up; a worker may pause
between its check and its call; failed mutations must keep the environment held.
Correct when: grants are exclusive and never reused; no effect lands outside
the grant it was made under; an environment that was touched is released by
success only; only the newest schedule admits a cleanup.

**Recovery journal**, `scripts/recovery/journal.py`. State, in create-only
records: an intent with a deadline, and for each stage a plan, an attempt
(written before the call), an acknowledgement and an observed effect; a receipt.
Operations: accept, effect (plan, guard, attempt, guard, call, observe),
execute, run. Used by emergencies, cleanups and the NAT duties. Hard: a crash
at any point, a retry that must find out without sending again, puts and calls
of an earlier run that land in a later one. Correct when: no stage is sent
twice or out of order, and a run that says SUCCESS or FAILURE knows it.

**Request path**, `scripts/workflow_requests/client.py`,
`scripts/wp4d/gateway.py`, `scripts/wp4d/runtime.py`. State: create-only records
of the operation, its start attempt, its build id and the way back from build
to operation; a public status. Operations: the client invokes the gateway once
and polls the public status; the gateway records and starts a build; the build
finds its request by its own id, runs the controller and publishes. Hard: lost
answers and retries at each hop, records stored after the build has begun,
several clients of one operation id. Correct when: one build at most is
started; ACCEPTED means that the build can find the accepted request; a client
reports success for its own request only.

**NAT duties (E13)**, `scripts/recovery/nat.py`, `scripts/nat/reliability.py`,
`scripts/wp4d/nat_resolver.py`, `scripts/wp4d/dev_nat_guard.py`. State: the slot
in EC2 (members, address, default route, source/destination check) and one
journal per launch event and duty. Operations: three Lambdas, started by the
same event, associate the address, point the route, clear the check; the last
then waits for the whole slot, one describe call after the other. Hard: the three
run at once and see each other's progress; events and late calls of an instance
that has been replaced, which may land between two looks. Correct when: duties
do not make each other fail, an observed result stands, what several looks saw
still holds together when readiness is reported, and without faults a replaced
instance ends up forwarding.

**Normal delivery**, `scripts/normal_delivery/delivery.py`. State: an intent,
plans, attempts and effects of seven stages (register, drain, attach, start,
switch, candidate, cleanup), activation proofs, snapshots, a receipt. Operations:
run, reconcile, deliver, and one recovery pass after an uncertain switch. Hard:
as for the journal, with retry rules that depend on the stage, and a gap between
the last look and the listener write, and one pass of recovery that continues
what a fault left. Correct when: traffic moves only to the cohort that was
verified, never twice, a status tells the truth, and a single fault after the
switch is made good.

**E3 readiness gate**, `scripts/normal_delivery/e3.py`, `scripts/ecs-readiness-gate.sh`:
repeated observation of one cohort until its evidence is complete and stable.

**Emergency and cleanup**, `scripts/recovery/application.py`. State: the journal,
over the routes and services of both colors. Emergency scales the inactive color
if needed, switches and schedules; Cleanup, on the scheduled event, scales the
inactive color to zero and removes the schedule. Hard: a cleanup that was
scheduled before another switch; deliveries that broke off between two changes;
an ALB that is slower than ECS. Correct when: traffic stays on a color that runs
an accepted release; whenever the environment is free an emergency finds on the
other color what the index of successes says; a cleanup removes its own schedule
only, and in the end does.

**AWS adapters**, `scripts/wp4d/adapters.py`, `scripts/wp4d/aws_runtime.py`: S3
objects, and mutations with their readback, attributed to a token by a stored
acknowledgement; `History.publish`, the index of successes. The dev overlays
`dev_cleanup.py`, `dev_startup.py` and `dev_delivery_contract.py` change when an
effect counts as settled.

**Lifecycle: one layer (WP5)**, `scripts/lifecycle/{contract,controller,packages,runtime}.py`.
State: create-only records of a request, of the way from a build to its request,
an intent, a completion and a public result. Operations: the gateway records a
request and starts a build; the build finds its request, plans, or, under E2,
checks a saved plan, retains an intent, runs one `terraform apply`, reads back
and records the completion. Hard: an apply whose answer is lost must never be
repeated; two gateways with one request; a build that starts before the record
it needs; a teardown in competition with deliveries that start tasks. Correct
when: the layer changes only as an intent on record asks, E2 stays held until
that ended well, and a recorded request is answered.

**Whole DOWN (E15)**, `scripts/lifecycle/{operational,dev_down,ecs_quiescence,handoff,exact_destroy}.py`.
One invocation under one grant drains ECS and destroys five layers, `edge`,
`apps`, `platform`, `data`, `global`. State: per layer a prepared plan, an
approval, one decision slot (claimed or withdrawn), one attempt slot, a
result; sixteen sample slots for looks at ECS; the E2 head. It meets the
administrator, who prepares, issues and withdraws approvals, and the tasks, which
start, fail and linger. Hard: a claim that races a withdrawal in one slot, and
whose answer is lost; a stage that fails when other layers are gone already;
samples that run out. Correct when: layers go in order, each by its own
approval for this grant, after every known task ended; E2 is not given back in
between.

**NAT closure (E15)**, `scripts/nat/{closure,quiescence}.py`. State: one S3 object
with the permits of NAT duties (ADMITTED, DISPATCHED, CANCELLED, SEALED) and
whether admission is closed, changed by compare-and-swap while the E2 head is
read from another object. A duty asks for a permit before it calls EC2; a
teardown closes the object for ever and reports which permits are open. Hard:
two objects without a transaction, puts that land late, answers that are not
looked at. Correct when: every call of EC2 is accounted for, and after the
closure none is made but by those that were reported.

**Build supervision, qualification, internal release**,
`scripts/build_supervision`, `scripts/qualification`, `scripts/internal_release`.
State: create-only S3 objects of an operation (itself, the way from its build to
it, one slot for the record of its attempt, qualification, public success), one
manifest for each image digest, the images in ECR. Operations: the gateway starts
a build and then stores how the build finds its operation; the build takes the
source through acquisition, sealing, restore, build and test, image, publication and
probe, and leaves a result or a terminal; the finalizer, invoked by the event of the
build's end, qualifies what all evidence agrees on and makes it public; a status is
told to whoever asks. Hard: the build runs before the records it needs; a put of the result
that raises may still land, against the terminal in the same slot; the event is
delivered again, and a finalizer that raised half way is invoked again; two builds of an unchanged
source. Correct when: what is public was built, tested and published and is never told
to have failed; an operation that was answered ends.

**Administrator scripts**: `scripts/owner_recovery.py` (a read-only diagnosis of
a held owner; ending the hold is an operator's work and has no code),
`publish_dev_neutral.py`, `first_dev_bootstrap.py`, `original_dev.py`,
`retirement_preflight.py`, `check_native_plan.py`, `ephemeral_lab.py`.

**SQL backup job**, `operations/sql-backup/host.py` and `operations/sql-backup/SqlBackup`.
State: a lock of the job and one of the program, the outcome of the last job, a
marker that inhibits, on the disk a backup and a receipt for each run,
`last-success.json`, and two objects for each run in S3. A timer activates the job; it runs
the program as backup and as cleanup; the program stores backup and manifest and
then forgets old local copies. The operator inhibits, waits for idleness and
resumes. Hard: kills, reboots and timeouts at any point, a program that outlives
its host.py, puts that raise and land, a clock that is set back. Correct when:
what is recorded can be restored, the last copy is not deleted, and an
interrupted job blocks the next one until it is reviewed.

**Backup observer**, `operations/sql-backup/{observer,signals,sentinel_publish}.py`.
State: the last observed condition and the notice of an open incident, one pending
observation with its attempts, a budget of calls, the last accepted one. It
looks at the backups, decides whether to tell, persists, sends to SQS. Hard: a crash between any two of
these writes, a message that arrives although its call raised. Correct when: no
observation that the state accounts for is lost, and the calls stay within budget
and in order.

**Cold recovery**, `operations/sql-backup/recovery/{host,prepare,verify_effective}.py`, `bootstrap.sh`.
A new host is brought up, a backup restored, the listener of SQL moved from
loopback to the private address in recorded phases, and the secret by which
tasks connect given a new version. State: the EC2 states of source and target,
SQL and its configuration, a directory of markers and receipts for each
operator, versions of the secret. Hard: two directories on one host, a transition
that breaks off and a reboot that brings SQL up again, process ids that are used again. Correct when:
nothing connects while the source may come back; the files tell what a
transition did; the SQL that was checked is the one that answered.

**Native recovery**, `operations/sql-backup/recovery/{native_step,native_host,activate_native_runtime}.py`.
By SSM commands, the writers of the source are fenced and its last backup is
taken; after it is terminated that backup is restored on a new host and the
runtime let in. State: rows, logins and mode of each database, timer and tasks,
backups, evidence directories, commands and their intents on the hosts. Hard:
writers, timer and tasks that go on until each is stopped, commands that are
delivered late, a fence that failed half way. Correct when: what is restored is
all the source had, on one host.

**SQL packaging, credentials, installation** (the rest of
`operations/sql-backup`) and **backup integrations** (`operations/integrations`, a
second implementation of observation and notices in .NET with a cursor store and
an incident policy).

**Demo API**, **retired shell deployment and Lambdas**, **Terraform**,
**workflows and CI**, **portfolio**: see [Not modelled](#not-modelled).

## Modules

| module | models | kind |
| --- | --- | --- |
| `ExclusiveEpochs` | what E2 promises: exclusive, increasing epochs, and effects inside them | abstract specification |
| `MutationAuthority` | `environment_mutation.py` | detailed, implements the above |
| `MutationAuthorityProofs` | theorems about it | proofs |
| `RecoveryJournal` | `recovery/journal.py` over `Effects` of `wp4d/aws_runtime.py` | detailed |
| `NatDuties` | `recovery/nat.py`, `wp4d/nat_resolver.py`, `wp4d/dev_nat_guard.py`, `nat/reliability.py`, `Nat` of `aws_runtime.py` | detailed |
| `NatDutiesProofs` | theorems about it, and about `RecoveryJournal` as `MCRecoveryJournal` instantiates it | proofs |
| `RequestPath` | `workflow_requests/client.py`, `wp4d/gateway.py`, `_wakeup` and publication in `wp4d/runtime.py` | detailed |
| `RequestPathProofs` | theorems about it, and about `Release` as `MCRequestPath` instantiates it | proofs |
| `StagedEffects` | what a staged operation promises about its mutations and its verdict | abstract specification |
| `Delivery` | `normal_delivery/delivery.py` and `e3.py` over `Delivery` of `aws_runtime.py` | detailed, implements the above |
| `DeliveryProofs` | theorems about it | proofs |
| `Colors` | `recovery/application.py` over `Application` of `aws_runtime.py`, `History` of `adapters.py`, `dev_cleanup.py`, with deliveries at the same grain and the E2 head | composition |
| `ColorsProofs` | theorems about it | proofs |
| `Lifecycle` | `lifecycle/{runtime,controller,contract,packages,quiescence}.py` over E2 | detailed |
| `LifecycleProofs` | theorems about it | proofs |
| `WholeDown` | `lifecycle/{operational,dev_down,ecs_quiescence,handoff,exact_destroy}.py` | detailed |
| `WholeDownProofs` | theorems about it, and about `NatClosure` as `MCNatClosure` instantiates it | proofs |
| `NatClosure` | `nat/{closure,quiescence}.py` over the E2 head | detailed |
| `SqlBackup` | `sql-backup/host.py` and the program in `SqlBackup/*.cs` | detailed |
| `SqlBackupProofs` | theorems about it, about `BackupObserver` as `MCSqlBackup` instantiates it, and about `ColdRecovery` and `NativeRecovery` as `MCRecovery` does | proofs |
| `BackupObserver` | `sql-backup/{observer,signals,sentinel_publish}.py` | detailed |
| `ColdRecovery` | `recovery/{host,prepare,verify_effective}.py`, `bootstrap.sh` | detailed |
| `NativeRecovery` | `recovery/{native_step,native_host,activate_native_runtime}.py` | detailed |
| `Release` | `internal_release/{runtime,services,adapters,workers,publisher,e1_contract}.py`, `build_supervision/supervisor.py`, `qualification/finalizer.py` | detailed |
| `MC*` | constants of the runs; the casts of `MCMutationAuthority` and `MCNatDuties`; two systems in one run in `MCRequestPath`, `MCSqlBackup` and `MCRecovery` | instances |

The grain is the same everywhere: one action per storage or AWS operation, that
is, from one await of the outside world to the next, with all that the code does
in between. Three conventions carry the failure model.

- *A put is a message.* Sending adds it to a set of puts in flight; `Land...`
  and `Lose...` take it out at any later time, also after its sender has
  crashed. Code that ignores the acknowledgement (`Store.exchange`,
  `Delivery.put`, `finish`) goes on at once and its following read may see the
  put or not; code that does not (`Objects.create` in the gateway) waits for it
  to land or raises.
- *A mutation is a message too.* It takes effect or is lost at any later time.
- *A worker may stop anywhere* (`Crash`, `Raise`): the time limits of Lambda and
  CodeBuild are not tied to anything else. A read may fail.

`MutationAuthority`. `head` and `terminals` are the S3 objects; `pc`, `value`,
`touched` and `result` are the state of one call of `execute` and its
`Authority`. `Acquire` and `AcquireRead` are `acquire` up to and after its put;
`Call`, `Dispatch` and `CallExpires` are the guarded clients; `Schedule`,
`ScheduleRead` the attachment of the schedule proof, and `Fire` the event that
EventBridge later sends with the proof that was in the target; `Finish*`,
`SettleRead` and `ReleaseRead` are `finish` with and without a terminal. Of the
body of an operation only this is kept: it may call, may schedule, and reports
SUCCESS only if each of its effects has been observed (`Settled`), which is what
`RecoveryJournal` shows of a journal.

`RecoveryJournal`. `records` and `puts` are stage records that are stored and in
flight, `sent` and `effect` what AWS has been sent and has done, `run`, `pc`,
`stage`, `effects`, `reconciled`, `preparing` the local state of `execute`. The
three except clauses are `JournalFails`, `Rejected` and `Hold`/`Observe`'s
uncertain ends. Runs of an operation follow one another: the emergency build is
started at most once (`OneStart` below) and the cleanup and NAT functions have
a reserved concurrency of 1.

`NatDuties`. `eip`, `route`, `check`, `listed`, `leaving` are the slot in EC2 and
its group; `intent`, `attempt`, `ack`, `observed` the journals; an operation is a
pair of an instance and a duty, as its id is derived from event and duty. The
storage failures of the journal are those of `RecoveryJournal` and are not
repeated. `DevGuard` chooses between the guard of the dev packages and that of
the prod packages. The readiness check (`reliability.verify`) is taken look by look:
`Verify` has one disjunct for each describe call of the resolver and of `assess` whose answer the
model tells apart, a look that saw what must not be begins the next pass, and
`VerifySucceeds` returns without looking again. The contexts that the duties' own guards
read are one step each; a guard that has passed binds nobody, as the call it admits may
land much later anyway.

`RequestPath`. `stored` and `bridges` are the keys of the gateway and the public
status, `client`, `pc`, `build` the three parties. One operation id is followed,
with any number of clients and requests. A key holds the invocation that wrote
it, from which its bytes follow. The status of the controller is any.

`Delivery`. One invocation of `run_owned`, to its end. `records` and `late` are
the create-only records that are stored and those whose lost put may still land;
`service` is the inactive ECS service, `flight` and `landed` the mutations;
`pc`, `stage`, `pass`, `preparing`, `error` the place in the code. Each place is
an action: `Accept`, `Reconcile`, `Resume` (reconcile and the two ways into
`deliver`), `Before`, `Effect`, `Plan`, `Attempt`, `Guard`, `Call`, `Observe`,
`Evidence` (one stage), `Registered`, `AfterPreparation`, `Startup`, `Gate`,
`Final`, `AfterSwitch`, `Receipt`, `Written` (between the stages), `Uncertain`
(the except clauses of `run`), `Conclude`, `Recover`, `Readback`, `Topology`
(`run_owned` and `recover_post_switch`). `fresh` is whether ECS moved since the
last look, which is how the gap before the listener write shows. Left out: the
second invocation, as it never gets the E2 grant again (the terminal or the held
head is in its way), and authorization, which is pure and read here as an answer
that may change. `StagedSpec` is the refinement of `StagedEffects`; it also
discharges, for a delivery, what `MutationAuthority` assumes of a body as
`Settled`.

`Colors`. Both colors under many operations, one after another. `normal`,
`candidate`, `service`, `rule` are what AWS has, `flight` a call whose answer was
lost, `events` the scheduled events on their way, `history` the index of
successes, `head` the part of E2 that matters here, `op` the operation under
way. An operation prepares (`PrepareDelivery`, `PrepareEmergency`,
`PrepareCleanup`: the configuration, a look, the choice of colors and stages),
goes through its stages (`Guard`, `Call`, `Observe`), looks a last time
(`Final`), publishes if it is a delivery (`Publish`) and finishes. What the
other modules show is taken as it is: an admission is one step
(`ExclusiveEpochs`), a stage is sent once and verdicts are true
(`RecoveryJournal`, `StagedEffects`). `activated` is a history variable: the
releases that passed E3, with their colors. `Takeover` is the operator who ends
a hold as `terraform/docs/e2-environment-mutation.md:82-86` demands, with nothing
under way any more. `Drained` chooses the packages: in dev a scale-down counts
as settled once the ALB has forgotten the targets.

`Lifecycle`. A gateway is an invocation: `GatewayBegin`, `GatewayCheck` (the
contract, and an earlier request), `GatewayPut`, `GatewayStart`, `GatewayMap`,
with `GatewayLoses` and `GatewayFails` for calls that raise, having had their effect or not. A build
is `BuildBegins`, `BuildFinds` (the mapping), `BuildGivesUp` (after a hundred
looks), `BuildReads`, then `Plan`, or `Acquire`, `Plan`, `Intent`, `Apply`,
`Terraform`, `Verify`, `Complete`, `FinishTerminal`, `Release`, `Publish`; it
may die at every one of them (`Dies`), and a lost put or apply is a fault that
raises. `infra` is absent, present or partial (an apply that raised), `serial` the
number of changes of the state, with which a saved plan is compared. Deliveries
take and give back E2 and start tasks.

`WholeDown`. `Next == Environment \/ Invocation`. `pc` and `at` are the place in
`operational.py` and the layer; a gate (`Observe`, `Publish`, `LookAgain`) is the
sample before a stage, a dispatch, a readback and after it. `Raise` is possible at every
place, with and without the effect of the step it stands at, since every record
is a put whose answer may be lost; `Crash` ends the process. `decision` and
`attempted` are create-only slots, so that claim and withdrawal race in one put.
Time is a clock of few ticks: samples are held against `HoldSeconds` and
`FreshSeconds`, approvals against `Expiry`. Two facts of the installation are
chosen by `Init`: `ports` (`shipped`: the closure of NAT, the proof of the ECS
boundary and the residual inventory are those of the repository, which always raise;
`installed`: ports that answer, as in the tests) and `route` (`distinct`:
`publish_prepared` prepares each layer under an owner of its own; `common`: one
owner for all, as the design has it).

`NatClosure`. A process reads the head, checks it (`Check`, with the E2 head as
it is then), puts, reads back; its `goal` is the state it wants the permit or
the closure in. `flying` are puts that raised and may still land: they do only
if the head is what they expect. `Send`, `LateEffect`, `Respond`, `Ack` and `Observe` are the
transport and its journal. `Closing` is the other side: `Acquires`, `Request`, `CheckClose`,
`Inspect`, `Report`.

`SqlBackup`. `Job(j)` is `host.py run` (`Lock`, `Start`, `Refuse`, `Succeeds`,
`Completes`, `Fails`, `Expires`, `Killed`), `Program(j)` the program (`Open`,
`Dump`, `Put`, `Get`, `WriteReceipt`, `WriteSuccess`, `WriteAttempt`, `ChildFails`
and, as cleanup, `Delete`, `Cleaned`). `Land` is a put of a dead or failed
sender, `Reboot` takes processes and locks away but not the disk. The operator is
`Inhibit`, `Report`, `GivesUp`, `Resume`. `ended` and `told` are histories.

`BackupObserver`. One activation: `Begin`, `Observe`, `Persist`, `Save`, `Count`,
`Attempt`, `Send`, `Note`, `Unlink`, with `Block` on a denial, `Raises`, `Dies`
at each write, and `Reconcile`, the operator who removes a leftover lock.

`ColdRecovery`. `Programs` gives each action of `host.py` as a sequence of steps;
a process is an action and a place in it, and each step is an action of the
module (`Verify`, `Query`, `Bind` are the three looks of the runtime check,
`Stop`, `Configure`, `Start` those that a transition records as phases).
`RunStage` is `bootstrap.sh`. A step that refuses or raises ends the process
(`Ends`), with or without its effect. `Restart` is a reboot, or SQL that ends and
comes back, perhaps under the same process id.

`NativeRecovery`. `Fence` and `Restore` are likewise sequences of steps of a
command on a host; `Operates` is `native_step.py` (`Check`, `Intent`, `Send`,
`DispatchResult`), `Deliver` SSM, which may be late, `Works` the host. Meanwhile
`TasksChange`, `Connect`, `Write`, `Fires` and `JobEnds` go on, and hosts reboot.

`Release`. `objects` are the create-only keys and `late` the puts that raised and
may land. `gateway` is the one invocation of each operation (`Request`,
`StartBuild`, `Stores`, `Answers`). `outer` is its build: `Finds` and `GivesUp`
(the sixty looks of `runtime.py`), then the stages of the supervisor (`Acquire`,
`Seal`, `RunDotnet`, `BuildImage`, `PublishImage`, `PublishManifest`,
`ReadManifest`, `Probe`) and the record (`Persist`, `Reread`, `Confirm`,
`PutTerminal`); the digest it built and the record it means to leave are what it
remembers, and its last place is what CodeBuild says of it. One worker runs all stages of its
kind, so that a failing test is told as a failed restore and nothing is lost by
`RunDotnet` being one step. `finalizer` are the invocations for the end of a
build (`Wake`, `Examine`, `Qualify`, `Look`, `Show`). Any call may raise
(`GatewayRaises`, `Raises`, `FinalizerRaises`) and a build may die anywhere (`Dies`);
each is a fault. Reads of several keys are one step where the keys are create-only
and only their presence counts. `told` is a history of `Status`.

Three pairs of systems that share nothing are checked in one run each: `part`
says which of them a behaviour is of.

## Runs

| run | checks | shows |
| --- | --- | --- |
| `succession` | `TouchedIsReleasedWithSuccess`, `EffectsFenced`, `CleanupFresh`, `DecidedIsRetained`, refinement of `ExclusiveEpochs` | two scheduling operations and a cleanup, or overlapping invocations of one operation and another, contend for one environment |
| `emergency` | `AtMostOnce`, `InOrder`, `DecidedIsKnown` | three runs of four stages with a switch |
| `nat` | `ObservedStands`, `DutiesIndependent`, `SuccessCertifies`, `Recovered` | a slot and its replacement, repeated events, up to three faults |
| `shared` | `OneStart`, `SuccessIsOwn`, `AcceptedIsFindable`, `Qualified`, `Released` | three clients of one operation id, two requests; or an internal release, alone or with another of the same source |
| `delivery` | `ServesAccepted`, refinement of `StagedEffects`, `Recovers` | an owned delivery with up to three faults |
| `colors` | `ServesActivated`, `EmergencyPossible`, `RemovesOwnSchedule`, `ScheduledIsCleaned` | three operations on both colors, one fault, one takeover, dev packages |
| `lifecycle` | `HeldUnlessDone`, `ChangedAsRequested`, `Answered` | a create, a teardown and a plan of one layer, one lost call or death |
| `down` | `InOrder`, `HeldUntilDown`, `SamplesSuffice`, `DispatchedIsApproved` | the whole DOWN with withdrawals, expiry, tasks and crashes, shipped and installed |
| `closure` | `Accounted`, `ClosedToNew` | two duties and the operation that closes |
| `backup` | `Restorable`, `InterruptedBlocks`, `Announced` | three jobs, or three observations |
| `recovery` | `FencedAndReachable`, `PhasesTell`, `OneProcess`, `NothingLost` | a cold recovery with two directories, or a native one with two new hosts |
| `deadline` | `DeadlineBlocks` (violated) | see [Divergences](#divergences) |

The typing of a module (`TypeOK`) is a conjunct of its first safety invariant, so
that its run checks both: `ServesAccepted`, `ServesActivated`, `ObservedStands`,
`HeldUnlessDone`, `HeldUntilDown`, `Accounted`, `Restorable`, `Announced`,
`FencedAndReachable`, `NothingLost`, `Qualified`. The typing of `MutationAuthority`,
`RecoveryJournal` and `RequestPath` is proved on its own.

*Bounds.* All bounds are constants of the modules and named in the `.cfg` files;
the theorems hold without them.

- `succession`: each of three invocations is granted once in every order, which
  is all they can be (`MaxGeneration` 3); one cast is two deliveries and the
  cleanup of either, the other two invocations of one operation with another
  operation between them. That the limit itself refuses a contender is not
  reached here; `TypeCorrect` and `Implements` cover it for every limit.
- `emergency`: three runs are a first one, one that meets its leftovers, and one
  that meets those of a retry; the four stages are those of an emergency, and the
  theorems cover the three of a cleanup, where no stage is the switch, and the one
  of a NAT duty.
- `nat`: two instances are a predecessor and its replacement, in both orders of
  their events; two invocations are a delivery and the one retry that Lambda makes
  (EventBridge's own come before an invocation); faults are crashes, lost
  answers, expiries and untimely replacements. Four casts: all duties without a
  fault; one duty with three faults over a replacement; `disable_sdc`, alone or
  beside another duty, of one instance, invoked twice with a fault; and a call of the
  first instance whose answer is lost while its successor, launched early, has all
  its duties done. The second leaves out duties in each other's way, which is the subject of
  the others. The fourth is where a call could land between two looks of the readiness
  check, or between the last one and its SUCCESS: it takes three faults, two instances and four
  operations, and with a resolver that passes over a second listed member
  (the mutant) TLC finds it.
- `shared`: two equal clients and one that differs. A release alone has two
  faults, so that a put that raises can land against the terminal that another raising
  put follows, and two invocations of its finalizer; two releases, which meet in
  nothing but a digest, its image and its manifest, have one fault and one
  invocation each, and are not asked for a status, which no other release can change.
- `delivery`: three faults are one before the switch, one after it and one in the
  recovery pass, alone and in any order and place.
- `colors`: three generations are a delivery, what follows it and what that meets
  (its cleanup, a second delivery, an emergency, in all orders); one fault is one
  operation that breaks off, one takeover its successors; `Count` 2 tells a task
  that is lost from a color that is down. The properties but `ScheduledIsCleaned` were also explored with
  four generations, two faults, two takeovers and `Count` 1.
- `lifecycle`: two gateways and two builds are what it takes for one request to be
  sent twice, or for two requests to meet; one fault reaches every place, and
  shows what the one that follows meets.
- `down`: one task that starts, lingers and fails; eleven sample slots (the code
  has sixteen) are one more than the gates use, so that the drain can take one too many; two
  ticks of hold and of expiry, one of freshness; one interference of others.
- `closure`: two duties are one that is ahead of the closure and one that is
  behind, or both on either side; three generations are the seed, the closing
  operation and one before it; one put that lands late at a time; the permit limit of the code, which only
  refuses, is 2. Duties are alike (symmetry).
- `backup`: three jobs with one kept copy are the kept, the disposable and the
  one under way; two times are enough for a clock that is set back. Three
  observations with two attempts each and three calls in all exhaust either
  bound. Jobs are alike (symmetry).
- `recovery`: one directory goes the whole way, the other takes the prepared
  recovery and tries the transition; one process id, so that it is always used
  again; three starts of SQL are the first, that of a transition and one of a
  reboot. Two hosts, two evidence directories, one row that is written and two
  backups are one of each more than a recovery needs. Evidence directories are
  alike (symmetry).

*Deadlock* is not checked in most runs: these systems stop when their operations are
over, and a held environment stays held by design. It is checked in `backup`,
where the next activation and the operator always can do something.

*Fairness.* `Spec` of `Delivery` has weak fairness of the invocation itself
(`RunOwned`): the runner is one process that is not descheduled for ever. It
assumes nothing of ECS, records or calls in flight. `FairSpec` of `Colors` has
weak fairness of the worker (`Work`; that it stops is the action `Stop`, a fault,
which nothing forces), of ECS towards the desired count, of the ALB's
deregistration, of the rule that fires at a rate and of the handling of its
events. `FairSpec` of `NatDuties` has weak fairness of each
duty (EventBridge and Lambda invoke it and it runs on: `terraform` sets retries
and a maximal event age, and a function that is running is not stopped before its
time limit, a fault that `MaxFaults` 0 leaves out), of EC2 (a call is applied or
refused) and of the other slot's return, within the cast
(`CastSpec` in `MCNatDuties`). Replacement itself is not fair: nothing
makes a group replace a healthy instance. `FairSpec` of `Lifecycle` has weak
fairness of the steps of each gateway and of each build: Lambda and CodeBuild
run what was started to its end or to its death, which is a fault that nothing
forces and after which `Answered` excuses that build's own request only; the hundred
looks of a build outlast a gateway that goes on (where they do not, it is as if the build had
died while it waited); that a gateway is invoked,
that others give E2 back and that calls are lost is not fair. `Fairness` of
`Release` is weak fairness of what was started (a gateway, a build, an invocation of the
finalizer) and of the first announcement of a build's end, which EventBridge
delivers at least once (the rule `e1-release-completion` in
`terraform/infra/security/modules/controller_compute/main.tf.json`); requests, faults, late puts, statuses and
further announcements are not fair. In a behaviour of the request path no release has
begun, and it demands nothing. The whole DOWN,
the closure, the backups and the recoveries are checked for safety only: each
may stop for good, and then waits for its operator. The other protocols promise no
progress: E2 trades availability for safety, and a lost answer may block an
operation for good.

Each property has a mutant: a definition next to the original that
carries a plausible bug (a dropped comparison, a missing check, an effect that is
not awaited) and that TLC finds to violate the property.

## Proofs

All are for any values of the constants under the modules' assumptions, which TLC
evaluates on every run: `AuthorityAssumption`, `NullAssumption`,
`JournalAssumption`, `PathAssumption`, `FaultsAssumption`, `LifecycleAssumption`,
`DownAssumption`, `ClosureAssumption`, `ColorsAssumption`, `NatAssumption`, `NoIntentAssumption`,
`BackupAssumption`. They say that the bounds are natural numbers, that
the value for nothing is none of the values, and which operation is whose. A module
that is instantiated by an `MC*` module has its assumption made there: `ReleaseHolds`,
`JournalHolds`, `ClosureHolds`, `WatchHolds`, `ColdHolds`, `NativeHolds`. The theorems hold for
any number of invocations, operations, stages, runs, clients, builds, tasks,
ticks, lost calls, interferences, hosts, directories and backups.

In every module the property to be proved is not inductive by itself: it speaks of
what was done, and what may be done next depends on where each process stands,
on what it remembers, and on puts that may still land. The inductive invariants add
just that, as named conjuncts; a lemma for each action, or for a few that are alike,
shows that it keeps each of them.

*`MutationAuthorityProofs`.* `TypeCorrect`: typing is inductive with
`ValueIsOwn` (an invocation past its admission remembers an ACTIVE head that it
wrote itself) since the values that are put next are derived from it. `Fenced`
(`EffectsFenced`): inductive with `PutsAreOwn` and `FinishedIsSettled`. The
argument: a conditional put lands only on the head it expects, and a head of an
owner is replaced only by puts of that owner; those exist only while its
invocation may still act or after it decided to release, and it decides so only
when none of its calls is in doubt. `Implements`: with the fencing invariant as a
lemma, every step maps to an acquisition, an effect of the holder, a release, or a
stutter of `ExclusiveEpochs`. `DecidedRetained` (`DecidedIsRetained`): terminals
are created once, so the verdict an invocation has read back remains.
`CleanupsAreFresh` (`CleanupFresh`) adds to fencing that the schedule in the head,
and in every put of a cleanup, is that of the newest activation (`FreshInv`): a put
that would admit a cleanup after another activation expects a head that is gone.
`GivenUpWithSuccess` (`TouchedIsReleasedWithSuccess`) adds that a put which releases
a touched domain, landed or not, names a retained SUCCESS of its generation, and that an
invocation which settles a FAILURE has touched nothing (`ProvenInv`).

*`NatDutiesProofs`, the journal.* One inductive invariant, `JournalInv`, gives four theorems:
typing, `AtMostOnce`, `InOrder`, `DecidedIsKnown`, and two strengthenings.
`Evidence` says what stored and pending records prove about AWS (an
acknowledgement or observation: applied; no attempt, stored or pending: never
sent); `Progress` what the place of a run proves (the stages it holds are
applied, the one it is about to send was not sent). `DecidedIsKnown` alone is not
inductive: it holds after a run only because `Progress` held within it.
`MCRecoveryJournal` instantiates the journal over variables of its own, so that this
module can extend it together with `NatDuties`, whose duties keep such journals.

*`NatDutiesProofs`, the duties.* One inductive invariant, `DutiesInv`, for three
theorems. `ObservedStandsAlways` is stronger inside than it reads: a recorded result
stands while its instance is listed at all (`ResultTells`), because an intent is
only made for an instance that is listed alone (`FirstTells`), so that of two
instances with intents the older one is gone and EC2 refuses what it still has
in flight. `DutiesIndependentAlways` follows an operation that nothing
disturbs from place to place (`CalmTells`, `Smooth`); its hypothesis is `DevGuard`, the
overlay of the dev packages, because with the exact guard of `nat.py` the
property is false, as its mutant shows. `SuccessIsCertified` is about looks at
different times. What a pass has seen at each of its places is in `SeenTells`: it stays
true until the return because the instance has an intent, made when it was listed alone:
while it is listed no older one is and no younger one has an intent (`FirstTells`), so that EC2
refuses whatever others have in flight, and what its own duties have in flight can only set
what the pass wants to see. It needs no assumption on which duties are started: a pass waits
for the address and the route, whoever sets them.

*`RequestPathProofs`.* `StarterWroteAttempt` (whoever sends StartBuild wrote the
stored attempt) gives `OneStart`; `ComparedAgrees` (past the comparison, the
stored operation is one's own request), `BridgesExist` (a stored or pending
bridge belongs to a build that exists) and `StatusesEarned` (a status is that of
a build that woke) give `AcceptedIsFindable` and `SuccessIsOwn`.
The internal release is proved about there too, as the run checks it, over
`BothSpec`: `QualifiedAlways` (`Qualified`). Keys are create-only, hence what has
passed stays so; `BuildTells` says what a build has stored when it means to leave a
success, `EvidenceTells` that a finalizer at, or a late put of, the qualification
belongs to a build that passed, `ToldTells` that a status agrees with the record.

*`DeliveryProofs`.* `DeliveryIsStaged` is the refinement of `StagedEffects`: a call is
a send, an effect that lands late is a landing, the return is the report, all else
stutters. It needs that the mutations were sent in turn and what the records and puts under way prove of them
(`JournalTells`), and that the invocation, wherever it may send the next one, knows that all
before took effect (`PlaceTells`): what is in doubt keeps it among the places that only
look, conclude or hold. `ServesAcceptedAlways` (`ServesAccepted`) needs besides that
the recovery pass prepares nothing again (`PassTells`) and that the cohort of the
service is the accepted one wherever `fresh` says that ECS has not moved (`CohortTells`).

*`LifecycleProofs`.* `HeldUnlessDoneAlways` and `OnlyAsRequested`
(`ChangedAsRequested`). A request is created once, so one gateway carries it and one
build is mapped to it (`Mapped`); from its check of the owner to its release a build is
the holder, hence nobody else changes the layer meanwhile (`BuildTells`); and only that
build completes its operation and writes its terminal (`RecordsTell`).

*`WholeDownProofs`.* One invariant, `DownInv`, for all four properties. `InOrderAlways`: the place
among the layers says which are verified and gone (`OrderTells`), and once a
sample was quiet it stays quiet, because only a service that is up starts a task and
none is turned up again (`CalmTells`); each color is sent once as its attempt is retained
first (`DrainTells`). `HeldUntilDownAlways`: without a manifest nothing was done, and with one the
holder changes only at the release (`StartTells`, `ClosingTells`). `SamplesSufficeAlways`: the
samples since the drain are counted by the gates behind the invocation
(`SampleTells`). `OnlyApproved` (`DispatchedIsApproved`): what `Apply` compared still holds at
the destruction, as the grant and the state change only outside the run; and of
approvals prepared one by one the last, that of `edge`, is the only one that
expects the next grant (`ApprovalTells`).

*`WholeDownProofs`, the closure.* `ClosureInv` gives `AccountedAlways` and `ClosedStaysClosed` (`ClosedToNew`). Every
put was made from the head it expects and is lawful with respect to it: it closes,
or moves one permit one step (`PutsAreLawful`). So the head itself moves only
in such steps, however late a put lands. `PlaceTells` says what an
invocation has sent, `ReportStands` that what was found pending bounds what still is.

*`ColorsProofs`.* One invariant, `ColorsInv`, for the three safety properties.
`ServesActivatedAlways`: a mutation does no harm because of what its guard saw, and
that stays true until the call takes effect, even when this is long after the
operation stopped (`CallTells`). The guard of a scaling or an attachment sees the
listener on the other color, since the routes must agree with the stages that are
left (`TopologyTells`); a switch is reached only through E3, or to a color whose
history names its release (`PlaceTells`, `ServiceTells`). `EmergencyPossibleAlways`
follows the other color from the first mutation, after which a rejection holds the
environment, to the publication (`ReturnTells`). `RemovesOwn` (`RemovesOwnSchedule`)
needs the order of generations: until an operation attaches its schedule, the
proofs in the rule and in the events are of earlier ones (`ScheduleTells`). The
stages that are left are one of a dozen tuples (`LeftIs`), so no induction over
sequences is involved.

*`SqlBackupProofs`, the backup.* `BackupInv` gives `RestorableAlways` (`Restorable`) and
`InterruptedIsReviewed` (`InterruptedBlocks`). The place of a program says what it has put
and read back, so a manifest that is put, even by a late call, has its backup beside
it (`ProgramTells`), and a receipt or `last-success.json` has both (`CopiesTell`). Two
programs never hold `operation.lock` at once (`OneProgram`), even where one outlives its
host's process; so what a cleanup saw stays true until it deletes. After an interruption
the last outcome is STARTED or UNKNOWN and nobody works (`LockTells`).

*`SqlBackupProofs`, the observer.* `WatchInv` gives `AnnouncedAlways` (`Announced`).
An observation is pending before the state accounts for it, and what is pending is the one
that was last made (`ActivationTells`); it is only removed once the queue has it
(`NoticesTell`); and as its attempts are counted on the disk before a call, the calls
are never more (`CallsTell`). The state accepts what `transition` makes of it, hence the
next activation never refuses what was saved.

*`SqlBackupProofs`, the cold recovery.* `ColdInv` gives `FencedAlways`
(`FencedAndReachable`), `PhasesTellAlways` (`PhasesTell`) and `OneProcessAccepted`
(`OneProcess`). The place of a process in its program says what it has checked: past
its fence the source is terminated, a transition, a review and a connection come after the
receipt of a restore, and a transition has recorded as many phases as it has passed
(`StepTells`). What is down, or
moved to the private address, is so because of a recorded phase (`TargetTells`).
Starts of SQL and writes of its configuration are counted, so what a runtime check saw
is either still so or of an earlier count (`SeenTells`); that the answer came between
two looks with the same count is what makes it the answer of the process that was
checked, though process ids are used again.

*`SqlBackupProofs`, the native recovery.* `NativeInv` gives `NothingLostAlways` (`NothingLost`).
The intent of a directory and that of a host are made exclusively, so that one command
is sent of a kind from a directory and no second fence gets past its first step
(`SentTells`, `OneFence`). Once the source is read-only its rows stay, and every backup
that is started or ends from then on has them (`FenceTells`), so the receipt of the one
fence that succeeded is of all the source had. A restore names that receipt, from the
directory of that fence, and only once the source is terminated; so there is one, on one
host (`RestoredTells`, `OneRestored`).

*Model-checked only:* liveness (`Recovered`, `Recovers`, `ScheduledIsCleaned`, `Answered`,
`Released`), which is out of this prover's reach, as are `ENABLED` and induction over
data. Every invariant and every other action property of a passing run is stated by a theorem.

## Divergences

A run shows one of them.

- `deadline`: when the backup program ends at its own deadline it writes
  `DEADLINE_EXCEEDED` to stderr (`SqlBackup/Program.cs:78-83`), while `host.py`
  looks for it in stdout (`host.py:96-97`), so that the outcome is
  `FAILED_OR_UNCONFIRMED`, which does not block the next activation;
  `operations/sql-backup/README.md:264-265` says that an interrupted or deadline job blocks
  it until review. A job that is killed, rebooted away or timed out by `host.py` itself does
  (`InterruptedBlocks`).

The models contain these too; the properties that are checked are stated around
them, or the run chooses the variant that has been corrected.

- `execute` reads the terminal of its operation and acquires afterwards
  (`environment_mutation.py:302-305`), and `acquire` compares with the operation
  of the last head only (`:171`). If an invocation pauses between the two while
  an overlapping invocation of the same operation completes and a third
  operation acquires and releases, it is granted the environment although its
  operation has its terminal; `terraform/docs/e2-environment-mutation.md:69-71`
  says that retries return historical status without acquiring. As deployed,
  overlapping invocations of one operation are unlikely (`OneStart`, reserved
  concurrency); and by `DecidedIsRetained` the verdict reported remains the
  retained one.
- The guard of the prod packages compares the results of the sibling NAT duties
  too (`recovery/nat.py:93`, `DevGuard` FALSE), so that a duty fails when a sibling
  progresses; `terraform/docs/e13-nat-reliability.md:143-145` says that the
  handlers complete independently. The document reports the incident and its
  correction for dev (`:307-352`).
- In the prod packages a scale-down counts as applied once ECS runs no task of the
  color (`wp4d/aws_runtime.py:404-409`, `Drained` FALSE), and the next guard's look rejects the
  target that the ALB still drains (`:138`), so that a cleanup ends in FAILURE and
  holds the environment although nothing went wrong.
  `terraform/docs/e1-wp4c-bounded-recovery.md:98-100` says that ECS may still be
  draining and desired zero is the result; `terraform/docs/deployment.md:415-455`
  reports the incident in dev and its correction there (`wp4d/dev_cleanup.py`).
- The samples of a whole DOWN list tasks whose desired status is RUNNING
  (`ecs_quiescence.py:201`): one that started after the baseline and was told to
  stop before the next sample is never looked at;
  `terraform/docs/e15g-operational-teardown.md:48-49` demands tasks that are
  actually STOPPED. `InOrder` speaks of the tasks that were seen.
- Of a whole DOWN as shipped nothing is destroyed, since three of its ports always
  raise; with approvals prepared by the only publisher in the repository, each
  under an owner of its own, nothing after `edge` is (both in `DispatchedIsApproved`).

What the code leaves to its operator, met while modelling:

- A retry whose guard raises after the attempt was retained, or whose 600 seconds
  are over, fails although nothing was sent, or although all was done
  (`recovery/journal.py:102, 169`); the environment stays held.
- A build gives up when its bridge is not there within 30 seconds
  (`wp4d/runtime.py:124`), while the gateway may store it later and answer ACCEPTED.
- An internal release whose build dies before it has left a record, or whose put of
  the terminal is lost, is told as incomplete for ever (`supervisor.py:474-491`): nothing else
  writes the slot, and the finalizer raises for it. `Released` excepts it.
- A second build that yields the digest of an earlier one is refused at the manifest, whose
  bytes name the earlier operation, even if that one failed after it had stored it.
- A finalizer that finds the public success stored by another between its look and
  its put raises, though the bytes are the same (`internal_release/runtime.py:115`); its retry finds it and is done.
- An emergency raises while a task of either color is pending or a target
  lingers (`recovery/application.py:84`); the readback of its schedule does not look at the
  State of the rule (`wp4d/aws_runtime.py:435`); observing one NAT slot requires
  both to be in service (`wp4d/nat_resolver.py:124`).
- Two directories on one host may both pass the loopback check of a listener
  transition (`recovery/host.py:474-491`); a warm recovery rests on a `systemctl
  stop` that a reboot undoes (`:637-646, 700-705`); after the configuration has changed a reboot
  brings SQL up on the private address without the start phase, and the connection
  version asks for no transition receipt (`:558`). `PhasesTell` and
  `FencedAndReachable` hold with all of this.
- A fence of a native recovery that was interrupted cannot be resumed
  (`native_host.py:151-158, 238-241`).
- An observer that dies between the pending observation and its state tells the
  first attention, and never the recovery from it (`sentinel_publish.py:85-90`); a job that hangs
  in STARTED reads as HEALTHY until the backup is stale (`observer.py:47-50`).
- `inhibit` does not look at its marker again after waiting (`host.py:58-65`);
  after a failed backup that left no receipt every cleanup is partial, and the job
  ends `FAILED_OR_UNCONFIRMED` although the backup was made (`Cleanup.cs:26-36`,
  `host.py:101-102`).

## Not modelled

- Contents and wording: the shape of requests and records, digests, ARNs, task
  definitions, signatures, Terraform's plans (they are right or refused). A damaged
  record is a read that fails.
- Authorization (`normal_delivery/authorization.py`): a pure function of
  protected facts; in the models a guard passes or raises.
- Time is the order of events, flags that a deadline has passed, and, in
  `WholeDown` and `SqlBackup`, clocks of a few ticks. The ages by which the
  recovery bounds its plans and receipts are refusals.
- Of the backup program: the configuration checks, the local-only mode, the previews and
  receipt replay of `Program.cs`. Its packaging, credentials and installation are
  deterministic archives and steps taken once with the service stopped.
- IAM, Terraform, workflows, CI, the portfolio, tests: configuration or
  presentation. Facts of the deployment that the models rest on: the SDK makes
  one attempt (`wp4d/runtime.py:95-105`); reserved concurrency 1 and event
  retries (`terraform`, controller compute).
- NAT native checks (`nat/native.py`, `nat/scope.py`): pure checks of facts.
- The retired shell deployment and the legacy Lambdas: replaced by normal
  delivery, Cleanup and the installed duties.
- The demo API: a CRUD service without protocol.
- Administrator scripts: sequential checks of files and of AWS answers, run once with
  everything stopped.
- Of the internal release: `worker.py`, which runs inside the workers, the choice of a
  recipe, the loading of bundles, the shapes of what is exchanged with CodeBuild.
- The .NET integrations (`operations/integrations`): see the plan.

## Plan

1. *(done)* `ExclusiveEpochs`, `MutationAuthority`, proofs: the exclusion that
   everything else rests on.
2. *(done)* `RecoveryJournal`, proofs: what a journal's verdict means.
3. *(done)* `NatDuties`: concurrent duties over journals.
4. *(done)* `RequestPath`, proofs: how one request becomes one operation.
5. *(done)* `StagedEffects`, `Delivery`: the owned delivery and its recovery pass.
6. *(done)* `Colors`: deliveries, emergencies and cleanups over both colors, the
   routes, the schedule and the index of successes.
7. *(done)* `Lifecycle`, `WholeDown`, `NatClosure`: one layer, the whole DOWN, and
   the closure of NAT admission.
8. *(done)* `SqlBackup`, `BackupObserver`: the host's job under crashes, and its watch.
9. *(done)* `ColdRecovery`, `NativeRecovery`: the two ways back.
10. *(done)* `Release`: internal release, build supervision, qualification.
11. The cursor store and the incident policy of the .NET integrations.
12. *(done)* Proofs of the closure, of the remaining invariants of `MutationAuthority`, of the
    release, the lifecycle, the whole DOWN, of `Delivery` with its refinement, of `Colors` and
    of `NatDuties`, of the backup and its observer, of both recoveries.
