---------------------------- MODULE WholeDownProofs ----------------------------
(***************************************************************************)
(* Proofs about WholeDown, for any number of tasks, samples, ticks and      *)
(* interferences: the layers are destroyed in order and after ECS is quiet, *)
(* each under its own current approval; E2 is held until the environment is *)
(* down; and the gates do not run out of samples.                           *)
(*                                                                         *)
(* None of it is inductive.  The order follows from where the invocation    *)
(* stands among the layers (OrderTells) and from the quiet that lasts once  *)
(* it was seen (CalmTells), because only a service that is up starts tasks. *)
(* That an approval still holds at the destruction needs every check since  *)
(* (ApprovalTells), and that nothing moves the grant while the run owns E2  *)
(* (StartTells).  The samples are counted gate by gate (SampleTells).       *)
(*                                                                         *)
(* The second part is about NatClosure, which the whole DOWN asks to close. *)
(***************************************************************************)
EXTENDS WholeDown, MCNatClosure, TLAPS

\* Before the first gate, from the first gate to the last record of a layer, after.
Early   == {"idle", "run", "guard", "begin", "blue", "green", "send", "drain"}
Working == Gates \cup {"plan", "apply", "claim", "consume", "terraform", "verify", "complete", "retain"}
Ending  == {"residual", "publish", "finish", "release"}

\* While it runs the invocation owns E2; without a manifest nothing was done.
StartTells ==
  /\ Running => holder = "down"
  /\ pc \in {"idle", "run"} => ~manifest
  /\ ~manifest => /\ pc \in {"idle", "run", "done", "dead"}
                  /\ drains = {} /\ drainSamples = 0 /\ sent = {} /\ verified = {} /\ at = 1
                  /\ closing = "none"
  /\ manifest /\ holder = "none" => closing = "terminal"
  /\ pc \in Early => drainSamples = 0 /\ sent = {} /\ verified = {} /\ at = 1 /\ closing = "none"
  /\ pc \notin Stopped \cup {"run", "guard"} => ports = "installed"

\* The color that is about to be drained was not drained.
DrainTells ==
  /\ \A c \in Colors : drained[c] <= 1 /\ (drained[c] > 0 => c \in drains)
  /\ pc \in {"idle", "run", "guard", "begin", "blue"} => drains = {}
  /\ pc = "green" => "green" \notin drains
  /\ pc = "send" => /\ "green" \in drains => drained["green"] = 0
                    /\ "green" \notin drains => drained["blue"] = 0

Calm == /\ service["blue"] # "up" /\ Live = {}
        /\ \A t \in known : task[t] = "stopped"

\* After the drain was seen to be quiet it stays quiet.
CalmTells ==
  /\ drainSamples > 0 => Calm
  /\ pc \in Working \cup Ending => drainSamples > 0
  /\ sent # {} => drainSamples > 0

\* The layers are taken one after the other.
OrderTells ==
  /\ \A j \in 1..5 : j < at => Stage[j] \in verified
  /\ \A j \in 1..5 : Stage[j] \in verified => j < at \/ (j = at /\ pc \notin Working)
  /\ \A j \in 1..5 : Stage[j] \in sent => j <= at
  /\ \A l \in verified : infra[l] = "absent"
  /\ pc \in {"readback", "complete", "after", "retain"} => infra[Layer] = "absent"
  /\ pc \in Ending => verified = Layers

\* What was checked of the approval of the layer still holds.
ApprovalTells ==
  /\ verified \subseteq issued /\ issued \subseteq prepared
  /\ \A l \in Layers : expects[l] <= gen + 1
  /\ route = "distinct" /\ "edge" \in prepared =>
       \A l \in Layers \ {"edge"} : expects[l] <= gen /\ (pc # "idle" => expects[l] < gen)
  /\ pc \in Working \ {"stage", "plan"} => Layer \in issued
  /\ pc \in {"dispatch", "claim", "consume", "terraform"} => expects[Layer] = gen /\ Layer \notin stale
  /\ pc \in {"consume", "terraform"} => decision[Layer] = "claimed"
  /\ pc = "terraform" => Layer \in attempted

\* The gates of this layer that are behind the invocation.
Passed == CASE pc = "stage"                                                  -> 0
            [] pc \in {"plan", "apply", "dispatch"}                          -> 1
            [] pc \in {"claim", "consume", "terraform", "verify", "readback"} -> 2
            [] pc \in {"complete", "after"}                                  -> 3
            [] OTHER                                                         -> 4

\* No sample is taken but by the drain and by these gates.
SampleTells ==
  /\ look # NoTime => pc = "residual" \/ (Sampled /\ samples < MaxSamples)
  /\ pc \in Working /\ at <= 2 => samples <= drainSamples + 4 * (at - 1) + Passed
  /\ pc \in Working /\ at = 3  => samples <= drainSamples + 8 + Passed /\ samples <= drainSamples + 10

ClosingTells ==
  /\ closing # "none" => manifest /\ verified = Layers
  /\ pc = "release" => closing = "terminal"
  /\ answer = "SUCCESS" => closing = "terminal" /\ ~Running

DownInv == /\ TypeOK /\ StartTells /\ DrainTells /\ CalmTells /\ OrderTells /\ ApprovalTells
           /\ SampleTells /\ ClosingTells
-------------------------------------------------------------------------------
(* The constants and the layers.                                            *)

LEMMA Constants ==
  /\ MaxSamples \in Nat /\ HoldSeconds \in Nat /\ FreshSeconds \in Nat /\ Expiry \in Nat
  /\ MaxTime \in Nat /\ MaxOthers \in Nat /\ NoTime = MaxTime + 1
BY DownAssumption DEF NoTime

LEMMA StageNames ==
  /\ Stage[1] = "edge" /\ Stage[2] = "apps" /\ Stage[3] = "platform"
  /\ Stage[4] = "data" /\ Stage[5] = "global"
BY DEF Stage

LEMMA LayerNames == Layers = {"edge", "apps", "platform", "data", "global"}
<1>1. 1..5 = {1, 2, 3, 4, 5}
  OBVIOUS
<1> QED
  BY <1>1, StageNames DEF Layers

\* Every layer has one place in the order.
LEMMA StageOnce ==
  /\ \A i \in 1..5 : Stage[i] \in Layers
  /\ \A i, j \in 1..5 : Stage[i] = Stage[j] => i = j
  /\ \A l \in Layers : \E i \in 1..5 : l = Stage[i]
<1>1. \A i \in 1..5 : i = 1 \/ i = 2 \/ i = 3 \/ i = 4 \/ i = 5
  OBVIOUS
<1>2. \A i, j \in 1..5 : Stage[i] = Stage[j] => i = j
  BY <1>1, StageNames
<1> QED
  BY <1>2 DEF Layers

\* Where the invocation takes samples, by the index of the layer.
LEMMA SampledAt ==
  ASSUME TypeOK
  PROVE  /\ Layer \in Layers
         /\ Sampled <=> \/ pc = "drain"
                        \/ pc \in Gates /\ at <= 2
                        \/ pc \in Before /\ at = 3
         /\ Sealing <=> pc \in Before /\ at = 3
<1>1. at = 1 \/ at = 2 \/ at = 3 \/ at = 4 \/ at = 5
  BY DEF TypeOK
<1>2. Layer \in Layers /\ (Layer \in {"edge", "apps"} <=> at <= 2) /\ (Layer = "platform" <=> at = 3)
  BY <1>1, StageNames, LayerNames DEF Layer
<1> QED
  BY <1>2 DEF Sampled, Sealing
-------------------------------------------------------------------------------
(* The invariant, action by action.                                         *)

LEMMA InitDown == Init => DownInv
<1> SUFFICES ASSUME Init PROVE DownInv
  OBVIOUS
<1>1. TypeOK
  <2>1. /\ infra \in [Layers -> {"present", "partial", "absent"}] /\ expects \in [Layers -> Nat]
        /\ decision \in [Layers -> {"none", "withdrawn", "claimed"}]
        /\ result \in [Layers -> {"none", "UNKNOWN", "SUCCESS"}]
    BY DEF Init
  <2>2. service \in [Colors -> {"up", "zero", "missing"}]
    BY DEF Init, Colors
  <2>3. task \in [Tasks -> {"absent", "running", "stopping", "stopped"}] /\ drained \in [Colors -> Nat]
    BY DEF Init
  <2>4. /\ now \in 0..MaxTime /\ intentAt \in 0..NoTime /\ look \in 0..NoTime
        /\ others \in 0..MaxOthers /\ samples \in 0..MaxSamples /\ drainSamples \in 0..samples
        /\ gen \in Nat /\ at \in 1..5
    BY Constants DEF Init
  <2> QED
    BY <2>1, <2>2, <2>3, <2>4 DEF Init, TypeOK, Stopped
<1>2. StartTells /\ DrainTells /\ CalmTells /\ ClosingTells
  BY DEF Init, StartTells, DrainTells, CalmTells, ClosingTells, Running, Stopped, Early, Working, Gates,
     Ending, Colors
<1>3. OrderTells /\ ApprovalTells
  BY StageOnce DEF Init, OrderTells, ApprovalTells, Working, Gates, Ending
<1>4. SampleTells
  BY DEF Init, SampleTells, Working, Gates
<1> QED
  BY <1>1, <1>2, <1>3, <1>4 DEF DownInv
-------------------------------------------------------------------------------
(* What others do.  None of it moves the invocation.                        *)

LEMMA TickKeeps ==
  ASSUME DownInv, Tick
  PROVE  DownInv'
<1> USE DEF DownInv, Tick, install, e2, approval, ecs, journal, records, place
<1>1. TypeOK'
  BY Constants DEF TypeOK
<1>2. StartTells' /\ DrainTells' /\ ClosingTells'
  BY DEF StartTells, DrainTells, ClosingTells, Running
<1>3. CalmTells' /\ OrderTells'
  BY DEF CalmTells, Calm, Live, OrderTells, Layer
<1>4. ApprovalTells' /\ SampleTells'
  BY DEF ApprovalTells, SampleTells, Passed, Sampled, Layer
<1> QED
  BY <1>1, <1>2, <1>3, <1>4

\* A task starts only for a service that is up, and none is after the drain.
LEMMA TasksKeep ==
  ASSUME DownInv, NEW t \in Tasks, TaskStarts(t) \/ TaskFails(t) \/ TaskStops(t) \/ TaskEnds(t)
  PROVE  DownInv'
<1> USE DEF DownInv, TaskStarts, TaskFails, TaskStops, TaskEnds,
            install, e2, approval, journal, records, place
<1>1. TypeOK'
  BY DEF TypeOK
<1>2. StartTells' /\ DrainTells' /\ ClosingTells'
  BY DEF StartTells, DrainTells, ClosingTells, Running
<1>3. Calm => Calm'
  <2>1. known \subseteq Tasks /\ task \in [Tasks -> {"absent", "running", "stopping", "stopped"}]
    BY DEF TypeOK
  <2> QED
    BY <2>1 DEF Calm, Live
<1>4. CalmTells' /\ OrderTells'
  BY <1>3 DEF CalmTells, OrderTells, Layer
<1>5. ApprovalTells' /\ SampleTells'
  BY DEF ApprovalTells, SampleTells, Passed, Sampled, Layer
<1> QED
  BY <1>1, <1>2, <1>4, <1>5

\* Another operation changes the state of a layer only before the run.
LEMMA OtherOperationKeeps ==
  ASSUME DownInv, OtherOperation
  PROVE  DownInv'
<1> USE DEF DownInv, OtherOperation, Interfere, install, ecs, journal, records, place
<1>1. TypeOK'
  <2>1. stale' \subseteq Layers
    BY LayerNames DEF TypeOK
  <2>2. others' \in 0..MaxOthers /\ gen' \in Nat
    BY Constants DEF TypeOK
  <2> QED
    BY <2>1, <2>2 DEF TypeOK
<1>2. StartTells' /\ DrainTells' /\ ClosingTells'
  BY DEF StartTells, DrainTells, ClosingTells, Running
<1>3. CalmTells' /\ OrderTells'
  BY DEF CalmTells, Calm, Live, OrderTells, Layer
<1>4. ApprovalTells'
  BY DEF TypeOK, ApprovalTells, Working, Gates
<1>5. SampleTells'
  BY DEF SampleTells, Passed, Sampled, Layer
<1> QED
  BY <1>1, <1>2, <1>3, <1>4, <1>5

\* The layer destroyed first is prepared last: no other expects the next grant.
LEMMA PublishPreparedKeeps ==
  ASSUME DownInv, NEW l \in Layers, PublishPrepared(l)
  PROVE  DownInv'
<1> USE DEF DownInv, PublishPrepared, install, ecs, journal, records, place
<1>1. TypeOK'
  BY DEF TypeOK
<1>2. StartTells' /\ DrainTells' /\ ClosingTells'
  BY DEF StartTells, DrainTells, ClosingTells, Running
<1>3. CalmTells' /\ OrderTells'
  BY DEF CalmTells, Calm, Live, OrderTells, Layer
<1>4. ApprovalTells'
  <2>1. /\ verified \subseteq issued /\ issued \subseteq prepared'
        /\ \A m \in Layers : expects[m] <= gen + 1 /\ (m # l => expects'[m] = expects[m])
        /\ expects'[l] = gen + 2 /\ gen' = gen + 1 /\ expects \in [Layers -> Nat] /\ gen \in Nat
    BY DEF TypeOK, ApprovalTells
  <2>2. "edge" \in prepared' => l = "edge"
    <3>1. PICK k \in 1..5 : l = Stage[k] /\ prepared = {Stage[j] : j \in (k + 1)..5}
      OBVIOUS
    <3>2. "edge" \notin prepared
      BY <3>1, StageNames, StageOnce
    <3> QED
      BY <3>2
  <2>3. \A m \in Layers : expects'[m] <= gen' + 1
    BY <2>1
  <2>4. "edge" \in prepared' => \A m \in Layers \ {"edge"} : expects'[m] <= gen'
    BY <2>1, <2>2
  <2> QED
    BY <2>1, <2>3, <2>4 DEF ApprovalTells, Working, Gates
<1>5. SampleTells'
  BY DEF SampleTells, Passed, Sampled, Layer
<1> QED
  BY <1>1, <1>2, <1>3, <1>4, <1>5

LEMMA PublishTogetherKeeps ==
  ASSUME DownInv, PublishTogether
  PROVE  DownInv'
<1> USE DEF DownInv, PublishTogether, install, ecs, journal, records, place
<1>1. TypeOK'
  BY DEF TypeOK
<1>2. StartTells' /\ DrainTells' /\ ClosingTells'
  BY DEF StartTells, DrainTells, ClosingTells, Running
<1>3. CalmTells' /\ OrderTells'
  BY DEF CalmTells, Calm, Live, OrderTells, Layer
<1>4. ApprovalTells'
  BY DEF TypeOK, ApprovalTells, Working, Gates
<1>5. SampleTells'
  BY DEF SampleTells, Passed, Sampled, Layer
<1> QED
  BY <1>1, <1>2, <1>3, <1>4, <1>5

\* Approvals are issued, withdrawn and overtaken by a new configuration at any time.
LEMMA ApprovalsKeep ==
  ASSUME DownInv, Reconfigure \/ \E l \in Layers : Issue(l) \/ Withdraw(l)
  PROVE  DownInv'
<1> USE DEF DownInv, Reconfigure, Issue, Issuable, Evidence, Packet, Select, Withdraw, PutDecision, Interfere,
            install, e2, ecs, journal, records, place
<1>1. TypeOK'
  BY Constants DEF TypeOK
<1>2. StartTells' /\ DrainTells' /\ ClosingTells'
  BY DEF StartTells, DrainTells, ClosingTells, Running
<1>3. CalmTells' /\ OrderTells'
  BY DEF CalmTells, Calm, Live, OrderTells, Layer
<1>4. ApprovalTells'
  <2>1. Layer \in Layers /\ Layer' = Layer
    BY SampledAt DEF Layer
  <2>2. CASE Reconfigure
    BY <2>1, <2>2 DEF ApprovalTells
  <2>3. CASE \E l \in Layers : Issue(l)
    BY <2>1, <2>3 DEF ApprovalTells
  <2>4. CASE \E l \in Layers : Withdraw(l)
    <3>1. decision[Layer] = "claimed" => decision'[Layer] = "claimed"
      BY <2>1, <2>4 DEF TypeOK
    <3> QED
      BY <2>1, <2>4, <3>1 DEF ApprovalTells
  <2> QED
    BY <2>2, <2>3, <2>4
<1>5. SampleTells'
  BY DEF SampleTells, Passed, Sampled, Layer
<1> QED
  BY <1>1, <1>2, <1>3, <1>4, <1>5

LEMMA LateEffectKeeps ==
  ASSUME DownInv, NEW l \in Layers, LateEffect(l)
  PROVE  DownInv'
<1> USE DEF DownInv, LateEffect, install, e2, approval, journal, records, place
<1>1. TypeOK'
  BY DEF TypeOK, Colors
<1>2. StartTells' /\ DrainTells' /\ ClosingTells'
  BY DEF StartTells, DrainTells, ClosingTells, Running
<1>3. CalmTells'
  BY DEF CalmTells, Calm, Live, Colors
<1>4. OrderTells'
  BY SampledAt DEF TypeOK, OrderTells, Layer
<1>5. ApprovalTells' /\ SampleTells'
  BY DEF ApprovalTells, SampleTells, Passed, Sampled, Layer
<1> QED
  BY <1>1, <1>2, <1>3, <1>4, <1>5
-------------------------------------------------------------------------------
(* The invocation up to the first gate.                                     *)

\* A run starts with nothing done: whatever else it did is under its manifest.
LEMMA ExecuteKeeps ==
  ASSUME DownInv, Execute
  PROVE  DownInv'
<1> USE DEF DownInv, Execute, Go, install, approval, ecs, journal, records
<1>1. TypeOK'
  BY DEF TypeOK
<1>2. StartTells' /\ DrainTells' /\ ClosingTells'
  BY DEF TypeOK, StartTells, DrainTells, ClosingTells, Running, Stopped, Early, Colors
<1>3. CalmTells' /\ OrderTells'
  BY DEF StartTells, CalmTells, Calm, Live, OrderTells, Layer, Working, Gates, Ending
<1>4. ApprovalTells'
  BY DEF TypeOK, StartTells, ApprovalTells, Working, Gates, Stopped
<1>5. SampleTells'
  BY DEF SampleTells, Sampled, Stopped, Gates, Before, Working
<1> QED
  BY <1>1, <1>2, <1>3, <1>4, <1>5

LEMMA RepeatKeeps ==
  ASSUME DownInv, Repeat
  PROVE  DownInv'
<1> USE DEF DownInv, Repeat, install, e2, approval, ecs, journal, records
<1>1. TypeOK'
  BY DEF TypeOK
<1>2. StartTells' /\ DrainTells'
  BY DEF StartTells, DrainTells, Running
<1>3. ClosingTells'
  BY DEF ClosingTells, Running, Stopped
<1>4. CalmTells' /\ OrderTells'
  BY DEF CalmTells, Calm, Live, OrderTells, Layer
<1>5. ApprovalTells' /\ SampleTells'
  BY DEF ApprovalTells, SampleTells, Passed, Sampled, Layer
<1> QED
  BY <1>1, <1>2, <1>3, <1>4, <1>5

\* The manifest is retained, the ports answer, and the ECS intent is retained.
LEMMA StartKeeps ==
  ASSUME DownInv, Retain \/ Prepare \/ Begin
  PROVE  DownInv'
<1> USE DEF DownInv, Retain, Prepare, Begin, Go, install, e2, approval, ecs, records
<1>1. TypeOK'
  <2>1. known' \subseteq Tasks /\ intentAt' \in 0..NoTime
    BY Constants DEF TypeOK, Seen, Live, journal
  <2>2. pc' \in {"guard", "begin", "blue"} /\ manifest' \in BOOLEAN
    BY DEF TypeOK
  <2>3. drains' = drains /\ drained' = drained /\ samples' = samples /\ drainSamples' = drainSamples
        /\ seal' = seal /\ invalid' = invalid
    BY DEF journal
  <2> QED
    BY <2>1, <2>2, <2>3 DEF TypeOK, Colors
<1>2. StartTells' /\ DrainTells' /\ ClosingTells'
  BY DEF StartTells, DrainTells, ClosingTells, Running, Stopped, Early, Colors, Owner, Closure, Boundary, journal
<1>3. CalmTells' /\ OrderTells'
  BY DEF StartTells, CalmTells, OrderTells, Layer, Early, Working, Gates, Ending, journal
<1>4. ApprovalTells' /\ SampleTells'
  BY DEF ApprovalTells, SampleTells, Sampled, Working, Gates, Before, journal
<1> QED
  BY <1>1, <1>2, <1>3, <1>4

\* The two colors are drained in turn, each after its attempt is on record.
LEMMA DrainsKeep ==
  ASSUME DownInv, NEW c \in Colors, DrainAttempt(c) \/ DrainSend(c)
  PROVE  DownInv'
<1> USE DEF DownInv, DrainAttempt, DrainSend, Go, AfterColor, Colors, install, e2, approval, ecs, records
<1>1. TypeOK'
  <2>1. service' \in [Colors -> {"up", "zero", "missing"}]
    BY DEF TypeOK
  <2>2. drained' \in [Colors -> Nat]
    <3>1. drained \in [Colors -> Nat] /\ drained[c] + 1 \in Nat
      BY DEF TypeOK
    <3> QED
      BY <3>1
  <2>3. drains' \subseteq Colors /\ pc' \in {"send", "green", "drain"}
    BY DEF TypeOK
  <2> QED
    BY <2>1, <2>2, <2>3 DEF TypeOK
<1>2. StartTells' /\ ClosingTells'
  BY DEF StartTells, ClosingTells, Running, Stopped, Early
<1>3. DrainTells'
  BY DEF TypeOK, DrainTells
<1>4. CalmTells' /\ OrderTells'
  BY DEF StartTells, CalmTells, OrderTells, Layer, Early, Working, Gates, Ending
<1>5. ApprovalTells' /\ SampleTells'
  BY DEF ApprovalTells, SampleTells, Sampled, Working, Gates, Before
<1> QED
  BY <1>1, <1>2, <1>3, <1>4, <1>5
-------------------------------------------------------------------------------
(* Samples and gates.                                                       *)

LEMMA ObserveKeeps ==
  ASSUME DownInv, Observe
  PROVE  DownInv'
<1> USE DEF DownInv, Observe, install, e2, approval, ecs, journal, records
<1>1. TypeOK'
  BY Constants DEF TypeOK
<1>2. StartTells' /\ DrainTells' /\ ClosingTells'
  BY DEF StartTells, DrainTells, ClosingTells, Running
<1>3. CalmTells' /\ OrderTells'
  BY DEF CalmTells, Calm, Live, OrderTells, Layer
<1>4. ApprovalTells'
  BY DEF ApprovalTells, Layer
<1>5. SampleTells'
  BY DEF TypeOK, SampleTells, SampleLeft, Passed, Sampled, Layer
<1> QED
  BY <1>1, <1>2, <1>3, <1>4, <1>5

LEMMA LookAgainKeeps ==
  ASSUME DownInv, LookAgain
  PROVE  DownInv'
<1> USE DEF DownInv, LookAgain, install, e2, approval, ecs, records
<1>1. TypeOK'
  BY Constants DEF TypeOK, SampleTells, Seen, Live
<1>2. StartTells' /\ DrainTells' /\ ClosingTells'
  BY DEF StartTells, DrainTells, ClosingTells, Running
<1>3. CalmTells' /\ OrderTells'
  BY DEF StartTells, CalmTells, OrderTells, Layer, Early, Working, Gates, Ending
<1>4. ApprovalTells' /\ SampleTells'
  BY DEF ApprovalTells, SampleTells, Working, Gates, Layer
<1> QED
  BY <1>1, <1>2, <1>3, <1>4

\* A quiet sample ends the drain, or lets its gate pass.
LEMMA PublishKeeps ==
  ASSUME DownInv, Publish
  PROVE  DownInv'
<1> USE DEF DownInv, Publish, Next_, install, e2, approval, ecs, records
<1>1. /\ pc = "drain" \/ (pc \in Gates /\ at <= 2) \/ (pc \in Before /\ at = 3)
      /\ samples < MaxSamples /\ samples \in Nat /\ MaxSamples \in Nat /\ at \in 1..5
      /\ drainSamples \in 0..samples
  BY SampledAt, Constants DEF TypeOK, SampleTells, Before, Gates
<1>2. \/ pc = "drain" /\ pc' = "stage" /\ drainSamples' = samples'
      \/ pc = "stage" /\ pc' = "plan" /\ drainSamples' = drainSamples
      \/ pc = "dispatch" /\ pc' = "claim" /\ drainSamples' = drainSamples
      \/ pc = "readback" /\ pc' = "complete" /\ drainSamples' = drainSamples
      \/ pc = "after" /\ pc' = "retain" /\ drainSamples' = drainSamples
  BY <1>1 DEF Gates, Before
<1>3. samples' = samples + 1 /\ look' = NoTime /\ at' = at
  OBVIOUS
<1>4. TypeOK'
  <2>1. samples' \in 0..MaxSamples /\ drainSamples' \in 0..samples'
    BY <1>1, <1>2, <1>3
  <2>2. known' \subseteq Tasks /\ look' \in 0..NoTime
    BY Constants DEF TypeOK, Seen, Live
  <2>3. seal' \in BOOLEAN
    BY DEF TypeOK, PredeleteSeal, Seal
  <2> QED
    BY <1>2, <2>1, <2>2, <2>3 DEF TypeOK, Gates
<1>5. StartTells' /\ DrainTells' /\ ClosingTells'
  BY <1>2 DEF StartTells, DrainTells, ClosingTells, Running, Stopped, Early
<1>6. Calm'
  BY DEF TypeOK, Calm, Quiet, Live, Services, Zero, Seen, Colors
<1>7. drainSamples' > 0
  BY <1>1, <1>2, <1>3 DEF CalmTells, Working, Gates
<1>8. CalmTells' /\ OrderTells'
  BY <1>2, <1>6, <1>7 DEF StartTells, CalmTells, OrderTells, Layer, Early, Working, Gates, Ending
<1>9. ApprovalTells'
  BY <1>2 DEF StartTells, Early, ApprovalTells, Working, Gates, Layer
<1>10. SampleTells'
  BY <1>1, <1>2, <1>3 DEF StartTells, Early, SampleTells, Passed, Working, Gates, Before
<1> QED
  BY <1>4, <1>5, <1>8, <1>9, <1>10

\* Once the cluster is gone a gate takes no sample.
LEMMA HandoffKeeps ==
  ASSUME DownInv, Handoff
  PROVE  DownInv'
<1> USE DEF DownInv, Handoff, Go, Next_, install, e2, approval, ecs, journal, records
<1>1. /\ pc \in Gates /\ ~(at <= 2) /\ ~(pc \in Before /\ at = 3) /\ at \in 1..5
      /\ drainSamples \in Nat /\ samples \in Nat
  BY SampledAt, Constants DEF TypeOK, Terminal, Gates
<1>2. \/ pc = "stage" /\ pc' = "plan"
      \/ pc = "dispatch" /\ pc' = "claim"
      \/ pc = "readback" /\ pc' = "complete"
      \/ pc = "after" /\ pc' = "retain"
  BY <1>1 DEF Gates
<1>3. TypeOK'
  BY <1>2 DEF TypeOK
<1>4. StartTells' /\ DrainTells' /\ ClosingTells'
  BY <1>2 DEF StartTells, DrainTells, ClosingTells, Running, Stopped, Early
<1>5. CalmTells' /\ OrderTells'
  BY <1>2 DEF CalmTells, Calm, Live, OrderTells, Layer, Working, Gates, Ending
<1>6. ApprovalTells'
  BY <1>2 DEF ApprovalTells, Working, Gates, Layer
<1>7. look' = NoTime
  BY <1>1 DEF Terminal, SampleTells, Gates
<1>8. at' = at /\ samples' = samples /\ drainSamples' = drainSamples
  OBVIOUS
<1>9. SampleTells'
  BY <1>1, <1>2, <1>7, <1>8 DEF SampleTells, Passed, Working, Gates, Before
<1> QED
  BY <1>3, <1>4, <1>5, <1>6, <1>9
-------------------------------------------------------------------------------
(* One layer, from its plan to its verified record.                         *)

\* The plan is loaded, inspected and compared with the state: what Apply found
\* of the approval holds until the grant ends.
LEMMA PlansKeep ==
  ASSUME DownInv, Plan \/ Apply
  PROVE  DownInv'
<1> USE DEF DownInv, Plan, Apply, Go, install, e2, approval, ecs, journal
<1>1. Layer \in Layers /\ Layer' = Layer
  BY SampledAt DEF Layer, records
<1>2. TypeOK'
  BY <1>1 DEF TypeOK, Gates, records
<1>3. StartTells' /\ DrainTells' /\ ClosingTells'
  BY DEF StartTells, DrainTells, ClosingTells, Running, Stopped, Early, records
<1>4. CalmTells' /\ OrderTells'
  BY <1>1 DEF CalmTells, Calm, Live, OrderTells, Working, Gates, Ending, records
<1>5. ApprovalTells'
  BY <1>1 DEF ApprovalTells, Load, Validate, Selected, Approved, Current, Working, Gates, records
<1>6. SampleTells'
  BY DEF SampleTells, Sampled, Passed, Working, Gates, Before, records
<1> QED
  BY <1>2, <1>3, <1>4, <1>5, <1>6

\* The decision slot and the attempt slot, each put once.
LEMMA ClaimsKeep ==
  ASSUME DownInv, Claim \/ Consume
  PROVE  DownInv'
<1> USE DEF DownInv, Claim, Consume, PutDecision, Go, install, e2, ecs, journal, records
<1>1. Layer \in Layers /\ Layer' = Layer
  BY SampledAt DEF Layer
<1>2. TypeOK'
  BY <1>1 DEF TypeOK
<1>3. StartTells' /\ DrainTells' /\ ClosingTells'
  BY DEF StartTells, DrainTells, ClosingTells, Running, Stopped, Early
<1>4. CalmTells' /\ OrderTells'
  BY <1>1 DEF CalmTells, Calm, Live, OrderTells, Working, Gates, Ending
<1>5. ApprovalTells'
  BY <1>1 DEF TypeOK, ApprovalTells, Working, Gates
<1>6. SampleTells'
  BY DEF SampleTells, Sampled, Passed, Working, Gates, Before
<1> QED
  BY <1>2, <1>3, <1>4, <1>5, <1>6

\* Only the layer in its turn is destroyed.
LEMMA TerraformKeeps ==
  ASSUME DownInv, Terraform
  PROVE  DownInv'
<1> USE DEF DownInv, Terraform, Go, install, e2, approval, journal, records
<1>1. Layer \in Layers /\ Layer' = Layer /\ pc' \in {"verify", "done"}
  BY SampledAt DEF Layer
<1>2. TypeOK'
  <2>1. infra' \in [Layers -> {"present", "partial", "absent"}] /\ sent' \subseteq Layers
    BY <1>1 DEF TypeOK
  <2>2. service' \in [Colors -> {"up", "zero", "missing"}]
    BY DEF TypeOK
  <2>3. answer' \in {"none", "UNKNOWN", "SUCCESS", "raised"} /\ look' = look /\ at' = at
    BY DEF TypeOK
  <2> QED
    BY <1>1, <2>1, <2>2, <2>3 DEF TypeOK, Stopped
<1>3. StartTells' /\ DrainTells' /\ ClosingTells'
  BY <1>1 DEF StartTells, DrainTells, ClosingTells, Running, Stopped, Early
<1>4. CalmTells'
  <2>1. drainSamples > 0 /\ Calm
    BY DEF CalmTells, Working
  <2> QED
    BY <1>1, <2>1 DEF Calm, CalmTells, Live, Colors
<1>5. OrderTells'
  <2>1. \A l \in Layers \ {Layer} : infra'[l] = infra[l]
    BY DEF TypeOK
  <2>2. Layer \notin verified
    BY StageOnce DEF TypeOK, OrderTells, Working, Layer
  <2>3. \A j \in 1..5 : Stage[j] \in sent' => j <= at
    BY StageOnce DEF TypeOK, OrderTells, Layer
  <2> QED
    BY <1>1, <2>1, <2>2, <2>3 DEF TypeOK, OrderTells, Working, Gates, Ending
<1>6. ApprovalTells'
  BY <1>1 DEF ApprovalTells, Working, Gates
<1>7. SampleTells'
  BY <1>1 DEF SampleTells, Sampled, Passed, Working, Gates, Before
<1> QED
  BY <1>2, <1>3, <1>4, <1>5, <1>6, <1>7

LEMMA VerifiesKeep ==
  ASSUME DownInv, Verify \/ Complete
  PROVE  DownInv'
<1> USE DEF DownInv, Verify, Complete, Go, install, e2, approval, ecs, journal
<1>1. Layer \in Layers /\ Layer' = Layer
  BY SampledAt DEF Layer, records
<1>2. TypeOK'
  BY <1>1 DEF TypeOK, Gates, records
<1>3. StartTells' /\ DrainTells' /\ ClosingTells'
  BY DEF StartTells, DrainTells, ClosingTells, Running, Stopped, Early, records
<1>4. CalmTells' /\ OrderTells'
  BY <1>1 DEF CalmTells, Calm, Live, OrderTells, Working, Gates, Ending, records
<1>5. ApprovalTells'
  BY <1>1 DEF ApprovalTells, Working, Gates, records
<1>6. SampleTells'
  BY DEF SampleTells, Sampled, Passed, Working, Gates, Before, records
<1> QED
  BY <1>2, <1>3, <1>4, <1>5, <1>6

\* The next layer begins, with the four gates of this one behind it.
LEMMA RetainVerifiedKeeps ==
  ASSUME DownInv, RetainVerified
  PROVE  DownInv'
<1> USE DEF DownInv, RetainVerified, install, e2, approval, ecs, journal
<1>1. /\ Layer \in Layers /\ at \in 1..5 /\ infra[Layer] = "absent" /\ Layer \in issued
      /\ samples \in Nat /\ drainSamples \in Nat /\ drainSamples > 0
  BY SampledAt, Constants DEF TypeOK, OrderTells, ApprovalTells, CalmTells, Working
<1>2. \/ at < 5 /\ pc' = "stage" /\ at' = at + 1
      \/ at = 5 /\ pc' = "residual" /\ at' = at
  BY <1>1
<1>3. TypeOK'
  BY <1>1, <1>2 DEF TypeOK, Gates
<1>4. StartTells' /\ DrainTells'
  BY <1>2 DEF StartTells, DrainTells, Running, Stopped, Early
<1>5. ClosingTells'
  BY <1>1, <1>2 DEF TypeOK, ClosingTells, Running, Stopped
<1>6. CalmTells'
  BY <1>1 DEF CalmTells, Calm, Live
<1>7. OrderTells'
  <2>1. \A j \in 1..5 : j <= at <=> Stage[j] \in verified'
    BY <1>1, StageOnce DEF OrderTells, Working, Layer
  <2>2. at = 5 => verified' = Layers
    <3>1. SUFFICES ASSUME at = 5 PROVE verified' = Layers
      OBVIOUS
    <3>2. \A j \in 1..5 : Stage[j] \in verified'
      BY <2>1, <3>1
    <3>3. verified' \subseteq Layers
      BY <1>3 DEF TypeOK
    <3> QED
      BY <3>2, <3>3, StageOnce
  <2>3. \A j \in 1..5 : Stage[j] \in sent' => j <= at
    BY DEF OrderTells
  <2>4. \A l \in verified' : infra'[l] = "absent"
    BY <1>1 DEF OrderTells
  <2> QED
    BY <1>1, <1>2, <2>1, <2>2, <2>3, <2>4 DEF OrderTells, Working, Gates, Ending
<1>8. ApprovalTells'
  BY <1>1, <1>2 DEF ApprovalTells, Working, Gates
<1>9. SampleTells'
  <2>1. look' = NoTime
    BY DEF SampleTells, Sampled, Gates, Before
  <2> QED
    BY <1>1, <1>2, <2>1 DEF SampleTells, Passed, Working, Gates
<1> QED
  BY <1>3, <1>4, <1>5, <1>6, <1>7, <1>8, <1>9
-------------------------------------------------------------------------------
(* The end of the run, however it ends.                                     *)

LEMMA ClosingKeeps ==
  ASSUME DownInv, Inventory \/ Residual \/ PublishVerified \/ Finish \/ Release
  PROVE  DownInv'
<1> USE DEF DownInv, Inventory, Residual, PublishVerified, Finish, Release, Go,
            install, approval, ecs, journal
<1>1. at' = at /\ pc \in Ending /\ pc' \in (Ending \cup {"done"}) /\ verified' = verified
  BY DEF Ending, records
<1>2. TypeOK'
  BY Constants DEF TypeOK, Stopped, e2, records
<1>3. StartTells' /\ DrainTells' /\ ClosingTells'
  BY DEF StartTells, DrainTells, ClosingTells, OrderTells, Ending, Running, Stopped, Early, e2, records
<1>4. CalmTells' /\ OrderTells'
  BY <1>1 DEF CalmTells, Calm, Live, OrderTells, Working, Gates, Ending, e2, records
<1>5. ApprovalTells'
  BY <1>1 DEF ApprovalTells, Ending, Working, Gates, e2, records
<1>6. SampleTells'
  BY <1>1 DEF SampleTells, Sampled, Ending, Working, Gates, Before, e2, records
<1> QED
  BY <1>2, <1>3, <1>4, <1>5, <1>6

\* An invocation that raises or dies leaves the grant and every record as they are.
LEMMA StopsKeep ==
  ASSUME DownInv, Raise \/ Crash
  PROVE  DownInv'
<1> USE DEF DownInv, Raise, Crash, install, e2, approval, ecs, journal, records
<1>1. pc \notin Stopped /\ pc' \in {"done", "dead"} /\ at' = at /\ look' = NoTime
  BY DEF Running
<1>2. TypeOK'
  <2>1. invalid' \in BOOLEAN
    <3>1. invalid' = invalid \/ invalid' = (invalid \/ Invalidated)
      OBVIOUS
    <3> QED
      BY <3>1, Zenon DEF TypeOK
  <2>2. answer' \in {"none", "UNKNOWN", "SUCCESS", "raised"} /\ look' \in 0..NoTime
    BY <1>1, Constants DEF TypeOK
  <2> QED
    BY <1>1, <2>1, <2>2 DEF TypeOK, Stopped
<1>3. StartTells' /\ DrainTells' /\ ClosingTells'
  BY <1>1 DEF StartTells, DrainTells, ClosingTells, Running, Stopped, Early
<1>4. CalmTells' /\ OrderTells'
  BY <1>1 DEF CalmTells, Calm, Live, OrderTells, Working, Gates, Ending
<1>5. ApprovalTells'
  BY <1>1 DEF ApprovalTells, Stopped, Working, Gates
<1>6. SampleTells'
  BY <1>1 DEF SampleTells, Working, Gates
<1> QED
  BY <1>2, <1>3, <1>4, <1>5, <1>6
-------------------------------------------------------------------------------
LEMMA NextDown == DownInv /\ [Next]_vars => DownInv'
<1> SUFFICES ASSUME DownInv, [Next]_vars PROVE DownInv'
  OBVIOUS
<1>1. CASE Environment
  <2>1. CASE Tick \/ OtherOperation \/ PublishTogether
    BY <2>1, TickKeeps, OtherOperationKeeps, PublishTogetherKeeps
  <2>2. CASE Reconfigure \/ \E l \in Layers : Issue(l) \/ Withdraw(l)
    BY <2>2, ApprovalsKeep
  <2>3. CASE \E l \in Layers : PublishPrepared(l)
    BY <2>3, PublishPreparedKeeps
  <2>4. CASE \E l \in Layers : LateEffect(l)
    BY <2>4, LateEffectKeeps
  <2>5. CASE \E t \in Tasks : TaskStarts(t) \/ TaskFails(t) \/ TaskStops(t) \/ TaskEnds(t)
    BY <2>5, TasksKeep
  <2> QED
    BY <1>1, <2>1, <2>2, <2>3, <2>4, <2>5 DEF Environment
<1>2. CASE Invocation
  <2>1. CASE Execute \/ Repeat
    BY <2>1, ExecuteKeeps, RepeatKeeps
  <2>2. CASE Retain \/ Prepare \/ Begin
    BY <2>2, StartKeeps
  <2>3. CASE \E c \in Colors : DrainAttempt(c) \/ DrainSend(c)
    BY <2>3, DrainsKeep
  <2>4. CASE Observe \/ Publish \/ LookAgain \/ Handoff
    BY <2>4, ObserveKeeps, PublishKeeps, LookAgainKeeps, HandoffKeeps
  <2>5. CASE Plan \/ Apply
    BY <2>5, PlansKeep
  <2>6. CASE Claim \/ Consume
    BY <2>6, ClaimsKeep
  <2>7. CASE Terraform \/ RetainVerified
    BY <2>7, TerraformKeeps, RetainVerifiedKeeps
  <2>8. CASE Verify \/ Complete
    BY <2>8, VerifiesKeep
  <2>9. CASE Inventory \/ Residual \/ PublishVerified \/ Finish \/ Release
    BY <2>9, ClosingKeeps
  <2>10. CASE Raise \/ Crash
    BY <2>10, StopsKeep
  <2> QED
    BY <1>2, <2>1, <2>2, <2>3, <2>4, <2>5, <2>6, <2>7, <2>8, <2>9, <2>10 DEF Invocation
<1>3. CASE UNCHANGED vars
  <2> USE <1>3 DEF DownInv, vars, install, e2, approval, ecs, journal, records, place
  <2>1. TypeOK'
    BY DEF TypeOK
  <2>2. StartTells' /\ DrainTells' /\ ClosingTells'
    BY DEF StartTells, DrainTells, ClosingTells, Running
  <2>3. CalmTells' /\ OrderTells'
    BY DEF CalmTells, Calm, Live, OrderTells, Layer
  <2>4. ApprovalTells' /\ SampleTells'
    BY DEF ApprovalTells, SampleTells, Passed, Sampled, Layer
  <2> QED
    BY <2>1, <2>2, <2>3, <2>4
<1> QED
  BY <1>1, <1>2, <1>3 DEF Next

LEMMA DownAlways == Spec => []DownInv
BY InitDown, NextDown, PTL DEF Spec
-------------------------------------------------------------------------------
\* A layer is destroyed only after every layer that depends on it is verified gone
\* and the tasks the operation has seen ended, and each service is drained at most
\* once, whoever withdrew, changed or crashed meanwhile (operational.py:140-153,
\* ecs_quiescence.py:369-399).
THEOREM InOrderAlways == Spec => []InOrder
<1>1. DownInv => InOrder
  <2>1. SUFFICES ASSUME DownInv PROVE InOrder
    OBVIOUS
  <2>2. \A c \in Colors : drained[c] <= 1
    BY <2>1 DEF DownInv, DrainTells
  <2>3. ASSUME NEW i \in 1..5, Stage[i] \in sent
        PROVE  /\ \A j \in 1..(i - 1) : Stage[j] \in verified /\ infra[Stage[j]] = "absent"
               /\ Live = {} /\ \A t \in known : task[t] = "stopped"
    <3>1. i <= at /\ at \in 1..5
      BY <2>1, <2>3 DEF DownInv, OrderTells, TypeOK
    <3>2. ASSUME NEW j \in 1..(i - 1) PROVE Stage[j] \in verified /\ infra[Stage[j]] = "absent"
      <4>1. j \in 1..5 /\ j < at
        BY <3>1
      <4> QED
        BY <2>1, <4>1 DEF DownInv, OrderTells
    <3>3. Calm
      BY <2>1, <2>3 DEF DownInv, CalmTells
    <3> QED
      BY <3>2, <3>3 DEF Calm
  <2> QED
    BY <2>2, <2>3 DEF InOrder
<1> QED
  BY <1>1, DownAlways, PTL

\* E2 stays held while anything was drained or destroyed, unless all of it is gone
\* and on record, and only then is SUCCESS answered (operational.py:205-247).
THEOREM HeldUntilDownAlways == Spec => []HeldUntilDown
<1>1. DownInv => HeldUntilDown
  <2>1. SUFFICES ASSUME DownInv PROVE HeldUntilDown
    OBVIOUS
  <2>2. (sent # {} \/ \E c \in Colors : drained[c] > 0) => manifest
    BY <2>1 DEF DownInv, StartTells, DrainTells
  <2>3. closing \in {"verified", "terminal"} \/ answer = "SUCCESS" =>
          verified = Layers /\ \A l \in Layers : infra[l] = "absent"
    BY <2>1 DEF DownInv, ClosingTells, OrderTells
  <2> QED
    BY <2>1, <2>2, <2>3 DEF HeldUntilDown, DownInv, StartTells, ClosingTells
<1> QED
  BY <1>1, DownAlways, PTL

\* No gate runs out of samples unless the drain left fewer than the ten that the
\* gates of edge, apps and platform use (ecs_quiescence.py:375-382).
THEOREM SamplesSufficeAlways == Spec => []SamplesSuffice
<1>1. DownInv => SamplesSuffice
  <2>1. SUFFICES ASSUME DownInv, pc \in Gates, Sampled, samples = MaxSamples
                 PROVE  drainSamples > MaxSamples - 10
    BY DEF SamplesSuffice
  <2>2. /\ at \in 1..5 /\ drainSamples \in Nat /\ MaxSamples \in Nat
        /\ at <= 2 \/ (pc \in Before /\ at = 3)
    BY <2>1, SampledAt, Constants DEF DownInv, TypeOK, Gates
  <2>3. Passed <= 3
    BY <2>1 DEF Passed, Gates
  <2>4. CASE at <= 2
    <3>1. samples <= drainSamples + 4 * (at - 1) + Passed /\ Passed \in Nat
      BY <2>1, <2>4 DEF DownInv, SampleTells, Working, Passed
    <3> QED
      BY <2>1, <2>2, <2>3, <2>4, <3>1
  <2>5. CASE pc \in Before /\ at = 3
    <3>1. samples <= drainSamples + 8 + Passed /\ Passed \in {0, 1}
      BY <2>1, <2>5 DEF DownInv, SampleTells, Working, Gates, Before, Passed
    <3> QED
      BY <2>1, <2>2, <3>1
  <2> QED
    BY <2>2, <2>4, <2>5
<1> QED
  BY <1>1, DownAlways, PTL
-------------------------------------------------------------------------------
\* Which step destroys, and which puts a decision.
LEMMA OnlyTerraformClaimWithdraw ==
  ASSUME [Next]_vars
  PROVE  \/ Terraform
         \/ sent' = sent /\ (Claim \/ \E l \in Layers : Withdraw(l))
         \/ sent' = sent /\ decision' = decision
<1> USE DEF install, e2, approval, ecs, journal, records, place
<1>1. CASE Environment
  BY <1>1 DEF Environment, Tick, OtherOperation, PublishTogether, Reconfigure, PublishPrepared, Issue, Withdraw,
     LateEffect, TaskStarts, TaskFails, TaskStops, TaskEnds
<1>2. CASE Invocation
  BY <1>2 DEF Invocation, Execute, Repeat, Retain, Prepare, Begin, DrainAttempt, DrainSend, Observe, Publish,
     LookAgain, Handoff, Plan, Apply, Claim, Consume, Verify, Complete, RetainVerified, Inventory, Residual,
     PublishVerified, Finish, Release, Raise, Crash
<1>3. CASE UNCHANGED vars
  BY <1>3 DEF vars
<1> QED
  BY <1>1, <1>2, <1>3 DEF Next

\* With approvals prepared one by one only that of edge expects the current grant.
LEMMA OnlyEdgeIsCurrent ==
  ASSUME DownInv, pc = "terraform", route = "distinct"
  PROVE  Layer = "edge"
<1>1. expects[Layer] = gen /\ Layer \in Layers /\ gen \in Nat /\ at \in 1..5
  BY SampledAt DEF DownInv, TypeOK, ApprovalTells
<1>2. SUFFICES ASSUME Layer # "edge" PROVE FALSE
  OBVIOUS
<1>3. at > 1
  BY <1>1, <1>2, StageNames DEF Layer
<1>4. "edge" \in prepared
  BY <1>1, <1>3, StageNames DEF DownInv, OrderTells, ApprovalTells
<1>5. expects[Layer] < gen
  BY <1>1, <1>2, <1>4 DEF DownInv, ApprovalTells
<1> QED
  BY <1>1, <1>5

\* What starts a destruction is an approval of this layer for this grant and for
\* the state the layer is in, unexpired, claimed before it was withdrawn and used
\* once; a claim or a withdrawal stands; and with approvals prepared one by one
\* nothing after edge is destroyed (exact_destroy.py:174-220, 252-295,
\* handoff.py:253-291, runtime.py:411-414).
THEOREM OnlyApproved == Spec => DispatchedIsApproved
<1> DEFINE Approves ==
      \A l \in Layers :
        /\ l \in sent' \ sent =>
             /\ decision[l] = "claimed" /\ l \in attempted
             /\ expects[l] = gen /\ l \notin stale /\ now < Expiry
             /\ holder = "down" /\ ports = "installed" /\ (route = "distinct" => l = "edge")
        /\ decision[l] # "none" => decision'[l] = decision[l]
<1>1. DownInv /\ [Next]_vars => [Approves]_vars
  <2>1. SUFFICES ASSUME DownInv, [Next]_vars PROVE Approves
    OBVIOUS
  <2>2. CASE Terraform
    <3>1. decision' = decision /\ sent' = sent \cup {Layer} /\ pc = "terraform"
      BY <2>2 DEF Terraform, approval
    <3>2. /\ decision[Layer] = "claimed" /\ Layer \in attempted
          /\ expects[Layer] = gen /\ Layer \notin stale
      BY <2>1, <3>1 DEF DownInv, ApprovalTells
    <3>3. now < Expiry /\ holder = "down" /\ ports = "installed"
      BY <2>1, <2>2 DEF Terraform, Unexpired, Owner, DownInv, StartTells, Stopped
    <3> QED
      BY <2>1, <3>1, <3>2, <3>3, OnlyEdgeIsCurrent
  <2>3. CASE sent' = sent /\ (Claim \/ \E l \in Layers : Withdraw(l))
    BY <2>1, <2>3 DEF Claim, Withdraw, PutDecision, DownInv, TypeOK
  <2>4. CASE sent' = sent /\ decision' = decision
    BY <2>4
  <2> QED
    BY <2>1, <2>2, <2>3, <2>4, OnlyTerraformClaimWithdraw
<1> QED
  BY <1>1, DownAlways, PTL DEF Spec, DispatchedIsApproved

------------------------------------------------------------------------------
(* The closure C of NAT recovery, as MCNatClosure instantiates it, for any  *)
(* number of invocations, generations and puts in flight.                   *)
(*                                                                          *)
(* Every write of the head is of one shape (Lawful): it closes an open head, *)
(* or it moves one permit one step forward.  A write lands only on the very *)
(* head it was made from, so that the head itself moves in such steps only, *)
(* whenever a put lands and whoever has died since.                         *)

\* The invocations whose call was made once and took effect.
Made == {i \in Invocations : dispatched[i] = 1 /\ effect[i] = "applied"}

\* The steps of a permit.  SEALED is written for a call that took effect, and no
\* permit becomes ADMITTED or DISPATCHED once the head is closed.
Moves(i, old, new, made) ==
  \/ old.permits[i] = "none"       /\ new.permits[i] = "ADMITTED"   /\ old.closure = None
  \/ old.permits[i] = "ADMITTED"   /\ new.permits[i] = "DISPATCHED" /\ old.closure = None
  \/ old.permits[i] = "ADMITTED"   /\ new.permits[i] = "CANCELLED"
  \/ old.permits[i] = "DISPATCHED" /\ new.permits[i] = "SEALED"     /\ i \in made

Closes(old, new) ==
  /\ old.closure = None /\ new.closure # None
  /\ \A i \in Invocations : new.permits[i] = old.permits[i]

Lawful(old, new, made) ==
  \/ Closes(old, new)
  \/ /\ new.closure = old.closure
     /\ \E i \in Invocations :
          /\ Moves(i, old, new, made)
          /\ \A j \in Invocations \ {i} : new.permits[j] = old.permits[j]

PutsAreLawful ==
  /\ \A put \in flying : Lawful(put.prior, put.value, Made)
  /\ \A i \in Invocations : C!At(i, "put") => Lawful(C!Prior(i), C!Value(i), Made)
  /\ C!At(Down, "put") => C!Prior(Down).closure = None

\* What the place of an invocation says of the call it makes.
PlaceTells ==
  /\ C!Goal(Down) = "CLOSED"
  /\ proc[Down].pc \in {"idle", "intent", "observe", "read", "check", "put", "readback",
                        "report", "dead"}
  /\ \A i \in Invocations :
       /\ C!Goal(i) # "CLOSED"
       /\ proc[i].pc \in {"read", "check", "put", "readback", "send", "respond", "ack",
                          "effect", "raised", "done", "dead"}
       /\ proc[i].pc \in {"read", "check", "put", "readback"} =>
            IF C!Goal(i) = "SEALED" THEN i \in Made ELSE dispatched[i] = 0
       /\ proc[i].pc = "send" => dispatched[i] = 0
       /\ proc[i].pc \in {"respond", "ack", "effect"} => dispatched[i] = 1

\* Accounted without its types.
Accounts ==
  \A i \in Invocations :
    /\ dispatched[i] <= 1
    /\ C!At(i, "send") => dispatched[i] = 0 /\ head.permits[i] = "DISPATCHED"
    /\ dispatched[i] = 1 => head.permits[i] \in {"DISPATCHED", "SEALED"}
    /\ head.permits[i] = "SEALED" => i \in Made

\* A head that is closed and has no pending permit outside the given ones.
Within(new, pending) == new.closure # None /\ C!Pending(new.permits) \subseteq pending

\* What Down has read of a closed head, and what it reported, stays an upper
\* bound of what is pending.
ReportStands ==
  /\ C!At(Down, "check") /\ C!Prior(Down).closure # None =>
       Within(head, C!Pending(C!Prior(Down).permits))
  /\ C!At(Down, "report") => Within(head, C!Pending(C!Prior(Down).permits))
  /\ report # None => Within(head, report)

ClosureInv == C!TypeOK /\ Accounts /\ PutsAreLawful /\ PlaceTells /\ ReportStands
-----------------------------------------------------------------------------
(* The writes of the head.                                                  *)

\* What was lawful stays so as more calls take effect.
LEMMA LawfulLasts ==
  ASSUME NEW old, NEW new, NEW made, NEW more, made \subseteq more,
         Lawful(old, new, made)
  PROVE  Lawful(old, new, more)
BY DEF Lawful, Moves

\* A lawful write leaves what is closed closed, and moves no permit of a closed
\* head but to CANCELLED or SEALED.
LEMMA LawfulKeepsClosed ==
  ASSUME NEW old, NEW new, NEW made, Lawful(old, new, made), old.closure # None
  PROVE  /\ new.closure = old.closure
         /\ \A i \in Invocations :
              new.permits[i] # old.permits[i] => new.permits[i] \in {"CANCELLED", "SEALED"}
BY DEF Lawful, Moves, Closes

LEMMA LawfulKeepsWithin ==
  ASSUME NEW old, NEW new, NEW made, NEW pending,
         Lawful(old, new, made), Within(old, pending)
  PROVE  Within(new, pending)
<1>1. /\ new.closure = old.closure
      /\ \A i \in Invocations :
           new.permits[i] # old.permits[i] => new.permits[i] \in {"CANCELLED", "SEALED"}
  BY LawfulKeepsClosed DEF Within
<1> QED
  BY <1>1 DEF Within, C!Pending

\* The calls that were made, and took effect, stay made.
LEMMA MadeGrows ==
  ASSUME C!TypeOK, PlaceTells, C!Next
  PROVE  Made \subseteq Made'
<1>1. ASSUME NEW i \in Invocations, C!Send(i) PROVE Made \subseteq Made'
  BY <1>1 DEF C!Send, Made, PlaceTells, C!TypeOK, C!To, C!At
<1>2. ASSUME NEW i \in Invocations, C!LateEffect(i) PROVE Made \subseteq Made'
  BY <1>2 DEF C!LateEffect, Made, C!TypeOK
<1>3. ASSUME UNCHANGED <<dispatched, effect>> PROVE Made \subseteq Made'
  BY <1>3 DEF Made
<1> QED
  BY <1>1, <1>2, <1>3 DEF C!Next, C!Invocation, C!Closing, C!ec2, C!Read, C!Check, C!Put,
     C!Readback, C!Fails,
     C!Respond, C!Ack, C!Observe, C!Dies, C!Land, C!OtherAcquires, C!OtherReleases, C!Acquires, C!Request,
     C!Inspect, C!CheckClose, C!ReadbackClose, C!Report, C!Refused

LEMMA ValueIsHead ==
  ASSUME C!TypeOK, NEW p \in C!Processes, C!Goal(p) = "CLOSED" <=> p = Down
  PROVE  /\ C!Value(p) \in C!Heads
         /\ p = Down => C!Value(p).closure = generation /\ C!Value(p).permits = C!Prior(p).permits
         /\ p # Down => /\ C!Value(p).closure = C!Prior(p).closure
                        /\ C!Value(p).permits[p] = C!Goal(p)
                        /\ \A j \in Invocations \ {p} : C!Value(p).permits[j] = C!Prior(p).permits[j]
<1>1. C!Prior(p) \in C!Heads /\ C!Goal(p) \in {"CLOSED", "ADMITTED", "DISPATCHED", "CANCELLED", "SEALED"}
  BY DEF C!TypeOK, C!Prior, C!Goal
<1>2. CASE p = Down
  BY <1>1, <1>2 DEF C!Value, C!Heads, C!TypeOK
<1>3. CASE p # Down
  <2>1. C!Goal(p) \in C!Permits /\ p \in Invocations
    BY <1>1, <1>3 DEF C!Permits, C!Processes
  <2>2. C!Value(p) = [C!Prior(p) EXCEPT !.permits = [C!Prior(p).permits EXCEPT ![p] = C!Goal(p)]]
    BY <1>3 DEF C!Value
  <2> QED
    BY <1>1, <1>3, <2>1, <2>2 DEF C!Heads
<1> QED
  BY <1>2, <1>3

\* Whoever is about to put, puts a lawful value.
LEMMA PutIsLawful ==
  ASSUME C!TypeOK, PlaceTells, PutsAreLawful, NEW p \in C!Processes, C!At(p, "put")
  PROVE  Lawful(C!Prior(p), C!Value(p), Made)
<1>1. CASE p = Down
  <2>1. /\ C!Value(p).closure = generation /\ C!Value(p).permits = C!Prior(p).permits
        /\ C!Prior(p).closure = None /\ generation # None
    BY <1>1, ValueIsHead, ClosureHolds DEF C!ClosureAssumption, PlaceTells, PutsAreLawful,
       C!TypeOK, C!Processes
  <2> QED
    BY <2>1 DEF Lawful, Closes
<1>2. CASE p # Down
  BY <1>2 DEF PutsAreLawful, C!Processes
<1> QED
  BY <1>1, <1>2

\* The head moves by lawful writes only.
LEMMA HeadMoves ==
  ASSUME C!TypeOK, PlaceTells, PutsAreLawful, C!Next
  PROVE  head' = head \/ Lawful(head, head', Made)
<1>1. ASSUME NEW p \in C!Processes, C!Put(p) PROVE head' = head \/ Lawful(head, head', Made)
  BY <1>1, PutIsLawful DEF C!Put, C!Matches
<1>2. CASE C!Land
  BY <1>2 DEF C!Land, C!Matches, PutsAreLawful
<1>3. UNCHANGED head => head' = head
  OBVIOUS
<1> QED
  BY <1>1, <1>2, <1>3 DEF C!Next, C!Invocation, C!Closing, C!Processes, C!Read, C!Check,
     C!Readback, C!Fails,
     C!Send, C!LateEffect, C!Respond, C!Ack, C!Observe, C!Dies, C!OtherAcquires, C!OtherReleases, C!Acquires,
     C!Request, C!Inspect, C!CheckClose, C!ReadbackClose, C!Report, C!Refused
-----------------------------------------------------------------------------
(* Where a settled write leads, case by case.                               *)

LEMMA ReadbackLeads ==
  ASSUME NEW i \in Invocations, C!Readback(i),
         C!Goal(i) \in {"ADMITTED", "DISPATCHED", "CANCELLED", "SEALED"}
  PROVE  \/ C!Goal(i) = "ADMITTED"   /\ C!Aim(i, "DISPATCHED")
         \/ C!Goal(i) = "DISPATCHED" /\ C!To(i, "send")
         \/ C!Goal(i) = "CANCELLED"  /\ C!To(i, "raised")
         \/ C!Goal(i) = "SEALED"     /\ C!To(i, "done")
<1>1. CASE C!Goal(i) = "ADMITTED"
  BY <1>1 DEF C!Readback
<1>2. CASE C!Goal(i) = "DISPATCHED"
  BY <1>2 DEF C!Readback
<1>3. CASE C!Goal(i) = "CANCELLED"
  BY <1>3 DEF C!Readback
<1>4. CASE C!Goal(i) = "SEALED"
  BY <1>4 DEF C!Readback
<1> QED
  BY <1>1, <1>2, <1>3, <1>4
-----------------------------------------------------------------------------
(* Each part of the invariant.                                              *)

LEMMA InitInv == C!Init => ClosureInv
<1> SUFFICES ASSUME C!Init PROVE ClosureInv
  OBVIOUS
<1> DEFINE first == [closure |-> None, permits |-> [i \in Invocations |-> "none"]]
<1>1. head = first /\ first \in C!Heads
  BY DEF C!Init, C!Heads, C!Permits
<1>2. /\ proc = [p \in C!Processes |-> [pc |-> IF p = Down THEN "idle" ELSE "read",
                                      goal |-> IF p = Down THEN "CLOSED" ELSE "ADMITTED",
                                      prior |-> head]]
      /\ head \in C!Heads
  BY <1>1 DEF C!Init
<1> HIDE DEF first
<1>3. C!TypeOK
  <2>1. /\ generation \in 1..MaxGeneration /\ owner \in {None, "other", Down}
        /\ inspections \in 0..MaxInspections
    BY ClosureHolds DEF C!ClosureAssumption, C!Init, C!Anchor
  <2>2. \A p \in C!Processes :
          proc[p] = [pc |-> IF p = Down THEN "idle" ELSE "read",
                     goal |-> IF p = Down THEN "CLOSED" ELSE "ADMITTED", prior |-> head]
    BY <1>2
  <2>3. proc \in [C!Processes ->
          [pc : {"idle", "intent", "observe", "read", "check", "put", "readback", "report",
                 "send", "respond", "ack", "effect", "raised", "done", "dead"},
           goal : {"CLOSED", "ADMITTED", "DISPATCHED", "CANCELLED", "SEALED"},
           prior : C!Heads]]
    BY <1>2, <2>2
  <2>4. /\ dispatched \in [Invocations -> Nat]
        /\ effect \in [Invocations -> {"none", "flying", "applied"}]
        /\ evidence \in [response : SUBSET Invocations, ack : SUBSET Invocations]
    BY DEF C!Init
  <2>5. /\ flying = {} /\ intent \in BOOLEAN /\ report \in {None} \cup SUBSET Invocations
    BY DEF C!Init
  <2> QED
    BY <1>2, <2>1, <2>3, <2>4, <2>5 DEF C!TypeOK
<1>4. Accounts
  BY <1>2, ClosureHolds DEF C!ClosureAssumption, C!Init, Accounts, C!At, C!Processes
<1>5. PutsAreLawful
  BY <1>2 DEF C!Init, PutsAreLawful, C!At, C!Processes
<1>6. PlaceTells
  BY <1>2, ClosureHolds DEF C!ClosureAssumption, C!Init, PlaceTells, C!Goal, C!Processes
<1>7. ReportStands
  BY <1>2, ClosureHolds DEF C!ClosureAssumption, C!Init, ReportStands, C!At, C!Processes
<1> QED
  BY <1>3, <1>4, <1>5, <1>6, <1>7 DEF ClosureInv

LEMMA NextTyped ==
  ASSUME C!TypeOK, PlaceTells, C!Next
  PROVE  C!TypeOK'
<1> USE DEF C!TypeOK, C!e2, C!ec2, C!down, C!To, C!Aim, C!At, C!Processes
<1>1. ASSUME NEW p \in C!Processes, C!Read(p) PROVE C!TypeOK'
  BY <1>1 DEF C!Read
<1>2. ASSUME NEW p \in C!Processes, C!Put(p) PROVE C!TypeOK'
  <2>1. C!Value(p) \in C!Heads /\ C!Prior(p) \in C!Heads
    BY ValueIsHead, ClosureHolds DEF C!ClosureAssumption, PlaceTells, C!Prior
  <2>2. head' \in C!Heads /\ flying' \subseteq [prior : C!Heads, value : C!Heads]
    BY <1>2, <2>1 DEF C!Put
  <2> QED
    BY <1>2, <2>2 DEF C!Put
<1>3. CASE C!Land
  BY <1>3 DEF C!Land
<1>4. ASSUME NEW i \in Invocations, C!Check(i) PROVE C!TypeOK'
  BY <1>4 DEF C!Check
<1>5. ASSUME NEW i \in Invocations, C!Readback(i) PROVE C!TypeOK'
  <2>1. \E there \in {"read", "send", "raised", "done"} : \E goal \in {"DISPATCHED", proc[i].goal} :
          proc' = [proc EXCEPT ![i].pc = there, ![i].goal = goal]
    BY <1>5, ReadbackLeads DEF PlaceTells, C!Goal
  <2> QED
    BY <1>5, <2>1 DEF C!Readback
<1>6. ASSUME NEW i \in Invocations, C!Fails(i) PROVE C!TypeOK'
  BY <1>6 DEF C!Fails
<1>7. ASSUME NEW i \in Invocations, C!Send(i) PROVE C!TypeOK'
  BY <1>7 DEF C!Send
<1>8. ASSUME NEW i \in Invocations, C!LateEffect(i) PROVE C!TypeOK'
  BY <1>8 DEF C!LateEffect
<1>9. ASSUME NEW i \in Invocations, C!Respond(i) PROVE C!TypeOK'
  BY <1>9 DEF C!Respond
<1>10. ASSUME NEW i \in Invocations, C!Ack(i) PROVE C!TypeOK'
  BY <1>10 DEF C!Ack
<1>11. ASSUME NEW i \in Invocations, C!Observe(i) PROVE C!TypeOK'
  BY <1>11 DEF C!Observe
<1>12. ASSUME NEW p \in C!Processes, C!Dies(p) PROVE C!TypeOK'
  BY <1>12 DEF C!Dies
<1>13. CASE C!OtherAcquires \/ C!OtherReleases \/ C!Acquires
  BY <1>13, ClosureHolds DEF C!ClosureAssumption, C!OtherAcquires, C!OtherReleases, C!Acquires
<1>14. CASE C!Request \/ C!Inspect \/ C!Refused
  <2>1. CASE C!Request
    <3>1. inspections' \in 0..MaxInspections
      BY <2>1, ClosureHolds DEF C!ClosureAssumption, C!Request
    <3> QED
      BY <2>1, <3>1 DEF C!Request
  <2>2. CASE C!Inspect \/ C!Refused
    BY <2>2 DEF C!Inspect, C!Refused
  <2> QED
    BY <1>14, <2>1, <2>2
<1>15. CASE C!CheckClose \/ C!ReadbackClose
  BY <1>15 DEF C!CheckClose, C!ReadbackClose
<1>16. CASE C!Report
  BY <1>16 DEF C!Report, C!Pending
<1> QED
  BY <1>1, <1>2, <1>3, <1>4, <1>5, <1>6, <1>7, <1>8, <1>9, <1>10, <1>11, <1>12, <1>13, <1>14,
     <1>15, <1>16 DEF C!Next, C!Invocation, C!Closing

LEMMA NextPlace ==
  ASSUME C!TypeOK, Accounts, PlaceTells, C!Next
  PROVE  PlaceTells'
<1> USE DEF PlaceTells, C!Goal, C!To, C!Aim, C!At, C!Processes
<1>a. /\ proc \in [C!Processes ->
           [pc : {"idle", "intent", "observe", "read", "check", "put", "readback", "report",
                  "send", "respond", "ack", "effect", "raised", "done", "dead"},
            goal : {"CLOSED", "ADMITTED", "DISPATCHED", "CANCELLED", "SEALED"},
            prior : C!Heads]]
      /\ dispatched \in [Invocations -> Nat]
      /\ Made \subseteq Made'
  BY MadeGrows DEF C!TypeOK
<1>1. ASSUME NEW p \in C!Processes, C!Read(p) PROVE PlaceTells'
  BY <1>1, <1>a, ClosureHolds DEF C!ClosureAssumption, C!Read, C!ec2
<1>2. ASSUME NEW p \in C!Processes, C!Put(p) PROVE PlaceTells'
  BY <1>2, <1>a, ClosureHolds DEF C!ClosureAssumption, C!Put, C!ec2
<1>3. CASE C!Land
  BY <1>3, <1>a DEF C!Land, C!ec2
<1>4. ASSUME NEW i \in Invocations, C!Check(i) PROVE PlaceTells'
  BY <1>4, <1>a, ClosureHolds DEF C!ClosureAssumption, C!Check, C!ec2
<1>5. ASSUME NEW i \in Invocations, C!Readback(i) PROVE PlaceTells'
  <2>1. C!Goal(i) \in {"ADMITTED", "DISPATCHED", "CANCELLED", "SEALED"}
    BY <1>a
  <2>2. /\ C!At(i, "readback") /\ UNCHANGED dispatched
        /\ \/ C!Goal(i) = "ADMITTED"   /\ C!Aim(i, "DISPATCHED")
           \/ C!Goal(i) = "DISPATCHED" /\ C!To(i, "send")
           \/ C!Goal(i) = "CANCELLED"  /\ C!To(i, "raised")
           \/ C!Goal(i) = "SEALED"     /\ C!To(i, "done")
    BY <1>5, <2>1, ReadbackLeads DEF C!Readback, C!ec2
  <2> QED
    BY <2>1, <2>2, <1>a, ClosureHolds DEF C!ClosureAssumption
<1>6. ASSUME NEW i \in Invocations, C!Fails(i) PROVE PlaceTells'
  BY <1>6, <1>a, ClosureHolds DEF C!ClosureAssumption, C!Fails, C!ec2
<1>7. ASSUME NEW i \in Invocations, C!Send(i) PROVE PlaceTells'
  BY <1>7, <1>a, ClosureHolds DEF C!ClosureAssumption, C!Send
<1>8. ASSUME NEW i \in Invocations, C!LateEffect(i) PROVE PlaceTells'
  BY <1>8, <1>a DEF C!LateEffect
<1>9. ASSUME NEW i \in Invocations, C!Respond(i) PROVE PlaceTells'
  BY <1>9, <1>a, ClosureHolds DEF C!ClosureAssumption, C!Respond
<1>10. ASSUME NEW i \in Invocations, C!Ack(i) PROVE PlaceTells'
  BY <1>10, <1>a, ClosureHolds DEF C!ClosureAssumption, C!Ack
<1>11. ASSUME NEW i \in Invocations, C!Observe(i) PROVE PlaceTells'
  <2>1. C!Evidence(i) => i \in Made
    BY <1>11 DEF C!Observe, C!Evidence, Made
  <2> QED
    BY <1>11, <2>1, <1>a, ClosureHolds DEF C!ClosureAssumption, C!Observe, C!ec2
<1>12. ASSUME NEW p \in C!Processes, C!Dies(p) PROVE PlaceTells'
  BY <1>12, <1>a, ClosureHolds DEF C!ClosureAssumption, C!Dies, C!ec2
<1>13. CASE C!OtherAcquires \/ C!OtherReleases \/ C!Acquires
  BY <1>13, <1>a, ClosureHolds DEF C!ClosureAssumption, C!OtherAcquires, C!OtherReleases,
     C!Acquires, C!ec2
<1>14. CASE C!Request \/ C!Inspect \/ C!Refused
  BY <1>14, <1>a, ClosureHolds DEF C!ClosureAssumption, C!Request, C!Inspect, C!Refused, C!ec2
<1>15. CASE C!CheckClose \/ C!ReadbackClose \/ C!Report
  BY <1>15, <1>a, ClosureHolds DEF C!ClosureAssumption, C!CheckClose, C!ReadbackClose,
     C!Report, C!ec2
<1> QED
  BY <1>1, <1>2, <1>3, <1>4, <1>5, <1>6, <1>7, <1>8, <1>9, <1>10, <1>11, <1>12, <1>13, <1>14,
     <1>15 DEF C!Next, C!Invocation, C!Closing

\* Only a check leads to a put.
LEMMA PutIsChecked ==
  ASSUME C!TypeOK, PlaceTells, C!Next, NEW p \in C!Processes, proc'[p].pc = "put"
  PROVE  \/ proc'[p] = proc[p]
         \/ p \in Invocations /\ C!Check(p)
         \/ p = Down /\ C!CheckClose
<1> USE DEF C!TypeOK, C!Processes, C!To, C!Aim, C!At
<1>1. ASSUME NEW i \in Invocations, C!Readback(i) PROVE proc'[p] = proc[p]
  <2>1. \E there \in {"read", "send", "raised", "done"} : \E goal \in {"DISPATCHED", proc[i].goal} :
          proc' = [proc EXCEPT ![i].pc = there, ![i].goal = goal]
    BY <1>1, ReadbackLeads DEF PlaceTells, C!Goal
  <2> QED
    BY <2>1
<1>2. ASSUME NEW q \in C!Processes, C!Read(q) \/ C!Put(q) \/ C!Dies(q) PROVE proc'[p] = proc[p]
  BY <1>2 DEF C!Read, C!Put, C!Dies
<1>3. ASSUME NEW i \in Invocations, C!Fails(i) \/ C!Send(i) \/ C!Respond(i) \/ C!Ack(i) \/ C!Observe(i)
      PROVE  proc'[p] = proc[p]
  BY <1>3 DEF C!Fails, C!Send, C!Respond, C!Ack, C!Observe
<1>4. ASSUME NEW i \in Invocations, C!Check(i) PROVE proc'[p] = proc[p] \/ p = i
  BY <1>4 DEF C!Check
<1>5. CASE C!Acquires \/ C!Request \/ C!Inspect \/ C!ReadbackClose \/ C!Report \/ C!Refused
  BY <1>5 DEF C!Acquires, C!Request, C!Inspect, C!ReadbackClose, C!Report, C!Refused
<1>6. CASE C!CheckClose
  BY <1>6 DEF C!CheckClose
<1>7. UNCHANGED proc => proc'[p] = proc[p]
  OBVIOUS
<1> QED
  BY <1>1, <1>2, <1>3, <1>4, <1>5, <1>6, <1>7 DEF C!Next, C!Invocation, C!Closing,
     C!LateEffect, C!Land,
     C!OtherAcquires, C!OtherReleases

\* A process that is about to put has just checked what it read.
LEMMA NextLawful ==
  ASSUME C!TypeOK, Accounts, PlaceTells, PutsAreLawful, C!Next
  PROVE  PutsAreLawful'
<1>1. \A put \in flying : Lawful(put.prior, put.value, Made')
  BY MadeGrows, LawfulLasts DEF PutsAreLawful
<1>2. \A put \in flying' : Lawful(put.prior, put.value, Made')
  <2>1. ASSUME NEW p \in C!Processes, C!Put(p)
        PROVE  \A put \in flying' : Lawful(put.prior, put.value, Made')
    <3>1. Lawful(C!Prior(p), C!Value(p), Made')
      BY <2>1, PutIsLawful, MadeGrows, LawfulLasts DEF C!Put
    <3> QED
      BY <2>1, <1>1, <3>1 DEF C!Put
  <2>2. flying' \subseteq flying => \A put \in flying' : Lawful(put.prior, put.value, Made')
    BY <1>1
  <2> QED
    BY <2>1, <2>2 DEF C!Next, C!Invocation, C!Closing, C!Land, C!Processes, C!Read,
       C!Check, C!Readback, C!Fails,
       C!Send, C!LateEffect, C!Respond, C!Ack, C!Observe, C!Dies, C!OtherAcquires, C!OtherReleases, C!Acquires,
       C!Request, C!Inspect, C!CheckClose, C!ReadbackClose, C!Report, C!Refused
<1>3. ASSUME NEW i \in Invocations, C!At(i, "put")' PROVE Lawful(C!Prior(i), C!Value(i), Made)'
  <2>1. CASE proc'[i] = proc[i]
    <3>1. C!Prior(i)' = C!Prior(i) /\ C!Value(i)' = C!Value(i) /\ C!At(i, "put")
      BY <1>3, <2>1, ClosureHolds DEF C!ClosureAssumption, C!Prior, C!Value, C!Goal, C!At
    <3>2. Lawful(C!Prior(i), C!Value(i), Made')
      BY <3>1, MadeGrows, LawfulLasts DEF PutsAreLawful
    <3> QED
      BY <3>1, <3>2
  <2>2. CASE C!Check(i)
    <3>1. /\ C!Prior(i)' = C!Prior(i) /\ C!Goal(i)' = C!Goal(i)
      BY <2>2 DEF C!Check, C!To, C!Prior, C!Goal, C!TypeOK, C!Processes
    <3>2. C!Value(i)' = C!Value(i) /\ i # Down
      BY <3>1, ClosureHolds DEF C!ClosureAssumption, C!Value
    <3>3. /\ C!Value(i).closure = C!Prior(i).closure
          /\ C!Value(i).permits[i] = C!Goal(i)
          /\ \A j \in Invocations \ {i} : C!Value(i).permits[j] = C!Prior(i).permits[j]
      BY <3>2, ValueIsHead DEF PlaceTells, C!Processes
    <3>4. C!Goal(i) \in {"ADMITTED", "DISPATCHED", "CANCELLED", "SEALED"}
      BY DEF C!TypeOK, PlaceTells, C!Goal, C!Processes
    <3>5. Moves(i, C!Prior(i), C!Value(i), Made)
      BY <2>2, <3>3, <3>4 DEF C!Check, C!Admissible, C!Permitted, C!Expected, Moves,
         PlaceTells, C!At
    <3>6. Lawful(C!Prior(i), C!Value(i), Made)
      BY <3>3, <3>5 DEF Lawful
    <3>7. Lawful(C!Prior(i), C!Value(i), Made')
      BY <3>6, MadeGrows, LawfulLasts
    <3> QED
      BY <3>1, <3>2, <3>7
  <2> QED
    BY <1>3, <2>1, <2>2, PutIsChecked, ClosureHolds DEF C!ClosureAssumption, C!At, C!Processes
<1>4. ASSUME C!At(Down, "put")' PROVE C!Prior(Down).closure' = None
  <2>1. CASE proc'[Down] = proc[Down]
    BY <1>4, <2>1 DEF PutsAreLawful, C!At, C!Prior
  <2>2. CASE C!CheckClose
    <3>1. C!To(Down, "put") /\ C!Prior(Down).closure = None
      BY <1>4, <2>2 DEF C!CheckClose, C!To, C!At, C!TypeOK, C!Processes
    <3> QED
      BY <3>1 DEF C!To, C!Prior, C!TypeOK, C!Processes
  <2> QED
    BY <1>4, <2>1, <2>2, PutIsChecked, ClosureHolds DEF C!ClosureAssumption, C!At, C!Processes
<1> QED
  BY <1>2, <1>3, <1>4 DEF PutsAreLawful

\* A permit of the head tells of the call, whoever writes the head.
LEMMA NextAccounts ==
  ASSUME C!TypeOK, Accounts, PlaceTells, PutsAreLawful, C!Next
  PROVE  Accounts'
<1>1. head' = head \/ Lawful(head, head', Made)
  BY HeadMoves
<1>2. Made \subseteq Made'
  BY MadeGrows
<1>3. ASSUME NEW i \in Invocations,
             dispatched'[i] = dispatched[i], proc'[i].pc = "send" => proc[i].pc = "send"
      PROVE  /\ dispatched'[i] <= 1
             /\ C!At(i, "send")' => dispatched'[i] = 0 /\ head'.permits[i] = "DISPATCHED"
             /\ dispatched'[i] = 1 => head'.permits[i] \in {"DISPATCHED", "SEALED"}
             /\ head'.permits[i] = "SEALED" => i \in Made'
  <2>1. CASE head' = head \/ head'.permits[i] = head.permits[i]
    BY <1>2, <1>3, <2>1 DEF Accounts, C!At
  <2>2. CASE Moves(i, head, head', Made)
    BY <1>2, <1>3, <2>2 DEF Accounts, C!At, Moves, Made
  <2> QED
    BY <1>1, <2>1, <2>2 DEF Lawful, Closes
<1>4. ASSUME NEW i \in Invocations, C!Send(i) PROVE Accounts'
  <2>1. /\ head' = head /\ C!At(i, "send") /\ dispatched' = [dispatched EXCEPT ![i] = @ + 1]
        /\ proc'[i].pc # "send"
        /\ \A j \in Invocations \ {i} : proc'[j] = proc[j]
    BY <1>4 DEF C!Send, C!At, C!To, C!TypeOK, C!Processes
  <2>2. dispatched[i] = 0 /\ head.permits[i] = "DISPATCHED" /\ dispatched'[i] = 1
    BY <2>1 DEF Accounts, C!TypeOK
  <2>3. \A j \in Invocations \ {i} : dispatched'[j] = dispatched[j]
    BY <2>1 DEF C!TypeOK
  <2> QED
    BY <1>3, <2>1, <2>2, <2>3 DEF Accounts, C!At
<1>5. ASSUME NEW i \in Invocations, C!Readback(i) PROVE Accounts'
  <2>1. C!Goal(i) \in {"ADMITTED", "DISPATCHED", "CANCELLED", "SEALED"}
    BY DEF C!TypeOK, PlaceTells, C!Goal, C!Processes
  <2>2. /\ UNCHANGED <<head, dispatched>> /\ C!At(i, "readback")
        /\ \A j \in Invocations \ {i} : proc'[j] = proc[j]
        /\ proc'[i].pc = "send" => C!Goal(i) = "DISPATCHED"
    <3>1. \/ C!Goal(i) = "ADMITTED"   /\ C!Aim(i, "DISPATCHED")
          \/ C!Goal(i) = "DISPATCHED" /\ C!To(i, "send")
          \/ C!Goal(i) = "CANCELLED"  /\ C!To(i, "raised")
          \/ C!Goal(i) = "SEALED"     /\ C!To(i, "done")
      BY <1>5, <2>1, ReadbackLeads
    <3>2. UNCHANGED <<head, dispatched>> /\ C!At(i, "readback")
      BY <1>5 DEF C!Readback, C!ec2
    <3>3. \A j \in Invocations \ {i} : proc'[j] = proc[j]
      BY <3>1 DEF C!Aim, C!To, C!TypeOK, C!Processes
    <3>4. proc'[i].pc = "send" => C!Goal(i) = "DISPATCHED"
      BY <3>1 DEF C!Aim, C!To, C!TypeOK, C!Processes
    <3> QED
      BY <3>2, <3>3, <3>4
  <2>3. CASE C!Goal(i) = "DISPATCHED"
    <3>1. head.permits[i] = "DISPATCHED"
      BY <1>5, <2>3, ValueIsHead, ClosureHolds DEF C!ClosureAssumption, C!Readback,
         C!Settled, PlaceTells, C!Processes
    <3> QED
      BY <1>2, <1>3, <2>2, <2>3, <3>1 DEF Accounts, PlaceTells, C!At
  <2>4. CASE C!Goal(i) # "DISPATCHED"
    BY <1>3, <2>2, <2>4 DEF Accounts
  <2> QED
    BY <2>3, <2>4
<1>6. ASSUME UNCHANGED dispatched, \A i \in Invocations : proc'[i].pc = "send" => proc[i].pc = "send"
      PROVE  Accounts'
  BY <1>3, <1>6 DEF Accounts
<1>7. ASSUME NEW p \in C!Processes, C!Read(p) \/ C!Put(p) \/ C!Dies(p) PROVE Accounts'
  BY <1>6, <1>7 DEF C!Read, C!Put, C!Dies, C!To, C!TypeOK, C!Processes, C!ec2
<1>8. ASSUME NEW i \in Invocations, C!Check(i) \/ C!Fails(i) \/ C!Respond(i) \/ C!Ack(i) \/ C!Observe(i)
      PROVE  Accounts'
  BY <1>6, <1>8 DEF C!Check, C!Fails, C!Respond, C!Ack, C!Observe, C!To, C!Aim, C!TypeOK,
     C!Processes, C!ec2
<1>9. CASE C!Acquires \/ C!Request \/ C!Inspect \/ C!CheckClose \/ C!ReadbackClose \/ C!Report \/ C!Refused
  BY <1>6, <1>9 DEF C!Acquires, C!Request, C!Inspect, C!CheckClose, C!ReadbackClose,
     C!Report, C!Refused,
     C!To, C!TypeOK, C!Processes, C!ec2
<1>10. UNCHANGED <<dispatched, proc>> => Accounts'
  BY <1>6
<1> QED
  BY <1>4, <1>5, <1>7, <1>8, <1>9, <1>10 DEF C!Next, C!Invocation, C!Closing,
     C!LateEffect, C!Land,
     C!OtherAcquires, C!OtherReleases, C!Processes, C!ec2

\* From its look at a closed head to its report, what Down has seen bounds what is
\* pending; a report is of such a head.
LEMMA NextReportStands ==
  ASSUME C!TypeOK, Accounts, PlaceTells, PutsAreLawful, ReportStands, C!Next
  PROVE  ReportStands'
<1>1. \A pending : Within(head, pending) => Within(head', pending)
  BY HeadMoves, LawfulKeepsWithin
<1>2. ASSUME proc'[Down] = proc[Down], UNCHANGED report PROVE ReportStands'
  BY <1>1, <1>2 DEF ReportStands, C!At, C!Prior
<1>3. ASSUME proc'[Down].pc \notin {"check", "report"}, UNCHANGED report PROVE ReportStands'
  BY <1>1, <1>3 DEF ReportStands, C!At
<1>4. CASE C!Read(Down)
  <2>1. proc'[Down] = [proc[Down] EXCEPT !.pc = "check", !.prior = head] /\ head' = head
    BY <1>4 DEF C!Read, C!TypeOK, C!Processes
  <2>2. C!Prior(Down)' = head /\ proc'[Down].pc = "check"
    BY <2>1 DEF C!Prior, C!TypeOK, C!Processes
  <2> QED
    BY <1>4, <1>1, <2>1, <2>2 DEF ReportStands, C!At, Within, C!Read, C!down
<1>5. CASE C!CheckClose
  <2>1. \/ proc'[Down] = [proc[Down] EXCEPT !.pc = "put"]
        \/ proc'[Down] = [proc[Down] EXCEPT !.pc = "report"] /\ C!Prior(Down).closure = generation
    BY <1>5 DEF C!CheckClose, C!To, C!TypeOK, C!Processes
  <2>2. CASE proc'[Down] = [proc[Down] EXCEPT !.pc = "put"]
    BY <1>3, <1>5, <2>2 DEF C!CheckClose, C!down, C!TypeOK, C!Processes
  <2>3. CASE proc'[Down] = [proc[Down] EXCEPT !.pc = "report"] /\ C!Prior(Down).closure = generation
    <3>1. C!Prior(Down)' = C!Prior(Down) /\ generation # None
      BY <2>3, ClosureHolds DEF C!ClosureAssumption, C!Prior, C!TypeOK, C!Processes
    <3>2. Within(head, C!Pending(C!Prior(Down).permits))
      BY <1>5, <2>3, <3>1 DEF ReportStands, C!CheckClose
    <3> QED
      BY <1>1, <1>5, <2>3, <3>1, <3>2 DEF ReportStands, C!At, C!CheckClose, C!down,
         C!TypeOK, C!Processes
  <2> QED
    BY <2>1, <2>2, <2>3
<1>6. CASE C!ReadbackClose
  <2>1. /\ C!Prior(Down)' = head /\ proc'[Down].pc = "report" /\ head' = head /\ report' = report
    BY <1>6 DEF C!ReadbackClose, C!Prior, C!down, C!TypeOK, C!Processes
  <2>2. head.closure = generation /\ generation # None
    BY <1>6, ValueIsHead, ClosureHolds DEF C!ClosureAssumption, C!ReadbackClose,
       C!Settled, PlaceTells, C!Processes, C!TypeOK
  <2> QED
    BY <1>1, <2>1, <2>2 DEF ReportStands, C!At, Within
<1>7. CASE C!Report
  <2>1. /\ proc'[Down].pc = "intent" /\ head' = head
        /\ report' = C!Pending(C!Prior(Down).permits) /\ C!At(Down, "report")
    BY <1>7 DEF C!Report, C!To, C!TypeOK, C!Processes
  <2> QED
    BY <2>1 DEF ReportStands, C!At
<1>8. CASE C!Acquires \/ C!Request \/ C!Inspect \/ C!Put(Down) \/ C!Refused \/ C!Dies(Down)
  BY <1>3, <1>8 DEF C!Acquires, C!Request, C!Inspect, C!Put, C!Refused, C!Dies, C!To,
     C!TypeOK, C!Processes, C!down
<1>9. ASSUME NEW i \in Invocations, C!Invocation(i) PROVE ReportStands'
  <2>1. proc'[Down] = proc[Down] /\ UNCHANGED report
    <3>1. CASE C!Readback(i)
      <4>1. \E there \in {"read", "send", "raised", "done"} : \E goal \in {"DISPATCHED", proc[i].goal} :
              proc' = [proc EXCEPT ![i].pc = there, ![i].goal = goal]
        BY <3>1, ReadbackLeads DEF PlaceTells, C!Goal, C!TypeOK, C!Processes, C!Aim, C!To
      <4> QED
        BY <3>1, <4>1, ClosureHolds DEF C!ClosureAssumption, C!Readback, C!down, C!TypeOK,
           C!Processes
    <3>2. CASE ~C!Readback(i)
      BY <1>9, <3>2, ClosureHolds DEF C!ClosureAssumption, C!Invocation, C!Read, C!Check,
         C!Put, C!Fails, C!Send, C!LateEffect,
         C!Respond, C!Ack, C!Observe, C!Dies, C!To, C!Aim, C!TypeOK, C!Processes, C!down
    <3> QED
      BY <3>1, <3>2
  <2> QED
    BY <1>2, <2>1
<1>10. UNCHANGED <<proc, report>> => ReportStands'
  BY <1>2
<1> QED
  BY <1>4, <1>5, <1>6, <1>7, <1>8, <1>9, <1>10 DEF C!Next, C!Closing, C!Land, C!OtherAcquires,
     C!OtherReleases, C!down
-----------------------------------------------------------------------------
(* The theorems.                                                            *)

LEMMA ClosureInvAlways == ClosureSpec => []ClosureInv
<1>1. C!Init => ClosureInv
  BY InitInv
<1>2. ClosureInv /\ [C!Next]_(C!vars) => ClosureInv'
  <2>1. CASE UNCHANGED C!vars
    BY <2>1 DEF C!vars, C!e2, C!ec2, C!down, ClosureInv, C!TypeOK, Accounts,
       PutsAreLawful, PlaceTells,
       ReportStands, Made, C!At, C!Goal, C!Prior, C!Value, Within
  <2>2. ASSUME ClosureInv, C!Next PROVE ClosureInv'
    BY <2>2, NextTyped, NextPlace, NextLawful, NextAccounts, NextReportStands DEF ClosureInv
  <2> QED
    BY <2>1, <2>2
<1> QED
  BY <1>1, <1>2, PTL DEF ClosureSpec, C!Spec

\* The head accounts for every call of EC2, each of which is made at most once and
\* under a permit that is DISPATCHED, however puts are lost, land late or are
\* left by a process that died (closure.py:148-162, 299-313).
THEOREM AccountedAlways == ClosureSpec => []Accounted
<1>1. ClosureInv => Accounted
  BY DEF ClosureInv, Accounted, C!Accounted, Accounts, Made, C!At
<1> QED
  BY <1>1, ClosureInvAlways, PTL

\* Nothing new gets through a closed head, and nothing that a retained report has
\* not named, wherever the duties were when it was closed (closure.py:138-141,
\* 156-158, 164-191).
THEOREM ClosedStaysClosed == ClosureSpec => ClosedToNew
<1> DEFINE Step ==
      /\ head.closure # None =>
          /\ head'.closure = head.closure
          /\ \A i \in Invocations :
               /\ head'.permits[i] \in {"ADMITTED", "DISPATCHED"} => head'.permits[i] = head.permits[i]
               /\ dispatched'[i] # dispatched[i] => head.permits[i] = "DISPATCHED"
      /\ report # None => \A i \in Invocations \ report : dispatched'[i] = dispatched[i]
<1>1. ASSUME ClosureInv, C!Next PROVE Step
  <2>1. head.closure # None =>
          /\ head'.closure = head.closure
          /\ \A i \in Invocations :
               head'.permits[i] \in {"ADMITTED", "DISPATCHED"} => head'.permits[i] = head.permits[i]
    BY <1>1, HeadMoves, LawfulKeepsClosed DEF ClosureInv
  <2>2. \A i \in Invocations : dispatched'[i] # dispatched[i] => head.permits[i] = "DISPATCHED"
    <3>1. ASSUME NEW i \in Invocations, C!Send(i)
          PROVE  \A j \in Invocations : dispatched'[j] # dispatched[j] => head.permits[j] = "DISPATCHED"
      BY <1>1, <3>1 DEF C!Send, C!At, ClosureInv, Accounts, C!TypeOK
    <3> QED
      BY <1>1, <3>1 DEF C!Next, C!Invocation, C!Closing, C!Read, C!Check, C!Put,
         C!Readback, C!Fails,
         C!LateEffect, C!Respond, C!Ack, C!Observe, C!Dies, C!Land, C!OtherAcquires, C!OtherReleases, C!Acquires,
         C!Request, C!Inspect, C!CheckClose, C!ReadbackClose, C!Report, C!Refused, C!ec2
  <2>3. report # None => \A i \in Invocations : head.permits[i] = "DISPATCHED" => i \in report
    BY <1>1 DEF ClosureInv, ReportStands, Within, C!Pending
  <2> QED
    BY <2>1, <2>2, <2>3
<1>2. ClosureInv /\ [C!Next]_(C!vars) => [Step]_(C!vars)
  BY <1>1
<1> QED
  BY <1>2, ClosureInvAlways, PTL DEF ClosureSpec, C!Spec, ClosedToNew, C!ClosedToNew
==============================================================================
