---------------------------- MODULE LifecycleProofs ----------------------------
(***************************************************************************)
(* Theorems about Lifecycle, for any operations, kinds, and numbers of      *)
(* invocations, builds and lost calls.                                      *)
(*                                                                         *)
(* HeldUnlessDone is not inductive.  What carries it: one build at most is  *)
(* mapped to an operation, because the request is created once (Mapped);    *)
(* from the check of the owner to the release a build stays the holder,     *)
(* and so nobody else changes the layer (BuildTells); and nothing is        *)
(* completed but by the build of the operation (RecordsTell).               *)
(***************************************************************************)
EXTENDS Lifecycle, TLAPS

USE LifecycleAssumption

Places == {"unused", "begin", "waiting", "read", "acquire", "plan", "intent", "apply", "terraform",
           "verify", "complete", "finish", "release", "publish", "done", "dead"}
States == {None, "PLANNED", "UNKNOWN", "SUCCESS"}
BuildRecords == [pc : Places, op : Operations \cup {None}, result : States,
                 base : Nat, touched : BOOLEAN]

\* An invocation that has created the request, and whose build is not mapped yet.
Carries(g) == gateway[g].pc \in {"start", "map"}

\* One invocation or one build at most has the request of an operation.
Mapped ==
  /\ \A g \in Gateways :
       /\ gateway[g].pc \in {"check", "put", "start", "map"} => gateway[g].op \in Operations
       /\ Carries(g) => /\ gateway[g].op \in request
                        /\ \A b \in Builds : mapping[b] # gateway[g].op
       /\ gateway[g].pc = "map" => /\ gateway[g].id \in Builds
                                   /\ build[gateway[g].id].pc # "unused"
                                   /\ mapping[gateway[g].id] = None
  /\ \A g, h \in Gateways :
       /\ Carries(g) /\ Carries(h) /\ gateway[g].op = gateway[h].op => g = h
       /\ gateway[g].pc = "map" /\ gateway[h].pc = "map" /\ gateway[g].id = gateway[h].id => g = h
  /\ \A b \in Builds :
       /\ mapping[b] # None => mapping[b] \in request /\ build[b].pc # "unused"
       /\ Op(b) # None => mapping[b] = Op(b)
  /\ \A b, c \in Builds : mapping[b] # None /\ mapping[b] = mapping[c] => b = c

\* What the place of a build says of its operation, of E2 and of the layer.
BuildTells(b) ==
  /\ build[b].pc \in {"unused", "begin", "waiting"} <=> (Op(b) = None /\ build[b].pc # "dead")
  /\ build[b].pc \in {"unused", "begin", "waiting", "read", "acquire", "plan", "intent", "apply"} =>
       ~ build[b].touched
  /\ build[b].pc \in {"unused", "begin", "waiting", "read", "acquire", "plan", "intent", "apply",
                      "terraform", "verify", "complete"} =>
       build[b].result # "SUCCESS" /\ Op(b) \notin completed
  /\ build[b].pc \in {"apply", "terraform"} => intent[Op(b)] = "UNKNOWN"
  /\ build[b].pc \in {"terraform", "verify", "complete", "finish", "release"} => holder = b
  /\ build[b].pc = "terraform" /\ Kind(b) = "teardown" => Quiet
  /\ build[b].pc \in {"complete", "finish", "release"} => infra = Target(b)
  /\ build[b].pc \in {"finish", "release"} => build[b].result = "SUCCESS"
  /\ build[b].result = "SUCCESS" =>
       Op(b) \in completed /\ (build[b].pc \in {"finish", "dead"} \/ Op(b) \in terminal)
  /\ build[b].touched => holder = b \/ (Op(b) \in completed /\ Op(b) \in terminal)

BuildsTell == \A b \in Builds : BuildTells(b)

RecordsTell ==
  /\ terminal \subseteq completed
  /\ \A o \in completed : \E b \in Builds : Op(b) = o
  /\ \A o \in Operations : public[o] = "SUCCESS" => o \in terminal

LifecycleInv == TypeOK /\ Mapped /\ BuildsTell /\ RecordsTell
------------------------------------------------------------------------------
(* Moves.                                                                   *)

LEMMA ToMoves ==
  ASSUME TypeOK, NEW b \in Builds, NEW place \in Places, To(b, place)
  PROVE  /\ build' \in [Builds -> BuildRecords]
         /\ \A c \in Builds \ {b} : build'[c] = build[c]
         /\ build'[b].pc = place /\ build'[b].op = build[b].op
         /\ build'[b].result = build[b].result /\ build'[b].touched = build[b].touched
<1>1. build[b] \in BuildRecords /\ build \in [Builds -> BuildRecords]
  BY DEF TypeOK, BuildRecords, Places, States
<1>2. build' = [build EXCEPT ![b] = [build[b] EXCEPT !.pc = place]]
  BY <1>1 DEF To
<1>3. [build[b] EXCEPT !.pc = place] \in BuildRecords
  BY <1>1 DEF BuildRecords
<1> QED
  BY <1>1, <1>2, <1>3 DEF BuildRecords

LEMMA ResultMoves ==
  ASSUME TypeOK, NEW b \in Builds, NEW place \in Places, NEW state \in States,
         Result(b, place, state)
  PROVE  /\ build' \in [Builds -> BuildRecords]
         /\ \A c \in Builds \ {b} : build'[c] = build[c]
         /\ build'[b].pc = place /\ build'[b].op = build[b].op
         /\ build'[b].result = state /\ build'[b].touched = build[b].touched
<1>1. build[b] \in BuildRecords /\ build \in [Builds -> BuildRecords]
  BY DEF TypeOK, BuildRecords, Places, States
<1>2. build' = [build EXCEPT ![b] = [[build[b] EXCEPT !.pc = place] EXCEPT !.result = state]]
  BY <1>1 DEF Result
<1>3. [[build[b] EXCEPT !.pc = place] EXCEPT !.result = state] \in BuildRecords
  BY <1>1 DEF BuildRecords
<1> QED
  BY <1>1, <1>2, <1>3 DEF BuildRecords

\* A gateway moves one invocation; all that it does to the builds is to start one.
GatewayRecords == [pc : {"idle", "check", "put", "start", "map", "UNKNOWN", "STARTED", "raised"},
                   op : Operations \cup {None}, id : Builds \cup {None}]

LEMMA GatewayToMoves ==
  ASSUME TypeOK, NEW g \in Gateways,
         NEW place \in {"idle", "check", "put", "start", "map", "UNKNOWN", "STARTED", "raised"},
         GatewayTo(g, place)
  PROVE  /\ gateway' \in [Gateways -> GatewayRecords]
         /\ \A h \in Gateways \ {g} : gateway'[h] = gateway[h]
         /\ gateway'[g].pc = place /\ gateway'[g].op = gateway[g].op
         /\ gateway'[g].id = gateway[g].id
<1>1. gateway[g] \in GatewayRecords /\ gateway \in [Gateways -> GatewayRecords]
  BY DEF TypeOK, GatewayRecords
<1>2. gateway' = [gateway EXCEPT ![g] = [gateway[g] EXCEPT !.pc = place]]
  BY <1>1 DEF GatewayTo
<1>3. [gateway[g] EXCEPT !.pc = place] \in GatewayRecords
  BY <1>1 DEF GatewayRecords
<1> QED
  BY <1>1, <1>2, <1>3 DEF GatewayRecords

LEMMA StartMoves ==
  ASSUME TypeOK, NEW g \in Gateways, NEW b \in Builds,
         gateway' = [gateway EXCEPT ![g] = [@ EXCEPT !.pc = "map", !.id = b]]
  PROVE  /\ gateway' \in [Gateways -> GatewayRecords]
         /\ \A h \in Gateways \ {g} : gateway'[h] = gateway[h]
         /\ gateway'[g].pc = "map" /\ gateway'[g].op = gateway[g].op /\ gateway'[g].id = b
<1>1. gateway[g] \in GatewayRecords /\ gateway \in [Gateways -> GatewayRecords]
  BY DEF TypeOK, GatewayRecords
<1> QED
  BY <1>1 DEF GatewayRecords

LEMMA BeginMoves ==
  ASSUME TypeOK, NEW g \in Gateways, NEW o \in Operations, GatewayBegin(g, o)
  PROVE  /\ gateway' \in [Gateways -> GatewayRecords]
         /\ \A h \in Gateways \ {g} : gateway'[h] = gateway[h]
         /\ gateway'[g].pc = "check" /\ gateway'[g].op = o
<1>1. gateway[g] \in GatewayRecords /\ gateway \in [Gateways -> GatewayRecords]
  BY DEF TypeOK, GatewayRecords
<1> QED
  BY <1>1 DEF GatewayRecords, GatewayBegin
------------------------------------------------------------------------------
(* The steps of the gateway.                                                *)

\* The build that is started, and the others.
LEMMA StartedTells ==
  ASSUME LifecycleInv, NEW b \in Builds, build[b].pc = "unused", To(b, "begin"),
         UNCHANGED <<records, e2, layer>>
  PROVE  BuildsTell' /\ RecordsTell' /\ build' \in [Builds -> BuildRecords]
<1>1. /\ build' \in [Builds -> BuildRecords]
      /\ \A c \in Builds \ {b} : build'[c] = build[c]
      /\ build'[b].pc = "begin" /\ build'[b].op = build[b].op
      /\ build'[b].result = build[b].result /\ build'[b].touched = build[b].touched
  BY ToMoves DEF LifecycleInv, Places
<1>2. BuildsTell'
  BY <1>1 DEF LifecycleInv, BuildsTell, BuildTells, Op, Kind, Quiet, Observed, Target,
     records, e2, layer
<1>3. RecordsTell'
  BY <1>1 DEF LifecycleInv, RecordsTell, Op, records, e2
<1> QED
  BY <1>1, <1>2, <1>3

LEMMA GatewaySteps ==
  ASSUME LifecycleInv, NEW g \in Gateways, Gateway(g)
  PROVE  LifecycleInv'
<1> USE DEF LifecycleInv
<1>a. ASSUME UNCHANGED <<build, records, e2, layer>> PROVE BuildsTell' /\ RecordsTell'
  BY <1>a DEF BuildsTell, BuildTells, RecordsTell, Op, Kind, Quiet, Observed, Target,
     records, e2, layer
<1>1. ASSUME NEW o \in Operations, GatewayBegin(g, o) PROVE LifecycleInv'
  <2>1. /\ gateway' \in [Gateways -> GatewayRecords]
        /\ \A h \in Gateways \ {g} : gateway'[h] = gateway[h]
        /\ gateway'[g].pc = "check" /\ gateway'[g].op = o
    BY <1>1, BeginMoves
  <2>2. TypeOK'
    BY <1>1, <2>1 DEF GatewayBegin, TypeOK, GatewayRecords, install, records, e2, layer
  <2>3. Mapped'
    BY <1>1, <2>1 DEF GatewayBegin, Mapped, Carries, Op
  <2> QED
    BY <1>1, <1>a, <2>2, <2>3 DEF GatewayBegin
<1>2. CASE GatewayCheck(g) \/ GatewayLoses(g) \/ GatewayFails(g)
  <2>1. PICK place \in {"UNKNOWN", "put", "raised"} : GatewayTo(g, place)
    BY <1>2 DEF GatewayCheck, GatewayLoses, GatewayFails
  <2>2. /\ gateway[g].pc \in {"check", "put", "start", "map"}
        /\ place = "put" => gateway[g].pc = "check"
        /\ UNCHANGED <<install, request, mapping, records, e2, build, layer>>
        /\ UNCHANGED faults \/ Fault
    BY <1>2, <2>1, GatewayToMoves DEF GatewayCheck, GatewayLoses, GatewayFails
  <2>3. /\ gateway' \in [Gateways -> GatewayRecords]
        /\ \A h \in Gateways \ {g} : gateway'[h] = gateway[h]
        /\ gateway'[g].pc = place /\ gateway'[g].op = gateway[g].op
    BY <2>1, GatewayToMoves
  <2>4. TypeOK'
    BY <2>2, <2>3 DEF TypeOK, GatewayRecords, install, records, e2, layer, Fault
  <2>5. Mapped'
    BY <2>2, <2>3 DEF Mapped, Carries, Op
  <2> QED
    BY <1>a, <2>2, <2>4, <2>5
<1>3. CASE GatewayPut(g)
  <2>1. /\ gateway[g].pc = "put" /\ gateway[g].op \notin request
        /\ request' = request \cup {gateway[g].op}
        /\ UNCHANGED <<install, mapping, records, e2, build, layer>>
        /\ UNCHANGED faults \/ Fault
    BY <1>3 DEF GatewayPut
  <2>2. PICK place \in {"start", "raised"} : GatewayTo(g, place)
    BY <1>3 DEF GatewayPut
  <2>3. /\ gateway' \in [Gateways -> GatewayRecords]
        /\ \A h \in Gateways \ {g} : gateway'[h] = gateway[h]
        /\ gateway'[g].pc = place /\ gateway'[g].op = gateway[g].op
    BY <2>2, GatewayToMoves
  <2>4. gateway[g].op \in Operations
    BY <2>1 DEF Mapped
  <2>5. TypeOK'
    BY <2>1, <2>3, <2>4 DEF TypeOK, GatewayRecords, install, records, e2, layer, Fault
  <2>6. Mapped'
    BY <2>1, <2>3, <2>4 DEF Mapped, Carries, Op
  <2> QED
    BY <1>a, <2>1, <2>5, <2>6
<1>4. CASE GatewayStart(g)
  <2>1. PICK b \in Builds :
          /\ build[b].pc = "unused" /\ To(b, "begin")
          /\ \/ gateway' = [gateway EXCEPT ![g] = [@ EXCEPT !.pc = "map", !.id = b]]
             \/ GatewayTo(g, "raised")
          /\ UNCHANGED faults \/ Fault
    BY <1>4 DEF GatewayStart, To
  <2>2. gateway[g].pc = "start" /\ UNCHANGED <<install, request, mapping, records, e2, layer>>
    BY <1>4 DEF GatewayStart
  <2>3. /\ gateway' \in [Gateways -> GatewayRecords]
        /\ \A h \in Gateways \ {g} : gateway'[h] = gateway[h]
        /\ gateway'[g].op = gateway[g].op
        /\ gateway'[g].pc = "raised" \/ (gateway'[g].pc = "map" /\ gateway'[g].id = b)
    BY <2>1, StartMoves, GatewayToMoves
  <2>4. /\ \A c \in Builds \ {b} : build'[c] = build[c]
        /\ build'[b].pc = "begin" /\ build'[b].op = build[b].op
    BY <2>1, ToMoves DEF Places
  <2>5. BuildsTell' /\ RecordsTell' /\ build' \in [Builds -> BuildRecords]
    BY <2>1, <2>2, StartedTells
  <2>6. TypeOK'
    BY <2>1, <2>2, <2>3, <2>5 DEF TypeOK, GatewayRecords, BuildRecords, Places, States,
       install, records, e2, layer, Fault
  <2>7. Mapped'
    BY <2>1, <2>2, <2>3, <2>4 DEF Mapped, Carries, Op
  <2> QED
    BY <2>5, <2>6, <2>7
<1>5. CASE GatewayMap(g)
  <2>1. /\ gateway[g].pc = "map" /\ mapping' = [mapping EXCEPT ![gateway[g].id] = gateway[g].op]
        /\ UNCHANGED <<install, request, records, e2, build, layer>>
        /\ UNCHANGED faults \/ Fault
    BY <1>5 DEF GatewayMap
  <2>2. PICK place \in {"STARTED", "raised"} : GatewayTo(g, place)
    BY <1>5 DEF GatewayMap
  <2>3. /\ gateway' \in [Gateways -> GatewayRecords]
        /\ \A h \in Gateways \ {g} : gateway'[h] = gateway[h]
        /\ gateway'[g].pc = place /\ gateway'[g].op = gateway[g].op
    BY <2>2, GatewayToMoves
  <2>4. gateway[g].op \in Operations /\ gateway[g].id \in Builds
    BY <2>1 DEF Mapped
  <2>5. TypeOK'
    BY <2>1, <2>3, <2>4 DEF TypeOK, GatewayRecords, install, records, e2, layer, Fault
  <2>6. Mapped'
    <3> DEFINE o == gateway[g].op
               b == gateway[g].id
    <3>1. /\ mapping'[b] = o /\ \A c \in Builds \ {b} : mapping'[c] = mapping[c]
          /\ mapping[b] = None /\ Op(b) = None /\ build[b].pc # "unused"
          /\ o \in request /\ \A c \in Builds : mapping[c] # o
      BY <2>1, <2>4 DEF Mapped, Carries, TypeOK
    <3>2. \A h \in Gateways \ {g} :
            /\ Carries(h) => gateway[h].op # o
            /\ gateway[h].pc = "map" => gateway[h].id # b
      BY <2>1 DEF Mapped, Carries
    <3> HIDE DEF o, b
    <3>3. ~ Carries(g)'
      BY <2>3 DEF Carries
    <3>4. ASSUME NEW h \in Gateways \ {g}
          PROVE  /\ gateway'[h].pc \in {"check", "put", "start", "map"} => gateway'[h].op \in Operations
                 /\ Carries(h)' => /\ gateway'[h].op \in request'
                                   /\ \A c \in Builds : mapping'[c] # gateway'[h].op
                 /\ gateway'[h].pc = "map" => /\ gateway'[h].id \in Builds
                                              /\ build'[gateway'[h].id].pc # "unused"
                                              /\ mapping'[gateway'[h].id] = None
      BY <2>1, <2>3, <3>1, <3>2 DEF Mapped, Carries
    <3>5. \A c \in Builds :
            /\ mapping'[c] # None => mapping'[c] \in request' /\ build'[c].pc # "unused"
            /\ Op(c)' # None => mapping'[c] = Op(c)'
      BY <2>1, <3>1 DEF Mapped, Op
    <3>6. \A c, d \in Builds : mapping'[c] # None /\ mapping'[c] = mapping'[d] => c = d
      BY <3>1 DEF Mapped
    <3> QED
      BY <2>3, <3>3, <3>4, <3>5, <3>6 DEF Mapped, Carries
  <2> QED
    BY <1>a, <2>1, <2>5, <2>6
<1> QED
  BY <1>1, <1>2, <1>3, <1>4, <1>5 DEF Gateway
------------------------------------------------------------------------------
(* The steps of a build.                                                    *)

\* A step of build b that keeps its operation: it writes the records of that
\* operation alone, takes E2 when it is free or gives back what it holds, and
\* changes the layer as the holder only.
StepOf(b) ==
  /\ build' \in [Builds -> BuildRecords]
  /\ \A c \in Builds \ {b} : build'[c] = build[c]
  /\ build[b].pc # "unused" /\ build'[b].pc # "unused" /\ build'[b].op = build[b].op
  /\ UNCHANGED <<install, gate, mapping>> /\ (UNCHANGED faults \/ Fault)
  /\ completed \subseteq completed' /\ completed' \subseteq completed \cup ({Op(b)} \ {None})
  /\ terminal \subseteq terminal' /\ terminal' \subseteq terminal \cup {Op(b)}
  /\ terminal' \subseteq completed'
  /\ intent' \in [Operations -> {None, "PLANNED", "UNKNOWN"}]
  /\ \A o \in Operations \ {Op(b)} : intent'[o] = intent[o]
  /\ public' \in [Operations -> States]
  /\ \A o \in Operations : public'[o] = public[o] \/ (o = Op(b) /\ (public'[o] = "SUCCESS" => o \in terminal))
  /\ holder' = holder \/ (holder \in {b, None} /\ holder' \in {b, None})
  /\ UNCHANGED layer \/ holder = b
  /\ infra' \in {"absent", "present", "partial"} /\ serial' \in Nat /\ tasks' \in BOOLEAN
  /\ BuildTells(b)'

LEMMA StepOfKeeps ==
  ASSUME LifecycleInv, NEW b \in Builds, StepOf(b)
  PROVE  LifecycleInv'
<1> USE DEF LifecycleInv
<1>1. TypeOK'
  <2>1. completed' \subseteq Operations /\ terminal' \subseteq Operations
    BY DEF StepOf, TypeOK, Op
  <2>2. holder' \in Builds \cup {None, Delivery}
    BY DEF StepOf, TypeOK
  <2>3. faults' \in 0..MaxFaults
    BY DEF StepOf, TypeOK, Fault
  <2>4. UNCHANGED <<environment, active, gateway, request, mapping>>
    BY DEF StepOf, install, gate
  <2>5. /\ build' \in [Builds -> BuildRecords] /\ public' \in [Operations -> States]
        /\ intent' \in [Operations -> {None, "PLANNED", "UNKNOWN"}]
        /\ infra' \in {"absent", "present", "partial"} /\ serial' \in Nat /\ tasks' \in BOOLEAN
    BY DEF StepOf
  <2> QED
    BY <2>1, <2>2, <2>3, <2>4, <2>5 DEF TypeOK, BuildRecords, Places, States
<1>2. Mapped'
  <2>1. \A c \in Builds : Op(c)' = Op(c) /\ (build'[c].pc = "unused" <=> build[c].pc = "unused")
    BY DEF StepOf, Op
  <2>2. UNCHANGED <<gateway, request, mapping>>
    BY DEF StepOf, gate
  <2> QED
    BY <2>1, <2>2 DEF Mapped, Carries
<1>3. ASSUME NEW c \in Builds \ {b} PROVE BuildTells(c)'
  <2>1. build'[c] = build[c] /\ BuildTells(c) /\ c # b /\ c # None
    BY <1>3 DEF StepOf, BuildsTell, Builds
  <2>2. Op(c) # None => Op(c) # Op(b) /\ Op(c) \in Operations
    BY <1>3 DEF Mapped, TypeOK, Op
  <2>3. holder = c => holder' = c /\ UNCHANGED layer
    BY <2>1 DEF StepOf
  <2>4. Op(c) = None => Op(c) \notin completed /\ Op(c) \notin completed'
    BY DEF StepOf, TypeOK
  <2>5. ASSUME Op(c) # None
        PROVE  /\ Op(c) \in completed' <=> Op(c) \in completed
               /\ Op(c) \in terminal' <=> Op(c) \in terminal
               /\ intent'[Op(c)] = intent[Op(c)]
    BY <2>2, <2>5 DEF StepOf
  <2>6. Op(c)' = Op(c) /\ Kind(c)' = Kind(c) /\ Target(c)' = Target(c)
    BY <2>1 DEF Op, Kind, Target
  <2>7. /\ build[c].pc \in {"terraform", "complete", "finish", "release"} => UNCHANGED layer
        /\ UNCHANGED layer => Quiet' = Quiet /\ infra' = infra
    BY <2>1, <2>3 DEF BuildTells, layer, Quiet, Observed
  <2> DEFINE pc == build[c].pc
  <2>8. pc \notin {"unused", "begin", "waiting", "dead"} => Op(c) # None
    BY <2>1 DEF BuildTells
  <2>9. /\ pc \in {"unused", "begin", "waiting"} <=> (Op(c) = None /\ pc # "dead")
        /\ pc \in {"unused", "begin", "waiting", "read", "acquire", "plan", "intent", "apply"} =>
             ~ build[c].touched
        /\ pc \in {"unused", "begin", "waiting", "read", "acquire", "plan", "intent", "apply",
                   "terraform", "verify", "complete"} =>
             build[c].result # "SUCCESS" /\ Op(c) \notin completed'
    BY <2>1, <2>4, <2>5, <2>6 DEF BuildTells
  <2>10. /\ pc \in {"apply", "terraform"} => intent'[Op(c)] = "UNKNOWN"
         /\ pc \in {"terraform", "verify", "complete", "finish", "release"} => holder' = c
         /\ pc = "terraform" /\ Kind(c) = "teardown" => Quiet'
         /\ pc \in {"complete", "finish", "release"} => infra' = Target(c)
         /\ pc \in {"finish", "release"} => build[c].result = "SUCCESS"
    BY <2>1, <2>3, <2>5, <2>6, <2>7, <2>8 DEF BuildTells
  <2>11. /\ build[c].result = "SUCCESS" =>
              Op(c) \in completed' /\ (pc \in {"finish", "dead"} \/ Op(c) \in terminal')
         /\ build[c].touched => holder' = c \/ (Op(c) \in completed' /\ Op(c) \in terminal')
    BY <2>1, <2>3, <2>4, <2>5 DEF BuildTells
  <2> QED
    BY <2>1, <2>6, <2>9, <2>10, <2>11 DEF BuildTells
<1>4. BuildsTell'
  BY <1>3 DEF BuildsTell, StepOf
<1>5. RecordsTell'
  <2>1. \A c \in Builds : Op(c)' = Op(c)
    BY DEF StepOf, Op
  <2>2. \A o \in completed' : \E c \in Builds : Op(c)' = o
    BY <2>1 DEF StepOf, RecordsTell
  <2> QED
    BY <2>2 DEF StepOf, RecordsTell
<1> QED
  BY <1>1, <1>2, <1>4, <1>5

\* A step that does nothing but move the build.
LEMMA MoveIsStep ==
  ASSUME LifecycleInv, NEW b \in Builds, build[b].pc # "unused",
         build' \in [Builds -> BuildRecords], \A c \in Builds \ {b} : build'[c] = build[c],
         build'[b].pc # "unused", build'[b].op = build[b].op,
         UNCHANGED <<install, gate, mapping, records, e2, layer>>, UNCHANGED faults \/ Fault,
         BuildTells(b)'
  PROVE  StepOf(b)
<1> QED
  BY DEF StepOf, LifecycleInv, TypeOK, RecordsTell, States, records, e2, layer

LEMMA BuildSteps ==
  ASSUME LifecycleInv, NEW b \in Builds, Build(b) \/ Dies(b), ~ BuildFinds(b)
  PROVE  StepOf(b)
<1> USE DEF LifecycleInv
<1>a. BuildTells(b) /\ build[b] \in BuildRecords /\ Op(b) \in Operations \cup {None}
  BY DEF BuildsTell, TypeOK, BuildRecords, Places, States, Op
<1>b. build[b].pc \notin {"unused", "begin", "waiting", "dead"} => Op(b) \in Operations
  BY <1>a DEF BuildTells
<1> USE DEF At
<1>1. CASE BuildBegins(b) \/ BuildGivesUp(b) \/ Refused(b) \/ Dies(b)
  <2>1. PICK place \in {"waiting", "dead"} : To(b, place) /\ (place = "waiting" => BuildBegins(b))
    BY <1>1 DEF BuildBegins, BuildGivesUp, Refused, Dies
  <2>2. /\ build[b].pc # "unused" /\ (place = "waiting" => build[b].pc = "begin")
        /\ UNCHANGED <<install, gate, mapping, records, e2, layer>> /\ (UNCHANGED faults \/ Fault)
    BY <1>1, <2>1 DEF BuildBegins, BuildGivesUp, Refused, Dies
  <2>3. /\ build' \in [Builds -> BuildRecords] /\ \A c \in Builds \ {b} : build'[c] = build[c]
        /\ build'[b].pc = place /\ build'[b].op = build[b].op
        /\ build'[b].result = build[b].result /\ build'[b].touched = build[b].touched
    BY <2>1, ToMoves DEF Places
  <2>4. BuildTells(b)'
    BY <1>a, <2>2, <2>3 DEF BuildTells, Op, e2, records
  <2> QED
    BY <2>2, <2>3, <2>4, MoveIsStep
<1>2. CASE BuildReads(b)
  <2>1. /\ build[b].pc = "read" /\ Op(b) \in Operations /\ Op(b) \notin completed
        /\ UNCHANGED <<install, gate, mapping, records, e2, layer, faults>>
    BY <1>2, <1>a, <1>b DEF BuildReads, BuildTells
  <2>2. \/ \E state \in {"PLANNED", "UNKNOWN"} : Result(b, "publish", state)
        \/ \E place \in {"plan", "acquire"} : To(b, place)
    BY <1>2, <2>1 DEF BuildReads, Retained, TypeOK
  <2>3. /\ build' \in [Builds -> BuildRecords] /\ \A c \in Builds \ {b} : build'[c] = build[c]
        /\ build'[b].op = build[b].op /\ build'[b].touched = build[b].touched
        /\ build'[b].pc \in {"plan", "acquire", "publish"} /\ build'[b].result # "SUCCESS"
    BY <1>a, <2>1, <2>2, ToMoves, ResultMoves DEF Places, States, BuildTells
  <2>4. BuildTells(b)'
    BY <1>a, <2>1, <2>3 DEF BuildTells, Op, e2, records
  <2> QED
    BY <2>1, <2>3, <2>4, MoveIsStep
<1>3. CASE Acquire(b)
  <2>1. /\ build[b].pc = "acquire" /\ Op(b) \in Operations
        /\ Op(b) \notin completed /\ Op(b) \notin terminal
        /\ UNCHANGED <<install, gate, mapping, records, terminal, layer>> /\ (UNCHANGED faults \/ Fault)
        /\ holder' = holder \/ (holder = None /\ holder' = b)
    BY <1>3, <1>a, <1>b DEF Acquire, BuildTells, RecordsTell
  <2>2. To(b, "plan") \/ Result(b, "publish", "UNKNOWN")
    BY <1>3, <2>1 DEF Acquire
  <2>3. /\ build' \in [Builds -> BuildRecords] /\ \A c \in Builds \ {b} : build'[c] = build[c]
        /\ build'[b].op = build[b].op /\ build'[b].touched = build[b].touched
        /\ build'[b].pc \in {"plan", "publish"} /\ build'[b].result # "SUCCESS"
    BY <1>a, <2>1, <2>2, ToMoves, ResultMoves DEF Places, States, BuildTells
  <2>4. BuildTells(b)'
    BY <1>a, <2>1, <2>3 DEF BuildTells, Op, records
  <2> QED
    BY <2>1, <2>3, <2>4 DEF StepOf, TypeOK, RecordsTell, States, records, layer
<1>4. CASE Plan(b)
  <2>1. /\ build[b].pc = "plan" /\ UNCHANGED <<install, gate, mapping, records, e2, layer, faults>>
    BY <1>4 DEF Plan
  <2>2. build'= [build EXCEPT ![b] = [[build[b] EXCEPT !.pc = "intent"] EXCEPT !.base = serial]]
    BY <1>4 DEF Plan, TypeOK
  <2>3. /\ build' \in [Builds -> BuildRecords] /\ \A c \in Builds \ {b} : build'[c] = build[c]
        /\ build'[b].pc = "intent" /\ build'[b].op = build[b].op
        /\ build'[b].result = build[b].result /\ build'[b].touched = build[b].touched
    <3>1. [[build[b] EXCEPT !.pc = "intent"] EXCEPT !.base = serial] \in BuildRecords
      BY <1>a DEF BuildRecords, Places, TypeOK
    <3> QED
      BY <1>a, <2>2, <3>1 DEF BuildRecords, TypeOK, Places, States
  <2>4. BuildTells(b)'
    BY <1>a, <2>1, <2>3 DEF BuildTells, Op, e2, records
  <2> QED
    BY <2>1, <2>3, <2>4, MoveIsStep
<1>5. CASE Intent(b)
  <2>1. /\ build[b].pc = "intent" /\ Op(b) \in Operations
        /\ UNCHANGED <<install, gate, mapping, completed, public, e2, layer>> /\ (UNCHANGED faults \/ Fault)
    BY <1>5, <1>b DEF Intent
  <2>2. PICK state \in {"PLANNED", "UNKNOWN"} :
          /\ intent' = [intent EXCEPT ![Op(b)] = state]
          /\ \/ state = "PLANNED" /\ Result(b, "publish", state)
             \/ state = "UNKNOWN" /\ Result(b, "apply", state)
             \/ To(b, "dead")
    BY <1>5 DEF Intent
  <2>3. /\ build' \in [Builds -> BuildRecords] /\ \A c \in Builds \ {b} : build'[c] = build[c]
        /\ build'[b].op = build[b].op /\ build'[b].touched = build[b].touched
        /\ build'[b].pc \in {"publish", "apply", "dead"} /\ build'[b].result # "SUCCESS"
        /\ build'[b].pc = "apply" => state = "UNKNOWN"
    BY <1>a, <2>1, <2>2, ToMoves, ResultMoves DEF Places, States, BuildTells
  <2>4. /\ intent' \in [Operations -> {None, "PLANNED", "UNKNOWN"}] /\ intent'[Op(b)] = state
        /\ \A o \in Operations \ {Op(b)} : intent'[o] = intent[o]
    BY <2>1, <2>2 DEF TypeOK
  <2>5. BuildTells(b)'
    BY <1>a, <2>1, <2>3, <2>4 DEF BuildTells, Op, e2
  <2> QED
    BY <2>1, <2>3, <2>4, <2>5 DEF StepOf, TypeOK, RecordsTell, States, e2, layer
<1>6. CASE Apply(b)
  <2>1. /\ build[b].pc = "apply" /\ UNCHANGED <<install, gate, mapping, records, e2, layer, faults>>
    BY <1>6 DEF Apply
  <2>2. CASE holder = b /\ Admitted(b)
    <3>1. build'= [build EXCEPT ![b] = [[build[b] EXCEPT !.pc = "terraform"] EXCEPT !.touched = TRUE]]
      BY <1>6, <2>2 DEF Apply, TypeOK
    <3>2. /\ build' \in [Builds -> BuildRecords] /\ \A c \in Builds \ {b} : build'[c] = build[c]
          /\ build'[b].pc = "terraform" /\ build'[b].op = build[b].op
          /\ build'[b].result = build[b].result
      <4>1. [[build[b] EXCEPT !.pc = "terraform"] EXCEPT !.touched = TRUE] \in BuildRecords
        BY <1>a DEF BuildRecords, Places
      <4> QED
        BY <1>a, <3>1, <4>1 DEF BuildRecords, TypeOK, Places, States
    <3>3. BuildTells(b)'
      BY <1>a, <2>1, <2>2, <3>2 DEF BuildTells, Op, Kind, Admitted, Quiet, Observed, e2, records, layer
    <3> QED
      BY <2>1, <3>2, <3>3, MoveIsStep
  <2>3. CASE ~ (holder = b /\ Admitted(b))
    <3>1. To(b, "publish")
      BY <1>6, <2>3 DEF Apply
    <3>2. /\ build' \in [Builds -> BuildRecords] /\ \A c \in Builds \ {b} : build'[c] = build[c]
          /\ build'[b].pc = "publish" /\ build'[b].op = build[b].op
          /\ build'[b].result = build[b].result /\ build'[b].touched = build[b].touched
      BY <3>1, ToMoves DEF Places
    <3>3. BuildTells(b)'
      BY <1>a, <2>1, <3>2 DEF BuildTells, Op, e2, records
    <3> QED
      BY <2>1, <3>2, <3>3, MoveIsStep
  <2> QED
    BY <2>2, <2>3
<1>7. CASE Terraform(b)
  <2>1. /\ build[b].pc = "terraform" /\ holder = b /\ Op(b) \in Operations
        /\ UNCHANGED <<install, gate, mapping, records, e2, faults>>
    BY <1>7, <1>a, <1>b DEF Terraform, BuildTells
  <2>2. PICK place \in {"verify", "publish"} : To(b, place)
    BY <1>7 DEF Terraform
  <2>3. infra' \in {"absent", "present", "partial"} /\ serial' \in Nat /\ tasks' \in BOOLEAN
    <3>1. \/ UNCHANGED layer
          \/ /\ infra' \in {Target(b), "partial"} /\ serial' = serial + 1
             /\ tasks' = (tasks /\ Kind(b) # "teardown")
      BY <1>7 DEF Terraform
    <3>2. tasks' \in BOOLEAN
      BY <3>1 DEF TypeOK, layer
    <3> QED
      BY <3>1, <3>2 DEF Target, TypeOK, layer
  <2>4. /\ build' \in [Builds -> BuildRecords] /\ \A c \in Builds \ {b} : build'[c] = build[c]
        /\ build'[b].pc = place /\ build'[b].op = build[b].op
        /\ build'[b].result = build[b].result /\ build'[b].touched = build[b].touched
    BY <2>2, ToMoves DEF Places
  <2>5. BuildTells(b)'
    BY <1>a, <2>1, <2>4 DEF BuildTells, Op, e2, records
  <2> QED
    BY <2>1, <2>3, <2>4, <2>5 DEF StepOf, TypeOK, RecordsTell, States, e2, records
<1>8. CASE Verify(b)
  <2>1. build[b].pc = "verify" /\ UNCHANGED <<install, gate, mapping, records, e2, layer, faults>>
    BY <1>8 DEF Verify
  <2>2. PICK place \in {"complete", "publish"} : To(b, place) /\ (place = "complete" => infra = Target(b))
    BY <1>8 DEF Verify, Readback
  <2>3. /\ build' \in [Builds -> BuildRecords] /\ \A c \in Builds \ {b} : build'[c] = build[c]
        /\ build'[b].pc = place /\ build'[b].op = build[b].op
        /\ build'[b].result = build[b].result /\ build'[b].touched = build[b].touched
    BY <2>2, ToMoves DEF Places
  <2>4. BuildTells(b)'
    BY <1>a, <2>1, <2>2, <2>3 DEF BuildTells, Op, Kind, Target, e2, records, layer
  <2> QED
    BY <2>1, <2>3, <2>4, MoveIsStep
<1>9. CASE Complete(b)
  <2>1. /\ build[b].pc = "complete" /\ Op(b) \in Operations
        /\ completed' = completed \cup {Op(b)}
        /\ UNCHANGED <<install, gate, mapping, intent, public, e2, layer>> /\ (UNCHANGED faults \/ Fault)
    BY <1>9, <1>b DEF Complete
  <2>2. Result(b, "finish", "SUCCESS") \/ To(b, "dead")
    BY <1>9 DEF Complete
  <2>3. /\ build' \in [Builds -> BuildRecords] /\ \A c \in Builds \ {b} : build'[c] = build[c]
        /\ build'[b].op = build[b].op /\ build'[b].touched = build[b].touched
        /\ \/ build'[b].pc = "finish" /\ build'[b].result = "SUCCESS"
           \/ build'[b].pc = "dead" /\ build'[b].result = build[b].result
    BY <2>2, ToMoves, ResultMoves DEF Places, States
  <2>4. BuildTells(b)'
    BY <1>a, <2>1, <2>3 DEF BuildTells, Op, Kind, Target, e2, layer
  <2> QED
    BY <2>1, <2>3, <2>4 DEF StepOf, TypeOK, RecordsTell, States, e2, layer
<1>10. CASE FinishTerminal(b)
  <2>1. /\ build[b].pc = "finish" /\ Op(b) \in Operations /\ Op(b) \in completed
        /\ terminal' = terminal \cup {Op(b)}
        /\ UNCHANGED <<install, gate, mapping, records, holder, layer, faults>>
    BY <1>10, <1>a, <1>b DEF FinishTerminal, BuildTells
  <2>2. /\ build' \in [Builds -> BuildRecords] /\ \A c \in Builds \ {b} : build'[c] = build[c]
        /\ build'[b].pc = "release" /\ build'[b].op = build[b].op
        /\ build'[b].result = build[b].result /\ build'[b].touched = build[b].touched
    BY <1>10, ToMoves DEF FinishTerminal, Places
  <2>3. BuildTells(b)'
    BY <1>a, <2>1, <2>2 DEF BuildTells, Op, Kind, Target, records, layer
  <2> QED
    BY <2>1, <2>2, <2>3 DEF StepOf, TypeOK, RecordsTell, States, records, layer
<1>11. CASE Release(b)
  <2>1. /\ build[b].pc = "release" /\ holder = b /\ holder' = None
        /\ UNCHANGED <<install, gate, mapping, records, terminal, layer, faults>>
    BY <1>11 DEF Release
  <2>2. /\ build' \in [Builds -> BuildRecords] /\ \A c \in Builds \ {b} : build'[c] = build[c]
        /\ build'[b].pc = "publish" /\ build'[b].op = build[b].op
        /\ build'[b].result = build[b].result /\ build'[b].touched = build[b].touched
    BY <1>11, ToMoves DEF Release, Places
  <2>3. BuildTells(b)'
    BY <1>a, <2>1, <2>2 DEF BuildTells, Op, records
  <2> QED
    BY <2>1, <2>2, <2>3 DEF StepOf, TypeOK, RecordsTell, States, records, layer
<1>12. CASE Publish(b)
  <2>1. /\ build[b].pc = "publish" /\ Op(b) \in Operations
        /\ public' = [public EXCEPT ![Op(b)] = build[b].result]
        /\ UNCHANGED <<install, gate, mapping, intent, completed, e2, layer>> /\ (UNCHANGED faults \/ Fault)
    BY <1>12, <1>b DEF Publish
  <2>2. PICK place \in {"done", "dead"} : To(b, place)
    BY <1>12 DEF Publish
  <2>3. /\ build' \in [Builds -> BuildRecords] /\ \A c \in Builds \ {b} : build'[c] = build[c]
        /\ build'[b].pc = place /\ build'[b].op = build[b].op
        /\ build'[b].result = build[b].result /\ build'[b].touched = build[b].touched
    BY <2>2, ToMoves DEF Places
  <2>4. /\ public' \in [Operations -> States]
        /\ \A o \in Operations :
             \/ public'[o] = public[o]
             \/ o = Op(b) /\ (public'[o] = "SUCCESS" => o \in terminal)
    BY <1>a, <2>1 DEF TypeOK, States, BuildRecords, BuildTells
  <2>5. BuildTells(b)'
    BY <1>a, <2>1, <2>3 DEF BuildTells, Op, e2
  <2> QED
    BY <2>1, <2>3, <2>4, <2>5 DEF StepOf, TypeOK, RecordsTell, e2, layer
<1> QED
  BY <1>1, <1>2, <1>3, <1>4, <1>5, <1>6, <1>7, <1>8, <1>9, <1>10, <1>11, <1>12 DEF Build

\* What a build finds is an operation that no build has completed.
LEMMA BuildFindsKeeps ==
  ASSUME LifecycleInv, NEW b \in Builds, BuildFinds(b)
  PROVE  LifecycleInv'
<1> USE DEF LifecycleInv
<1>1. /\ build[b].pc = "waiting" /\ mapping[b] # None /\ mapping[b] \in Operations
      /\ UNCHANGED <<install, gate, mapping, records, e2, layer, faults>>
  BY DEF BuildFinds, At, TypeOK
<1>2. /\ build' \in [Builds -> BuildRecords] /\ \A c \in Builds \ {b} : build'[c] = build[c]
      /\ build'[b].pc = "read" /\ build'[b].op = mapping[b]
      /\ build'[b].result = build[b].result /\ build'[b].touched = build[b].touched
  <2>1. build[b] \in BuildRecords /\ build \in [Builds -> BuildRecords]
    BY DEF TypeOK, BuildRecords, Places, States
  <2>2. build' = [build EXCEPT ![b] = [[build[b] EXCEPT !.pc = "read"] EXCEPT !.op = mapping[b]]]
    BY <2>1 DEF BuildFinds
  <2>3. [[build[b] EXCEPT !.pc = "read"] EXCEPT !.op = mapping[b]] \in BuildRecords
    BY <1>1, <2>1 DEF BuildRecords, Places
  <2> QED
    BY <2>1, <2>2, <2>3 DEF BuildRecords
<1>3. BuildTells(b) /\ Op(b) = None
  BY <1>1 DEF BuildsTell, BuildTells
<1>4. mapping[b] \notin completed
  <2>1. ASSUME NEW c \in Builds, Op(c) = mapping[b] PROVE FALSE
    <3>1. mapping[c] = mapping[b]
      BY <1>1, <2>1 DEF Mapped
    <3> QED
      BY <1>1, <1>3, <2>1, <3>1 DEF Mapped
  <2> QED
    BY <2>1 DEF RecordsTell
<1>5. TypeOK'
  BY <1>1, <1>2 DEF TypeOK, BuildRecords, Places, States, install, gate, records, e2, layer
<1>6. Mapped'
  BY <1>1, <1>2 DEF Mapped, Carries, Op, gate
<1>7. BuildTells(b)'
  BY <1>1, <1>2, <1>3, <1>4 DEF BuildTells, Op, records, e2
<1>8. ASSUME NEW c \in Builds \ {b} PROVE BuildTells(c)'
  BY <1>1, <1>2 DEF BuildsTell, BuildTells, Op, Kind, Quiet, Observed, Target, records, e2, layer
<1>9. BuildsTell'
  BY <1>7, <1>8 DEF BuildsTell
<1>10. RecordsTell'
  <2>1. \A c \in Builds : Op(c) # None => Op(c)' = Op(c)
    BY <1>2, <1>3 DEF Op
  <2>2. None \notin completed
    BY DEF TypeOK
  <2> QED
    BY <1>1, <2>1, <2>2 DEF RecordsTell, records, e2
<1> QED
  BY <1>5, <1>6, <1>9, <1>10

\* Others own E2, and start tasks, only when no build does.
LEMMA OthersKeep ==
  ASSUME LifecycleInv, Others
  PROVE  LifecycleInv'
<1> USE DEF LifecycleInv
<1>1. /\ UNCHANGED <<environment, gate, mapping, records, terminal, build, infra, serial, faults>>
      /\ active' \in BOOLEAN /\ tasks' \in BOOLEAN /\ holder' \in {holder, None, Delivery}
      /\ UNCHANGED <<holder, tasks>> \/ holder \in {None, Delivery}
  BY DEF Others, Deactivate, DeliveryBegins, DeliveryScales, DeliveryEnds, TypeOK, layer, install, e2
<1>2. TypeOK'
  BY <1>1 DEF TypeOK, gate, records
<1>3. Mapped'
  BY <1>1 DEF Mapped, Carries, Op, gate
<1>4. ASSUME NEW b \in Builds PROVE BuildTells(b)'
  <2>1. holder = b => UNCHANGED <<holder, tasks>>
    BY <1>1 DEF Builds, Delivery
  <2>2. BuildTells(b)
    BY DEF BuildsTell
  <2> QED
    BY <1>1, <2>1, <2>2 DEF BuildTells, Op, Kind, Quiet, Observed, Target, records
<1>5. RecordsTell'
  BY <1>1 DEF RecordsTell, Op, records
<1> QED
  BY <1>2, <1>3, <1>4, <1>5 DEF BuildsTell

LEMMA InitLifecycle ==
  ASSUME Init
  PROVE  LifecycleInv
<1>1. /\ build \in [Builds -> BuildRecords]
      /\ \A b \in Builds : /\ build[b].pc = "unused" /\ build[b].op = None
                            /\ build[b].result = None /\ build[b].touched = FALSE
  <2>1. [pc |-> "unused", op |-> None, result |-> None, base |-> 0, touched |-> FALSE] \in BuildRecords
    BY DEF BuildRecords, Places, States
  <2> QED
    BY <2>1 DEF Init
<1>2. gateway \in [Gateways ->
        [pc : {"idle", "check", "put", "start", "map", "UNKNOWN", "STARTED", "raised"},
         op : Operations \cup {None}, id : Builds \cup {None}]]
  BY DEF Init
<1>3. TypeOK
  <2>1. environment \in {"dev", "prod"} /\ active \in BOOLEAN /\ request \subseteq Operations
    BY DEF Init
  <2>2. /\ mapping \in [Builds -> Operations \cup {None}]
        /\ intent \in [Operations -> {None, "PLANNED", "UNKNOWN"}]
        /\ public \in [Operations -> {None, "PLANNED", "UNKNOWN", "SUCCESS"}]
    BY DEF Init
  <2>3. /\ completed \subseteq Operations /\ terminal \subseteq Operations
        /\ holder \in Builds \cup {None, Delivery}
        /\ infra \in {"absent", "present", "partial"} /\ serial \in Nat /\ tasks \in BOOLEAN
    BY DEF Init
  <2>4. faults \in 0..MaxFaults
    BY DEF Init
  <2> QED
    BY <1>1, <1>2, <2>1, <2>2, <2>3, <2>4 DEF TypeOK, BuildRecords, Places, States
<1>4. Mapped
  BY <1>1 DEF Init, Mapped, Carries, Op
<1>5. BuildsTell
  BY <1>1 DEF Init, BuildsTell, BuildTells, Op
<1>6. RecordsTell
  BY DEF Init, RecordsTell
<1> QED
  BY <1>3, <1>4, <1>5, <1>6 DEF LifecycleInv

LEMMA NextLifecycle ==
  ASSUME LifecycleInv, [Next]_vars
  PROVE  LifecycleInv'
<1>1. ASSUME NEW b \in Builds, Build(b) \/ Dies(b) PROVE LifecycleInv'
  BY <1>1, BuildFindsKeeps, BuildSteps, StepOfKeeps
<1>2. CASE UNCHANGED vars
  <2> USE DEF vars, install, gate, records, e2, layer
  <2>1. TypeOK'
    BY <1>2 DEF LifecycleInv, TypeOK
  <2>2. Mapped'
    BY <1>2 DEF LifecycleInv, Mapped, Carries, Op
  <2>3. BuildsTell' /\ RecordsTell'
    BY <1>2 DEF LifecycleInv, BuildsTell, BuildTells, RecordsTell, Op, Kind, Quiet, Observed, Target
  <2> QED
    BY <2>1, <2>2, <2>3 DEF LifecycleInv
<1> QED
  BY <1>1, <1>2, GatewaySteps, OthersKeep DEF Next

LEMMA LifecycleAlways == Spec => []LifecycleInv
<1>1. Init => LifecycleInv
  BY InitLifecycle
<1>2. LifecycleInv /\ [Next]_vars => LifecycleInv'
  BY NextLifecycle
<1> QED
  BY <1>1, <1>2, PTL DEF Spec

\* An operation that touched the layer has ended well, or it still holds the
\* environment: whatever is lost, raised or dies, in any number of invocations and
\* builds (runtime.py:300-322, controller.py:41-55, environment_mutation.py:212-217).
THEOREM HeldUnlessDoneAlways == Spec => []HeldUnlessDone
<1>1. LifecycleInv => HeldUnlessDone
  BY DEF LifecycleInv, BuildsTell, BuildTells, RecordsTell, HeldUnlessDone
<1> QED
  BY <1>1, LifecycleAlways, PTL

\* The layer is changed by terraform alone, as LifecycleInv finds it.
LEMMA OnlyTerraformChanges ==
  ASSUME LifecycleInv, [Next]_vars, serial' # serial
  PROVE  \E b \in Builds : Terraform(b)
<1>1. ASSUME NEW g \in Gateways, Gateway(g) PROVE UNCHANGED serial
  BY <1>1 DEF Gateway, GatewayBegin, GatewayCheck, GatewayPut, GatewayStart, GatewayMap,
     GatewayLoses, GatewayFails, layer
<1>2. ASSUME Others PROVE UNCHANGED serial
  BY <1>2 DEF Others, Deactivate, DeliveryBegins, DeliveryScales, DeliveryEnds, layer
<1>3. ASSUME NEW b \in Builds, Build(b) \/ Dies(b), ~ Terraform(b) PROVE UNCHANGED serial
  BY <1>3 DEF Build, BuildBegins, BuildFinds, BuildGivesUp, BuildReads, Acquire, Plan, Refused,
     Intent, Apply, Verify, Complete, FinishTerminal, Release, Publish, Dies, layer
<1> QED
  BY <1>1, <1>2, <1>3 DEF Next, vars, layer

\* The layer changes only by the holder of E2, whose intent is retained and which is
\* the only build that can find the request; a teardown finds no task
\* (controller.py:36-49, runtime.py:91-107, 259-284).
THEOREM OnlyAsRequested == Spec => ChangedAsRequested
<1>1. LifecycleInv /\ [Next]_vars =>
        [serial' # serial =>
           \E b \in Builds :
             /\ holder = b /\ intent[Op(b)] = "UNKNOWN" /\ Op(b) \notin completed
             /\ \A c \in Builds \ {b} : mapping[c] # Op(b)
             /\ Kind(b) = "teardown" => Quiet]_vars
  <2> SUFFICES ASSUME LifecycleInv, [Next]_vars, serial' # serial
               PROVE  \E b \in Builds :
                        /\ holder = b /\ intent[Op(b)] = "UNKNOWN" /\ Op(b) \notin completed
                        /\ \A c \in Builds \ {b} : mapping[c] # Op(b)
                        /\ Kind(b) = "teardown" => Quiet
    OBVIOUS
  <2>1. PICK b \in Builds : Terraform(b)
    BY OnlyTerraformChanges
  <2>2. build[b].pc = "terraform" /\ BuildTells(b)
    BY <2>1 DEF Terraform, At, LifecycleInv, BuildsTell
  <2>3. Op(b) # None /\ mapping[b] = Op(b)
    BY <2>2 DEF BuildTells, LifecycleInv, Mapped
  <2>4. \A c \in Builds \ {b} : mapping[c] # Op(b)
    BY <2>3 DEF LifecycleInv, Mapped
  <2> QED
    BY <2>2, <2>4 DEF BuildTells
<1> QED
  BY <1>1, LifecycleAlways, PTL DEF Spec, ChangedAsRequested
==============================================================================
