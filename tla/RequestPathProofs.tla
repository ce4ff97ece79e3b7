-------------------------- MODULE RequestPathProofs --------------------------
(***************************************************************************)
(* Proofs about RequestPath, for any number of clients and requests.  The  *)
(* inductive invariant Inv says who may be where: the invocation that sent *)
(* StartBuild wrote the attempt, whoever passed the comparison has the     *)
(* retained request, bridges belong to builds that exist, and a public     *)
(* status to a build that ran the retained operation.                      *)
(***************************************************************************)
EXTENDS MCRequestPath, TLAPS

\* Places past the comparison with the retained operation.
Compared == {"stored", "attempting", "attempted", "calling", "bridging", "starting",
             "ACCEPTED", "UNCERTAIN"}

\* Places before StartBuild.
Before == {"idle", "lookup", "storing", "stored", "attempting"}

\* States of a build that CodeBuild has accepted.
Accepted == {"queued", "running", "publishing", "done", "failed"}

\* Only the writer of the attempt starts a build.
StarterWroteAttempt ==
  /\ \A i \in Invocations : build[i] # "none" => stored["attempt"] = i
  /\ \A i \in Invocations : pc[i] = "calling" => build[i] # "none"
  /\ \A i \in Invocations : pc[i] \in Before => build[i] = "none"
  /\ \A i \in Invocations : client[i] = "idle" => pc[i] = "idle"

\* The request is that of the retained operation wherever it was compared.
ComparedAgrees ==
  /\ \A i \in Invocations : pc[i] \in Compared => Agrees("operation", i)
  /\ \A i \in Invocations : client[i] \in {"polling", "SUCCESS"} => Agrees("operation", i)

\* Bridges and starts are those of builds that exist.
BridgesExist ==
  /\ \A b \in Invocations : b \in bridges \/ InFlight("bridge", b) => build[b] \in Accepted
  /\ \A b \in Invocations : stored["start"] = b \/ InFlight("start", b) => b \in bridges
  /\ NoOne \notin bridges
  /\ \A i \in Invocations : pc[i] = "ACCEPTED" => bridges # {}

\* A public status is the outcome of a build that ran the retained operation.
StatusesEarned ==
  /\ \A b \in Invocations : ran[b] # NoOne => ran[b] = stored["operation"]
  /\ \A b \in Invocations : build[b] = "running" => ran[b] # NoOne
  /\ \A b \in Invocations : build[b] \in {"none", "requested", "refused", "queued", "running"}
                              => outcome[b] = "none"
  /\ \A b \in Invocations : stored["public"] = b \/ InFlight("public", b)
                              => ran[b] # NoOne /\ outcome[b] # "none"
  /\ \A i \in Invocations : client[i] = "SUCCESS" =>
       stored["public"] # NoOne /\ outcome[stored["public"]] = "SUCCESS"

Inv == TypeOK /\ StarterWroteAttempt /\ ComparedAgrees /\ BridgesExist /\ StatusesEarned

USE DEF s3

------------------------------------------------------------------------------
LEMMA InitInv == Init => Inv
BY PathAssumption DEF Init, Inv, TypeOK, StarterWroteAttempt, ComparedAgrees, BridgesExist,
   StatusesEarned, Places, Answers, Compared, Accepted, Keys, Puts, Outcomes, InFlight

\* A key that is stored keeps its writer, and bridges are never removed.
LEMMA StorageGrows ==
  ASSUME Inv, NEW p \in puts, LandPut(p[1], p[2]) \/ LosePut(p[1], p[2])
  PROVE  /\ \A k \in Keys : stored[k] # NoOne => stored'[k] = stored[k]
         /\ \A k \in Keys : \/ stored'[k] = stored[k]
                            \/ stored'[k] = p[2] /\ p[1] = k
         /\ puts' \subseteq puts
         /\ bridges \subseteq bridges'
         /\ bridges' \subseteq bridges \cup (IF p[1] = "bridge" THEN {p[2]} ELSE {})
         /\ p = <<p[1], p[2]>> /\ p[1] \in Keys \cup {"bridge"} /\ p[2] \in Invocations
<1>1. p = <<p[1], p[2]>> /\ p[1] \in Keys \cup {"bridge"} /\ p[2] \in Invocations
  BY DEF Inv, TypeOK, Puts
<1>2. stored \in [Keys -> Invocations \cup {NoOne}]
  BY DEF Inv, TypeOK
<1>3. CASE LandPut(p[1], p[2])
  <2>1. CASE p[1] = "bridge"
    BY <1>1, <1>2, <1>3, <2>1 DEF LandPut
  <2>2. CASE p[1] # "bridge"
    BY <1>1, <1>2, <1>3, <2>2 DEF LandPut
  <2> QED BY <2>1, <2>2
<1>4. CASE LosePut(p[1], p[2])
  BY <1>1, <1>2, <1>4 DEF LosePut
<1> QED BY <1>3, <1>4

LEMMA StorageInv ==
  ASSUME Inv, NEW p \in puts, LandPut(p[1], p[2]) \/ LosePut(p[1], p[2])
  PROVE  Inv'
<1>0. UNCHANGED <<client, pc, build, ran, outcome>>
  BY DEF LandPut, LosePut
<1>1. TypeOK'
  <2>1. stored' \in [Keys -> Invocations \cup {NoOne}]
    BY StorageGrows DEF Inv, TypeOK, LandPut, LosePut
  <2>2. bridges' \subseteq Invocations /\ puts' \subseteq Puts
    BY StorageGrows DEF Inv, TypeOK
  <2> QED BY <1>0, <2>1, <2>2 DEF Inv, TypeOK
<1>2. StarterWroteAttempt'
  BY <1>0, StorageGrows, PathAssumption DEF Inv, TypeOK, StarterWroteAttempt, Keys
<1>3. ComparedAgrees'
  BY <1>0, StorageGrows DEF Inv, ComparedAgrees, Agrees, Keys
<1>4. BridgesExist'
  <2>1. \A b \in Invocations : b \in bridges' \/ InFlight("bridge", b)' => build[b] \in Accepted
    BY StorageGrows DEF Inv, BridgesExist, InFlight
  <2>2. \A b \in Invocations : stored'["start"] = b \/ InFlight("start", b)' => b \in bridges'
    BY StorageGrows DEF Inv, BridgesExist, InFlight, Keys
  <2>3. NoOne \notin bridges'
    BY <1>1, PathAssumption DEF TypeOK
  <2>4. \A i \in Invocations : pc[i] = "ACCEPTED" => bridges' # {}
    BY StorageGrows DEF Inv, BridgesExist
  <2> QED BY <1>0, <2>1, <2>2, <2>3, <2>4 DEF BridgesExist
<1>5. StatusesEarned'
  <2>1. \A b \in Invocations : ran[b] # NoOne => ran[b] = stored'["operation"]
    BY StorageGrows, PathAssumption DEF Inv, StatusesEarned, Keys
  <2>2. \A b \in Invocations : stored'["public"] = b \/ InFlight("public", b)'
                                 => ran[b] # NoOne /\ outcome[b] # "none"
    BY StorageGrows DEF Inv, StatusesEarned, InFlight, Keys
  <2>3. \A i \in Invocations : client[i] = "SUCCESS" =>
          stored'["public"] # NoOne /\ outcome[stored'["public"]] = "SUCCESS"
    BY StorageGrows DEF Inv, StatusesEarned, Keys
  <2> QED BY <1>0, <2>1, <2>2, <2>3 DEF Inv, StatusesEarned
<1> QED BY <1>1, <1>2, <1>3, <1>4, <1>5 DEF Inv

LEMMA ClientInv ==
  ASSUME Inv, NEW i \in Invocations, Client(i)
  PROVE  Inv'
<1>1. CASE Invoke(i)
  <2>1. pc[i] = "idle" /\ build[i] = "none"
    BY <1>1 DEF Inv, Invoke, StarterWroteAttempt, Before
  <2>2. TypeOK'
    BY <1>1 DEF Invoke, Inv, TypeOK, Places
  <2>3. StarterWroteAttempt' /\ ComparedAgrees'
    BY <1>1, <2>1 DEF Invoke, Inv, TypeOK, StarterWroteAttempt, ComparedAgrees, Compared,
       Before, Agrees
  <2>4. BridgesExist' /\ StatusesEarned'
    BY <1>1 DEF Invoke, Inv, TypeOK, BridgesExist, StatusesEarned, InFlight
  <2> QED BY <2>2, <2>3, <2>4 DEF Inv
<1>2. CASE Hear(i)
  BY <1>2 DEF Inv, TypeOK, Hear, StarterWroteAttempt, ComparedAgrees, BridgesExist,
     StatusesEarned, Places, Compared, Agrees, InFlight
<1>3. CASE Poll(i)
  BY <1>3 DEF Inv, TypeOK, Poll, StarterWroteAttempt, ComparedAgrees, BridgesExist,
     StatusesEarned, Places, Compared, Agrees, InFlight
<1>4. CASE GiveUp(i)
  BY <1>4 DEF Inv, TypeOK, GiveUp, StarterWroteAttempt, ComparedAgrees, BridgesExist,
     StatusesEarned, Places, Compared, Agrees, InFlight
<1> QED BY <1>1, <1>2, <1>3, <1>4 DEF Client

\* A step of the gateway that only moves, and perhaps sends a put of a key that
\* says nothing of builds.
LEMMA MoveInv ==
  ASSUME Inv, NEW i \in Invocations, NEW place \in Places, Reach(i, place),
         UNCHANGED <<stored, bridges, client, build, ran, outcome>>,
         puts' = puts \/ Send("operation", i) \/ Send("attempt", i),
         pc[i] # "idle", place \notin {"calling", "idle"}, place \in Before => pc[i] \in Before,
         place \in Compared => Agrees("operation", i), place = "ACCEPTED" => bridges # {}
  PROVE  Inv'
<1>1. TypeOK'
  BY DEF Inv, TypeOK, Reach, Send, Puts, Keys
<1>2. \A k \in {"bridge", "start", "public"} : \A b \in Invocations :
         InFlight(k, b)' => InFlight(k, b)
  BY DEF InFlight, Send
<1>3. StarterWroteAttempt' /\ ComparedAgrees'
  BY DEF Inv, TypeOK, StarterWroteAttempt, ComparedAgrees, Agrees, Reach
<1>4. BridgesExist'
  <2>1. \A j \in Invocations : pc'[j] = "ACCEPTED" => bridges # {}
    BY DEF Reach, Inv, TypeOK, BridgesExist
  <2> QED BY <1>2, <2>1 DEF Inv, BridgesExist
<1>5. StatusesEarned'
  BY <1>2 DEF Inv, StatusesEarned
<1> QED BY <1>1, <1>3, <1>4, <1>5 DEF Inv

LEMMA GatewayInv ==
  ASSUME Inv, NEW i \in Invocations, Gateway(i)
  PROVE  Inv'
<1> USE DEF Places, Answers, Compared, Before
<1>1. CASE Lookup(i)
  BY <1>1, MoveInv DEF Lookup
<1>2. CASE OperationStored(i)
  BY <1>2, MoveInv, PathAssumption DEF OperationStored, Agrees
<1>3. CASE CheckAttempt(i)
  BY <1>3, MoveInv DEF CheckAttempt, Inv, ComparedAgrees
<1>4. CASE CheckStart(i)
  BY <1>4, MoveInv DEF CheckStart, Inv, ComparedAgrees, Compared
<1>5. CASE AttemptStored(i)
  <2>1. TypeOK'
    BY <1>5 DEF AttemptStored, Reach, Inv, TypeOK
  <2>2. StarterWroteAttempt' /\ ComparedAgrees'
    BY <1>5 DEF AttemptStored, Reach, Inv, TypeOK, StarterWroteAttempt, ComparedAgrees, Agrees
  <2>3. build[i] = "none"
    BY <1>5 DEF AttemptStored, Inv, StarterWroteAttempt, Before
  <2>4. BridgesExist' /\ StatusesEarned'
    BY <1>5, <2>3
       DEF AttemptStored, Reach, Inv, TypeOK, BridgesExist, StatusesEarned, Accepted, InFlight
  <2> QED BY <2>1, <2>2, <2>4 DEF Inv
<1>6. CASE StartAnswered(i)
  <2>1. TypeOK'
    BY <1>6 DEF StartAnswered, Reach, Send, Inv, TypeOK, Puts
  <2>2. StarterWroteAttempt' /\ ComparedAgrees'
    BY <1>6 DEF StartAnswered, Reach, Inv, TypeOK, StarterWroteAttempt, ComparedAgrees, Agrees
  <2>3. build[i] \in Accepted
    BY <1>6 DEF StartAnswered, Inv, TypeOK, StarterWroteAttempt, Accepted
  <2>4. BridgesExist' /\ StatusesEarned'
    BY <1>6, <2>3
       DEF StartAnswered, Reach, Send, Inv, TypeOK, BridgesExist, StatusesEarned, InFlight
  <2> QED BY <2>1, <2>2, <2>4 DEF Inv
<1>7. CASE BridgeStored(i)
  <2>1. TypeOK'
    BY <1>7 DEF BridgeStored, Reach, Send, Inv, TypeOK, Puts, Keys
  <2>2. StarterWroteAttempt' /\ ComparedAgrees'
    BY <1>7 DEF BridgeStored, Reach, Inv, TypeOK, StarterWroteAttempt, ComparedAgrees, Agrees
  <2>3. BridgesExist' /\ StatusesEarned'
    BY <1>7 DEF BridgeStored, Reach, Send, Inv, TypeOK, BridgesExist, StatusesEarned, InFlight
  <2> QED BY <2>1, <2>2, <2>3 DEF Inv
<1>8. CASE StartStored(i)
  BY <1>8, MoveInv DEF StartStored, Inv, ComparedAgrees, BridgesExist
<1>9. CASE Raise(i)
  BY <1>9, MoveInv DEF Raise
<1> QED BY <1>1, <1>2, <1>3, <1>4, <1>5, <1>6, <1>7, <1>8, <1>9 DEF Gateway

LEMMA BuildInv ==
  ASSUME Inv, NEW i \in Invocations, Build(i)
  PROVE  Inv'
<1>0. UNCHANGED <<stored, bridges, client, pc>>
  BY DEF Build, Queue, Wake, Fail, Conclude, Published
<1>1. build[i] # "none" /\ (build' = [build EXCEPT ![i] = build'[i]]) /\ build'[i] # "none"
  BY DEF Build, Queue, Wake, Fail, Conclude, Published, Become, Inv, TypeOK
<1>2. ComparedAgrees' /\ StarterWroteAttempt'
  BY <1>0, <1>1 DEF Inv, TypeOK, StarterWroteAttempt, ComparedAgrees, Agrees
<1>3. CASE Queue(i) \/ Wake(i) \/ Fail(i) \/ Published(i)
  <2>1. TypeOK'
    BY <1>3 DEF Queue, Wake, Fail, Published, Become, Inv, TypeOK, Keys
  <2>2. BridgesExist'
    BY <1>3 DEF Queue, Wake, Fail, Published, Become, Inv, TypeOK, BridgesExist, Accepted,
       InFlight
  <2>3. StatusesEarned'
    BY <1>3 DEF Queue, Wake, Fail, Published, Become, Inv, TypeOK, StatusesEarned, InFlight, Keys
  <2> QED BY <1>2, <2>1, <2>2, <2>3 DEF Inv
<1>4. CASE Conclude(i)
  <2>1. TypeOK'
    BY <1>4 DEF Conclude, Become, Send, Inv, TypeOK, Puts, Keys
  <2>2. BridgesExist'
    BY <1>4 DEF Conclude, Become, Send, Inv, TypeOK, BridgesExist, Accepted, InFlight
  <2>3. stored["public"] # i /\ ran[i] # NoOne
    BY <1>4 DEF Conclude, Inv, StatusesEarned
  <2>4. outcome'[i] # "none"
    BY <1>4 DEF Conclude, Inv, TypeOK, Outcomes
  <2>5. \A b \in Invocations : b # i => outcome'[b] = outcome[b] /\ build'[b] = build[b]
    BY <1>4 DEF Conclude, Become, Inv, TypeOK
  <2>6. StatusesEarned'
    BY <1>4, <2>3, <2>4, <2>5
       DEF Conclude, Become, Send, Inv, TypeOK, StatusesEarned, InFlight, Keys
  <2> QED BY <1>2, <2>1, <2>2, <2>6 DEF Inv
<1> QED BY <1>3, <1>4 DEF Build

LEMMA NextInv == Inv /\ [Next]_vars => Inv'
<1> SUFFICES ASSUME Inv, [Next]_vars PROVE Inv'
  OBVIOUS
<1>1. CASE Storage
  BY <1>1, StorageInv DEF Storage
<1>2. CASE \E i \in Invocations : Client(i) \/ Gateway(i) \/ Build(i)
  BY <1>2, ClientInv, GatewayInv, BuildInv
<1>3. CASE UNCHANGED vars
  BY <1>3 DEF vars, Inv, TypeOK, StarterWroteAttempt, ComparedAgrees, BridgesExist,
     StatusesEarned, Agrees, InFlight
<1> QED BY <1>1, <1>2, <1>3 DEF Next

LEMMA Invariance == Spec => []Inv
BY InitInv, NextInv, PTL DEF Spec

------------------------------------------------------------------------------
\* Every state reached is of the right type (RequestPath!TypeOK).
THEOREM TypeCorrect == Spec => []TypeOK
<1>1. Inv => TypeOK
  BY DEF Inv
<1> QED BY <1>1, Invariance, PTL

\* StartBuild is sent at most once for an operation id, by however many clients
\* it is used and whatever storage and the calls do (gateway.py:68-85).
THEOREM StartedOnce == Spec => []OneStart
<1>1. Inv => OneStart
  BY PathAssumption DEF Inv, StarterWroteAttempt, OneStart
<1> QED BY <1>1, Invariance, PTL

\* A client that reports success had its own request run, successfully.
THEOREM SuccessOfOwnRequest == Spec => []SuccessIsOwn
<1>1. Inv => SuccessIsOwn
  <2> SUFFICES ASSUME Inv, NEW i \in Invocations, client[i] = "SUCCESS"
               PROVE  \E b \in Invocations : /\ ran[b] # NoOne
                                             /\ RequestOf[ran[b]] = RequestOf[i]
                                             /\ outcome[b] = "SUCCESS"
    BY DEF SuccessIsOwn
  <2>1. stored["public"] \in Invocations /\ outcome[stored["public"]] = "SUCCESS"
    BY DEF Inv, TypeOK, StatusesEarned, Keys
  <2>2. ran[stored["public"]] # NoOne /\ ran[stored["public"]] = stored["operation"]
    BY <2>1 DEF Inv, StatusesEarned
  <2>3. RequestOf[stored["operation"]] = RequestOf[i]
    BY DEF Inv, ComparedAgrees, Agrees
  <2> QED BY <2>1, <2>2, <2>3
<1> QED BY <1>1, Invariance, PTL

\* What was answered ACCEPTED can be found by the build that was started.
THEOREM AcceptedFound == Spec => []AcceptedIsFindable
<1>1. Inv => AcceptedIsFindable
  BY DEF Inv, AcceptedIsFindable, ComparedAgrees, BridgesExist, Compared,
     Accepted, TypeOK
<1> QED BY <1>1, Invariance, PTL
------------------------------------------------------------------------------
(* The internal release, which the run of MCRequestPath checks too: Release, *)
(* instantiated there as Internal, for any number of operations, digests,    *)
(* invocations of the finalizer and calls that raise.                        *)
(*                                                                          *)
(* The keys are create-only (KeysLast), so that what has once passed keeps   *)
(* passing (PassedLasts); the rest says what each place of a build and of a  *)
(* finalizer, and each put that may still land, knows to be stored.          *)

USE ReleaseHolds

Builds == [pc : Internal!Places, digest : Digests \cup {None}, record : {"SUCCEEDED", "FAILED", None}]

\* What the place of a build says of its image, which is in the repository before
\* anything names it, and of the record it means to leave.
Sound(attempt, published) ==
  /\ attempt.pc \in {"none", "waiting", "source", "acquired", "dotnet", "image", "publish",
                   "manifest", "readback", "probe"} => attempt.record = None
  /\ attempt.pc = "publish" => attempt.digest \in Digests
  /\ attempt.pc \in {"manifest", "readback", "probe"} \/ attempt.record = "SUCCEEDED" =>
       attempt.digest \in published
  /\ attempt.pc = "result" => attempt.record # None
  /\ attempt.pc = "SUCCEEDED" => attempt.record = "SUCCEEDED"

BuildTells ==
  \A o \in Operations :
    /\ gateway[o] \in {"idle", "start"} => Internal!At(o, "none")
    /\ Sound(outer[o], images)

\* Nobody goes on to qualify, and no put of a qualification is under way, unless the
\* operation has passed; the same for a public success and the qualification.
EvidenceTells ==
  /\ \A p \in late :
       /\ p[1][1] = "qualification" => Internal!Passed(p[1][2])
       /\ p[1][1] = "public" => Internal!Stored("qualification", p[1][2])
  /\ \A o \in Operations :
       /\ Internal!Stored("qualification", o) => Internal!Passed(o)
       /\ Internal!Stored("public", o) => Internal!Stored("qualification", o)
       /\ \A k \in 1..MaxInvocations :
            /\ finalizer[o][k] \in {"qualification", "look", "public", "done"} => Internal!Passed(o)
            /\ finalizer[o][k] \in {"look", "public", "done"} => Internal!Stored("qualification", o)

\* What was told of a build agrees with the record of its attempt.
ToldTells ==
  \A o \in Operations :
    /\ "FAILED" \in told[o] => objects[<<"attempt", o>>] \in {"FAILED", "TERMINAL"}
    /\ "BUILD_SUCCEEDED" \in told[o] => objects[<<"attempt", o>>] = "SUCCEEDED"

ReleaseInv == Internal!TypeOK /\ BuildTells /\ EvidenceTells /\ ToldTells
------------------------------------------------------------------------------
(* Keys.                                                                    *)

\* The keys of an operation and, if there is a digest, its manifest are keys, and
\* different ones.
LEMMA KeysOf ==
  ASSUME NEW o \in Operations,
         NEW n \in {"operation", "mapping", "attempt", "qualification", "public"}
  PROVE  /\ <<n, o>> \in Internal!Keys
         /\ <<n, o>>[1] = n /\ <<n, o>>[2] = o
         /\ Internal!Values(<<n, o>>) = IF n = "attempt" THEN Internal!Attempts ELSE Operations
BY DEF Internal!Keys, Internal!Values

LEMMA ManifestKeyOf ==
  ASSUME NEW o \in Operations, outer[o].digest \in Digests
  PROVE  /\ Internal!ManifestKey(o) \in Internal!Keys /\ Internal!ManifestKey(o)[1] = "manifest"
         /\ Internal!Values(Internal!ManifestKey(o)) = Operations
BY DEF Internal!Keys, Internal!Values, Internal!ManifestKey

\* A put stores its value where there is none, and changes nothing else.
LEMMA CreateStores ==
  ASSUME Internal!TypeOK, NEW k \in Internal!Keys, NEW v \in Internal!Values(k), Internal!Create(k, v)
  PROVE  /\ objects' \in [Internal!Keys -> {None} \cup Internal!Attempts \cup Operations]
         /\ \A l \in Internal!Keys : objects'[l] \in {None} \cup Internal!Values(l)
         /\ \A l \in Internal!Keys : objects[l] # None => objects'[l] = objects[l]
         /\ \A l \in Internal!Keys \ {k} : objects'[l] = objects[l]
         /\ objects'[k] # None
         /\ objects[k] = None => objects'[k] = v
<1>1. Internal!Values(k) \subseteq Internal!Attempts \cup Operations /\ None \notin Internal!Values(k)
  BY DEF Internal!ReleaseAssumption, Internal!Values, Internal!Attempts
<1> QED
  BY <1>1 DEF Internal!Create, Internal!TypeOK

\* What the build has in hand may be stored under its key.
LEMMA InHandIsTyped ==
  ASSUME Internal!TypeOK, BuildTells, NEW o \in Operations, NEW p \in Internal!InHand(o)
  PROVE  /\ p[1] \in Internal!Keys /\ p[2] \in Internal!Values(p[1])
         /\ p[1][1] \notin {"qualification", "public"}
<1>1. CASE Internal!At(o, "result")
  <2>1. outer[o].record \in Internal!Attempts
    BY <1>1 DEF BuildTells, Sound, Internal!TypeOK, Internal!Attempts, Internal!At
  <2>2. p = <<<<"attempt", o>>, outer[o].record>>
    BY <1>1 DEF Internal!InHand, Internal!At
  <2>3. p[1] = <<"attempt", o>> /\ p[2] = outer[o].record /\ p[1][1] = "attempt"
    BY <2>2
  <2> QED
    BY <2>1, <2>3 DEF Internal!Keys, Internal!Values
<1>2. CASE Internal!At(o, "terminal")
  <2>1. p = <<<<"attempt", o>>, "TERMINAL">>
    BY <1>2 DEF Internal!InHand, Internal!At
  <2>2. p[1] = <<"attempt", o>> /\ p[2] = "TERMINAL" /\ p[1][1] = "attempt"
    BY <2>1
  <2> QED
    BY <2>2 DEF Internal!Keys, Internal!Values, Internal!Attempts
<1>3. CASE Internal!At(o, "manifest")
  <2>1. outer[o].digest \in Digests
    BY <1>3 DEF BuildTells, Sound, Internal!TypeOK, Internal!At
  <2> QED
    BY <1>3, <2>1, ManifestKeyOf DEF Internal!InHand, Internal!At
<1>4. CASE ~Internal!At(o, "result") /\ ~Internal!At(o, "terminal") /\ ~Internal!At(o, "manifest")
  BY <1>4 DEF Internal!InHand
<1> QED
  BY <1>1, <1>2, <1>3, <1>4

\* Every step is of one of four kinds: it stores nothing, it puts one value, a put
\* lands, or it leaves a put to land later.
LEMMA KeysLast ==
  ASSUME Internal!TypeOK, BuildTells, Internal!Next
  PROVE  /\ objects' \in [Internal!Keys -> {None} \cup Internal!Attempts \cup Operations]
         /\ \A l \in Internal!Keys : objects'[l] \in {None} \cup Internal!Values(l)
         /\ \A l \in Internal!Keys : objects[l] # None => objects'[l] = objects[l]
<1> DEFINE Lasts == /\ objects' \in [Internal!Keys -> {None} \cup Internal!Attempts \cup Operations]
                    /\ \A l \in Internal!Keys : objects'[l] \in {None} \cup Internal!Values(l)
                    /\ \A l \in Internal!Keys : objects[l] # None => objects'[l] = objects[l]
<1>1. ASSUME NEW k \in Internal!Keys, NEW v \in Internal!Values(k), Internal!Create(k, v) PROVE Lasts
  BY <1>1, CreateStores
<1>2. UNCHANGED objects => Lasts
  BY DEF Internal!TypeOK
<1> HIDE DEF Lasts
<1>3. ASSUME Internal!Land PROVE Lasts
  <2>1. PICK p \in late : Internal!Create(p[1], p[2])
    BY <1>3 DEF Internal!Land
  <2>2. p[1] \in Internal!Keys /\ p[2] \in Internal!Values(p[1])
    BY DEF Internal!TypeOK
  <2> QED
    BY <1>1, <2>1, <2>2
<1>4. ASSUME NEW o \in Operations, Internal!Stores(o) PROVE Lasts
  <2>1. PICK n \in {"operation", "mapping"} : Internal!Create(<<n, o>>, o)
    BY <1>4 DEF Internal!Stores
  <2>2. <<n, o>> \in Internal!Keys /\ o \in Internal!Values(<<n, o>>)
    BY DEF Internal!Keys, Internal!Values
  <2> QED
    BY <1>1, <2>1, <2>2
<1>5. ASSUME NEW o \in Operations, Internal!PublishManifest(o) PROVE Lasts
  <2>1. Internal!ManifestKey(o) \in Internal!Keys /\ o \in Internal!Values(Internal!ManifestKey(o))
    BY <1>5, ManifestKeyOf DEF Internal!PublishManifest, BuildTells, Sound, Internal!TypeOK, Internal!At
  <2> QED
    BY <1>1, <1>2, <1>5, <2>1 DEF Internal!PublishManifest, Internal!Raises
<1>6. ASSUME NEW o \in Operations, Internal!Persist(o) PROVE Lasts
  <2>1. outer[o].record \in Internal!Attempts
    BY <1>6 DEF Internal!Persist, BuildTells, Sound, Internal!TypeOK, Internal!Attempts, Internal!At
  <2> QED
    BY <1>1, <1>2, <1>6, <2>1, KeysOf DEF Internal!Persist, Internal!Raises
<1>7. ASSUME NEW o \in Operations, Internal!PutTerminal(o) PROVE Lasts
  <2>1. <<"attempt", o>> \in Internal!Keys /\ "TERMINAL" \in Internal!Values(<<"attempt", o>>)
    BY KeysOf DEF Internal!Attempts
  <2> QED
    BY <1>1, <1>2, <1>7, <2>1 DEF Internal!PutTerminal, Internal!Raises
<1>8. ASSUME NEW o \in Operations, NEW k \in 1..MaxInvocations,
             Internal!Qualify(o, k) \/ Internal!Show(o, k)
      PROVE  Lasts
  BY <1>1, <1>8, KeysOf DEF Internal!Qualify, Internal!Show
<1>9. ASSUME NEW o \in Operations,

             Internal!Request(o) \/ Internal!StartBuild(o) \/ Internal!Answers(o)
               \/ Internal!GatewayRaises(o) \/ Internal!Dies(o) \/ Internal!Status(o)
      PROVE  Lasts
  BY <1>2, <1>9 DEF Internal!Request, Internal!StartBuild, Internal!Answers, Internal!GatewayRaises,
     Internal!Dies, Internal!Raises, Internal!Status
<1>10. ASSUME NEW o \in Operations,

              Internal!Finds(o) \/ Internal!GivesUp(o) \/ Internal!Acquire(o) \/ Internal!Seal(o)
                \/ Internal!RunDotnet(o) \/ Internal!BuildImage(o) \/ Internal!PublishImage(o)
                \/ Internal!ReadManifest(o) \/ Internal!Probe(o) \/ Internal!Reread(o) \/ Internal!Confirm(o)
       PROVE  Lasts
  BY <1>2, <1>10 DEF Internal!Finds, Internal!GivesUp, Internal!Acquire, Internal!Seal,
     Internal!RunDotnet, Internal!BuildImage, Internal!PublishImage,
     Internal!ReadManifest, Internal!Probe, Internal!Reread, Internal!Confirm, Internal!Worker,
     Internal!Raises
<1>11. ASSUME NEW o \in Operations, NEW k \in 1..MaxInvocations,
              Internal!Wake(o, k) \/ Internal!Examine(o, k) \/ Internal!Look(o,
              k) \/ Internal!FinalizerRaises(o, k)
       PROVE  Lasts
  BY <1>2, <1>11 DEF Internal!Wake, Internal!Examine, Internal!Look, Internal!FinalizerRaises
<1>12. ASSUME NEW o \in Operations, Internal!Gateway(o) \/ Internal!Build(o) PROVE Lasts
  BY <1>4, <1>5, <1>6, <1>7, <1>9, <1>10, <1>12 DEF Internal!Gateway, Internal!Build
<1>13. ASSUME NEW o \in Operations, NEW k \in 1..MaxInvocations,
              Internal!Wake(o, k) \/ Internal!Finalizer(o, k) \/ Internal!FinalizerRaises(o, k)
       PROVE  Lasts
  BY <1>8, <1>11, <1>13 DEF Internal!Finalizer
<1>14. Lasts
  <2>1. CASE Internal!Land
    BY <1>3, <2>1
  <2>2. CASE ~Internal!Land
    <3>1. PICK o \in Operations :
            \/ Internal!Request(o) \/ Internal!Gateway(o) \/ Internal!GatewayRaises(o)
            \/ Internal!Build(o) \/ Internal!Dies(o) \/ Internal!Status(o)
            \/ \E k \in 1..MaxInvocations :
                 Internal!Wake(o, k) \/ Internal!Finalizer(o, k) \/ Internal!FinalizerRaises(o, k)
      BY <2>2 DEF Internal!Next
    <3> QED
      BY <1>9, <1>12, <1>13, <3>1
  <2> QED
    BY <2>1, <2>2
<1> QED
  BY <1>14 DEF Lasts

\* Where a build goes: one step along its stages, or to the record of a failure.
Onward(o) ==
  /\ outer' \in [Operations -> Builds]
  /\ images \subseteq images' /\ images' \subseteq Digests
  /\ \A q \in Operations \ {o} : outer'[q] = outer[q]
  /\ outer[o].pc \notin {"none", "SUCCEEDED", "FAILED"}
  /\ outer'[o].pc # "none" /\ Sound(outer'[o], images')

LEMMA GoesOnward ==
  ASSUME Internal!TypeOK, BuildTells, NEW o \in Operations, NEW place \in Internal!Places,
         Internal!Goes(o, place), place \notin {"none", "publish"}, images \subseteq images', images' \subseteq Digests,
         outer[o].pc \notin {"none", "SUCCEEDED", "FAILED"},
         place \in {"waiting", "source", "acquired", "dotnet", "image", "manifest",
                    "readback", "probe"} => outer[o].record = None,
         place \in {"manifest", "readback", "probe"} => outer[o].digest \in images',
         place = "result" => outer[o].record # None,
         place = "SUCCEEDED" => outer[o].record = "SUCCEEDED"
  PROVE  Onward(o)
<1>1. /\ outer' = [outer EXCEPT ![o] = [outer[o] EXCEPT !.pc = place]]
      /\ outer[o] \in Builds
  BY DEF Internal!Goes, Internal!TypeOK, Builds
<1>2. /\ outer'[o] \in Builds /\ outer'[o].pc = place
      /\ outer'[o].digest = outer[o].digest /\ outer'[o].record = outer[o].record
  BY <1>1 DEF Builds, Internal!TypeOK
<1>3. Sound(outer'[o], images')
  BY <1>2 DEF Sound, BuildTells
<1> QED
  BY <1>1, <1>2, <1>3 DEF Onward, Internal!TypeOK, Builds

LEMMA BuildGoes ==
  ASSUME Internal!TypeOK, BuildTells, NEW o \in Operations, Internal!Build(o) \/ Internal!Dies(o)
  PROVE  Onward(o)
<1>a. outer[o] \in Builds /\ Sound(outer[o], images)
  BY DEF Internal!TypeOK, BuildTells, Builds
<1>1. CASE Internal!Finds(o) \/ Internal!GivesUp(o) \/ Internal!Acquire(o) \/ Internal!Seal(o)
  <2>1. PICK place \in {"source", "acquired", "dotnet", "terminal", "FAILED"} : Internal!Goes(o, place)
    BY <1>1 DEF Internal!Finds, Internal!GivesUp, Internal!Acquire, Internal!Seal
  <2>2. outer[o].pc \in {"waiting", "source", "acquired"} /\ images' = images
    BY <1>1 DEF Internal!Finds, Internal!GivesUp, Internal!Acquire, Internal!Seal, Internal!At
  <2> QED
    BY <1>a, <2>1, <2>2, GoesOnward DEF Sound, Internal!Places, Internal!TypeOK
<1>2. CASE Internal!RunDotnet(o)
  <2>1. PICK place \in {"image", "terminal"} : outer' = [outer EXCEPT ![o] = Internal!Then(o, place)]
    BY <1>2 DEF Internal!RunDotnet, Internal!Worker
  <2>2. outer[o].pc = "dotnet" /\ images' = images
    BY <1>2 DEF Internal!RunDotnet, Internal!Worker, Internal!At
  <2>3. Internal!Goes(o, place)
    BY <2>1 DEF Internal!Goes, Internal!Then, Internal!TypeOK
  <2> QED
    BY <1>a, <2>2, <2>3, GoesOnward DEF Sound, Internal!Places, Internal!TypeOK
<1>3. CASE Internal!BuildImage(o)
  <2>1. outer[o].pc = "image" /\ images' = images
    BY <1>3 DEF Internal!BuildImage, Internal!Worker, Internal!At
  <2>2. CASE outer' = [outer EXCEPT ![o] = Internal!Then(o, "terminal")]
    <3>1. Internal!Goes(o, "terminal")
      BY <2>2 DEF Internal!Goes, Internal!Then, Internal!TypeOK
    <3> QED
      BY <1>a, <2>1, <3>1, GoesOnward DEF Sound, Internal!Places, Internal!TypeOK
  <2>3. ASSUME NEW d \in Digests,
               outer' = [outer EXCEPT ![o] = [Internal!Then(o, "publish") EXCEPT !.digest = d]]
        PROVE  Onward(o)
    <3>1. outer'[o] = [[outer[o] EXCEPT !.pc = "publish"] EXCEPT !.digest = d]
      BY <2>3 DEF Internal!Then, Internal!TypeOK
    <3>2. /\ outer'[o] \in Builds /\ outer'[o].pc = "publish"
          /\ outer'[o].digest = d /\ outer'[o].record = outer[o].record
      BY <1>a, <3>1 DEF Builds, Internal!Places
    <3>3. Sound(outer'[o], images')
      BY <1>a, <2>1, <3>2 DEF Sound, Internal!ReleaseAssumption
    <3> QED
      BY <2>1, <2>3, <3>2, <3>3 DEF Onward, Internal!TypeOK, Builds
  <2> QED
    BY <1>3, <2>2, <2>3 DEF Internal!BuildImage, Internal!Worker
<1>4. CASE Internal!PublishImage(o)
  <2>1. outer[o].pc = "publish" /\ outer[o].digest \in Digests
    BY <1>4, <1>a DEF Internal!PublishImage, Internal!At, Sound
  <2>2. /\ images \subseteq images' /\ images' \subseteq Digests
        /\ \/ Internal!Goes(o, "manifest") /\ outer[o].digest \in images'
           \/ Internal!Goes(o, "terminal")
    BY <1>4, <2>1 DEF Internal!PublishImage, Internal!TypeOK
  <2> QED
    BY <1>a, <2>1, <2>2, GoesOnward DEF Sound, Internal!Places
<1>5. CASE Internal!PublishManifest(o) \/ Internal!ReadManifest(o)
  <2>1. PICK place \in {"readback", "probe", "terminal"} : Internal!Goes(o, place)
    BY <1>5 DEF Internal!PublishManifest, Internal!ReadManifest, Internal!Raises
  <2>2. outer[o].pc \in {"manifest", "readback"} /\ images' = images
    BY <1>5 DEF Internal!PublishManifest, Internal!ReadManifest, Internal!Raises, Internal!At
  <2> QED
    BY <1>a, <2>1, <2>2, GoesOnward DEF Sound, Internal!Places, Internal!TypeOK
<1>6. CASE Internal!Probe(o)
  <2>1. outer[o].pc = "probe" /\ images' = images
    BY <1>6 DEF Internal!Probe, Internal!Worker, Internal!At
  <2>2. PICK record \in {"SUCCEEDED", "FAILED"} :
          outer' = [outer EXCEPT ![o] = [Internal!Then(o, "result") EXCEPT !.record = record]]
    BY <1>6 DEF Internal!Probe, Internal!Worker
  <2>3. outer'[o] = [[outer[o] EXCEPT !.pc = "result"] EXCEPT !.record = record]
    BY <2>2 DEF Internal!Then, Internal!TypeOK
  <2>4. /\ outer'[o] \in Builds /\ outer'[o].pc = "result"
        /\ outer'[o].digest = outer[o].digest /\ outer'[o].record = record
    BY <1>a, <2>3 DEF Builds, Internal!Places
  <2>5. Sound(outer'[o], images')
    BY <1>a, <2>1, <2>4 DEF Sound, Internal!ReleaseAssumption
  <2> QED
    BY <2>1, <2>2, <2>4, <2>5 DEF Onward, Internal!TypeOK, Builds
<1>7. CASE Internal!Persist(o) \/ Internal!PutTerminal(o) \/ Internal!Dies(o)
  <2>1. PICK place \in {"reread", "confirm", "FAILED"} : Internal!Goes(o, place)
    BY <1>7 DEF Internal!Persist, Internal!PutTerminal, Internal!Dies, Internal!Raises
  <2>2. outer[o].pc \notin {"none", "SUCCEEDED", "FAILED"} /\ images' = images
    BY <1>7 DEF Internal!Persist, Internal!PutTerminal, Internal!Dies, Internal!Raises, Internal!At
  <2> QED
    BY <1>a, <2>1, <2>2, GoesOnward DEF Sound, Internal!Places, Internal!TypeOK
<1>8. CASE Internal!Reread(o) \/ Internal!Confirm(o)
  <2>1. PICK place \in {"SUCCEEDED", "FAILED", "confirm", "terminal"} :
          Internal!Goes(o, place) /\ (place = "SUCCEEDED" => outer[o].record = "SUCCEEDED")
    BY <1>8 DEF Internal!Reread, Internal!Confirm, Internal!Exits, Internal!Raises
  <2>2. outer[o].pc \in {"reread", "confirm"} /\ images' = images
    BY <1>8 DEF Internal!Reread, Internal!Confirm, Internal!Exits, Internal!Raises, Internal!At
  <2> QED
    BY <1>a, <2>1, <2>2, GoesOnward DEF Sound, Internal!Places, Internal!TypeOK
<1> QED
  BY <1>1, <1>2, <1>3, <1>4, <1>5, <1>6, <1>7, <1>8 DEF Internal!Build

\* Whose step it is, and what it leaves alone.
GatewayStep(o) == Internal!Request(o) \/ Internal!Gateway(o) \/ Internal!GatewayRaises(o)
BuildStep(o) == Internal!Build(o) \/ Internal!Dies(o)
FinalizerStep(o, k) == Internal!Wake(o, k) \/ Internal!Finalizer(o, k) \/ Internal!FinalizerRaises(o, k)

LEMMA StepsAre ==
  Internal!Next <=>
    \/ Internal!Land
    \/ \E o \in Operations : GatewayStep(o) \/ BuildStep(o) \/ Internal!Status(o)
    \/ \E o \in Operations : \E k \in 1..MaxInvocations : FinalizerStep(o, k)
BY DEF Internal!Next, GatewayStep, BuildStep, FinalizerStep

LEMMA BuildLeaves ==
  ASSUME NEW o \in Operations, BuildStep(o)
  PROVE  UNCHANGED <<gateway, finalizer, told>> /\ (UNCHANGED faults \/ Internal!Fault)
<1>1. CASE Internal!Finds(o) \/ Internal!GivesUp(o) \/ Internal!Acquire(o) \/ Internal!Seal(o)
             \/ Internal!PublishImage(o)
  BY <1>1 DEF Internal!Finds, Internal!GivesUp, Internal!Acquire, Internal!Seal, Internal!PublishImage
<1>2. CASE Internal!RunDotnet(o) \/ Internal!BuildImage(o) \/ Internal!Probe(o)
  BY <1>2 DEF Internal!RunDotnet, Internal!BuildImage, Internal!Probe, Internal!Worker
<1>3. CASE Internal!PublishManifest(o) \/ Internal!ReadManifest(o) \/ Internal!Persist(o)
             \/ Internal!Reread(o) \/ Internal!Confirm(o) \/ Internal!PutTerminal(o) \/ Internal!Dies(o)
  BY <1>3 DEF Internal!PublishManifest, Internal!ReadManifest, Internal!Persist, Internal!Reread,
     Internal!Confirm, Internal!PutTerminal, Internal!Dies, Internal!Raises
<1> QED
  BY <1>1, <1>2, <1>3 DEF BuildStep, Internal!Build

LEMMA GatewayLeaves ==
  ASSUME Internal!TypeOK, NEW o \in Operations, GatewayStep(o)
  PROVE  /\ UNCHANGED <<images, finalizer, told>> /\ (UNCHANGED faults \/ Internal!Fault)
         /\ \E place \in {"start", "operation", "mapping", "readback", "answered", "raised"} :
              Internal!Reach(o, place)
         /\ \/ UNCHANGED outer /\ (Internal!Request(o) \/ gateway'[o] # "start")
            \/ Internal!StartBuild(o)
<1>1. CASE Internal!Request(o) \/ Internal!StartBuild(o)
  BY <1>1 DEF Internal!Request, Internal!StartBuild
<1>2. CASE Internal!Stores(o) \/ Internal!Answers(o) \/ Internal!GatewayRaises(o)
  BY <1>2 DEF Internal!Stores, Internal!Answers, Internal!GatewayRaises, Internal!Reach, Internal!TypeOK
<1> QED
  BY <1>1, <1>2 DEF GatewayStep, Internal!Gateway

LEMMA FinalizerLeaves ==
  ASSUME NEW o \in Operations, NEW k \in 1..MaxInvocations, FinalizerStep(o, k)
  PROVE  /\ UNCHANGED <<gateway, images, outer, told>> /\ (UNCHANGED faults \/ Internal!Fault)
         /\ \E place \in {"evidence", "qualification", "look", "public", "done", "raised"} :
              Internal!Proceeds(o, k, place)
<1>1. CASE Internal!Wake(o, k) \/ Internal!Examine(o, k) \/ Internal!Look(o, k)
  BY <1>1 DEF Internal!Wake, Internal!Examine, Internal!Look
<1>2. CASE Internal!Qualify(o, k) \/ Internal!Show(o, k) \/ Internal!FinalizerRaises(o, k)
  BY <1>2 DEF Internal!Qualify, Internal!Show, Internal!FinalizerRaises
<1> QED
  BY <1>1, <1>2 DEF FinalizerStep, Internal!Finalizer

\* A step is a step of a build, the start of one, or leaves the builds alone.
LEMMA OuterMoves ==
  ASSUME Internal!TypeOK, BuildTells, Internal!Next
  PROVE  /\ outer' \in [Operations -> Builds] /\ images \subseteq images' /\ images' \subseteq Digests
         /\ \A q \in Operations :
              \/ outer'[q] = outer[q]
              \/ gateway[q] = "start" /\ gateway'[q] = "operation"
                   /\ outer'[q] = [outer[q] EXCEPT !.pc = "waiting"]
              \/ /\ outer[q].pc \notin {"none", "SUCCEEDED", "FAILED"}
                 /\ outer'[q].pc # "none" /\ Sound(outer'[q], images') /\ gateway'[q] = gateway[q]
<1>1. ASSUME NEW o \in Operations, BuildStep(o) PROVE Onward(o) /\ UNCHANGED gateway
  BY <1>1, BuildGoes, BuildLeaves DEF BuildStep
<1>2. ASSUME NEW o \in Operations, Internal!StartBuild(o)
      PROVE  /\ UNCHANGED images /\ outer' \in [Operations -> Builds]
             /\ gateway[o] = "start" /\ gateway'[o] = "operation"
             /\ outer'[o] = [outer[o] EXCEPT !.pc = "waiting"]
             /\ \A q \in Operations \ {o} : outer'[q] = outer[q]
  <2>1. /\ outer' = [outer EXCEPT ![o] = [outer[o] EXCEPT !.pc = "waiting"]]
        /\ outer[o] \in Builds /\ [outer[o] EXCEPT !.pc = "waiting"] \in Builds
    BY <1>2 DEF Internal!StartBuild, Internal!TypeOK, Builds, Internal!Places
  <2>2. gateway[o] = "start" /\ gateway'[o] = "operation" /\ UNCHANGED images
    BY <1>2 DEF Internal!StartBuild, Internal!Reach, Internal!TypeOK
  <2> QED
    BY <2>1, <2>2 DEF Internal!TypeOK, Builds
<1>3. \/ UNCHANGED <<outer, images>>
      \/ \E o \in Operations : BuildStep(o) \/ Internal!StartBuild(o)
  BY StepsAre, GatewayLeaves, FinalizerLeaves DEF Internal!Land, Internal!Status
<1>4. CASE UNCHANGED <<outer, images>>
  BY <1>4 DEF Internal!TypeOK, Builds
<1> QED
  BY <1>1, <1>2, <1>3, <1>4 DEF Onward, Internal!TypeOK

LEMMA NextBuildTells ==
  ASSUME Internal!TypeOK, BuildTells, Internal!Next
  PROVE  BuildTells'
<1>1. ASSUME NEW o \in Operations PROVE Sound(outer'[o], images')
  <2>1. CASE outer'[o] = outer[o]
    BY <2>1, OuterMoves DEF BuildTells, Sound
  <2>2. CASE gateway[o] = "start" /\ outer'[o] = [outer[o] EXCEPT !.pc = "waiting"]
    <3>1. /\ outer'[o].pc = "waiting" /\ outer'[o].record = outer[o].record
          /\ outer'[o].digest = outer[o].digest /\ outer[o].record = None
      BY <2>2 DEF Internal!TypeOK, BuildTells, Sound, Internal!At
    <3> QED
      BY <3>1 DEF Sound, Internal!ReleaseAssumption
  <2> QED
    BY <2>1, <2>2, OuterMoves
<1>2. ASSUME NEW o \in Operations, gateway'[o] \in {"idle", "start"} PROVE outer'[o].pc = "none"
  <2>1. gateway[o] \in {"idle", "start"}
    <3>1. ASSUME NEW q \in Operations, GatewayStep(q) PROVE gateway[o] \in {"idle", "start"}
      <4>1. CASE Internal!Request(q)
        BY <1>2, <4>1 DEF Internal!Request, Internal!Reach, Internal!TypeOK
      <4>2. CASE ~Internal!Request(q)
        BY <1>2, <3>1, <4>2, GatewayLeaves DEF Internal!Reach, Internal!StartBuild, Internal!TypeOK
      <4> QED
        BY <4>1, <4>2
    <3> QED
      BY <1>2, <3>1, StepsAre, BuildLeaves, FinalizerLeaves DEF Internal!Land, Internal!Status
  <2> QED
    BY <1>2, <2>1, OuterMoves DEF BuildTells, Internal!At
<1> QED
  BY <1>1, <1>2 DEF BuildTells, Internal!At

\* The puts that may land later are those that were so before, and those of the
\* place at which a call raised.
LEMMA LateGrows ==
  ASSUME Internal!TypeOK, BuildTells, Internal!Next, NEW p \in late', p \notin late
  PROVE  \/ /\ p[1] \in Internal!Keys /\ p[2] \in Internal!Values(p[1])
            /\ p[1][1] \notin {"qualification", "public"}
         \/ \E o \in Operations : \E k \in 1..MaxInvocations : \E n \in {"qualification", "public"} :
              finalizer[o][k] = n /\ p = <<<<n, o>>, o>> /\ objects' = objects
<1>1. ASSUME NEW o \in Operations,
             Internal!Raises(o, "FAILED") \/ Internal!Raises(o, "terminal") \/ Internal!Raises(o, "confirm")
      PROVE  p \in Internal!InHand(o)
  BY <1>1 DEF Internal!Raises
<1>2. ASSUME NEW o \in Operations, Internal!Build(o) \/ Internal!Dies(o) PROVE p \in Internal!InHand(o)
  BY <1>1, <1>2 DEF Internal!Build, Internal!Finds, Internal!GivesUp, Internal!Acquire,
     Internal!Seal, Internal!RunDotnet, Internal!BuildImage, Internal!PublishImage,
     Internal!PublishManifest, Internal!ReadManifest, Internal!Probe, Internal!Persist,
     Internal!Reread, Internal!Confirm, Internal!PutTerminal, Internal!Dies, Internal!Worker
<1>3. ASSUME NEW o \in Operations, Internal!GatewayRaises(o)
      PROVE  /\ p[1] \in Internal!Keys /\ p[2] \in Internal!Values(p[1])
             /\ p[1][1] \notin {"qualification", "public"}
  <2>1. PICK n \in {"operation", "mapping"} : p = <<<<n, o>>, o>>
    BY <1>3 DEF Internal!GatewayRaises
  <2>2. p[1] = <<n, o>> /\ p[2] = o /\ p[1][1] = n
    BY <2>1
  <2> QED
    BY <2>2 DEF Internal!Keys, Internal!Values
<1>4. ASSUME NEW o \in Operations, NEW k \in 1..MaxInvocations, Internal!FinalizerRaises(o, k)
      PROVE  \E n \in {"qualification", "public"} :
               finalizer[o][k] = n /\ p = <<<<n, o>>, o>> /\ objects' = objects
  BY <1>4 DEF Internal!FinalizerRaises
<1>5. \/ \E o \in Operations : Internal!Build(o) \/ Internal!Dies(o) \/ Internal!GatewayRaises(o)
      \/ \E o \in Operations : \E k \in 1..MaxInvocations : Internal!FinalizerRaises(o, k)
  BY DEF Internal!Next, Internal!Land, Internal!Request, Internal!Gateway, Internal!StartBuild,
     Internal!Stores, Internal!Answers, Internal!Status, Internal!Wake, Internal!Finalizer,
     Internal!Examine, Internal!Qualify, Internal!Look, Internal!Show
<1> QED
  BY <1>2, <1>3, <1>4, <1>5, InHandIsTyped

LEMMA NextTyped ==
  ASSUME Internal!TypeOK, BuildTells, Internal!Next
  PROVE  Internal!TypeOK'
<1>1. /\ objects' \in [Internal!Keys -> {None} \cup Internal!Attempts \cup Operations]
      /\ \A k \in Internal!Keys : objects'[k] \in {None} \cup Internal!Values(k)
  BY KeysLast
<1>2. ASSUME NEW p \in late' PROVE p[1] \in Internal!Keys /\ p[2] \in Internal!Values(p[1])
  <2>1. CASE p \in late
    BY <2>1 DEF Internal!TypeOK
  <2>2. ASSUME NEW o \in Operations, NEW n \in {"qualification", "public"}, p = <<<<n, o>>, o>>
        PROVE  p[1] \in Internal!Keys /\ p[2] \in Internal!Values(p[1])
    <3>1. p[1] = <<n, o>> /\ p[2] = o /\ p[1][1] = n
      BY <2>2
    <3> QED
      BY <3>1 DEF Internal!Keys, Internal!Values
  <2> QED
    BY <2>1, <2>2, LateGrows
<1>3. outer' \in [Operations -> Builds] /\ images' \subseteq Digests
  BY OuterMoves
<1>4. gateway' \in [Operations ->
        {"idle", "start", "operation", "mapping", "readback", "answered", "raised"}]
  <2>1. ASSUME NEW o \in Operations, NEW place, Internal!Reach(o, place),
               place \in {"start", "operation", "mapping", "readback", "answered", "raised"}
        PROVE  gateway' \in [Operations ->
                 {"idle", "start", "operation", "mapping", "readback", "answered", "raised"}]
    BY <2>1 DEF Internal!Reach, Internal!TypeOK
  <2>2. UNCHANGED gateway \/ \E o \in Operations : GatewayStep(o)
    BY StepsAre, BuildLeaves, FinalizerLeaves DEF Internal!Land, Internal!Status
  <2> QED
    BY <2>1, <2>2, GatewayLeaves DEF Internal!TypeOK
<1>5. finalizer' \in [Operations -> [1..MaxInvocations ->
        {"none", "evidence", "qualification", "look", "public", "done", "raised"}]]
  <2>1. ASSUME NEW o \in Operations, NEW k \in 1..MaxInvocations, NEW place,
               Internal!Proceeds(o, k, place), place \in {"evidence", "qualification", "look", "public", "done", "raised"}
        PROVE  finalizer' \in [Operations -> [1..MaxInvocations ->
                 {"none", "evidence", "qualification", "look", "public", "done", "raised"}]]
    BY <2>1 DEF Internal!Proceeds, Internal!TypeOK
  <2>2. \/ UNCHANGED finalizer
        \/ \E o \in Operations : \E k \in 1..MaxInvocations : FinalizerStep(o, k)
    BY StepsAre, BuildLeaves, GatewayLeaves DEF Internal!Land, Internal!Status
  <2> QED
    BY <2>1, <2>2, FinalizerLeaves DEF Internal!TypeOK
<1>6. told' \in [Operations -> SUBSET {"BUILD_SUCCEEDED", "FAILED"}]
  <2>1. UNCHANGED told \/ \E o \in Operations : Internal!Status(o)
    BY StepsAre, BuildLeaves, GatewayLeaves, FinalizerLeaves DEF Internal!Land
  <2>2. ASSUME NEW o \in Operations, Internal!Status(o)
        PROVE  told' \in [Operations -> SUBSET {"BUILD_SUCCEEDED", "FAILED"}]
    <3>1. PICK word \in {"BUILD_SUCCEEDED", "FAILED"} :
            told' = [told EXCEPT ![o] = told[o] \cup {word}]
      BY <2>2 DEF Internal!Status, Internal!TypeOK
    <3>2. told[o] \cup {word} \in SUBSET {"BUILD_SUCCEEDED", "FAILED"}
      BY DEF Internal!TypeOK
    <3> QED
      BY <3>1, <3>2 DEF Internal!TypeOK
  <2> QED
    BY <2>1, <2>2 DEF Internal!TypeOK
<1>7. faults' \in 0..MaxFaults
  <2>1. UNCHANGED faults \/ Internal!Fault
    BY StepsAre, BuildLeaves, GatewayLeaves, FinalizerLeaves DEF Internal!Land, Internal!Status
  <2> QED
    BY <2>1 DEF Internal!Fault, Internal!TypeOK, Internal!ReleaseAssumption
<1> QED
  BY <1>1, <1>2, <1>3, <1>4, <1>5, <1>6, <1>7 DEF Internal!TypeOK, Builds
------------------------------------------------------------------------------
(* What has passed, and what it lets follow.                                *)

\* A build that has succeeded does not move, and what it left is not taken back.
LEMMA PassedLasts ==
  ASSUME Internal!TypeOK, BuildTells, Internal!Next, NEW o \in Operations, Internal!Passed(o)
  PROVE  Internal!Passed(o)'
<1>1. outer'[o] = outer[o] /\ images \subseteq images'
  BY OuterMoves DEF BuildTells, Internal!Passed, Internal!At
<1>2. Internal!ManifestKey(o) \in Internal!Keys /\ Internal!ManifestKey(o)' = Internal!ManifestKey(o)
  BY <1>1, ManifestKeyOf DEF Internal!Passed, Internal!TypeOK, Internal!ManifestKey
<1>3. \A l \in Internal!Keys : objects[l] # None => objects'[l] = objects[l]
  BY KeysLast
<1>4. objects'[<<"attempt", o>>] = "SUCCEEDED"
  BY <1>3, KeysOf DEF Internal!Passed, Internal!ReleaseAssumption
<1>5. objects'[Internal!ManifestKey(o)] = o
  BY <1>2, <1>3 DEF Internal!Passed, Internal!ReleaseAssumption
<1> QED
  BY <1>1, <1>2, <1>4, <1>5 DEF Internal!Passed, Internal!At

LEMMA StoredLasts ==
  ASSUME Internal!TypeOK, BuildTells, Internal!Next, NEW o \in Operations,
         NEW n \in {"operation", "mapping", "attempt", "qualification", "public"}, Internal!Stored(n, o)
  PROVE  Internal!Stored(n, o)' /\ objects'[<<n, o>>] = objects[<<n, o>>]
BY KeysLast, KeysOf DEF Internal!Stored

\* Only the finalizer of an operation, or a put that raised before, stores a
\* qualification or a public success.
LEMMA WhoStores ==
  ASSUME Internal!TypeOK, BuildTells, Internal!Next, NEW o \in Operations,
         NEW n \in {"qualification", "public"}, Internal!Stored(n, o)', ~Internal!Stored(n, o)
  PROVE  \/ \E k \in 1..MaxInvocations : finalizer[o][k] = n
         \/ \E p \in late : p[1] = <<n, o>>
<1> DEFINE key == <<n, o>>
<1>1. key \in Internal!Keys /\ key[1] = n /\ key[2] = o /\ objects'[key] # objects[key]
  BY KeysOf DEF Internal!Stored
<1>2. ASSUME NEW l \in Internal!Keys, NEW v, Internal!Create(l, v) PROVE l = key
  BY <1>1, <1>2 DEF Internal!Create, Internal!TypeOK
<1>3. CASE Internal!Land
  <2>1. PICK p \in late : Internal!Create(p[1], p[2])
    BY <1>3 DEF Internal!Land
  <2> QED
    BY <1>2, <2>1 DEF Internal!TypeOK
<1>4. ASSUME NEW q \in Operations, GatewayStep(q) PROVE FALSE
  <2>1. UNCHANGED objects \/ Internal!Stores(q)
    BY <1>4 DEF GatewayStep, Internal!Gateway, Internal!Request, Internal!StartBuild,
       Internal!Answers, Internal!GatewayRaises
  <2>2. ASSUME NEW m \in {"operation", "mapping"}, Internal!Create(<<m, q>>, q) PROVE FALSE
    BY <1>1, <1>2, <2>2, KeysOf
  <2> QED
    BY <1>1, <2>1, <2>2 DEF Internal!Stores
<1>5. ASSUME NEW q \in Operations, BuildStep(q) PROVE FALSE
  <2>1. CASE Internal!PublishManifest(q)
    <3>1. outer[q].digest \in Digests
      BY <2>1 DEF Internal!PublishManifest, BuildTells, Sound, Internal!TypeOK, Internal!At
    <3> QED
      BY <1>1, <1>2, <2>1, <3>1, ManifestKeyOf DEF Internal!PublishManifest, Internal!Raises
  <2>2. CASE Internal!Persist(q) \/ Internal!PutTerminal(q)
    <3>1. ASSUME NEW v, Internal!Create(<<"attempt", q>>, v) PROVE FALSE
      BY <1>1, <1>2, <3>1, KeysOf
    <3> QED
      BY <1>1, <2>2, <3>1 DEF Internal!Persist, Internal!PutTerminal, Internal!Raises
  <2>3. CASE Internal!Finds(q) \/ Internal!GivesUp(q) \/ Internal!Acquire(q) \/ Internal!Seal(q)
             \/ Internal!RunDotnet(q) \/ Internal!BuildImage(q) \/ Internal!PublishImage(q)
             \/ Internal!ReadManifest(q) \/ Internal!Probe(q) \/ Internal!Reread(q)
             \/ Internal!Confirm(q) \/ Internal!Dies(q)
    BY <1>1, <2>3 DEF Internal!Finds, Internal!GivesUp, Internal!Acquire, Internal!Seal,
       Internal!RunDotnet, Internal!BuildImage, Internal!PublishImage,
       Internal!ReadManifest, Internal!Probe, Internal!Reread, Internal!Confirm, Internal!Dies,
       Internal!Worker, Internal!Raises
  <2> QED
    BY <1>5, <2>1, <2>2, <2>3 DEF BuildStep, Internal!Build
<1>6. ASSUME NEW q \in Operations, NEW k \in 1..MaxInvocations, FinalizerStep(q, k)
      PROVE  finalizer[o][k] = n
  <2>1. CASE Internal!Qualify(q, k)
    BY <1>1, <1>2, <2>1, KeysOf DEF Internal!Qualify
  <2>2. CASE Internal!Show(q, k)
    BY <1>1, <1>2, <2>2, KeysOf DEF Internal!Show
  <2>3. CASE Internal!Wake(q, k) \/ Internal!Examine(q, k) \/ Internal!Look(q, k) \/ Internal!FinalizerRaises(q, k)
    BY <1>1, <2>3 DEF Internal!Wake, Internal!Examine, Internal!Look, Internal!FinalizerRaises
  <2> QED
    BY <1>6, <2>1, <2>2, <2>3 DEF FinalizerStep, Internal!Finalizer
<1>7. ASSUME NEW q \in Operations, Internal!Status(q) PROVE FALSE
  BY <1>1, <1>7 DEF Internal!Status
<1> QED
  BY <1>3, <1>4, <1>5, <1>6, <1>7, StepsAre

\* Whoever goes on has seen the evidence, and a place follows the one before it.
LEMMA WhoProceeds ==
  ASSUME Internal!TypeOK, BuildTells, EvidenceTells, Internal!Next,
         NEW o \in Operations, NEW k \in 1..MaxInvocations
  PROVE  /\ finalizer'[o][k] \in {"qualification", "look", "public", "done"} => Internal!Passed(o)
         /\ finalizer'[o][k] \in {"look", "public", "done"} => Internal!Stored("qualification", o)'
<1>1. CASE finalizer'[o][k] = finalizer[o][k]
  BY <1>1, StoredLasts DEF EvidenceTells
<1>2. ASSUME NEW q \in Operations, NEW j \in 1..MaxInvocations, FinalizerStep(q, j),
             finalizer'[o][k] # finalizer[o][k]
      PROVE  /\ q = o /\ j = k
             /\ \A place : Internal!Proceeds(o, k, place) => finalizer'[o][k] = place
  <2>1. PICK place : Internal!Proceeds(q, j, place)
    BY <1>2, FinalizerLeaves
  <2>2. q = o /\ j = k
    BY <1>2, <2>1 DEF Internal!Proceeds, Internal!TypeOK
  <2>3. ASSUME NEW p, Internal!Proceeds(o, k, p) PROVE finalizer'[o][k] = p
    BY <2>3 DEF Internal!Proceeds, Internal!TypeOK
  <2> QED
    BY <2>2, <2>3
<1>3. CASE finalizer'[o][k] # finalizer[o][k]
  <2>1. FinalizerStep(o, k)
    <3>1. \E q \in Operations : \E j \in 1..MaxInvocations : FinalizerStep(q, j)
      BY <1>3, StepsAre, GatewayLeaves, BuildLeaves DEF Internal!Land, Internal!Status
    <3> QED
      BY <1>2, <1>3, <3>1
  <2>2. \A place : Internal!Proceeds(o, k, place) => finalizer'[o][k] = place
    BY <1>2, <1>3, <2>1
  <2>3. CASE Internal!Wake(o, k) \/ Internal!FinalizerRaises(o, k)
    BY <2>2, <2>3 DEF Internal!Wake, Internal!FinalizerRaises
  <2>4. CASE Internal!Examine(o, k)
    <3>1. Internal!Evidenced(o) => Internal!Passed(o)
      BY DEF Internal!Evidenced, Internal!Passed, BuildTells, Sound, Internal!At
    <3> QED
      BY <2>2, <2>4, <3>1 DEF Internal!Examine
  <2>5. CASE Internal!Qualify(o, k)
    <3>1. finalizer'[o][k] = "look" /\ finalizer[o][k] = "qualification"
      BY <2>2, <2>5 DEF Internal!Qualify
    <3>2. Internal!Stored("qualification", o)'
      BY <2>5, KeysOf, CreateStores DEF Internal!Qualify, Internal!Stored
    <3> QED
      BY <3>1, <3>2 DEF EvidenceTells
  <2>6. CASE Internal!Look(o, k) \/ Internal!Show(o, k)
    BY <2>2, <2>6, StoredLasts DEF Internal!Look, Internal!Show, EvidenceTells
  <2> QED
    BY <2>1, <2>3, <2>4, <2>5, <2>6 DEF FinalizerStep, Internal!Finalizer
<1> QED
  BY <1>1, <1>3

LEMMA NextEvidence ==
  ASSUME Internal!TypeOK, BuildTells, EvidenceTells, Internal!Next
  PROVE  EvidenceTells'
<1>1. ASSUME NEW o \in Operations, Internal!Passed(o) PROVE Internal!Passed(o)'
  BY <1>1, PassedLasts
<1>2. ASSUME NEW p \in late'
      PROVE  /\ p[1][1] = "qualification" => Internal!Passed(p[1][2])'
             /\ p[1][1] = "public" => Internal!Stored("qualification", p[1][2])'
  <2>1. CASE p \in late /\ p[1][1] \in {"qualification", "public"}
    <3>1. p[1][2] \in Operations
      BY <2>1 DEF Internal!TypeOK, Internal!Keys
    <3> QED
      BY <1>1, <2>1, <3>1, StoredLasts DEF EvidenceTells
  <2>2. ASSUME NEW o \in Operations, NEW k \in 1..MaxInvocations,
               NEW n \in {"qualification", "public"}, finalizer[o][k] = n, p = <<<<n, o>>, o>>
        PROVE  /\ p[1][1] = "qualification" => Internal!Passed(p[1][2])'
               /\ p[1][1] = "public" => Internal!Stored("qualification", p[1][2])'
    <3>1. p[1] = <<n, o>> /\ p[1][1] = n /\ p[1][2] = o
      BY <2>2
    <3>2. Internal!Passed(o) /\ (n = "public" => Internal!Stored("qualification", o))
      BY <2>2 DEF EvidenceTells
    <3> QED
      BY <1>1, <3>1, <3>2, StoredLasts
  <2> QED
    BY <2>1, <2>2, LateGrows
<1>3. ASSUME NEW o \in Operations, Internal!Stored("qualification", o)' PROVE Internal!Passed(o)'
  <2>1. CASE Internal!Stored("qualification", o)
    BY <1>1, <2>1 DEF EvidenceTells
  <2>2. CASE \E k \in 1..MaxInvocations : finalizer[o][k] = "qualification"
    BY <1>1, <2>2 DEF EvidenceTells
  <2>3. CASE \E p \in late : p[1] = <<"qualification", o>>
    BY <1>1, <2>3 DEF EvidenceTells
  <2> QED
    BY <1>3, <2>1, <2>2, <2>3, WhoStores
<1>4. ASSUME NEW o \in Operations, Internal!Stored("public", o)' PROVE Internal!Stored("qualification", o)'
  <2>1. Internal!Stored("qualification", o)
    <3>1. CASE Internal!Stored("public", o)
      BY <3>1 DEF EvidenceTells
    <3>2. CASE \E k \in 1..MaxInvocations : finalizer[o][k] = "public"
      BY <3>2 DEF EvidenceTells
    <3>3. CASE \E p \in late : p[1] = <<"public", o>>
      BY <3>3 DEF EvidenceTells
    <3> QED
      BY <1>4, <3>1, <3>2, <3>3, WhoStores
  <2> QED
    BY <2>1, StoredLasts
<1>5. ASSUME NEW o \in Operations, NEW k \in 1..MaxInvocations
      PROVE  /\ finalizer'[o][k] \in {"qualification", "look", "public", "done"} => Internal!Passed(o)'
             /\ finalizer'[o][k] \in {"look", "public", "done"} => Internal!Stored("qualification", o)'
  BY <1>1, WhoProceeds
<1> QED
  BY <1>2, <1>3, <1>4, <1>5 DEF EvidenceTells

LEMMA NextToldTells ==
  ASSUME Internal!TypeOK, BuildTells, ToldTells, Internal!Next
  PROVE  ToldTells'
<1> SUFFICES ASSUME NEW o \in Operations
             PROVE  /\ "FAILED" \in told'[o] => objects'[<<"attempt", o>>] \in {"FAILED", "TERMINAL"}
                    /\ "BUILD_SUCCEEDED" \in told'[o] => objects'[<<"attempt", o>>] = "SUCCEEDED"
  BY DEF ToldTells
<1>1. objects[<<"attempt", o>>] # None => objects'[<<"attempt", o>>] = objects[<<"attempt", o>>]
  BY StoredLasts DEF Internal!Stored
<1>2. objects[<<"attempt", o>>] \in {None} \cup Internal!Attempts
  <2>1. <<"attempt", o>> \in Internal!Keys /\ Internal!Values(<<"attempt", o>>) = Internal!Attempts
    BY KeysOf
  <2> QED
    BY <2>1 DEF Internal!TypeOK
<1>3. CASE told'[o] = told[o]
  BY <1>1, <1>3 DEF ToldTells, Internal!ReleaseAssumption
<1>4. CASE told'[o] # told[o]
  <2>1. PICK q \in Operations : Internal!Status(q)
    BY <1>4, StepsAre, GatewayLeaves, BuildLeaves, FinalizerLeaves DEF Internal!Land
  <2>2. q = o /\ Internal!Status(o)
    BY <1>4, <2>1 DEF Internal!Status, Internal!TypeOK
  <2>3. /\ objects[<<"attempt", o>>] # None
        /\ told'[o] = told[o] \cup
             {IF objects[<<"attempt", o>>] = "SUCCEEDED" THEN "BUILD_SUCCEEDED" ELSE "FAILED"}
    BY <2>2 DEF Internal!Status, Internal!Stored, Internal!TypeOK
  <2> QED
    BY <1>1, <1>2, <2>3 DEF ToldTells, Internal!Attempts
<1> QED
  BY <1>3, <1>4
------------------------------------------------------------------------------
LEMMA InitReleaseInv ==
  ASSUME Internal!Init
  PROVE  ReleaseInv
<1>1. Internal!TypeOK
  BY DEF Internal!Init, Internal!TypeOK, Internal!Places, Internal!ReleaseAssumption
<1>2. BuildTells
  BY DEF Internal!Init, BuildTells, Sound, Internal!At, Internal!ReleaseAssumption
<1>3. EvidenceTells
  BY KeysOf DEF Internal!Init, EvidenceTells, Internal!Stored
<1>4. ToldTells
  BY DEF Internal!Init, ToldTells
<1> QED
  BY <1>1, <1>2, <1>3, <1>4 DEF ReleaseInv

LEMMA NextReleaseInv ==
  ASSUME ReleaseInv, [Internal!Next]_Internal!vars
  PROVE  ReleaseInv'
<1>1. CASE Internal!Next
  BY <1>1, NextTyped, NextBuildTells, NextEvidence, NextToldTells DEF ReleaseInv
<1>2. CASE UNCHANGED Internal!vars
  <2>1. Internal!TypeOK'
    BY <1>2 DEF ReleaseInv, Internal!TypeOK, Internal!vars
  <2>2. BuildTells'
    BY <1>2 DEF ReleaseInv, BuildTells, Sound, Internal!At, Internal!vars
  <2>3. EvidenceTells'
    BY <1>2 DEF ReleaseInv, EvidenceTells, Internal!Passed, Internal!Stored, Internal!ManifestKey,
       Internal!At, Internal!vars
  <2>4. ToldTells'
    BY <1>2 DEF ReleaseInv, ToldTells, Internal!vars
  <2> QED
    BY <2>1, <2>2, <2>3, <2>4 DEF ReleaseInv
<1> QED
  BY <1>1, <1>2

LEMMA ReleaseInvTells ==
  ASSUME ReleaseInv
  PROVE  Internal!Qualified
<1> SUFFICES ASSUME NEW o \in Operations
             PROVE  /\ Internal!Stored("public", o) => Internal!Stored("qualification", o)
                    /\ Internal!Stored("qualification", o) => Internal!Passed(o) /\ "FAILED" \notin told[o]
                    /\ told[o] # {"BUILD_SUCCEEDED", "FAILED"}
  BY DEF Internal!Qualified, ReleaseInv
<1> QED
  BY DEF ReleaseInv, EvidenceTells, ToldTells, Internal!Passed

\* A release is public only if it is qualified, and qualified only if its build
\* succeeded, left a result that says so, and published the image and the one manifest
\* of its digest; and what was told of a build is never taken back: for any number of
\* operations, of invocations of the finalizer and of calls that raise
\* (finalizer.py:118-169, services.py:103-124, supervisor.py:474-491).
THEOREM QualifiedAlways == BothSpec => []Qualified
<1>1. BothInit => ReleaseInv
  BY InitReleaseInv DEF BothInit
<1>2. ASSUME ReleaseInv, [BothNext]_<<part, vars, releases>> PROVE ReleaseInv'
  <2>1. [Internal!Next]_Internal!vars
    BY <1>2 DEF BothNext, releases, Internal!vars
  <2> QED
    BY <1>2, <2>1, NextReleaseInv
<1>3. ReleaseInv => Qualified
  BY ReleaseInvTells DEF Qualified
<1> QED
  BY <1>1, <1>2, <1>3, PTL DEF BothSpec
==============================================================================
