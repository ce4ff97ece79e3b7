-------------------------------- MODULE Release --------------------------------
(***************************************************************************)
(* The internal release (scripts/internal_release): a gateway starts one    *)
(* build for each operation and stores how the build finds it; the build,   *)
(* under build_supervision/supervisor.py, takes the source through its      *)
(* stages and leaves one record of the attempt; when CodeBuild announces    *)
(* its end, qualification/finalizer.py qualifies what it finds and makes    *)
(* the success public; a status is told to whoever asks.                    *)
(*                                                                         *)
(* They meet in create-only keys of S3 (adapters.Store).  A call that       *)
(* raises is a fault, and its put may land at any later time or never.      *)
(* Keys are read in one step where what is read cannot be taken back.       *)
(***************************************************************************)
EXTENDS Naturals

CONSTANTS
  Operations,     \* requests; each invocation of the gateway makes a new one
  Digests,        \* of images, which two builds of a source may share
  MaxInvocations, \* of the finalizer, for the event of one build
  MaxFaults,      \* bound on the calls that raise
  None

ReleaseAssumption ==
  /\ None \notin Operations \cup Digests \cup {"SUCCEEDED", "FAILED", "TERMINAL"}
  /\ MaxInvocations \in Nat \ {0} /\ MaxFaults \in Nat

VARIABLES
  gateway,   \* where the invocation of each operation is
  objects,   \* S3: the value of each key
  late,      \* puts that raised and have not landed
  images,    \* ECR: digests in the repository
  outer,     \* CodeBuild: the build of each operation, and what it remembers
  finalizer, \* the invocations for each build
  told,      \* what was told of each operation, other than UNKNOWN and INCOMPLETE
  faults

vars == <<gateway, objects, late, images, outer, finalizer, told, faults>>

\* The record of an attempt: a supervised result, or a terminal that has none.
Attempts == {"SUCCEEDED", "FAILED", "TERMINAL"}

\* The manifest of an image is stored under its digest, with bytes that name the
\* operation; all other keys are those of an operation.
Keys ==
  ({"operation", "mapping", "attempt", "qualification", "public"} \X Operations)
    \cup ({"manifest"} \X Digests)

Init ==
  /\ gateway = [o \in Operations |-> "idle"]
  /\ objects = [k \in Keys |-> None] /\ late = {} /\ images = {}
  /\ outer = [o \in Operations |-> [pc |-> "none", digest |-> None, record |-> None]]
  /\ finalizer = [o \in Operations |-> [k \in 1..MaxInvocations |-> "none"]]
  /\ told = [o \in Operations |-> {}] /\ faults = 0
------------------------------------------------------------------------------
(* Storage.                                                                 *)

Stored(name, o) == objects[<<name, o>>] # None

\* IfNoneMatch "*": the first put wins.
Create(k, v) == objects' = [objects EXCEPT ![k] = IF @ = None THEN v ELSE @]

Fault == faults < MaxFaults /\ faults' = faults + 1

Land ==
  \E p \in late :
    /\ late' = late \ {p} /\ Create(p[1], p[2])
    /\ UNCHANGED <<gateway, images, outer, finalizer, told, faults>>
------------------------------------------------------------------------------
(* services.Gateway                                                         *)

Reach(o, place) == gateway' = [gateway EXCEPT ![o] = place]

\* The source is approved and the intent stored, which nobody reads.
Request(o) ==
  /\ gateway[o] = "idle" /\ Reach(o, "start")
  /\ UNCHANGED <<objects, late, images, outer, finalizer, told, faults>>

StartBuild(o) ==
  /\ gateway[o] = "start" /\ Reach(o, "operation")
  /\ outer' = [outer EXCEPT ![o].pc = "waiting"]
  /\ UNCHANGED <<objects, late, images, finalizer, told, faults>>

Stores(o) ==
  /\ gateway[o] \in {"operation", "mapping"}
  /\ Create(<<gateway[o], o>>, o)
  /\ Reach(o, IF gateway[o] = "operation" THEN "mapping" ELSE "readback")
  /\ UNCHANGED <<late, images, outer, finalizer, told, faults>>

Answers(o) ==
  /\ gateway[o] = "readback" /\ Stored("operation", o) /\ Reach(o, "answered")
  /\ UNCHANGED <<objects, late, images, outer, finalizer, told, faults>>

GatewayRaises(o) ==
  /\ gateway[o] \in {"start", "operation", "mapping", "readback"}
  /\ Fault /\ Reach(o, "raised")
  /\ late' = late \cup {<<<<n, o>>, o>> : n \in {gateway[o]} \cap {"operation", "mapping"}}
  /\ UNCHANGED <<objects, images, outer, finalizer, told>>
------------------------------------------------------------------------------
(* runtime.invoke in the build, and supervisor.Supervisor                   *)

At(o, place) == outer[o].pc = place
Goes(o, place) == outer' = [outer EXCEPT ![o].pc = place]

\* One manifest for each digest, whatever operation it names.
ManifestKey(o) == <<"manifest", outer[o].digest>>

\* The put that the build is about to send.
InHand(o) ==
  CASE At(o, "result")   -> {<<<<"attempt", o>>, outer[o].record>>}
    [] At(o, "terminal") -> {<<<<"attempt", o>>, "TERMINAL">>}
    [] At(o, "manifest") -> {<<ManifestKey(o), o>>}
    [] OTHER             -> {}

\* A call raises; what it has sent may land later.
Raises(o, place) ==
  /\ Fault /\ late' = late \cup InHand(o) /\ Goes(o, place)
  /\ UNCHANGED <<gateway, objects, images, finalizer, told>>

Finds(o) ==
  /\ At(o, "waiting") /\ Stored("mapping", o) /\ Stored("operation", o)
  /\ Goes(o, "source")
  /\ UNCHANGED <<gateway, objects, late, images, finalizer, told, faults>>

\* Mutant: the build looks once.
GivesUpAtOnce(o) ==
  /\ At(o, "waiting") /\ ~Stored("mapping", o)
  /\ Goes(o, "FAILED")
  /\ UNCHANGED <<gateway, objects, late, images, finalizer, told, faults>>

\* Sixty looks: the gateway has raised, or is slower than that.
GivesUp(o) ==
  /\ At(o, "waiting") /\ ~Stored("mapping", o)
  /\ IF gateway[o] = "raised" THEN UNCHANGED faults ELSE Fault
  /\ Goes(o, "FAILED")
  /\ UNCHANGED <<gateway, objects, late, images, finalizer, told>>

\* Every file is fetched and matches the tree of the commit, or a terminal follows.
Acquire(o) ==
  /\ At(o, "source")
  /\ Goes(o, "acquired") \/ Goes(o, "terminal")
  /\ UNCHANGED <<gateway, objects, late, images, finalizer, told, faults>>

\* What was acquired is one closed tree of plain files, which is retained: the later
\* stages take it from there, and nothing else can reach it.
Seal(o) ==
  /\ At(o, "acquired")
  /\ Goes(o, "dotnet") \/ Goes(o, "terminal")
  /\ UNCHANGED <<gateway, objects, late, images, finalizer, told, faults>>

\* One worker runs all stages of its kind, and none of them passes if it did not
\* succeed as a whole.
Passes(status) == status = "SUCCEEDED"

\* The build waits for its worker, for 180 looks at most.
Worker(o, place, next, failed) ==
  /\ At(o, place)
  /\ \E status \in {"SUCCEEDED", "FAILED", "TIMED_OUT"} :
       outer' = [outer EXCEPT ![o] = IF Passes(status) THEN next ELSE failed]
  /\ UNCHANGED <<gateway, objects, late, images, finalizer, told, faults>>

Then(o, place) == [outer[o] EXCEPT !.pc = place]

\* Restore, build and test.
RunDotnet(o) == Worker(o, "dotnet", Then(o, "image"), Then(o, "terminal"))

BuildImage(o) ==
  \E d \in Digests :
    Worker(o, "image", [Then(o, "publish") EXCEPT !.digest = d], Then(o, "terminal"))

\* The image may be in the repository though a call raised.
PublishImage(o) ==
  /\ At(o, "publish")
  /\ \/ images' = images \cup {outer[o].digest} /\ Goes(o, "manifest")
     \/ images' \in {images, images \cup {outer[o].digest}} /\ Goes(o, "terminal")
  /\ UNCHANGED <<gateway, objects, late, finalizer, told, faults>>

\* The manifest of another operation has other bytes, and refuses this one.
PublishManifest(o) ==
  /\ At(o, "manifest")
  /\ \/ /\ Create(ManifestKey(o), o)
        /\ Goes(o, IF objects'[ManifestKey(o)] = o THEN "readback" ELSE "terminal")
        /\ UNCHANGED <<gateway, late, images, finalizer, told, faults>>
     \/ Raises(o, "terminal")

ReadManifest(o) ==
  /\ At(o, "readback")
  /\ \/ /\ Goes(o, "probe")
        /\ UNCHANGED <<gateway, objects, late, images, finalizer, told, faults>>
     \/ Raises(o, "terminal")

\* With or without the probes, there is a result.
Probe(o) ==
  Worker(o, "probe", [Then(o, "result") EXCEPT !.record = "SUCCEEDED"],
                     [Then(o, "result") EXCEPT !.record = "FAILED"])

Persist(o) ==
  /\ At(o, "result")
  /\ \/ /\ Create(<<"attempt", o>>, outer[o].record) /\ Goes(o, "reread")
        /\ UNCHANGED <<gateway, late, images, finalizer, told, faults>>
     \/ Raises(o, "confirm")

\* The build exits with zero for a result that succeeded, and for nothing else.
Exits(o) == Goes(o, IF outer[o].record = "SUCCEEDED" THEN "SUCCEEDED" ELSE "FAILED")

Reread(o) ==
  /\ At(o, "reread")
  /\ \/ /\ IF objects[<<"attempt", o>>] = outer[o].record THEN Exits(o) ELSE Goes(o, "confirm")
        /\ UNCHANGED <<gateway, objects, late, images, finalizer, told, faults>>
     \/ Raises(o, "confirm")

\* The put raised: it may have landed; if not, a terminal takes the same slot.
Confirm(o) ==
  /\ At(o, "confirm")
  /\ \/ /\ IF objects[<<"attempt", o>>] = outer[o].record THEN Exits(o) ELSE Goes(o, "terminal")
        /\ UNCHANGED <<gateway, objects, late, images, finalizer, told, faults>>
     \/ Raises(o, "FAILED")

PutTerminal(o) ==
  /\ At(o, "terminal")
  /\ \/ /\ Create(<<"attempt", o>>, "TERMINAL") /\ Goes(o, "FAILED")
        /\ UNCHANGED <<gateway, late, images, finalizer, told, faults>>
     \/ Raises(o, "FAILED")

\* The build is stopped, times out or is lost.
Dies(o) == outer[o].pc \notin {"none", "SUCCEEDED", "FAILED"} /\ Raises(o, "FAILED")
------------------------------------------------------------------------------
(* The finalizer, its evidence, and the public success                      *)

Proceeds(o, k, place) == finalizer' = [finalizer EXCEPT ![o][k] = place]

\* CodeBuild announces the end of the build; EventBridge and Lambda may do so again.
Wake(o, k) ==
  /\ outer[o].pc \in {"SUCCEEDED", "FAILED"} /\ finalizer[o][k] = "none"
  /\ k > 1 => finalizer[o][k - 1] # "none"
  /\ Proceeds(o, k, "evidence")
  /\ UNCHANGED <<gateway, objects, late, images, outer, told, faults>>

\* Mutant: the record of the attempt stands for the build.
EvidencedByRecord(o) ==
  /\ Stored("mapping", o) /\ Stored("operation", o)
  /\ objects[<<"attempt", o>>] = "SUCCEEDED"
  /\ objects[ManifestKey(o)] = o

\* What CodeBuild says of the build, the record of the attempt and the manifest that
\* it names all agree with the operation.
Evidenced(o) ==
  /\ Stored("mapping", o) /\ Stored("operation", o)
  /\ outer[o].pc = "SUCCEEDED"
  /\ objects[<<"attempt", o>>] = "SUCCEEDED"
  /\ objects[ManifestKey(o)] = o

Examine(o, k) ==
  /\ finalizer[o][k] = "evidence"
  /\ Proceeds(o, k, IF Evidenced(o) THEN "qualification" ELSE "raised")
  /\ UNCHANGED <<gateway, objects, late, images, outer, told, faults>>

\* One that exists is as good: its name is the digest of its bytes.
Qualify(o, k) ==
  /\ finalizer[o][k] = "qualification"
  /\ Create(<<"qualification", o>>, o) /\ Proceeds(o, k, "look")
  /\ UNCHANGED <<gateway, late, images, outer, told, faults>>

Look(o, k) ==
  /\ finalizer[o][k] = "look"
  /\ Proceeds(o, k, IF Stored("public", o) THEN "done" ELSE "public")
  /\ UNCHANGED <<gateway, objects, late, images, outer, told, faults>>

\* One that has come to exist since the look raises, though it has the same bytes.
Show(o, k) ==
  /\ finalizer[o][k] = "public"
  /\ Create(<<"public", o>>, o)
  /\ Proceeds(o, k, IF Stored("public", o) THEN "raised" ELSE "done")
  /\ UNCHANGED <<gateway, late, images, outer, told, faults>>

FinalizerRaises(o, k) ==
  /\ finalizer[o][k] \notin {"none", "raised", "done"}
  /\ Fault /\ Proceeds(o, k, "raised")
  /\ late' = late \cup {<<<<n, o>>, o>> : n \in {finalizer[o][k]} \cap {"qualification", "public"}}
  /\ UNCHANGED <<gateway, objects, images, outer, told>>

\* services.status: it knows nothing of the qualification.
Status(o) ==
  /\ Stored("operation", o) /\ Stored("attempt", o)
  /\ told' = [told EXCEPT ![o] = @ \cup
       {IF objects[<<"attempt", o>>] = "SUCCEEDED" THEN "BUILD_SUCCEEDED" ELSE "FAILED"}]
  /\ UNCHANGED <<gateway, objects, late, images, outer, finalizer, faults>>
------------------------------------------------------------------------------
Gateway(o) == StartBuild(o) \/ Stores(o) \/ Answers(o)

Build(o) ==
  \/ Finds(o) \/ GivesUp(o) \/ Acquire(o) \/ Seal(o) \/ RunDotnet(o) \/ BuildImage(o)
  \/ PublishImage(o) \/ PublishManifest(o) \/ ReadManifest(o) \/ Probe(o)
  \/ Persist(o) \/ Reread(o) \/ Confirm(o) \/ PutTerminal(o)

Finalizer(o, k) == Examine(o, k) \/ Qualify(o, k) \/ Look(o, k) \/ Show(o, k)

Next ==
  \/ Land
  \/ \E o \in Operations :
       \/ Request(o) \/ Gateway(o) \/ GatewayRaises(o)
       \/ Build(o) \/ Dies(o) \/ Status(o)
       \/ \E k \in 1..MaxInvocations : Wake(o, k) \/ Finalizer(o, k) \/ FinalizerRaises(o, k)

\* What was started goes on, and the end of a build is announced once at least.
Fairness ==
  \A o \in Operations :
    /\ WF_vars(Gateway(o)) /\ WF_vars(Build(o)) /\ WF_vars(Wake(o, 1))
    /\ \A k \in 1..MaxInvocations : WF_vars(Finalizer(o, k))

Spec == Init /\ [][Next]_vars /\ Fairness
------------------------------------------------------------------------------
Values(k) == IF k[1] = "attempt" THEN Attempts ELSE Operations

Places ==
  {"none", "waiting", "source", "acquired", "dotnet", "image", "publish", "manifest", "readback",
   "probe", "result", "reread", "confirm", "terminal", "SUCCEEDED", "FAILED"}

TypeOK ==
  /\ gateway \in [Operations ->
       {"idle", "start", "operation", "mapping", "readback", "answered", "raised"}]
  /\ objects \in [Keys -> {None} \cup Attempts \cup Operations]
  /\ \A k \in Keys : objects[k] \in {None} \cup Values(k)
  /\ \A p \in late : p[1] \in Keys /\ p[2] \in Values(p[1])
  /\ images \subseteq Digests
  /\ outer \in [Operations -> [pc : Places, digest : Digests \cup {None},
                               record : {"SUCCEEDED", "FAILED", None}]]
  /\ finalizer \in [Operations -> [1..MaxInvocations ->
       {"none", "evidence", "qualification", "look", "public", "done", "raised"}]]
  /\ told \in [Operations -> SUBSET {"BUILD_SUCCEEDED", "FAILED"}]
  /\ faults \in 0..MaxFaults

Passed(o) ==
  /\ At(o, "SUCCEEDED") /\ objects[<<"attempt", o>>] = "SUCCEEDED"
  /\ outer[o].digest \in images /\ objects[ManifestKey(o)] = o

\* A release is public only if it is qualified, and qualified only if its build
\* succeeded, left a result that says so, and published the image and the one manifest
\* of its digest, whatever landed late, was repeated or raised half way
\* (finalizer.py:118-169); and the status neither takes back what it told of a build
\* nor tells of a failure when the release qualifies (services.py:103-124,
\* supervisor.py:474-491).  In states of the right type.
Qualified ==
  /\ TypeOK
  /\ \A o \in Operations :
       /\ Stored("public", o) => Stored("qualification", o)
       /\ Stored("qualification", o) => Passed(o) /\ "FAILED" \notin told[o]
       /\ told[o] # {"BUILD_SUCCEEDED", "FAILED"}

\* An operation that the gateway has answered ends in a public success or in the
\* record of a failure, though its build is started before it can find the operation;
\* unless some call raises, after which a build may be lost without a record
\* (services.py:28-37, runtime.py:122-127).
Released ==
  \A o \in Operations :
    gateway[o] = "answered" ~>
      \/ Stored("public", o)
      \/ objects[<<"attempt", o>>] \in {"FAILED", "TERMINAL"}
      \/ faults > 0
================================================================================
