----------------------------- MODULE RequestPath -----------------------------
(***************************************************************************)
(* The path of one delivery or emergency request: the workflow client      *)
(* (scripts/workflow_requests/client.py), the gateway Lambda that records  *)
(* it and starts the CodeBuild project (scripts/wp4d/gateway.py), and the  *)
(* build, which finds its operation by its own build id, runs it and       *)
(* publishes the public status (scripts/wp4d/runtime.py).                  *)
(*                                                                         *)
(* All of them meet in create-only S3 keys.  The module follows one        *)
(* operation id, which several clients may use, with equal or different    *)
(* requests; the keys of two operations are disjoint.  A key holds the     *)
(* name of the invocation that wrote it, from which its bytes follow; the  *)
(* build an invocation starts is named after the invocation.               *)
(*                                                                         *)
(* Any put may be lost or land late, any call may raise, an invocation or  *)
(* a build may stop anywhere, and invocations of the gateway may overlap:  *)
(* nothing here needs its reserved concurrency of 1.  What the controller  *)
(* does with the request is the subject of the other modules: here it      *)
(* reports any status, or raises.                                          *)
(***************************************************************************)
EXTENDS Naturals

CONSTANTS
  Invocations,  \* clients that invoke the gateway with the operation id
  Requests,     \* request bodies
  RequestOf,    \* the body each of them sends
  NoOne         \* the writer of an absent key

ASSUME PathAssumption ==
  /\ RequestOf \in [Invocations -> Requests]
  /\ NoOne \notin Invocations

\* operations/<op>, attempts/<op>, starts/<op> and public.json; builds/<id>,
\* of which there is one for each build, is the key "bridge".
Keys == {"operation", "attempt", "start", "public"}
Puts == (Keys \cup {"bridge"}) \X Invocations

\* The statuses a controller returns (delivery.py, journal.py).
Outcomes == {"SUCCESS", "FAILURE", "UNCERTAIN"}

VARIABLES
  stored,   \* the writer of each key
  bridges,  \* builds whose builds/<id> is stored
  puts,     \* puts that have not landed
  client,   \* where each client is, or what it concluded
  pc,       \* where each invocation of the gateway is, or what it answered
  build,    \* what became of the build each invocation started
  ran,      \* the writer of the envelope each build took its request from
  outcome   \* the status the controller of each build returned

s3   == <<stored, bridges, puts>>
vars == <<s3, client, pc, build, ran, outcome>>

Init ==
  /\ stored = [k \in Keys |-> NoOne]
  /\ bridges = {}
  /\ puts = {}
  /\ client = [i \in Invocations |-> "idle"]
  /\ pc = [i \in Invocations |-> "idle"]
  /\ build = [i \in Invocations |-> "none"]
  /\ ran = [i \in Invocations |-> NoOne]
  /\ outcome = [i \in Invocations |-> "none"]

\* The key is stored with the bytes that invocation i would write.
Agrees(k, i) == stored[k] # NoOne /\ RequestOf[stored[k]] = RequestOf[i]

------------------------------------------------------------------------------
(* Storage.  Objects.create puts with IfNoneMatch "*". *)

Send(k, i) == puts' = puts \cup {<<k, i>>}

InFlight(k, i) == <<k, i>> \in puts

LandPut(k, i) ==
  /\ InFlight(k, i)
  /\ puts' = puts \ {<<k, i>>}
  /\ IF k = "bridge"
       THEN bridges' = bridges \cup {i} /\ UNCHANGED stored
       ELSE /\ stored' = [stored EXCEPT ![k] = IF @ = NoOne THEN i ELSE @]
            /\ UNCHANGED bridges
  /\ UNCHANGED <<client, pc, build, ran, outcome>>

LosePut(k, i) ==
  /\ InFlight(k, i)
  /\ puts' = puts \ {<<k, i>>}
  /\ UNCHANGED <<stored, bridges, client, pc, build, ran, outcome>>

------------------------------------------------------------------------------
(* The workflow client: invokes once, then polls the public status only. *)

Invoke(i) ==
  /\ client[i] = "idle"
  /\ client' = [client EXCEPT ![i] = "invoked"]
  /\ pc' = [pc EXCEPT ![i] = "lookup"]
  /\ UNCHANGED <<s3, build, ran, outcome>>

\* The state in the answer is not looked at, only its operation id.
Hear(i) ==
  /\ client[i] = "invoked"
  /\ \/ pc[i] \in {"ACCEPTED", "UNCERTAIN"} /\ client' = [client EXCEPT ![i] = "polling"]
     \/ pc[i] = "raised" /\ client' = [client EXCEPT ![i] = "FAILED"]
  /\ UNCHANGED <<s3, pc, build, ran, outcome>>

Poll(i) ==
  /\ client[i] = "polling"
  /\ stored["public"] # NoOne
  /\ client' = [client EXCEPT ![i] =
                  IF outcome[stored["public"]] = "SUCCESS" THEN "SUCCESS" ELSE "FAILED"]
  /\ UNCHANGED <<s3, pc, build, ran, outcome>>

\* The answer is lost, or 1800 seconds pass without a public status.
GiveUp(i) ==
  /\ client[i] \in {"invoked", "polling"}
  /\ client' = [client EXCEPT ![i] = "FAILED"]
  /\ UNCHANGED <<s3, pc, build, ran, outcome>>

------------------------------------------------------------------------------
(* The gateway. *)

Reach(i, place) == pc' = [pc EXCEPT ![i] = place]

\* Mutant: a retained operation is not compared with this request.
LookupUncompared(i) ==
  /\ pc[i] = "lookup"
  /\ \/ stored["operation"] = NoOne /\ Send("operation", i) /\ Reach(i, "storing")
     \/ stored["operation"] # NoOne /\ Reach(i, "stored") /\ UNCHANGED puts
  /\ UNCHANGED <<stored, bridges, client, build, ran, outcome>>

Lookup(i) ==
  /\ pc[i] = "lookup"
  /\ \/ stored["operation"] = NoOne /\ Send("operation", i) /\ Reach(i, "storing")
     \/ Agrees("operation", i) /\ Reach(i, "stored") /\ UNCHANGED puts
  /\ UNCHANGED <<stored, bridges, client, build, ran, outcome>>

\* The put was answered; a put that was not the first has failed.
OperationStored(i) ==
  /\ pc[i] = "storing"
  /\ stored["operation"] = i
  /\ Reach(i, "stored")
  /\ UNCHANGED <<s3, client, build, ran, outcome>>

CheckAttempt(i) ==
  /\ pc[i] = "stored"
  /\ \/ stored["attempt"] = NoOne /\ Send("attempt", i) /\ Reach(i, "attempting")
     \/ Agrees("attempt", i) /\ Reach(i, "attempted") /\ UNCHANGED puts
  /\ UNCHANGED <<stored, bridges, client, build, ran, outcome>>

\* An attempt is retained: this invocation starts nothing and tells what became
\* of it.
CheckStart(i) ==
  /\ pc[i] = "attempted"
  /\ Reach(i, IF stored["start"] \in bridges THEN "ACCEPTED" ELSE "UNCERTAIN")
  /\ UNCHANGED <<s3, client, build, ran, outcome>>

\* Mutant: a put of the attempt that finds it stored with the same bytes counts
\* as done, as the put of the public status does.
AttemptRetained(i) ==
  /\ pc[i] = "attempting"
  /\ Agrees("attempt", i)
  /\ Reach(i, "calling")
  /\ build' = [build EXCEPT ![i] = "requested"]
  /\ UNCHANGED <<s3, client, ran, outcome>>

\* The attempt is stored by this invocation and read back: StartBuild is sent.
AttemptStored(i) ==
  /\ pc[i] = "attempting"
  /\ stored["attempt"] = i
  /\ Reach(i, "calling")
  /\ build' = [build EXCEPT ![i] = "requested"]
  /\ UNCHANGED <<s3, client, ran, outcome>>

StartAnswered(i) ==
  /\ pc[i] = "calling"
  /\ build[i] \notin {"requested", "refused"}
  /\ Send("bridge", i)
  /\ Reach(i, "bridging")
  /\ UNCHANGED <<stored, bridges, client, build, ran, outcome>>

\* Mutant: the start is recorded whether or not the bridge was stored.
BridgeAssumed(i) ==
  /\ pc[i] = "bridging"
  /\ ~ InFlight("bridge", i)
  /\ Send("start", i)
  /\ Reach(i, "starting")
  /\ UNCHANGED <<stored, bridges, client, build, ran, outcome>>

BridgeStored(i) ==
  /\ pc[i] = "bridging"
  /\ i \in bridges
  /\ Send("start", i)
  /\ Reach(i, "starting")
  /\ UNCHANGED <<stored, bridges, client, build, ran, outcome>>

StartStored(i) ==
  /\ pc[i] = "starting"
  /\ stored["start"] = i
  /\ Reach(i, "ACCEPTED")
  /\ UNCHANGED <<s3, client, build, ran, outcome>>

\* A read or a call fails or times out, a put is refused, a comparison rejects,
\* or the invocation reaches its own timeout.
Raise(i) ==
  /\ pc[i] \notin {"idle", "ACCEPTED", "UNCERTAIN", "raised"}
  /\ Reach(i, "raised")
  /\ UNCHANGED <<s3, client, build, ran, outcome>>

------------------------------------------------------------------------------
(* CodeBuild and the build. *)

Become(i, state) == build' = [build EXCEPT ![i] = state]

Queue(i) ==
  /\ build[i] = "requested"
  /\ \/ Become(i, "queued")
     \/ Become(i, "refused")
  /\ UNCHANGED <<s3, client, pc, ran, outcome>>

\* _wakeup(): the build finds its operation, and in it its request, by its id.
Wake(i) ==
  /\ build[i] = "queued"
  /\ i \in bridges
  /\ stored["operation"] # NoOne
  /\ ran' = [ran EXCEPT ![i] = stored["operation"]]
  /\ Become(i, "running")
  /\ UNCHANGED <<s3, client, pc, outcome>>

\* 30 seconds pass without a bridge, or the controller or the build stops.
Fail(i) ==
  /\ build[i] \in {"queued", "running", "publishing"}
  /\ Become(i, "failed")
  /\ UNCHANGED <<s3, client, pc, ran, outcome>>

Conclude(i) ==
  /\ build[i] = "running"
  /\ \E status \in Outcomes : outcome' = [outcome EXCEPT ![i] = status]
  /\ Send("public", i)
  /\ Become(i, "publishing")
  /\ UNCHANGED <<stored, bridges, client, pc, ran>>

\* A public status that is already stored is as good as this one if it is equal.
Published(i) ==
  /\ build[i] = "publishing"
  /\ stored["public"] # NoOne
  /\ outcome[stored["public"]] = outcome[i]
  /\ Become(i, "done")
  /\ UNCHANGED <<s3, client, pc, ran, outcome>>

------------------------------------------------------------------------------
Storage == \E p \in puts : LandPut(p[1], p[2]) \/ LosePut(p[1], p[2])

Client(i) == Invoke(i) \/ Hear(i) \/ Poll(i) \/ GiveUp(i)

Gateway(i) ==
  \/ Lookup(i)
  \/ OperationStored(i)
  \/ CheckAttempt(i)
  \/ CheckStart(i)
  \/ AttemptStored(i)
  \/ StartAnswered(i)
  \/ BridgeStored(i)
  \/ StartStored(i)
  \/ Raise(i)

Build(i) == Queue(i) \/ Wake(i) \/ Fail(i) \/ Conclude(i) \/ Published(i)

Next == Storage \/ \E i \in Invocations : Client(i) \/ Gateway(i) \/ Build(i)

Spec == Init /\ [][Next]_vars

------------------------------------------------------------------------------
(* Properties. *)

Answers == {"ACCEPTED", "UNCERTAIN", "raised"}
Places  == {"idle", "lookup", "storing", "stored", "attempting", "attempted", "calling",
            "bridging", "starting"} \cup Answers

\* Every variable has its type; in particular only statuses that a controller
\* returned can become public.
TypeOK ==
  /\ stored \in [Keys -> Invocations \cup {NoOne}]
  /\ bridges \subseteq Invocations
  /\ puts \subseteq Puts
  /\ client \in [Invocations -> {"idle", "invoked", "polling", "SUCCESS", "FAILED"}]
  /\ pc \in [Invocations -> Places]
  /\ build \in [Invocations -> {"none", "requested", "refused", "queued", "running",
                                "publishing", "done", "failed"}]
  /\ ran \in [Invocations -> Invocations \cup {NoOne}]
  /\ outcome \in [Invocations -> Outcomes \cup {"none"}]

\* However many clients use an operation id, and whatever is lost, delayed or
\* repeated, StartBuild is sent at most once for it (the conditional attempt
\* record, gateway.py:79-83).
OneStart ==
  \A i, j \in Invocations : build[i] # "none" /\ build[j] # "none" => i = j

\* A client that reports success has its own request to show for it: a build ran
\* that very request and its controller returned SUCCESS (the client reads only
\* a public status, to which another client's request may have led).
SuccessIsOwn ==
  \A i \in Invocations : client[i] = "SUCCESS" =>
    \E b \in Invocations : /\ ran[b] # NoOne
                           /\ RequestOf[ran[b]] = RequestOf[i]
                           /\ outcome[b] = "SUCCESS"

\* ACCEPTED means that the build exists and can find the request: both records
\* it looks up are stored, and the request in them is the one that was accepted.
AcceptedIsFindable ==
  \A i \in Invocations : pc[i] = "ACCEPTED" =>
    /\ Agrees("operation", i)
    /\ \E b \in bridges : build[b] \notin {"none", "requested", "refused"}
==============================================================================
