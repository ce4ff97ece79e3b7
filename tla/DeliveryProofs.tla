---------------------------- MODULE DeliveryProofs ----------------------------
(***************************************************************************)
(* Proofs about Delivery, for any number of faults: the delivery is a       *)
(* StagedEffects, and it gives the traffic, and takes the former colour     *)
(* away, only while the cohort that E3 accepted is running.                 *)
(*                                                                         *)
(* Neither is inductive.  That a mutation is sent once, in its turn and     *)
(* after the earlier ones took effect follows from what the journal says of *)
(* the calls (JournalTells) and from where the invocation may stand while   *)
(* something it sent is in doubt (PlaceTells): nowhere it could send the    *)
(* next.  That the cohort is the accepted one needs that the second pass    *)
(* prepares nothing again (PassTells), and that a receipt found again was   *)
(* written of a cohort that still runs, or that ECS has moved (CohortTells).*)
(***************************************************************************)
EXTENDS Delivery, TLAPS

USE FaultsAssumption

Sent == Len(calls)

\* A put that was made, whether or not its record is there yet.
Asked(kind, scope) == <<kind, scope>> \in records \cup late

InTurn == Sent <= 7 /\ \A i \in 1 .. Sent : calls[i] = i

AllLanded == landed = 1 .. Sent

\* Where the stage is between its attempt and the answer of its call.
Underway == {"guard", "call", "observe"}

\* Where the invocation does not know whether what it sent took effect.
InDoubt == \/ pc \in {"observe", "recover", "recheck"}
           \/ pc = "raised" /\ (error.kind = "uncertain" \/ pass = 2)
           \/ verdict = "UNCERTAIN"

\* Where an attempt may be on record, or late, whose mutation was not sent.
Unsettled == Underway \cup {"raised", "done", "recover", "recheck", "readback"}

\* What the records say of the calls, and of each other.
JournalTells ==
  /\ InTurn
  /\ landed \subseteq 1 .. Sent
  /\ flight \subseteq (1 .. Sent) \ landed
  /\ \A s \in STAGES :
       /\ <<"ack", s>> \notin late
       /\ Has("ack", s) => s \in landed
       /\ Asked("observed", s) => Has("ack", s)
       /\ Asked("attempt", s) => Has("plan", s)
       /\ <<"attempt", s>> \in late => s > Sent
       /\ s <= Sent => Has("attempt", s)
       /\ Asked("success", Operation) => Has("observed", s)

\* What the place of the invocation says of the calls.
PlaceTells ==
  /\ AllLanded \/ InDoubt
  /\ pc \notin Unsettled => \A s \in STAGES : Asked("attempt", s) => s <= Sent
  /\ pc \in Underway =>
       Has("attempt", stage) /\ \A s \in STAGES : Asked("attempt", s) => s <= stage
  /\ pc \in {"guard", "call"} => <<"attempt", stage>> \notin late
  /\ pc = "attempt" => Has("plan", stage)
  /\ pc \in {"before", "plan", "attempt", "guard", "call"} => stage = Sent + 1
  /\ pc = "effect" => stage <= Sent + 1 /\ (pass = 1 => stage = Sent + 1)
  /\ pc = "observe" => Sent \in {stage - 1, stage} /\ 1 .. (stage - 1) \subseteq landed
  /\ pc = "evidence" => Has("ack", stage)
  /\ pc \in {"evidence", "after"} => stage <= Sent /\ (pass = 1 => stage = Sent)
  /\ pc \in {"startup", "gate", "final"} => stage = Start /\ Sent = Start
  /\ pc = "before" => stage \in Preparation
  /\ pc \in {"before", "startup", "gate", "final", "owned"} => pass = 1
  /\ pass = 1 /\ pc \in {"owned", "accept", "reconcile", "resume"} => Sent = 0 /\ stage = Register
  /\ pc \in {"recover", "recheck", "readback", "topology"} => pass = 2
  /\ pc = "written" => Sent = 7
  /\ verdict = "none" <=> pc # "done"
  /\ verdict = "SUCCESS" => Sent = 7 /\ AllLanded
  /\ verdict = "FAILURE" => Switch > Sent
  /\ preparing \in {0, Sent + 1}

\* Each pass has its own way, and both switch for the cohort that E3 accepted.
PassTells ==
  /\ pass = 1 => \A s \in STAGES : Asked("plan", s) => s <= stage
  /\ pass = 2 => Has("attempt", Switch) /\ stage \notin Preparation
  /\ pass = 2 \/ stage >= Switch \/ pc = "final" => startup = accepted
  /\ pass = 1 /\ Asked("success", Operation) => pc \in {"written", "raised", "done"}

\* The accepted cohort runs, or ECS moved since the last snapshot.
Served == fresh => Prepared(1) /\ service.cohort = accepted

\* From the receipt on, wherever it is found again.
Reread == {"recover", "recheck", "readback", "topology", "accept", "reconcile", "resume"}

CohortTells ==
  /\ pc = "call" /\ stage >= Switch => Served
  /\ pc = "written" \/ verdict = "SUCCESS" => Served
  /\ Asked("success", Operation) /\ (pass = 1 \/ pc \in Reread) => Served

DeliveryInv == TypeOK /\ JournalTells /\ PlaceTells /\ PassTells /\ CohortTells
-------------------------------------------------------------------------------
(* What a step does to the records and to the place of the invocation.      *)

Errors == [kind : {"none", "plain", "journal", "unwritten", "uncertain"},
           scope : {Operation} \cup STAGES]

\* The part of the type that every step of the runner changes.
Typed ==
  /\ records \subseteq Key /\ late \subseteq Key
  /\ faults \in 0 .. MaxFaults
  /\ pc \in Places /\ stage \in STAGES /\ error \in Errors

\* Only these keys are put, and what was late may land.
Stores(keys) ==
  /\ records \subseteq records' /\ records' \subseteq records \cup late \cup keys
  /\ late' \subseteq late \cup keys

Raises == pc' = "raised" /\ stage' = stage /\ error' \in Errors

Goes(place, s) == pc' = place /\ stage' = s /\ error' = error

LEMMA StageNumbers ==
  /\ STAGES = 1 .. 7 /\ STAGES \subseteq Nat
  /\ {Register, Drain, Attach, Start, Switch, Candidate, Cleanup} = STAGES
  BY DEF STAGES, Register, Drain, Attach, Start, Switch, Candidate, Cleanup

LEMMA Keys ==
  /\ \A s \in STAGES : \A kind \in {"plan", "attempt", "ack", "observed"} : <<kind, s>> \in Key
  /\ \A kind \in {"intent", "registered", "startup", "activation", "success"} :
       <<kind, Operation>> \in Key
  /\ \A key \in Key : key[2] \in {Operation} \cup STAGES
  BY DEF Key

LEMMA FaultTyped ==
  ASSUME TypeOK, Fault
  PROVE  faults' \in 0 .. MaxFaults
  BY DEF TypeOK, Fault

LEMMA TypedNow ==
  ASSUME TypeOK
  PROVE  Typed
  BY DEF TypeOK, Typed, Errors

LEMMA RaiseMoves ==
  ASSUME NEW kind \in {"none", "plain", "journal", "unwritten", "uncertain"},
         NEW scope \in {Operation} \cup STAGES, Raise(kind, scope)
  PROVE  Raises /\ error'.kind = kind
  BY DEF Raise, Raises, Errors

LEMMA PutMoves ==
  ASSUME TypeOK, NEW key \in Key, NEW place \in Places, NEW s \in STAGES, Put(key, place, s)
  PROVE  /\ Typed' /\ Stores({key})
         /\ \/ Goes(place, s) /\ key \in records' /\ late' = late
            \/ Raises
<1>1. key[2] \in {Operation} \cup STAGES
  BY Keys
<1>2. CASE Goto(place, s) /\ records' = records \cup {key} /\ UNCHANGED <<late, faults>>
  BY <1>2, TypedNow DEF Goto, Typed, Stores, Goes
<1>3. CASE /\ Fault /\ records' \in {records, records \cup {key}}
           /\ Raise("journal", key[2]) /\ UNCHANGED late
  <2>1. Raises
    BY <1>1, <1>3, RaiseMoves
  <2>2. Stores({key})
    BY <1>3 DEF Stores
  <2> QED
    BY <1>3, <2>1, <2>2, TypedNow, FaultTyped DEF Typed, Raises, Places
<1>4. CASE /\ Fault /\ key \notin records /\ late' \in {late, late \cup {key}}
           /\ Raise("unwritten", key[2]) /\ UNCHANGED records
  <2>1. Raises
    BY <1>1, <1>4, RaiseMoves
  <2>2. Stores({key})
    BY <1>4 DEF Stores
  <2> QED
    BY <1>4, <2>1, <2>2, TypedNow, FaultTyped DEF Typed, Raises, Places
<1> QED
  BY <1>2, <1>3, <1>4 DEF Put

LEMMA UnreadableMoves ==
  ASSUME TypeOK, NEW scopes \in SUBSET ({Operation} \cup STAGES), Unreadable(scopes),
         UNCHANGED storage
  PROVE  Typed' /\ Stores({}) /\ Raises
<1>1. Raises
  <2>1. CASE Raise("plain", Operation)
    BY <2>1, RaiseMoves
  <2>2. CASE \E scope \in scopes : Raise("journal", scope)
    <3>1. PICK scope \in scopes : Raise("journal", scope)
      BY <2>2
    <3> QED
      BY <3>1, RaiseMoves
  <2> QED
    BY <2>1, <2>2 DEF Unreadable
<1>2. Fault
  BY DEF Unreadable
<1> QED
  BY <1>1, <1>2, TypedNow, FaultTyped DEF Typed, Stores, Raises, Places, storage

LEMMA GotoMoves ==
  ASSUME TypeOK, NEW place \in Places, NEW s \in STAGES, Goto(place, s),
         UNCHANGED <<storage, faults>>
  PROVE  Typed' /\ Stores({}) /\ Goes(place, s)
  BY TypedNow DEF Goto, Goes, Typed, Stores, storage

LEMMA PlainMoves ==
  ASSUME TypeOK, Raise("plain", Operation), UNCHANGED <<storage, faults>>
  PROVE  Typed' /\ Stores({}) /\ Raises
<1>1. Raises
  BY RaiseMoves
<1> QED
  BY <1>1, TypedNow DEF Raises, Typed, Stores, storage, Places

\* The records once put stay put: what Asked and Has say of the next state.
LEMMA AskedGrows ==
  ASSUME NEW keys, Stores(keys), NEW kind, NEW scope
  PROVE  /\ Has(kind, scope) => Has(kind, scope)'
         /\ Asked(kind, scope)' => Asked(kind, scope) \/ <<kind, scope>> \in keys
         /\ Has(kind, scope)' => Asked(kind, scope) \/ <<kind, scope>> \in keys
  BY DEF Stores, Has, Asked
-------------------------------------------------------------------------------
(* The journal.                                                             *)

\* Puts keep the journal's word if what they put is true.
LEMMA JournalKept ==
  ASSUME TypeOK, JournalTells, NEW keys, Stores(keys), UNCHANGED <<calls, landed, flight>>,
         \A s \in STAGES :
           /\ <<"ack", s>> \notin keys
           /\ <<"observed", s>> \in keys => Has("ack", s)
           /\ <<"attempt", s>> \in keys => Has("plan", s) /\ s > Sent
           /\ <<"success", Operation>> \in keys => Has("observed", s)
  PROVE  JournalTells'
<1>1. InTurn' /\ Sent' = Sent
  BY DEF JournalTells, InTurn, Sent
<1>2. landed' \subseteq 1 .. Sent' /\ flight' \subseteq (1 .. Sent') \ landed'
  BY <1>1 DEF JournalTells
<1>3. ASSUME NEW s \in STAGES
      PROVE  /\ <<"ack", s>> \notin late'
             /\ Has("ack", s)' => s \in landed'
             /\ Asked("observed", s)' => Has("ack", s)'
             /\ Asked("attempt", s)' => Has("plan", s)'
             /\ <<"attempt", s>> \in late' => s > Sent'
             /\ s <= Sent' => Has("attempt", s)'
             /\ Asked("success", Operation)' => Has("observed", s)'
  BY <1>1, <1>3 DEF JournalTells, Stores, Has, Asked
<1> QED
  BY <1>1, <1>2, <1>3 DEF JournalTells

LEMMA SuccessLands ==
  ASSUME TypeOK, JournalTells, Asked("success", Operation)
  PROVE  Sent = 7 /\ AllLanded
<1>1. 1 .. 7 \subseteq landed
  BY StageNumbers DEF JournalTells, Asked, Has
<1>2. landed \subseteq 1 .. Sent /\ Sent \in Nat /\ Sent <= 7
  BY DEF JournalTells, InTurn, TypeOK, Sent
<1>3. 7 \in 1 .. Sent
  BY <1>1, <1>2
<1>4. Sent = 7
  BY <1>2, <1>3
<1> QED
  BY <1>1, <1>2, <1>4 DEF AllLanded

LEMMA TypeKept ==
  ASSUME TypeOK, Typed', UNCHANGED <<service, flight, landed, calls, facts>>,
         pass' \in {1, 2}, preparing' \in {0} \cup STAGES, seen' \in Services, startup' \in Nat,
         accepted' \in Nat, fresh' \in BOOLEAN,
         verdict' \in {"none", "SUCCESS", "FAILURE", "UNCERTAIN"}
  PROVE  TypeOK'
  BY DEF TypeOK, Typed, Errors, facts
-------------------------------------------------------------------------------
(* Raising, and the world.                                                  *)

LEMMA RaisedKeeps ==
  ASSUME DeliveryInv, NEW keys, Stores(keys), Raises, pc # "done",
         UNCHANGED <<calls, landed, flight, pass, verdict>>, preparing' \in {0, Sent + 1},
         AllLanded \/ error'.kind = "uncertain" \/ pass = 2,
         pass = 1 => \A s \in STAGES : <<"plan", s>> \in keys => s <= stage,
         pass = 2 \/ stage >= Switch => startup' = accepted',
         pass = 1 /\ Asked("success", Operation)' => Served'
  PROVE  PlaceTells' /\ PassTells' /\ CohortTells'
<1>1. verdict = "none" /\ verdict' = "none" /\ pc' = "raised" /\ Sent' = Sent
  BY DEF DeliveryInv, PlaceTells, Raises, Sent
<1>2. PlaceTells'
  BY <1>1 DEF PlaceTells, Unsettled, Underway, InDoubt, AllLanded
<1>3. PassTells'
  <2>1. pass' = 1 => \A s \in STAGES : Asked("plan", s)' => s <= stage'
    BY AskedGrows DEF DeliveryInv, PassTells, Raises
  <2>2. pass' = 2 => Has("attempt", Switch)' /\ stage' \notin Preparation
    BY AskedGrows DEF DeliveryInv, PassTells, Raises
  <2> QED
    BY <1>1, <2>1, <2>2 DEF PassTells, Raises
<1>4. CohortTells'
  BY <1>1 DEF CohortTells, Reread
<1> QED
  BY <1>2, <1>3, <1>4

\* Nothing moves but the world's own variables, and what was late.
LEMMA LateLands ==
  ASSUME DeliveryInv, Stores({}),
         UNCHANGED <<calls, landed, flight, pc, stage, error, local, verdict>>
  PROVE  JournalTells' /\ PlaceTells' /\ PassTells'
<1>1. JournalTells'
  BY JournalKept DEF DeliveryInv
<1>2. \A kind, scope : /\ Has(kind, scope) => Has(kind, scope)'
                       /\ Asked(kind, scope)' => Asked(kind, scope)
  BY DEF Stores, Has, Asked
<1>3. PlaceTells'
  <2>1. late' \subseteq late
    BY DEF Stores
  <2> QED
    BY <1>2, <2>1 DEF DeliveryInv, PlaceTells, AllLanded, InDoubt, Sent, local
<1>4. PassTells'
  BY <1>2 DEF DeliveryInv, PassTells, local
<1> QED
  BY <1>1, <1>3, <1>4

LEMMA WorldKeeps ==
  ASSUME DeliveryInv, World
  PROVE  DeliveryInv'
<1> USE DEF storage, cloud, facts, local
<1>1. CASE Converge \/ Replace
  <2>1. Stores({}) /\ fresh' = FALSE
    BY <1>1 DEF Converge, Replace, Stores
  <2>2. JournalTells' /\ PlaceTells' /\ PassTells'
    BY <1>1, <2>1, LateLands DEF Converge, Replace
  <2>3. CohortTells'
    BY <2>1 DEF CohortTells, Served
  <2>4. service' \in Services /\ faults' \in 0 .. MaxFaults
    <3>1. service \in Services /\ faults \in 0 .. MaxFaults /\ TypeOK
      BY DEF DeliveryInv, TypeOK
    <3>2. CASE Converge
      <4>1. [service EXCEPT !.settled = TRUE, !.cohort = 0] \in Services
        BY <3>1 DEF Services
      <4>2. service.last + 1 \in Nat
        BY <3>1 DEF Services
      <4>3. [service EXCEPT !.settled = TRUE, !.cohort = service.last + 1, !.last = @ + 1] \in Services
        BY <3>1, <4>2 DEF Services
      <4> QED
        BY <3>1, <3>2, <4>1, <4>3 DEF Converge
    <3>3. CASE Replace
      BY <3>1, <3>3, FaultTyped DEF Replace, Services
    <3> QED
      BY <1>1, <3>2, <3>3
  <2>5. TypeOK'
    BY <1>1, <2>1, <2>4 DEF DeliveryInv, TypeOK, Converge, Replace
  <2> QED
    BY <2>2, <2>3, <2>5 DEF DeliveryInv
<1>2. CASE Revoke \/ Expire
  <2>1. Stores({})
    BY <1>2 DEF Revoke, Expire, Stores
  <2>2. JournalTells' /\ PlaceTells' /\ PassTells'
    BY <1>2, <2>1, LateLands DEF Revoke, Expire
  <2>3. CohortTells'
    BY <1>2 DEF Revoke, Expire, DeliveryInv, CohortTells, Served, Prepared, Asked
  <2>4. TypeOK'
    BY <1>2, FaultTyped DEF DeliveryInv, TypeOK, Revoke, Expire
  <2> QED
    BY <2>2, <2>3, <2>4 DEF DeliveryInv
<1>3. ASSUME NEW key \in Key, LandPut(key) PROVE DeliveryInv'
  <2>1. Stores({})
    BY <1>3 DEF LandPut, Stores
  <2>2. JournalTells' /\ PlaceTells' /\ PassTells'
    BY <1>3, <2>1, LateLands DEF LandPut
  <2>3. Asked("success", Operation)' => Asked("success", Operation)
    BY <2>1 DEF Stores, Asked
  <2>4. CohortTells'
    BY <1>3, <2>3 DEF LandPut, DeliveryInv, CohortTells, Served, Prepared
  <2>5. TypeOK'
    BY <1>3 DEF DeliveryInv, TypeOK, LandPut
  <2> QED
    BY <2>2, <2>4, <2>5 DEF DeliveryInv
<1>4. ASSUME NEW s \in STAGES, LandCall(s) PROVE DeliveryInv'
  <2>1. s \in 1 .. Sent /\ s \notin landed /\ ~ AllLanded
    BY <1>4 DEF LandCall, DeliveryInv, JournalTells, AllLanded
  <2>2. InDoubt /\ ~ Asked("success", Operation)
    BY <2>1, SuccessLands DEF DeliveryInv, PlaceTells
  <2>3. JournalTells'
    <3>1. InTurn' /\ Sent' = Sent
      BY <1>4 DEF LandCall, DeliveryInv, JournalTells, InTurn, Sent
    <3> QED
      BY <1>4, <2>1, <3>1 DEF LandCall, DeliveryInv, JournalTells, Has, Asked
  <2>4. PlaceTells'
    BY <1>4, <2>1, <2>2 DEF LandCall, DeliveryInv, PlaceTells, InDoubt, AllLanded, Sent, Has, Asked
  <2>5. PassTells'
    BY <1>4 DEF LandCall, DeliveryInv, PassTells, Has, Asked
  <2>6. CohortTells'
    <3>1. pc \notin {"call", "written"} /\ verdict # "SUCCESS"
      BY <2>1, <2>2 DEF InDoubt, DeliveryInv, PlaceTells
    <3> QED
      BY <1>4, <2>2, <3>1 DEF LandCall, CohortTells, Asked
  <2>7. TypeOK'
    <3>1. Told(s) \in Services
      BY <1>4 DEF DeliveryInv, TypeOK, Services, Told
    <3> QED
      BY <1>4, <3>1 DEF LandCall, DeliveryInv, TypeOK
  <2> QED
    BY <2>3, <2>4, <2>5, <2>6, <2>7 DEF DeliveryInv
<1> QED
  BY <1>1, <1>2, <1>3, <1>4 DEF World
-------------------------------------------------------------------------------
(* The ends of a pass.                                                      *)

\* A put of one key makes nothing else asked for.
LEMMA OnlyAsked ==
  ASSUME NEW k, NEW z, Stores({<<k, z>>})
  PROVE  \A kind, scope : /\ Has(kind, scope) => Has(kind, scope)'
                          /\ Asked(kind, scope)' => Asked(kind, scope) \/ (kind = k /\ scope = z)
  BY DEF Stores, Has, Asked

LEMMA NoneAsked ==
  ASSUME Stores({})
  PROVE  \A kind, scope : /\ Has(kind, scope) => Has(kind, scope)'
                          /\ Asked(kind, scope)' => Asked(kind, scope)
  BY DEF Stores, Has, Asked

\* Where a step neither finds a receipt nor is about to call.
LEMMA CohortKept ==
  ASSUME DeliveryInv, pc \notin {"done", "written", "raised"}, UNCHANGED <<pass, verdict>>,
         pc' \notin {"call", "written"},
         Asked("success", Operation)' => Asked("success", Operation),
         pc' \in Reread => pc \in Reread /\ UNCHANGED <<service, fresh, accepted>>
  PROVE  CohortTells'
<1>1. verdict' = "none"
  BY DEF DeliveryInv, PlaceTells
<1>2. Asked("success", Operation)' /\ (pass' = 1 \/ pc' \in Reread) => Served'
  BY DEF DeliveryInv, PassTells, CohortTells, Served, Prepared
<1> QED
  BY <1>1, <1>2 DEF CohortTells

LEMMA ReturnKeeps ==
  ASSUME DeliveryInv, NEW status \in {"SUCCESS", "FAILURE", "UNCERTAIN"}, Return(status),
         pc # "done", UNCHANGED <<storage, cloud, facts, pass, seen, startup, accepted, fresh>>,
         faults' \in 0 .. MaxFaults, preparing' = preparing,
         status = "SUCCESS" => Sent = 7 /\ AllLanded /\ Served,
         status = "FAILURE" => AllLanded /\ Switch > Sent
  PROVE  DeliveryInv'
<1> USE DEF storage, cloud, facts
<1>1. pc' = "done" /\ verdict' = status /\ UNCHANGED <<stage, error>> /\ Stores({})
  BY DEF Return, Stores
<1>2. TypeOK'
  BY <1>1 DEF DeliveryInv, TypeOK, Places
<1>3. JournalTells'
  BY <1>1, JournalKept DEF DeliveryInv
<1>4. PlaceTells'
  BY <1>1 DEF DeliveryInv, PlaceTells, InDoubt, Unsettled, Underway, AllLanded, Sent
<1>5. PassTells'
  BY <1>1 DEF DeliveryInv, PassTells, Asked, Has
<1>6. CohortTells'
  BY <1>1 DEF DeliveryInv, CohortTells, Served, Prepared, Asked, Reread
<1> QED
  BY <1>2, <1>3, <1>4, <1>5, <1>6 DEF DeliveryInv

LEMMA OwnedKeeps ==
  ASSUME DeliveryInv, Owned
  PROVE  DeliveryInv'
<1> USE DEF storage, cloud, facts, local
<1>1. pc = "owned"
  BY DEF Owned
<1>2. CASE Fault /\ Return("UNCERTAIN")
  <2>1. faults' \in 0 .. MaxFaults
    BY <1>2, FaultTyped DEF DeliveryInv
  <2> QED
    BY <1>1, <1>2, <2>1, ReturnKeeps DEF Owned
<1>3. CASE UNCHANGED <<faults, verdict>> /\ Goto("accept", Register)
  <2>1. Stores({}) /\ Goes("accept", Register)
    BY <1>3 DEF Owned, Stores, Goto, Goes
  <2>2. TypeOK'
    BY <1>3, <2>1, StageNumbers DEF Owned, Goes, DeliveryInv, TypeOK, Places
  <2>3. JournalTells'
    BY <2>1, JournalKept DEF DeliveryInv, Owned
  <2>4. PlaceTells'
    BY <1>1, <1>3, <2>1 DEF Owned, Goes, DeliveryInv, PlaceTells, InDoubt, Unsettled, Underway,
                            AllLanded, Sent, Asked, Has
  <2>5. PassTells'
    BY <1>1, <1>3, <2>1 DEF Owned, Goes, DeliveryInv, PlaceTells, PassTells, Asked, Has,
                            Register, Switch
  <2>6. CohortTells'
    BY <1>1, <1>3, <2>1 DEF Owned, Goes, DeliveryInv, PassTells, PlaceTells, CohortTells, Asked
  <2> QED
    BY <2>2, <2>3, <2>4, <2>5, <2>6 DEF DeliveryInv
<1> QED
  BY <1>2, <1>3 DEF Owned

LEMMA WrittenKeeps ==
  ASSUME DeliveryInv, Written
  PROVE  DeliveryInv'
<1>1. pc = "written" /\ Sent = 7 /\ AllLanded /\ Served
  BY DEF Written, DeliveryInv, PlaceTells, CohortTells, InDoubt
<1> QED
  BY <1>1, ReturnKeeps DEF Written, local, DeliveryInv, TypeOK

LEMMA BlockedKeeps ==
  ASSUME DeliveryInv, Blocked
  PROVE  DeliveryInv'
  BY ReturnKeeps DEF Blocked, local, DeliveryInv, TypeOK

LEMMA ConcludeKeeps ==
  ASSUME DeliveryInv, Conclude
  PROVE  DeliveryInv'
<1> USE DEF storage, cloud, facts
<1>1. pc = "raised" /\ pass = 1 /\ verdict = "none" /\ Sent \in Nat /\ preparing \in {0, Sent + 1}
  BY DEF Conclude, DeliveryInv, TypeOK, PlaceTells, Sent
<1>2. CASE ~ Uncertain /\ Return("FAILURE") /\ UNCHANGED <<faults, pass, preparing>>
  <2>1. AllLanded
    BY <1>1, <1>2 DEF Uncertain, DeliveryInv, PlaceTells, InDoubt
  <2>2. Switch > Sent
    <3>1. SUFFICES ASSUME Switch <= Sent PROVE FALSE
      BY <1>1, StageNumbers
    <3>2. Switch \in Attempted /\ preparing # Switch
      BY <1>1, <3>1, StageNumbers DEF DeliveryInv, JournalTells, Attempted, Switch
    <3> QED
      BY <1>2, <3>2 DEF Uncertain
  <2> QED
    BY <1>1, <1>2, <2>1, <2>2, ReturnKeeps DEF Conclude, DeliveryInv, TypeOK
<1>3. CASE Return("UNCERTAIN") /\ UNCHANGED <<pass, preparing>> /\ (UNCHANGED faults \/ Fault)
  <2>1. faults' \in 0 .. MaxFaults
    BY <1>3, FaultTyped DEF DeliveryInv, TypeOK
  <2> QED
    BY <1>1, <1>3, <2>1, ReturnKeeps DEF Conclude
<1>4. CASE /\ Switch \in Attempted /\ Goto("recover", Register) /\ pass' = 2 /\ preparing' = 0
           /\ UNCHANGED <<faults, verdict>>
  <2>1. Stores({}) /\ Goes("recover", Register) /\ Has("attempt", Switch)
    BY <1>4 DEF Conclude, Stores, Goto, Goes, Attempted
  <2>2. TypeOK'
    BY <1>4, <2>1, StageNumbers DEF Conclude, Goes, DeliveryInv, TypeOK, Places
  <2>3. JournalTells'
    BY <2>1, JournalKept DEF DeliveryInv, Conclude
  <2>4. PlaceTells'
    BY <1>1, <1>4, <2>1 DEF Conclude, Goes, DeliveryInv, PlaceTells, InDoubt, Unsettled, Underway,
                            AllLanded, Sent
  <2>5. startup = accepted
    <3>1. Has("plan", Switch) /\ stage >= Switch
      BY <1>1, <2>1, StageNumbers DEF DeliveryInv, JournalTells, PassTells, Asked, Has
    <3> QED
      BY <3>1 DEF DeliveryInv, PassTells
  <2>6. PassTells'
    BY <1>4, <2>1, <2>5 DEF Conclude, Goes, PassTells, Has, Preparation, Register, Drain, Attach, Start
  <2>7. CohortTells'
    BY <1>1, <1>4, <2>1 DEF Conclude, Goes, DeliveryInv, CohortTells, Served, Prepared, Asked
  <2> QED
    BY <2>2, <2>3, <2>4, <2>6, <2>7 DEF DeliveryInv
<1> QED
  BY <1>2, <1>3, <1>4 DEF Conclude
-------------------------------------------------------------------------------
(* Accepting, and finding again what was done.                              *)

\* What is put is true: see JournalTells and PassTells.
Truthful(keys) ==
  \A s \in STAGES :
    /\ <<"ack", s>> \notin keys
    /\ <<"observed", s>> \in keys => Has("ack", s)
    /\ <<"attempt", s>> \in keys => Has("plan", s) /\ s > Sent
    /\ <<"plan", s>> \in keys => s <= stage
    /\ <<"success", Operation>> \in keys => Has("observed", s)

LEMMA TruthfulKept ==
  ASSUME TypeOK, JournalTells, NEW keys, Stores(keys), Truthful(keys),
         UNCHANGED <<calls, landed, flight>>
  PROVE  JournalTells'
  BY JournalKept DEF Truthful

\* How a step of the runner that sends nothing ends when it raises.
LEMMA RaisedInv ==
  ASSUME DeliveryInv, Typed', NEW keys, Stores(keys), Raises, pc # "done",
         UNCHANGED <<cloud, facts, pass, verdict>>,
         preparing' \in {preparing, 0} \/ (preparing' = stage /\ stage = Sent + 1),
         seen' \in Services, startup' \in Nat, accepted' \in Nat, fresh' \in BOOLEAN,
         AllLanded \/ error'.kind = "uncertain" \/ pass = 2,
         Truthful(keys),
         pass = 2 \/ stage >= Switch => UNCHANGED <<startup, accepted>>,
         pass = 1 /\ Asked("success", Operation)' => Served'
  PROVE  DeliveryInv'
<1> USE DEF cloud, facts
<1>1. Sent \in Nat /\ preparing \in {0, Sent + 1} /\ preparing \in {0} \cup STAGES /\ pass \in {1, 2}
  BY DEF DeliveryInv, TypeOK, PlaceTells, Sent
<1>2. preparing' \in {0, Sent + 1} /\ preparing' \in {0} \cup STAGES
  BY <1>1 DEF DeliveryInv, TypeOK
<1>3. TypeOK'
  <2>1. TypeOK /\ verdict' \in {"none", "SUCCESS", "FAILURE", "UNCERTAIN"}
    BY DEF DeliveryInv, TypeOK
  <2> QED
    BY <1>1, <1>2, <2>1, TypeKept
<1>4. JournalTells'
  BY TruthfulKept DEF DeliveryInv
<1>5. pass = 2 \/ stage >= Switch => startup' = accepted'
  BY DEF DeliveryInv, PassTells
<1>6. pass = 1 => \A s \in STAGES : <<"plan", s>> \in keys => s <= stage
  BY DEF Truthful
<1>7. PlaceTells' /\ PassTells' /\ CohortTells'
  BY <1>2, <1>5, <1>6, RaisedKeeps
<1> QED
  BY <1>3, <1>4, <1>7 DEF DeliveryInv

\* The usual case: nothing but the snapshot was touched.
LEMMA RaisedSame ==
  ASSUME DeliveryInv, Typed', NEW keys, Stores(keys), Truthful(keys), Raises, pc # "done",
         UNCHANGED <<cloud, facts, local, verdict>>, fresh' \in BOOLEAN,
         AllLanded \/ error'.kind = "uncertain" \/ pass = 2,
         pass = 1 /\ Asked("success", Operation)' => Served'
  PROVE  DeliveryInv'
<1>1. /\ UNCHANGED <<pass, preparing, seen, startup, accepted>>
      /\ seen' \in Services /\ startup' \in Nat /\ accepted' \in Nat
  BY DEF local, DeliveryInv, TypeOK
<1>2. /\ UNCHANGED <<cloud, facts, pass, verdict>> /\ preparing' \in {preparing, 0}
      /\ pass = 2 \/ stage >= Switch => UNCHANGED <<startup, accepted>>
  BY <1>1
<1> QED
  BY <1>1, <1>2, RaisedInv

LEMMA PlainIsTruthful ==
  /\ Truthful({})
  /\ \A kind \in {"intent", "registered", "startup", "activation"} : Truthful({<<kind, Operation>>})
  BY DEF Truthful

LEMMA AcceptKeeps ==
  ASSUME DeliveryInv, Accept
  PROVE  DeliveryInv'
<1> USE DEF cloud, facts, local, storage
<1>1. pc = "accept" /\ AllLanded /\ TypeOK
  BY DEF Accept, DeliveryInv, PlaceTells, InDoubt
<1>2. /\ Typed' /\ Stores({<<"intent", Operation>>})
      /\ Goes("reconcile", Register) \/ Raises
  <2>1. CASE Put(<<"intent", Operation>>, "reconcile", Register)
    BY <1>1, <2>1, PutMoves, Keys, StageNumbers DEF Places
  <2>2. CASE Goto("reconcile", Register) /\ UNCHANGED <<storage, faults>>
    BY <1>1, <2>2, GotoMoves, StageNumbers DEF Stores, Places
  <2>3. CASE Unreadable({Operation}) /\ UNCHANGED storage
    BY <1>1, <2>3, UnreadableMoves DEF Stores
  <2>4. CASE Raise("plain", Operation) /\ UNCHANGED <<storage, faults>>
    BY <1>1, <2>4, PlainMoves DEF Stores
  <2> QED
    BY <2>1, <2>2, <2>3, <2>4 DEF Accept
<1>3. \A kind, scope : /\ Has(kind, scope) => Has(kind, scope)'
                       /\ Asked(kind, scope)' => Asked(kind, scope) \/ kind = "intent"
  BY <1>2 DEF Stores, Has, Asked
<1>4. ~ (pass = 1 /\ Asked("success", Operation)')
  BY <1>1, <1>3 DEF DeliveryInv, PassTells
<1>5. CASE Raises
  <2>1. Truthful({<<"intent", Operation>>}) /\ fresh' \in BOOLEAN
    BY <1>1, PlainIsTruthful DEF Accept, TypeOK
  <2> QED
    BY <1>1, <1>2, <1>4, <1>5, <2>1, RaisedSame DEF Accept
<1>6. CASE Goes("reconcile", Register)
  <2>1. TypeOK'
    BY <1>1, <1>2, TypeKept DEF Accept, TypeOK
  <2>2. JournalTells'
    BY <1>2, JournalKept DEF DeliveryInv, Accept
  <2>3. PlaceTells'
    BY <1>1, <1>3, <1>6 DEF Accept, Goes, DeliveryInv, PlaceTells, InDoubt, Unsettled, Underway,
                            AllLanded, Sent
  <2>4. PassTells'
    BY <1>1, <1>3, <1>6, StageNumbers DEF Accept, Goes, DeliveryInv, PlaceTells, PassTells, Preparation, Register,
                            Drain, Attach, Start, Switch
  <2>5. CohortTells'
    BY <1>1, <1>3, <1>6, CohortKept DEF Accept, Goes, Reread
  <2> QED
    BY <2>1, <2>2, <2>3, <2>4, <2>5 DEF DeliveryInv
<1> QED
  BY <1>2, <1>5, <1>6

LEMMA ReconcileKeeps ==
  ASSUME DeliveryInv, NEW from, NEW to, Reconcile(from, to),
         <<from, to>> \in {<<"reconcile", "resume">>, <<"recheck", "readback">>}
  PROVE  DeliveryInv'
<1> USE DEF cloud, facts, local, storage
<1>1. pc = from /\ TypeOK /\ from \in {"reconcile", "recheck"} /\ to \in {"resume", "readback"}
  BY DEF Reconcile, DeliveryInv
<1>2. CASE Raise("uncertain", Operation) /\ UNCHANGED records
  <2>1. Raises /\ error'.kind = "uncertain" /\ Stores({}) /\ Typed'
    <3>1. Raises /\ error'.kind = "uncertain"
      BY <1>2, RaiseMoves
    <3>2. faults' \in 0 .. MaxFaults
      BY <1>1, FaultTyped DEF Reconcile, TypeOK
    <3> QED
      BY <1>1, <1>2, <3>1, <3>2, TypedNow DEF Raises, Typed, Stores, Places, Reconcile
  <2>2. ~ (pass = 1 /\ Asked("success", Operation)')
    BY <1>1, <2>1, NoneAsked DEF DeliveryInv, PassTells
  <2>3. Truthful({}) /\ fresh' \in BOOLEAN
    BY <1>1, PlainIsTruthful DEF Reconcile, TypeOK
  <2> QED
    BY <1>1, <2>1, <2>2, <2>3, RaisedSame DEF Reconcile
<1>3. CASE /\ \A s \in Attempted : Reconciles(s)
           /\ records' = records \cup {"observed"} \X Attempted
           /\ Goto(to, Register) /\ UNCHANGED faults
  <2> DEFINE keys == {"observed"} \X Attempted
  <2>1. Stores(keys) /\ Goes(to, Register) /\ Attempted \subseteq STAGES /\ late' = late
    BY <1>3 DEF Stores, Goto, Goes, Reconcile, Attempted
  <2>2. \A s \in Attempted : Has("ack", s)
    BY <1>3, <2>1 DEF Reconciles, Applied, DeliveryInv, JournalTells, Asked, Has
  <2>3. \A kind, scope : /\ Has(kind, scope) => Has(kind, scope)'
                         /\ Asked(kind, scope)' => Asked(kind, scope) \/ kind = "observed"
    BY <2>1 DEF Stores, Has, Asked
  <2>4. TypeOK'
    <3>1. records' \subseteq Key
      BY <1>1, <1>3, <2>1 DEF TypeOK, Key
    <3>2. Typed'
      BY <1>1, <1>3, <2>1, <3>1, TypedNow, StageNumbers DEF Typed, Goes, Places
    <3> QED
      BY <1>1, <3>2, TypeKept DEF Reconcile, TypeOK
  <2>5. JournalTells'
    <3>1. \A s \in STAGES : /\ <<"ack", s>> \notin keys /\ <<"attempt", s>> \notin keys
                            /\ <<"success", Operation>> \notin keys
                            /\ <<"observed", s>> \in keys => Has("ack", s)
      BY <2>2
    <3> HIDE DEF keys
    <3> QED
      BY <1>1, <2>1, <3>1, JournalKept DEF Reconcile, DeliveryInv
  <2>6. AllLanded
    <3>1. ASSUME NEW s \in 1 .. Sent PROVE s \in Attempted
      <4>1. Sent \in Nat /\ Sent <= 7
        BY <1>1 DEF DeliveryInv, JournalTells, InTurn, Sent, TypeOK
      <4>2. s \in STAGES /\ s <= Sent
        BY <4>1, StageNumbers
      <4> QED
        BY <4>2 DEF DeliveryInv, JournalTells, Attempted
    <3>2. 1 .. Sent \subseteq landed
      BY <2>1, <2>2, <3>1 DEF DeliveryInv, JournalTells
    <3> QED
      BY <3>2 DEF DeliveryInv, JournalTells, AllLanded
  <2>7. PlaceTells'
    BY <1>1, <1>3, <2>1, <2>3, <2>6 DEF Reconcile, Goes, DeliveryInv, PlaceTells, Unsettled, Underway,
                                        AllLanded, Sent
  <2>8. PassTells'
    BY <1>1, <2>1, <2>3, StageNumbers DEF Reconcile, Goes, DeliveryInv, PlaceTells, PassTells, Preparation,
                                        Register, Drain, Attach, Start, Switch
  <2>9. CohortTells'
    BY <1>1, <2>1, <2>3, CohortKept DEF Reconcile, Goes, Reread
  <2> QED
    BY <2>4, <2>5, <2>7, <2>8, <2>9 DEF DeliveryInv
<1> QED
  BY <1>2, <1>3 DEF Reconcile

LEMMA ResumeKeeps ==
  ASSUME DeliveryInv, Resume
  PROVE  DeliveryInv'
<1> USE DEF cloud, facts, local, storage
<1>1. pc = "resume" /\ AllLanded /\ TypeOK /\ fresh' = fresh /\ fresh \in BOOLEAN
  BY DEF Resume, DeliveryInv, TypeOK, PlaceTells, InDoubt
<1>2. CASE Has("success", Operation) /\ Return("SUCCESS") /\ UNCHANGED faults
  <2>1. Asked("success", Operation)
    BY <1>2 DEF Has, Asked
  <2>2. Sent = 7 /\ Served
    BY <1>1, <2>1, SuccessLands DEF DeliveryInv, CohortTells, Reread
  <2> QED
    BY <1>1, <1>2, <2>2, ReturnKeeps DEF Resume, TypeOK
<1>3. ASSUME Typed', Stores({}), Raises, UNCHANGED verdict PROVE DeliveryInv'
  <2>1. ~ (pass = 1 /\ Asked("success", Operation)')
    BY <1>1, <1>3, NoneAsked DEF DeliveryInv, PassTells
  <2> QED
    BY <1>1, <1>3, <2>1, PlainIsTruthful, RaisedSame DEF Resume
<1>4. ASSUME Typed', Stores({}), Goes("effect", Register), UNCHANGED verdict PROVE DeliveryInv'
  <2>1. TypeOK'
    BY <1>1, <1>4, TypeKept DEF Resume, TypeOK
  <2>2. JournalTells'
    BY <1>4, PlainIsTruthful, TruthfulKept DEF DeliveryInv, Resume
  <2>3. PlaceTells'
    <3>1. Sent \in Nat
      BY <1>1 DEF TypeOK, Sent
    <3> QED
      BY <1>1, <1>4, <3>1, NoneAsked DEF Resume, Goes, DeliveryInv, PlaceTells, Unsettled, Underway,
                                         AllLanded, Sent, Register
  <2>4. PassTells'
    BY <1>1, <1>4, NoneAsked, StageNumbers DEF Resume, Goes, DeliveryInv, PlaceTells, PassTells, Preparation,
                                         Register, Drain, Attach, Start, Switch
  <2>5. CohortTells'
    BY <1>1, <1>4, NoneAsked, CohortKept DEF Resume, Goes, Reread
  <2> QED
    BY <2>1, <2>2, <2>3, <2>4, <2>5 DEF DeliveryInv
<1>5. CASE Unreadable({Operation}) /\ UNCHANGED verdict
  BY <1>1, <1>3, <1>5, UnreadableMoves DEF Resume
<1>6. CASE Check(authorized, "effect", Register) /\ UNCHANGED verdict
  <2>1. CASE Goto("effect", Register) /\ UNCHANGED faults
    BY <1>1, <1>4, <1>6, <2>1, GotoMoves, StageNumbers DEF Resume, Places
  <2>2. CASE Raise("plain", Operation) /\ UNCHANGED faults
    BY <1>1, <1>3, <1>6, <2>2, PlainMoves DEF Resume
  <2> QED
    BY <1>6, <2>1, <2>2 DEF Check
<1> QED
  BY <1>2, <1>5, <1>6 DEF Resume
-------------------------------------------------------------------------------
(* The recovery pass, up to where it runs again.                            *)

LEMMA RecoverKeeps ==
  ASSUME DeliveryInv, Recover
  PROVE  DeliveryInv'
<1> USE DEF cloud, facts, local, storage
<1>1. pc = "recover" /\ pass = 2 /\ TypeOK /\ fresh' = fresh /\ fresh \in BOOLEAN
  BY DEF Recover, DeliveryInv, TypeOK, PlaceTells
<1>2. CASE Unreadable({Operation})
  <2>1. Typed' /\ Stores({}) /\ Raises
    BY <1>1, <1>2, UnreadableMoves DEF Recover
  <2> QED
    BY <1>1, <2>1, PlainIsTruthful, RaisedSame DEF Recover
<1>3. ASSUME NEW place \in {"accept", "recheck"}, Goto(place, Register), UNCHANGED faults,
             place = "accept" => Has("success", Operation)
      PROVE  DeliveryInv'
  <2>1. Typed' /\ Stores({}) /\ Goes(place, Register)
    BY <1>1, <1>3, GotoMoves, StageNumbers DEF Recover, Places
  <2>2. TypeOK'
    BY <1>1, <2>1, TypeKept DEF Recover, TypeOK
  <2>3. JournalTells'
    BY <2>1, PlainIsTruthful, TruthfulKept DEF DeliveryInv, Recover
  <2>4. place = "accept" => Sent = 7 /\ AllLanded
    BY <1>1, <1>3, SuccessLands DEF DeliveryInv, Has, Asked
  <2>5. PlaceTells'
    <3>1. Sent' = Sent /\ (AllLanded' <=> AllLanded)
      BY DEF Recover, Sent, AllLanded
    <3>2. CASE place = "accept"
      <4>1. \A s \in STAGES : s <= Sent'
        BY <2>4, <3>1, <3>2, StageNumbers
      <4> QED
        BY <1>1, <2>1, <2>4, <3>1, <3>2, <4>1
        DEF Recover, Goes, DeliveryInv, PlaceTells, Underway
    <3>3. CASE place = "recheck"
      BY <1>1, <2>1, <3>1, <3>3 DEF Recover, Goes, DeliveryInv, PlaceTells, InDoubt, Unsettled, Underway
    <3> QED
      BY <3>2, <3>3
  <2>6. PassTells'
    BY <1>1, <2>1, NoneAsked, StageNumbers DEF Recover, Goes, DeliveryInv, PassTells, Preparation,
                                         Register, Drain, Attach, Start, Switch
  <2>7. CohortTells'
    BY <1>1, <2>1, NoneAsked, CohortKept DEF Recover, Goes, Reread
  <2> QED
    BY <2>2, <2>3, <2>5, <2>6, <2>7 DEF DeliveryInv
<1> QED
  BY <1>2, <1>3 DEF Recover

LEMMA ReadbackKeeps ==
  ASSUME DeliveryInv, Readback
  PROVE  DeliveryInv'
<1> USE DEF cloud, facts, local, storage
<1>1. pc = "readback" /\ pass = 2 /\ AllLanded /\ TypeOK /\ fresh' = fresh /\ fresh \in BOOLEAN
  BY DEF Readback, DeliveryInv, TypeOK, PlaceTells, InDoubt
<1>2. ASSUME Typed', Stores({}), Raises PROVE DeliveryInv'
  BY <1>1, <1>2, PlainIsTruthful, RaisedSame DEF Readback
<1>3. CASE Unreadable({Operation})
  BY <1>1, <1>2, <1>3, UnreadableMoves DEF Readback
<1>4. CASE Raise("plain", Operation) /\ UNCHANGED faults
  BY <1>1, <1>2, <1>4, PlainMoves DEF Readback
<1>5. CASE /\ Goto("topology", Register) /\ UNCHANGED faults
           /\ \A s \in Switch .. Cleanup :
                IF Has("attempt", s) THEN Applied(s) ELSE ~ Has("plan", s) /\ s # Switch
  <2>1. Typed' /\ Stores({}) /\ Goes("topology", Register)
    BY <1>1, <1>5, GotoMoves, StageNumbers DEF Readback, Places
  <2>2. TypeOK'
    BY <1>1, <2>1, TypeKept DEF Readback, TypeOK
  <2>3. JournalTells'
    BY <2>1, PlainIsTruthful, TruthfulKept DEF DeliveryInv, Readback
  <2>4. ASSUME NEW s \in STAGES, Has("attempt", s), s >= Switch PROVE s <= Sent
    <3>1. s \in Switch .. Cleanup
      BY <2>4, StageNumbers DEF Switch, Cleanup
    <3>2. Has("ack", s)
      BY <1>5, <2>4, <3>1 DEF Applied
    <3>3. s \in landed /\ landed \subseteq 1 .. Sent
      BY <3>2 DEF DeliveryInv, JournalTells
    <3> QED
      BY <3>3
  <2>5. Switch <= Sent
    BY <1>1, <2>4, StageNumbers DEF DeliveryInv, PassTells, Switch
  <2>6. ASSUME NEW s \in STAGES, Asked("attempt", s) PROVE s <= Sent
    <3>0. Sent \in Nat /\ s \in Nat
      BY <1>1, StageNumbers DEF TypeOK, Sent
    <3>1. CASE s < Switch
      BY <2>5, <3>0, <3>1 DEF Switch
    <3>2. CASE s >= Switch
      <4>1. s \in Switch .. Cleanup
        BY <3>2, StageNumbers DEF Switch, Cleanup
      <4>2. Has("plan", s)
        BY <2>6 DEF DeliveryInv, JournalTells
      <4>3. Has("attempt", s)
        BY <1>5, <4>1, <4>2
      <4> QED
        BY <2>4, <3>2, <4>3
    <3> QED
      BY <3>0, <3>1, <3>2 DEF Switch
  <2>7. PlaceTells'
    BY <1>1, <2>1, <2>6, NoneAsked
    DEF Readback, Goes, DeliveryInv, PlaceTells, Unsettled, Underway, AllLanded, Sent
  <2>8. PassTells'
    BY <1>1, <2>1, NoneAsked, StageNumbers DEF Readback, Goes, DeliveryInv, PassTells, Preparation,
                                         Register, Drain, Attach, Start, Switch
  <2>9. CohortTells'
    BY <1>1, <2>1, NoneAsked, CohortKept DEF Readback, Goes, Reread
  <2> QED
    BY <2>2, <2>3, <2>7, <2>8, <2>9 DEF DeliveryInv
<1> QED
  BY <1>3, <1>4, <1>5 DEF Readback

LEMMA TopologyKeeps ==
  ASSUME DeliveryInv, Topology
  PROVE  DeliveryInv'
<1> USE DEF cloud, facts, local, storage
<1>1. pc = "topology" /\ pass = 2 /\ AllLanded /\ TypeOK /\ fresh' = TRUE
  BY DEF Topology, Snapshot, DeliveryInv, TypeOK, PlaceTells, InDoubt
<1>2. ASSUME Typed', Stores({}), Raises PROVE DeliveryInv'
  BY <1>1, <1>2, PlainIsTruthful, RaisedSame DEF Topology
<1>3. CASE Unreadable({Operation})
  BY <1>1, <1>2, <1>3, UnreadableMoves DEF Topology
<1>4. CASE Raise("plain", Operation) /\ UNCHANGED faults
  BY <1>1, <1>2, <1>4, PlainMoves DEF Topology
<1>5. CASE Goto("accept", Register) /\ UNCHANGED faults /\ Prepared(1) /\ InContext
  <2>1. Typed' /\ Stores({}) /\ Goes("accept", Register)
    BY <1>1, <1>5, GotoMoves, StageNumbers DEF Topology, Places
  <2>2. TypeOK'
    BY <1>1, <2>1, TypeKept DEF Topology, TypeOK
  <2>3. JournalTells'
    BY <2>1, PlainIsTruthful, TruthfulKept DEF DeliveryInv, Topology
  <2>4. PlaceTells'
    BY <1>1, <2>1, NoneAsked
    DEF Topology, Goes, DeliveryInv, PlaceTells, Unsettled, Underway, AllLanded, Sent
  <2>5. PassTells'
    BY <1>1, <2>1, NoneAsked, StageNumbers DEF Topology, Goes, DeliveryInv, PassTells, Preparation,
                                         Register, Drain, Attach, Start, Switch
  <2>6. CohortTells'
    <3>1. startup = accepted /\ verdict' = "none"
      BY <1>1 DEF Topology, DeliveryInv, PassTells, PlaceTells
    <3> QED
      BY <1>1, <1>5, <2>1, <3>1 DEF Topology, Goes, CohortTells, Served, Prepared, InContext
  <2> QED
    BY <2>2, <2>3, <2>4, <2>5, <2>6 DEF DeliveryInv
<1> QED
  BY <1>3, <1>4, <1>5 DEF Topology, Check
-------------------------------------------------------------------------------
(* One stage, up to its call.                                               *)

LEMMA BeforeKeeps ==
  ASSUME DeliveryInv, Before
  PROVE  DeliveryInv'
<1> USE DEF cloud, facts, local, storage
<1>1. /\ pc = "before" /\ pass = 1 /\ AllLanded /\ TypeOK /\ fresh' = TRUE
      /\ stage \in STAGES /\ seen' \in Services
  BY DEF Before, Snapshot, DeliveryInv, TypeOK, PlaceTells, InDoubt
<1>2. ASSUME Typed', Stores({}), Raises PROVE DeliveryInv'
  <2>1. ~ Asked("success", Operation)'
    BY <1>1, <1>2, NoneAsked DEF DeliveryInv, PassTells
  <2> QED
    BY <1>1, <1>2, <2>1, PlainIsTruthful, RaisedInv DEF Before, TypeOK
<1>3. CASE Unreadable({stage})
  BY <1>1, <1>2, <1>3, UnreadableMoves DEF Before
<1>4. CASE Raise("plain", Operation) /\ UNCHANGED faults
  BY <1>1, <1>2, <1>4, PlainMoves DEF Before
<1>5. CASE Goto("effect", stage) /\ UNCHANGED faults
  <2>1. Typed' /\ Stores({}) /\ Goes("effect", stage)
    BY <1>1, <1>5, GotoMoves DEF Before, Places
  <2>2. TypeOK'
    BY <1>1, <2>1, TypeKept DEF Before, TypeOK
  <2>3. JournalTells'
    BY <2>1, PlainIsTruthful, TruthfulKept DEF DeliveryInv, Before
  <2>4. PlaceTells'
    <3>1. Sent \in Nat /\ stage = Sent + 1
      BY <1>1 DEF TypeOK, Sent, DeliveryInv, PlaceTells
    <3> QED
      BY <1>1, <2>1, <3>1, NoneAsked
      DEF Before, Goes, DeliveryInv, PlaceTells, Unsettled, Underway, AllLanded, Sent
  <2>5. PassTells'
    BY <1>1, <2>1, NoneAsked DEF Before, Goes, DeliveryInv, PassTells
  <2>6. CohortTells'
    BY <1>1, <2>1, NoneAsked, CohortKept DEF Before, Goes, Reread
  <2> QED
    BY <2>2, <2>3, <2>4, <2>5, <2>6 DEF DeliveryInv
<1> QED
  BY <1>3, <1>4, <1>5 DEF Before, Check

LEMMA EffectKeeps ==
  ASSUME DeliveryInv, Effect
  PROVE  DeliveryInv'
<1> USE DEF cloud, facts, local, storage
<1>1. /\ pc = "effect" /\ AllLanded /\ TypeOK /\ fresh' = fresh /\ fresh \in BOOLEAN
      /\ stage \in STAGES /\ Sent \in Nat /\ verdict' = verdict
  BY DEF Effect, DeliveryInv, TypeOK, PlaceTells, InDoubt, Sent
<1>2. ASSUME Typed', Stores({}), Raises, UNCHANGED preparing PROVE DeliveryInv'
  <2>1. ~ (pass = 1 /\ Asked("success", Operation)')
    BY <1>1, <1>2, NoneAsked DEF DeliveryInv, PassTells
  <2> QED
    BY <1>1, <1>2, <2>1, PlainIsTruthful, RaisedSame DEF Effect
<1>3. CASE Unreadable({stage} \cup IF stage = Switch THEN {Operation} ELSE {}) /\ UNCHANGED preparing
  BY <1>1, <1>2, <1>3, UnreadableMoves DEF Effect
<1>4. CASE Raise("plain", Operation) /\ UNCHANGED <<faults, preparing>>
  BY <1>1, <1>2, <1>4, PlainMoves DEF Effect
<1>5. ASSUME NEW place \in {"after", "plan"}, Goto(place, stage), UNCHANGED faults,
             \/ place = "after" /\ Has("attempt", stage) /\ UNCHANGED preparing
             \/ place = "plan" /\ ~ Has("plan", stage) /\ preparing' = stage
      PROVE  DeliveryInv'
  <2>1. Typed' /\ Stores({}) /\ Goes(place, stage)
    BY <1>1, <1>5, GotoMoves DEF Effect, Places
  <2>2. TypeOK'
    BY <1>1, <1>5, <2>1, TypeKept DEF Effect, TypeOK
  <2>3. JournalTells'
    BY <2>1, PlainIsTruthful, TruthfulKept DEF DeliveryInv, Effect
  <2>4. stage <= Sent + 1 /\ (pass = 1 => stage = Sent + 1)
    BY <1>1 DEF DeliveryInv, PlaceTells
  <2>5. place = "after" => stage <= Sent
    BY <1>1, <1>5 DEF DeliveryInv, PlaceTells, Unsettled, Underway, Asked, Has
  <2>6. place = "plan" => stage = Sent + 1
    <3>1. stage <= Sent => Has("plan", stage)
      BY <1>1 DEF DeliveryInv, JournalTells, Asked, Has
    <3> QED
      BY <1>1, <1>5, <2>4, <3>1, StageNumbers
  <2>7. PlaceTells'
    <3>1. Sent' = Sent /\ (AllLanded' <=> AllLanded) /\ stage \in Nat
      BY <1>1, StageNumbers DEF Effect, Sent, AllLanded
    <3>2. preparing' \in {0, Sent + 1}
      BY <1>5, <2>6 DEF DeliveryInv, PlaceTells
    <3>3. CASE place = "after"
      BY <1>1, <2>1, <2>4, <2>5, <3>1, <3>2, <3>3, NoneAsked
      DEF Effect, Goes, DeliveryInv, PlaceTells, Unsettled, Underway
    <3>4. CASE place = "plan"
      BY <1>1, <2>1, <2>6, <3>1, <3>2, <3>4, NoneAsked
      DEF Effect, Goes, DeliveryInv, PlaceTells, Unsettled, Underway
    <3> QED
      BY <3>3, <3>4
  <2>8. PassTells'
    BY <1>1, <2>1, NoneAsked DEF Effect, Goes, DeliveryInv, PassTells
  <2>9. CohortTells'
    BY <1>1, <2>1, NoneAsked, CohortKept DEF Effect, Goes, Reread
  <2> QED
    BY <2>2, <2>3, <2>7, <2>8, <2>9 DEF DeliveryInv
<1>6. CASE /\ Has("plan", stage) /\ UNCHANGED <<faults, preparing>>
           /\ \/ Has("attempt", stage) /\ Goto("after", stage)
              \/ ~ Has("attempt", stage) /\ Raise("plain", Operation)
  BY <1>4, <1>5, <1>6
<1>7. CASE /\ ~ Has("plan", stage) /\ Check(authorized, "plan", stage)
           /\ preparing' = IF authorized /\ ~ expired THEN stage ELSE preparing
  BY <1>4, <1>5, <1>7 DEF Check
<1> QED
  BY <1>3, <1>6, <1>7 DEF Effect

LEMMA PlanKeeps ==
  ASSUME DeliveryInv, Plan
  PROVE  DeliveryInv'
<1> USE DEF cloud, facts, local, storage
<1>1. /\ pc = "plan" /\ AllLanded /\ TypeOK /\ fresh' = fresh /\ fresh \in BOOLEAN
      /\ stage \in STAGES /\ Sent \in Nat /\ stage = Sent + 1
  BY DEF Plan, DeliveryInv, TypeOK, PlaceTells, InDoubt, Sent
<1>2. /\ Typed' /\ Stores({<<"plan", stage>>})
      /\ (Goes("attempt", stage) /\ <<"plan", stage>> \in records') \/ Raises
  BY <1>1, PutMoves, Keys DEF Plan, Places
<1>3. \A kind, scope :
        /\ Has(kind, scope) => Has(kind, scope)'
        /\ Asked(kind, scope)' => Asked(kind, scope) \/ (kind = "plan" /\ scope = stage)
  BY <1>2 DEF Stores, Has, Asked
<1>4. Truthful({<<"plan", stage>>})
  BY <1>1, StageNumbers DEF Truthful
<1>5. CASE Raises
  <2>1. ~ (pass = 1 /\ Asked("success", Operation)')
    BY <1>1, <1>3 DEF DeliveryInv, PassTells
  <2> QED
    BY <1>1, <1>2, <1>4, <1>5, <2>1, RaisedSame DEF Plan
<1>6. CASE Goes("attempt", stage) /\ <<"plan", stage>> \in records'
  <2>1. TypeOK'
    BY <1>1, <1>2, TypeKept DEF Plan, TypeOK
  <2>2. JournalTells'
    BY <1>2, <1>4, TruthfulKept DEF DeliveryInv, Plan
  <2>3. PlaceTells'
    <3>1. Has("plan", stage)'
      BY <1>6 DEF Has, Goes
    <3>2. \A s \in STAGES : Asked("attempt", s)' => s <= Sent
      BY <1>1, <1>3 DEF DeliveryInv, PlaceTells, Unsettled, Underway
    <3> QED
      BY <1>1, <1>6, <3>1, <3>2
      DEF Plan, Goes, DeliveryInv, PlaceTells, Unsettled, Underway, AllLanded, Sent
  <2>4. PassTells'
    BY <1>1, <1>3, <1>6, StageNumbers DEF Plan, Goes, DeliveryInv, PassTells
  <2>5. CohortTells'
    BY <1>1, <1>3, <1>6, CohortKept DEF Plan, Goes, Reread
  <2> QED
    BY <2>1, <2>2, <2>3, <2>4, <2>5 DEF DeliveryInv
<1> QED
  BY <1>2, <1>5, <1>6

LEMMA AttemptKeeps ==
  ASSUME DeliveryInv, Attempt
  PROVE  DeliveryInv'
<1> USE DEF cloud, facts, local, storage
<1>1. /\ pc = "attempt" /\ AllLanded /\ TypeOK /\ fresh' = fresh /\ fresh \in BOOLEAN
      /\ stage \in STAGES /\ Sent \in Nat /\ stage = Sent + 1 /\ Has("plan", stage)
  BY DEF Attempt, DeliveryInv, TypeOK, PlaceTells, InDoubt, Sent
<1>2. /\ Typed' /\ Stores({<<"attempt", stage>>})
      /\ (Goes("guard", stage) /\ <<"attempt", stage>> \in records' /\ late' = late) \/ Raises
  BY <1>1, PutMoves, Keys DEF Attempt, Places
<1>3. \A kind, scope :
        /\ Has(kind, scope) => Has(kind, scope)'
        /\ Asked(kind, scope)' => Asked(kind, scope) \/ (kind = "attempt" /\ scope = stage)
  BY <1>2 DEF Stores, Has, Asked
<1>4. Truthful({<<"attempt", stage>>})
  BY <1>1, StageNumbers DEF Truthful
<1>5. CASE Raises
  <2>1. ~ (pass = 1 /\ Asked("success", Operation)')
    BY <1>1, <1>3 DEF DeliveryInv, PassTells
  <2> QED
    BY <1>1, <1>2, <1>4, <1>5, <2>1, RaisedSame DEF Attempt
<1>6. CASE Goes("guard", stage) /\ <<"attempt", stage>> \in records' /\ late' = late
  <2>1. TypeOK'
    BY <1>1, <1>2, TypeKept DEF Attempt, TypeOK
  <2>2. JournalTells'
    BY <1>2, <1>4, TruthfulKept DEF DeliveryInv, Attempt
  <2>3. \A s \in STAGES : Asked("attempt", s)' => s <= stage
    BY <1>1, <1>3, StageNumbers DEF DeliveryInv, PlaceTells, Unsettled, Underway
  <2>4. PlaceTells'
    <3>1. <<"attempt", stage>> \notin late
      BY <1>1, StageNumbers DEF DeliveryInv, PlaceTells, Unsettled, Underway, Asked
    <3> QED
      BY <1>1, <1>6, <2>3, <3>1
      DEF Attempt, Goes, DeliveryInv, PlaceTells, Unsettled, Underway, AllLanded, Sent, Has
  <2>5. PassTells'
    BY <1>1, <1>3, <1>6 DEF Attempt, Goes, DeliveryInv, PassTells
  <2>6. CohortTells'
    BY <1>1, <1>3, <1>6, CohortKept DEF Attempt, Goes, Reread
  <2> QED
    BY <2>1, <2>2, <2>4, <2>5, <2>6 DEF DeliveryInv
<1> QED
  BY <1>2, <1>5, <1>6

LEMMA GuardKeeps ==
  ASSUME DeliveryInv, Guard
  PROVE  DeliveryInv'
<1> USE DEF cloud, facts, local, storage
<1>1. /\ pc = "guard" /\ AllLanded /\ TypeOK /\ fresh' = TRUE
      /\ stage \in STAGES /\ Sent \in Nat /\ verdict' = "none"
  BY DEF Guard, Snapshot, DeliveryInv, TypeOK, PlaceTells, InDoubt, Sent
<1>2. ASSUME Typed', Stores({}), Raises PROVE DeliveryInv'
  <2>1. ~ (pass = 1 /\ Asked("success", Operation)')
    BY <1>1, <1>2, NoneAsked DEF DeliveryInv, PassTells
  <2> QED
    BY <1>1, <1>2, <2>1, PlainIsTruthful, RaisedSame DEF Guard
<1>3. CASE Unreadable({})
  BY <1>1, <1>2, <1>3, UnreadableMoves DEF Guard
<1>4. CASE Raise("plain", Operation) /\ UNCHANGED faults
  BY <1>1, <1>2, <1>4, PlainMoves DEF Guard
<1>5. CASE Goto("call", stage) /\ UNCHANGED faults /\ Guarded(stage)
  <2>1. Typed' /\ Stores({}) /\ Goes("call", stage)
    BY <1>1, <1>5, GotoMoves DEF Guard, Places
  <2>2. TypeOK'
    BY <1>1, <2>1, TypeKept DEF Guard, TypeOK
  <2>3. JournalTells'
    BY <2>1, PlainIsTruthful, TruthfulKept DEF DeliveryInv, Guard
  <2>4. PlaceTells'
    BY <1>1, <2>1, NoneAsked
    DEF Guard, Goes, DeliveryInv, PlaceTells, Unsettled, Underway, AllLanded, Sent
  <2>5. PassTells'
    BY <1>1, <2>1, NoneAsked DEF Guard, Goes, DeliveryInv, PassTells
  <2>6. stage >= Switch => Served'
    <3>1. SUFFICES ASSUME stage >= Switch PROVE Served'
      OBVIOUS
    <3>2. startup = accepted
      BY <3>1 DEF DeliveryInv, PassTells
    <3>3. stage \in {Switch, Candidate, Cleanup}
      BY <1>1, <3>1, StageNumbers DEF Switch, Candidate, Cleanup
    <3>4. Prepared(1) /\ InContext
      BY <1>5, <3>3 DEF Guarded
    <3> QED
      BY <3>2, <3>4 DEF Guard, Served, Prepared, InContext
  <2>7. CohortTells'
    BY <1>1, <2>1, <2>6, NoneAsked DEF Guard, Goes, DeliveryInv, PassTells, CohortTells, Reread
  <2> QED
    BY <2>2, <2>3, <2>4, <2>5, <2>7 DEF DeliveryInv
<1> QED
  BY <1>3, <1>4, <1>5 DEF Guard, Check

LEMMA CallKeeps ==
  ASSUME DeliveryInv, Call
  PROVE  DeliveryInv'
<1> USE DEF facts
<1>1. /\ pc = "call" /\ AllLanded /\ TypeOK /\ verdict = "none"
      /\ stage \in STAGES /\ Sent \in Nat /\ stage = Sent + 1 /\ calls \in Seq(STAGES)
      /\ Has("attempt", stage) /\ <<"attempt", stage>> \notin late
      /\ \A s \in STAGES : Asked("attempt", s) => s <= stage
  BY DEF Call, DeliveryInv, TypeOK, PlaceTells, InDoubt, Sent, Underway
<1>2. /\ pc' = "observe" /\ preparing' = 0 /\ late' = late
      /\ UNCHANGED <<stage, error, facts, pass, seen, startup, accepted, fresh, verdict>>
  BY DEF Call, Goto
<1>3. faults' \in 0 .. MaxFaults
  BY <1>1, FaultTyped DEF Call, Fault, TypeOK
<1>4. \/ UNCHANGED <<records, cloud>>
      \/ /\ calls' = Append(calls, stage)
         /\ \/ /\ records' = records \cup {<<"ack", stage>>} /\ landed' = landed \cup {stage}
               /\ service' = Told(stage) /\ flight' = flight
            \/ /\ landed' = landed \cup {stage} /\ service' = Told(stage)
               /\ records' = records /\ flight' = flight
            \/ /\ flight' \in {flight, flight \cup {stage}}
               /\ records' = records /\ landed' = landed /\ service' = service
  BY DEF Call, Fault, cloud
<1>5. Told(stage) \in Services
  BY <1>1 DEF TypeOK, Services, Told
<1>6. <<"ack", stage>> \in Key /\ Append(calls, stage) \in Seq(STAGES)
  <2>1. <<"ack", stage>> \in Key
    BY <1>1, Keys
  <2>2. Append(calls, stage) \in Seq(STAGES)
    BY <1>1
  <2> QED
    BY <2>1, <2>2
<1>7. TypeOK'
  <2>1. /\ records' \subseteq Key /\ calls' \in Seq(STAGES) /\ landed' \subseteq STAGES
        /\ flight' \subseteq STAGES /\ service' \in Services
    BY <1>1, <1>4, <1>5, <1>6 DEF TypeOK, cloud
  <2> QED
    BY <1>1, <1>2, <1>3, <2>1 DEF TypeOK, Places
<1>8. \A kind, scope : /\ Has(kind, scope) => Has(kind, scope)'
                       /\ Asked(kind, scope)' => Asked(kind, scope) \/ (kind = "ack" /\ scope = stage)
  BY <1>2, <1>4 DEF Has, Asked
<1>9. Sent' \in {stage - 1, stage} /\ (Sent' = stage \/ UNCHANGED <<records, cloud>>)
  <2>1. CASE UNCHANGED <<records, cloud>>
    BY <1>1, <2>1 DEF Sent, cloud
  <2>2. CASE calls' = Append(calls, stage)
    BY <1>1, <2>2 DEF Sent
  <2> QED
    BY <1>4, <2>1, <2>2
<1>10. JournalTells'
  <2>1. CASE UNCHANGED <<records, cloud>>
    BY <1>2, <2>1 DEF DeliveryInv, JournalTells, InTurn, Sent, cloud, Has, Asked
  <2>2. CASE calls' = Append(calls, stage) /\ Sent' = stage
    <3>1. InTurn'
      BY <1>1, <2>2, StageNumbers DEF DeliveryInv, JournalTells, InTurn, Sent
    <3>2. landed = 1 .. Sent /\ flight = {}
      BY <1>1 DEF AllLanded, DeliveryInv, JournalTells
    <3>3. landed' \subseteq 1 .. Sent' /\ flight' \subseteq (1 .. Sent') \ landed'
      BY <1>1, <1>4, <2>2, <3>2 DEF cloud
    <3>4. ASSUME NEW s \in STAGES
          PROVE  /\ <<"ack", s>> \notin late'
                 /\ Has("ack", s)' => s \in landed'
                 /\ Asked("observed", s)' => Has("ack", s)'
                 /\ Asked("attempt", s)' => Has("plan", s)'
                 /\ <<"attempt", s>> \in late' => s > Sent'
                 /\ s <= Sent' => Has("attempt", s)'
                 /\ Asked("success", Operation)' => Has("observed", s)'
      <4>1. s \in Nat
        BY StageNumbers
      <4> /\ <<"ack", s>> \notin late
          /\ Has("ack", s) => s \in landed
          /\ Asked("observed", s) => Has("ack", s)
          /\ Asked("attempt", s) => Has("plan", s)
          /\ <<"attempt", s>> \in late => s > Sent
          /\ s <= Sent => Has("attempt", s)
          /\ Asked("success", Operation) => Has("observed", s)
        BY DEF DeliveryInv, JournalTells
      <4>2. /\ <<"ack", s>> \notin late'
            /\ Asked("observed", s)' => Has("ack", s)'
            /\ Asked("attempt", s)' => Has("plan", s)'
            /\ Asked("success", Operation)' => Has("observed", s)'
        BY <1>2, <1>8
      <4>3. Has("ack", s)' => s \in landed'
        BY <1>4, <2>2 DEF Has, cloud
      <4>4. s <= Sent' => Has("attempt", s)'
        BY <1>1, <1>8, <2>2, <4>1
      <4>5. <<"attempt", s>> \in late' => s > Sent'
        BY <1>1, <1>2, <2>2, <4>1 DEF Asked
      <4> QED
        BY <4>2, <4>3, <4>4, <4>5
    <3> QED
      BY <3>1, <3>3, <3>4 DEF JournalTells
  <2> QED
    BY <1>4, <1>9, <2>1, <2>2 DEF cloud
<1>11. PlaceTells'
  <2>1. 1 .. (stage - 1) \subseteq landed'
    BY <1>1, <1>4 DEF AllLanded, cloud
  <2>2. \A s \in STAGES : Asked("attempt", s)' => s <= stage
    BY <1>1, <1>8
  <2>3. Has("attempt", stage)'
    BY <1>1, <1>2, <1>8
  <2> QED
    BY <1>1, <1>2, <1>9, <2>1, <2>2, <2>3 DEF PlaceTells, InDoubt, Unsettled, Underway
<1>12. PassTells'
  BY <1>1, <1>2, <1>8 DEF DeliveryInv, PassTells
<1>13. CohortTells'
  BY <1>1, <1>2, <1>8, CohortKept DEF Reread
<1> QED
  BY <1>7, <1>10, <1>11, <1>12, <1>13 DEF DeliveryInv

LEMMA ObserveKeeps ==
  ASSUME DeliveryInv, Observe
  PROVE  DeliveryInv'
<1> USE DEF cloud, facts, local, storage
<1>1. /\ pc = "observe" /\ TypeOK /\ fresh' = fresh /\ fresh \in BOOLEAN
      /\ stage \in STAGES /\ Sent \in Nat /\ Stores({}) /\ verdict' = verdict
  BY DEF Observe, DeliveryInv, TypeOK, Sent, Stores
<1>2. CASE Raise("uncertain", stage) /\ (UNCHANGED faults \/ Fault)
  <2>1. Raises /\ error'.kind = "uncertain"
    BY <1>1, <1>2, RaiseMoves
  <2>2. faults' \in 0 .. MaxFaults
    BY <1>1, <1>2, FaultTyped DEF TypeOK
  <2>3. Typed'
    BY <1>1, <2>1, <2>2, TypedNow DEF Observe, Raises, Typed, Places
  <2>4. ~ (pass = 1 /\ Asked("success", Operation)')
    BY <1>1, NoneAsked DEF DeliveryInv, PassTells
  <2> QED
    BY <1>1, <2>1, <2>3, <2>4, PlainIsTruthful, RaisedSame DEF Observe
<1>3. CASE Applied(stage) /\ Goto("evidence", stage) /\ UNCHANGED faults
  <2>1. Typed' /\ Goes("evidence", stage)
    BY <1>1, <1>3, GotoMoves DEF Observe, Places
  <2>2. TypeOK'
    BY <1>1, <2>1, TypeKept DEF Observe, TypeOK
  <2>3. JournalTells'
    BY <1>1, PlainIsTruthful, TruthfulKept DEF DeliveryInv, Observe
  <2>4. Has("ack", stage) /\ stage \in landed
    BY <1>1, <1>3 DEF Applied, DeliveryInv, JournalTells
  <2>5. Sent = stage /\ AllLanded
    <3>1. stage \in Nat /\ landed \subseteq 1 .. Sent /\ Sent \in {stage - 1, stage}
          /\ 1 .. (stage - 1) \subseteq landed
      BY <1>1, StageNumbers DEF DeliveryInv, JournalTells, PlaceTells
    <3>2. Sent = stage
      BY <2>4, <3>1
    <3>3. 1 .. stage \subseteq landed
      BY <2>4, <3>1
    <3> QED
      BY <3>1, <3>2, <3>3 DEF AllLanded
  <2>6. PlaceTells'
    <3>1. \A s \in STAGES : Asked("attempt", s) => s <= Sent
      BY <1>1, <2>5 DEF DeliveryInv, PlaceTells, Underway
    <3> QED
      BY <1>1, <2>1, <2>4, <2>5, <3>1, NoneAsked
      DEF Observe, Goes, DeliveryInv, PlaceTells, Unsettled, Underway, AllLanded, Sent
  <2>7. PassTells'
    BY <1>1, <2>1, NoneAsked DEF Observe, Goes, DeliveryInv, PassTells
  <2>8. CohortTells'
    BY <1>1, <2>1, NoneAsked, CohortKept DEF Observe, Goes, Reread
  <2> QED
    BY <2>2, <2>3, <2>6, <2>7, <2>8 DEF DeliveryInv
<1> QED
  BY <1>2, <1>3 DEF Observe

LEMMA EvidenceKeeps ==
  ASSUME DeliveryInv, Evidence
  PROVE  DeliveryInv'
<1> USE DEF cloud, facts, local
<1>1. /\ pc = "evidence" /\ TypeOK /\ AllLanded /\ fresh' = fresh /\ fresh \in BOOLEAN
      /\ stage \in STAGES /\ Sent \in Nat /\ Has("ack", stage) /\ verdict' = verdict
  BY DEF Evidence, DeliveryInv, TypeOK, PlaceTells, InDoubt, Sent
<1>2. <<"observed", stage>> \in Key
  BY <1>1, Keys
<1>3. Stores({<<"observed", stage>>}) /\ records' \subseteq Key /\ late' \subseteq Key
  BY <1>1, <1>2 DEF Evidence, Stores, TypeOK
<1>4. \A kind, scope : /\ Has(kind, scope) => Has(kind, scope)'
                       /\ Asked(kind, scope)' => Asked(kind, scope) \/ (kind = "observed" /\ scope = stage)
  BY <1>3 DEF Stores, Has, Asked
<1>5. Truthful({<<"observed", stage>>})
  BY <1>1 DEF Truthful
<1>6. CASE Fault /\ Raise("uncertain", stage)
  <2>1. Raises /\ error'.kind = "uncertain"
    BY <1>1, <1>6, RaiseMoves
  <2>2. faults' \in 0 .. MaxFaults
    BY <1>1, <1>6, FaultTyped
  <2>3. Typed'
    BY <1>1, <1>3, <2>1, <2>2 DEF TypeOK, Raises, Typed, Places
  <2>4. ~ (pass = 1 /\ Asked("success", Operation)')
    BY <1>1, <1>4 DEF DeliveryInv, PassTells
  <2> QED
    BY <1>1, <1>3, <1>5, <2>1, <2>3, <2>4, RaisedSame DEF Evidence
<1>7. CASE Goto("after", stage) /\ UNCHANGED <<late, faults>>
  <2>1. Goes("after", stage)
    BY <1>7 DEF Goto, Goes
  <2>2. Typed'
    BY <1>1, <1>3, <1>7, <2>1, TypedNow DEF Typed, Goes, Places
  <2>3. TypeOK'
    BY <1>1, <2>2, TypeKept DEF Evidence, TypeOK
  <2>4. JournalTells'
    BY <1>3, <1>5, TruthfulKept DEF DeliveryInv, Evidence
  <2>5. PlaceTells'
    BY <1>1, <1>4, <2>1
    DEF Evidence, Goes, DeliveryInv, PlaceTells, Unsettled, Underway, AllLanded, Sent
  <2>6. PassTells'
    BY <1>1, <1>4, <2>1 DEF Evidence, Goes, DeliveryInv, PassTells
  <2>7. CohortTells'
    BY <1>1, <1>4, <2>1, CohortKept DEF Evidence, Goes, Reread
  <2> QED
    BY <2>3, <2>4, <2>5, <2>6, <2>7 DEF DeliveryInv
<1> QED
  BY <1>6, <1>7 DEF Evidence
-------------------------------------------------------------------------------
(* After a stage.                                                           *)

LEMMA RegisteredKeeps ==
  ASSUME DeliveryInv, Registered
  PROVE  DeliveryInv'
<1> USE DEF cloud, facts, local, storage
<1> DEFINE keys == {<<"registered", Operation>>}
<1>1. /\ pc = "after" /\ stage = Register /\ TypeOK /\ AllLanded /\ fresh' = fresh /\ fresh \in BOOLEAN
      /\ Sent \in Nat /\ verdict' = verdict /\ pass \in {1, 2}
  BY DEF Registered, DeliveryInv, TypeOK, PlaceTells, InDoubt, Sent
<1>2. /\ Typed' /\ Stores(keys)
      /\ \/ Raises
         \/ Has("plan", Switch) /\ Goes("effect", Switch)
         \/ ~ Has("plan", Switch) /\ Goes("before", Drain)
  <2>1. CASE Has("plan", Switch) /\ Put(<<"registered", Operation>>, "effect", Switch)
    BY <1>1, <2>1, PutMoves, Keys, StageNumbers DEF Places
  <2>2. CASE ~ Has("plan", Switch) /\ Put(<<"registered", Operation>>, "before", Drain)
    BY <1>1, <2>2, PutMoves, Keys, StageNumbers DEF Places
  <2>3. CASE Raise("plain", Operation) /\ UNCHANGED <<storage, faults>>
    BY <1>1, <2>3, PlainMoves DEF Stores
  <2>4. CASE Unreadable({}) /\ UNCHANGED storage
    BY <1>1, <2>4, UnreadableMoves DEF Stores
  <2> QED
    BY <2>1, <2>2, <2>3, <2>4 DEF Registered
<1>3. \A kind, scope : /\ Has(kind, scope) => Has(kind, scope)'
                       /\ Asked(kind, scope)' => Asked(kind, scope) \/ kind = "registered"
  BY <1>2 DEF Stores, Has, Asked
<1>4. Truthful(keys)
  BY PlainIsTruthful
<1> HIDE DEF keys
<1>5. CASE Raises
  <2>1. ~ (pass = 1 /\ Asked("success", Operation)')
    BY <1>1, <1>3 DEF DeliveryInv, PassTells
  <2> QED
    BY <1>1, <1>2, <1>4, <1>5, <2>1, RaisedSame DEF Registered
<1>6. TypeOK'
  BY <1>1, <1>2, TypeKept DEF Registered, TypeOK
<1>7. JournalTells'
  BY <1>2, <1>4, TruthfulKept DEF DeliveryInv, Registered
<1>8. CASE Has("plan", Switch) /\ Goes("effect", Switch)
  <2>1. pass = 2
    BY <1>1, <1>8, StageNumbers DEF DeliveryInv, PassTells, Asked, Has, Register, Switch
  <2>2. Switch <= Sent
    BY <1>1, <2>1, StageNumbers DEF DeliveryInv, PassTells, PlaceTells, Unsettled, Underway, Asked, Has
  <2>3. PlaceTells'
    BY <1>1, <1>3, <1>8, <2>1, <2>2
    DEF Registered, Goes, DeliveryInv, PlaceTells, Unsettled, Underway, AllLanded, Sent, Switch
  <2>4. PassTells'
    BY <1>3, <1>8, <2>1
    DEF Registered, Goes, DeliveryInv, PassTells, Preparation, Drain, Attach, Start, Switch
  <2>5. CohortTells'
    BY <1>1, <1>3, <1>8, CohortKept DEF Registered, Goes, Reread
  <2> QED
    BY <1>6, <1>7, <2>3, <2>4, <2>5 DEF DeliveryInv
<1>9. CASE ~ Has("plan", Switch) /\ Goes("before", Drain)
  <2>1. pass = 1
    BY <1>1, <1>9, StageNumbers DEF DeliveryInv, PassTells, JournalTells, Asked, Has
  <2>2. Sent = 1
    BY <1>1, <2>1 DEF DeliveryInv, PlaceTells, Register
  <2>3. PlaceTells'
    BY <1>1, <1>3, <1>9, <2>1, <2>2
    DEF Registered, Goes, DeliveryInv, PlaceTells, Unsettled, Underway, AllLanded, Sent, Drain, Preparation
  <2>4. PassTells'
    BY <1>1, <1>3, <1>9, <2>1, StageNumbers
    DEF Registered, Goes, DeliveryInv, PassTells, Register, Drain, Switch
  <2>5. CohortTells'
    BY <1>1, <1>3, <1>9, CohortKept DEF Registered, Goes, Reread
  <2> QED
    BY <1>6, <1>7, <2>3, <2>4, <2>5 DEF DeliveryInv
<1> QED
  BY <1>2, <1>5, <1>8, <1>9

LEMMA AfterPreparationKeeps ==
  ASSUME DeliveryInv, AfterPreparation
  PROVE  DeliveryInv'
<1> USE DEF cloud, facts, local, storage
<1>1. /\ pc = "after" /\ stage \in Preparation /\ TypeOK /\ AllLanded /\ fresh' = TRUE
      /\ Sent \in Nat /\ verdict' = verdict /\ pass = 1 /\ stage = Sent
  BY DEF AfterPreparation, Snapshot, DeliveryInv, TypeOK, PlaceTells, PassTells, InDoubt, Sent
<1>2. ASSUME Typed', Stores({}), Raises PROVE DeliveryInv'
  <2>1. ~ (pass = 1 /\ Asked("success", Operation)')
    BY <1>1, <1>2, NoneAsked DEF DeliveryInv, PassTells
  <2> QED
    BY <1>1, <1>2, <2>1, PlainIsTruthful, RaisedSame DEF AfterPreparation
<1>3. CASE Unreadable({})
  BY <1>1, <1>2, <1>3, UnreadableMoves DEF AfterPreparation
<1>4. CASE Raise("plain", Operation) /\ UNCHANGED faults
  BY <1>1, <1>2, <1>4, PlainMoves DEF AfterPreparation
<1>5. CASE /\ IF stage = Start THEN Goto("startup", Start) ELSE Goto("before", stage + 1)
           /\ UNCHANGED faults
  <2>1. \/ stage = Start /\ Goto("startup", Start)
        \/ stage \in {Drain, Attach} /\ stage + 1 \in STAGES /\ Goto("before", stage + 1)
    BY <1>1, <1>5, StageNumbers DEF Preparation, Drain, Attach, Start
  <2>2. /\ Typed' /\ Stores({})
        /\ \/ stage = Start /\ Goes("startup", Start)
           \/ stage \in {Drain, Attach} /\ Goes("before", stage + 1)
    BY <1>1, <1>5, <2>1, GotoMoves, StageNumbers DEF AfterPreparation, Places
  <2>3. TypeOK'
    BY <1>1, <2>2, TypeKept DEF AfterPreparation, TypeOK
  <2>4. JournalTells'
    BY <2>2, PlainIsTruthful, TruthfulKept DEF DeliveryInv, AfterPreparation
  <2>5. PlaceTells'
    <3>1. Sent' = Sent /\ (AllLanded' <=> AllLanded)
      BY DEF AfterPreparation, Sent, AllLanded
    <3>2. \A s \in STAGES : Asked("attempt", s)' => s <= Sent
      BY <1>1, <2>2, NoneAsked DEF DeliveryInv, PlaceTells, Unsettled, Underway
    <3>3. CASE stage = Start /\ Goes("startup", Start)
      BY <1>1, <3>1, <3>2, <3>3
      DEF AfterPreparation, Goes, DeliveryInv, PlaceTells, Unsettled, Underway
    <3>4. CASE stage \in {Drain, Attach} /\ Goes("before", stage + 1)
      BY <1>1, <3>1, <3>2, <3>4
      DEF AfterPreparation, Goes, DeliveryInv, PlaceTells, Unsettled, Underway, Preparation,
          Drain, Attach, Start
    <3> QED
      BY <2>2, <3>3, <3>4
  <2>6. PassTells'
    BY <1>1, <2>2, NoneAsked, StageNumbers
    DEF AfterPreparation, Goes, DeliveryInv, PassTells, Preparation, Drain, Attach, Start, Switch
  <2>7. CohortTells'
    BY <1>1, <2>2, NoneAsked, CohortKept DEF AfterPreparation, Goes, Reread
  <2> QED
    BY <2>3, <2>4, <2>5, <2>6, <2>7 DEF DeliveryInv
<1> QED
  BY <1>3, <1>4, <1>5 DEF AfterPreparation

LEMMA StartupKeeps ==
  ASSUME DeliveryInv, Startup
  PROVE  DeliveryInv'
<1> USE DEF cloud, facts, storage
<1> DEFINE keys == {<<"startup", Operation>>}
<1>1. /\ pc = "startup" /\ stage = Start /\ TypeOK /\ AllLanded /\ fresh' = TRUE
      /\ pass = 1 /\ Sent = Start
      /\ UNCHANGED <<cloud, facts, pass, preparing, seen, accepted, verdict>>
  BY DEF Startup, Snapshot, DeliveryInv, TypeOK, PlaceTells, InDoubt
<1>2. /\ Typed' /\ Stores(keys)
      /\ Goes("gate", Start) \/ Raises
  <2>1. CASE Put(<<"startup", Operation>>, "gate", Start)
    BY <1>1, <2>1, PutMoves, Keys, StageNumbers DEF Places
  <2>2. CASE Raise("plain", Operation) /\ UNCHANGED <<storage, faults>>
    BY <1>1, <2>2, PlainMoves DEF Stores
  <2>3. CASE Unreadable({Operation}) /\ UNCHANGED storage
    BY <1>1, <2>3, UnreadableMoves DEF Stores
  <2> QED
    BY <2>1, <2>2, <2>3 DEF Startup
<1>3. \A kind, scope : /\ Has(kind, scope) => Has(kind, scope)'
                       /\ Asked(kind, scope)' => Asked(kind, scope) \/ kind = "startup"
  BY <1>2 DEF Stores, Has, Asked
<1>4. Truthful(keys)
  BY PlainIsTruthful
<1>5. startup' \in Nat /\ seen' \in Services /\ accepted' \in Nat
  BY <1>1 DEF Startup, TypeOK, Services
<1> HIDE DEF keys
<1>6. CASE Raises
  <2>1. ~ Asked("success", Operation)'
    BY <1>1, <1>3 DEF DeliveryInv, PassTells
  <2>2. ~ (pass = 2 \/ stage >= Switch) /\ preparing' \in {preparing, 0}
    BY <1>1 DEF Start, Switch
  <2> QED
    BY <1>1, <1>2, <1>4, <1>5, <1>6, <2>1, <2>2, RaisedInv
<1>7. CASE Goes("gate", Start)
  <2>1. TypeOK'
    BY <1>1, <1>2, <1>5, TypeKept DEF TypeOK
  <2>2. JournalTells'
    BY <1>1, <1>2, <1>4, TruthfulKept DEF DeliveryInv
  <2>3. PlaceTells'
    BY <1>1, <1>3, <1>7
    DEF Goes, DeliveryInv, PlaceTells, Unsettled, Underway, AllLanded, Sent, Start
  <2>4. PassTells'
    BY <1>1, <1>3, <1>7 DEF Goes, DeliveryInv, PassTells, Start, Switch
  <2>5. CohortTells'
    BY <1>1, <1>3, <1>7, CohortKept DEF Goes, Reread
  <2> QED
    BY <2>1, <2>2, <2>3, <2>4, <2>5 DEF DeliveryInv
<1> QED
  BY <1>2, <1>6, <1>7

LEMMA GateKeeps ==
  ASSUME DeliveryInv, Gate
  PROVE  DeliveryInv'
<1> USE DEF cloud, facts, storage
<1>1. /\ pc = "gate" /\ stage = Start /\ TypeOK /\ AllLanded /\ fresh' = fresh /\ fresh \in BOOLEAN
      /\ pass = 1 /\ Sent = Start /\ Stores({}) /\ preparing' \in {preparing, 0}
      /\ UNCHANGED <<storage, cloud, facts, faults, pass, preparing, seen, startup, verdict>>
  BY DEF Gate, DeliveryInv, TypeOK, PlaceTells, InDoubt, Stores
<1>2. startup' \in Nat /\ seen' \in Services /\ accepted' \in Nat
  BY <1>1 DEF Gate, TypeOK, Services
<1>3. CASE Raise("plain", Operation)
  <2>1. Typed' /\ Raises
    BY <1>1, <1>3, PlainMoves
  <2>2. ~ Asked("success", Operation)'
    BY <1>1, NoneAsked DEF DeliveryInv, PassTells
  <2>3. ~ (pass = 2 \/ stage >= Switch)
    BY <1>1 DEF Start, Switch
  <2> QED
    BY <1>1, <1>2, <2>1, <2>2, <2>3, PlainIsTruthful, RaisedInv
<1>4. CASE InContext /\ accepted' = service.cohort /\ Goto("final", Start)
  <2>1. Typed' /\ Goes("final", Start)
    BY <1>1, <1>4, GotoMoves, StageNumbers DEF Places
  <2>2. TypeOK'
    BY <1>1, <1>2, <2>1, TypeKept DEF TypeOK
  <2>3. JournalTells'
    BY <1>1, PlainIsTruthful, TruthfulKept DEF DeliveryInv
  <2>4. PlaceTells'
    BY <1>1, <2>1, NoneAsked
    DEF Goes, DeliveryInv, PlaceTells, Unsettled, Underway, AllLanded, Sent, Start
  <2>5. PassTells'
    BY <1>1, <1>4, <2>1, NoneAsked DEF Goes, DeliveryInv, PassTells, InContext
  <2>6. CohortTells'
    BY <1>1, <2>1, NoneAsked, CohortKept DEF Goes, Reread
  <2> QED
    BY <2>2, <2>3, <2>4, <2>5, <2>6 DEF DeliveryInv
<1> QED
  BY <1>3, <1>4 DEF Gate

LEMMA FinalKeeps ==
  ASSUME DeliveryInv, Final
  PROVE  DeliveryInv'
<1> USE DEF cloud, facts, local, storage
<1> DEFINE keys == {<<"activation", Operation>>}
<1>1. /\ pc = "final" /\ stage = Start /\ TypeOK /\ AllLanded /\ fresh' = TRUE
      /\ pass = 1 /\ Sent = Start
  BY DEF Final, Snapshot, DeliveryInv, TypeOK, PlaceTells, InDoubt
<1>2. /\ Typed' /\ Stores(keys)
      /\ Goes("effect", Switch) \/ Raises
  <2>1. CASE Put(<<"activation", Operation>>, "effect", Switch)
    BY <1>1, <2>1, PutMoves, Keys, StageNumbers DEF Places
  <2>2. CASE Raise("plain", Operation) /\ UNCHANGED <<storage, faults>>
    BY <1>1, <2>2, PlainMoves DEF Stores
  <2>3. CASE Unreadable({Operation}) /\ UNCHANGED storage
    BY <1>1, <2>3, UnreadableMoves DEF Stores
  <2> QED
    BY <2>1, <2>2, <2>3 DEF Final
<1>3. \A kind, scope : /\ Has(kind, scope) => Has(kind, scope)'
                       /\ Asked(kind, scope)' => Asked(kind, scope) \/ kind = "activation"
  BY <1>2 DEF Stores, Has, Asked
<1>4. Truthful(keys)
  BY PlainIsTruthful
<1> HIDE DEF keys
<1>5. CASE Raises
  <2>1. ~ Asked("success", Operation)'
    BY <1>1, <1>3 DEF DeliveryInv, PassTells
  <2> QED
    BY <1>1, <1>2, <1>4, <1>5, <2>1, RaisedSame DEF Final
<1>6. CASE Goes("effect", Switch)
  <2>1. TypeOK'
    BY <1>1, <1>2, TypeKept DEF Final, TypeOK
  <2>2. JournalTells'
    BY <1>2, <1>4, TruthfulKept DEF DeliveryInv, Final
  <2>3. PlaceTells'
    BY <1>1, <1>3, <1>6
    DEF Final, Goes, DeliveryInv, PlaceTells, Unsettled, Underway, AllLanded, Sent, Start, Switch
  <2>4. PassTells'
    BY <1>1, <1>3, <1>6, StageNumbers DEF Final, Goes, DeliveryInv, PassTells, Start, Switch
  <2>5. CohortTells'
    BY <1>1, <1>3, <1>6, CohortKept DEF Final, Goes, Reread
  <2> QED
    BY <2>1, <2>2, <2>3, <2>4, <2>5 DEF DeliveryInv
<1> QED
  BY <1>2, <1>5, <1>6

LEMMA AfterSwitchKeeps ==
  ASSUME DeliveryInv, AfterSwitch
  PROVE  DeliveryInv'
<1> USE DEF cloud, facts, local, storage
<1>1. /\ pc = "after" /\ stage \in {Switch, Candidate} /\ TypeOK /\ AllLanded /\ fresh' = TRUE
      /\ Sent \in Nat /\ verdict' = verdict /\ stage <= Sent /\ (pass = 1 => stage = Sent)
  BY DEF AfterSwitch, Snapshot, DeliveryInv, TypeOK, PlaceTells, InDoubt, Sent
<1>2. ASSUME Typed', Stores({}), Raises PROVE DeliveryInv'
  <2>1. ~ (pass = 1 /\ Asked("success", Operation)')
    BY <1>1, <1>2, NoneAsked DEF DeliveryInv, PassTells
  <2> QED
    BY <1>1, <1>2, <2>1, PlainIsTruthful, RaisedSame DEF AfterSwitch
<1>3. CASE Unreadable({Operation})
  BY <1>1, <1>2, <1>3, UnreadableMoves DEF AfterSwitch
<1>4. CASE Raise("plain", Operation) /\ UNCHANGED faults
  BY <1>1, <1>2, <1>4, PlainMoves DEF AfterSwitch
<1>5. CASE Goto("effect", stage + 1) /\ UNCHANGED faults
  <2>1. stage \in Nat /\ stage + 1 \in STAGES
    BY <1>1, StageNumbers DEF Switch, Candidate
  <2>2. Typed' /\ Stores({}) /\ Goes("effect", stage + 1)
    BY <1>1, <1>5, <2>1, GotoMoves DEF AfterSwitch, Places
  <2>3. TypeOK'
    BY <1>1, <2>2, TypeKept DEF AfterSwitch, TypeOK
  <2>4. JournalTells'
    BY <2>2, PlainIsTruthful, TruthfulKept DEF DeliveryInv, AfterSwitch
  <2>5. PlaceTells'
    BY <1>1, <2>1, <2>2, NoneAsked
    DEF AfterSwitch, Goes, DeliveryInv, PlaceTells, Unsettled, Underway, AllLanded, Sent
  <2>6. PassTells'
    <3>1. startup = accepted /\ stage + 1 \notin Preparation
      BY <1>1 DEF DeliveryInv, PassTells, Preparation, Drain, Attach, Start, Switch, Candidate
    <3>2. pass = 1 => \A s \in STAGES : Asked("plan", s)' => s <= stage + 1
      BY <2>1, <2>2, NoneAsked, StageNumbers DEF DeliveryInv, PassTells
    <3> QED
      BY <1>1, <2>2, <3>1, <3>2, NoneAsked DEF AfterSwitch, Goes, DeliveryInv, PassTells
  <2>7. CohortTells'
    BY <1>1, <2>2, NoneAsked, CohortKept DEF AfterSwitch, Goes, Reread
  <2> QED
    BY <2>3, <2>4, <2>5, <2>6, <2>7 DEF DeliveryInv
<1> QED
  BY <1>3, <1>4, <1>5 DEF AfterSwitch, Check

LEMMA ReceiptKeeps ==
  ASSUME DeliveryInv, Receipt
  PROVE  DeliveryInv'
<1> USE DEF cloud, facts, local, storage
<1>1. /\ pc = "after" /\ stage = Cleanup /\ TypeOK /\ AllLanded /\ fresh' = TRUE
      /\ Sent \in Nat /\ verdict' = "none" /\ Sent <= 7 /\ stage <= Sent
  BY DEF Receipt, Snapshot, DeliveryInv, TypeOK, PlaceTells, JournalTells, InTurn, InDoubt, Sent
<1>2. ASSUME Typed', Stores({}), Raises PROVE DeliveryInv'
  <2>1. ~ (pass = 1 /\ Asked("success", Operation)')
    BY <1>1, <1>2, NoneAsked DEF DeliveryInv, PassTells
  <2> QED
    BY <1>1, <1>2, <2>1, PlainIsTruthful, RaisedSame DEF Receipt
<1>3. CASE Unreadable({Operation}) /\ UNCHANGED storage
  BY <1>1, <1>2, <1>3, UnreadableMoves DEF Receipt
<1>4. CASE Raise("plain", Operation) /\ UNCHANGED <<storage, faults>>
  BY <1>1, <1>2, <1>4, PlainMoves DEF Receipt
<1>5. CASE /\ Prepared(1) /\ InContext /\ \A s \in STAGES : Has("observed", s)
           /\ Put(<<"success", Operation>>, "written", Cleanup)
  <2> DEFINE keys == {<<"success", Operation>>}
  <2>1. /\ Typed' /\ Stores(keys)
        /\ Goes("written", Cleanup) \/ Raises
    BY <1>1, <1>5, PutMoves, Keys, StageNumbers DEF Places
  <2>2. \A kind, scope : /\ Has(kind, scope) => Has(kind, scope)'
                         /\ Asked(kind, scope)' => Asked(kind, scope) \/ kind = "success"
    BY <2>1 DEF Stores, Has, Asked
  <2>3. Truthful(keys)
    BY <1>5 DEF Truthful
  <2> HIDE DEF keys
  <2>4. Served'
    <3>1. startup = accepted
      BY <1>1 DEF DeliveryInv, PassTells, Cleanup, Switch
    <3> QED
      BY <1>5, <3>1 DEF Receipt, Served, Prepared, InContext
  <2>5. CASE Raises
    BY <1>1, <2>1, <2>3, <2>4, <2>5, RaisedSame DEF Receipt
  <2>6. CASE Goes("written", Cleanup)
    <3>1. TypeOK'
      BY <1>1, <2>1, TypeKept DEF Receipt, TypeOK
    <3>2. JournalTells'
      BY <2>1, <2>3, TruthfulKept DEF DeliveryInv, Receipt
    <3>3. PlaceTells'
      <4>1. Sent = 7
        BY <1>1 DEF Cleanup
      <4>3. Sent' = Sent /\ AllLanded'
        BY <1>1 DEF Receipt, Sent, AllLanded
      <4>2. \A s \in STAGES : Asked("attempt", s)' => s <= Sent
        BY <1>1, <2>2 DEF DeliveryInv, PlaceTells, Unsettled, Underway
      <4> QED
        BY <1>1, <2>6, <4>1, <4>2, <4>3
        DEF Receipt, Goes, DeliveryInv, PlaceTells, Underway
    <3>4. PassTells'
      BY <1>1, <2>2, <2>6 DEF Receipt, Goes, DeliveryInv, PassTells
    <3>5. CohortTells'
      BY <2>4, <2>6 DEF Goes, CohortTells
    <3> QED
      BY <3>1, <3>2, <3>3, <3>4, <3>5 DEF DeliveryInv
  <2> QED
    BY <2>1, <2>5, <2>6
<1> QED
  BY <1>3, <1>4, <1>5 DEF Receipt
-------------------------------------------------------------------------------
(* The theorems.                                                            *)

LEMMA InitDelivery ==
  ASSUME Init
  PROVE  DeliveryInv
<1>1. service \in Services
  BY DEF Init, Services
<1>2. TypeOK
  <2>1. /\ calls \in Seq(STAGES) /\ seen \in Services
        /\ error \in [kind : {"none", "plain", "journal", "unwritten", "uncertain"},
                      scope : {Operation} \cup STAGES]
    BY <1>1 DEF Init, NoError
  <2>2. records \subseteq Key /\ late \subseteq Key /\ flight \subseteq STAGES /\ landed \subseteq STAGES
    BY DEF Init
  <2>3. /\ authorized \in BOOLEAN /\ expired \in BOOLEAN /\ fresh \in BOOLEAN
        /\ pass \in {1, 2} /\ preparing \in {0} \cup STAGES /\ startup \in Nat /\ accepted \in Nat
        /\ pc \in Places /\ verdict \in {"none", "SUCCESS", "FAILURE", "UNCERTAIN"}
    BY DEF Init, Places
  <2>4. stage \in STAGES
    BY StageNumbers DEF Init
  <2>5. faults \in 0 .. MaxFaults
    BY DEF Init
  <2> QED
    BY <1>1, <2>1, <2>2, <2>3, <2>4, <2>5 DEF TypeOK
<1>3. Sent = 0
  BY DEF Init, Sent
<1>4. JournalTells
  BY <1>3, StageNumbers DEF Init, JournalTells, InTurn, Asked, Has
<1>5. PlaceTells
  BY <1>3 DEF Init, PlaceTells, AllLanded, InDoubt, Unsettled, Underway, Asked, Has, Switch
<1>6. PassTells
  BY DEF Init, PassTells, Asked
<1>7. CohortTells
  BY DEF Init, CohortTells, Asked
<1> QED
  BY <1>2, <1>4, <1>5, <1>6, <1>7 DEF DeliveryInv

LEMMA NextDelivery ==
  ASSUME DeliveryInv, [Next]_vars
  PROVE  DeliveryInv'
<1>1. CASE World
  BY <1>1, WorldKeeps
<1>2. CASE Run
  BY <1>2, AcceptKeeps, ReconcileKeeps, ResumeKeeps, BeforeKeeps, EffectKeeps, PlanKeeps,
     AttemptKeeps, GuardKeeps, CallKeeps, ObserveKeeps, EvidenceKeeps, RegisteredKeeps,
     AfterPreparationKeeps, StartupKeeps, GateKeeps, FinalKeeps, AfterSwitchKeeps, ReceiptKeeps,
     WrittenKeeps DEF Run
<1>3. CASE Owned \/ Conclude \/ Blocked \/ Recover \/ Reconcile("recheck", "readback")
           \/ Readback \/ Topology
  BY <1>3, OwnedKeeps, ConcludeKeeps, BlockedKeeps, RecoverKeeps, ReconcileKeeps, ReadbackKeeps,
     TopologyKeeps
<1>4. CASE UNCHANGED vars
  <2> USE <1>4 DEF vars, storage, cloud, facts, local
  <2>1. Stores({})
    BY DEF Stores
  <2>2. JournalTells' /\ PlaceTells' /\ PassTells'
    BY <2>1, LateLands
  <2>3. TypeOK' /\ CohortTells'
    BY DEF DeliveryInv, TypeOK, CohortTells, Served, Prepared, Asked
  <2> QED
    BY <2>2, <2>3 DEF DeliveryInv
<1> QED
  BY <1>1, <1>2, <1>3, <1>4 DEF Next, RunOwned

LEMMA DeliveryAlways == Spec => []DeliveryInv
  BY InitDelivery, NextDelivery, PTL DEF Spec

\* Traffic is given, and the former colour's routes and capacity taken away, only
\* while the cohort that E3 accepted is running, and it still runs when SUCCESS is
\* returned, or ECS moved since the last snapshot (delivery.py: the guards of
\* switch, candidate and cleanup, and the receipt).
THEOREM ServesAcceptedAlways == Spec => []ServesAccepted
<1>1. DeliveryInv => ServesAccepted
  <2>1. SUFFICES ASSUME DeliveryInv PROVE ServesAccepted
    OBVIOUS
  <2>2. fresh /\ ((pc = "call" /\ stage >= Switch) \/ verdict = "SUCCESS") =>
          Prepared(1) /\ service.cohort = accepted
    BY <2>1 DEF DeliveryInv, CohortTells, Served
  <2> QED
    BY <2>1, <2>2 DEF DeliveryInv, ServesAccepted, Prepared
<1> QED
  BY <1>1, DeliveryAlways, PTL
-------------------------------------------------------------------------------
(* The refinement: a call is a Send, a late effect a Land, the return a      *)
(* Report, and everything else a stutter.                                   *)

\* Who touches what the abstract specification sees.
LEMMA OnlyCallLandReturn ==
  ASSUME Next
  PROVE  \/ Call
         \/ \E s \in STAGES : LandCall(s)
         \/ \E status \in {"SUCCESS", "FAILURE", "UNCERTAIN"} :
              Return(status) /\ UNCHANGED <<calls, landed>> /\ pc # "done"
         \/ UNCHANGED <<calls, landed, verdict>>
<1> USE DEF cloud
<1>1. CASE World
  BY <1>1 DEF World, Converge, Replace, Revoke, Expire, LandPut
<1>2. CASE Run
  BY <1>2 DEF Run, Accept, Reconcile, Resume, Before, Effect, Plan, Attempt, Guard, Observe, Evidence,
     Registered, AfterPreparation, Startup, Gate, Final, AfterSwitch, Receipt, Written
<1>3. CASE Owned \/ Conclude \/ Blocked \/ Recover \/ Reconcile("recheck", "readback")
           \/ Readback \/ Topology
  BY <1>3 DEF Owned, Conclude, Blocked, Recover, Reconcile, Readback, Topology
<1> QED
  BY <1>1, <1>2, <1>3 DEF Next, RunOwned

LEMMA CallSends ==
  ASSUME DeliveryInv, Call
  PROVE  [Staged!Next]_Staged!vars
<1>1. /\ AllLanded /\ TypeOK /\ verdict = "none" /\ stage = Sent + 1 /\ stage \in STAGES /\ verdict' = verdict
  BY DEF Call, DeliveryInv, TypeOK, PlaceTells, InDoubt
<1>2. CASE UNCHANGED cloud
  BY <1>1, <1>2 DEF cloud, Staged!vars
<1>3. CASE /\ calls' = Append(calls, stage)
           /\ landed' \in {landed, landed \cup {stage}}
  <2>1. Len(calls) < 7
    BY <1>1, StageNumbers DEF Sent, TypeOK
  <2>2. Staged!Send
    BY <1>1, <1>3, <2>1 DEF Staged!Send, AllLanded, Sent
  <2> QED
    BY <2>2 DEF Staged!Next
<1> QED
  BY <1>2, <1>3 DEF Call, cloud

LEMMA LandLands ==
  ASSUME DeliveryInv, NEW s \in STAGES, LandCall(s)
  PROVE  [Staged!Next]_Staged!vars
<1>1. s \in 1 .. Sent /\ s \notin landed /\ landed' = landed \cup {s} /\ UNCHANGED <<calls, verdict>>
  BY DEF LandCall, DeliveryInv, JournalTells
<1>2. s \in Staged!Sent
  BY <1>1 DEF Staged!Sent, DeliveryInv, JournalTells, InTurn, Sent
<1>3. Staged!Land
  BY <1>1, <1>2 DEF Staged!Land
<1> QED
  BY <1>3 DEF Staged!Next

LEMMA ReturnReports ==
  ASSUME DeliveryInv, DeliveryInv', NEW status \in {"SUCCESS", "FAILURE", "UNCERTAIN"},
         Return(status), UNCHANGED <<calls, landed>>, pc # "done"
  PROVE  Staged!Next
<1>1. verdict = "none" /\ verdict' = status /\ pc' = "done"
  BY DEF Return, DeliveryInv, PlaceTells
<1>2. Staged!Sent = 1 .. Sent
  BY DEF Staged!Sent, DeliveryInv, JournalTells, InTurn, Sent
<1>3. verdict' = "SUCCESS" => landed = 1 .. 7
  BY DEF DeliveryInv, PlaceTells, AllLanded, Sent
<1>4. verdict' = "FAILURE" => landed = 1 .. Sent /\ Switch \notin 1 .. Sent
  <2>1. SUFFICES ASSUME verdict' = "FAILURE" PROVE landed = 1 .. Sent /\ Switch \notin 1 .. Sent
    OBVIOUS
  <2>2. AllLanded' /\ Switch > Sent' /\ Sent' = Sent
    BY <1>1, <2>1 DEF DeliveryInv, PlaceTells, InDoubt, Sent
  <2>3. Sent \in Nat
    BY DEF DeliveryInv, TypeOK, Sent
  <2> QED
    BY <2>2, <2>3 DEF AllLanded, Switch
<1>5. Staged!Report
  BY <1>1, <1>2, <1>3, <1>4 DEF Staged!Report
<1> QED
  BY <1>5 DEF Staged!Next

\* The delivery, over both passes and whatever is lost or lands late, sends its
\* mutations in order, each once and only when the earlier ones have taken effect,
\* and reports what is so (delivery.py: effect, reconcile, run and its except clause).
THEOREM DeliveryIsStaged == Spec => StagedSpec
<1>1. Init => Staged!Init
  BY DEF Init, Staged!Init
<1>2. ASSUME DeliveryInv, DeliveryInv', [Next]_vars PROVE [Staged!Next]_Staged!vars
  <2>1. CASE Call
    BY <1>2, <2>1, CallSends
  <2>2. CASE \E s \in STAGES : LandCall(s)
    BY <1>2, <2>2, LandLands
  <2>3. CASE \E status \in {"SUCCESS", "FAILURE", "UNCERTAIN"} :
               Return(status) /\ UNCHANGED <<calls, landed>> /\ pc # "done"
    <3>1. PICK status \in {"SUCCESS", "FAILURE", "UNCERTAIN"} :
                 Return(status) /\ UNCHANGED <<calls, landed>> /\ pc # "done"
      BY <2>3
    <3> QED
      BY <1>2, <3>1, ReturnReports
  <2>4. CASE UNCHANGED <<calls, landed, verdict>>
    BY <2>4 DEF Staged!vars
  <2>5. CASE UNCHANGED vars
    BY <2>5 DEF vars, cloud, Staged!vars
  <2> QED
    BY <1>2, <2>1, <2>2, <2>3, <2>4, <2>5, OnlyCallLandReturn
<1> QED
  BY <1>1, <1>2, DeliveryAlways, PTL DEF Spec, StagedSpec, Staged!Spec
===============================================================================
