----------------------- MODULE MutationAuthorityProofs -----------------------
(***************************************************************************)
(* Proofs about MutationAuthority, for any invocations, operations,        *)
(* requests and last generation.                                           *)
(***************************************************************************)
EXTENDS MutationAuthority, TLAPS

(***************************************************************************)
(* Type correctness.  What an invocation remembers of the head is the      *)
(* ACTIVE head that it wrote for itself, so the values it builds from it   *)
(* are heads too.                                                          *)
(***************************************************************************)
ValueIsOwn ==
  \A i \in Invocations :
    pc[i] \notin {"idle", "retained", "done"} =>
      /\ value[i] \in Heads
      /\ value[i].state = "ACTIVE"
      /\ value[i].owner = i
      /\ value[i].operation = OperationOf[i]
      /\ value[i].request = RequestOf[i]

ReleasingIsReported ==
  \A i \in Invocations :
    pc[i] = "settling" => result[i] \in {"SUCCESS", "FAILURE"}

Typed == TypeOK /\ ValueIsOwn /\ ReleasingIsReported

USE AuthorityAssumption

LEMMA InitTyped == Init => Typed
<1> SUFFICES ASSUME Init PROVE Typed
  OBVIOUS
<1>1. head \in Heads
  BY DEF Init, Heads, Generations
<1>2. TypeOK
  BY <1>1 DEF Init, TypeOK, Generations, Places, Results
<1>3. ValueIsOwn /\ ReleasingIsReported
  BY DEF Init, ValueIsOwn, ReleasingIsReported
<1> QED
  BY <1>2, <1>3 DEF Typed

\* The heads that an invocation writes are heads.
LEMMA GrantedIsHead ==
  ASSUME TypeOK, NEW i \in Invocations, Admissible(i, head)
  PROVE  Granted(i, head) \in Heads
BY DEF TypeOK, Admissible, Granted, Heads, Generations

LEMMA ScheduledIsHead ==
  ASSUME Typed, NEW i \in Invocations, pc[i] \in {"owner", "scheduling"}
  PROVE  /\ ScheduleProof(i) \in Proofs
         /\ Scheduled(i) \in Heads
         /\ Scheduled(i).state = "ACTIVE"
         /\ Scheduled(i).owner = i
         /\ Scheduled(i).operation = OperationOf[i]
         /\ Scheduled(i).request = RequestOf[i]
         /\ Scheduled(i).generation = value[i].generation
<1>1. value[i] \in Heads /\ value[i].operation = OperationOf[i]
  BY DEF Typed, ValueIsOwn
<1>2. ScheduleProof(i) \in Proofs
  BY <1>1 DEF ScheduleProof, Proofs, Heads
<1> QED
  BY <1>1, <1>2 DEF Scheduled, Heads, Typed, ValueIsOwn

LEMMA ReleasedIsHead ==
  ASSUME NEW i \in Invocations, value[i] \in Heads, NEW successful \in BOOLEAN
  PROVE  /\ Released(i, successful) \in Heads
         /\ Released(i, successful).state = "RELEASED"
         /\ Released(i, successful).owner = value[i].owner
         /\ Released(i, successful).generation = value[i].generation
BY DEF Released, Heads

LEMMA NextTyped == Typed /\ [Next]_vars => Typed'
<1> SUFFICES ASSUME Typed, [Next]_vars PROVE Typed'
  OBVIOUS
<1> USE DEF stored, network, world, local
<1>1. ASSUME NEW w \in headWrites, LandHead(w) PROVE Typed'
  <2>1. w.expected \in Heads /\ w.value \in Heads
    BY DEF Typed, TypeOK, HeadWrites
  <2>2. head' \in Heads /\ activation' \in Generations
    BY <1>1, <2>1 DEF LandHead, Typed, TypeOK, Heads
  <2> QED
    BY <1>1, <2>2 DEF LandHead, Typed, TypeOK, ValueIsOwn, ReleasingIsReported
<1>2. ASSUME NEW w \in headWrites, LoseHead(w) PROVE Typed'
  BY <1>2 DEF LoseHead, Typed, TypeOK, ValueIsOwn, ReleasingIsReported
<1>3. ASSUME NEW w \in terminalWrites, LandTerminal(w) PROVE Typed'
  <2>1. terminals' \in [Operations -> Terminals \cup {Null}]
    BY <1>3 DEF LandTerminal, Typed, TypeOK, TerminalWrites
  <2> QED
    BY <1>3, <2>1 DEF LandTerminal, Typed, TypeOK, ValueIsOwn, ReleasingIsReported
<1>4. ASSUME NEW w \in terminalWrites, LoseTerminal(w) PROVE Typed'
  BY <1>4 DEF LoseTerminal, Typed, TypeOK, ValueIsOwn, ReleasingIsReported
<1>5. ASSUME NEW m \in mutations, LandMutation(m) PROVE Typed'
  <2>1. landed' \in Generations /\ target' \in Proofs \cup {Null}
    BY <1>5 DEF LandMutation, Typed, TypeOK, Mutations
  <2> QED
    BY <1>5, <2>1 DEF LandMutation, Typed, TypeOK, ValueIsOwn, ReleasingIsReported
<1>6. ASSUME NEW m \in mutations, LoseMutation(m) PROVE Typed'
  BY <1>6 DEF LoseMutation, Typed, TypeOK, ValueIsOwn, ReleasingIsReported
<1>7. ASSUME NEW o \in Operations, Fire(o) PROVE Typed'
  BY <1>7 DEF Fire, Typed, TypeOK, ValueIsOwn, ReleasingIsReported
<1>8. ASSUME NEW i \in Invocations, Execute(i) PROVE Typed'
  <2> USE DEF Continue, Report, Typed, TypeOK, ValueIsOwn, ReleasingIsReported, Places, Results
  <2>1. CASE Retained(i)
    <3>1. terminals[OperationOf[i]] # Null => terminals[OperationOf[i]].status \in Results
      BY DEF Terminals
    <3> QED
      BY <2>1, <3>1 DEF Retained
  <2>2. CASE Acquire(i)
    <3>1. CASE Admissible(i, head) /\ Continue(i, "acquiring")
      <4>1. Granted(i, head) \in Heads
        BY <3>1, GrantedIsHead
      <4>2. headWrites' \subseteq HeadWrites
        BY <2>2, <3>1, <4>1 DEF Acquire, HeadWrites
      <4> QED
        BY <2>2, <3>1, <4>1, <4>2 DEF Acquire, Granted
    <3>2. CASE Report(i, "UNCERTAIN") /\ UNCHANGED <<headWrites, value>>
      BY <2>2, <3>2 DEF Acquire
    <3> QED
      BY <2>2, <3>1, <3>2 DEF Acquire
  <2>3. CASE AcquireRead(i)
    BY <2>3 DEF AcquireRead
  <2>4. CASE Call(i)
    BY <2>4 DEF Call
  <2>5. CASE Dispatch(i)
    <3>1. value[i].generation \in Generations /\ value[i].schedule \in Proofs \cup {Null}
      BY <2>5 DEF Dispatch, Heads
    <3>2. mutations' \subseteq Mutations
      BY <2>5, <3>1 DEF Dispatch, Mutations
    <3> QED
      BY <2>5, <3>2 DEF Dispatch
  <2>6. CASE CallExpires(i)
    BY <2>6 DEF CallExpires
  <2>7. CASE Schedule(i)
    <3>1. Scheduled(i) \in Heads
      BY <2>7, ScheduledIsHead DEF Schedule
    <3>2. headWrites' \subseteq HeadWrites
      BY <2>7, <3>1 DEF Schedule, HeadWrites
    <3> QED
      BY <2>7, <3>2 DEF Schedule
  <2>8. CASE ScheduleRead(i)
    <3>1. /\ Scheduled(i) \in Heads
          /\ Scheduled(i).state = "ACTIVE"
          /\ Scheduled(i).owner = i
          /\ Scheduled(i).operation = OperationOf[i]
          /\ Scheduled(i).request = RequestOf[i]
      BY <2>8, ScheduledIsHead DEF ScheduleRead
    <3> QED
      BY <2>8, <3>1 DEF ScheduleRead
  <2>9. ASSUME NEW status \in {"SUCCESS", "FAILURE", "UNCERTAIN", "PLANNED"},
               FinishHeld(i, status)
        PROVE  Typed'
    BY <2>9 DEF FinishHeld
  <2>10. ASSUME NEW status \in {"SUCCESS", "FAILURE"}, FinishTerminal(i, status) PROVE Typed'
    <3>1. Terminal(i, status) \in Terminals
      BY <2>10 DEF FinishTerminal, Terminal, Terminals, Heads
    <3>2. terminalWrites' \subseteq TerminalWrites
      BY <2>10, <3>1 DEF FinishTerminal, TerminalWrites
    <3> QED
      BY <2>10, <3>2 DEF FinishTerminal
  <2>11. CASE FinishPlanned(i)
    <3>1. value[i] \in Heads /\ Released(i, FALSE) \in Heads
      BY <2>11, ReleasedIsHead DEF FinishPlanned
    <3>2. PICK released \in Heads :
            headWrites' = headWrites \cup
              {[by |-> i, expected |-> value[i], value |-> released]}
      BY <2>11, <3>1, Zenon DEF FinishPlanned, ReleasePut
    <3>3. headWrites' \subseteq HeadWrites
      BY <3>1, <3>2 DEF HeadWrites
    <3> QED
      BY <2>11, <3>3 DEF FinishPlanned
  <2>12. CASE SettleRead(i)
    <3>1. value[i] \in Heads /\ Released(i, result[i] = "SUCCESS") \in Heads
      BY <2>12, ReleasedIsHead DEF SettleRead
    <3>2. headWrites' \subseteq HeadWrites
      BY <2>12, <3>1 DEF SettleRead, ReleasePut, HeadWrites
    <3> QED
      BY <2>12, <3>2 DEF SettleRead
  <2>13. CASE ReleaseRead(i)
    BY <2>13 DEF ReleaseRead
  <2>14. CASE Raise(i)
    BY <2>14 DEF Raise
  <2>15. CASE Crash(i)
    BY <2>15 DEF Crash
  <2> QED
    BY <1>8, <2>1, <2>2, <2>3, <2>4, <2>5, <2>6, <2>7, <2>8, <2>9, <2>10, <2>11, <2>12,
       <2>13, <2>14, <2>15 DEF Execute
<1>9. CASE UNCHANGED vars
  BY <1>9 DEF vars, Typed, TypeOK, ValueIsOwn, ReleasingIsReported
<1> QED
  BY <1>1, <1>2, <1>3, <1>4, <1>5, <1>6, <1>7, <1>8, <1>9 DEF Next, Environment

\* Every variable keeps its type, and so every head in storage is one the code
\* accepts, whatever the constants are.
THEOREM TypeCorrect == Spec => []TypeOK
<1>1. Typed => TypeOK
  BY DEF Typed
<1> QED
  BY InitTyped, NextTyped, <1>1, PTL DEF Spec

(***************************************************************************)
(* Fencing.  EffectsFenced is not inductive: a put of the head that is     *)
(* still on its way could give up the domain under a mutation.  What keeps *)
(* it from doing so is the shape of the puts (PutsAreOwn): only the owner  *)
(* ever expects an ACTIVE head, and it sends a release only when it can no *)
(* longer have a mutation in flight (FinishedIsSettled).                   *)
(***************************************************************************)
PutsAreOwn ==
  \A w \in headWrites :
    \/ /\ w.expected.state = "RELEASED"
       /\ w.value.state = "ACTIVE"
       /\ w.value.owner = w.by
       /\ w.value.generation = w.expected.generation + 1
    \/ /\ w.expected.state = "ACTIVE"
       /\ w.expected.owner = w.by
       /\ w.value.owner = w.by
       /\ w.value.generation = w.expected.generation
       /\ w.value.state = "RELEASED" =>
            pc[w.by] \in {"releasing", "done"} /\ Settled(w.by)

FinishedIsSettled ==
  \A i \in Invocations :
    /\ ~ touched[i] => Settled(i)
    /\ pc[i] \in {"calling", "targeting"} => touched[i]
    /\ pc[i] \in {"settling", "releasing"} => Settled(i)

FencingInv == Typed /\ EffectsFenced /\ PutsAreOwn /\ FinishedIsSettled

LEMMA InitFencing == Init => FencingInv
<1> SUFFICES ASSUME Init PROVE FencingInv
  OBVIOUS
<1>1. EffectsFenced /\ PutsAreOwn /\ FinishedIsSettled
  BY DEF Init, EffectsFenced, PutsAreOwn, FinishedIsSettled, Settled
<1> QED
  BY <1>1, InitTyped DEF FencingInv

\* A put of the head that lands admits its sender, or changes the schedule or the
\* state of the head its sender holds.
LEMMA LandHeadFencing ==
  ASSUME FencingInv, NEW w \in headWrites, LandHead(w)
  PROVE  EffectsFenced' /\ PutsAreOwn' /\ FinishedIsSettled'
<1> USE DEF FencingInv, LandHead, local
<1>1. PutsAreOwn' /\ FinishedIsSettled'
  BY DEF PutsAreOwn, FinishedIsSettled, Settled
<1> SUFFICES EffectsFenced'
  BY <1>1
<1>2. CASE head # w.expected
  BY <1>2 DEF EffectsFenced, Holds
<1>3. CASE head = w.expected /\ w.expected.state = "RELEASED"
  <2>1. head.state # "ACTIVE"
    BY <1>3
  <2> QED
    BY <2>1 DEF EffectsFenced, Holds
<1>4. CASE head = w.expected /\ w.expected.state = "ACTIVE"
  <2>1. /\ head' = w.value
        /\ w.value.owner = head.owner
        /\ w.value.generation = head.generation
        /\ head.owner = w.by
        /\ w.value.state = "RELEASED" =>
             pc[w.by] \in {"releasing", "done"} /\ Settled(w.by)
    BY <1>4 DEF PutsAreOwn
  <2>2. CASE w.value.state = "ACTIVE"
    BY <2>1, <2>2 DEF EffectsFenced, Holds
  <2>3. CASE w.value.state = "RELEASED"
    BY <2>1, <2>3 DEF EffectsFenced, Holds, Settled
  <2>4. w.value.state \in {"ACTIVE", "RELEASED"}
    BY DEF Typed, TypeOK, HeadWrites, Heads
  <2> QED
    BY <2>2, <2>3, <2>4
<1>5. w.expected.state \in {"ACTIVE", "RELEASED"}
  BY DEF Typed, TypeOK, HeadWrites, Heads
<1> QED
  BY <1>2, <1>3, <1>4, <1>5

\* A step of execute() leaves the head alone; it adds a mutation only between the
\* ownership read and the return of the guarded call, and a release only when
\* its own mutations are gone.
LEMMA ExecuteFencing ==
  ASSUME FencingInv, NEW i \in Invocations, Execute(i)
  PROVE  EffectsFenced' /\ PutsAreOwn' /\ FinishedIsSettled'
<1> USE DEF FencingInv, Continue, Report, stored, network, world
<1>a. ASSUME UNCHANGED <<headWrites, mutations, touched, head, value>>,
             NEW at \in {"owner", "retained", "scheduled", "settling", "done"},
             pc' = [pc EXCEPT ![i] = at],
             pc[i] \notin {"releasing", "done"} \/ at = "done",
             at = "settling" => Settled(i)
      PROVE  EffectsFenced' /\ PutsAreOwn' /\ FinishedIsSettled'
  BY <1>a DEF EffectsFenced, PutsAreOwn, FinishedIsSettled, Settled, Holds, Typed, TypeOK
<1>1. CASE Retained(i)
  BY <1>1, <1>a DEF Retained
<1>2. CASE Acquire(i)
  <2>1. CASE Admissible(i, head) /\ Continue(i, "acquiring")
    <3> DEFINE put == [by |-> i, expected |-> head, value |-> Granted(i, head)]
    <3>1. /\ put.expected.state = "RELEASED"
          /\ put.value.state = "ACTIVE"
          /\ put.value.owner = put.by
          /\ put.value.generation = put.expected.generation + 1
      BY <2>1 DEF Admissible, Granted
    <3>2. headWrites' \subseteq headWrites \cup {put}
      BY <1>2 DEF Acquire
    <3>3. /\ pc' = [pc EXCEPT ![i] = "acquiring"] /\ pc[i] = "retained"
          /\ UNCHANGED <<head, mutations, touched>>
          /\ \A j \in Invocations : j # i => value'[j] = value[j]
      BY <1>2, <2>1 DEF Acquire, Typed, TypeOK
    <3> HIDE DEF put
    <3>4. PutsAreOwn'
      BY <3>1, <3>2, <3>3 DEF PutsAreOwn, Settled, Typed, TypeOK
    <3>5. EffectsFenced' /\ FinishedIsSettled'
      BY <3>3 DEF EffectsFenced, FinishedIsSettled, Settled, Holds, Typed, TypeOK
    <3> QED
      BY <3>4, <3>5
  <2>2. CASE Report(i, "UNCERTAIN") /\ UNCHANGED <<headWrites, value>>
    BY <1>2, <2>2, <1>a DEF Acquire
  <2> QED
    BY <1>2, <2>1, <2>2 DEF Acquire
<1>3. CASE AcquireRead(i)
  BY <1>3, <1>a DEF AcquireRead
<1>4. CASE Call(i)
  <2>1. /\ pc[i] \in {"owner", "scheduled"}
        /\ pc'[i] \in {"calling", "targeting"}
        /\ \A j \in Invocations : j # i => pc'[j] = pc[j] /\ touched'[j] = touched[j]
        /\ touched'[i] = TRUE
        /\ UNCHANGED <<head, value, mutations, headWrites>>
    BY <1>4 DEF Call, Typed, TypeOK
  <2>2. Holds(i, value[i].generation)
    BY <1>4, <2>1 DEF Call, Owns, Holds, Typed, ValueIsOwn
  <2>3. EffectsFenced'
    BY <2>1, <2>2 DEF EffectsFenced, Holds
  <2>4. PutsAreOwn'
    BY <2>1 DEF PutsAreOwn, Settled, Typed, TypeOK, HeadWrites
  <2>5. FinishedIsSettled'
    BY <2>1 DEF FinishedIsSettled, Settled
  <2> QED
    BY <2>3, <2>4, <2>5
<1>5. CASE Dispatch(i)
  <2>1. PICK m : /\ m.by = i
                 /\ m.generation = value[i].generation
                 /\ mutations' = mutations \cup {m}
    BY <1>5 DEF Dispatch
  <2>2. /\ pc[i] \in {"calling", "targeting"}
        /\ pc' = [pc EXCEPT ![i] = "owner"]
        /\ UNCHANGED <<head, value, touched, headWrites>>
    BY <1>5 DEF Dispatch
  <2>3. EffectsFenced'
    BY <2>1, <2>2 DEF EffectsFenced, Holds, Typed, TypeOK
  <2>4. PutsAreOwn'
    BY <2>1, <2>2 DEF PutsAreOwn, Settled, Typed, TypeOK, HeadWrites
  <2>5. FinishedIsSettled'
    BY <2>1, <2>2 DEF FinishedIsSettled, Settled, Typed, TypeOK
  <2> QED
    BY <2>3, <2>4, <2>5
<1>6. CASE CallExpires(i)
  BY <1>6, <1>a DEF CallExpires
<1>7. CASE Schedule(i)
  <2>1. CASE Continue(i, "scheduled") /\ UNCHANGED headWrites
    BY <1>7, <2>1, <1>a DEF Schedule
  <2>2. CASE /\ headWrites' = headWrites \cup
                  {[by |-> i, expected |-> head, value |-> Scheduled(i)]}
             /\ Continue(i, "scheduling")
    <3> DEFINE put == [by |-> i, expected |-> head, value |-> Scheduled(i)]
    <3>1. /\ put.by = i
          /\ put.expected = value[i]
          /\ put.expected.state = "ACTIVE"
          /\ put.expected.owner = i
          /\ put.value.owner = i
          /\ put.value.generation = put.expected.generation
          /\ put.value.state = "ACTIVE"
      BY <1>7, ScheduledIsHead DEF Schedule, Owns, Typed, ValueIsOwn
    <3>2. headWrites' = headWrites \cup {put}
      BY <2>2
    <3>3. /\ pc' = [pc EXCEPT ![i] = "scheduling"] /\ pc[i] = "owner"
          /\ UNCHANGED <<head, mutations, touched, value>>
      BY <1>7, <2>2 DEF Schedule
    <3> HIDE DEF put
    <3>4. PutsAreOwn'
      BY <3>1, <3>2, <3>3 DEF PutsAreOwn, Settled, Typed, TypeOK
    <3>5. EffectsFenced' /\ FinishedIsSettled'
      BY <3>3 DEF EffectsFenced, FinishedIsSettled, Settled, Holds, Typed, TypeOK
    <3> QED
      BY <3>4, <3>5
  <2> QED
    BY <1>7, <2>1, <2>2 DEF Schedule
<1>8. CASE ScheduleRead(i)
  <2>1. /\ Scheduled(i).generation = value[i].generation
        /\ pc[i] = "scheduling"
        /\ pc'[i] \in {"owner", "scheduled"}
        /\ \A j \in Invocations : j # i => pc'[j] = pc[j] /\ value'[j] = value[j]
        /\ UNCHANGED <<head, touched, mutations, headWrites>>
    BY <1>8, ScheduledIsHead DEF ScheduleRead, Typed, TypeOK
  <2>2. EffectsFenced' /\ PutsAreOwn' /\ FinishedIsSettled'
    BY <2>1 DEF EffectsFenced, PutsAreOwn, FinishedIsSettled, Settled, Holds,
                Typed, TypeOK, HeadWrites
  <2> QED
    BY <2>2
<1>9. ASSUME NEW status \in {"SUCCESS", "FAILURE", "UNCERTAIN", "PLANNED"}, FinishHeld(i, status)
      PROVE  EffectsFenced' /\ PutsAreOwn' /\ FinishedIsSettled'
  BY <1>9, <1>a DEF FinishHeld
<1>10. ASSUME NEW status \in {"SUCCESS", "FAILURE"}, FinishTerminal(i, status)
       PROVE  EffectsFenced' /\ PutsAreOwn' /\ FinishedIsSettled'
  <2>1. Settled(i)
    BY <1>10 DEF FinishTerminal, FinishedIsSettled
  <2> QED
    BY <1>10, <2>1, <1>a DEF FinishTerminal
<1>b. ASSUME pc[i] \in {"owner", "settling"}, Settled(i), NEW successful \in BOOLEAN,
             ReleasePut(i, successful), pc' = [pc EXCEPT ![i] = "releasing"],
             UNCHANGED <<head, mutations, touched, value>>
      PROVE  EffectsFenced' /\ PutsAreOwn' /\ FinishedIsSettled'
  <2> DEFINE put == [by |-> i, expected |-> value[i], value |-> Released(i, successful)]
  <2>1. /\ put.by = i
        /\ put.expected.state = "ACTIVE"
        /\ put.expected.owner = i
        /\ put.value.owner = i
        /\ put.value.generation = put.expected.generation
    BY <1>b, ReleasedIsHead DEF Typed, ValueIsOwn
  <2>2. headWrites' = headWrites \cup {put}
    BY <1>b DEF ReleasePut
  <2> HIDE DEF put
  <2>3. PutsAreOwn'
    BY <1>b, <2>1, <2>2 DEF PutsAreOwn, Settled, Typed, TypeOK
  <2>4. EffectsFenced' /\ FinishedIsSettled'
    BY <1>b DEF EffectsFenced, FinishedIsSettled, Settled, Holds, Typed, TypeOK
  <2> QED
    BY <2>3, <2>4
<1>11. CASE FinishPlanned(i)
  <2>1. Settled(i)
    BY <1>11 DEF FinishPlanned, FinishedIsSettled
  <2>2. ReleasePut(i, FALSE) /\ FALSE \in BOOLEAN
    BY <1>11, Zenon DEF FinishPlanned
  <2>3. /\ pc[i] = "owner"
        /\ pc' = [pc EXCEPT ![i] = "releasing"]
        /\ UNCHANGED <<head, mutations, touched, value>>
    BY <1>11 DEF FinishPlanned
  <2> QED
    BY <2>1, <2>2, <2>3, <1>b, Zenon
<1>12. CASE SettleRead(i)
  <2>1. Settled(i)
    BY <1>12 DEF SettleRead, FinishedIsSettled
  <2> QED
    BY <1>12, <2>1, <1>b DEF SettleRead
<1>13. CASE ReleaseRead(i)
  BY <1>13, <1>a DEF ReleaseRead
<1>14. CASE Raise(i)
  BY <1>14, <1>a DEF Raise
<1>15. CASE Crash(i)
  BY <1>15, <1>a DEF Crash
<1> QED
  BY <1>1, <1>2, <1>3, <1>4, <1>5, <1>6, <1>7, <1>8, <1>9, <1>10, <1>11, <1>12, <1>13,
     <1>14, <1>15 DEF Execute

LEMMA NextFencing == FencingInv /\ [Next]_vars => FencingInv'
<1> SUFFICES ASSUME FencingInv, [Next]_vars
             PROVE  EffectsFenced' /\ PutsAreOwn' /\ FinishedIsSettled'
  BY NextTyped DEF FencingInv
<1> USE DEF stored, network, world, local
<1>1. ASSUME NEW w \in headWrites, LandHead(w)
      PROVE  EffectsFenced' /\ PutsAreOwn' /\ FinishedIsSettled'
  BY <1>1, LandHeadFencing
<1>2. ASSUME /\ headWrites' \subseteq headWrites
             /\ mutations' \subseteq mutations
             /\ UNCHANGED <<head, pc, value, touched>>
      PROVE  EffectsFenced' /\ PutsAreOwn' /\ FinishedIsSettled'
  BY <1>2 DEF FencingInv, EffectsFenced, PutsAreOwn, FinishedIsSettled, Settled, Holds
<1>3. ASSUME NEW w \in headWrites, LoseHead(w)
      PROVE  EffectsFenced' /\ PutsAreOwn' /\ FinishedIsSettled'
  BY <1>3, <1>2 DEF LoseHead
<1>4. ASSUME NEW w \in terminalWrites, LandTerminal(w) \/ LoseTerminal(w)
      PROVE  EffectsFenced' /\ PutsAreOwn' /\ FinishedIsSettled'
  BY <1>4, <1>2 DEF LandTerminal, LoseTerminal
<1>5. ASSUME NEW m \in mutations, LandMutation(m) \/ LoseMutation(m)
      PROVE  EffectsFenced' /\ PutsAreOwn' /\ FinishedIsSettled'
  BY <1>5, <1>2 DEF LandMutation, LoseMutation
<1>6. ASSUME NEW o \in Operations, Fire(o)
      PROVE  EffectsFenced' /\ PutsAreOwn' /\ FinishedIsSettled'
  BY <1>6, <1>2 DEF Fire
<1>7. ASSUME NEW i \in Invocations, Execute(i)
      PROVE  EffectsFenced' /\ PutsAreOwn' /\ FinishedIsSettled'
  BY <1>7, ExecuteFencing
<1>8. CASE UNCHANGED vars
  BY <1>8, <1>2 DEF vars
<1> QED
  BY <1>1, <1>3, <1>4, <1>5, <1>6, <1>7, <1>8 DEF Next, Environment

LEMMA FencingAlways == Spec => []FencingInv
BY InitFencing, NextFencing, PTL DEF Spec

\* No mutation can take effect after its issuer gave up or lost the domain, in
\* whatever order the conditional puts land, are lost, or cross with crashes.
THEOREM Fenced == Spec => []EffectsFenced
<1>1. FencingInv => EffectsFenced
  BY DEF FencingInv
<1> QED
  BY FencingAlways, <1>1, PTL

(***************************************************************************)
(* Refinement.  A put of the head that lands is a Grant, a Release or a    *)
(* stutter of ExclusiveEpochs; a mutation that takes effect is a Mutate,   *)
(* because it is fenced; nothing else is visible.                          *)
(***************************************************************************)
Holder == IF head.state = "ACTIVE" THEN head.owner ELSE Null

LEMMA LandHeadRefines ==
  ASSUME FencingInv, NEW w \in headWrites, LandHead(w)
  PROVE  [Exclusive!Next]_(Exclusive!vars)
<1> USE DEF Exclusive!vars
<1>1. /\ w \in HeadWrites
      /\ w.by \in Invocations
      /\ w.value.generation \in Generations /\ w.value.generation <= MaxGeneration
      /\ w.value.state \in {"ACTIVE", "RELEASED"}
      /\ head \in Heads
      /\ UNCHANGED landed
  BY DEF LandHead, FencingInv, Typed, TypeOK, HeadWrites, Heads, Generations
<1>2. CASE head # w.expected
  BY <1>1, <1>2 DEF LandHead
<1>3. CASE head = w.expected /\ w.expected.state = "RELEASED"
  <2>1. /\ head' = w.value
        /\ head'.state = "ACTIVE"
        /\ head'.owner = w.by
        /\ head'.generation = head.generation + 1
        /\ head.generation \in Nat
    BY <1>1, <1>3 DEF LandHead, FencingInv, PutsAreOwn, Heads, Generations
  <2>2. Exclusive!Grant(w.by)
    BY <1>1, <1>3, <2>1 DEF Exclusive!Grant
  <2> QED
    BY <1>1, <2>2 DEF Exclusive!Next
<1>4. CASE head = w.expected /\ w.expected.state = "ACTIVE"
  <2>1. /\ head' = w.value
        /\ head'.owner = head.owner
        /\ head'.generation = head.generation
        /\ head.owner = w.by
    BY <1>1, <1>4 DEF LandHead, FencingInv, PutsAreOwn
  <2>2. CASE w.value.state = "ACTIVE"
    BY <1>1, <1>4, <2>1, <2>2
  <2>3. CASE w.value.state = "RELEASED"
    <3>1. Exclusive!Release
      BY <1>1, <1>4, <2>1, <2>3 DEF Exclusive!Release
    <3> QED
      BY <3>1 DEF Exclusive!Next
  <2> QED
    BY <1>1, <2>2, <2>3
<1>5. w.expected.state \in {"ACTIVE", "RELEASED"}
  BY <1>1 DEF HeadWrites, Heads
<1> QED
  BY <1>2, <1>3, <1>4, <1>5

LEMMA StepRefines ==
  ASSUME FencingInv, [Next]_vars
  PROVE  [Exclusive!Next]_(Exclusive!vars)
<1> USE DEF stored, network, world, local, Exclusive!vars
<1>1. ASSUME NEW w \in headWrites, LandHead(w) PROVE [Exclusive!Next]_(Exclusive!vars)
  BY <1>1, LandHeadRefines
<1>2. ASSUME NEW m \in mutations, LandMutation(m) PROVE [Exclusive!Next]_(Exclusive!vars)
  <2>1. /\ head.state = "ACTIVE"
        /\ head.owner # Null
        /\ landed' = head.generation
        /\ UNCHANGED head
    BY <1>2 DEF LandMutation, FencingInv, EffectsFenced, Holds, Typed, TypeOK, Mutations
  <2>2. Exclusive!Mutate
    BY <2>1 DEF Exclusive!Mutate
  <2> QED
    BY <2>2 DEF Exclusive!Next
<1>3. ASSUME UNCHANGED <<head, landed>> PROVE [Exclusive!Next]_(Exclusive!vars)
  BY <1>3
<1>4. ASSUME NEW w \in headWrites, LoseHead(w) PROVE UNCHANGED <<head, landed>>
  BY <1>4 DEF LoseHead
<1>5. ASSUME NEW w \in terminalWrites, LandTerminal(w) \/ LoseTerminal(w)
      PROVE  UNCHANGED <<head, landed>>
  BY <1>5 DEF LandTerminal, LoseTerminal
<1>6. ASSUME NEW m \in mutations, LoseMutation(m) PROVE UNCHANGED <<head, landed>>
  BY <1>6 DEF LoseMutation
<1>7. ASSUME NEW o \in Operations, Fire(o) PROVE UNCHANGED <<head, landed>>
  BY <1>7 DEF Fire
<1>8. ASSUME NEW i \in Invocations, Execute(i) PROVE UNCHANGED <<head, landed>>
  BY <1>8 DEF Execute, Retained, Acquire, AcquireRead, Call, Dispatch, CallExpires, Schedule,
              ScheduleRead, FinishHeld, FinishTerminal, FinishPlanned, SettleRead,
              ReleaseRead, Raise, Crash
<1>9. CASE UNCHANGED vars
  BY <1>9, <1>3 DEF vars
<1> QED
  BY <1>1, <1>2, <1>3, <1>4, <1>5, <1>6, <1>7, <1>8, <1>9 DEF Next, Environment

\* The storage protocol implements the abstract lock: one owner, no epoch opened
\* twice, no effect outside the epoch it was issued in.
THEOREM Implements == Spec => ImplementsExclusiveEpochs
<1>1. Init => Exclusive!Init
  BY DEF Init, Exclusive!Init
<1>2. FencingInv /\ [Next]_vars => [Exclusive!Next]_(Exclusive!vars)
  BY StepRefines
<1> QED
  BY <1>1, <1>2, FencingAlways, PTL DEF Spec, ImplementsExclusiveEpochs, Exclusive!Spec

(***************************************************************************)
(* Decided outcomes.  A terminal is written once; what an invocation knows *)
(* to be retained before it releases the domain stays retained.            *)
(***************************************************************************)
ReleasingIsRetained ==
  \A i \in Invocations :
    pc[i] = "releasing" => \/ result[i] = "PLANNED"
                           \/ /\ result[i] \in {"SUCCESS", "FAILURE"}
                              /\ terminals[OperationOf[i]] = Terminal(i, result[i])

DecidedInv == Typed /\ DecidedIsRetained /\ ReleasingIsRetained

LEMMA DecidedStep ==
  ASSUME DecidedInv, [Next]_vars
  PROVE  DecidedIsRetained' /\ ReleasingIsRetained'
<1> USE DEF stored, network, world, local, DecidedInv
<1>1. ASSUME NEW w \in terminalWrites, LandTerminal(w)
      PROVE  DecidedIsRetained' /\ ReleasingIsRetained'
  <2>1. \A i \in Invocations, status \in {"SUCCESS", "FAILURE"} :
          pc[i] = "releasing" => Terminal(i, status) # Null
    BY NullAssumption DEF Terminal, Terminals, Typed, ValueIsOwn, Heads
  <2>2. \A o \in Operations : terminals[o] # Null => terminals'[o] = terminals[o]
    BY <1>1 DEF LandTerminal, Typed, TypeOK, TerminalWrites
  <2>3. UNCHANGED <<pc, value, touched, result>>
    BY <1>1 DEF LandTerminal
  <2>4. \A i \in Invocations, status \in {"SUCCESS", "FAILURE"} :
          Terminal(i, status)' = Terminal(i, status)
    BY <2>3 DEF Terminal
  <2>5. DecidedIsRetained'
    BY <2>2, <2>3 DEF DecidedIsRetained
  <2>6. ReleasingIsRetained'
    BY <2>1, <2>2, <2>3, <2>4 DEF ReleasingIsRetained
  <2> QED
    BY <2>5, <2>6
<1>2. ASSUME UNCHANGED <<terminals, local>> PROVE DecidedIsRetained' /\ ReleasingIsRetained'
  BY <1>2 DEF DecidedIsRetained, ReleasingIsRetained, Terminal
<1>3. ASSUME NEW w \in headWrites, LandHead(w) \/ LoseHead(w) PROVE UNCHANGED <<terminals, local>>
  BY <1>3 DEF LandHead, LoseHead
<1>4. ASSUME NEW w \in terminalWrites, LoseTerminal(w) PROVE UNCHANGED <<terminals, local>>
  BY <1>4 DEF LoseTerminal
<1>5. ASSUME NEW m \in mutations, LandMutation(m) \/ LoseMutation(m)
      PROVE  UNCHANGED <<terminals, local>>
  BY <1>5 DEF LandMutation, LoseMutation
<1>6. ASSUME NEW o \in Operations, Fire(o) PROVE UNCHANGED <<terminals, local>>
  BY <1>6 DEF Fire
<1>7. ASSUME NEW i \in Invocations, Execute(i) PROVE DecidedIsRetained' /\ ReleasingIsRetained'
  <2> USE DEF Continue, Report
  <2>b. ASSUME UNCHANGED <<terminals, value, touched>>, NEW status, Report(i, status),
               status \notin {"SUCCESS", "FAILURE"} \/ (touched[i] /\ status = "FAILURE")
        PROVE  DecidedIsRetained' /\ ReleasingIsRetained'
    BY <2>b DEF DecidedIsRetained, ReleasingIsRetained, Terminal, Typed, TypeOK
  <2>1. CASE Retained(i)
    BY <2>1 DEF Retained, DecidedIsRetained, ReleasingIsRetained, Terminal, Typed, TypeOK
  <2>2. CASE Acquire(i)
    BY <2>2 DEF Acquire, DecidedIsRetained, ReleasingIsRetained, Terminal, Typed, TypeOK
  <2>3. CASE AcquireRead(i)
    BY <2>3 DEF AcquireRead, DecidedIsRetained, ReleasingIsRetained, Terminal, Typed, TypeOK
  <2>4. CASE Call(i)
    BY <2>4 DEF Call, DecidedIsRetained, ReleasingIsRetained, Terminal, Typed, TypeOK
  <2>5. CASE Dispatch(i) \/ CallExpires(i)
    BY <2>5 DEF Dispatch, CallExpires, DecidedIsRetained, ReleasingIsRetained, Terminal,
                Typed, TypeOK
  <2>6. CASE Schedule(i)
    BY <2>6 DEF Schedule, DecidedIsRetained, ReleasingIsRetained, Terminal, Typed, TypeOK
  <2>7. CASE ScheduleRead(i)
    BY <2>7 DEF ScheduleRead, DecidedIsRetained, ReleasingIsRetained, Terminal, Typed, TypeOK
  <2>8. ASSUME NEW status \in {"SUCCESS", "FAILURE", "UNCERTAIN", "PLANNED"}, FinishHeld(i, status)
        PROVE  DecidedIsRetained' /\ ReleasingIsRetained'
    BY <2>8, <2>b DEF FinishHeld
  <2>9. ASSUME NEW status \in {"SUCCESS", "FAILURE"}, FinishTerminal(i, status)
        PROVE  DecidedIsRetained' /\ ReleasingIsRetained'
    BY <2>9 DEF FinishTerminal, DecidedIsRetained, ReleasingIsRetained, Terminal, Typed, TypeOK
  <2>10. CASE FinishPlanned(i)
    BY <2>10 DEF FinishPlanned, DecidedIsRetained, ReleasingIsRetained, Terminal, Typed, TypeOK
  <2>11. CASE SettleRead(i)
    BY <2>11 DEF SettleRead, DecidedIsRetained, ReleasingIsRetained, Terminal,
                 Typed, TypeOK, ReleasingIsReported
  <2>12. CASE ReleaseRead(i)
    <3>1. result[i] \in {"SUCCESS", "FAILURE"} =>
            /\ Terminal(i, result[i]) # Null
            /\ Terminal(i, result[i]).request = RequestOf[i]
            /\ Terminal(i, result[i]).status = result[i]
      BY <2>12, NullAssumption DEF ReleaseRead, Terminal, Terminals, Typed, ValueIsOwn, Heads
    <3>2. pc[i] = "releasing" /\ pc' = [pc EXCEPT ![i] = "done"]
          /\ UNCHANGED <<terminals, value, touched, result>>
      BY <2>12 DEF ReleaseRead
    <3>3. DecidedIsRetained'
      BY <3>1, <3>2 DEF DecidedIsRetained, ReleasingIsRetained, Typed, TypeOK
    <3>4. ReleasingIsRetained'
      BY <3>2 DEF ReleasingIsRetained, Terminal, Typed, TypeOK
    <3> QED
      BY <3>3, <3>4
  <2>13. CASE Raise(i)
    BY <2>13, <2>b DEF Raise
  <2>14. CASE Crash(i)
    BY <2>14, <2>b DEF Crash
  <2> QED
    BY <1>7, <2>1, <2>2, <2>3, <2>4, <2>5, <2>6, <2>7, <2>8, <2>9, <2>10, <2>11, <2>12,
       <2>13, <2>14 DEF Execute
<1>8. CASE UNCHANGED vars
  BY <1>8, <1>2 DEF vars
<1> QED
  BY <1>1, <1>2, <1>3, <1>4, <1>5, <1>6, <1>7, <1>8 DEF Next, Environment

\* A decided status is never reported and then contradicted: it is the terminal
\* that every later invocation of the operation reads.
THEOREM DecidedRetained == Spec => []DecidedIsRetained
<1>1. Init => DecidedInv
  <2>1. Init => DecidedIsRetained /\ ReleasingIsRetained
    BY DEF Init, DecidedIsRetained, ReleasingIsRetained
  <2> QED
    BY <2>1, InitTyped DEF DecidedInv
<1>2. DecidedInv /\ [Next]_vars => DecidedInv'
  BY NextTyped, DecidedStep DEF DecidedInv
<1>3. DecidedInv => DecidedIsRetained
  BY DEF DecidedInv
<1> QED
  BY <1>1, <1>2, <1>3, PTL DEF Spec

(***************************************************************************)
(* What a step leaves alone: only a put that lands changes the head, only  *)
(* Acquire, Schedule and the two releases send one, an event is stamped    *)
(* once, and a terminal is written once.                                   *)
(***************************************************************************)
LEMMA OnlyLandHeadMoves ==
  ASSUME [Next]_vars
  PROVE  UNCHANGED <<head, activation>> \/ \E w \in headWrites : LandHead(w)
<1> USE DEF stored, network, world, local
<1>1. ASSUME NEW i \in Invocations, Execute(i) PROVE UNCHANGED <<head, activation>>
  BY <1>1 DEF Execute, Retained, Acquire, AcquireRead, Call, Dispatch, CallExpires, Schedule,
              ScheduleRead, FinishHeld, FinishTerminal, FinishPlanned, SettleRead,
              ReleaseRead, Raise, Crash
<1>2. ASSUME Environment
      PROVE  UNCHANGED <<head, activation>> \/ \E w \in headWrites : LandHead(w)
  BY <1>2 DEF Environment, LoseHead, LandTerminal, LoseTerminal, LandMutation, LoseMutation, Fire
<1> QED
  BY <1>1, <1>2 DEF Next, vars

LEMMA OnlyCallTouches ==
  ASSUME [Next]_vars
  PROVE  UNCHANGED touched \/ \E i \in Invocations : Call(i)
<1> USE DEF stored, network, world, local
<1>1. ASSUME NEW i \in Invocations, Execute(i), ~ Call(i) PROVE UNCHANGED touched
  BY <1>1 DEF Execute, Retained, Acquire, AcquireRead, Dispatch, CallExpires, Schedule,
              ScheduleRead, FinishHeld, FinishTerminal, FinishPlanned, SettleRead,
              ReleaseRead, Raise, Crash
<1>2. ASSUME Environment PROVE UNCHANGED touched
  BY <1>2 DEF Environment, LandHead, LoseHead, LandTerminal, LoseTerminal, LandMutation,
              LoseMutation, Fire
<1> QED
  BY <1>1, <1>2 DEF Next, vars

LEMMA RecordsLast ==
  ASSUME Typed, [Next]_vars, NEW o \in Operations
  PROVE  /\ terminals[o] # Null => terminals'[o] = terminals[o]
         /\ events[o] # Null => events'[o] = events[o]
<1> USE DEF stored, network, world, local
<1>1. ASSUME NEW i \in Invocations, Execute(i) PROVE UNCHANGED <<terminals, events>>
  BY <1>1 DEF Execute, Retained, Acquire, AcquireRead, Call, Dispatch, CallExpires, Schedule,
              ScheduleRead, FinishHeld, FinishTerminal, FinishPlanned, SettleRead,
              ReleaseRead, Raise, Crash
<1>2. ASSUME NEW w \in terminalWrites, LandTerminal(w)
      PROVE  /\ terminals[o] # Null => terminals'[o] = terminals[o]
             /\ UNCHANGED events
  BY <1>2 DEF LandTerminal, Typed, TypeOK, TerminalWrites
<1>3. ASSUME NEW p \in Operations, Fire(p)
      PROVE  /\ events[o] # Null => events'[o] = events[o]
             /\ UNCHANGED terminals
  BY <1>3 DEF Fire, Typed, TypeOK
<1>4. ASSUME Environment
      PROVE  \/ UNCHANGED <<terminals, events>>
             \/ \E w \in terminalWrites : LandTerminal(w)
             \/ \E p \in Operations : Fire(p)
  BY <1>4 DEF Environment, LandHead, LoseHead, LoseTerminal, LandMutation, LoseMutation
<1> QED
  BY <1>1, <1>2, <1>3, <1>4 DEF Next, vars

\* The puts of the head that an invocation sends.
AdmissionPut(i) == [by |-> i, expected |-> head, value |-> Granted(i, head)]
SchedulePut(i)  == [by |-> i, expected |-> value[i], value |-> Scheduled(i)]
GiveUpPut(i, successful) ==
  [by |-> i, expected |-> value[i], value |-> Released(i, successful)]

LEMMA NewPuts ==
  ASSUME Typed, [Next]_vars, NEW w \in headWrites', w \notin headWrites
  PROVE  \E i \in Invocations :
           \/ Acquire(i) /\ Admissible(i, head) /\ w = AdmissionPut(i)
           \/ Schedule(i) /\ w = SchedulePut(i)
           \/ FinishPlanned(i) /\ w = GiveUpPut(i, FALSE)
           \/ SettleRead(i) /\ w = GiveUpPut(i, result[i] = "SUCCESS")
<1> USE DEF stored, network, world, local
<1>1. ASSUME Environment PROVE FALSE
  BY <1>1 DEF Environment, LandHead, LoseHead, LandTerminal, LoseTerminal, LandMutation,
              LoseMutation, Fire
<1>2. ASSUME NEW i \in Invocations, Execute(i)
      PROVE  Acquire(i) \/ Schedule(i) \/ FinishPlanned(i) \/ SettleRead(i)
  BY <1>2 DEF Execute, Retained, AcquireRead, Call, Dispatch, CallExpires, ScheduleRead,
              FinishHeld, FinishTerminal, ReleaseRead, Raise, Crash
<1>3. ASSUME NEW i \in Invocations, Acquire(i) PROVE Admissible(i, head) /\ w = AdmissionPut(i)
  BY <1>3 DEF Acquire, AdmissionPut
<1>4. ASSUME NEW i \in Invocations, Schedule(i) PROVE w = SchedulePut(i)
  BY <1>4 DEF Schedule, SchedulePut, Owns
<1>5. ASSUME NEW i \in Invocations, FinishPlanned(i) PROVE w = GiveUpPut(i, FALSE)
  BY <1>5 DEF FinishPlanned, ReleasePut, GiveUpPut
<1>6. ASSUME NEW i \in Invocations, SettleRead(i)
      PROVE  w = GiveUpPut(i, result[i] = "SUCCESS")
  BY <1>6 DEF SettleRead, ReleasePut, GiveUpPut
<1>7. PICK i \in Invocations : Execute(i)
  BY <1>1 DEF Next, vars
<1> QED
  BY <1>2, <1>3, <1>4, <1>5, <1>6, <1>7

(***************************************************************************)
(* Freshness of cleanups.  A head carries the proof of the newest          *)
(* activation or none, and a cleanup that holds the domain was started by   *)
(* an event with that proof; the puts on their way keep both.              *)
(***************************************************************************)
HeadIsFresh ==
  /\ head.schedule # Null => head.schedule.generation = activation
  /\ head.state = "ACTIVE" =>
       /\ head.owner \in Invocations
       /\ IF Cleanup(head.owner)
          THEN head.schedule # Null /\ head.schedule = events[OperationOf[head.owner]]
          ELSE head.generation = activation

PutsAreFresh ==
  \A w \in headWrites :
    \/ /\ w.expected.state = "RELEASED"
       /\ Cleanup(w.by) =>
            /\ w.expected.schedule # Null
            /\ w.expected.schedule = events[OperationOf[w.by]]
       /\ w.value.schedule = IF Cleanup(w.by) THEN w.expected.schedule ELSE Null
    \/ /\ w.expected.state = "ACTIVE" /\ w.value.state = "ACTIVE"
       /\ ~ Cleanup(w.by) /\ w.value.schedule.generation = w.expected.generation
    \/ /\ w.expected.state = "ACTIVE" /\ w.value.state = "RELEASED"
       /\ w.value.schedule \in {w.expected.schedule, Null}

FreshInv == FencingInv /\ HeadIsFresh /\ PutsAreFresh

LEMMA NextHeadIsFresh ==
  ASSUME FreshInv, [Next]_vars
  PROVE  HeadIsFresh'
<1> USE DEF FreshInv
<1>1. ASSUME NEW o \in Operations PROVE events[o] # Null => events'[o] = events[o]
  BY RecordsLast DEF FencingInv
<1>2. CASE UNCHANGED <<head, activation>>
  <2>1. head.state = "ACTIVE" /\ Cleanup(head.owner) =>
          events'[OperationOf[head.owner]] = events[OperationOf[head.owner]]
    BY <1>1 DEF HeadIsFresh
  <2> QED
    BY <1>2, <2>1 DEF HeadIsFresh, Cleanup
<1>3. ASSUME NEW w \in headWrites, LandHead(w) PROVE HeadIsFresh'
  <2>1. w.by \in Invocations /\ UNCHANGED events
    BY <1>3 DEF LandHead, FencingInv, Typed, TypeOK, HeadWrites
  <2>2. CASE head # w.expected
    BY <1>3, <2>1, <2>2 DEF LandHead, HeadIsFresh, Cleanup
  <2>3. CASE head = w.expected
    <3>1. /\ head' = w.value /\ w.value.owner = w.by
          /\ activation' = IF Admits(head, w.value) /\ ~ Cleanup(w.by)
                           THEN w.value.generation ELSE activation
          /\ w.expected.state = "ACTIVE" => w.expected.owner = w.by
          /\ w.expected.state = "ACTIVE" => w.value.generation = w.expected.generation
          /\ w.expected.state = "RELEASED" => w.value.state = "ACTIVE"
      BY <1>3, <2>3 DEF LandHead, FencingInv, PutsAreOwn
    <3> QED
      BY <2>1, <2>3, <3>1 DEF HeadIsFresh, PutsAreFresh, Admits, Cleanup
  <2> QED
    BY <2>2, <2>3
<1> QED
  BY <1>2, <1>3, OnlyLandHeadMoves

LEMMA NextPutsAreFresh ==
  ASSUME FreshInv, [Next]_vars
  PROVE  PutsAreFresh'
<1> USE DEF FreshInv
<1> DEFINE Fresh(w) ==
      \/ /\ w.expected.state = "RELEASED"
         /\ Cleanup(w.by) =>
              /\ w.expected.schedule # Null
              /\ w.expected.schedule = events'[OperationOf[w.by]]
         /\ w.value.schedule = IF Cleanup(w.by) THEN w.expected.schedule ELSE Null
      \/ /\ w.expected.state = "ACTIVE" /\ w.value.state = "ACTIVE"
         /\ ~ Cleanup(w.by) /\ w.value.schedule.generation = w.expected.generation
      \/ /\ w.expected.state = "ACTIVE" /\ w.value.state = "RELEASED"
         /\ w.value.schedule \in {w.expected.schedule, Null}
<1> SUFFICES ASSUME NEW w \in headWrites' PROVE Fresh(w)
  BY DEF PutsAreFresh, Cleanup
<1>1. \A o \in Operations : events[o] # Null => events'[o] = events[o]
  BY RecordsLast DEF FencingInv
<1>2. CASE w \in headWrites
  <2>1. w.by \in Invocations
    BY <1>2 DEF FencingInv, Typed, TypeOK, HeadWrites
  <2> QED
    BY <1>1, <1>2, <2>1 DEF PutsAreFresh
<1>3. ASSUME NEW i \in Invocations, Admissible(i, head), w = AdmissionPut(i) PROVE Fresh(w)
  BY <1>1, <1>3 DEF Admissible, AdmissionPut, Granted
<1>4. ASSUME NEW i \in Invocations, Schedule(i), w = SchedulePut(i) PROVE Fresh(w)
  <2>1. pc[i] = "owner" /\ ~ Cleanup(i) /\ value[i] \in Heads /\ value[i].state = "ACTIVE"
    BY <1>4 DEF Schedule, Cleanup, FencingInv, Typed, ValueIsOwn
  <2>2. /\ Scheduled(i).state = "ACTIVE"
        /\ Scheduled(i).schedule.generation = value[i].generation
    BY <2>1 DEF Scheduled, ScheduleProof, Heads
  <2> QED
    BY <1>4, <2>1, <2>2 DEF SchedulePut
<1>5. ASSUME NEW i \in Invocations, pc[i] \in {"owner", "settling"}, NEW successful \in BOOLEAN,
             w = GiveUpPut(i, successful)
      PROVE  Fresh(w)
  <2>1. value[i] \in Heads /\ value[i].state = "ACTIVE"
    BY <1>5 DEF FencingInv, Typed, ValueIsOwn
  <2>2. /\ Released(i, successful).state = "RELEASED"
        /\ Released(i, successful).schedule \in {value[i].schedule, Null}
    BY <2>1 DEF Released, Heads
  <2> QED
    BY <1>5, <2>1, <2>2 DEF GiveUpPut
<1> HIDE DEF Fresh
<1>6. CASE w \notin headWrites
  <2>1. PICK i \in Invocations :
           \/ Acquire(i) /\ Admissible(i, head) /\ w = AdmissionPut(i)
           \/ Schedule(i) /\ w = SchedulePut(i)
           \/ FinishPlanned(i) /\ w = GiveUpPut(i, FALSE)
           \/ SettleRead(i) /\ w = GiveUpPut(i, result[i] = "SUCCESS")
    BY <1>6, NewPuts DEF FencingInv
  <2> QED
    BY <1>3, <1>4, <1>5, <2>1 DEF FinishPlanned, SettleRead
<1> QED
  BY <1>2, <1>6

\* While a mutation of a cleanup can take effect, no other operation was admitted
\* after the one that installed the schedule whose event started it.
THEOREM CleanupsAreFresh == Spec => []CleanupFresh
<1>1. Init => FreshInv
  <2>1. Init => HeadIsFresh /\ PutsAreFresh
    BY DEF Init, HeadIsFresh, PutsAreFresh
  <2> QED
    BY <2>1, InitFencing DEF FreshInv
<1>2. FreshInv /\ [Next]_vars => FreshInv'
  BY NextFencing, NextHeadIsFresh, NextPutsAreFresh DEF FreshInv
<1>3. FreshInv => CleanupFresh
  BY DEF FreshInv, FencingInv, EffectsFenced, Holds, HeadIsFresh, CleanupFresh, Cleanup
<1> QED
  BY <1>1, <1>2, <1>3, PTL DEF Spec

(***************************************************************************)
(* Giving up the domain.  A release that may still land, of an owner that   *)
(* touched the environment, has the proof in storage already.              *)
(***************************************************************************)
Proven(h) ==
  /\ h.operation \in Operations /\ h.request \in Requests /\ h.generation \in Generations
  /\ terminals[h.operation] =
       [request |-> h.request, generation |-> h.generation, status |-> "SUCCESS"]

GivenUpIsProven ==
  /\ \A w \in headWrites : w.value.state = "RELEASED" /\ touched[w.by] => Proven(w.value)
  /\ head.state = "RELEASED" /\ head.generation > 0 /\ touched[head.owner] => Proven(head)

FailedIsUntouched ==
  \A i \in Invocations : pc[i] = "settling" /\ result[i] = "FAILURE" => ~ touched[i]

ProvenInv == FencingInv /\ GivenUpIsProven /\ FailedIsUntouched

LEMMA ProvenLasts ==
  ASSUME Typed, [Next]_vars, NEW h, Proven(h)
  PROVE  Proven(h)'
<1>1. terminals[h.operation] \in Terminals
  BY DEF Proven, Terminals
<1>2. terminals'[h.operation] = terminals[h.operation]
  BY <1>1, RecordsLast, NullAssumption DEF Proven
<1> QED
  BY <1>2 DEF Proven

LEMMA NextFailedIsUntouched ==
  ASSUME ProvenInv, [Next]_vars
  PROVE  FailedIsUntouched'
<1> USE DEF ProvenInv, FencingInv, stored, network, world, local
<1>1. ASSUME Environment \/ UNCHANGED vars PROVE UNCHANGED local
  BY <1>1 DEF Environment, LandHead, LoseHead, LandTerminal, LoseTerminal, LandMutation,
              LoseMutation, Fire, vars
<1>2. ASSUME NEW i \in Invocations, Execute(i) PROVE FailedIsUntouched'
  <2>1. ASSUME NEW status \in {"SUCCESS", "FAILURE"}, FinishTerminal(i, status)
        PROVE  FailedIsUntouched'
    BY <2>1 DEF FinishTerminal, FailedIsUntouched, Typed, TypeOK
  <2>2. CASE Call(i)
    BY <2>2 DEF Call, Continue, FailedIsUntouched, Typed, TypeOK
  <2>3. CASE ~ Call(i) /\ ~ \E status \in {"SUCCESS", "FAILURE"} : FinishTerminal(i, status)
    <3>1. /\ UNCHANGED touched
          /\ \E at \in Places \ {"settling"} : pc' = [pc EXCEPT ![i] = at]
          /\ UNCHANGED result \/ \E status : result' = [result EXCEPT ![i] = status]
      BY <1>2, <2>3 DEF Execute, Retained, Acquire, AcquireRead, Dispatch, CallExpires, Schedule,
         ScheduleRead, FinishHeld, FinishPlanned, SettleRead, ReleaseRead, Raise, Crash,
         Continue, Report, Places
    <3> QED
      BY <3>1 DEF FailedIsUntouched, Typed, TypeOK
  <2> QED
    BY <2>1, <2>2, <2>3
<1> QED
  BY <1>1, <1>2 DEF Next, FailedIsUntouched

LEMMA NextGivenUpIsProven ==
  ASSUME ProvenInv, [Next]_vars
  PROVE  GivenUpIsProven'
<1> USE DEF ProvenInv, FencingInv
<1>1. ASSUME NEW w \in headWrites', w.value.state = "RELEASED", touched'[w.by]
      PROVE  Proven(w.value)'
  <2>1. CASE w \in headWrites
    <3>1. touched[w.by]
      <4>1. CASE UNCHANGED touched
        BY <1>1, <4>1
      <4>2. ASSUME NEW i \in Invocations, Call(i) PROVE touched[w.by]
        <5>1. pc[i] \in {"owner", "scheduled"} /\ touched' = [touched EXCEPT ![i] = TRUE]
          BY <4>2 DEF Call
        <5>2. w.value.state = "RELEASED" => pc[w.by] \in {"releasing", "done"}
          BY <2>1 DEF PutsAreOwn
        <5> QED
          BY <1>1, <5>1, <5>2 DEF Typed, TypeOK
      <4> QED
        BY <4>1, <4>2, OnlyCallTouches
    <3> QED
      BY <1>1, <2>1, <3>1, ProvenLasts DEF GivenUpIsProven
  <2>2. CASE w \notin headWrites
    <3>1. PICK i \in Invocations :
             \/ Acquire(i) /\ Admissible(i, head) /\ w = AdmissionPut(i)
             \/ Schedule(i) /\ w = SchedulePut(i)
             \/ FinishPlanned(i) /\ w = GiveUpPut(i, FALSE)
             \/ SettleRead(i) /\ w = GiveUpPut(i, result[i] = "SUCCESS")
      BY <2>2, NewPuts
    <3>2. CASE Acquire(i) /\ w = AdmissionPut(i)
      BY <1>1, <3>2 DEF AdmissionPut, Granted
    <3>3. CASE Schedule(i) /\ w = SchedulePut(i)
      <4>1. Scheduled(i).state = "ACTIVE"
        BY <3>3, ScheduledIsHead DEF Schedule
      <4> QED
        BY <1>1, <3>3, <4>1 DEF SchedulePut
    <3>4. CASE FinishPlanned(i) /\ w = GiveUpPut(i, FALSE)
      BY <1>1, <3>4 DEF FinishPlanned, GiveUpPut
    <3>5. CASE SettleRead(i) /\ w = GiveUpPut(i, result[i] = "SUCCESS")
      <4>1. /\ pc[i] = "settling" /\ UNCHANGED <<terminals, touched>>
            /\ terminals[OperationOf[i]] = Terminal(i, result[i])
        BY <3>5 DEF SettleRead, stored
      <4>2. w.by = i /\ w.value = Released(i, result[i] = "SUCCESS")
        BY <3>5 DEF GiveUpPut
      <4>3. result[i] = "SUCCESS"
        BY <1>1, <4>1, <4>2 DEF FailedIsUntouched, Typed, ReleasingIsReported
      <4>4. /\ value[i] \in Heads /\ value[i].operation = OperationOf[i]
            /\ value[i].request = RequestOf[i] /\ value[i].generation \in Generations
        BY <4>1 DEF Typed, ValueIsOwn, Heads
      <4>5. /\ w.value.operation = OperationOf[i] /\ w.value.request = RequestOf[i]
            /\ w.value.generation = value[i].generation
        BY <4>2, <4>4 DEF Released, Heads
      <4> QED
        BY <4>1, <4>3, <4>4, <4>5 DEF Proven, Terminal
    <3> QED
      BY <3>1, <3>2, <3>3, <3>4, <3>5
  <2> QED
    BY <2>1, <2>2
<1>2. ASSUME head'.state = "RELEASED", head'.generation > 0, touched'[head'.owner]
      PROVE  Proven(head)'
  <2>1. CASE UNCHANGED head
    <3>1. UNCHANGED touched
      <4>1. ASSUME NEW i \in Invocations, Call(i) PROVE FALSE
        BY <1>2, <2>1, <4>1 DEF Call, Owns
      <4> QED
        BY <4>1, OnlyCallTouches
    <3>2. Proven(head)
      BY <1>2, <2>1, <3>1 DEF GivenUpIsProven
    <3> QED
      BY <2>1, <3>2, ProvenLasts DEF Proven
  <2>2. ASSUME NEW w \in headWrites, LandHead(w), head' # head PROVE Proven(head)'
    <3>1. head' = w.value /\ UNCHANGED touched /\ UNCHANGED terminals /\ w.value.owner = w.by
      BY <2>2 DEF LandHead, PutsAreOwn, local
    <3>2. Proven(w.value)
      BY <1>2, <3>1 DEF GivenUpIsProven
    <3> QED
      BY <3>1, <3>2 DEF Proven
  <2> QED
    BY <2>1, <2>2, OnlyLandHeadMoves
<1> QED
  BY <1>1, <1>2 DEF GivenUpIsProven

\* The domain is given up by an owner that touched the environment only when the
\* SUCCESS of its operation, in that generation, is retained.
THEOREM GivenUpWithSuccess == Spec => []TouchedIsReleasedWithSuccess
<1>1. Init => ProvenInv
  <2>1. Init => GivenUpIsProven /\ FailedIsUntouched
    BY DEF Init, GivenUpIsProven, FailedIsUntouched
  <2> QED
    BY <2>1, InitFencing DEF ProvenInv
<1>2. ProvenInv /\ [Next]_vars => ProvenInv'
  BY NextFencing, NextGivenUpIsProven, NextFailedIsUntouched DEF ProvenInv
<1>3. ProvenInv => TouchedIsReleasedWithSuccess
  BY DEF ProvenInv, GivenUpIsProven, Proven, TouchedIsReleasedWithSuccess
<1> QED
  BY <1>1, <1>2, <1>3, PTL DEF Spec
==============================================================================
