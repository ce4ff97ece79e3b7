---------------------------- MODULE NatDutiesProofs ----------------------------
(***************************************************************************)
(* Proofs about RecoveryJournal, in the first part, and about NatDuties,   *)
(* whose duties each keep such a journal, in the second.                   *)
(*                                                                         *)
(* The journal J of MCRecoveryJournal is proved for every number of        *)
(* stages, any position of the switch and any number of runs.  JournalInv  *)
(* adds to its properties what the journal knows at each place of a run:   *)
(* an attempt was stored before its mutation was sent, an observation      *)
(* after it took effect, the effects a run holds are those of the stages   *)
(* behind it, and once it has reconciled, of every mutation ever sent.     *)
(*                                                                         *)
(* NatDuties is proved for any number of instances, deliveries and faults  *)
(* and for any set of duties.  DutiesInv adds to its properties that an    *)
(* intent is made for the oldest instance that will ever be listed again,  *)
(* so that no call of another instance is left to apply while a result     *)
(* stands, and how far an undisturbed operation has come; SeenTells adds   *)
(* that what the final readiness check has seen so far is still so.        *)
(***************************************************************************)
EXTENDS NatDuties, MCRecoveryJournal, TLAPS

------------------------------------------------------------------------------
(* The journal. *)

\* Places at which the stage of the run has not been sent by any run.
Unsent == {"planned", "attempting", "guarding", "dispatch"}

\* Places at which the run is in one of its two loops.
Looping == {"reconcile", "stage", "planned", "attempting", "guarding", "dispatch",
            "called", "observe", "observing"}

\* Places of the second loop.
Driving == {"stage", "planned", "attempting", "guarding", "dispatch", "called"}

\* What storage says of AWS: attempts precede calls, observations follow effects.
Evidence ==
  /\ \A s \in J!Stage : sent[s] = 0 <=> effect[s] = "none"
  /\ \A s \in J!Stage : sent[s] > 0 => J!Has("attempt", s)
  /\ \A s \in J!Stage : J!Has("observed", s) \/ <<"observed", s>> \in puts => effect[s] = "applied"
  /\ \A s \in effects : effect[s] = "applied"
  /\ receipt \/ receiptPut => \A s \in J!Stage : effect[s] = "applied"

\* What a run has established where it is.
Progress ==
  /\ runAt # "idle" => run \in J!Runs
  /\ runAt \in {"accept", "accepting"} => stage = 1
  /\ runAt \in Driving \cup {"final", "closing"} => reconciled
  /\ runAt \in {"accept", "accepting", "reconcile"} => ~ reconciled
  /\ runAt \in Unsent => sent[stage] = 0
  /\ runAt \in {"guarding", "dispatch"} => J!Has("attempt", stage)
  /\ runAt = "called" => sent[stage] = 1
  /\ runAt \in Looping /\ reconciled => \A t \in 1 .. stage - 1 : t \in effects
  /\ runAt \in Looping /\ ~ reconciled =>
       \A t \in 1 .. stage - 1 : sent[t] > 0 => t \in effects
  /\ runAt \in Looping /\ reconciled =>
       \A t \in J!Stage : sent[t] > 0 =>
         t \in effects \/ (t = stage /\ runAt \in {"called", "observe", "observing"})
  /\ runAt \in {"final", "closing"} => \A t \in J!Stage : t \in effects
  /\ runAt # "idle" /\ preparing # 0 => runAt \in {"guarding", "dispatch"} /\ preparing = stage

JournalInv == J!TypeOK /\ J!AtMostOnce /\ J!InOrder /\ J!DecidedIsKnown /\ Evidence /\ Progress

------------------------------------------------------------------------------
LEMMA JournalConstants == Stages \in Nat \ {0} /\ Switch \in 0 .. Stages /\ MaxRuns \in Nat
BY JournalHolds DEF J!JournalAssumption

LEMMA InitInv == J!Init => JournalInv
<1> SUFFICES ASSUME J!Init PROVE JournalInv
  OBVIOUS
<1>1. J!TypeOK
  <2>1. 1 \in J!Stage /\ 0 \in 0 .. MaxRuns /\ 0 \in 0 .. Stages
    BY JournalConstants DEF J!Stage
  <2>2. /\ sent \in [J!Stage -> Nat]
        /\ effect \in [J!Stage -> {"none", "sent", "accepted", "applied", "lost"}]
    BY DEF J!Init
  <2> QED BY <2>1, <2>2 DEF J!Init, J!TypeOK, J!Places
<1>2. J!AtMostOnce /\ J!InOrder /\ J!DecidedIsKnown
  BY DEF J!Init, J!AtMostOnce, J!InOrder, J!DecidedIsKnown
<1>3. Evidence
  BY DEF J!Init, Evidence, J!Has
<1>4. Progress
  BY DEF J!Init, Progress, Unsent, Looping, Driving
<1> QED BY <1>1, <1>2, <1>3, <1>4 DEF JournalInv

\* A run that returns leaves AWS and storage as they are: what it concludes is
\* all that has to be checked.
LEMMA ReturnInv ==
  ASSUME JournalInv, NEW status, J!Return(status),
         status \in {"FAILURE", "UNCERTAIN", "CRASHED"},
         status = "FAILURE" => \A s \in J!Stage : effect[s] \in {"none", "applied"},
         status = "FAILURE" /\ Switch # 0 => sent[Switch] = 0,
         UNCHANGED <<J!stored, receiptPut, J!world>>,
         intentPuts' \subseteq intentPuts, puts' \subseteq puts
  PROVE  JournalInv'
<1>1. J!TypeOK'
  BY DEF JournalInv, J!TypeOK, J!Return, J!stored, J!world, J!Places
<1>2. J!AtMostOnce' /\ J!InOrder'
  BY DEF JournalInv, J!AtMostOnce, J!InOrder, J!world
<1>3. J!DecidedIsKnown'
  BY DEF JournalInv, J!DecidedIsKnown, J!Return, J!stored, J!world
<1>4. Evidence'
  BY DEF JournalInv, Evidence, J!Return, J!stored, J!world, J!Has
<1>5. Progress'
  BY DEF JournalInv, Progress, J!Return, J!stored, J!world, J!Has, Unsent, Looping, Driving
<1> QED BY <1>1, <1>2, <1>3, <1>4, <1>5 DEF JournalInv

\* FAILURE is concluded from the absence of attempts only when there were no calls.
LEMMA JournalFailsInv ==
  ASSUME JournalInv, J!JournalFails, UNCHANGED <<J!stored, J!flights, J!world>>
  PROVE  JournalInv'
<1>1. CASE J!Return("UNCERTAIN")
  BY <1>1, ReturnInv DEF J!stored, J!flights, J!world
<1>2. CASE ~ J!Attempted /\ J!Return("FAILURE")
  <2>1. \A s \in J!Stage : sent[s] = 0
    BY <1>2 DEF JournalInv, J!TypeOK, Evidence, J!Attempted
  <2>2. \A s \in J!Stage : effect[s] = "none"
    BY <2>1 DEF JournalInv, Evidence
  <2>3. Switch # 0 => sent[Switch] = 0
    BY <2>1, JournalConstants DEF J!Stage
  <2> QED BY <1>2, <2>2, <2>3, ReturnInv DEF J!flights
<1> QED BY <1>1, <1>2 DEF J!JournalFails

\* A rejection is definitive when no call of the operation is unresolved.
LEMMA RejectedInv ==
  ASSUME JournalInv, J!Rejected, UNCHANGED <<J!stored, J!flights, J!world>>,
         runAt \in {"accept", "accepting", "planned", "guarding", "final"}
  PROVE  JournalInv'
<1>1. CASE J!Return("UNCERTAIN")
  BY <1>1, ReturnInv DEF J!flights
<1>2. CASE /\ ~ reconciled => ~ J!Attempted
           /\ J!Accepted /\ (Switch = 0 \/ preparing # Switch) => ~ J!SwitchAttempted
           /\ J!Return("FAILURE")
  <2>1. \A s \in J!Stage : effect[s] \in {"none", "applied"}
    <3>1. CASE runAt \in {"accept", "accepting"}
      BY <1>2, <3>1 DEF JournalInv, J!TypeOK, Evidence, Progress, J!Attempted
    <3>2. CASE runAt \in {"planned", "guarding"}
      BY <3>2 DEF JournalInv, J!TypeOK, Evidence, Progress, Looping, Driving, Unsent
    <3>3. CASE runAt = "final"
      BY <3>3 DEF JournalInv, Evidence, Progress
    <3> QED BY <3>1, <3>2, <3>3
  <2>2. Switch # 0 => sent[Switch] = 0
    <3>1. CASE runAt \in {"accept", "accepting"}
      BY <1>2, <3>1, JournalConstants DEF JournalInv, J!TypeOK, Evidence, Progress,
         J!Attempted, J!Stage
    <3>2. CASE runAt \in {"planned", "guarding", "final"}
      <4> SUFFICES ASSUME Switch # 0 PROVE sent[Switch] = 0
        OBVIOUS
      <4>1. CASE preparing = Switch
        BY <3>2, <4>1 DEF JournalInv, Progress, Unsent
      <4>2. CASE ~ J!SwitchAttempted
        BY <4>2, JournalConstants DEF JournalInv, J!TypeOK, Evidence, J!SwitchAttempted,
           J!Stage
      <4> QED BY <1>2, <3>2, <4>1, <4>2 DEF J!Accepted
    <3> QED BY <3>1, <3>2
  <2> QED BY <1>2, <2>1, <2>2, ReturnInv DEF J!flights
<1> QED BY <1>1, <1>2 DEF J!Rejected

------------------------------------------------------------------------------
(* The environment: a put that lands or is lost, a mutation that takes effect. *)

LEMMA LandIntentInv ==
  ASSUME JournalInv, NEW r, J!LandIntent(r)
  PROVE  JournalInv'
<1>1. J!TypeOK'
  BY DEF JournalInv, J!TypeOK, J!LandIntent, J!stored, J!world, J!runner, J!flights
<1>2. J!AtMostOnce' /\ J!InOrder'
  BY JournalConstants
     DEF JournalInv, J!TypeOK, J!AtMostOnce, J!InOrder, J!LandIntent, J!stored, J!world,
        J!runner, J!flights, J!Stage
<1>3. J!DecidedIsKnown'
  BY JournalConstants
     DEF JournalInv, J!TypeOK, J!DecidedIsKnown, Evidence, J!LandIntent, J!stored,
        J!world, J!runner, J!flights, J!Stage
<1>4. Evidence'
  BY DEF JournalInv, J!TypeOK, Evidence, J!LandIntent, J!stored, J!world, J!runner,
     J!flights, J!Has
<1>5. Progress'
  BY DEF JournalInv, Progress, J!LandIntent, J!stored, J!world, J!runner, J!flights,
     J!Has, Unsent, Looping, Driving
<1> QED BY <1>1, <1>2, <1>3, <1>4, <1>5 DEF JournalInv

LEMMA LoseIntentInv ==
  ASSUME JournalInv, NEW r, J!LoseIntent(r)
  PROVE  JournalInv'
<1>1. J!TypeOK'
  BY DEF JournalInv, J!TypeOK, J!LoseIntent, J!stored, J!world, J!runner, J!flights
<1>2. J!AtMostOnce' /\ J!InOrder'
  BY JournalConstants
     DEF JournalInv, J!TypeOK, J!AtMostOnce, J!InOrder, J!LoseIntent, J!stored, J!world,
        J!runner, J!flights, J!Stage
<1>3. J!DecidedIsKnown'
  BY JournalConstants
     DEF JournalInv, J!TypeOK, J!DecidedIsKnown, Evidence, J!LoseIntent, J!stored,
        J!world, J!runner, J!flights, J!Stage
<1>4. Evidence'
  BY DEF JournalInv, J!TypeOK, Evidence, J!LoseIntent, J!stored, J!world, J!runner,
     J!flights, J!Has
<1>5. Progress'
  BY DEF JournalInv, Progress, J!LoseIntent, J!stored, J!world, J!runner, J!flights,
     J!Has, Unsent, Looping, Driving
<1> QED BY <1>1, <1>2, <1>3, <1>4, <1>5 DEF JournalInv

LEMMA LandPutInv ==
  ASSUME JournalInv, NEW p, J!LandPut(p)
  PROVE  JournalInv'
<1>1. J!TypeOK'
  BY DEF JournalInv, J!TypeOK, J!LandPut, J!stored, J!world, J!runner, J!flights
<1>2. J!AtMostOnce' /\ J!InOrder'
  BY JournalConstants
     DEF JournalInv, J!TypeOK, J!AtMostOnce, J!InOrder, J!LandPut, J!stored, J!world,
        J!runner, J!flights, J!Stage
<1>3. J!DecidedIsKnown'
  BY JournalConstants
     DEF JournalInv, J!TypeOK, J!DecidedIsKnown, Evidence, J!LandPut, J!stored, J!world,
        J!runner, J!flights, J!Stage
<1>4. Evidence'
  BY DEF JournalInv, J!TypeOK, Evidence, J!LandPut, J!stored, J!world, J!runner,
     J!flights, J!Has
<1>5. Progress'
  BY DEF JournalInv, Progress, J!LandPut, J!stored, J!world, J!runner, J!flights, J!Has,
     Unsent, Looping, Driving
<1> QED BY <1>1, <1>2, <1>3, <1>4, <1>5 DEF JournalInv

LEMMA LosePutInv ==
  ASSUME JournalInv, NEW p, J!LosePut(p)
  PROVE  JournalInv'
<1>1. J!TypeOK'
  BY DEF JournalInv, J!TypeOK, J!LosePut, J!stored, J!world, J!runner, J!flights
<1>2. J!AtMostOnce' /\ J!InOrder'
  BY JournalConstants
     DEF JournalInv, J!TypeOK, J!AtMostOnce, J!InOrder, J!LosePut, J!stored, J!world,
        J!runner, J!flights, J!Stage
<1>3. J!DecidedIsKnown'
  BY JournalConstants
     DEF JournalInv, J!TypeOK, J!DecidedIsKnown, Evidence, J!LosePut, J!stored, J!world,
        J!runner, J!flights, J!Stage
<1>4. Evidence'
  BY DEF JournalInv, J!TypeOK, Evidence, J!LosePut, J!stored, J!world, J!runner,
     J!flights, J!Has
<1>5. Progress'
  BY DEF JournalInv, Progress, J!LosePut, J!stored, J!world, J!runner, J!flights, J!Has,
     Unsent, Looping, Driving
<1> QED BY <1>1, <1>2, <1>3, <1>4, <1>5 DEF JournalInv

LEMMA LandReceiptInv ==
  ASSUME JournalInv, J!LandReceipt
  PROVE  JournalInv'
<1>1. J!TypeOK'
  BY DEF JournalInv, J!TypeOK, J!LandReceipt, J!stored, J!world, J!runner
<1>2. J!AtMostOnce' /\ J!InOrder'
  BY DEF JournalInv, J!AtMostOnce, J!InOrder, J!LandReceipt, J!stored, J!world, J!runner
<1>3. J!DecidedIsKnown'
  BY DEF JournalInv, J!DecidedIsKnown, J!LandReceipt, J!stored, J!world, J!runner
<1>4. Evidence'
  BY DEF JournalInv, Evidence, J!LandReceipt, J!stored, J!world, J!runner, J!Has
<1>5. Progress'
  BY DEF JournalInv, Progress, J!LandReceipt, J!stored, J!world, J!runner, J!Has, Unsent,
     Looping, Driving
<1> QED BY <1>1, <1>2, <1>3, <1>4, <1>5 DEF JournalInv

LEMMA LoseReceiptInv ==
  ASSUME JournalInv, J!LoseReceipt
  PROVE  JournalInv'
<1>1. J!TypeOK'
  BY DEF JournalInv, J!TypeOK, J!LoseReceipt, J!stored, J!world, J!runner
<1>2. J!AtMostOnce' /\ J!InOrder'
  BY DEF JournalInv, J!AtMostOnce, J!InOrder, J!LoseReceipt, J!stored, J!world, J!runner
<1>3. J!DecidedIsKnown'
  BY DEF JournalInv, J!DecidedIsKnown, J!LoseReceipt, J!stored, J!world, J!runner
<1>4. Evidence'
  BY DEF JournalInv, Evidence, J!LoseReceipt, J!stored, J!world, J!runner, J!Has
<1>5. Progress'
  BY DEF JournalInv, Progress, J!LoseReceipt, J!stored, J!world, J!runner, J!Has, Unsent,
     Looping, Driving
<1> QED BY <1>1, <1>2, <1>3, <1>4, <1>5 DEF JournalInv

LEMMA ApplyInv ==
  ASSUME JournalInv, NEW s \in J!Stage, J!Apply(s)
  PROVE  JournalInv'
<1>1. J!TypeOK'
  BY DEF JournalInv, J!TypeOK, J!Apply, J!stored, J!world, J!runner, J!flights
<1>2. J!AtMostOnce' /\ J!InOrder'
  BY JournalConstants
     DEF JournalInv, J!TypeOK, J!AtMostOnce, J!InOrder, J!Apply, J!stored, J!world,
        J!runner, J!flights, J!Stage
<1>3. J!DecidedIsKnown'
  <2>1. \A u \in J!Stage : effect[u] \in {"none", "applied"} => effect'[u] = effect[u]
    BY DEF JournalInv, J!TypeOK, J!Apply
  <2>2. \A u \in J!Stage : effect[u] = "applied" => effect'[u] = "applied"
    BY <2>1
  <2>3. UNCHANGED <<runAt, runVerdict, sent, receipt, receiptPut>>
    BY DEF J!Apply, J!stored, J!flights, J!runner
  <2> QED BY <2>1, <2>2, <2>3 DEF JournalInv, J!DecidedIsKnown
<1>4. Evidence'
  BY DEF JournalInv, J!TypeOK, Evidence, J!Apply, J!stored, J!world, J!runner, J!flights,
     J!Has
<1>5. Progress'
  BY DEF JournalInv, Progress, J!Apply, J!stored, J!world, J!runner, J!flights, J!Has,
     Unsent, Looping, Driving
<1> QED BY <1>1, <1>2, <1>3, <1>4, <1>5 DEF JournalInv

LEMMA LoseInv ==
  ASSUME JournalInv, NEW s \in J!Stage, J!Lose(s)
  PROVE  JournalInv'
<1>1. J!TypeOK'
  BY DEF JournalInv, J!TypeOK, J!Lose, J!stored, J!world, J!runner, J!flights
<1>2. J!AtMostOnce' /\ J!InOrder'
  BY JournalConstants
     DEF JournalInv, J!TypeOK, J!AtMostOnce, J!InOrder, J!Lose, J!stored, J!world,
        J!runner, J!flights, J!Stage
<1>3. J!DecidedIsKnown'
  BY JournalConstants
     DEF JournalInv, J!TypeOK, J!DecidedIsKnown, Evidence, J!Lose, J!stored, J!world,
        J!runner, J!flights, J!Stage
<1>4. Evidence'
  BY DEF JournalInv, J!TypeOK, Evidence, J!Lose, J!stored, J!world, J!runner, J!flights,
     J!Has
<1>5. Progress'
  BY DEF JournalInv, Progress, J!Lose, J!stored, J!world, J!runner, J!flights, J!Has,
     Unsent, Looping, Driving
<1> QED BY <1>1, <1>2, <1>3, <1>4, <1>5 DEF JournalInv

LEMMA ExpireInv ==
  ASSUME JournalInv, J!Expire
  PROVE  JournalInv'
<1>1. J!TypeOK'
  BY DEF JournalInv, J!TypeOK, J!Expire, J!stored, J!world, J!runner, J!flights
<1>2. J!AtMostOnce' /\ J!InOrder'
  BY JournalConstants
     DEF JournalInv, J!TypeOK, J!AtMostOnce, J!InOrder, J!Expire, J!stored, J!world,
        J!runner, J!flights, J!Stage
<1>3. J!DecidedIsKnown'
  BY JournalConstants
     DEF JournalInv, J!TypeOK, J!DecidedIsKnown, Evidence, J!Expire, J!stored, J!world,
        J!runner, J!flights, J!Stage
<1>4. Evidence'
  BY DEF JournalInv, J!TypeOK, Evidence, J!Expire, J!stored, J!world, J!runner, J!flights,
     J!Has
<1>5. Progress'
  BY DEF JournalInv, Progress, J!Expire, J!stored, J!world, J!runner, J!flights, J!Has,
     Unsent, Looping, Driving
<1> QED BY <1>1, <1>2, <1>3, <1>4, <1>5 DEF JournalInv

------------------------------------------------------------------------------
(* The steps of a run. *)

LEMMA BeginInv ==
  ASSUME JournalInv, J!Begin
  PROVE  JournalInv'
<1>1. J!TypeOK'
  <2>1. 1 \in J!Stage /\ 0 \in 0 .. Stages
    BY JournalConstants DEF J!Stage
  <2>2. run + 1 \in 0 .. MaxRuns
    BY JournalConstants DEF JournalInv, J!TypeOK, J!Begin
  <2> QED BY <2>1, <2>2 DEF JournalInv, J!TypeOK, J!Begin, J!stored, J!flights, J!world,
     J!Places
<1>2. J!AtMostOnce' /\ J!InOrder'
  BY JournalConstants
     DEF JournalInv, J!TypeOK, J!AtMostOnce, J!InOrder, Evidence, Progress, J!Begin,
        J!stored, J!flights, J!world,
         J!runner, J!Stage, Looping, Driving, Unsent
<1>3. J!DecidedIsKnown'
  BY DEF JournalInv, J!TypeOK, J!DecidedIsKnown, Evidence, Progress, J!Begin, J!stored,
     J!flights, J!world, J!runner
<1>4. Evidence'
  BY DEF JournalInv, J!TypeOK, Evidence, Progress, J!Begin, J!stored, J!flights, J!world,
     J!runner, J!Has
<1>5. Progress'
  BY JournalConstants
     DEF JournalInv, J!TypeOK, Evidence, Progress, J!Runs, J!Begin, J!stored, J!flights,
        J!world, J!runner, J!Has,
         J!Stage, Looping, Driving, Unsent
<1> QED BY <1>1, <1>2, <1>3, <1>4, <1>5 DEF JournalInv

LEMMA DispatchInv ==
  ASSUME JournalInv, J!Dispatch
  PROVE  JournalInv'
<1>1. J!TypeOK'
  BY JournalConstants
     DEF JournalInv, J!TypeOK, J!Dispatch, J!stored, J!flights, J!world, J!runner,
        J!Stage, J!Places, J!Records, J!Kinds
<1>2. J!AtMostOnce' /\ J!InOrder'
  BY JournalConstants
     DEF JournalInv, J!TypeOK, J!AtMostOnce, J!InOrder, Evidence, Progress, J!Dispatch,
        J!stored, J!flights,
         J!world, J!runner, J!Stage, Looping, Driving, Unsent
<1>3. J!DecidedIsKnown' /\ Evidence'
  <2>1. sent[stage] = 0 /\ effect[stage] = "none" /\ stage \in J!Stage /\ J!Has("attempt", stage)
    BY DEF JournalInv, J!TypeOK, Evidence, Progress, J!Dispatch, Unsent
  <2>2. stage \notin effects /\ ~ receipt /\ ~ receiptPut
    BY <2>1 DEF JournalInv, Evidence
  <2>3. ~ J!Has("observed", stage) /\ <<"observed", stage>> \notin puts
    BY <2>1 DEF JournalInv, Evidence
  <2>4. \A s \in J!Stage : s # stage => sent'[s] = sent[s] /\ effect'[s] = effect[s]
    BY DEF JournalInv, J!TypeOK, J!Dispatch
  <2>5. sent'[stage] = 1 /\ effect'[stage] = "sent"
    BY <2>1 DEF JournalInv, J!TypeOK, J!Dispatch
  <2>6. UNCHANGED <<records, puts, effects, receipt, receiptPut>> /\ runAt' = "called"
    BY DEF J!Dispatch, J!stored, J!flights
  <2>7. J!DecidedIsKnown'
    BY <2>2, <2>6 DEF J!DecidedIsKnown
  <2>8. \A s \in J!Stage : /\ J!Has("attempt", s)' = J!Has("attempt", s)
                        /\ J!Has("observed", s)' = J!Has("observed", s)
    BY <2>6 DEF J!Has
  <2> QED
    BY <2>1, <2>2, <2>3, <2>4, <2>5, <2>6, <2>7, <2>8 DEF JournalInv, J!TypeOK, Evidence
<1>5. Progress'
  BY JournalConstants
     DEF JournalInv, J!TypeOK, Evidence, Progress, J!Dispatch, J!stored, J!flights,
        J!world, J!runner, J!Has, J!Stage,
         Looping, Driving, Unsent
<1> QED BY <1>1, <1>2, <1>3, <1>5 DEF JournalInv

LEMMA RefuseInv ==
  ASSUME JournalInv, J!Refuse
  PROVE  JournalInv'
<1>1. J!TypeOK'
  BY JournalConstants
     DEF JournalInv, J!TypeOK, J!Refuse, J!stored, J!flights, J!world, J!runner, J!Stage,
        J!Places, J!Records, J!Kinds
<1>2. J!AtMostOnce' /\ J!InOrder'
  BY JournalConstants
     DEF JournalInv, J!TypeOK, J!AtMostOnce, J!InOrder, Evidence, Progress, J!Refuse,
        J!stored, J!flights, J!world,
         J!runner, J!Stage, Looping, Driving, Unsent
<1>3. J!DecidedIsKnown'
  BY DEF JournalInv, J!TypeOK, J!DecidedIsKnown, Evidence, Progress, J!Refuse, J!stored,
     J!flights, J!world, J!runner
<1>4. Evidence'
  BY DEF JournalInv, J!TypeOK, Evidence, Progress, J!Refuse, J!stored, J!flights, J!world,
     J!runner, J!Has
<1>5. Progress'
  BY JournalConstants
     DEF JournalInv, J!TypeOK, Evidence, Progress, J!Refuse, J!stored, J!flights, J!world,
        J!runner, J!Has, J!Stage,
         Looping, Driving, Unsent
<1> QED BY <1>1, <1>2, <1>3, <1>4, <1>5 DEF JournalInv

LEMMA AcknowledgeInv ==
  ASSUME JournalInv, J!Acknowledge
  PROVE  JournalInv'
<1>1. J!TypeOK'
  BY JournalConstants
     DEF JournalInv, J!TypeOK, J!Acknowledge, J!GoTo, J!stored, J!flights, J!world,
        J!runner, J!Stage, J!Places,
         J!Records, J!Kinds
<1>2. J!AtMostOnce' /\ J!InOrder'
  BY JournalConstants
     DEF JournalInv, J!TypeOK, J!AtMostOnce, J!InOrder, Evidence, Progress, J!Acknowledge,
        J!GoTo, J!stored,
         J!flights, J!world, J!runner, J!Stage, Looping, Driving, Unsent
<1>3. J!DecidedIsKnown'
  BY DEF JournalInv, J!TypeOK, J!DecidedIsKnown, Evidence, Progress, J!Acknowledge,
     J!GoTo, J!stored, J!flights,
     J!world, J!runner
<1>4. Evidence'
  BY DEF JournalInv, J!TypeOK, Evidence, Progress, J!Acknowledge, J!GoTo, J!stored,
     J!flights, J!world, J!runner, J!Has
<1>5. Progress'
  BY JournalConstants
     DEF JournalInv, J!TypeOK, Evidence, Progress, J!Acknowledge, J!GoTo, J!stored,
        J!flights, J!world, J!runner,
         J!Has, J!Stage, Looping, Driving, Unsent
<1> QED BY <1>1, <1>2, <1>3, <1>4, <1>5 DEF JournalInv

LEMMA CallRaisedInv ==
  ASSUME JournalInv, J!CallRaised
  PROVE  JournalInv'
<1>1. J!TypeOK'
  BY JournalConstants
     DEF JournalInv, J!TypeOK, J!CallRaised, J!GoTo, J!stored, J!flights, J!world,
        J!runner, J!Stage, J!Places, J!Records,
         J!Kinds
<1>2. J!AtMostOnce' /\ J!InOrder'
  BY JournalConstants
     DEF JournalInv, J!TypeOK, J!AtMostOnce, J!InOrder, Evidence, Progress, J!CallRaised,
        J!GoTo, J!stored,
         J!flights, J!world, J!runner, J!Stage, Looping, Driving, Unsent
<1>3. J!DecidedIsKnown'
  BY DEF JournalInv, J!TypeOK, J!DecidedIsKnown, Evidence, Progress, J!CallRaised, J!GoTo,
     J!stored, J!flights,
     J!world, J!runner
<1>4. Evidence'
  BY DEF JournalInv, J!TypeOK, Evidence, Progress, J!CallRaised, J!GoTo, J!stored,
     J!flights, J!world, J!runner, J!Has
<1>5. Progress'
  BY JournalConstants
     DEF JournalInv, J!TypeOK, Evidence, Progress, J!CallRaised, J!GoTo, J!stored,
        J!flights, J!world, J!runner,
         J!Has, J!Stage, Looping, Driving, Unsent
<1> QED BY <1>1, <1>2, <1>3, <1>4, <1>5 DEF JournalInv

\* A run that only moves: what it holds and what was sent are unchanged.
LEMMA GoToInv ==
  ASSUME JournalInv, NEW place \in J!Places \ {"idle"}, J!GoTo(place),
         UNCHANGED <<J!stored, receiptPut, J!world>>,
         intentPuts' \subseteq J!Runs, puts' \subseteq J!Records,
         \A s \in J!Stage : <<"observed", s>> \in puts'
                           => <<"observed", s>> \in puts \/ effect[s] = "applied",
         Progress'
  PROVE  JournalInv'
<1>1. J!TypeOK'
  BY DEF JournalInv, J!TypeOK, J!GoTo, J!stored, J!world
<1>2. J!AtMostOnce' /\ J!InOrder' /\ J!DecidedIsKnown'
  BY DEF JournalInv, J!AtMostOnce, J!InOrder, J!DecidedIsKnown, J!GoTo, J!stored, J!world
<1>3. Evidence'
  BY DEF JournalInv, Evidence, J!GoTo, J!stored, J!world, J!Has
<1> QED BY <1>1, <1>2, <1>3 DEF JournalInv

LEMMA AcceptInv ==
  ASSUME JournalInv, J!Accept
  PROVE  JournalInv'
<1>1. CASE runIntent # 0 /\ J!GoTo("reconcile") /\ UNCHANGED intentPuts
  <2>1. Progress'
    BY <1>1 DEF JournalInv, J!TypeOK, Progress, J!Accept, J!GoTo, J!stored, J!world,
       J!Has, Unsent, Looping, Driving
  <2> QED BY <1>1, <2>1, GoToInv DEF J!Accept, JournalInv, J!TypeOK, J!Places
<1>2. CASE intentPuts' = intentPuts \cup {run} /\ J!GoTo("accepting")
  <2>1. Progress'
    BY <1>2 DEF JournalInv, Progress, J!Accept, J!GoTo, J!stored, J!world, J!Has, Unsent,
       Looping, Driving
  <2>2. run \in J!Runs
    BY DEF JournalInv, Progress, J!Accept
  <2> QED BY <1>2, <2>1, <2>2, GoToInv DEF J!Accept, JournalInv, J!TypeOK, J!Places
<1>3. CASE (J!JournalFails \/ J!Rejected) /\ UNCHANGED intentPuts
  BY <1>3, JournalFailsInv, RejectedInv DEF J!Accept, J!flights
<1> QED BY <1>1, <1>2, <1>3 DEF J!Accept

LEMMA AcceptReadInv ==
  ASSUME JournalInv, J!AcceptRead
  PROVE  JournalInv'
<1>1. CASE J!GoTo("reconcile")
  <2>1. Progress'
    BY <1>1 DEF JournalInv, J!TypeOK, Progress, J!AcceptRead, J!GoTo, J!stored, J!world,
       J!Has, Unsent, Looping,
       Driving
  <2> QED BY <1>1, <2>1, GoToInv DEF J!AcceptRead, JournalInv, J!TypeOK, J!Places, J!flights
<1>2. CASE J!JournalFails \/ J!Rejected
  BY <1>2, JournalFailsInv, RejectedInv DEF J!AcceptRead
<1> QED BY <1>1, <1>2 DEF J!AcceptRead

\* The last step of a loop, or one before it.
LEMMA AdvanceFacts ==
  ASSUME J!TypeOK, NEW place, NEW after, J!Advance(place, after)
  PROVE  /\ stage' \in J!Stage
         /\ \/ runAt' = place /\ stage' = stage + 1
            \/ runAt' = after /\ stage' = 1 /\ stage = Stages
BY JournalConstants DEF J!TypeOK, J!Advance, J!Stage

\* An observed effect extends what the run holds by the stage it is at.
LEMMA HoldInv ==
  ASSUME JournalInv, J!Hold, runAt \in {"observe", "observing"}, J!Has("observed", stage),
         UNCHANGED <<J!stored, J!flights, J!world>>
  PROVE  JournalInv'
<1>1. effect[stage] = "applied" /\ stage \in J!Stage
  BY DEF JournalInv, J!TypeOK, Evidence
<1>2. CASE reconciled
  <2>1. /\ stage' \in J!Stage
        /\ \/ runAt' = "stage" /\ stage' = stage + 1
           \/ runAt' = "final" /\ stage' = 1 /\ stage = Stages
    BY <1>2, AdvanceFacts DEF JournalInv, J!Hold
  <2>2. UNCHANGED <<reconciled, run, preparing, runVerdict>> /\ effects' = effects \cup {stage}
    BY <1>2 DEF J!Hold
  <2>3. J!TypeOK'
    BY <1>1, <2>1, <2>2 DEF JournalInv, J!TypeOK, J!Places, J!stored, J!flights, J!world
  <2>4. J!AtMostOnce' /\ J!InOrder' /\ J!DecidedIsKnown' /\ Evidence'
    BY <1>1, <2>1, <2>2
       DEF JournalInv, J!AtMostOnce, J!InOrder, J!DecidedIsKnown, Evidence, J!stored,
          J!flights, J!world, J!Has
  <2>5. Progress'
    <3>1. \A t \in 1 .. stage : t \in effects'
      BY <1>1, <1>2, <2>2 DEF JournalInv, J!TypeOK, Progress, Looping, J!Stage
    <3>2. \A t \in J!Stage : sent'[t] > 0 => t \in effects'
      BY <1>2, <2>2 DEF JournalInv, Progress, Looping, J!world
    <3>3. preparing' = 0 /\ run' \in J!Runs /\ reconciled'
      BY <1>2, <2>2 DEF JournalInv, Progress
    <3>4. CASE runAt' = "stage" /\ stage' = stage + 1
      <4>1. 1 .. stage' - 1 = 1 .. stage
        BY <1>1, <3>4 DEF J!Stage
      <4> QED BY <3>1, <3>2, <3>3, <3>4, <4>1 DEF Progress, Unsent, Looping, Driving
    <3>5. CASE runAt' = "final" /\ stage = Stages
      BY <3>1, <3>2, <3>3, <3>5 DEF Progress, J!Stage, Unsent, Looping, Driving
    <3> QED BY <2>1, <3>4, <3>5
  <2> QED BY <2>3, <2>4, <2>5 DEF JournalInv
<1>3. CASE ~ reconciled
  <2>1. /\ stage' \in J!Stage
        /\ \/ runAt' = "reconcile" /\ stage' = stage + 1
           \/ runAt' = "stage" /\ stage' = 1 /\ stage = Stages
    BY <1>3, AdvanceFacts DEF JournalInv, J!Hold
  <2>2. /\ UNCHANGED <<run, preparing, runVerdict>> /\ effects' = effects \cup {stage}
        /\ reconciled' = (runAt' = "stage")
    BY <1>3 DEF J!Hold
  <2>3. J!TypeOK'
    BY <1>1, <2>1, <2>2 DEF JournalInv, J!TypeOK, J!Places, J!stored, J!flights, J!world
  <2>4. J!AtMostOnce' /\ J!InOrder' /\ J!DecidedIsKnown' /\ Evidence'
    BY <1>1, <2>1, <2>2
       DEF JournalInv, J!AtMostOnce, J!InOrder, J!DecidedIsKnown, Evidence, J!stored,
          J!flights, J!world, J!Has
  <2>5. Progress'
    <3>1. \A t \in 1 .. stage : sent'[t] > 0 => t \in effects'
      BY <1>1, <1>3, <2>2 DEF JournalInv, J!TypeOK, Progress, Looping, J!Stage, J!world
    <3>2. preparing' = 0 /\ run' \in J!Runs
      BY <2>2 DEF JournalInv, Progress
    <3>3. CASE runAt' = "reconcile" /\ stage' = stage + 1
      <4>1. 1 .. stage' - 1 = 1 .. stage
        BY <1>1, <3>3 DEF J!Stage
      <4>2. ~ reconciled'
        BY <2>2, <3>3
      <4> QED BY <3>1, <3>2, <3>3, <4>1, <4>2 DEF Progress, Unsent, Looping, Driving
    <3>4. CASE runAt' = "stage" /\ stage' = 1 /\ stage = Stages
      <4>1. reconciled'
        BY <2>2, <3>4
      <4> QED BY <3>1, <3>2, <3>4, <4>1 DEF Progress, J!Stage, Unsent, Looping, Driving
    <3> QED BY <2>1, <3>3, <3>4
  <2> QED BY <2>3, <2>4, <2>5 DEF JournalInv
<1> QED BY <1>2, <1>3 DEF JournalInv, J!TypeOK

LEMMA ReconcileInv ==
  ASSUME JournalInv, J!Reconcile
  PROVE  JournalInv'
<1>1. CASE /\ ~ J!Has("attempt", stage)
           /\ J!Advance("reconcile", "stage")
           /\ reconciled' = (runAt' = "stage")
           /\ UNCHANGED <<puts, run, effects, preparing, runVerdict>>
  <2>1. /\ stage' \in J!Stage
        /\ \/ runAt' = "reconcile" /\ stage' = stage + 1
           \/ runAt' = "stage" /\ stage' = 1 /\ stage = Stages
    BY <1>1, AdvanceFacts DEF JournalInv
  <2>2. stage \in J!Stage /\ sent[stage] = 0
    BY <1>1 DEF JournalInv, J!TypeOK, Evidence
  <2>3. UNCHANGED <<J!stored, J!flights, J!world>>
    BY <1>1 DEF J!Reconcile, J!flights
  <2>4. J!TypeOK'
    BY <1>1, <2>1, <2>3 DEF JournalInv, J!TypeOK, J!Places, J!stored, J!flights, J!world
  <2>5. J!AtMostOnce' /\ J!InOrder' /\ J!DecidedIsKnown' /\ Evidence'
    BY <1>1, <2>1, <2>3
       DEF JournalInv, J!AtMostOnce, J!InOrder, J!DecidedIsKnown, Evidence, J!stored,
          J!flights, J!world, J!Has
  <2>6. Progress'
    <3>1. \A t \in 1 .. stage : sent'[t] > 0 => t \in effects'
      BY <1>1, <2>2, <2>3 DEF JournalInv, Progress, J!Reconcile, Looping, J!Stage, J!world
    <3>2. preparing' = 0 /\ run' \in J!Runs
      BY <1>1 DEF JournalInv, Progress, J!Reconcile
    <3>3. CASE runAt' = "reconcile" /\ stage' = stage + 1
      <4>1. 1 .. stage' - 1 = 1 .. stage
        BY <2>2, <3>3 DEF J!Stage
      <4>2. ~ reconciled'
        BY <1>1, <3>3
      <4> QED BY <3>1, <3>2, <3>3, <4>1, <4>2 DEF Progress, Unsent, Looping, Driving
    <3>4. CASE runAt' = "stage" /\ stage' = 1 /\ stage = Stages
      <4>1. reconciled'
        BY <1>1, <3>4
      <4> QED BY <3>1, <3>2, <3>4, <4>1 DEF Progress, J!Stage, Unsent, Looping, Driving
    <3> QED BY <2>1, <3>3, <3>4
  <2> QED BY <2>4, <2>5, <2>6 DEF JournalInv
<1>2. CASE J!Has("attempt", stage) /\ J!GoTo("observe") /\ UNCHANGED puts
  <2>1. Progress'
    BY <1>2 DEF JournalInv, Progress, J!Reconcile, J!GoTo, J!stored, J!world, J!Has,
       Unsent, Looping, Driving
  <2> QED BY <1>2, <2>1, GoToInv DEF J!Reconcile, JournalInv, J!TypeOK, J!Places
<1>3. CASE J!JournalFails /\ UNCHANGED puts
  BY <1>3, JournalFailsInv DEF J!Reconcile, J!flights
<1> QED BY <1>1, <1>2, <1>3 DEF J!Reconcile

LEMMA PlanInv ==
  ASSUME JournalInv, J!Plan
  PROVE  JournalInv'
<1>1. CASE /\ stage \in effects
           /\ J!Advance("stage", "final")
           /\ UNCHANGED <<puts, run, effects, reconciled, preparing, runVerdict>>
  <2>1. /\ stage' \in J!Stage
        /\ \/ runAt' = "stage" /\ stage' = stage + 1
           \/ runAt' = "final" /\ stage' = 1 /\ stage = Stages
    BY <1>1, AdvanceFacts DEF JournalInv
  <2>2. UNCHANGED <<J!stored, J!flights, J!world>> /\ reconciled
    BY <1>1 DEF JournalInv, Progress, Driving, J!Plan, J!flights
  <2>3. J!TypeOK'
    BY <1>1, <2>1, <2>2 DEF JournalInv, J!TypeOK, J!Places, J!stored, J!flights, J!world
  <2>4. J!AtMostOnce' /\ J!InOrder' /\ J!DecidedIsKnown' /\ Evidence'
    BY <1>1, <2>1, <2>2
       DEF JournalInv, J!AtMostOnce, J!InOrder, J!DecidedIsKnown, Evidence, J!stored,
          J!flights, J!world, J!Has
  <2>5. Progress'
    <3>1. stage \in J!Stage /\ \A t \in 1 .. stage : t \in effects'
      BY <1>1, <2>2 DEF JournalInv, J!TypeOK, Progress, J!Plan, Looping, J!Stage
    <3>2. \A t \in J!Stage : sent'[t] > 0 => t \in effects'
      BY <1>1, <2>2 DEF JournalInv, Progress, J!Plan, Looping, J!world
    <3>3. preparing' = 0 /\ run' \in J!Runs /\ reconciled'
      BY <1>1, <2>2 DEF JournalInv, Progress, J!Plan
    <3>4. CASE runAt' = "stage" /\ stage' = stage + 1
      <4>1. 1 .. stage' - 1 = 1 .. stage
        BY <3>1, <3>4 DEF J!Stage
      <4> QED BY <3>1, <3>2, <3>3, <3>4, <4>1 DEF Progress, Unsent, Looping, Driving
    <3>5. CASE runAt' = "final" /\ stage = Stages
      BY <3>1, <3>2, <3>3, <3>5 DEF Progress, J!Stage, Unsent, Looping, Driving
    <3> QED BY <2>1, <3>4, <3>5
  <2> QED BY <2>3, <2>4, <2>5 DEF JournalInv
<1>2. CASE J!GoTo("observe") /\ UNCHANGED puts
  <2>1. Progress'
    BY <1>2 DEF JournalInv, Progress, J!Plan, J!GoTo, J!stored, J!world, J!Has, Unsent,
       Looping, Driving
  <2> QED BY <1>2, <2>1, GoToInv DEF J!Plan, JournalInv, J!TypeOK, J!Places
<1>3. CASE /\ ~ J!Has("attempt", stage)
           /\ puts' = puts \cup {<<"plan", stage>>}
           /\ J!GoTo("planned")
  <2>1. stage \in J!Stage /\ sent[stage] = 0
    BY <1>3 DEF JournalInv, J!TypeOK, Evidence
  <2>2. Progress'
    BY <1>3, <2>1 DEF JournalInv, Progress, J!Plan, J!GoTo, J!stored, J!world, J!Has,
       Unsent, Looping, Driving
  <2>3. puts' \subseteq J!Records
    BY <1>3, <2>1 DEF JournalInv, J!TypeOK, J!Records, J!Kinds
  <2> QED BY <1>3, <2>2, <2>3, GoToInv DEF J!Plan, JournalInv, J!TypeOK, J!Places
<1>4. CASE J!JournalFails /\ UNCHANGED puts
  BY <1>4, JournalFailsInv DEF J!Plan, J!flights
<1> QED BY <1>1, <1>2, <1>3, <1>4 DEF J!Plan

LEMMA AttemptInv ==
  ASSUME JournalInv, J!Attempt
  PROVE  JournalInv'
<1>1. CASE puts' = puts \cup {<<"attempt", stage>>} /\ J!GoTo("attempting")
  <2>1. Progress'
    BY <1>1 DEF JournalInv, Progress, J!Attempt, J!GoTo, J!stored, J!world, J!Has, Unsent,
       Looping, Driving
  <2>2. puts' \subseteq J!Records
    BY <1>1 DEF JournalInv, J!TypeOK, J!Records, J!Kinds
  <2> QED BY <1>1, <2>1, <2>2, GoToInv DEF J!Attempt, JournalInv, J!TypeOK, J!Places
<1>2. CASE (J!JournalFails \/ J!Rejected) /\ UNCHANGED puts
  BY <1>2, JournalFailsInv, RejectedInv DEF J!Attempt, J!flights
<1> QED BY <1>1, <1>2 DEF J!Attempt

LEMMA AttemptReadInv ==
  ASSUME JournalInv, J!AttemptRead
  PROVE  JournalInv'
<1>1. CASE /\ J!Has("attempt", stage)
           /\ runAt' = "guarding"
           /\ preparing' = stage
           /\ UNCHANGED <<run, stage, effects, reconciled, runVerdict>>
  <2>1. J!TypeOK'
    BY <1>1 DEF JournalInv, J!TypeOK, J!AttemptRead, J!stored, J!flights, J!world,
       J!Places, J!Stage
  <2>2. J!AtMostOnce' /\ J!InOrder' /\ J!DecidedIsKnown' /\ Evidence'
    BY <1>1 DEF JournalInv, J!AtMostOnce, J!InOrder, J!DecidedIsKnown, Evidence,
       J!AttemptRead, J!stored, J!flights,
                J!world, J!Has
  <2>3. Progress'
    BY <1>1 DEF JournalInv, Progress, J!AttemptRead, J!stored, J!world, J!Has, Unsent,
       Looping, Driving
  <2> QED BY <2>1, <2>2, <2>3 DEF JournalInv
<1>2. CASE J!JournalFails
  BY <1>2, JournalFailsInv DEF J!AttemptRead
<1> QED BY <1>1, <1>2 DEF J!AttemptRead

LEMMA GuardInv ==
  ASSUME JournalInv, J!Guard
  PROVE  JournalInv'
<1>1. CASE J!GoTo("dispatch")
  <2>1. Progress'
    BY <1>1 DEF JournalInv, Progress, J!Guard, J!GoTo, J!stored, J!world, J!Has, Unsent,
       Looping, Driving
  <2> QED BY <1>1, <2>1, GoToInv DEF J!Guard, JournalInv, J!TypeOK, J!Places, J!flights
<1>2. CASE J!Rejected
  BY <1>2, RejectedInv DEF J!Guard
<1> QED BY <1>1, <1>2 DEF J!Guard

LEMMA ObserveInv ==
  ASSUME JournalInv, J!Observe
  PROVE  JournalInv'
<1>1. CASE J!Has("observed", stage) /\ J!Hold /\ UNCHANGED puts
  BY <1>1, HoldInv DEF J!Observe, J!flights
<1>2. CASE /\ effect[stage] = "applied"
           /\ puts' = puts \cup {<<"observed", stage>>}
           /\ J!GoTo("observing")
  <2>1. Progress'
    BY <1>2 DEF JournalInv, Progress, J!Observe, J!GoTo, J!stored, J!world, J!Has, Unsent,
       Looping, Driving
  <2>2. puts' \subseteq J!Records
    BY <1>2 DEF JournalInv, J!TypeOK, J!Records, J!Kinds
  <2> QED BY <1>2, <2>1, <2>2, GoToInv DEF J!Observe, JournalInv, J!TypeOK, J!Places
<1>3. CASE J!Return("UNCERTAIN") /\ UNCHANGED puts
  BY <1>3, ReturnInv DEF J!Observe, JournalInv, J!TypeOK
<1> QED BY <1>1, <1>2, <1>3 DEF J!Observe

LEMMA ObserveReadInv ==
  ASSUME JournalInv, J!ObserveRead
  PROVE  JournalInv'
<1>1. CASE J!Has("observed", stage) /\ J!Hold
  BY <1>1, HoldInv DEF J!ObserveRead
<1>2. CASE J!Return("UNCERTAIN")
  BY <1>2, ReturnInv DEF J!ObserveRead, J!flights
<1> QED BY <1>1, <1>2 DEF J!ObserveRead

LEMMA CloseInv ==
  ASSUME JournalInv, J!Close
  PROVE  JournalInv'
<1>1. CASE receiptPut' = TRUE /\ J!GoTo("closing")
  <2>1. \A s \in J!Stage : effect[s] = "applied"
    BY DEF JournalInv, Evidence, Progress, J!Close
  <2>2. J!TypeOK'
    BY <1>1 DEF JournalInv, J!TypeOK, J!Close, J!GoTo, J!stored, J!world, J!Places
  <2>3. J!AtMostOnce' /\ J!InOrder' /\ J!DecidedIsKnown' /\ Evidence'
    BY <1>1, <2>1 DEF JournalInv, J!AtMostOnce, J!InOrder, J!DecidedIsKnown, Evidence,
       J!Close, J!GoTo, J!stored,
                      J!world, J!Has
  <2>4. Progress'
    BY <1>1 DEF JournalInv, Progress, J!Close, J!GoTo, J!stored, J!world, J!Has, Unsent,
       Looping, Driving
  <2> QED BY <2>2, <2>3, <2>4 DEF JournalInv
<1>2. CASE (J!Rejected \/ J!Return("UNCERTAIN")) /\ UNCHANGED receiptPut
  BY <1>2, RejectedInv, ReturnInv DEF J!Close, J!flights
<1> QED BY <1>1, <1>2 DEF J!Close

LEMMA CloseReadInv ==
  ASSUME JournalInv, J!CloseRead
  PROVE  JournalInv'
<1>1. CASE receipt /\ J!Return("SUCCESS")
  <2>1. \A s \in J!Stage : effect[s] = "applied"
    BY <1>1 DEF JournalInv, Evidence
  <2>2. J!TypeOK'
    BY <1>1 DEF JournalInv, J!TypeOK, J!CloseRead, J!Return, J!stored, J!flights, J!world,
       J!Places
  <2>3. J!AtMostOnce' /\ J!InOrder' /\ J!DecidedIsKnown' /\ Evidence'
    BY <1>1, <2>1 DEF JournalInv, J!AtMostOnce, J!InOrder, J!DecidedIsKnown, Evidence,
       J!CloseRead, J!Return,
                      J!stored, J!flights, J!world, J!Has
  <2>4. Progress'
    BY <1>1 DEF JournalInv, Progress, J!CloseRead, J!Return, J!stored, J!world, J!Has,
       Unsent, Looping, Driving
  <2> QED BY <2>2, <2>3, <2>4 DEF JournalInv
<1>2. CASE J!JournalFails
  BY <1>2, JournalFailsInv DEF J!CloseRead
<1> QED BY <1>1, <1>2 DEF J!CloseRead

LEMMA CrashInv ==
  ASSUME JournalInv, J!Crash
  PROVE  JournalInv'
BY ReturnInv DEF J!Crash, J!flights

------------------------------------------------------------------------------
LEMMA NextInv ==
  ASSUME JournalInv, [J!Next]_(J!vars)
  PROVE  JournalInv'
<1>1. CASE J!Environment
  BY <1>1, LandIntentInv, LoseIntentInv, LandPutInv, LosePutInv, LandReceiptInv, LoseReceiptInv,
     ApplyInv, LoseInv, ExpireInv
  DEF J!Environment
<1>2. CASE J!Execute
  BY <1>2, BeginInv, AcceptInv, AcceptReadInv, ReconcileInv, PlanInv, AttemptInv, AttemptReadInv,
     GuardInv, DispatchInv, RefuseInv, AcknowledgeInv, CallRaisedInv, ObserveInv, ObserveReadInv,
     CloseInv, CloseReadInv, CrashInv
  DEF J!Execute
<1>3. CASE UNCHANGED J!vars
  <2>1. J!TypeOK' /\ J!AtMostOnce' /\ J!InOrder' /\ J!DecidedIsKnown'
    BY <1>3 DEF JournalInv, J!TypeOK, J!AtMostOnce, J!InOrder, J!DecidedIsKnown, J!vars,
       J!stored, J!flights, J!world,
                J!runner
  <2>2. Evidence' /\ Progress'
    BY <1>3 DEF JournalInv, Evidence, Progress, J!Has, J!vars, J!stored, J!flights,
       J!world, J!runner
  <2> QED BY <2>1, <2>2 DEF JournalInv
<1> QED BY <1>1, <1>2, <1>3 DEF J!Next

LEMMA JournalInvAlways == JournalSpec => []JournalInv
<1>1. J!Init => JournalInv
  BY InitInv
<1>2. JournalInv /\ [J!Next]_(J!vars) => JournalInv'
  BY NextInv
<1> QED BY <1>1, <1>2, PTL DEF JournalSpec, J!Spec

\* Every variable of the journal keeps its type, in every run.
THEOREM JournalTypeCorrect == JournalSpec => []J!TypeOK
<1>1. JournalInv => J!TypeOK
  BY DEF JournalInv
<1> QED BY <1>1, JournalInvAlways, PTL

\* No mutation of an operation is sent twice, however many runs it takes.
THEOREM SentAtMostOnce == JournalSpec => []AtMostOnce
<1>1. JournalInv => AtMostOnce
  BY DEF JournalInv, AtMostOnce
<1> QED BY <1>1, JournalInvAlways, PTL

\* A mutation is sent only after every earlier stage has taken effect.
THEOREM StagesInOrder == JournalSpec => []InOrder
<1>1. JournalInv => InOrder
  BY DEF JournalInv, InOrder
<1> QED BY <1>1, JournalInvAlways, PTL

\* A decided verdict leaves no mutation in doubt.
THEOREM VerdictIsKnown == JournalSpec => []DecidedIsKnown
<1>1. JournalInv => DecidedIsKnown
  BY DEF JournalInv, DecidedIsKnown
<1> QED BY <1>1, JournalInvAlways, PTL

------------------------------------------------------------------------------
(* The NAT duties. *)

\* Instances come one after the other, and what has not been launched has no operation.
LaunchTells ==
  /\ listed \subseteq 1 .. launched
  /\ \A o \in Ops : o[1] > launched => intent[o] = NoIntent /\ pc[o] = "idle" /\ verdict[o] = "none"

\* The records an invocation has behind it.
JournalTells ==
  \A o \in Ops :
    /\ o \in attempt => intent[o] # NoIntent
    /\ pc[o] \notin {"idle", "begun"} => intent[o] # NoIntent
    /\ pc[o] \notin {"idle", "begun", "accepted"} => o \in attempt
    /\ pc[o] \in {"final"} \cup Verifying => o \in observed
    /\ pc[o] \in Verifying => o[2] = "disable_sdc"

\* An intent is only made for the one instance that is listed: no older one is, ever after.
FirstTells ==
  \A i \in Instance, d \in Duties :
    intent[<<i, d>>] # NoIntent => \A k \in listed : k >= i

\* A result stands for as long as its instance is listed, by itself or not.
ResultTells ==
  \A i \in Instance, d \in Duties : <<i, d>> \in observed /\ i \in listed => Done(d, i)

\* How far the operation of an instance that nothing happened to has come.
Smooth(i, d) ==
  LET o == <<i, d>> IN
  /\ verdict[o] \in {"none", "SUCCESS"}
  /\ o \notin applied /\ intent[o] # NoIntent => OwnGuard(d, i, intent[o])
  /\ o \in applied => Done(d, i)
  /\ o \in calls => o \notin applied
  /\ pc[o] \in {"attempted", "guarded"} => o \notin calls /\ o \notin applied
  /\ pc[o] = "called" => o \in calls \/ o \in applied
  /\ pc[o] = "observing" => o \in observed \/ (o \in ack /\ o \in applied)
  /\ pc[o] \in {"idle", "begun", "accepted"} /\ o \in attempt => o \in observed

\* Without faults there is one instance at a time, and nobody stops before the answer.
CalmTells ==
  faults = 0 =>
    /\ neighbour /\ expired = {} /\ listed \subseteq {launched}
    /\ \A o \in calls : pc[o] = "called"
    /\ DevGuard => \A i \in Instance, d \in Duties : Observable(i) => Smooth(i, d)

DutiesInv == /\ TypeOK /\ LaunchTells /\ JournalTells /\ FirstTells /\ ResultTells /\ CalmTells

USE NatAssumption DEF Verifying

------------------------------------------------------------------------------

LEMMA OpIs ==
  /\ \A i \in Instance, d \in Duties : <<i, d>> \in Ops
  /\ \A o \in Ops : o[1] \in Instance /\ o[2] \in Duties /\ o = <<o[1], o[2]>>
BY DEF Ops

LEMMA GoToIs ==
  ASSUME TypeOK, NEW o \in Ops, NEW place \in Places, GoTo(o, place)
  PROVE  /\ pc' \in [Ops -> Places] /\ pc'[o] = place /\ \A p \in Ops \ {o} : pc'[p] = pc[p]
         /\ verdict' = verdict
BY DEF GoTo, TypeOK

Statuses == {"none", "SUCCESS", "FAILURE", "UNCERTAIN", "UNREADY", "CRASHED"}

LEMMA ReturnIs ==
  ASSUME TypeOK, NEW o \in Ops, NEW status \in Statuses, Return(o, status)
  PROVE  /\ pc' \in [Ops -> Places] /\ pc'[o] = "idle" /\ \A p \in Ops \ {o} : pc'[p] = pc[p]
         /\ verdict' \in [Ops -> Statuses] /\ verdict'[o] = status
         /\ \A p \in Ops \ {o} : verdict'[p] = verdict[p]
<1>1. "idle" \in Places
  BY DEF Places
<1> QED
  BY <1>1 DEF Return, TypeOK, Statuses

LEMMA FaultIs ==
  ASSUME TypeOK, Fault
  PROVE  faults' \in 0 .. MaxFaults /\ faults' # 0
BY DEF TypeOK, Fault

\* Whatever happens to another operation leaves one where it is.
LEMMA SmoothKept ==
  ASSUME NEW i \in Instance, NEW d \in Duties, Smooth(i, d), UNCHANGED network,
         LET o == <<i, d>> IN
         /\ pc'[o] = pc[o] /\ verdict'[o] = verdict[o] /\ intent'[o] = intent[o]
         /\ o \in attempt' <=> o \in attempt
         /\ o \in ack' <=> o \in ack
         /\ o \in observed' <=> o \in observed
         /\ o \in calls' <=> o \in calls
         /\ o \in applied' <=> o \in applied
  PROVE  Smooth(i, d)'
BY DEF Smooth, network, OwnGuard, Done

\* A step of one operation that changes nothing of the network and the groups: what it
\* has to show for its own operation.
LEMMA OperationStep ==
  ASSUME DutiesInv, TypeOK', NEW i \in Instance, NEW d \in Duties,
         UNCHANGED <<groups, network>>, faults' = 0 => faults = 0 /\ expired' = expired,
         \A p \in Ops \ {<<i, d>>} :
           /\ pc'[p] = pc[p] /\ verdict'[p] = verdict[p] /\ intent'[p] = intent[p]
           /\ p \in attempt' <=> p \in attempt
           /\ p \in ack' <=> p \in ack
           /\ p \in observed' <=> p \in observed
           /\ p \in calls' <=> p \in calls
           /\ p \in applied' <=> p \in applied,
         LET o == <<i, d>> IN
         /\ i <= launched
         /\ o \in attempt' => intent'[o] # NoIntent
         /\ pc'[o] \notin {"idle", "begun"} => intent'[o] # NoIntent
         /\ pc'[o] \notin {"idle", "begun", "accepted"} => o \in attempt'
         /\ pc'[o] \in {"final"} \cup Verifying => o \in observed'
         /\ pc'[o] \in Verifying => d = "disable_sdc"
         /\ intent'[o] # NoIntent => intent[o] # NoIntent \/ listed = {i}
         /\ o \in observed' => o \in observed \/ Done(d, i)
         /\ faults' = 0 =>
              /\ o \in calls' => pc'[o] = "called"
              /\ DevGuard /\ Observable(i) => Smooth(i, d)'
  PROVE  DutiesInv'
<1> USE DEF groups, network
<1>1. <<i, d>> \in Ops
  BY OpIs
<1>2. LaunchTells'
  BY <1>1, OpIs DEF DutiesInv, TypeOK, LaunchTells, Instance, Nobody
<1>3. JournalTells'
  <2> SUFFICES ASSUME NEW o \in Ops
               PROVE  /\ o \in attempt' => intent'[o] # NoIntent
                      /\ pc'[o] \notin {"idle", "begun"} => intent'[o] # NoIntent
                      /\ pc'[o] \notin {"idle", "begun", "accepted"} => o \in attempt'
                      /\ pc'[o] \in {"final"} \cup Verifying => o \in observed'
                      /\ pc'[o] \in Verifying => o[2] = "disable_sdc"
    BY DEF JournalTells
  <2>1. CASE o = <<i, d>>
    BY <2>1
  <2>2. CASE o # <<i, d>>
    BY <2>2 DEF DutiesInv, JournalTells
  <2> QED
    BY <2>1, <2>2
<1>4. FirstTells'
  <2> SUFFICES ASSUME NEW j \in Instance, NEW e \in Duties, intent'[<<j, e>>] # NoIntent
               PROVE  \A k \in listed : k >= j
    BY DEF FirstTells
  <2>1. intent[<<j, e>>] # NoIntent \/ listed = {j}
    BY OpIs
  <2> QED
    BY <2>1 DEF DutiesInv, FirstTells, Instance
<1>5. ResultTells'
  <2> SUFFICES ASSUME NEW j \in Instance, NEW e \in Duties, <<j, e>> \in observed', j \in listed
               PROVE  Done(e, j)'
    BY DEF ResultTells
  <2>1. Done(e, j)
    BY OpIs DEF DutiesInv, ResultTells
  <2> QED
    BY <2>1 DEF Done
<1>6. CalmTells'
  <2> SUFFICES ASSUME faults' = 0 PROVE CalmTells'
    BY DEF CalmTells
  <2>1. neighbour' /\ expired' = {} /\ listed' \subseteq {launched'} /\ \A o \in calls' : pc'[o] = "called"
    BY OpIs DEF DutiesInv, TypeOK, CalmTells
  <2>2. ASSUME DevGuard, NEW j \in Instance, NEW e \in Duties, Observable(j)' PROVE Smooth(j, e)'
    <3>1. Observable(j) /\ Smooth(j, e)
      BY <2>2 DEF Observable, Member, DutiesInv, CalmTells
    <3>2. CASE j = i /\ e = d
      BY <2>2, <3>1, <3>2
    <3>3. CASE ~(j = i /\ e = d)
      <4>1. <<j, e>> \in Ops \ {<<i, d>>}
        BY <3>3, OpIs
      <4> QED
        BY <3>1, <4>1, SmoothKept
    <3> QED
      BY <3>2, <3>3
  <2> QED
    BY <2>1, <2>2 DEF CalmTells
<1> QED
  BY <1>2, <1>3, <1>4, <1>5, <1>6 DEF DutiesInv

------------------------------------------------------------------------------
(* The steps of an invocation. *)

LEMMA InvokeSteps ==
  ASSUME DutiesInv, NEW i \in Instance, NEW d \in Duties, Invoke(i, d)
  PROVE  DutiesInv'
<1> DEFINE o == <<i, d>>
<1> USE DEF groups, network, journal, ec2
<1>1. o \in Ops /\ pc[o] = "idle" /\ GoTo(o, "begun") /\ TypeOK /\ i <= launched
      /\ UNCHANGED <<groups, network, journal, ec2, expired, faults>>
  BY OpIs DEF Invoke, Free, DutiesInv
<1>2. /\ pc' \in [Ops -> Places] /\ pc'[o] = "begun" /\ \A p \in Ops \ {o} : pc'[p] = pc[p]
      /\ verdict' = verdict
  BY <1>1, GoToIs DEF Places
<1>3. invoked' \in [Ops -> 0 .. MaxInvocations]
  <2>1. invoked[o] + 1 \in 0 .. MaxInvocations
    BY <1>1 DEF Invoke, TypeOK
  <2> QED
    BY <1>1, <2>1 DEF Invoke, TypeOK
<1>4. TypeOK'
  BY <1>1, <1>2, <1>3 DEF TypeOK
<1>5. intent[o] # NoIntent \/ o \notin attempt
  BY <1>1 DEF DutiesInv, JournalTells
<1>6. faults' = 0 =>
        /\ o \in calls' => pc'[o] = "called"
        /\ DevGuard /\ Observable(i) => Smooth(i, d)'
  BY <1>1, <1>2 DEF DutiesInv, CalmTells, Smooth, OwnGuard, Done
<1> QED
  BY <1>1, <1>2, <1>4, <1>5, <1>6, OperationStep

LEMMA AcceptSteps ==
  ASSUME DutiesInv, NEW i \in Instance, NEW d \in Duties, Accept(i, d)
  PROVE  DutiesInv'
<1> DEFINE o == <<i, d>>
<1> USE DEF groups, network, ec2
<1>1. /\ o \in Ops /\ pc[o] = "begun" /\ TypeOK /\ i <= launched
      /\ UNCHANGED <<groups, network, attempt, ack, observed, ec2, expired, invoked, faults>>
  BY OpIs DEF Accept, At, DutiesInv, LaunchTells, TypeOK, Instance, Nobody
<1>2. CASE intent[o] # NoIntent /\ GoTo(o, "accepted") /\ UNCHANGED intent
  <2>1. /\ pc' \in [Ops -> Places] /\ pc'[o] = "accepted" /\ \A p \in Ops \ {o} : pc'[p] = pc[p]
        /\ verdict' = verdict
    BY <1>1, <1>2, GoToIs DEF Places
  <2>2. TypeOK'
    BY <1>1, <1>2, <2>1 DEF TypeOK
  <2>3. faults' = 0 =>
          /\ o \in calls' => pc'[o] = "called"
          /\ DevGuard /\ Observable(i) => Smooth(i, d)'
    BY <1>1, <1>2, <2>1 DEF DutiesInv, CalmTells, Smooth, OwnGuard, Done
  <2> QED
    BY <1>1, <1>2, <2>1, <2>2, <2>3, OperationStep
<1>3. CASE intent[o] = NoIntent /\ Observable(i) /\ intent' = [intent EXCEPT ![o] = State(i)]
           /\ GoTo(o, "accepted")
  <2>1. /\ pc' \in [Ops -> Places] /\ pc'[o] = "accepted" /\ \A p \in Ops \ {o} : pc'[p] = pc[p]
        /\ verdict' = verdict
    BY <1>1, <1>3, GoToIs DEF Places
  <2>2. State(i) \in States
    BY <1>1 DEF State, States, TypeOK
  <2>3. intent' \in [Ops -> States \cup {NoIntent}] /\ intent'[o] = State(i)
        /\ \A p \in Ops \ {o} : intent'[p] = intent[p]
    BY <1>1, <1>3, <2>2 DEF TypeOK
  <2>4. TypeOK'
    BY <1>1, <2>1, <2>3 DEF TypeOK
  <2>5. listed = {i} /\ o \notin attempt
    BY <1>1, <1>3 DEF Observable, Member, DutiesInv, JournalTells
  <2>6. OwnGuard(d, i, intent[o])'
    <3>1. intent'[o] = [eip |-> eip, route |-> route, check |-> check[i]]
      BY <2>3 DEF State
    <3>2. intent'[o].eip = eip' /\ intent'[o].route = route' /\ intent'[o].check = check'[i]
      BY <1>1, <3>1
    <3> QED
      BY <3>2 DEF OwnGuard
  <2>7. faults' = 0 =>
          /\ o \in calls' => pc'[o] = "called"
          /\ DevGuard /\ Observable(i) => Smooth(i, d)'
    <3>1. o \notin applied /\ o \notin calls /\ o \notin attempt'
      BY <1>1, <2>5 DEF TypeOK
    <3> QED
      BY <1>1, <1>3, <2>1, <2>6, <3>1 DEF DutiesInv, CalmTells, Smooth
  <2>8. intent'[o] # NoIntent
    BY <2>2, <2>3, NoIntentAssumption
  <2> QED
    BY <1>1, <2>1, <2>3, <2>4, <2>5, <2>7, <2>8, OperationStep
<1>4. CASE intent[o] = NoIntent /\ ~ Observable(i) /\ Return(o, "FAILURE") /\ UNCHANGED intent
  <2>1. /\ pc' \in [Ops -> Places] /\ pc'[o] = "idle" /\ \A p \in Ops \ {o} : pc'[p] = pc[p]
        /\ verdict' \in [Ops -> Statuses] /\ \A p \in Ops \ {o} : verdict'[p] = verdict[p]
    BY <1>1, <1>4, ReturnIs DEF Statuses
  <2>2. TypeOK'
    BY <1>1, <1>4, <2>1 DEF TypeOK, Statuses
  <2>3. o \notin attempt /\ (faults' = 0 => o \notin calls')
    BY <1>1, <1>4 DEF DutiesInv, TypeOK, JournalTells
  <2> QED
    BY <1>1, <1>4, <2>1, <2>2, <2>3, OperationStep
<1> QED
  BY <1>2, <1>3, <1>4 DEF Accept

\* What an invocation past its acceptance has, and how far it has come without faults.
LEMMA PlaceIs ==
  ASSUME DutiesInv, NEW i \in Instance, NEW d \in Duties, pc[<<i, d>>] \notin {"idle", "begun"}
  PROVE  LET o == <<i, d>> IN
         /\ o \in Ops /\ TypeOK /\ i <= launched /\ intent[o] # NoIntent
         /\ pc[o] \notin {"idle", "begun", "accepted"} => o \in attempt
         /\ pc[o] \in {"final"} \cup Verifying => o \in observed
         /\ pc[o] \in Verifying => d = "disable_sdc"
         /\ faults = 0 =>
              /\ expired = {} /\ (o \in calls => pc[o] = "called")
              /\ DevGuard /\ Observable(i) => Smooth(i, d)
<1>1. <<i, d>> \in Ops
  BY OpIs
<1> QED
  BY <1>1 DEF DutiesInv, LaunchTells, JournalTells, CalmTells, TypeOK, Instance, Nobody

\* An invocation that returns: without faults it has recorded its result, or the
\* instance is no longer the only one.
LEMMA ReturnSteps ==
  ASSUME DutiesInv, NEW i \in Instance, NEW d \in Duties, NEW status \in Statuses,
         pc[<<i, d>>] # "idle", Return(<<i, d>>, status),
         UNCHANGED <<groups, network, journal, ec2, expired, invoked>>,
         faults' \in 0 .. MaxFaults, faults' = 0 => faults = 0,
         faults' = 0 =>
           /\ <<i, d>> \notin calls
           /\ DevGuard /\ Observable(i) => status = "SUCCESS" /\ <<i, d>> \in observed
  PROVE  DutiesInv'
<1> DEFINE o == <<i, d>>
<1> USE DEF groups, network, journal, ec2
<1>0. o \in Ops
  BY OpIs
<1>1. /\ o \in Ops /\ TypeOK /\ i <= launched /\ (o \in attempt => intent[o] # NoIntent)
      /\ faults = 0 => (DevGuard /\ Observable(i) => Smooth(i, d))
  <2>1. TypeOK /\ (o \in attempt => intent[o] # NoIntent)
    BY <1>0 DEF DutiesInv, JournalTells
  <2>2. i <= launched
    BY <1>0 DEF DutiesInv, LaunchTells, TypeOK, Instance, Nobody
  <2>3. faults = 0 => (DevGuard /\ Observable(i) => Smooth(i, d))
    BY DEF DutiesInv, CalmTells
  <2> QED
    BY <1>0, <2>1, <2>2, <2>3
<1>2. /\ pc' \in [Ops -> Places] /\ pc'[o] = "idle" /\ \A p \in Ops \ {o} : pc'[p] = pc[p]
      /\ verdict' \in [Ops -> Statuses] /\ verdict'[o] = status
      /\ \A p \in Ops \ {o} : verdict'[p] = verdict[p]
  BY <1>1, ReturnIs
<1>3. TypeOK'
  BY <1>1, <1>2 DEF TypeOK, Statuses
<1>4. faults' = 0 =>
        /\ o \in calls' => pc'[o] = "called"
        /\ DevGuard /\ Observable(i) => Smooth(i, d)'
  BY <1>1, <1>2 DEF Smooth, OwnGuard, Done
<1> QED
  BY <1>1, <1>2, <1>3, <1>4, OperationStep

\* One that goes on to another place, with the records it needs there.
LEMMA GoOn ==
  ASSUME DutiesInv, NEW i \in Instance, NEW d \in Duties, NEW place \in Places \ {"idle", "begun", "accepted"},
         pc[<<i, d>>] \notin {"idle", "begun"}, GoTo(<<i, d>>, place),
         UNCHANGED <<groups, network, intent, expired, invoked>>, TypeOK',
         faults' = 0 => faults = 0,
         \A p \in Ops \ {<<i, d>>} :
           /\ p \in attempt' <=> p \in attempt
           /\ p \in ack' <=> p \in ack
           /\ p \in observed' <=> p \in observed
           /\ p \in calls' <=> p \in calls
           /\ p \in applied' <=> p \in applied,
         <<i, d>> \in attempt',
         <<i, d>> \in observed' => <<i, d>> \in observed \/ Done(d, i),
         place \in {"final"} \cup Verifying => <<i, d>> \in observed',
         place \in Verifying => d = "disable_sdc",
         faults' = 0 =>
           /\ <<i, d>> \in calls' => place = "called"
           /\ DevGuard /\ Observable(i) =>
                LET o == <<i, d>> IN
                /\ o \in applied' => o \in applied
                /\ o \in applied => o \in applied'
                /\ o \in calls' => o \notin applied
                /\ place \in {"attempted", "guarded"} => o \notin calls' /\ o \notin applied
                /\ place = "called" => o \in calls' \/ o \in applied
                /\ place = "observing" => o \in observed' \/ (o \in ack' /\ o \in applied)
  PROVE  DutiesInv'
<1> DEFINE o == <<i, d>>
<1>1. /\ o \in Ops /\ TypeOK /\ i <= launched /\ intent[o] # NoIntent
      /\ faults = 0 => (DevGuard /\ Observable(i) => Smooth(i, d))
  BY PlaceIs
<1>2. /\ pc' \in [Ops -> Places] /\ pc'[o] = place /\ \A p \in Ops \ {o} : pc'[p] = pc[p]
      /\ verdict' = verdict
  BY <1>1, GoToIs
<1>3. faults' = 0 =>
        /\ o \in calls' => pc'[o] = "called"
        /\ DevGuard /\ Observable(i) => Smooth(i, d)'
  BY <1>1, <1>2 DEF Smooth, OwnGuard, Done, network
<1> QED
  BY <1>1, <1>2, <1>3, OperationStep

LEMMA AttemptSteps ==
  ASSUME DutiesInv, NEW i \in Instance, NEW d \in Duties, Attempt(i, d)
  PROVE  DutiesInv'
<1> DEFINE o == <<i, d>>
<1> USE DEF ec2
<1>1. /\ pc[o] = "accepted"
      /\ UNCHANGED <<groups, network, intent, ack, observed, ec2, expired, invoked, faults>>
  BY DEF Attempt, At
<1>2. /\ o \in Ops /\ TypeOK /\ intent[o] # NoIntent
      /\ faults = 0 => expired = {} /\ o \notin calls /\ (DevGuard /\ Observable(i) => Smooth(i, d))
  BY <1>1, PlaceIs
<1>3. CASE o \in attempt /\ GoTo(o, "observing") /\ UNCHANGED attempt
  <2>1. pc' \in [Ops -> Places] /\ verdict' = verdict
    BY <1>2, <1>3, GoToIs DEF Places
  <2>2. TypeOK'
    BY <1>1, <1>2, <1>3, <2>1 DEF TypeOK, groups, network
  <2>3. faults = 0 /\ DevGuard /\ Observable(i) => o \in observed
    BY <1>1, <1>2, <1>3 DEF Smooth
  <2> QED
    BY <1>1, <1>2, <1>3, <2>2, <2>3, GoOn DEF Places
<1>4. CASE /\ o \notin attempt /\ attempt' = attempt \cup {o} /\ GoTo(o, "attempted")
  <2>1. pc' \in [Ops -> Places] /\ verdict' = verdict
    BY <1>2, <1>4, GoToIs DEF Places
  <2>2. TypeOK'
    BY <1>1, <1>2, <1>4, <2>1 DEF TypeOK, groups, network
  <2>3. o \notin applied /\ o \notin calls
    BY <1>2, <1>4 DEF TypeOK
  <2> QED
    BY <1>1, <1>2, <1>4, <2>2, <2>3, GoOn DEF Places
<1>5. CASE /\ o \notin attempt /\ (o \in expired \/ ~ Guarded(d, i, intent[o]))
           /\ Return(o, "FAILURE") /\ UNCHANGED attempt
  <2>1. o \notin applied /\ o \notin calls
    BY <1>2, <1>5 DEF TypeOK
  <2>2. ~ (faults = 0 /\ DevGuard /\ Observable(i))
    BY <1>2, <1>5, <2>1 DEF Smooth, Guarded
  <2> QED
    BY <1>1, <1>2, <1>5, <2>1, <2>2, ReturnSteps DEF Statuses, journal, TypeOK
<1> QED
  BY <1>3, <1>4, <1>5 DEF Attempt

LEMMA GuardSteps ==
  ASSUME DutiesInv, NEW i \in Instance, NEW d \in Duties, Guard(i, d)
  PROVE  DutiesInv'
<1> DEFINE o == <<i, d>>
<1>1. pc[o] = "attempted" /\ UNCHANGED <<groups, network, journal, ec2, expired, invoked, faults>>
  BY DEF Guard, At
<1>2. /\ o \in Ops /\ TypeOK /\ intent[o] # NoIntent /\ o \in attempt
      /\ faults = 0 => expired = {} /\ o \notin calls /\ (DevGuard /\ Observable(i) => Smooth(i, d))
  BY <1>1, PlaceIs
<1>3. faults = 0 /\ DevGuard /\ Observable(i) => o \notin applied /\ Guarded(d, i, intent[o])
  BY <1>1, <1>2 DEF Smooth, Guarded
<1>4. CASE GoTo(o, "guarded")
  <2>1. pc' \in [Ops -> Places] /\ verdict' = verdict
    BY <1>2, <1>4, GoToIs DEF Places
  <2>2. TypeOK'
    BY <1>1, <1>2, <2>1 DEF TypeOK, groups, network, journal, ec2
  <2> QED
    BY <1>1, <1>2, <1>3, <1>4, <2>2, GoOn DEF Places, journal, ec2
<1>5. CASE ~ (o \notin expired /\ Guarded(d, i, intent[o])) /\ Return(o, "FAILURE")
  BY <1>1, <1>2, <1>3, <1>5, ReturnSteps DEF Statuses, TypeOK
<1> QED
  BY <1>4, <1>5 DEF Guard

LEMMA MutateSteps ==
  ASSUME DutiesInv, NEW i \in Instance, NEW d \in Duties, Mutate(i, d)
  PROVE  DutiesInv'
<1> DEFINE o == <<i, d>>
<1>1. pc[o] = "guarded" /\ UNCHANGED <<groups, network, journal, applied, expired, invoked, faults>>
  BY DEF Mutate, At
<1>2. /\ o \in Ops /\ TypeOK /\ o \in attempt
      /\ faults = 0 => expired = {} /\ o \notin calls /\ (DevGuard /\ Observable(i) => Smooth(i, d))
  BY <1>1, PlaceIs
<1>3. faults = 0 /\ DevGuard /\ Observable(i) => o \notin applied /\ (d = "change_rt" => SameVerb(o))
  <2> SUFFICES ASSUME faults = 0, DevGuard, Observable(i)
               PROVE  o \notin applied /\ (d = "change_rt" => SameVerb(o))
    OBVIOUS
  <2>1. o \notin applied /\ OwnGuard(d, i, intent[o])
    BY <1>1, <1>2, PlaceIs DEF Smooth
  <2> QED
    BY <2>1 DEF OwnGuard, SameVerb
<1>4. CASE calls' = calls \cup {o} /\ GoTo(o, "called")
  <2>1. pc' \in [Ops -> Places] /\ verdict' = verdict
    BY <1>2, <1>4, GoToIs DEF Places
  <2>2. TypeOK'
    BY <1>1, <1>2, <1>4, <2>1 DEF TypeOK, groups, network, journal
  <2> QED
    BY <1>1, <1>2, <1>3, <1>4, <2>2, GoOn DEF Places, journal
<1>5. CASE /\ ~ (o \notin expired /\ Observable(i) /\ (d = "change_rt" => SameVerb(o)))
           /\ UNCHANGED calls /\ GoTo(o, "observing")
  <2>1. pc' \in [Ops -> Places] /\ verdict' = verdict
    BY <1>2, <1>5, GoToIs DEF Places
  <2>2. TypeOK'
    BY <1>1, <1>2, <1>5, <2>1 DEF TypeOK, groups, network, journal
  <2> QED
    BY <1>1, <1>2, <1>3, <1>5, <2>2, GoOn DEF Places, journal
<1> QED
  BY <1>4, <1>5 DEF Mutate

LEMMA AnswerSteps ==
  ASSUME DutiesInv, NEW i \in Instance, NEW d \in Duties, Answer(i, d)
  PROVE  DutiesInv'
<1> DEFINE o == <<i, d>>
<1> USE DEF ec2
<1>1. /\ pc[o] = "called" /\ o \notin calls /\ GoTo(o, "observing")
      /\ ack' = IF o \in applied THEN ack \cup {o} ELSE ack
      /\ UNCHANGED <<groups, network, intent, attempt, observed, ec2, expired, invoked, faults>>
  BY DEF Answer, At
<1>2. /\ o \in Ops /\ TypeOK /\ o \in attempt
      /\ faults = 0 => (DevGuard /\ Observable(i) => Smooth(i, d))
  BY <1>1, PlaceIs
<1>3. pc' \in [Ops -> Places] /\ verdict' = verdict
  BY <1>1, <1>2, GoToIs DEF Places
<1>4. TypeOK'
  BY <1>1, <1>2, <1>3 DEF TypeOK, groups, network
<1>5. faults = 0 /\ DevGuard /\ Observable(i) => o \in applied /\ o \in ack'
  BY <1>1, <1>2 DEF Smooth
<1> QED
  BY <1>1, <1>2, <1>4, <1>5, GoOn DEF Places

LEMMA LoseAnswerSteps ==
  ASSUME DutiesInv, NEW i \in Instance, NEW d \in Duties, LoseAnswer(i, d)
  PROVE  DutiesInv'
<1> DEFINE o == <<i, d>>
<1>1. /\ pc[o] = "called" /\ Fault /\ GoTo(o, "observing")
      /\ UNCHANGED <<groups, network, journal, ec2, expired, invoked>>
  BY DEF LoseAnswer, At
<1>2. o \in Ops /\ TypeOK /\ o \in attempt
  BY <1>1, PlaceIs
<1>3. faults' \in 0 .. MaxFaults /\ faults' # 0
  BY <1>1, <1>2, FaultIs
<1>4. pc' \in [Ops -> Places] /\ verdict' = verdict
  BY <1>1, <1>2, GoToIs DEF Places
<1>5. TypeOK'
  BY <1>1, <1>2, <1>3, <1>4 DEF TypeOK, groups, network, journal, ec2
<1> QED
  BY <1>1, <1>2, <1>3, <1>5, GoOn DEF Places, journal, ec2

LEMMA ObserveSteps ==
  ASSUME DutiesInv, NEW i \in Instance, NEW d \in Duties, Observe(i, d)
  PROVE  DutiesInv'
<1> DEFINE o == <<i, d>>
<1> USE DEF ec2
<1>1. /\ pc[o] = "observing"
      /\ UNCHANGED <<groups, network, intent, attempt, ack, ec2, expired, invoked, faults>>
  BY DEF Observe, At
<1>2. /\ o \in Ops /\ TypeOK /\ o \in attempt
      /\ faults = 0 => o \notin calls /\ (DevGuard /\ Observable(i) => Smooth(i, d))
  BY <1>1, PlaceIs
<1>3. CASE /\ o \in observed \/ (o \in ack /\ Observable(i) /\ Done(d, i))
           /\ observed' = observed \cup {o} /\ GoTo(o, "final")
  <2>1. pc' \in [Ops -> Places] /\ verdict' = verdict
    BY <1>2, <1>3, GoToIs DEF Places
  <2>2. TypeOK'
    BY <1>1, <1>2, <1>3, <2>1 DEF TypeOK, groups, network
  <2> QED
    BY <1>1, <1>2, <1>3, <2>2, GoOn DEF Places
<1>4. CASE /\ ~ (o \in observed \/ (o \in ack /\ Observable(i) /\ Done(d, i)))
           /\ UNCHANGED observed /\ Return(o, "UNCERTAIN")
  <2>1. ~ (faults = 0 /\ DevGuard /\ Observable(i))
    BY <1>1, <1>2, <1>4 DEF Smooth
  <2> QED
    BY <1>1, <1>2, <1>4, <2>1, ReturnSteps DEF Statuses, journal, TypeOK
<1> QED
  BY <1>3, <1>4 DEF Observe

LEMMA FinalSteps ==
  ASSUME DutiesInv, NEW i \in Instance, NEW d \in Duties, Final(i, d)
  PROVE  DutiesInv'
<1> DEFINE o == <<i, d>>
<1>1. pc[o] = "final" /\ UNCHANGED <<groups, network, journal, ec2, expired, invoked, faults>>
  BY DEF Final, At
<1>2. /\ o \in Ops /\ TypeOK /\ o \in attempt /\ o \in observed
      /\ faults = 0 => expired = {} /\ o \notin calls /\ (DevGuard /\ Observable(i) => Smooth(i, d))
  BY <1>1, PlaceIs
<1>3. Observable(i) => Done(d, i)
  BY <1>2 DEF DutiesInv, ResultTells, Observable, Member
<1>4. CASE d = "disable_sdc" /\ GoTo(o, "member")
  <2>1. pc' \in [Ops -> Places] /\ verdict' = verdict
    BY <1>2, <1>4, GoToIs DEF Places
  <2>2. TypeOK'
    BY <1>1, <1>2, <2>1 DEF TypeOK, groups, network, journal, ec2
  <2> QED
    BY <1>1, <1>2, <1>4, <2>2, GoOn DEF Places, journal, ec2
<1>5. CASE Return(o, "SUCCESS")
  BY <1>1, <1>2, <1>5, ReturnSteps DEF Statuses, TypeOK
<1>6. CASE ~ (o \notin expired /\ Observable(i) /\ Done(d, i)) /\ Return(o, "FAILURE")
  BY <1>1, <1>2, <1>3, <1>6, ReturnSteps DEF Statuses, TypeOK
<1> QED
  BY <1>4, <1>5, <1>6 DEF Final

\* A look goes on to the next one or back to the first.
LEMMA LookIs ==
  ASSUME NEW i \in Instance, Verify(i)
  PROVE  LET o == <<i, "disable_sdc">> IN
         /\ pc[o] \in Verifying
         /\ UNCHANGED <<groups, network, journal, ec2, expired, invoked, faults>>
         /\ \/ GoTo(o, "member")
            \/ pc[o] = "member" /\ GoTo(o, "address")
            \/ pc[o] = "address" /\ eip = i /\ GoTo(o, "default")
            \/ pc[o] = "default" /\ route = i /\ GoTo(o, "check")
            \/ pc[o] = "check" /\ ~ check[i] /\ GoTo(o, "neighbour")
            \/ pc[o] = "neighbour" /\ GoTo(o, "active")
            \/ pc[o] = "active" /\ GoTo(o, "running")
            \/ pc[o] = "running" /\ GoTo(o, "ready")
BY DEF Verify, Look, At

LEMMA VerifySteps ==
  ASSUME DutiesInv, NEW i \in Instance, "disable_sdc" \in Duties,
         Verify(i) \/ VerifySucceeds(i) \/ VerifyGivesUp(i)
  PROVE  DutiesInv'
<1> DEFINE o == <<i, "disable_sdc">>
<1>1. pc[o] \in Verifying /\ UNCHANGED <<groups, network, journal, ec2, expired, invoked>>
  BY LookIs DEF VerifySucceeds, VerifyGivesUp, At
<1>2. /\ o \in Ops /\ TypeOK /\ o \in observed /\ o \in attempt
      /\ faults = 0 => o \notin calls
  BY <1>1, PlaceIs
<1>3. CASE Verify(i)
  <2>1. PICK place \in Verifying : GoTo(o, place)
    BY <1>3, LookIs
  <2>2. place \in Places \ {"idle", "begun", "accepted"} /\ faults' = faults
    BY <1>3, LookIs DEF Places
  <2>3. pc' \in [Ops -> Places]
    BY <1>2, <2>1, <2>2, GoToIs
  <2>4. TypeOK'
    BY <1>1, <1>2, <2>1, <2>2, <2>3 DEF TypeOK, GoTo, groups, network, journal, ec2
  <2> QED
    BY <1>1, <1>2, <2>1, <2>2, <2>4, GoOn DEF journal, ec2
<1>4. CASE VerifySucceeds(i)
  BY <1>1, <1>2, <1>4, ReturnSteps DEF VerifySucceeds, Statuses, TypeOK
<1>5. CASE VerifyGivesUp(i)
  <2>1. Fault /\ Return(o, "UNREADY")
    BY <1>5 DEF VerifyGivesUp
  <2>2. faults' \in 0 .. MaxFaults /\ faults' # 0
    BY <1>2, <2>1, FaultIs
  <2> QED
    BY <1>1, <1>2, <2>1, <2>2, ReturnSteps DEF Statuses
<1> QED
  BY <1>3, <1>4, <1>5

LEMMA CrashSteps ==
  ASSUME DutiesInv, NEW o \in Ops, Crash(o)
  PROVE  DutiesInv'
<1>1. PICK i \in Instance, d \in Duties : o = <<i, d>>
  BY OpIs
<1>2. TypeOK /\ Fault
  BY DEF Crash, DutiesInv
<1>3. faults' \in 0 .. MaxFaults /\ faults' # 0
  BY <1>2, FaultIs
<1>4. pc[<<i, d>>] # "idle" /\ Return(<<i, d>>, "CRASHED")
      /\ UNCHANGED <<groups, network, journal, ec2, expired, invoked>>
  BY <1>1 DEF Crash, At
<1> QED
  BY <1>3, <1>4, ReturnSteps DEF Statuses

LEMMA ExpireSteps ==
  ASSUME DutiesInv, NEW o \in Ops, Expire(o)
  PROVE  DutiesInv'
<1> USE DEF groups, network, journal, ec2
<1>1. /\ TypeOK /\ Fault /\ expired' = expired \cup {o}
      /\ UNCHANGED <<groups, network, journal, ec2, invoked, pc, verdict>>
  BY DEF DutiesInv, Expire
<1>2. faults' \in 0 .. MaxFaults /\ faults' # 0
  BY <1>1, FaultIs
<1>3. TypeOK'
  BY <1>1, <1>2 DEF TypeOK
<1>4. LaunchTells' /\ JournalTells' /\ FirstTells'
  BY <1>1 DEF DutiesInv, LaunchTells, JournalTells, FirstTells
<1>5. ResultTells' /\ CalmTells'
  BY <1>1, <1>2 DEF DutiesInv, ResultTells, Done, CalmTells
<1> QED
  BY <1>3, <1>4, <1>5 DEF DutiesInv

------------------------------------------------------------------------------
(* EC2. *)

\* A call belongs to an operation with an intent, and nothing older is listed.
LEMMA CallIs ==
  ASSUME DutiesInv, NEW i \in Instance, NEW d \in Duties, <<i, d>> \in calls
  PROVE  LET o == <<i, d>> IN
         /\ TypeOK /\ o \in Ops /\ o \in attempt /\ intent[o] # NoIntent /\ i <= launched
         /\ \A k \in listed : k >= i
         /\ faults = 0 => pc[o] = "called"
<1>1. <<i, d>> \in Ops /\ <<i, d>> \in attempt
  BY OpIs DEF DutiesInv, TypeOK
<1>2. intent[<<i, d>>] # NoIntent
  BY <1>1 DEF DutiesInv, JournalTells
<1>3. i <= launched
  BY <1>1, <1>2 DEF DutiesInv, LaunchTells, TypeOK, Instance, Nobody
<1>4. TypeOK /\ \A k \in listed : k >= i
  BY <1>2 DEF DutiesInv, FirstTells
<1>5. faults = 0 => pc[<<i, d>>] = "called"
  BY DEF DutiesInv, CalmTells
<1> QED
  BY <1>1, <1>2, <1>3, <1>4, <1>5

LEMMA RejectSteps ==
  ASSUME DutiesInv, NEW i \in Instance, NEW d \in Duties, Reject(i, d)
  PROVE  DutiesInv'
<1> DEFINE o == <<i, d>>
<1> USE DEF groups, network, journal, lambda
<1>1. /\ o \in calls /\ calls' = calls \ {o}
      /\ i \notin listed \/ (d = "change_rt" /\ ~ SameVerb(o))
      /\ UNCHANGED <<groups, network, journal, applied, lambda, faults>>
  BY DEF Reject
<1>2. /\ TypeOK /\ o \in Ops /\ o \in attempt /\ intent[o] # NoIntent /\ i <= launched
      /\ \A k \in listed : k >= i
      /\ faults = 0 => pc[o] = "called"
  BY <1>1, CallIs
<1>3. TypeOK'
  BY <1>1, <1>2 DEF TypeOK
<1>4. ~ (faults = 0 /\ DevGuard /\ Observable(i))
  <2> SUFFICES ASSUME faults = 0, DevGuard, Observable(i) PROVE FALSE
    OBVIOUS
  <2>1. Smooth(i, d) /\ d = "change_rt" /\ ~ SameVerb(o)
    BY <1>1 DEF DutiesInv, CalmTells, Observable, Member
  <2>2. OwnGuard(d, i, intent[o])
    BY <1>1, <1>2, <2>1 DEF Smooth
  <2> QED
    BY <2>1, <2>2 DEF OwnGuard, SameVerb
<1>5. /\ pc[o] \notin {"idle", "begun", "accepted"} => o \in attempt
      /\ pc[o] \in {"final"} \cup Verifying => o \in observed
      /\ pc[o] \in Verifying => d = "disable_sdc"
  BY <1>2 DEF DutiesInv, JournalTells
<1> QED
  BY <1>1, <1>2, <1>3, <1>4, <1>5, OperationStep

LEMMA ApplySteps ==
  ASSUME DutiesInv, NEW i \in Instance, NEW d \in Duties, Apply(i, d)
  PROVE  DutiesInv'
<1> DEFINE o == <<i, d>>
<1> USE DEF groups, journal, lambda
<1>1. /\ o \in calls /\ i \in listed /\ calls' = calls \ {o} /\ applied' = applied \cup {o}
      /\ UNCHANGED <<groups, journal, lambda, faults>>
  BY DEF Apply
<1>2. /\ TypeOK /\ o \in Ops /\ o \in attempt /\ intent[o] # NoIntent /\ i <= launched
      /\ \A k \in listed : k >= i
      /\ faults = 0 => pc[o] = "called"
  BY <1>1, CallIs
<1>3. /\ eip' = IF d = "assign_eip" THEN i ELSE eip
      /\ route' = IF d = "change_rt" THEN i ELSE route
      /\ check' \in [Instance -> BOOLEAN]
      /\ check'[i] = IF d = "disable_sdc" THEN FALSE ELSE check[i]
      /\ \A j \in Instance \ {i} : check'[j] = check[j]
  BY <1>2 DEF Apply, TypeOK
<1>4. TypeOK'
  BY <1>1, <1>2, <1>3 DEF TypeOK
<1>5. LaunchTells' /\ JournalTells' /\ FirstTells'
  BY <1>1 DEF DutiesInv, LaunchTells, JournalTells, FirstTells
<1>6. Done(d, i)'
  BY <1>3, NatAssumption DEF Done
<1>7. ASSUME NEW j \in Instance, NEW e \in Duties, e # d
      PROVE  /\ Done(e, j)' = Done(e, j)
             /\ OwnGuard(e, j, intent[<<j, e>>])' = OwnGuard(e, j, intent[<<j, e>>])
  <2>1. CASE e = "assign_eip"
    BY <1>1, <1>3, <1>7, <2>1 DEF Done, OwnGuard
  <2>2. CASE e = "change_rt"
    BY <1>1, <1>3, <1>7, <2>2 DEF Done, OwnGuard
  <2>3. CASE e = "disable_sdc"
    <3>1. check'[j] = check[j]
      BY <1>3, <1>7, <2>3
    <3> QED
      BY <1>1, <2>3, <3>1 DEF Done, OwnGuard
  <2> QED
    BY <2>1, <2>2, <2>3
<1>8. ResultTells'
  <2> SUFFICES ASSUME NEW j \in Instance, NEW e \in Duties, <<j, e>> \in observed, j \in listed
               PROVE  Done(e, j)'
    BY <1>1 DEF ResultTells
  <2>1. Done(e, j)
    BY DEF DutiesInv, ResultTells
  <2>2. j = i
    <3>1. intent[<<j, e>>] # NoIntent
      BY <1>2, OpIs DEF DutiesInv, TypeOK, JournalTells
    <3>2. i >= j /\ j >= i
      BY <1>1, <1>2, <3>1 DEF DutiesInv, FirstTells
    <3> QED
      BY <3>2 DEF Instance
  <2> QED
    BY <1>6, <1>7, <2>1, <2>2
<1>9. CalmTells'
  <2> SUFFICES ASSUME faults = 0 PROVE CalmTells'
    BY <1>1 DEF CalmTells
  <2>1. neighbour' /\ expired' = {} /\ listed' \subseteq {launched'} /\ \A p \in calls' : pc'[p] = "called"
    BY <1>1 DEF DutiesInv, CalmTells
  <2>2. ASSUME DevGuard, NEW j \in Instance, NEW e \in Duties, Observable(j)' PROVE Smooth(j, e)'
    <3>1. j = i /\ Smooth(j, e)
      BY <1>1, <2>2 DEF Observable, Member, DutiesInv, CalmTells
    <3>2. CASE e = d
      BY <1>1, <1>2, <1>6, <3>1, <3>2 DEF Smooth
    <3>3. CASE e # d
      <4>1. <<j, e>> # o /\ Done(e, j)' = Done(e, j)
            /\ OwnGuard(e, j, intent[<<j, e>>])' = OwnGuard(e, j, intent[<<j, e>>])
        BY <1>7, <3>3
      <4> QED
        BY <1>1, <3>1, <4>1 DEF Smooth
    <3> QED
      BY <3>2, <3>3
  <2> QED
    BY <2>1, <2>2 DEF CalmTells
<1> QED
  BY <1>4, <1>5, <1>8, <1>9 DEF DutiesInv

------------------------------------------------------------------------------
(* The Auto Scaling groups. *)

LEMMA LaunchSteps ==
  ASSUME DutiesInv, Launch
  PROVE  DutiesInv'
<1> USE DEF network, journal, ec2, lambda
<1>1. /\ launched' = launched + 1 /\ listed' = listed \cup {launched + 1} /\ launched < Instances
      /\ UNCHANGED <<leaving, neighbour, network, journal, ec2, lambda>>
      /\ TypeOK
  BY DEF Launch, DutiesInv
<1>2. faults' \in 0 .. MaxFaults /\ (faults' = 0 => faults = 0 /\ listed = {})
  <2>1. CASE listed = {}
    BY <1>1, <2>1 DEF Launch, TypeOK
  <2>2. CASE listed # {}
    BY <1>1, <2>2, FaultIs DEF Launch
  <2> QED
    BY <2>1, <2>2
<1>3. launched \in Nat /\ launched + 1 \in Instance /\ launched' \in Instance
  BY <1>1 DEF TypeOK, Instance, Nobody
<1>4. TypeOK'
  BY <1>1, <1>2, <1>3 DEF TypeOK
<1>5. LaunchTells'
  BY <1>1, <1>3, OpIs DEF DutiesInv, LaunchTells, Instance
<1>6. JournalTells'
  BY <1>1 DEF DutiesInv, JournalTells
<1>7. ASSUME NEW j \in Instance, NEW e \in Duties, intent[<<j, e>>] # NoIntent
      PROVE  j <= launched
  BY <1>3, <1>7, OpIs DEF DutiesInv, LaunchTells, Instance
<1>8. FirstTells'
  <2> SUFFICES ASSUME NEW j \in Instance, NEW e \in Duties, intent[<<j, e>>] # NoIntent, NEW k \in listed'
               PROVE  k >= j
    BY <1>1 DEF FirstTells
  <2>1. CASE k \in listed
    BY <2>1 DEF DutiesInv, FirstTells
  <2>2. CASE k = launched + 1
    <3>1. j <= launched
      BY <1>7
    <3> QED
      BY <1>3, <2>2, <3>1 DEF Instance
  <2> QED
    BY <1>1, <2>1, <2>2
<1>9. ResultTells'
  <2> SUFFICES ASSUME NEW j \in Instance, NEW e \in Duties, <<j, e>> \in observed, j \in listed'
               PROVE  Done(e, j)
    BY <1>1 DEF ResultTells, Done
  <2>1. intent[<<j, e>>] # NoIntent
    BY OpIs DEF DutiesInv, TypeOK, JournalTells
  <2>2. j <= launched
    BY <1>7, <2>1
  <2>3. j # launched + 1
    BY <1>3, <2>2 DEF Instance
  <2> QED
    BY <1>1, <2>3 DEF DutiesInv, ResultTells
<1>10. CalmTells'
  <2> SUFFICES ASSUME faults' = 0 PROVE CalmTells'
    BY DEF CalmTells
  <2>1. neighbour' /\ expired' = {} /\ listed' = {launched'} /\ \A o \in calls' : pc'[o] = "called"
    BY <1>1, <1>2 DEF DutiesInv, CalmTells
  <2>2. ASSUME NEW j \in Instance, NEW e \in Duties, Observable(j)' PROVE Smooth(j, e)'
    <3> DEFINE o == <<j, e>>
    <3>1. j = launched + 1
      BY <1>1, <2>1, <2>2 DEF Observable, Member
    <3>2. o \in Ops /\ o[1] > launched
      BY <1>3, <3>1, OpIs
    <3>3. intent[o] = NoIntent /\ pc[o] = "idle" /\ verdict[o] = "none"
      BY <3>2 DEF DutiesInv, LaunchTells
    <3>4. o \notin attempt /\ o \notin applied /\ o \notin calls
      BY <1>1, <3>2, <3>3 DEF DutiesInv, JournalTells, TypeOK
    <3> QED
      BY <1>1, <3>3, <3>4 DEF Smooth
  <2> QED
    BY <2>1, <2>2 DEF CalmTells
<1> QED
  BY <1>4, <1>5, <1>6, <1>8, <1>9, <1>10 DEF DutiesInv

LEMMA LeaveSteps ==
  ASSUME DutiesInv, NEW i \in Instance, Leave(i)
  PROVE  DutiesInv'
<1> USE DEF network, journal, ec2, lambda
<1>1. /\ i \in listed /\ leaving' = leaving \cup {i} /\ TypeOK
      /\ UNCHANGED <<launched, listed, neighbour, network, journal, ec2, lambda>>
  BY DEF Leave, DutiesInv
<1>2. faults' \in 0 .. MaxFaults /\ (faults' = 0 => faults = 0)
  <2>1. CASE NeedsDuties(i) /\ ~ Over(i)
    BY <1>1, <2>1, FaultIs DEF Leave
  <2>2. CASE ~ (NeedsDuties(i) /\ ~ Over(i))
    BY <1>1, <2>2 DEF Leave, TypeOK
  <2> QED
    BY <2>1, <2>2
<1>3. TypeOK'
  BY <1>1, <1>2 DEF TypeOK
<1>4. LaunchTells' /\ JournalTells' /\ FirstTells'
  BY <1>1 DEF DutiesInv, LaunchTells, JournalTells, FirstTells
<1>5. ResultTells'
  BY <1>1 DEF DutiesInv, ResultTells, Done
<1>6. \A j \in Instance : ~ Observable(j)'
  BY <1>1 DEF Observable, Member
<1>7. CalmTells'
  BY <1>1, <1>2, <1>6 DEF DutiesInv, CalmTells
<1> QED
  BY <1>3, <1>4, <1>5, <1>7 DEF DutiesInv

LEMMA TerminateSteps ==
  ASSUME DutiesInv, NEW i \in Instance, Terminate(i)
  PROVE  DutiesInv'
<1> USE DEF journal, ec2, lambda
<1>1. /\ i \in leaving /\ listed' = listed \ {i} /\ leaving' = leaving \ {i} /\ TypeOK
      /\ eip' = IF eip = i THEN Nobody ELSE eip
      /\ UNCHANGED <<launched, neighbour, route, check, journal, ec2, lambda, faults>>
  BY DEF Terminate, DutiesInv
<1>2. TypeOK'
  BY <1>1 DEF TypeOK
<1>3. LaunchTells' /\ JournalTells' /\ FirstTells'
  BY <1>1 DEF DutiesInv, LaunchTells, JournalTells, FirstTells
<1>4. ResultTells'
  BY <1>1 DEF DutiesInv, ResultTells, Done
<1>5. faults = 0 => listed' = {}
  BY <1>1 DEF DutiesInv, CalmTells, TypeOK
<1>6. CalmTells'
  BY <1>1, <1>5 DEF DutiesInv, CalmTells, Observable, Member
<1> QED
  BY <1>2, <1>3, <1>4, <1>6 DEF DutiesInv

LEMMA NeighbourSteps ==
  ASSUME DutiesInv, NeighbourLeaves \/ NeighbourReturns
  PROVE  DutiesInv'
<1> USE DEF network, journal, ec2, lambda
<1>1. /\ TypeOK /\ neighbour' \in BOOLEAN
      /\ UNCHANGED <<launched, listed, leaving, network, journal, ec2, lambda>>
  BY DEF NeighbourLeaves, NeighbourReturns, DutiesInv
<1>2. faults' \in 0 .. MaxFaults /\ faults' # 0
  <2>1. CASE NeighbourLeaves
    BY <1>1, <2>1, FaultIs DEF NeighbourLeaves
  <2>2. CASE NeighbourReturns
    BY <1>1, <2>2 DEF NeighbourReturns, DutiesInv, CalmTells, TypeOK
  <2> QED
    BY <2>1, <2>2
<1>3. TypeOK'
  BY <1>1, <1>2 DEF TypeOK
<1>4. LaunchTells' /\ JournalTells' /\ FirstTells'
  BY <1>1 DEF DutiesInv, LaunchTells, JournalTells, FirstTells
<1>5. ResultTells' /\ CalmTells'
  BY <1>1, <1>2 DEF DutiesInv, ResultTells, Done, CalmTells
<1> QED
  BY <1>3, <1>4, <1>5 DEF DutiesInv

------------------------------------------------------------------------------

LEMMA DutiesInit == Init => DutiesInv
<1> SUFFICES ASSUME Init PROVE DutiesInv
  OBVIOUS
<1>1. 1 \in Instance /\ Instances \in Nat
  BY DEF Instance
<1>2. TypeOK
  <2>1. check \in [Instance -> BOOLEAN] /\ intent \in [Ops -> States \cup {NoIntent}]
    BY DEF Init
  <2>2. invoked \in [Ops -> 0 .. MaxInvocations] /\ 0 \in 0 .. MaxFaults
    BY DEF Init
  <2>3. /\ pc \in [Ops -> Places]
        /\ verdict \in [Ops -> {"none", "SUCCESS", "FAILURE", "UNCERTAIN", "UNREADY", "CRASHED"}]
    BY DEF Init, Places
  <2> QED
    BY <1>1, <2>1, <2>2, <2>3 DEF Init, TypeOK, Nobody
<1>3. LaunchTells
  BY <1>1 DEF Init, LaunchTells
<1>4. JournalTells /\ FirstTells /\ ResultTells
  BY OpIs DEF Init, JournalTells, FirstTells, ResultTells
<1>5. \A i \in Instance, d \in Duties : Smooth(i, d)
  BY OpIs DEF Init, Smooth
<1>6. CalmTells
  BY <1>5 DEF Init, CalmTells, Nobody
<1> QED
  BY <1>2, <1>3, <1>4, <1>6 DEF DutiesInv

LEMMA DutiesKept == DutiesInv /\ [Next]_vars => DutiesInv'
<1> SUFFICES ASSUME DutiesInv, [Next]_vars PROVE DutiesInv'
  OBVIOUS
<1>1. CASE Group
  BY <1>1, LaunchSteps, LeaveSteps, TerminateSteps DEF Group
<1>2. CASE Trouble
  <2>1. CASE NeighbourLeaves \/ NeighbourReturns
    BY <2>1, NeighbourSteps
  <2>2. CASE \E i \in Instance, d \in Duties : LoseAnswer(i, d)
    BY <2>2, LoseAnswerSteps
  <2>3. CASE "disable_sdc" \in Duties /\ \E i \in Instance : VerifyGivesUp(i)
    BY <2>3, VerifySteps
  <2>4. CASE \E o \in Ops : Expire(o) \/ Crash(o)
    BY <2>4, ExpireSteps, CrashSteps
  <2> QED
    BY <1>2, <2>1, <2>2, <2>3, <2>4 DEF Trouble
<1>3. ASSUME NEW i \in Instance, NEW d \in Duties, Run(i, d) PROVE DutiesInv'
  BY <1>3, InvokeSteps, AcceptSteps, AttemptSteps, GuardSteps, MutateSteps, AnswerSteps,
     ObserveSteps, FinalSteps, VerifySteps DEF Run
<1>4. ASSUME NEW i \in Instance, NEW d \in Duties, Ec2(i, d) PROVE DutiesInv'
  BY <1>4, ApplySteps, RejectSteps DEF Ec2
<1>5. CASE UNCHANGED vars
  <2> USE <1>5 DEF vars, groups, network, journal, ec2, lambda
  <2>1. TypeOK'
    BY DEF DutiesInv, TypeOK
  <2>2. LaunchTells' /\ JournalTells' /\ FirstTells'
    BY DEF DutiesInv, LaunchTells, JournalTells, FirstTells
  <2>3. ResultTells'
    BY DEF DutiesInv, ResultTells, Done
  <2>4. ASSUME NEW i \in Instance, NEW d \in Duties, Smooth(i, d) PROVE Smooth(i, d)'
    BY <2>4, SmoothKept
  <2>5. CalmTells'
    BY <2>4 DEF DutiesInv, CalmTells, Observable, Member
  <2> QED
    BY <2>1, <2>2, <2>3, <2>5 DEF DutiesInv
<1> QED
  BY <1>1, <1>2, <1>3, <1>4, <1>5 DEF Next

LEMMA DutiesInvAlways == Spec => []DutiesInv
<1> QED
  BY DutiesInit, DutiesKept, PTL DEF Spec

------------------------------------------------------------------------------

\* A recorded result stands while its instance is alone in the slot, however many
\* instances, deliveries and faults there are.
THEOREM ObservedStandsAlways == Spec => []ObservedStands
<1>1. DutiesInv => ObservedStands
  BY DEF DutiesInv, ObservedStands, ResultTells
<1> QED
  BY <1>1, DutiesInvAlways, PTL

\* With the guard of the dev packages the duties do not fail one another.
THEOREM DutiesIndependentAlways ==
  ASSUME DevGuard
  PROVE  Spec => []DutiesIndependent
<1>1. DutiesInv => DutiesIndependent
  BY DEF DutiesInv, DutiesIndependent, CalmTells, Smooth
<1> QED
  BY <1>1, DutiesInvAlways, PTL

\* What the pass of an instance that is still listed has seen is still so.
SeenTells ==
  \A i \in Instance :
    LET o == <<i, "disable_sdc">>
    IN  o \in Ops /\ i \in listed =>
          /\ pc[o] \in Verifying \ {"member", "address"} => eip = i
          /\ pc[o] \in Verifying \ {"member", "address", "default"} => route = i
          /\ pc[o] \in Verifying \ {"member", "address", "default", "check"} => ~ check[i]

\* Steps of an operation that are not its looks.
Apart(p) ==
  \/ UNCHANGED pc
  \/ \E place \in (Places \ Verifying) \cup {"member"} : GoTo(p, place)
  \/ \E status \in Statuses : Return(p, status)

LEMMA ApartSees ==
  ASSUME TypeOK, SeenTells, NEW p \in Ops, Apart(p), UNCHANGED <<groups, network>>
  PROVE  SeenTells'
<1> USE DEF groups, network
<1> SUFFICES ASSUME NEW i \in Instance, <<i, "disable_sdc">> \in Ops
             PROVE  LET o == <<i, "disable_sdc">>
                    IN  pc'[o] = pc[o] \/ pc'[o] \in (Places \ Verifying) \cup {"member"}
  BY DEF SeenTells
<1>1. CASE \E place \in (Places \ Verifying) \cup {"member"} : GoTo(p, place)
  <2>1. PICK place \in (Places \ Verifying) \cup {"member"} : GoTo(p, place)
    BY <1>1
  <2>2. place \in Places
    BY <2>1 DEF Places
  <2> QED
    BY <2>1, <2>2, GoToIs
<1>2. CASE \E status \in Statuses : Return(p, status)
  BY <1>2, ReturnIs DEF Places
<1> QED
  BY <1>1, <1>2 DEF Apart

\* What a look adds is so when it looks.
LEMMA LookSees ==
  ASSUME DutiesInv, SeenTells, NEW j \in Instance, <<j, "disable_sdc">> \in Ops, Verify(j)
  PROVE  SeenTells'
<1> DEFINE p == <<j, "disable_sdc">>
<1> USE DEF groups, network
<1>1. TypeOK /\ UNCHANGED <<groups, network>>
  BY LookIs DEF DutiesInv
<1>2. PICK place \in Verifying : GoTo(p, place)
  BY LookIs
<1>3. place \in Places
  BY DEF Places
<1>4. pc'[p] = place /\ \A q \in Ops \ {p} : pc'[q] = pc[q]
  BY <1>1, <1>2, <1>3, GoToIs
<1> SUFFICES ASSUME NEW i \in Instance, <<i, "disable_sdc">> \in Ops, i \in listed
             PROVE  LET o == <<i, "disable_sdc">> IN
                    /\ pc'[o] \in Verifying \ {"member", "address"} => eip = i
                    /\ pc'[o] \in Verifying \ {"member", "address", "default"} => route = i
                    /\ pc'[o] \in Verifying \ {"member", "address", "default", "check"} => ~ check[i]
  BY <1>1 DEF SeenTells
<1>5. CASE i = j
  <2>1. /\ pc[p] \in Verifying \ {"member", "address"} => eip = i
        /\ pc[p] \in Verifying \ {"member", "address", "default"} => route = i
        /\ pc[p] \in Verifying \ {"member", "address", "default", "check"} => ~ check[i]
    BY <1>5 DEF SeenTells
  <2>2. \/ pc'[p] = "member"
        \/ pc[p] = "member" /\ pc'[p] = "address"
        \/ pc[p] = "address" /\ eip = i /\ pc'[p] = "default"
        \/ pc[p] = "default" /\ route = i /\ pc'[p] = "check"
        \/ pc[p] = "check" /\ ~ check[i] /\ pc'[p] = "neighbour"
        \/ pc[p] = "neighbour" /\ pc'[p] = "active"
        \/ pc[p] = "active" /\ pc'[p] = "running"
        \/ pc[p] = "running" /\ pc'[p] = "ready"
    <3>1. ASSUME NEW next \in Places, GoTo(p, next) PROVE pc'[p] = next
      BY <1>1, <3>1, GoToIs
    <3> QED
      BY <1>5, <3>1, LookIs DEF Places
  <2> QED
    BY <1>5, <2>1, <2>2
<1>6. CASE i # j
  <2>1. pc'[<<i, "disable_sdc">>] = pc[<<i, "disable_sdc">>]
    BY <1>4, <1>6
  <2> QED
    BY <2>1 DEF SeenTells
<1> QED
  BY <1>5, <1>6

\* A call that is applied while the instance is listed is one of its own: it undoes
\* nothing that was seen.
LEMMA ApplySees ==
  ASSUME DutiesInv, SeenTells, NEW j \in Instance, NEW d \in Duties, Apply(j, d)
  PROVE  SeenTells'
<1>1. /\ <<j, d>> \in calls /\ j \in listed /\ TypeOK
      /\ eip' = IF d = "assign_eip" THEN j ELSE eip
      /\ route' = IF d = "change_rt" THEN j ELSE route
      /\ check' = IF d = "disable_sdc" THEN [check EXCEPT ![j] = FALSE] ELSE check
      /\ listed' = listed /\ pc' = pc
  BY DEF Apply, DutiesInv, groups, lambda
<1> SUFFICES ASSUME NEW i \in Instance, <<i, "disable_sdc">> \in Ops, i \in listed,
                    pc[<<i, "disable_sdc">>] \in Verifying
             PROVE  (eip = i => eip' = i) /\ (route = i => route' = i) /\ (~ check[i] => ~ check'[i])
  BY <1>1 DEF SeenTells
<1>2. i >= j
  BY <1>1, CallIs
<1>3. intent[<<i, "disable_sdc">>] # NoIntent /\ "disable_sdc" \in Duties
  BY OpIs DEF DutiesInv, JournalTells
<1>4. j >= i
  BY <1>1, <1>3 DEF DutiesInv, FirstTells
<1>5. i = j
  BY <1>2, <1>4 DEF Instance
<1> QED
  BY <1>1, <1>5 DEF TypeOK

LEMMA GroupSees ==
  ASSUME DutiesInv, SeenTells, Group
  PROVE  SeenTells'
<1> USE DEF network, lambda
<1>1. CASE Launch
  <2>1. /\ listed' = listed \cup {launched + 1} /\ UNCHANGED <<network, pc>>
    BY <1>1 DEF Launch
  <2>2. ASSUME NEW i \in Instance, <<i, "disable_sdc">> \in Ops, i = launched + 1
        PROVE  pc[<<i, "disable_sdc">>] = "idle"
    BY <2>2 DEF DutiesInv, LaunchTells, TypeOK, Instance, Nobody
  <2> QED
    BY <2>1, <2>2 DEF SeenTells
<1>2. CASE \E i \in Instance : Leave(i)
  BY <1>2 DEF Leave, SeenTells
<1>3. CASE \E i \in Instance : Terminate(i)
  <2>1. PICK j \in Instance : Terminate(j)
    BY <1>3
  <2>2. /\ listed' = listed \ {j} /\ eip' = (IF eip = j THEN Nobody ELSE eip)
        /\ UNCHANGED <<route, check, pc>>
    BY <2>1 DEF Terminate
  <2> QED
    BY <2>2 DEF SeenTells
<1> QED
  BY <1>1, <1>2, <1>3 DEF Group

LEMMA SeenKept == DutiesInv /\ SeenTells /\ [Next]_vars => SeenTells'
<1> SUFFICES ASSUME DutiesInv, SeenTells, [Next]_vars PROVE SeenTells'
  OBVIOUS
<1>1. TypeOK
  BY DEF DutiesInv
<1>2. CASE Group
  BY <1>2, GroupSees
<1>3. CASE Trouble
  <2>1. CASE NeighbourLeaves \/ NeighbourReturns
    BY <2>1 DEF NeighbourLeaves, NeighbourReturns, SeenTells, network, lambda
  <2>2. CASE \E i \in Instance, d \in Duties : LoseAnswer(i, d)
    BY <1>1, <2>2, OpIs, ApartSees DEF LoseAnswer, Apart, Places
  <2>3. CASE "disable_sdc" \in Duties /\ \E i \in Instance : VerifyGivesUp(i)
    BY <1>1, <2>3, OpIs, ApartSees DEF VerifyGivesUp, Apart, Statuses
  <2>4. CASE \E o \in Ops : Crash(o)
    BY <1>1, <2>4, ApartSees DEF Crash, Apart, Statuses
  <2>5. CASE \E o \in Ops : Expire(o)
    BY <2>5 DEF Expire, SeenTells, groups, network
  <2> QED
    BY <1>3, <2>1, <2>2, <2>3, <2>4, <2>5 DEF Trouble
<1>4. ASSUME NEW i \in Instance, NEW d \in Duties, Run(i, d) PROVE SeenTells'
  <2> DEFINE o == <<i, d>>
  <2>1. o \in Ops
    BY OpIs
  <2>2. CASE Invoke(i, d) \/ Accept(i, d)
    <3>1. Apart(o)
      BY <2>2 DEF Invoke, Accept, Apart, Places, Statuses
    <3> QED
      BY <1>1, <2>1, <2>2, <3>1, ApartSees DEF Invoke, Accept
  <2>3. CASE Attempt(i, d) \/ Guard(i, d)
    <3>1. Apart(o)
      BY <2>3 DEF Attempt, Guard, Apart, Places, Statuses
    <3> QED
      BY <1>1, <2>1, <2>3, <3>1, ApartSees DEF Attempt, Guard
  <2>4. CASE Mutate(i, d) \/ Answer(i, d) \/ Observe(i, d)
    <3>1. Apart(o)
      BY <2>4 DEF Mutate, Answer, Observe, Apart, Places, Statuses
    <3> QED
      BY <1>1, <2>1, <2>4, <3>1, ApartSees DEF Mutate, Answer, Observe
  <2>5. CASE Final(i, d)
    <3>1. Apart(o)
      BY <2>5 DEF Final, Apart, Places, Statuses
    <3> QED
      BY <1>1, <2>1, <2>5, <3>1, ApartSees DEF Final
  <2>6. CASE d = "disable_sdc" /\ Verify(i)
    BY <2>1, <2>6, LookSees
  <2>7. CASE d = "disable_sdc" /\ VerifySucceeds(i)
    BY <1>1, <2>1, <2>7, ApartSees DEF VerifySucceeds, Apart, Statuses
  <2> QED
    BY <1>4, <2>2, <2>3, <2>4, <2>5, <2>6, <2>7 DEF Run
<1>5. ASSUME NEW i \in Instance, NEW d \in Duties, Ec2(i, d) PROVE SeenTells'
  <2>1. CASE Apply(i, d)
    BY <2>1, ApplySees
  <2>2. CASE Reject(i, d)
    BY <2>2 DEF Reject, SeenTells, groups, network, lambda
  <2> QED
    BY <1>5, <2>1, <2>2 DEF Ec2
<1>6. CASE UNCHANGED vars
  BY <1>6 DEF vars, SeenTells, groups, network, lambda
<1> QED
  BY <1>2, <1>3, <1>4, <1>5, <1>6 DEF Next

LEMMA SeenAlways == Spec => [](DutiesInv /\ SeenTells)
<1>1. Init => SeenTells
  BY DEF Init, SeenTells
<1> QED
  BY <1>1, DutiesInit, DutiesKept, SeenKept, PTL DEF Spec

\* The step in which a disable_sdc returns SUCCESS.
Certifies(i) ==
  LET o == <<i, "disable_sdc">>
  IN  o \in Ops /\ ~ At(o, "idle") /\ At(o, "idle")' /\ verdict'[o] = "SUCCESS"

\* An operation that goes on, fails or is of another duty certifies nothing.
LEMMA CertifiesNothing ==
  ASSUME TypeOK, NEW i \in Instance, NEW p \in Ops,
         \/ \E place \in Places \ {"idle"} : GoTo(p, place)
         \/ \E status \in Statuses \ {"SUCCESS"} : Return(p, status)
         \/ p[2] # "disable_sdc" /\ Return(p, "SUCCESS")
  PROVE  ~ Certifies(i)
<1> DEFINE o == <<i, "disable_sdc">>
<1> SUFFICES ASSUME o \in Ops, pc[o] # "idle", pc'[o] = "idle", verdict'[o] = "SUCCESS"
             PROVE  FALSE
  BY DEF Certifies, At
<1>1. CASE \E place \in Places \ {"idle"} : GoTo(p, place)
  BY <1>1, GoToIs
<1>2. CASE \E status \in Statuses \ {"SUCCESS"} : Return(p, status)
  BY <1>2, ReturnIs
<1>3. CASE p[2] # "disable_sdc" /\ Return(p, "SUCCESS")
  <2>1. p # o
    BY <1>3
  <2> QED
    BY <1>3, <2>1, ReturnIs DEF Statuses
<1> QED
  BY <1>1, <1>2, <1>3

LEMMA CertifyingStep ==
  ASSUME DutiesInv, [Next]_vars, NEW i \in Instance, Certifies(i)
  PROVE  VerifySucceeds(i)
<1>1. TypeOK /\ pc # pc'
  BY DEF DutiesInv, Certifies, At
<1>2. ~ Group
  BY <1>1 DEF Group, Launch, Leave, Terminate, lambda
<1>3. ~ Trouble
  <2>1. ~ NeighbourLeaves /\ ~ NeighbourReturns /\ \A o \in Ops : ~ Expire(o)
    BY <1>1 DEF NeighbourLeaves, NeighbourReturns, Expire, lambda
  <2>2. ~ \E j \in Instance, d \in Duties : LoseAnswer(j, d)
    BY <1>1, OpIs, CertifiesNothing DEF LoseAnswer, Places
  <2>3. ~ ("disable_sdc" \in Duties /\ \E j \in Instance : VerifyGivesUp(j))
    BY <1>1, OpIs, CertifiesNothing DEF VerifyGivesUp, Statuses
  <2>4. ~ \E o \in Ops : Crash(o)
    BY <1>1, CertifiesNothing DEF Crash, Statuses
  <2> QED
    BY <2>1, <2>2, <2>3, <2>4 DEF Trouble
<1>4. ASSUME NEW j \in Instance, NEW d \in Duties, Run(j, d) PROVE d = "disable_sdc" /\ VerifySucceeds(j)
  <2> DEFINE o == <<j, d>>
  <2>1. o \in Ops
    BY OpIs
  <2>2. ~ Invoke(j, d) /\ ~ Accept(j, d)
    BY <1>1, <2>1, CertifiesNothing DEF Invoke, Accept, Places, Statuses
  <2>3. ~ Attempt(j, d) /\ ~ Guard(j, d)
    BY <1>1, <2>1, CertifiesNothing DEF Attempt, Guard, Places, Statuses
  <2>4. ~ Mutate(j, d) /\ ~ Answer(j, d) /\ ~ Observe(j, d)
    BY <1>1, <2>1, CertifiesNothing DEF Mutate, Answer, Observe, Places, Statuses
  <2>5. ~ Final(j, d)
    BY <1>1, <2>1, CertifiesNothing DEF Final, Places, Statuses
  <2>6. ~ (d = "disable_sdc" /\ Verify(j))
    <3> SUFFICES ASSUME d = "disable_sdc", Verify(j) PROVE FALSE
      OBVIOUS
    <3>1. PICK place \in Verifying : GoTo(o, place)
      BY LookIs
    <3>2. place \in Places \ {"idle"}
      BY DEF Places
    <3> QED
      BY <1>1, <2>1, <3>1, <3>2, CertifiesNothing
  <2> QED
    BY <1>4, <2>2, <2>3, <2>4, <2>5, <2>6 DEF Run
<1>5. ASSUME NEW j \in Instance, NEW d \in Duties, Ec2(j, d) PROVE FALSE
  BY <1>1, <1>5 DEF Ec2, Apply, Reject, lambda
<1>6. ~ UNCHANGED vars
  BY <1>1 DEF vars, lambda
<1>7. PICK j \in Instance, d \in Duties : d = "disable_sdc" /\ VerifySucceeds(j)
  BY <1>2, <1>3, <1>4, <1>5, <1>6 DEF Next
<1>8. j = i
  <2> DEFINE p == <<j, "disable_sdc">>
          o == <<i, "disable_sdc">>
  <2>1. p \in Ops /\ o \in Ops /\ Return(p, "SUCCESS")
    BY <1>7, OpIs DEF VerifySucceeds
  <2>2. p = o
    BY <1>1, <2>1, ReturnIs DEF Certifies, At, Statuses
  <2> QED
    BY <2>2
<1> QED
  BY <1>7, <1>8

\* disable_sdc succeeds only for a slot that is completely set up, or whose instance was
\* terminated after the last look: what its looks found at different times holds together.
THEOREM SuccessIsCertified == Spec => SuccessCertifies
<1>1. ASSUME DutiesInv, SeenTells, [Next]_vars, NEW i \in Instance, Certifies(i), i \in listed
      PROVE  eip = i /\ route = i /\ ~ check[i]
  <2>1. pc[<<i, "disable_sdc">>] = "ready" /\ <<i, "disable_sdc">> \in Ops
    BY <1>1, CertifyingStep DEF VerifySucceeds, At, Certifies
  <2> QED
    BY <1>1, <2>1 DEF SeenTells
<1>2. DutiesInv /\ SeenTells /\ [Next]_vars =>
        [\A i \in Instance :
           LET o == <<i, "disable_sdc">>
           IN  o \in Ops /\ ~ At(o, "idle") /\ At(o, "idle")' /\ verdict'[o] = "SUCCESS"
                 => i \notin listed \/ (eip = i /\ route = i /\ ~ check[i])]_vars
  BY <1>1 DEF Certifies
<1> QED
  BY <1>2, SeenAlways, PTL DEF Spec, SuccessCertifies
================================================================================
