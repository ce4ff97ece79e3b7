--------------------------- MODULE RecoveryJournal ---------------------------
(***************************************************************************)
(* The bounded recovery journal: scripts/recovery/journal.py, with the     *)
(* effect adapter of scripts/wp4d/aws_runtime.py that it runs on.          *)
(*                                                                         *)
(* One operation (an emergency recovery, a cleanup or a NAT action) has an *)
(* ordered list of stages, each of which is one AWS mutation that must     *)
(* never be sent twice.  What is known about the operation is kept in      *)
(* create-only S3 records: its intent and, for each stage, a plan, an      *)
(* attempt (before the call), an ack (after it) and an observed effect.    *)
(*                                                                         *)
(* Runs of the operation follow one another (reserved concurrency 1): each *)
(* may crash at any point, leaving its puts and its mutation in flight, to *)
(* land in a later run or never.  A read may fail.                         *)
(*                                                                         *)
(* Abstractions.  The bytes of a record are fixed by the intent and its    *)
(* stage, except those of the intent, so that only the key of the others   *)
(* is kept; "observed" stands for observed and reconciled, of which the    *)
(* second is written when the first is taken.  The state ABSENT cannot be  *)
(* reported by the installed adapter once an attempt is read (effect,      *)
(* aws_runtime.py:161-164) and is left out.  Guards, the final proof and   *)
(* prepare() read the environment: they pass or raise.  Stage is the list  *)
(* actions() selects from the retained domain, the same in every run.      *)
(* Receipts of different runs differ in their observation times only and   *)
(* are not told apart; outcomes/ is written and never read.                *)
(***************************************************************************)
EXTENDS Naturals

CONSTANTS
  Stages,  \* number of selected stages
  Switch,  \* the stage named "switch", or 0 for an operation that has none
  MaxRuns  \* runs of the operation that are explored

JournalAssumption ==
  /\ Stages \in Nat \ {0}
  /\ Switch \in 0 .. Stages
  /\ MaxRuns \in Nat

Stage == 1 .. Stages
Runs  == 1 .. MaxRuns

Kinds   == {"plan", "attempt", "ack", "observed"}
Records == Kinds \X Stage

VARIABLES
  intent,      \* the run that wrote the retained intent, or 0
  intentPuts,  \* runs whose put of the intent has not landed
  records,     \* stage records that are stored
  puts,        \* stage records whose put has not landed
  receipt,     \* a success receipt is stored
  receiptPut,  \* the put of a success receipt has not landed
  expired,     \* the deadline in the intent has passed
  sent,        \* how many times the mutation of each stage was sent
  effect,      \* what became of the mutation of each stage
  run,         \* number of the present run
  pc,          \* where the run is; "idle" between runs
  stage,       \* the stage the run is at
  effects,     \* stages whose applied effect the run holds
  reconciled,  \* the run has gone through the retained attempts
  preparing,   \* Journal.preparing: the stage attempted and not yet sent, or 0
  verdict      \* the status the last finished run returned

stored  == <<intent, records, receipt>>
flights == <<intentPuts, puts, receiptPut>>
world   == <<expired, sent, effect>>
runner  == <<run, pc, stage, effects, reconciled, preparing, verdict>>
vars    == <<stored, flights, world, runner>>

Init ==
  /\ intent = 0
  /\ intentPuts = {}
  /\ records = {}
  /\ puts = {}
  /\ receipt = FALSE
  /\ receiptPut = FALSE
  /\ expired = FALSE
  /\ sent = [s \in Stage |-> 0]
  /\ effect = [s \in Stage |-> "none"]
  /\ run = 0
  /\ pc = "idle"
  /\ stage = 1
  /\ effects = {}
  /\ reconciled = FALSE
  /\ preparing = 0
  /\ verdict = "none"

Has(kind, s) == <<kind, s>> \in records

------------------------------------------------------------------------------
(* Storage and AWS. *)

\* create() is IfNoneMatch "*": the first intent that lands is the operation's.
LandIntent(r) ==
  /\ r \in intentPuts
  /\ intentPuts' = intentPuts \ {r}
  /\ intent' = IF intent = 0 THEN r ELSE intent
  /\ UNCHANGED <<records, receipt, puts, receiptPut, world, runner>>

LoseIntent(r) ==
  /\ r \in intentPuts
  /\ intentPuts' = intentPuts \ {r}
  /\ UNCHANGED <<stored, puts, receiptPut, world, runner>>

LandPut(p) ==
  /\ p \in puts
  /\ puts' = puts \ {p}
  /\ records' = records \cup {p}
  /\ UNCHANGED <<intent, receipt, intentPuts, receiptPut, world, runner>>

LosePut(p) ==
  /\ p \in puts
  /\ puts' = puts \ {p}
  /\ UNCHANGED <<stored, intentPuts, receiptPut, world, runner>>

LandReceipt ==
  /\ receiptPut
  /\ receiptPut' = FALSE
  /\ receipt' = TRUE
  /\ UNCHANGED <<intent, records, intentPuts, puts, world, runner>>

LoseReceipt ==
  /\ receiptPut
  /\ receiptPut' = FALSE
  /\ UNCHANGED <<stored, intentPuts, puts, world, runner>>

\* A mutation takes effect at any time after it was sent, or never; once AWS
\* has accepted it, it does take effect.
Apply(s) ==
  /\ effect[s] \in {"sent", "accepted"}
  /\ effect' = [effect EXCEPT ![s] = "applied"]
  /\ UNCHANGED <<stored, flights, expired, sent, runner>>

Lose(s) ==
  /\ effect[s] = "sent"
  /\ effect' = [effect EXCEPT ![s] = "lost"]
  /\ UNCHANGED <<stored, flights, expired, sent, runner>>

\* 600 seconds after the clock reading in the intent.
Expire ==
  /\ ~ expired
  /\ intent # 0 \/ intentPuts # {}
  /\ expired' = TRUE
  /\ UNCHANGED <<stored, flights, sent, effect, runner>>

------------------------------------------------------------------------------
(* How a run ends. *)

Return(status) ==
  /\ pc' = "idle"
  /\ verdict' = status
  /\ UNCHANGED <<run, stage, effects, reconciled, preparing>>

Attempted == \E s \in Stage : Has("attempt", s)

\* Mutant: the attempts are not consulted.
JournalFailsUnchecked == Return("UNCERTAIN") \/ Return("FAILURE")

\* except JournalError, and Exception before there is an intent: attempted()
\* reads every attempt and a read that fails counts as one.
JournalFails ==
  \/ Return("UNCERTAIN")
  \/ ~ Attempted /\ Return("FAILURE")

SwitchAttempted == Switch # 0 /\ Has("attempt", Switch)

\* except Exception: an authorization that is refused, a deadline, a guard.  The
\* attempts matter until they are reconciled; with an accepted operation the
\* switch does too, unless it is the stage refused before its call.
Accepted == pc \notin {"accept", "accepting"}

Rejected ==
  LET asksSwitch == Accepted /\ (Switch = 0 \/ preparing # Switch)
  IN  \/ (~ reconciled \/ asksSwitch) /\ Return("UNCERTAIN")
      \/ /\ ~ reconciled => ~ Attempted
         /\ asksSwitch => ~ SwitchAttempted
         /\ Return("FAILURE")

------------------------------------------------------------------------------
(* execute() and accept(). *)

GoTo(place) ==
  /\ pc' = place
  /\ UNCHANGED <<run, stage, effects, reconciled, preparing, verdict>>

Begin ==
  /\ pc = "idle"
  /\ run < MaxRuns
  /\ run' = run + 1
  /\ pc' = "accept"
  /\ stage' = 1
  /\ effects' = {}
  /\ reconciled' = FALSE
  /\ preparing' = 0
  /\ UNCHANGED <<stored, flights, world, verdict>>

\* A retained intent is matched; otherwise prepare() reads the environment and
\* the intent is put, unless an attempt shows that there was one.
Accept ==
  /\ pc = "accept"
  /\ \/ intent # 0 /\ GoTo("reconcile") /\ UNCHANGED intentPuts
     \/ /\ intent = 0 /\ ~ Attempted
        /\ intentPuts' = intentPuts \cup {run}
        /\ GoTo("accepting")
     \/ (JournalFails \/ Rejected) /\ UNCHANGED intentPuts
  /\ UNCHANGED <<stored, puts, receiptPut, world>>

\* The read that settles the put: another run's intent is a mismatch.
AcceptRead ==
  /\ pc = "accepting"
  /\ \/ intent = run /\ GoTo("reconcile")
     \/ JournalFails
     \/ intent # run /\ Rejected
  /\ UNCHANGED <<stored, flights, world>>

\* The next stage of a loop over the actions, or what follows the loop.
Advance(place, after) ==
  IF stage < Stages
  THEN pc' = place /\ stage' = stage + 1
  ELSE pc' = after /\ stage' = 1

\* effect() without mutate: a retained attempt must have an observed effect;
\* the evidence is read, or observed anew and put.
Reconcile ==
  /\ pc = "reconcile"
  /\ \/ /\ ~ Has("attempt", stage)
        /\ Advance("reconcile", "stage")
        /\ reconciled' = (pc' = "stage")
        /\ UNCHANGED <<puts, run, effects, preparing, verdict>>
     \/ /\ Has("attempt", stage) /\ Has("plan", stage)
        /\ GoTo("observe")
        /\ UNCHANGED puts
     \/ JournalFails /\ UNCHANGED puts
  /\ UNCHANGED <<stored, intentPuts, receiptPut, world>>

\* Mutant: a stage whose attempt is found is taken for done.
PlanSkipsAttempted ==
  /\ pc = "stage"
  /\ \/ /\ stage \in effects \/ Has("attempt", stage)
        /\ Advance("stage", "final")
        /\ UNCHANGED <<puts, run, effects, reconciled, preparing, verdict>>
     \/ /\ stage \notin effects /\ ~ Has("attempt", stage) /\ ~ Has("observed", stage)
        /\ puts' = puts \cup {<<"plan", stage>>}
        /\ GoTo("planned")
     \/ stage \notin effects /\ JournalFails /\ UNCHANGED puts
  /\ UNCHANGED <<stored, intentPuts, receiptPut, world>>

\* effect() with mutate, for each stage that has no effect yet.
Plan ==
  /\ pc = "stage"
  /\ \/ /\ stage \in effects
        /\ Advance("stage", "final")
        /\ UNCHANGED <<puts, run, effects, reconciled, preparing, verdict>>
     \/ /\ stage \notin effects /\ Has("attempt", stage) /\ Has("plan", stage)
        /\ GoTo("observe")
        /\ UNCHANGED puts
     \/ /\ stage \notin effects /\ ~ Has("attempt", stage) /\ ~ Has("observed", stage)
        /\ puts' = puts \cup {<<"plan", stage>>}
        /\ GoTo("planned")
     \/ stage \notin effects /\ JournalFails /\ UNCHANGED puts
  /\ UNCHANGED <<stored, intentPuts, receiptPut, world>>

\* The plan is read back, the deadline and the guard checked, the attempt put.
Attempt ==
  /\ pc = "planned"
  /\ \/ /\ Has("plan", stage) /\ ~ expired
        /\ puts' = puts \cup {<<"attempt", stage>>}
        /\ GoTo("attempting")
     \/ JournalFails /\ UNCHANGED puts
     \/ Has("plan", stage) /\ Rejected /\ UNCHANGED puts
  /\ UNCHANGED <<stored, intentPuts, receiptPut, world>>

AttemptRead ==
  /\ pc = "attempting"
  /\ \/ /\ Has("attempt", stage)
        /\ pc' = "guarding"
        /\ preparing' = stage
        /\ UNCHANGED <<run, stage, effects, reconciled, verdict>>
     \/ JournalFails
  /\ UNCHANGED <<stored, flights, world>>

\* The fresh guard after persistence, and the call.
Guard ==
  /\ pc = "guarding"
  /\ \/ ~ expired /\ GoTo("dispatch")
     \/ Rejected
  /\ UNCHANGED <<stored, flights, world>>

Dispatch ==
  /\ pc = "dispatch"
  /\ sent' = [sent EXCEPT ![stage] = @ + 1]
  /\ effect' = [effect EXCEPT ![stage] = "sent"]
  /\ pc' = "called"
  /\ preparing' = 0
  /\ UNCHANGED <<stored, flights, expired, run, stage, effects, reconciled, verdict>>

\* The adapter refuses before its call, and the exception is swallowed.
Refuse ==
  /\ pc = "dispatch"
  /\ pc' = "observe"
  /\ preparing' = 0
  /\ UNCHANGED <<stored, flights, world, run, stage, effects, reconciled, verdict>>

\* remembered(): AWS accepted the call and its ack is put.
Acknowledge ==
  /\ pc = "called"
  /\ effect[stage] \in {"sent", "applied"}
  /\ effect' = [effect EXCEPT ![stage] = IF @ = "sent" THEN "accepted" ELSE @]
  /\ puts' = puts \cup {<<"ack", stage>>}
  /\ GoTo("observe")
  /\ UNCHANGED <<stored, intentPuts, receiptPut, expired, sent>>

\* The call raised: it may have been applied, or be applied yet.
CallRaised ==
  /\ pc = "called"
  /\ GoTo("observe")
  /\ UNCHANGED <<stored, flights, world>>

\* The run holds the effect of its stage: on to the next one.
Hold ==
  /\ effects' = effects \cup {stage}
  /\ IF reconciled
     THEN Advance("stage", "final") /\ UNCHANGED reconciled
     ELSE Advance("reconcile", "stage") /\ reconciled' = (pc' = "stage")
  /\ UNCHANGED <<run, preparing, verdict>>

\* Mutant: a call of unknown fate is sent again.
ObserveResends ==
  /\ pc = "observe"
  /\ \/ Has("observed", stage) /\ Hold /\ UNCHANGED puts
     \/ /\ Has("ack", stage) /\ effect[stage] = "applied"
        /\ puts' = puts \cup {<<"observed", stage>>}
        /\ GoTo("observing")
     \/ ~ Has("ack", stage) /\ GoTo("dispatch") /\ UNCHANGED puts
  /\ UNCHANGED <<stored, intentPuts, receiptPut, world>>

\* An observed effect is reused.  Otherwise the adapter verifies the effect of
\* an acknowledged call against the environment and the observation is put.
Observe ==
  /\ pc = "observe"
  /\ \/ Has("observed", stage) /\ Hold /\ UNCHANGED puts
     \/ /\ Has("ack", stage) /\ effect[stage] = "applied"
        /\ puts' = puts \cup {<<"observed", stage>>}
        /\ GoTo("observing")
     \/ Return("UNCERTAIN") /\ UNCHANGED puts
  /\ UNCHANGED <<stored, intentPuts, receiptPut, world>>

ObserveRead ==
  /\ pc = "observing"
  /\ \/ Has("observed", stage) /\ Hold
     \/ Return("UNCERTAIN")
  /\ UNCHANGED <<stored, flights, world>>

\* The deadline, the final proof and every effect are checked again, and the
\* receipt is put.
Close ==
  /\ pc = "final"
  /\ \/ /\ ~ expired
        /\ \A s \in Stage : Has("attempt", s) /\ Has("observed", s)
        /\ receiptPut' = TRUE
        /\ GoTo("closing")
     \/ (Rejected \/ Return("UNCERTAIN")) /\ UNCHANGED receiptPut
  /\ UNCHANGED <<stored, intentPuts, puts, world>>

CloseRead ==
  /\ pc = "closing"
  /\ \/ receipt /\ Return("SUCCESS")
     \/ JournalFails
  /\ UNCHANGED <<stored, flights, world>>

Crash ==
  /\ pc # "idle"
  /\ Return("CRASHED")
  /\ UNCHANGED <<stored, flights, world>>

------------------------------------------------------------------------------
Environment ==
  \/ \E r \in Runs : LandIntent(r) \/ LoseIntent(r)
  \/ \E p \in Records : LandPut(p) \/ LosePut(p)
  \/ LandReceipt \/ LoseReceipt
  \/ \E s \in Stage : Apply(s) \/ Lose(s)
  \/ Expire

Execute ==
  \/ Begin \/ Accept \/ AcceptRead
  \/ Reconcile
  \/ Plan \/ Attempt \/ AttemptRead
  \/ Guard \/ Dispatch \/ Refuse
  \/ Acknowledge \/ CallRaised
  \/ Observe \/ ObserveRead
  \/ Close \/ CloseRead
  \/ Crash

Next == Environment \/ Execute

Spec == Init /\ [][Next]_vars

------------------------------------------------------------------------------
(* Properties. *)

Places == {"idle", "accept", "accepting", "reconcile", "stage", "planned", "attempting",
           "guarding", "dispatch", "called", "observe", "observing", "final", "closing"}

\* Every variable has its type.
TypeOK ==
  /\ intent \in {0} \cup Runs
  /\ intentPuts \subseteq Runs
  /\ records \subseteq Records
  /\ puts \subseteq Records
  /\ receipt \in BOOLEAN
  /\ receiptPut \in BOOLEAN
  /\ expired \in BOOLEAN
  /\ sent \in [Stage -> Nat]
  /\ effect \in [Stage -> {"none", "sent", "accepted", "applied", "lost"}]
  /\ run \in 0 .. MaxRuns
  /\ pc \in Places
  /\ stage \in Stage
  /\ effects \subseteq Stage
  /\ reconciled \in BOOLEAN
  /\ preparing \in 0 .. Stages
  /\ verdict \in {"none", "SUCCESS", "FAILURE", "UNCERTAIN", "CRASHED"}

\* The no-resend contract: over all the runs of an operation, and whatever puts
\* land late, are lost or are reconciled after a crash, no mutation is sent twice
\* (effect(): the attempt is read back before the call and never cleared).
AtMostOnce == \A s \in Stage : sent[s] <= 1

\* Stages take effect in order: when the mutation of a stage is sent, every earlier
\* stage of the operation has already taken effect in AWS, not merely been
\* acknowledged (traffic is not switched to a service that is not scaled, and no
\* cleanup is scheduled before the routes are exchanged).
InOrder == \A s \in Stage : sent[s] > 0 => \A t \in 1 .. s - 1 : effect[t] = "applied"

\* A run that returns SUCCESS or FAILURE leaves nothing in doubt: no mutation of
\* the operation, of this run or an earlier one, is still able to take effect
\* or of unknown fate; SUCCESS, and a receipt that may land long after the run
\* that put it, mean that all have taken effect, FAILURE that traffic was not
\* switched (the three except clauses of execute()).
DecidedIsKnown ==
  /\ pc = "idle" /\ verdict \in {"SUCCESS", "FAILURE"} =>
       \A s \in Stage : effect[s] \in {"none", "applied"}
  /\ pc = "idle" /\ verdict = "FAILURE" /\ Switch # 0 => sent[Switch] = 0
  /\ receipt \/ receiptPut => \A s \in Stage : effect[s] = "applied"
  /\ pc = "idle" /\ verdict = "SUCCESS" => receipt
==============================================================================
