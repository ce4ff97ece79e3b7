-------------------------- MODULE MCRecoveryJournal --------------------------
(* The RecoveryJournal runs: every constant is given in the .cfg.  The journal *)
(* is an instance whose variables share no name with those of NatDuties, so   *)
(* that one module can hold the proofs about both.                            *)
CONSTANTS Stages, Switch, MaxRuns

VARIABLES runIntent, intentPuts, records, puts, receipt, receiptPut, runExpired, sent, effect,
          run, runAt, stage, effects, reconciled, preparing, runVerdict

J == INSTANCE RecoveryJournal
     WITH intent <- runIntent, expired <- runExpired, pc <- runAt, verdict <- runVerdict

ASSUME JournalHolds == J!JournalAssumption

JournalSpec == J!Spec

\* RecoveryJournal.tla: no mutation is sent twice.
AtMostOnce == J!AtMostOnce

\* RecoveryJournal.tla: a stage is sent after every earlier one has taken effect.
InOrder == J!InOrder

\* RecoveryJournal.tla: a definitive verdict leaves nothing in doubt.
DecidedIsKnown == J!DecidedIsKnown
==============================================================================
