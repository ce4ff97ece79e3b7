-------------------------------- MODULE MCRecovery --------------------------------
(* The two recoveries of the database, which share nothing: a behaviour is   *)
(* one of the cold recovery or one of the native.  Both are instances, over  *)
(* variables whose names are not those of SqlBackup or its observer, so that *)
(* one module can hold the proofs about all of them.                         *)
EXTENDS Naturals, TLC

CONSTANTS
  Nobody,
  d1, d2, Directories, Offers, Pids, MaxStarts,
  Targets, Evidence, MaxRows, MaxBackups

VARIABLES
  which,
  source, target, boot, sql, conf, contents, served, started, receipts, phases, proc, witnessed,
  stages, putting,
  instance, tasks, data, connected, timer, service, kept, evidence, step, commands, run, intents,
  acts

cold ==
  <<source, target, boot, sql, conf, contents, served, started, receipts, phases, proc, witnessed,
    stages, putting>>
native ==
  <<instance, tasks, data, connected, timer, service, kept, evidence, step, commands, run, intents,
    acts>>

Cold == INSTANCE ColdRecovery WITH None <- Nobody, seen <- witnessed, flying <- putting

Native == INSTANCE NativeRecovery
          WITH None <- Nobody, Directories <- Evidence, state <- instance, job <- service

\* A directory of an operator that goes all the way, and one of another, who takes the
\* prepared recovery and may try the transition.
Two == d1 :> {"restore", "transition", "connection", "review"} @@ d2 :> {"warm", "transition"}

ASSUME ColdHolds   == Cold!ColdAssumption
ASSUME NativeHolds == Native!NativeAssumption

Alike == Permutations(Evidence)

RecoveryInit == which \in {"cold", "native"} /\ Cold!Init /\ Native!Init
RecoveryNext ==
  \/ which = "cold" /\ Cold!Next /\ UNCHANGED <<which, native>>
  \/ which = "native" /\ Native!Next /\ UNCHANGED <<which, cold>>
RecoverySpec == RecoveryInit /\ [][RecoveryNext]_<<which, cold, native>>

\* ColdRecovery.tla: nothing connects while the source may come back, and what tasks
\* connect by is there.
FencedAndReachable == Cold!FencedAndReachable

\* ColdRecovery.tla: the files tell what a listener transition did.
PhasesTell == Cold!PhasesTell

\* ColdRecovery.tla: a runtime check accepts one process.
OneProcess == Cold!OneProcess

\* NativeRecovery.tla: what is restored is all that the source had, once it ended, on
\* one host.
NothingLost == Native!NothingLost
=============================================================================
