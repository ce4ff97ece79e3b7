------------------------------- MODULE MCSqlBackup -------------------------------
(* SqlBackup with a few jobs, which are alike.  The run `backup` checks the  *)
(* watch over the backups too: a behaviour is one of the jobs or one of the  *)
(* observer, which share nothing but the receipts the observer reads.        *)
EXTENDS SqlBackup, TLC

CONSTANTS Attention, Attempts, Total, MaxObservations

VARIABLES part, owner, pc, seen, state, pending, budget, enqueued, queue, arriving, calls, made,
          saved

observer == <<owner, pc, seen, state, pending, budget, enqueued, queue, arriving, calls, made, saved>>

Watch == INSTANCE BackupObserver WITH flying <- arriving

ASSUME WatchHolds == Watch!ObserverAssumption

Symmetry == Permutations(Jobs)

BothInit == part \in {"jobs", "observer"} /\ Init /\ Watch!Init
BothNext ==
  \/ part = "jobs" /\ Next /\ UNCHANGED <<part, observer>>
  \/ part = "observer" /\ Watch!Next /\ UNCHANGED <<part, vars>>
BothSpec == BothInit /\ [][BothNext]_<<part, vars, observer>>

\* BackupObserver.tla: what its state accounts for is pending or enqueued, by calls
\* of SQS that are bounded and in the order of the observations.
Announced == Watch!Announced
=============================================================================
