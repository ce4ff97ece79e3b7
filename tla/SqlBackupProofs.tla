---------------------------- MODULE SqlBackupProofs ----------------------------
(***************************************************************************)
(* Proofs about SqlBackup, for any number of jobs, whatever the clock says *)
(* and how many copies are to be kept.                                     *)
(*                                                                         *)
(* What is recorded can be restored because a manifest is only put once    *)
(* its backup has been read back, and a receipt is only written once the   *)
(* manifest has (ProgramTells, CopiesTell).  A copy is only deleted while  *)
(* no other program is at work, operation.lock being the program's own,    *)
(* and never the last success, which keeps its receipt.  That a job which  *)
(* was interrupted blocks the next follows from job.lock (LockTells).      *)
(*                                                                         *)
(* And about BackupObserver, as MCSqlBackup instantiates it, for any       *)
(* conditions and limits: what is pending is the observation that was last *)
(* made (ActivationTells), those before it have been accepted by the queue *)
(* (NoticesTell), and a call is only made once it has been counted         *)
(* (CallsTell, AllCallsTell).                                              *)
(*                                                                         *)
(* And about the two recoveries, as MCRecovery instantiates them, for any  *)
(* directories, hosts, starts, rows and backups.  Of ColdRecovery, the     *)
(* place of a process says what it has checked and recorded (StepTells),   *)
(* and what a runtime check saw is only ever overtaken by a later start or *)
(* a later write of the configuration (SeenTells).  Of NativeRecovery, an  *)
(* intent is made once, so that one fence succeeds and one restore follows *)
(* it (SentTells), and from the step that makes the database read-only on  *)
(* every backup is of all the source had (FenceTells).                     *)
(***************************************************************************)
EXTENDS MCSqlBackup, MCRecovery, Sequences, TLAPS

Working == {"backup", "cleanup"}

\* The lock has one holder; an end that must be reviewed is in the receipt of the job,
\* and nobody works then, nor once an inhibit has reported idle.
LockTells ==
  /\ \A j \in Jobs : host[j] \in Working \cup {"locked"} => held = j
  /\ \A j \in Jobs : host[j] \in Working => job = "STARTED"
  /\ ended \in {"crash", "timeout"} =>
       job \in {"STARTED", "UNKNOWN"} /\ \A j \in Jobs : host[j] \notin Working
  /\ told => inhibited /\ \A j \in Jobs : host[j] \notin Working

\* Places of a program that has taken its backup.
Taking == {"putBackup", "getBackup", "putManifest", "getManifest", "receipt", "success", "attempt"}

\* What is on the disk and in S3 where a program is.
ProgramTells ==
  \A j \in Jobs :
    /\ host[j] \in {"idle", "locked"} => child[j] = "none"
    /\ child[j] \in {"none", "start", "dump"} => last # j
    /\ child[j] \in Taking => "bak" \in disk[j]
    /\ child[j] \in {"success", "attempt"} => "receipt" \in disk[j]
    /\ child[j] \in {"putManifest", "getManifest"} => "backup" \in objects[j]
    /\ child[j] = "receipt" => objects[j] = Both

\* operation.lock.
OneProgram == \A j, k \in Jobs : child[j] \in Holding /\ child[k] \in Holding => j = k

\* The copies of a backup, and the records of them.
CopiesTell ==
  /\ \A j \in Jobs :
       /\ "manifest" \in objects[j] \/ <<j, "manifest">> \in flying => "backup" \in objects[j]
       /\ "receipt" \in disk[j] => objects[j] = Both
       /\ stamp[j] # 0 => "bak" \in disk[j] \/ objects[j] = Both
  /\ last # None => {"bak", "receipt"} \subseteq disk[last]

BackupInv == TypeOK /\ LockTells /\ ProgramTells /\ OneProgram /\ CopiesTell

USE BackupAssumption

------------------------------------------------------------------------------

LEMMA BackupInit == Init => BackupInv
<1> SUFFICES ASSUME Init PROVE BackupInv
  OBVIOUS
<1>1. TypeOK
  <2>1. disk \in [Jobs -> SUBSET {"bak", "receipt"}] /\ objects \in [Jobs -> SUBSET Both]
    BY DEF Init
  <2>2. stamp \in [Jobs -> 0 .. MaxClock]
    BY DEF Init
  <2>3. host \in [Jobs -> {"idle", "locked", "backup", "cleanup", "over"}]
    BY DEF Init
  <2> QED
    BY <2>1, <2>2, <2>3 DEF Init, TypeOK
<1>2. LockTells
  BY DEF Init, LockTells, Working
<1>3. ProgramTells /\ OneProgram
  BY DEF Init, ProgramTells, OneProgram, Taking, Holding, Running
<1>4. CopiesTell
  BY DEF Init, CopiesTell
<1> QED
  BY <1>1, <1>2, <1>3, <1>4 DEF BackupInv

\* What host.py does to its own job, and to the program it starts or kills.
LEMMA HostSteps ==
  ASSUME BackupInv, NEW j \in Jobs, Job(j)
  PROVE  BackupInv'
<1> USE DEF local, staging, remote, operator
<1>1. TypeOK'
  BY DEF BackupInv, TypeOK, Job, Lock, Start, Refuse, Succeeds, Completes, Fails, Expires, Killed,
     End, Host, Child, Interrupts, Unknown, How, Running
<1>2. LockTells'
  BY DEF BackupInv, TypeOK, LockTells, Working, Job, Lock, Start, Refuse, Succeeds, Completes, Fails,
     Expires, Killed, Admits, End, Host, Child, Interrupts, Unknown, Stdout, How
<1>3. UNCHANGED <<staging, remote>>
  BY DEF Job, Lock, Start, Refuse, Succeeds, Completes, Fails, Expires, Killed, End
<1>4. ProgramTells'
  BY <1>3 DEF BackupInv, TypeOK, ProgramTells, Taking, Job, Lock, Start, Refuse, Succeeds, Completes, Fails,
     Expires, Killed, End, Host, Child, Stdout
<1>5. OneProgram'
  BY DEF BackupInv, TypeOK, OneProgram, Holding, Running, Job, Lock, Start, Refuse, Succeeds, Completes,
     Fails, Expires, Killed, End, Host, Child
<1>6. CopiesTell'
  BY <1>3 DEF BackupInv, CopiesTell
<1> QED
  BY <1>1, <1>2, <1>4, <1>5, <1>6 DEF BackupInv

LEMMA OperatorSteps ==
  ASSUME BackupInv, Reboot \/ Inhibit \/ Report \/ GivesUp \/ Resume
  PROVE  BackupInv'
<1> USE DEF local, staging, remote, operator
<1>1. TypeOK'
  <2>1. ended' \in {"none", "crash", "timeout", "deadline"}
    BY DEF BackupInv, TypeOK, Reboot, Inhibit, Report, GivesUp, Resume, Interrupts
  <2>2. host' \in [Jobs -> {"idle", "locked", "backup", "cleanup", "over"}]
    BY DEF BackupInv, TypeOK, Reboot, Inhibit, Report, GivesUp, Resume
  <2>3. child' \in [Jobs -> Running \cup {"none", "ok", "failed", "deadline", "killed", "cleaned", "partial"}]
    BY DEF BackupInv, TypeOK, Reboot, Inhibit, Report, GivesUp, Resume
  <2> QED
    BY <2>1, <2>2, <2>3 DEF BackupInv, TypeOK, Reboot, Inhibit, Report, GivesUp, Resume
<1>2. LockTells'
  BY DEF BackupInv, TypeOK, LockTells, Working, Reboot, Inhibit, Report, GivesUp, Resume, Interrupts, Idle
<1>3. ProgramTells' /\ OneProgram'
  BY DEF BackupInv, TypeOK, ProgramTells, OneProgram, Taking, Holding, Running, Reboot, Inhibit, Report,
     GivesUp, Resume
<1>4. CopiesTell'
  BY DEF BackupInv, CopiesTell, Reboot, Inhibit, Report, GivesUp, Resume
<1> QED
  BY <1>1, <1>2, <1>3, <1>4 DEF BackupInv

\* What changes neither the jobs nor the locks.
LEMMA LockKept ==
  ASSUME LockTells, UNCHANGED <<local, host, operator>>
  PROVE  LockTells'
BY DEF LockTells, local, operator

LEMMA OpenSteps ==
  ASSUME BackupInv, NEW j \in Jobs, Open(j) \/ Dump(j) \/ ChildFails(j)
  PROVE  BackupInv'
<1> USE DEF staging, remote
<1>1. TypeOK'
  BY DEF BackupInv, TypeOK, Open, Dump, ChildFails, Taken, Child, Running, local, operator
<1>2. LockTells'
  BY LockKept DEF BackupInv, Open, Dump, ChildFails
<1>3. ProgramTells'
  BY DEF BackupInv, TypeOK, ProgramTells, Taking, Running, Open, Dump, ChildFails, Taken, Child
<1>4. OneProgram'
  BY DEF BackupInv, TypeOK, OneProgram, Holding, Running, Open, Dump, ChildFails, Child
<1>5. CopiesTell'
  BY DEF BackupInv, TypeOK, CopiesTell, ProgramTells, Open, Dump, ChildFails, Taken
<1> QED
  BY <1>1, <1>2, <1>3, <1>4, <1>5 DEF BackupInv

LEMMA PutSteps ==
  ASSUME BackupInv, NEW j \in Jobs, Put(j) \/ Get(j)
  PROVE  BackupInv'
<1> USE DEF staging, remote
<1>1. TypeOK'
  BY DEF BackupInv, TypeOK, Put, Get, Stores, Object, Both, Child, Running, local, operator
<1>2. LockTells'
  BY LockKept DEF BackupInv, Put, Get
<1>3. ProgramTells'
  BY DEF BackupInv, TypeOK, ProgramTells, CopiesTell, Taking, Both, Put, Get, Stores, Object, Committed, Child
<1>4. OneProgram'
  BY DEF BackupInv, TypeOK, OneProgram, Holding, Running, Put, Get, Child
<1>5. CopiesTell'
  BY DEF BackupInv, TypeOK, CopiesTell, ProgramTells, Both, Put, Get, Stores, Object
<1> QED
  BY <1>1, <1>2, <1>3, <1>4, <1>5 DEF BackupInv

LEMMA LandSteps ==
  ASSUME BackupInv, Land
  PROVE  BackupInv'
<1> USE DEF staging
<1>1. PICK put \in flying : flying' = flying \ {put} /\ Stores(put[1], put[2])
                            /\ UNCHANGED <<local, host, child, staging, operator>>
  BY DEF Land
<1>2. put[1] \in Jobs /\ put[2] \in Both /\ put = <<put[1], put[2]>>
  BY <1>1 DEF BackupInv, TypeOK
<1>3. TypeOK'
  BY <1>1, <1>2 DEF BackupInv, TypeOK, Stores, local, operator
<1>4. LockTells'
  BY <1>1, LockKept DEF BackupInv
<1>5. ProgramTells' /\ OneProgram'
  BY <1>1, <1>2 DEF BackupInv, TypeOK, ProgramTells, OneProgram, Stores, Both
<1>6. CopiesTell'
  BY <1>1, <1>2 DEF BackupInv, TypeOK, CopiesTell, Stores, Both
<1> QED
  BY <1>3, <1>4, <1>5, <1>6 DEF BackupInv

LEMMA WriteSteps ==
  ASSUME BackupInv, NEW j \in Jobs, WriteReceipt(j) \/ WriteSuccess(j) \/ WriteAttempt(j) \/ Cleaned(j)
  PROVE  BackupInv'
<1> USE DEF staging, remote
<1>1. TypeOK'
  BY DEF BackupInv, TypeOK, WriteReceipt, WriteSuccess, WriteAttempt, Cleaned, Child, Running, local, operator
<1>2. LockTells'
  BY LockKept DEF BackupInv, WriteReceipt, WriteSuccess, WriteAttempt, Cleaned
<1>3. ProgramTells'
  BY DEF BackupInv, TypeOK, ProgramTells, Taking, WriteReceipt, WriteSuccess, WriteAttempt, Cleaned, Child
<1>4. OneProgram'
  BY DEF BackupInv, TypeOK, OneProgram, Holding, Running, WriteReceipt, WriteSuccess, WriteAttempt, Cleaned, Child
<1>5. CopiesTell'
  BY DEF BackupInv, TypeOK, CopiesTell, ProgramTells, Taking, WriteReceipt, WriteSuccess, WriteAttempt, Cleaned
<1> QED
  BY <1>1, <1>2, <1>3, <1>4, <1>5 DEF BackupInv

\* The last success is kept, whatever the clock says of it.
LEMMA LastIsKept ==
  ASSUME last \in Candidates
  PROVE  last \notin Disposable
BY DEF Disposable, Keep

LEMMA DeleteSteps ==
  ASSUME BackupInv, NEW j \in Jobs, Delete(j)
  PROVE  BackupInv'
<1> USE DEF remote
<1>1. child[j] = "cleaning" /\ UNCHANGED <<local, host, child, stamp, attempt, last, remote, operator>>
  BY DEF Delete
<1>2. PICK k \in Disposable : Restores(k) /\ disk' = [disk EXCEPT ![k] = @ \ {"bak"}]
  BY DEF Delete
<1>3. k \in Jobs
  BY DEF Disposable, Candidates
<1>4. last # k
  <2>1. CASE last = None
    BY <1>3, <2>1
  <2>2. CASE last # None
    <3>1. last \in Candidates
      BY <2>2 DEF BackupInv, TypeOK, CopiesTell, Candidates
    <3> QED
      BY <3>1, LastIsKept
  <2> QED
    BY <2>1, <2>2
<1>5. child[k] \notin Taking
  BY <1>1, <1>3 DEF BackupInv, OneProgram, Taking, Holding, Running
<1>6. TypeOK'
  BY <1>1, <1>2, <1>3 DEF BackupInv, TypeOK, local, operator
<1>7. LockTells'
  BY <1>1, LockKept DEF BackupInv
<1>8. ProgramTells' /\ OneProgram'
  BY <1>1, <1>2, <1>3, <1>5 DEF BackupInv, TypeOK, ProgramTells, OneProgram, Taking
<1>9. CopiesTell'
  BY <1>1, <1>2, <1>3, <1>4 DEF BackupInv, TypeOK, CopiesTell, Restores
<1> QED
  BY <1>6, <1>7, <1>8, <1>9 DEF BackupInv

LEMMA BackupKept == BackupInv /\ [Next]_vars => BackupInv'
<1> SUFFICES ASSUME BackupInv, [Next]_vars PROVE BackupInv'
  OBVIOUS
<1>1. CASE UNCHANGED vars
  <2> USE <1>1 DEF vars, local, staging, remote, operator
  <2>1. TypeOK' /\ LockTells'
    BY DEF BackupInv, TypeOK, LockTells
  <2>2. ProgramTells' /\ OneProgram' /\ CopiesTell'
    BY DEF BackupInv, ProgramTells, OneProgram, CopiesTell
  <2> QED
    BY <2>1, <2>2 DEF BackupInv
<1>2. ASSUME NEW j \in Jobs, Program(j) PROVE BackupInv'
  BY <1>2, OpenSteps, PutSteps, WriteSteps, DeleteSteps DEF Program
<1> QED
  BY <1>1, <1>2, HostSteps, OperatorSteps, LandSteps DEF Next

LEMMA BackupInvAlways == Spec => []BackupInv
<1> QED
  BY BackupInit, BackupKept, PTL DEF Spec

------------------------------------------------------------------------------

\* Whatever is recorded as committed can be restored, and no copy is lost, for any
\* jobs, kills, reboots, late puts and clocks.
THEOREM RestorableAlways == Spec => []Restorable
<1>1. BackupInv => Restorable
  <2> SUFFICES ASSUME BackupInv PROVE Restorable
    OBVIOUS
  <2>1. TypeOK
    BY DEF BackupInv
  <2>4. ASSUME NEW j \in Jobs, "manifest" \in objects[j] PROVE objects[j] = Both
    <3>1. "backup" \in objects[j] /\ objects[j] \subseteq Both
      BY <2>4 DEF BackupInv, TypeOK, CopiesTell
    <3> QED
      BY <2>4, <3>1 DEF Both
  <2>2. \A j \in Jobs :
          /\ "receipt" \in disk[j] => Restores(j)
          /\ stamp[j] # 0 => "bak" \in disk[j] \/ Restores(j)
    BY DEF BackupInv, CopiesTell, Restores
  <2>3. last # None => Restores(last) /\ "bak" \in disk[last]
    BY <2>2 DEF BackupInv, TypeOK, CopiesTell
  <2> QED
    BY <2>1, <2>2, <2>3, <2>4 DEF Restorable, Manifests, Restores
<1> QED
  BY <1>1, BackupInvAlways, PTL

\* An interrupted job is reviewed before the next one begins, and no job works after an
\* inhibit has reported idle, until a resume.
THEOREM InterruptedIsReviewed == Spec => InterruptedBlocks
<1>1. ASSUME BackupInv, BackupInv', [Next]_vars, Begins
      PROVE  ended \notin {"crash", "timeout"}
  <2>1. PICK j \in Jobs : host[j] = "locked" /\ host'[j] = "backup"
    BY <1>1 DEF Begins
  <2>2. ASSUME NEW k \in Jobs, Job(k) PROVE k = j /\ Start(j)
    <3>1. k = j
      BY <1>1, <2>1, <2>2 DEF BackupInv, TypeOK, Job, Lock, Start, Refuse, Succeeds, Completes, Fails,
         Expires, Killed, End, Host
    <3> QED
      BY <1>1, <2>1, <2>2, <3>1 DEF BackupInv, TypeOK, Job, Lock, Refuse, Succeeds, Completes, Fails,
         Expires, Killed, End, Host
  <2>3. ASSUME NEW k \in Jobs, Program(k) PROVE FALSE
    BY <2>1, <2>3 DEF Program, Open, Dump, Put, Get, WriteReceipt, WriteSuccess, WriteAttempt, ChildFails,
       Delete, Cleaned
  <2>4. ~ (Land \/ Inhibit \/ Report \/ GivesUp \/ Resume \/ UNCHANGED vars)
    BY <2>1 DEF Land, Inhibit, Report, GivesUp, Resume, vars
  <2>5. ~ Reboot
    BY <2>1 DEF Reboot
  <2>6. Start(j)
    BY <1>1, <2>2, <2>3, <2>4, <2>5 DEF Next
  <2> QED
    BY <1>1, <2>6 DEF Start, Admits, BackupInv, LockTells
<1>2. BackupInv /\ BackupInv' /\ [Next]_vars =>
        [/\ Begins => ended \notin {"crash", "timeout"}
         /\ told' => \A j \in Jobs : host'[j] \notin {"backup", "cleanup"}]_vars
  BY <1>1 DEF BackupInv, LockTells, Working
<1> QED
  BY <1>2, BackupInvAlways, PTL DEF Spec, InterruptedBlocks

------------------------------------------------------------------------------
(* The watch over the backups, as MCSqlBackup instantiates it.              *)

\* Places at which an observation is pending.
Flushing == {"flush", "attempt", "send", "accepted", "unlink", "denied"}

\* Where an activation is, and what it has observed.
ActivationTells ==
  /\ pc # "idle" => owner = "held"
  /\ pc \in {"observe", "persist"} => pending = None
  /\ pc = "persist" => seen.condition # "MAINTENANCE"
  /\ pc = "save" =>
       IF seen.condition = "MAINTENANCE" THEN pending = None
       ELSE pending # None /\ pending.n = seen.n
  /\ pc \in {"persist", "save"} =>
       /\ seen.n > 0 /\ seen.condition # None
       /\ ~ seen.emit /\ seen.condition \notin {"MAINTENANCE", "HEALTHY"} => state.open
  /\ pc \in Flushing => pending # None
  /\ pc = "attempt" => pending.attempts < Attempts
  /\ pc \in {"accepted", "unlink"} => pending.n \in queue

\* What the state says of the notices, and the queue of the observations before the
\* pending one.
NoticesTell ==
  /\ Watch!Accepts(state)
  /\ \A n \in saved : n \in queue \/ (pending # None /\ pending.n = n)
  /\ enqueued # 0 => enqueued \in queue
  /\ state.open => state.notice \in saved
  /\ pending # None => pending.n <= seen.n

\* The calls are those of the attempts that were counted, one observation at a time.
CallsTell ==
  \A n \in Watch!Observations :
    /\ calls[n] <= Attempts
    /\ calls[n] > 0 => n <= seen.n
    /\ calls[n] > 0 => n \in queue \/ (pending # None /\ pending.n = n)
    /\ pc = "persist" /\ n = seen.n => calls[n] = 0
    /\ pending # None /\ calls[n] > 0 => n <= pending.n
    /\ pending # None /\ pending.n = n =>
         calls[n] <= pending.attempts /\ (pc = "send" => calls[n] < pending.attempts)

\* And of those that were counted among all.
AllCallsTell == made <= budget /\ (pc \in {"attempt", "send"} => made < budget)

WatchInv == Watch!TypeOK /\ ActivationTells /\ NoticesTell /\ CallsTell

LEMMA WatchConstants ==
  /\ Attention \cap {"HEALTHY", "MAINTENANCE"} = {} /\ {"FAILED", "UNKNOWN"} \subseteq Attention
  /\ Attempts \in Nat \ {0} /\ Total \in Nat \ {0} /\ MaxObservations \in Nat
  /\ None \notin Watch!Conditions /\ None # "MAINTENANCE" /\ None \notin Watch!Pendings
BY WatchHolds DEF Watch!ObserverAssumption

LEMMA WatchInit == Watch!Init => WatchInv
<1> SUFFICES ASSUME Watch!Init PROVE WatchInv
  OBVIOUS
<1>1. calls \in [Watch!Observations -> Nat] /\ \A n \in Watch!Observations : calls[n] = 0
  BY DEF Watch!Init
<1>2. Watch!TypeOK
  BY <1>1, WatchConstants DEF Watch!Init, Watch!NoState, Watch!TypeOK
<1>3. ActivationTells
  BY DEF Watch!Init, ActivationTells, Flushing
<1>4. NoticesTell
  <2>1. /\ state.condition = None /\ state.open = FALSE /\ state.notice = 0 /\ seen.n = 0
        /\ saved = {} /\ enqueued = 0 /\ pending = None
    BY DEF Watch!Init, Watch!NoState
  <2>2. Watch!Accepts(state)
    <3>1. state.open = (state.condition \notin {None, "HEALTHY"})
      BY <2>1, Zenon
    <3>2. state.notice <= seen.n /\ ~ state.open
      BY <2>1
    <3> QED
      BY <3>1, <3>2 DEF Watch!Accepts
  <2> QED
    BY <2>1, <2>2 DEF NoticesTell
<1>5. CallsTell
  BY <1>1, WatchConstants DEF Watch!Init, CallsTell
<1> QED
  BY <1>2, <1>3, <1>4, <1>5 DEF WatchInv

\* The pending observation, where there is one.
LEMMA PendingIs ==
  ASSUME Watch!TypeOK, pending # None
  PROVE  /\ pending \in Watch!Pendings
         /\ pending.n \in Watch!Observations /\ pending.n \in Nat \ {0}
         /\ pending.attempts \in 0 .. Attempts /\ pending.blocked \in BOOLEAN
BY WatchConstants DEF Watch!TypeOK, Watch!Pendings, Watch!Observations

LEMMA SeenIs ==
  ASSUME Watch!TypeOK
  PROVE  /\ seen.n \in 0 .. MaxObservations /\ seen.emit \in BOOLEAN
         /\ seen.condition \in Watch!Conditions \cup {"MAINTENANCE", None}
         /\ state.condition \in Watch!Conditions \cup {None} /\ state.open \in BOOLEAN
         /\ state.notice \in 0 .. MaxObservations
BY DEF Watch!TypeOK

\* The places between the steps that write.
LEMMA PlaceSteps ==
  ASSUME WatchInv,
         Watch!Begin \/ Watch!Raises \/ Watch!Dies \/ Watch!Reconcile \/ Watch!Unlink \/ Watch!Note
           \/ Watch!Count \/ Watch!Arrive
  PROVE  WatchInv'
<1> USE DEF Watch!sqs, Watch!Release
<1>1. Watch!TypeOK'
  <2>1. UNCHANGED <<seen, state, calls, made, saved>> /\ pending' \in {pending, None}
    BY DEF Watch!Begin, Watch!Raises, Watch!Dies, Watch!Reconcile, Watch!Unlink, Watch!Note, Watch!Count,
       Watch!Arrive
  <2>2. /\ owner' \in {"free", "held", "left"}
        /\ pc' \in {pc, "idle", "observe", "flush", "unlink", "attempt"}
    BY DEF WatchInv, Watch!TypeOK, Watch!Begin, Watch!First, Watch!Raises, Watch!Dies, Watch!Reconcile,
       Watch!Unlink, Watch!Note, Watch!Count, Watch!Arrive
  <2>3. budget' \in 0 .. Total
    BY WatchConstants DEF WatchInv, Watch!TypeOK, Watch!Begin, Watch!Raises, Watch!Dies, Watch!Reconcile,
       Watch!Unlink, Watch!Note, Watch!Count, Watch!Within, Watch!Arrive
  <2>4. enqueued' \in 0 .. MaxObservations
    <3>1. enqueued' = enqueued \/ (pc = "accepted" /\ enqueued' = pending.n)
      BY DEF Watch!Begin, Watch!Raises, Watch!Dies, Watch!Reconcile, Watch!Unlink, Watch!Note, Watch!Count,
         Watch!Arrive
    <3>2. pc = "accepted" => pending.n \in 0 .. MaxObservations
      BY PendingIs, WatchConstants DEF WatchInv, ActivationTells, Flushing, Watch!Observations
    <3> QED
      BY <3>1, <3>2 DEF WatchInv, Watch!TypeOK
  <2>5. queue' \subseteq Watch!Observations /\ arriving' \subseteq Watch!Observations
    BY DEF WatchInv, Watch!TypeOK, Watch!Begin, Watch!Raises, Watch!Dies, Watch!Reconcile, Watch!Unlink,
       Watch!Note, Watch!Count, Watch!Arrive
  <2> QED
    BY <2>1, <2>2, <2>3, <2>4, <2>5 DEF WatchInv, Watch!TypeOK
<1>2. ActivationTells'
  BY PendingIs, WatchConstants DEF WatchInv, Watch!TypeOK, ActivationTells, Flushing, Watch!Begin, Watch!First,
     Watch!Raises, Watch!Dies, Watch!Reconcile, Watch!Unlink, Watch!Note, Watch!Count, Watch!Within, Watch!Arrive
<1>3. NoticesTell'
  BY DEF WatchInv, ActivationTells, NoticesTell, Watch!Accepts, Watch!Begin, Watch!Raises, Watch!Dies,
     Watch!Reconcile, Watch!Unlink, Watch!Note, Watch!Count, Watch!Arrive
<1>4. CallsTell'
  BY DEF WatchInv, ActivationTells, CallsTell, Watch!Begin, Watch!First, Watch!Raises, Watch!Dies,
     Watch!Reconcile, Watch!Unlink, Watch!Note, Watch!Count, Watch!Arrive
<1> QED
  BY <1>1, <1>2, <1>3, <1>4 DEF WatchInv

\* What is found is one of the conditions, and what does not emit is an open incident.
LEMMA FoundIs ==
  ASSUME Watch!TypeOK, NEW check \in Watch!Checked, NEW done \in Watch!JobStates, NEW up \in BOOLEAN,
         NEW reminder \in BOOLEAN
  PROVE  LET c == IF up THEN Watch!Health(check, done) ELSE "MAINTENANCE"
         IN  /\ c \in Watch!Conditions \cup {"MAINTENANCE"} /\ Watch!Emits(c, reminder) \in BOOLEAN
             /\ ~ Watch!Emits(c, reminder) /\ c \notin {"MAINTENANCE", "HEALTHY"} => state.open
<1>1. Watch!Health(check, done) \in Watch!Conditions
  BY WatchConstants DEF Watch!Checked, Watch!Health, Watch!Conditions
<1>2. \A c : Watch!Emits(c, reminder) \in BOOLEAN
              /\ (~ Watch!Emits(c, reminder) /\ c \notin {"MAINTENANCE", "HEALTHY"} => state.open)
  BY SeenIs DEF Watch!Emits
<1> QED
  BY <1>1, <1>2

LEMMA ObserveSteps ==
  ASSUME WatchInv, Watch!Observe
  PROVE  WatchInv'
<1> USE DEF Watch!sqs
<1>1. \E c \in Watch!Conditions \cup {"MAINTENANCE"}, e \in BOOLEAN :
        /\ seen' = [n |-> seen.n + 1, condition |-> c, emit |-> e]
        /\ ~ e /\ c \notin {"MAINTENANCE", "HEALTHY"} => state.open
  <2>1. PICK check \in Watch!Checked, done \in Watch!JobStates, up \in BOOLEAN, reminder \in BOOLEAN :
          LET c == IF up THEN Watch!Health(check, done) ELSE "MAINTENANCE"
          IN  seen' = [n |-> seen.n + 1, condition |-> c, emit |-> Watch!Emits(c, reminder)]
    BY DEF Watch!Observe
  <2> QED
    BY <2>1, FoundIs DEF WatchInv
<1>2. /\ pc = "observe" /\ seen.n < MaxObservations /\ pc' \in {"save", "persist"}
      /\ pc' = "save" <=> seen'.condition = "MAINTENANCE"
      /\ UNCHANGED <<owner, state, pending, budget, enqueued, Watch!sqs, saved>>
  BY DEF Watch!Observe
<1>3. /\ seen'.n = seen.n + 1 /\ seen'.condition \in Watch!Conditions \cup {"MAINTENANCE"}
      /\ ~ seen'.emit /\ seen'.condition \notin {"MAINTENANCE", "HEALTHY"} => state.open
      /\ seen' \in [n : 0 .. MaxObservations, condition : Watch!Conditions \cup {"MAINTENANCE", None},
                    emit : BOOLEAN]
  <2>1. PICK c \in Watch!Conditions \cup {"MAINTENANCE"}, e \in BOOLEAN :
          /\ seen' = [n |-> seen.n + 1, condition |-> c, emit |-> e]
          /\ ~ e /\ c \notin {"MAINTENANCE", "HEALTHY"} => state.open
    BY <1>1
  <2>2. seen.n + 1 \in 0 .. MaxObservations
    BY <1>2, SeenIs, WatchConstants DEF WatchInv
  <2> QED
    BY <2>1, <2>2
<1>4. Watch!TypeOK'
  BY <1>2, <1>3 DEF WatchInv, Watch!TypeOK
<1>5. ActivationTells'
  BY <1>2, <1>3, SeenIs, WatchConstants DEF WatchInv, ActivationTells, Flushing
<1>6. NoticesTell'
  BY <1>2, <1>3, SeenIs DEF WatchInv, ActivationTells, NoticesTell, Watch!Accepts
<1>7. CallsTell'
  BY <1>2, <1>3, SeenIs DEF WatchInv, Watch!TypeOK, ActivationTells, CallsTell, Watch!Observations
<1> QED
  BY <1>4, <1>5, <1>6, <1>7 DEF WatchInv

LEMMA PersistSteps ==
  ASSUME WatchInv, Watch!Persist
  PROVE  WatchInv'
<1> USE DEF Watch!sqs
<1>1. /\ pc = "persist" /\ pc' = "save" /\ pending = None
      /\ pending' = [n |-> seen.n, attempts |-> 0, blocked |-> FALSE]
      /\ UNCHANGED <<owner, seen, state, budget, enqueued, Watch!sqs, saved>>
  BY DEF Watch!Persist, WatchInv, ActivationTells
<1>2. seen.n \in Watch!Observations /\ seen.n # 0 /\ seen.condition # "MAINTENANCE"
  BY <1>1, SeenIs, WatchConstants DEF WatchInv, ActivationTells, Watch!Observations
<1>3. pending' \in Watch!Pendings /\ pending' # None /\ pending'.n = seen.n /\ pending'.attempts = 0
  <2>1. 0 \in 0 .. Attempts
    BY WatchConstants
  <2>2. pending' \in Watch!Pendings
    BY <1>1, <1>2, <2>1 DEF Watch!Pendings
  <2>3. pending'.n = seen.n /\ pending'.attempts = 0
    BY <1>1
  <2> QED
    BY <2>2, <2>3, WatchConstants
<1>4. Watch!TypeOK'
  BY <1>1, <1>3 DEF WatchInv, Watch!TypeOK
<1>5. ActivationTells'
  BY <1>1, <1>2, <1>3 DEF WatchInv, ActivationTells, Flushing
<1>6. NoticesTell'
  BY <1>1, <1>3, SeenIs DEF WatchInv, NoticesTell, Watch!Accepts
<1>7. CallsTell'
  BY <1>1, <1>3, SeenIs DEF WatchInv, Watch!TypeOK, CallsTell
<1> QED
  BY <1>4, <1>5, <1>6, <1>7 DEF WatchInv

LEMMA SaveSteps ==
  ASSUME WatchInv, Watch!Save
  PROVE  WatchInv'
<1> USE DEF Watch!sqs, Watch!Release
<1>1. /\ pc = "save" /\ state' = Watch!Becomes(seen)
      /\ UNCHANGED <<seen, pending, budget, enqueued, Watch!sqs>>
  BY DEF Watch!Save
<1>2. CASE seen.condition = "MAINTENANCE"
  <2>1. state' = state /\ owner' = "free" /\ pc' = "idle" /\ saved' = saved
    BY <1>1, <1>2 DEF Watch!Save, Watch!Becomes
  <2>2. Watch!TypeOK'
    BY <1>1, <2>1 DEF WatchInv, Watch!TypeOK
  <2>3. ActivationTells' /\ NoticesTell' /\ CallsTell'
    BY <1>1, <2>1 DEF WatchInv, ActivationTells, Flushing, NoticesTell, Watch!Accepts, CallsTell
  <2> QED
    BY <2>2, <2>3 DEF WatchInv
<1>3. CASE seen.condition # "MAINTENANCE"
  <2>1. /\ pc' = "flush" /\ saved' = saved \cup {seen.n} /\ owner' = owner
        /\ pending # None /\ pending.n = seen.n
    BY <1>1, <1>3 DEF Watch!Save, WatchInv, ActivationTells
  <2>2. /\ seen.condition \in Watch!Conditions /\ seen.n \in Watch!Observations /\ seen.n \in Nat \ {0}
        /\ seen.n \in 0 .. MaxObservations
    BY <1>1, <1>3, <2>1, SeenIs, PendingIs DEF WatchInv, ActivationTells
  <2>3. /\ state'.condition = seen.condition /\ state'.open = (seen.condition # "HEALTHY")
        /\ state'.notice = IF seen.emit THEN seen.n ELSE state.notice
        /\ state' \in [condition : Watch!Conditions \cup {None}, open : BOOLEAN, notice : 0 .. MaxObservations]
    BY <1>1, <1>3, <2>2, SeenIs DEF Watch!Becomes, WatchInv
  <2>4. Watch!TypeOK'
    BY <1>1, <2>1, <2>2, <2>3 DEF WatchInv, Watch!TypeOK
  <2>5. ActivationTells'
    BY <1>1, <2>1 DEF WatchInv, ActivationTells, Flushing
  <2>6. NoticesTell'
    <3>1. state'.open => state'.notice \in saved' /\ state'.notice # 0
      <4>1. CASE seen.emit
        BY <2>1, <2>2, <2>3, <4>1
      <4>2. CASE ~ seen.emit /\ seen.condition # "HEALTHY"
        BY <1>1, <1>3, <2>1, <2>3, <4>2 DEF WatchInv, ActivationTells, NoticesTell, Watch!Accepts
      <4> QED
        BY <2>3, <4>1, <4>2
    <3>2. state'.notice <= seen.n
      BY <2>2, <2>3 DEF WatchInv, NoticesTell, Watch!Accepts
    <3>3. Watch!Accepts(state)'
      BY <1>1, <2>2, <2>3, <3>1, <3>2, WatchConstants DEF Watch!Accepts
    <3> QED
      BY <1>1, <2>1, <3>1, <3>3 DEF WatchInv, NoticesTell
  <2>7. CallsTell'
    BY <1>1, <2>1 DEF WatchInv, CallsTell
  <2> QED
    BY <2>4, <2>5, <2>6, <2>7 DEF WatchInv
<1> QED
  BY <1>2, <1>3

LEMMA CountedSteps ==
  ASSUME WatchInv, Watch!Attempt \/ Watch!Block
  PROVE  WatchInv'
<1> USE DEF Watch!sqs, Watch!Release
<1>1. /\ pending \in Watch!Pendings /\ pending # None
      /\ pending.n \in Watch!Observations /\ pending.n \in Nat \ {0}
      /\ pending.attempts \in 0 .. Attempts /\ pending.blocked \in BOOLEAN
  BY PendingIs DEF WatchInv, ActivationTells, Flushing, Watch!Attempt, Watch!Block
<1>2. /\ pending' \in Watch!Pendings /\ pending'.n = pending.n /\ pending' # None
      /\ pc = "attempt" => pending'.attempts = pending.attempts + 1
      /\ pc = "denied" => pending'.attempts = pending.attempts
  <2>1. pc = "attempt" => pending.attempts + 1 \in 0 .. Attempts
    BY <1>1, WatchConstants DEF WatchInv, ActivationTells
  <2> QED
    BY <1>1, <2>1, WatchConstants DEF Watch!Attempt, Watch!Block, Watch!Pendings
<1>3. Watch!TypeOK'
  BY <1>2 DEF WatchInv, Watch!TypeOK, Watch!Attempt, Watch!Block
<1>4. ActivationTells'
  BY <1>2 DEF WatchInv, ActivationTells, Flushing, Watch!Attempt, Watch!Block
<1>5. NoticesTell'
  BY <1>1, <1>2 DEF WatchInv, NoticesTell, Watch!Accepts, Watch!Attempt, Watch!Block
<1>6. CallsTell'
  BY <1>1, <1>2 DEF WatchInv, Watch!TypeOK, CallsTell, Watch!Attempt, Watch!Block
<1> QED
  BY <1>3, <1>4, <1>5, <1>6 DEF WatchInv

LEMMA SendSteps ==
  ASSUME WatchInv, Watch!Send
  PROVE  WatchInv'
<1> USE DEF Watch!Release, Watch!Unconfirmed
<1>1. /\ pc = "send" /\ pending # None /\ pending.n \in Watch!Observations /\ pending.n \in Nat \ {0}
      /\ pending.attempts \in 0 .. Attempts
  BY PendingIs DEF WatchInv, ActivationTells, Flushing, Watch!Send
<1>2. /\ calls' \in [Watch!Observations -> Nat] /\ calls'[pending.n] = calls[pending.n] + 1
      /\ \A n \in Watch!Observations \ {pending.n} : calls'[n] = calls[n]
      /\ UNCHANGED <<seen, state, pending, budget, enqueued, saved>> /\ made' \in Nat
  BY <1>1 DEF WatchInv, Watch!TypeOK, Watch!Send
<1>3. /\ queue \subseteq queue' /\ queue' \subseteq queue \cup {pending.n}
      /\ arriving' \subseteq arriving \cup {pending.n}
      /\ pc' \in {"idle", "accepted", "denied"} /\ (pc' = "accepted" => pending.n \in queue')
      /\ IF pc' = "idle" THEN owner' = "free" ELSE owner' = owner
  BY DEF Watch!Send
<1>4. Watch!TypeOK'
  BY <1>1, <1>2, <1>3 DEF WatchInv, Watch!TypeOK
<1>5. ActivationTells'
  BY <1>1, <1>2, <1>3 DEF WatchInv, ActivationTells, Flushing
<1>6. NoticesTell'
  BY <1>2, <1>3 DEF WatchInv, NoticesTell, Watch!Accepts
<1>7. CallsTell'
  <2> SUFFICES ASSUME NEW n \in Watch!Observations
               PROVE  /\ calls'[n] <= Attempts
                      /\ calls'[n] > 0 => n <= seen.n
                      /\ calls'[n] > 0 => n \in queue' \/ pending.n = n
                      /\ calls'[n] > 0 => n <= pending.n
                      /\ pending.n = n => calls'[n] <= pending.attempts
    BY <1>1, <1>2, <1>3 DEF CallsTell
  <2>1. n \in Nat /\ calls[n] \in Nat /\ pending.n <= seen.n /\ seen.n \in Nat
    BY <1>1, SeenIs DEF WatchInv, Watch!TypeOK, NoticesTell, Watch!Observations
  <2>2. CASE n = pending.n
    <3>1. calls[n] < pending.attempts
      BY <1>1, <2>2 DEF WatchInv, CallsTell
    <3> QED
      BY <1>1, <1>2, <2>1, <2>2, <3>1, WatchConstants
  <2>3. CASE n # pending.n
    <3>1. calls'[n] = calls[n]
      BY <1>2, <2>3
    <3>2. /\ calls[n] <= Attempts
          /\ calls[n] > 0 => n <= seen.n /\ n \in queue /\ n <= pending.n
      BY <1>1, <2>3 DEF WatchInv, CallsTell
    <3> QED
      BY <1>3, <2>3, <3>1, <3>2
  <2> QED
    BY <2>2, <2>3
<1> QED
  BY <1>4, <1>5, <1>6, <1>7 DEF WatchInv

LEMMA WatchKept == WatchInv /\ [Watch!Next]_(Watch!vars) => WatchInv'
<1> SUFFICES ASSUME WatchInv, [Watch!Next]_(Watch!vars) PROVE WatchInv'
  OBVIOUS
<1>1. CASE UNCHANGED Watch!vars
  <2> USE <1>1 DEF Watch!vars, Watch!sqs
  <2>1. Watch!TypeOK' /\ ActivationTells'
    BY DEF WatchInv, Watch!TypeOK, ActivationTells
  <2>2. NoticesTell' /\ CallsTell'
    BY DEF WatchInv, NoticesTell, Watch!Accepts, CallsTell
  <2> QED
    BY <2>1, <2>2 DEF WatchInv
<1> QED
  BY <1>1, PlaceSteps, ObserveSteps, PersistSteps, SaveSteps, CountedSteps, SendSteps DEF Watch!Next

\* A call is counted among all before it is made, and an activation that ends in
\* between only leaves the count too high.
LEMMA AllCallsKept == WatchInv /\ AllCallsTell /\ [Watch!Next]_(Watch!vars) => AllCallsTell'
<1> SUFFICES ASSUME WatchInv, AllCallsTell, [Watch!Next]_(Watch!vars) PROVE AllCallsTell'
  OBVIOUS
<1> USE DEF Watch!sqs, Watch!Release
<1>1. made \in Nat /\ budget \in Nat
  BY WatchConstants DEF WatchInv, Watch!TypeOK
<1>2. CASE UNCHANGED Watch!vars \/ Watch!Begin \/ Watch!Raises \/ Watch!Dies \/ Watch!Reconcile
             \/ Watch!Unlink \/ Watch!Note \/ Watch!Arrive \/ Watch!Observe \/ Watch!Persist
             \/ Watch!Save \/ Watch!Block
  <2>1. UNCHANGED <<made, budget>> /\ (pc' \in {"attempt", "send"} => pc' = pc)
    BY <1>2 DEF Watch!vars, Watch!Begin, Watch!First, Watch!Raises, Watch!Dies, Watch!Reconcile,
       Watch!Unlink, Watch!Note, Watch!Arrive, Watch!Observe, Watch!Persist, Watch!Save, Watch!Block
  <2> QED
    BY <2>1 DEF AllCallsTell
<1>3. CASE Watch!Count
  BY <1>1, <1>3 DEF AllCallsTell, Watch!Count
<1>4. CASE Watch!Attempt
  BY <1>4 DEF AllCallsTell, Watch!Attempt
<1>5. CASE Watch!Send
  <2>1. /\ pc = "send" /\ pc' \in {"idle", "accepted", "denied"} /\ made' = made + 1
        /\ UNCHANGED budget
    BY <1>5 DEF Watch!Send, Watch!Unconfirmed
  <2> QED
    BY <1>1, <2>1 DEF AllCallsTell
<1> QED
  BY <1>2, <1>3, <1>4, <1>5 DEF Watch!Next

LEMMA WatchInvAlways == Watch!Spec => [](WatchInv /\ AllCallsTell)
<1>1. Watch!Init => AllCallsTell
  BY DEF Watch!Init, AllCallsTell
<1> QED
  BY <1>1, WatchInit, WatchKept, AllCallsKept, PTL DEF Watch!Spec

\* No observation that the state accounts for is lost, and SQS is called for one at a
\* time, at most so often, for any conditions and limits, wherever an activation raises or
\* dies.
THEOREM AnnouncedAlways == Watch!Spec => []Announced
<1>1. WatchInv /\ AllCallsTell => Announced
  <2> SUFFICES ASSUME WatchInv, AllCallsTell PROVE Announced
    OBVIOUS
  <2>1. \A n \in Watch!Observations : calls[n] <= Attempts
    BY DEF WatchInv, CallsTell
  <2>2. made <= Total
    BY WatchConstants DEF WatchInv, Watch!TypeOK, AllCallsTell
  <2>3. ASSUME NEW m \in Watch!Observations, NEW n \in Watch!Observations, m < n, calls[m] > 0, calls[n] > 0
        PROVE  m \in queue
    <3>1. m \in queue \/ (pending # None /\ pending.n = m)
      BY <2>3 DEF WatchInv, CallsTell
    <3>2. pending # None => n <= pending.n
      BY <2>3 DEF WatchInv, CallsTell
    <3> QED
      BY <2>3, <3>1, <3>2, WatchConstants DEF Watch!Observations
  <2> QED
    BY <2>1, <2>2, <2>3 DEF Announced, Watch!Announced, WatchInv, NoticesTell
<1> QED
  BY <1>1, WatchInvAlways, PTL
-----------------------------------------------------------------------------
(* ColdRecovery *)

Actions == {"restore", "warm", "transition", "review", "connection"}
Markers == {"restore", "transition", "review", "connection"}

LEMMA RestoreSteps ==
  LET p == Cold!Programs["restore"]
  IN  /\ DOMAIN p = 1 .. 12 /\ p[1] = "staging" /\ p[2] = "fence" /\ p[3] = "verify" /\ p[4] = "query"
      /\ p[5] = "bind" /\ p[6] = "restore" /\ p[7] = "fence" /\ p[8] = "login" /\ p[9] = "fence"
      /\ p[10] = "probe" /\ p[11] = "fence" /\ p[12] = "receipt"
BY DEF Cold!Programs, Cold!Restore

LEMMA WarmSteps ==
  LET p == Cold!Programs["warm"]
  IN  /\ DOMAIN p = 1 .. 9 /\ p[1] = "staging" /\ p[2] = "quiescence" /\ p[3] = "verify" /\ p[4] = "query"
      /\ p[5] = "bind" /\ p[6] = "restore" /\ p[7] = "login" /\ p[8] = "probe" /\ p[9] = "receipt"
BY DEF Cold!Programs, Cold!Warm

LEMMA TransitionSteps ==
  LET p == Cold!Programs["transition"]
  IN  /\ DOMAIN p = 1 .. 26 /\ p[1] = "clean" /\ p[2] = "network" /\ p[3] = "verify" /\ p[4] = "query"
      /\ p[5] = "bind" /\ p[6] = "phase" /\ p[7] = "network" /\ p[8] = "phase" /\ p[9] = "stop"
      /\ p[10] = "stopped" /\ p[11] = "phase" /\ p[12] = "network" /\ p[13] = "phase" /\ p[14] = "conf"
      /\ p[15] = "stopped" /\ p[16] = "phase" /\ p[17] = "network" /\ p[18] = "phase" /\ p[19] = "start"
      /\ p[20] = "network" /\ p[21] = "verify" /\ p[22] = "query" /\ p[23] = "bind" /\ p[24] = "network"
      /\ p[25] = "phase" /\ p[26] = "receipt"
BY DEF Cold!Programs, Cold!Transition

LEMMA ReviewSteps ==
  LET p == Cold!Programs["review"]
  IN  /\ DOMAIN p = 1 .. 7 /\ p[1] = "history" /\ p[2] = "network" /\ p[3] = "verify" /\ p[4] = "query"
      /\ p[5] = "bind" /\ p[6] = "network" /\ p[7] = "receipt"
BY DEF Cold!Programs, Cold!Review

LEMMA ConnectionSteps ==
  LET p == Cold!Programs["connection"]
  IN  /\ DOMAIN p = 1 .. 14 /\ p[1] = "network" /\ p[2] = "verify" /\ p[3] = "query" /\ p[4] = "bind"
      /\ p[5] = "network" /\ p[6] = "describe" /\ p[7] = "put" /\ p[8] = "described" /\ p[9] = "network"
      /\ p[10] = "verify" /\ p[11] = "query" /\ p[12] = "bind" /\ p[13] = "network" /\ p[14] = "receipt"
BY DEF Cold!Programs, Cold!Connection

\* The steps by which the programs differ, and the order of those of a runtime check.
LEMMA StepsAre ==
  ASSUME NEW do \in Actions, NEW at \in DOMAIN Cold!Programs[do]
  PROVE  LET at_(n) == Cold!Programs[do][n]
         IN  /\ at \in Nat \ {0} /\ 1 \in DOMAIN Cold!Programs[do] /\ at_(1) \notin {"query", "bind"}
             /\ at_(at) # "receipt" => at + 1 \in DOMAIN Cold!Programs[do]
             /\ at_(at) = "receipt" /\ do = "restore" => at = 12
             /\ at_(at) = "probe" => <<do, at>> \in {<<"restore", 10>>, <<"warm", 8>>}
             /\ at_(at) = "put" => do = "connection" /\ at = 7
             /\ at_(at) = "stop" => do = "transition" /\ at = 9
             /\ at_(at) = "conf" => do = "transition" /\ at = 14
             /\ at_(at) = "phase" => do = "transition" /\ at \in {6, 8, 11, 13, 16, 18, 25}
             /\ do = "transition" /\ at \in {6, 8, 11, 13, 16, 18, 25} => at_(at) = "phase"
             /\ do = "transition" /\ at = 1 => at_(at) = "clean"
             /\ do = "restore" /\ at = 2 => at_(at) = "fence"
             /\ do = "restore" /\ at = 10 => at_(at) = "probe"
             /\ do # "connection" /\ at = 3 => at_(at) = "verify"
             /\ do = "connection" /\ at = 2 => at_(at) = "verify"
             /\ at_(at) \in {"query", "bind", "stop"} => at > 3 \/ (do = "connection" /\ at > 2)
             /\ at + 1 \in DOMAIN Cold!Programs[do] /\ at_(at + 1) = "query" => at_(at) = "verify"
             /\ at + 1 \in DOMAIN Cold!Programs[do] /\ at_(at + 1) = "bind" => at_(at) = "query"
<1>1. CASE do = "restore"
  BY <1>1, RestoreSteps
<1>2. CASE do = "warm"
  BY <1>2, WarmSteps
<1>3. CASE do = "transition"
  BY <1>3, TransitionSteps
<1>4. CASE do = "review"
  BY <1>4, ReviewSteps
<1>5. CASE do = "connection"
  BY <1>5, ConnectionSteps
<1> QED
  BY <1>1, <1>2, <1>3, <1>4, <1>5 DEF Actions

\* How many phases of a transition are recorded before its step n.
PhasesAt(n) ==
  IF n <= 6 THEN 0 ELSE IF n <= 8 THEN 1 ELSE IF n <= 11 THEN 2 ELSE IF n <= 13 THEN 3
  ELSE IF n <= 16 THEN 4 ELSE IF n <= 18 THEN 5 ELSE IF n <= 25 THEN 6 ELSE 7

Gone  == source.state = "terminated"
Ready == boot = 6

ColdTyped ==
  /\ Cold!TypeOK
  /\ started \in [Directories -> SUBSET Markers] /\ receipts \in [Directories -> SUBSET Actions]
  /\ phases \in [Directories -> 0 .. 7]
  /\ proc \in [Directories -> {Nobody} \cup [do : Actions, at : Nat]]
  /\ witnessed \in [Directories -> [pid : Pids \cup {0}, start : 0 .. MaxStarts, time : Nat,
                                    answered : 0 .. MaxStarts]]

\* The target: what is down or moved has phases that tell, and the API needs its database.
TargetTells ==
  /\ boot \in {4, 5, 6} => sql.up \/ \E d \in Directories : phases[d] >= 2
  /\ conf.address = "private" => \E d \in Directories : phases[d] >= 4
  /\ "probe" \in contents => {"database", "login"} \subseteq contents
  /\ served # "none" => "probe" \in contents
  /\ served = "restore" => Gone

\* A receipt of a restore, and the version of the secret that follows it.
ReceiptsTell ==
  /\ Cold!Planned => Gone /\ served = "restore"
  /\ "recovery" \in stages \/ putting => Cold!Planned /\ Ready /\ conf.address = "private"

\* What the place of a process says.
StepTells(d) ==
  LET do == proc[d].do
      at == proc[d].at
  IN  proc[d] # Nobody =>
        /\ do = "restore" /\ at > 2 => Gone
        /\ do = "restore" /\ at > 10 => served = "restore"
        /\ do \in {"transition", "review", "connection"} => Cold!Planned
        /\ at > 3 => Ready
        /\ do = "connection" /\ at > 2 => Ready /\ conf.address = "private"
        /\ do = "transition" /\ at > 1 => phases[d] = PhasesAt(at)

\* What a runtime check has seen, while it is under way.
SeenTells(d) ==
  Cold!Runs(d, "query") \/ Cold!Runs(d, "bind") =>
    /\ witnessed[d].start <= sql.start
    /\ witnessed[d].start = sql.start => sql.address = Cold!Expected(d)
    /\ witnessed[d].time <= conf.time
    /\ witnessed[d].time = conf.time => conf.address = Cold!Expected(d)
    /\ witnessed[d].answered # 0 =>
         witnessed[d].start <= witnessed[d].answered /\ witnessed[d].answered <= sql.start

ColdInv ==
  /\ ColdTyped /\ TargetTells /\ ReceiptsTell
  /\ \A d \in Directories : StepTells(d) /\ SeenTells(d)

LEMMA ColdConstants ==
  /\ Nobody # "private" /\ MaxStarts \in Nat \ {0} /\ Pids \subseteq Nat \ {0}
  /\ DOMAIN Offers = Directories /\ \A d \in Directories : Offers[d] \subseteq Actions
BY ColdHolds DEF Cold!ColdAssumption, Actions

LEMMA ActionsAre ==
  /\ DOMAIN Cold!Programs = Actions
  /\ {Cold!Marker(do) : do \in DOMAIN Cold!Programs} = Markers
<1>1. DOMAIN Cold!Programs = Actions
  BY DEF Cold!Programs, Actions
<1>2. \A do \in Actions : Cold!Marker(do) \in Markers
  BY DEF Cold!Marker, Actions, Markers
<1>3. \A m \in Markers : m \in Actions /\ Cold!Marker(m) = m
  BY DEF Cold!Marker, Actions, Markers
<1> QED
  BY <1>1, <1>2, <1>3

LEMMA ReadyIs == Cold!Ready <=> boot = 6
BY DEF Cold!Ready, Cold!Stages

LEMMA ColdInit == Cold!Init => ColdInv
<1> SUFFICES ASSUME Cold!Init PROVE ColdInv
  OBVIOUS
<1>1. /\ started \in [Directories -> SUBSET Markers] /\ receipts \in [Directories -> SUBSET Actions]
      /\ \A d \in Directories : started[d] = {} /\ receipts[d] = {}
  BY DEF Cold!Init
<1>2. /\ phases \in [Directories -> 0 .. 7]
      /\ proc \in [Directories -> {Nobody} \cup [do : Actions, at : Nat]]
      /\ \A d \in Directories : proc[d] = Nobody
  BY DEF Cold!Init
<1>3. witnessed \in [Directories -> [pid : Pids \cup {0}, start : 0 .. MaxStarts, time : Nat,
                                    answered : 0 .. MaxStarts]]
  BY ColdConstants DEF Cold!Init, Cold!Unseen
<1>4. Cold!TypeOK
  <2>1. boot \in 0 .. Cold!Failed
    BY DEF Cold!Init, Cold!Failed, Cold!Stages
  <2>2. sql \in [up : BOOLEAN, pid : Pids \cup {0}, start : 0 .. MaxStarts,
                 address : {Nobody, "loopback", "private"}]
    BY ColdConstants DEF Cold!Init
  <2>3. source \in [state : {"running", "stopped", "terminated"}, recorded : BOOLEAN, quiesced : BOOLEAN]
    BY DEF Cold!Init
  <2>4. /\ target \in [launched : {"none", "prepared", "fresh"}, network : BOOLEAN]
        /\ conf \in [address : {Nobody, "loopback", "private"}, time : Nat]
    BY DEF Cold!Init
  <2> QED
    BY <1>1, <1>2, <1>3, <2>1, <2>2, <2>3, <2>4 DEF Cold!Init, Cold!TypeOK
<1>5. TargetTells
  BY ColdConstants DEF Cold!Init, TargetTells
<1>6. ReceiptsTell
  BY <1>1 DEF Cold!Init, ReceiptsTell, Cold!Planned
<1>7. \A d \in Directories : StepTells(d) /\ SeenTells(d)
  BY <1>2 DEF StepTells, SeenTells, Cold!Runs
<1> QED
  BY <1>1, <1>2, <1>3, <1>4, <1>5, <1>6, <1>7 DEF ColdInv, ColdTyped

\* What no step takes back.
Grows ==
  /\ Gone => source'.state = "terminated"
  /\ contents \subseteq contents' /\ stages \subseteq stages'
  /\ served = "restore" => served' = "restore"
  /\ Ready => boot' = 6
  /\ \A d \in Directories : receipts[d] \subseteq receipts'[d] /\ phases[d] <= phases'[d]
  /\ sql'.start \in Nat /\ conf'.time \in Nat
  /\ sql.start <= sql'.start /\ (sql'.start = sql.start => sql'.address = sql.address)
  /\ Ready => /\ conf.time <= conf'.time /\ (conf'.time = conf.time => conf'.address = conf.address)
              /\ conf.address = "private" => conf'.address = "private"

\* A process that goes on to its next step.
Advances(d) ==
  LET do == proc[d].do
      at == proc[d].at
      s  == Cold!Programs[do][at]
  IN  /\ proc[d] # Nobody /\ s # "receipt" /\ proc'[d] = [do |-> do, at |-> at + 1]
      /\ phases'[d] = IF s = "phase" THEN phases[d] + 1 ELSE phases[d]
      /\ s = "clean" => phases[d] = 0
      /\ s = "fence" => Gone
      /\ s = "probe" => served' = do
      /\ s = "verify" =>
           /\ Ready /\ Cold!Listens(d) /\ UNCHANGED <<sql, conf>>
           /\ witnessed'[d] = [pid |-> sql.pid, start |-> sql.start, time |-> conf.time, answered |-> 0]
      /\ s = "query" =>
           UNCHANGED <<sql, conf>> /\ witnessed'[d] = [witnessed[d] EXCEPT !.answered = sql.start]

Moves(d) ==
  \/ proc'[d] = Nobody
  \/ UNCHANGED <<proc[d], phases[d], witnessed[d]>>
  \/ \E do \in Actions :
       /\ proc'[d] = [do |-> do, at |-> 1]
       /\ do \in {"transition", "review", "connection"} => Cold!Planned
  \/ Advances(d)

\* Steps of none of the processes.
Outside == Cold!Source \/ Cold!Quiesce \/ Cold!SourceChanges \/ Cold!Launch \/ Cold!RunStage \/ Cold!StageFails
           \/ Cold!Restart \/ Cold!Land \/ Cold!NetworkChanges

\* What ColdTyped says of a process and of what it has seen.
LEMMA ProcIs ==
  ASSUME ColdInv, NEW d \in Directories, proc[d] # Nobody
  PROVE  /\ proc[d] \in [do : Actions, at : Nat] /\ proc[d].do \in Actions
         /\ proc[d].at \in DOMAIN Cold!Programs[proc[d].do]
BY DEF ColdInv, ColdTyped, Cold!TypeOK

LEMMA HostIs ==
  ASSUME ColdInv
  PROVE  /\ boot \in 0 .. 7 /\ Cold!Failed = 7
         /\ sql.start \in Nat /\ conf.time \in Nat /\ sql.up \in BOOLEAN
         /\ \A d \in Directories :
              /\ phases[d] \in 0 .. 7 /\ receipts[d] \subseteq Actions
              /\ witnessed[d].start \in Nat /\ witnessed[d].time \in Nat /\ witnessed[d].answered \in Nat
BY ColdConstants DEF ColdInv, ColdTyped, Cold!TypeOK, Cold!Failed, Cold!Stages

LEMMA Restarted ==
  ASSUME ColdInv, Cold!StartSql
  PROVE  /\ sql'.up /\ sql'.start = sql.start + 1 /\ sql'.address = conf'.address
         /\ sql'.pid \in Pids /\ sql.start + 1 \in 0 .. MaxStarts
         /\ sql' = [up |-> TRUE, pid |-> sql'.pid, start |-> sql.start + 1, address |-> conf'.address]
BY ColdConstants, HostIs DEF Cold!StartSql

LEMMA OutsideGrows ==
  ASSUME ColdInv, Outside
  PROVE  Grows /\ \A d \in Directories : Moves(d)
<1> USE DEF Cold!host, Cold!files, Cold!cloud
<1>1. CASE Cold!Source \/ Cold!Quiesce \/ Cold!SourceChanges \/ Cold!Launch \/ Cold!StageFails \/ Cold!Land
           \/ Cold!NetworkChanges
  <2>1. /\ UNCHANGED <<sql, conf, contents, served, receipts, phases, proc, witnessed>>
        /\ Gone => source'.state = "terminated"
        /\ stages \subseteq stages' /\ (Ready => boot' = 6)
    BY <1>1, HostIs DEF Cold!Source, Cold!Quiesce, Cold!SourceChanges, Cold!Launch, Cold!StageFails,
       Cold!Land, Cold!NetworkChanges, Gone, Ready, Cold!Stages
  <2> QED
    BY <2>1, HostIs DEF Grows, Moves
<1>2. CASE Cold!RunStage
  <2>1. /\ UNCHANGED <<source, contents, served, receipts, phases, proc, witnessed, stages>> /\ ~ Ready
        /\ UNCHANGED sql \/ Cold!StartSql
        /\ conf' = conf \/ conf'.time = 1
    BY <1>2, HostIs DEF Cold!RunStage, Cold!Stages, Cold!SetupSql, Ready
  <2> QED
    BY <2>1, HostIs, Restarted DEF Grows, Moves, Gone, Ready
<1>3. CASE Cold!Restart
  <2>1. /\ UNCHANGED <<source, conf, contents, served, receipts, phases, stages>> /\ Cold!StartSql
        /\ Ready => boot' = 6
        /\ \/ UNCHANGED <<proc, witnessed>>
           \/ \A d \in Directories : proc'[d] = Nobody
    BY <1>3, ReadyIs DEF Cold!Restart, Ready
  <2> QED
    BY <2>1, HostIs, Restarted DEF Grows, Moves, Gone
<1> QED
  BY <1>1, <1>2, <1>3 DEF Outside

LEMMA Advanced ==
  ASSUME ColdInv, NEW d \in Directories, proc[d] # Nobody, Cold!Advance(d)
  PROVE  /\ proc' \in [Directories -> {Nobody} \cup [do : Actions, at : Nat]]
         /\ proc'[d] = [do |-> proc[d].do, at |-> proc[d].at + 1]
         /\ \A e \in Directories \ {d} : proc'[e] = proc[e]
<1>1. proc[d] \in [do : Actions, at : Nat]
  BY ProcIs
<1> QED
  BY <1>1 DEF ColdInv, ColdTyped, Cold!Advance

\* Steps that leave the host, the files and the cloud alone.
Looks(d) == Cold!Verify(d) \/ Cold!Query(d) \/ Cold!Bind(d) \/ Cold!Reads(d)

\* Steps that change the host.
Changes(d) == Cold!CreateStaging(d) \/ Cold!RestoreDatabase(d) \/ Cold!Principals(d) \/ Cold!Probe(d)
              \/ Cold!Stop(d) \/ Cold!Configure(d) \/ Cold!Start(d)

\* What begins or ends a process.
Ends(d) == Cold!Receipt(d) \/ Cold!Ends(d) \/ \E do \in DOMAIN Cold!Programs : Cold!Begin(d, do)

LEMMA EndsMove ==
  ASSUME ColdInv, NEW d \in Directories, Ends(d)
  PROVE  Grows /\ \A e \in Directories : Moves(e)
<1> USE DEF Cold!host, Cold!files, Cold!cloud
<1>1. /\ UNCHANGED <<source, boot, sql, conf, contents, served, phases, stages>>
      /\ \A e \in Directories : receipts[e] \subseteq receipts'[e]
      /\ \A e \in Directories \ {d} : UNCHANGED <<proc[e], witnessed[e]>>
  BY DEF Ends, Cold!Receipt, Cold!Ends, Cold!Begin, ColdInv, ColdTyped
<1>2. Moves(d)
  <2>1. CASE Cold!Receipt(d) \/ Cold!Ends(d)
    <3>1. proc'[d] = Nobody
      BY <2>1 DEF Cold!Receipt, Cold!Ends, ColdInv, ColdTyped
    <3> QED
      BY <3>1 DEF Moves
  <2>2. ASSUME NEW do \in Actions, Cold!Begin(d, do) PROVE Moves(d)
    <3>1. /\ proc'[d] = [do |-> do, at |-> 1]
          /\ do \in {"transition", "review", "connection"} => Cold!Planned
      BY <2>2 DEF Cold!Begin, ColdInv, ColdTyped
    <3> QED
      BY <3>1 DEF Moves
  <2> QED
    BY <2>1, <2>2, ActionsAre DEF Ends
<1>3. \A e \in Directories \ {d} : Moves(e)
  BY <1>1 DEF Moves
<1> QED
  BY <1>1, <1>2, <1>3, HostIs DEF Grows, Gone, Ready

LEMMA ReadsIs ==
  ASSUME NEW d \in Directories, Cold!Reads(d)
  PROVE  LET s == Cold!Programs[proc[d].do][proc[d].at]
         IN  /\ proc[d] # Nobody
             /\ s \in {"fence", "quiescence", "network", "clean", "history", "stopped", "describe", "described"}
             /\ (s = "clean" => phases[d] = 0) /\ (s = "fence" => Gone)
BY DEF Cold!Reads, Cold!Finds, Cold!Confirmed, Gone

LEMMA LooksMove ==
  ASSUME ColdInv, NEW d \in Directories, Looks(d)
  PROVE  Grows /\ \A e \in Directories : Moves(e)
<1> USE DEF Cold!host, Cold!files, Cold!cloud
<1>1. /\ proc[d] # Nobody /\ Cold!Advance(d)
      /\ UNCHANGED <<source, boot, sql, conf, contents, served, receipts, phases, stages>>
      /\ \A e \in Directories \ {d} : UNCHANGED witnessed[e]
  BY DEF Looks, Cold!Verify, Cold!Query, Cold!Bind, Cold!Reads, Cold!Runs, ColdInv, ColdTyped
<1>2. Advances(d)
  <2> DEFINE s == Cold!Programs[proc[d].do][proc[d].at]
  <2>1. proc'[d] = [do |-> proc[d].do, at |-> proc[d].at + 1]
    BY <1>1, Advanced
  <2>2. /\ s \notin {"receipt", "phase", "probe"} /\ (s = "clean" => phases[d] = 0) /\ (s = "fence" => Gone)
    BY ReadsIs DEF Looks, Cold!Verify, Cold!Query, Cold!Bind, Cold!Runs
  <2>3. s = "verify" =>
           /\ Ready /\ Cold!Listens(d)
           /\ witnessed'[d] = [pid |-> sql.pid, start |-> sql.start, time |-> conf.time, answered |-> 0]
    BY ReadyIs, ReadsIs DEF Looks, Cold!Verify, Cold!Query, Cold!Bind, Cold!Runs, Ready, ColdInv, ColdTyped
  <2>4. s = "query" => witnessed'[d] = [witnessed[d] EXCEPT !.answered = sql.start]
    BY ReadsIs DEF Looks, Cold!Verify, Cold!Query, Cold!Bind, Cold!Runs, ColdInv, ColdTyped
  <2> QED
    BY <1>1, <2>1, <2>2, <2>3, <2>4 DEF Advances
<1>3. \A e \in Directories \ {d} : Moves(e)
  BY <1>1, Advanced DEF Moves
<1> QED
  BY <1>1, <1>2, <1>3, HostIs DEF Grows, Gone, Ready, Moves

LEMMA ChangesMove ==
  ASSUME ColdInv, NEW d \in Directories, Changes(d)
  PROVE  Grows /\ \A e \in Directories : Moves(e)
<1> USE DEF Cold!host, Cold!files, Cold!cloud
<1>1. /\ proc[d] # Nobody /\ Cold!Advance(d)
      /\ UNCHANGED <<source, boot, receipts, phases, stages, witnessed>> /\ contents \subseteq contents'
  BY DEF Changes, Cold!CreateStaging, Cold!RestoreDatabase, Cold!Principals, Cold!Probe, Cold!Stop,
     Cold!Configure, Cold!Start, Cold!Runs
<1>2. Advances(d)
  <2> DEFINE s == Cold!Programs[proc[d].do][proc[d].at]
  <2>1. proc'[d] = [do |-> proc[d].do, at |-> proc[d].at + 1]
    BY <1>1, Advanced
  <2>2. /\ s \notin {"receipt", "phase", "clean", "fence", "verify", "query"}
        /\ s = "probe" => served' = proc[d].do
    BY DEF Changes, Cold!CreateStaging, Cold!RestoreDatabase, Cold!Principals, Cold!Probe, Cold!Stop,
       Cold!Configure, Cold!Start, Cold!Runs
  <2> QED
    BY <1>1, <2>1, <2>2 DEF Advances
<1>3. \A e \in Directories \ {d} : Moves(e)
  BY <1>1, Advanced DEF Moves
<1>4. served = "restore" => served' = "restore"
  BY DEF Changes, Cold!CreateStaging, Cold!RestoreDatabase, Cold!Principals, Cold!Probe, Cold!Stop,
     Cold!Configure, Cold!Start, ColdInv, TargetTells
<1>5. /\ sql.start <= sql'.start /\ (sql'.start = sql.start => sql'.address = sql.address)
      /\ sql'.start \in Nat /\ conf'.time \in Nat
      /\ conf.time <= conf'.time /\ (conf'.time = conf.time => conf'.address = conf.address)
      /\ conf.address = "private" => conf'.address = "private"
  <2>1. CASE Cold!CreateStaging(d) \/ Cold!RestoreDatabase(d) \/ Cold!Principals(d) \/ Cold!Probe(d)
    BY <2>1, HostIs DEF Cold!CreateStaging, Cold!RestoreDatabase, Cold!Principals, Cold!Probe
  <2>2. CASE Cold!Stop(d)
    <3>1. UNCHANGED conf /\ sql' = [sql EXCEPT !.up = FALSE] /\ sql'.start = sql.start /\ sql'.address = sql.address
      BY <2>2 DEF Cold!Stop, ColdInv, ColdTyped, Cold!TypeOK
    <3> QED
      BY <3>1, HostIs
  <2>3. CASE Cold!Configure(d)
    <3>1. UNCHANGED sql /\ conf'.address = "private" /\ conf'.time = conf.time + 1
      BY <2>3 DEF Cold!Configure
    <3> QED
      BY <3>1, HostIs
  <2>4. CASE Cold!Start(d)
    BY <2>4, HostIs, Restarted DEF Cold!Start
  <2> QED
    BY <2>1, <2>2, <2>3, <2>4 DEF Changes
<1> QED
  BY <1>1, <1>2, <1>3, <1>4, <1>5, HostIs DEF Grows, Gone, Ready, Moves

LEMMA RecordsMove ==
  ASSUME ColdInv, NEW d \in Directories, Cold!Phase(d) \/ Cold!PutConnectionVersion(d)
  PROVE  Grows /\ \A e \in Directories : Moves(e)
<1> USE DEF Cold!host, Cold!files, Cold!cloud
<1>1. /\ proc[d] # Nobody
      /\ UNCHANGED <<source, boot, sql, conf, contents, served, receipts, witnessed>> /\ stages \subseteq stages'
  BY DEF Cold!Phase, Cold!PutConnectionVersion, Cold!Runs
<1>2. CASE Cold!Phase(d)
  <2>1. /\ Cold!Runs(d, "phase") /\ Cold!Advance(d) /\ phases'[d] = phases[d] + 1
        /\ \A e \in Directories \ {d} : phases'[e] = phases[e]
    BY <1>2 DEF Cold!Phase, ColdInv, ColdTyped
  <2>2. Advances(d)
    BY <1>1, <2>1, Advanced DEF Advances, Cold!Runs
  <2>3. \A e \in Directories \ {d} : Moves(e)
    BY <1>1, <2>1, Advanced DEF Moves
  <2> QED
    BY <1>1, <2>1, <2>2, <2>3, HostIs DEF Grows, Gone, Ready, Moves
<1>3. CASE Cold!PutConnectionVersion(d)
  <2>1. UNCHANGED phases /\ Cold!Runs(d, "put")
    BY <1>3 DEF Cold!PutConnectionVersion
  <2>2. Moves(d)
    <3>1. CASE Cold!Advance(d)
      BY <1>1, <2>1, <3>1, Advanced DEF Moves, Advances, Cold!Runs
    <3>2. CASE proc' = [proc EXCEPT ![d] = Nobody]
      <4>1. proc'[d] = Nobody
        BY <3>2 DEF ColdInv, ColdTyped
      <4> QED
        BY <4>1 DEF Moves
    <3> QED
      BY <1>3, <3>1, <3>2 DEF Cold!PutConnectionVersion
  <2>3. ASSUME NEW e \in Directories \ {d} PROVE Moves(e)
    <3>1. proc'[e] = proc[e]
      BY <1>1, <1>3, Advanced DEF Cold!PutConnectionVersion, ColdInv, ColdTyped
    <3> QED
      BY <1>1, <2>1, <3>1 DEF Moves
  <2> QED
    BY <1>1, <2>1, <2>2, <2>3, HostIs DEF Grows, Gone, Ready
<1> QED
  BY <1>2, <1>3

LEMMA Movement ==
  ASSUME ColdInv, Cold!Next
  PROVE  Grows /\ \A d \in Directories : Moves(d)
<1>1. ASSUME NEW d \in Directories, Cold!Process(d)
      PROVE  Looks(d) \/ Changes(d) \/ Ends(d) \/ Cold!Phase(d) \/ Cold!PutConnectionVersion(d)
  BY <1>1 DEF Cold!Process, Looks, Changes, Ends
<1> QED
  BY <1>1, OutsideGrows, EndsMove, LooksMove, ChangesMove, RecordsMove DEF Cold!Next, Outside

LEMMA StepsKept ==
  ASSUME ColdInv, Grows, NEW d \in Directories, Moves(d),
         Cold!Planned => Cold!Planned'
  PROVE  StepTells(d)'
<1>1. CASE proc'[d] = Nobody
  BY <1>1 DEF StepTells
<1>2. CASE UNCHANGED <<proc[d], phases[d], witnessed[d]>>
  BY <1>2 DEF ColdInv, StepTells, Grows, Gone, Ready
<1>3. ASSUME NEW do \in Actions, proc'[d] = [do |-> do, at |-> 1],
             do \in {"transition", "review", "connection"} => Cold!Planned
      PROVE  StepTells(d)'
  BY <1>3 DEF StepTells
<1>4. CASE Advances(d)
  <2> DEFINE do == proc[d].do
             at == proc[d].at
             s  == Cold!Programs[do][at]
  <2>1. /\ proc[d] # Nobody /\ do \in Actions /\ at \in DOMAIN Cold!Programs[do] /\ at \in Nat \ {0}
        /\ proc'[d].do = do /\ proc'[d].at = at + 1
    BY <1>4, ProcIs, StepsAre DEF Advances
  <2>2. do = "restore" /\ at + 1 > 2 => source'.state = "terminated"
    BY <1>4, <2>1, StepsAre DEF Advances, ColdInv, StepTells, Grows, Gone
  <2>3. do = "restore" /\ at + 1 > 10 => served' = "restore"
    BY <1>4, <2>1, StepsAre DEF Advances, ColdInv, StepTells, Grows
  <2>4. at + 1 > 3 => boot' = 6
    BY <1>4, <2>1, StepsAre DEF Advances, ColdInv, StepTells, Grows, Ready
  <2>5. do = "connection" /\ at + 1 > 2 => boot' = 6 /\ conf'.address = "private"
    <3>1. CASE do = "connection" /\ at = 2
      <4>1. s = "verify"
        BY <2>1, <3>1, StepsAre
      <4>2. Ready /\ Cold!Listens(d) /\ Cold!Expected(d) = "private"
        BY <1>4, <3>1, <4>1 DEF Advances, Cold!Expected
      <4> QED
        BY <4>2 DEF Cold!Listens, Grows, Ready
    <3>2. CASE do = "connection" /\ at > 2
      BY <2>1, <3>2 DEF ColdInv, StepTells, Grows, Ready
    <3> QED
      BY <2>1, <3>1, <3>2
  <2>6. do = "transition" => phases'[d] = PhasesAt(at + 1)
    <3> SUFFICES ASSUME do = "transition" PROVE phases'[d] = PhasesAt(at + 1)
      OBVIOUS
    <3>1. s = "phase" <=> at \in {6, 8, 11, 13, 16, 18, 25}
      BY <2>1, StepsAre
    <3>2. phases[d] = PhasesAt(at)
      <4>1. CASE at = 1
        BY <1>4, <2>1, <4>1, StepsAre DEF Advances, PhasesAt
      <4>2. CASE at > 1
        BY <2>1, <4>2 DEF ColdInv, StepTells
      <4> QED
        BY <2>1, <4>1, <4>2
    <3>3. phases'[d] = IF s = "phase" THEN phases[d] + 1 ELSE phases[d]
      BY <1>4 DEF Advances
    <3>4. at \in 1 .. 26
      BY <2>1, TransitionSteps
    <3> QED
      BY <3>1, <3>2, <3>3, <3>4 DEF PhasesAt
  <2> QED
    BY <2>1, <2>2, <2>3, <2>4, <2>5, <2>6 DEF ColdInv, StepTells, Gone, Ready
<1> QED
  BY <1>1, <1>2, <1>3, <1>4 DEF Moves

\* A runtime check only goes on while the host is ready.
LEMMA ChecksAreReady ==
  ASSUME ColdInv, NEW d \in Directories, Cold!Runs(d, "query") \/ Cold!Runs(d, "bind")
  PROVE  Ready
<1>1. proc[d] # Nobody /\ Cold!Programs[proc[d].do][proc[d].at] \in {"query", "bind"}
  BY DEF Cold!Runs
<1>2. proc[d].at > 3 \/ (proc[d].do = "connection" /\ proc[d].at > 2)
  BY <1>1, ProcIs, StepsAre
<1> QED
  BY <1>1, <1>2 DEF ColdInv, StepTells

LEMMA SeenKept ==
  ASSUME ColdInv, Grows, NEW d \in Directories, Moves(d)
  PROVE  SeenTells(d)'
<1> SUFFICES ASSUME proc'[d] # Nobody, Cold!Programs[proc'[d].do][proc'[d].at] \in {"query", "bind"}
             PROVE  SeenTells(d)'
  BY DEF SeenTells, Cold!Runs
<1>1. /\ sql'.start \in Nat /\ conf'.time \in Nat /\ sql.start <= sql'.start
      /\ sql'.start = sql.start => sql'.address = sql.address
      /\ Ready => conf.time <= conf'.time /\ (conf'.time = conf.time => conf'.address = conf.address)
  BY DEF Grows
<1>2. CASE UNCHANGED <<proc[d], phases[d], witnessed[d]>>
  <2>1. Cold!Runs(d, "query") \/ Cold!Runs(d, "bind")
    BY <1>2 DEF Cold!Runs
  <2>2. Ready
    BY <2>1, ChecksAreReady
  <2>3. Cold!Expected(d)' = Cold!Expected(d)
    BY <1>2 DEF Cold!Expected
  <2>4. SeenTells(d)
    BY DEF ColdInv
  <2> QED
    BY <1>1, <1>2, <2>1, <2>2, <2>3, <2>4, HostIs DEF SeenTells
<1>3. ~ \E do \in Actions : proc'[d] = [do |-> do, at |-> 1]
  BY StepsAre, RestoreSteps, WarmSteps, TransitionSteps, ReviewSteps, ConnectionSteps DEF Actions
<1>4. CASE Advances(d)
  <2> DEFINE do == proc[d].do
             at == proc[d].at
             s  == Cold!Programs[do][at]
  <2>1. /\ proc[d] # Nobody /\ do \in Actions /\ at \in DOMAIN Cold!Programs[do] /\ at \in Nat \ {0}
        /\ proc'[d].do = do /\ proc'[d].at = at + 1 /\ s # "receipt"
    BY <1>4, ProcIs, StepsAre DEF Advances
  <2>2. at + 1 \in DOMAIN Cold!Programs[do] /\ s \in {"verify", "query"}
    BY <2>1, StepsAre
  <2>3. UNCHANGED <<sql, conf, phases[d]>>
    BY <1>4, <2>2 DEF Advances
  <2>4. Cold!Expected(d)' = Cold!Expected(d)
    BY <2>1, <2>3 DEF Cold!Expected
  <2>5. CASE s = "verify"
    <3>1. /\ Cold!Listens(d)
          /\ witnessed'[d].start = sql.start /\ witnessed'[d].time = conf.time /\ witnessed'[d].answered = 0
      BY <1>4, <2>5 DEF Advances
    <3> QED
      BY <2>3, <2>4, <3>1, HostIs DEF SeenTells, Cold!Listens
  <2>6. CASE s = "query"
    <3>1. /\ witnessed'[d].start = witnessed[d].start /\ witnessed'[d].time = witnessed[d].time
          /\ witnessed'[d].answered = sql.start
      BY <1>4, <2>6 DEF Advances, ColdInv, ColdTyped
    <3>2. Cold!Runs(d, "query") /\ SeenTells(d)
      BY <2>1, <2>6 DEF Cold!Runs, ColdInv
    <3> QED
      BY <2>3, <2>4, <3>1, <3>2, HostIs DEF SeenTells
  <2> QED
    BY <2>2, <2>5, <2>6
<1> QED
  BY <1>2, <1>3, <1>4 DEF Moves

HostTyped ==
  /\ source \in [state : {"running", "stopped", "terminated"}, recorded : BOOLEAN, quiesced : BOOLEAN]
  /\ target \in [launched : {"none", "prepared", "fresh"}, network : BOOLEAN]
  /\ boot \in 0 .. 7
  /\ sql \in [up : BOOLEAN, pid : Pids \cup {0}, start : 0 .. MaxStarts,
              address : {Nobody, "loopback", "private"}]
  /\ conf \in [address : {Nobody, "loopback", "private"}, time : Nat]
  /\ contents \subseteq {"staging", "database", "login", "probe"}
  /\ served \in {"none", "restore", "warm"}
  /\ stages \subseteq {"current", "recovery"} /\ putting \in BOOLEAN

FilesTyped ==
  /\ started \in [Directories -> SUBSET Markers] /\ receipts \in [Directories -> SUBSET Actions]
  /\ phases \in [Directories -> 0 .. 7]
  /\ proc \in [Directories -> {Nobody} \cup [do : Actions, at : Nat]]
  /\ \A d \in Directories : proc[d] # Nobody => proc[d].at \in DOMAIN Cold!Programs[proc[d].do]
  /\ witnessed \in [Directories -> [pid : Pids \cup {0}, start : 0 .. MaxStarts, time : Nat,
                                    answered : 0 .. MaxStarts]]

LEMMA TypedIs == ColdTyped <=> HostTyped /\ FilesTyped
<1>1. {Cold!Marker(do) : do \in DOMAIN Cold!Programs} = Markers /\ DOMAIN Cold!Programs = Actions
  BY ActionsAre
<1>2. Cold!Failed = 7
  BY DEF Cold!Failed, Cold!Stages
<1>3. ASSUME HostTyped, FilesTyped PROVE Cold!TypeOK
  <2>1. \A d \in Directories : started[d] \subseteq Markers /\ receipts[d] \subseteq Actions
    BY <1>3 DEF FilesTyped
  <2> QED
    BY <1>1, <1>2, <1>3, <2>1 DEF HostTyped, FilesTyped, Cold!TypeOK
<1> QED
  BY <1>2, <1>3 DEF ColdTyped, HostTyped, FilesTyped, Cold!TypeOK

LEMMA TypedHost ==
  ASSUME ColdInv, Cold!Next
  PROVE  HostTyped'
<1> USE DEF Cold!host, Cold!files, Cold!cloud
<1>0. HostTyped
  BY TypedIs DEF ColdInv
<1>1. CASE Outside
  <2>1. source' \in [state : {"running", "stopped", "terminated"}, recorded : BOOLEAN, quiesced : BOOLEAN]
    BY <1>0, <1>1 DEF HostTyped, Outside, Cold!Source, Cold!Quiesce, Cold!SourceChanges, Cold!Launch,
       Cold!RunStage, Cold!StageFails, Cold!Restart, Cold!Land, Cold!NetworkChanges
  <2>2. target' \in [launched : {"none", "prepared", "fresh"}, network : BOOLEAN]
    BY <1>0, <1>1 DEF HostTyped, Outside, Cold!Source, Cold!Quiesce, Cold!SourceChanges, Cold!Launch,
       Cold!RunStage, Cold!StageFails, Cold!Restart, Cold!Land, Cold!NetworkChanges
  <2>3. /\ UNCHANGED <<contents, served>> /\ stages' \subseteq stages \cup {"recovery"} /\ putting' \in BOOLEAN
    BY <1>0, <1>1 DEF HostTyped, Outside, Cold!Source, Cold!Quiesce, Cold!SourceChanges, Cold!Launch,
       Cold!RunStage, Cold!StageFails, Cold!Restart, Cold!Land, Cold!NetworkChanges
  <2>4. boot' \in 0 .. 7
    BY <1>0, <1>1 DEF HostTyped, Outside, Cold!Source, Cold!Quiesce, Cold!SourceChanges, Cold!Launch,
       Cold!RunStage, Cold!StageFails, Cold!Restart, Cold!Land, Cold!NetworkChanges, Cold!Stages, Cold!Failed
  <2>5. /\ conf' = conf \/ conf' = [address |-> "loopback", time |-> 1]
        /\ UNCHANGED sql \/ Cold!StartSql
    <3>1. CASE Cold!RunStage
      BY <3>1 DEF Cold!RunStage, Cold!SetupSql, Cold!Stages
    <3>2. CASE ~ Cold!RunStage
      BY <1>1, <3>2 DEF Outside, Cold!Source, Cold!Quiesce, Cold!SourceChanges, Cold!Launch,
         Cold!StageFails, Cold!Restart, Cold!Land, Cold!NetworkChanges
    <3> QED
      BY <3>1, <3>2
  <2>6. conf' \in [address : {Nobody, "loopback", "private"}, time : Nat]
    BY <1>0, <2>5 DEF HostTyped
  <2>7. sql' \in [up : BOOLEAN, pid : Pids \cup {0}, start : 0 .. MaxStarts,
                  address : {Nobody, "loopback", "private"}]
    BY <1>0, <2>5, <2>6, Restarted DEF HostTyped
  <2> QED
    BY <1>0, <2>1, <2>2, <2>3, <2>4, <2>6, <2>7 DEF HostTyped
<1>2. ASSUME NEW d \in Directories, Changes(d) PROVE HostTyped'
  <2>1. /\ UNCHANGED <<source, target, boot, stages, putting>>
        /\ contents' \subseteq contents \cup {"staging", "database", "login", "probe"}
    BY <1>2 DEF Changes, Cold!CreateStaging, Cold!RestoreDatabase, Cold!Principals, Cold!Probe, Cold!Stop,
       Cold!Configure, Cold!Start
  <2>2. served' \in {"none", "restore", "warm"}
    <3>1. CASE Cold!Probe(d)
      <4>1. proc[d] # Nobody /\ Cold!Programs[proc[d].do][proc[d].at] = "probe" /\ served' = proc[d].do
        BY <3>1 DEF Cold!Probe, Cold!Runs
      <4> QED
        BY <4>1, ProcIs, StepsAre
    <3>2. CASE ~ Cold!Probe(d)
      BY <1>0, <1>2, <3>2 DEF Changes, Cold!CreateStaging, Cold!RestoreDatabase, Cold!Principals, Cold!Stop,
         Cold!Configure, Cold!Start, HostTyped
    <3> QED
      BY <3>1, <3>2
  <2>3. conf' \in [address : {Nobody, "loopback", "private"}, time : Nat]
    BY <1>0, <1>2, HostIs DEF Changes, Cold!CreateStaging, Cold!RestoreDatabase, Cold!Principals, Cold!Probe,
       Cold!Stop, Cold!Configure, Cold!Start, HostTyped
  <2>4. UNCHANGED sql \/ sql' = [sql EXCEPT !.up = FALSE] \/ Cold!StartSql
    BY <1>2 DEF Changes, Cold!CreateStaging, Cold!RestoreDatabase, Cold!Principals, Cold!Probe,
       Cold!Stop, Cold!Configure, Cold!Start
  <2>5. sql' \in [up : BOOLEAN, pid : Pids \cup {0}, start : 0 .. MaxStarts,
                  address : {Nobody, "loopback", "private"}]
    BY <1>0, <2>3, <2>4, Restarted DEF HostTyped
  <2> QED
    BY <1>0, <2>1, <2>2, <2>3, <2>5 DEF HostTyped
<1>3. ASSUME NEW d \in Directories, Looks(d) \/ Ends(d) \/ Cold!Phase(d) PROVE HostTyped'
  <2>1. UNCHANGED <<source, target, Cold!host, stages, putting>>
    BY <1>3 DEF Looks, Ends, Cold!Verify, Cold!Query, Cold!Bind, Cold!Reads, Cold!Receipt, Cold!Ends, Cold!Begin,
       Cold!Phase
  <2> QED
    BY <1>0, <2>1 DEF HostTyped
<1>4. ASSUME NEW d \in Directories, Cold!PutConnectionVersion(d) PROVE HostTyped'
  <2>1. UNCHANGED <<source, target, Cold!host>>
    BY <1>4 DEF Cold!PutConnectionVersion
  <2>2. stages' \subseteq stages \cup {"recovery"}
    BY <1>4 DEF Cold!PutConnectionVersion
  <2>3. putting' \in BOOLEAN
    BY <1>0, <1>4 DEF Cold!PutConnectionVersion, HostTyped
  <2> QED
    BY <1>0, <2>1, <2>2, <2>3 DEF HostTyped
<1>5. ASSUME NEW d \in Directories, Cold!Process(d)
      PROVE  Looks(d) \/ Changes(d) \/ Ends(d) \/ Cold!Phase(d) \/ Cold!PutConnectionVersion(d)
  BY <1>5 DEF Cold!Process, Looks, Changes, Ends
<1> QED
  BY <1>1, <1>2, <1>3, <1>4, <1>5 DEF Cold!Next, Outside

LEMMA TypedFiles ==
  ASSUME ColdInv, Cold!Next, \A d \in Directories : Moves(d)
  PROVE  FilesTyped'
<1> USE DEF Cold!host, Cold!files, Cold!cloud
<1>0. FilesTyped
  BY TypedIs DEF ColdInv
<1>1. started' \in [Directories -> SUBSET Markers] /\ receipts' \in [Directories -> SUBSET Actions]
  <2>1. CASE UNCHANGED <<started, receipts>>
    BY <1>0, <2>1 DEF FilesTyped
  <2>2. ASSUME NEW d \in Directories, Cold!Receipt(d)
        PROVE  started' \in [Directories -> SUBSET Markers] /\ receipts' \in [Directories -> SUBSET Actions]
    <3>1. proc[d].do \in Actions
      BY <2>2, ProcIs DEF Cold!Receipt, Cold!Runs
    <3> QED
      BY <1>0, <2>2, <3>1 DEF Cold!Receipt, FilesTyped
  <2>3. ASSUME NEW d \in Directories, NEW do \in Actions, Cold!Begin(d, do)
        PROVE  started' \in [Directories -> SUBSET Markers] /\ receipts' \in [Directories -> SUBSET Actions]
    <3>1. Cold!Marker(do) \in Markers
      BY ActionsAre
    <3> QED
      BY <1>0, <2>3, <3>1 DEF Cold!Begin, FilesTyped
  <2>4. ASSUME NEW d \in Directories, Looks(d) \/ Changes(d) \/ Cold!Ends(d) \/ Cold!Phase(d)
                                      \/ Cold!PutConnectionVersion(d)
        PROVE  UNCHANGED <<started, receipts>>
    BY <2>4 DEF Looks, Changes, Cold!Verify, Cold!Query, Cold!Bind, Cold!Reads, Cold!Ends, Cold!Phase,
       Cold!PutConnectionVersion, Cold!CreateStaging, Cold!RestoreDatabase, Cold!Principals, Cold!Probe, Cold!Stop,
       Cold!Configure, Cold!Start
  <2>5. Outside => UNCHANGED <<started, receipts>>
    BY DEF Outside, Cold!Source, Cold!Quiesce, Cold!SourceChanges, Cold!Launch,
       Cold!RunStage, Cold!StageFails, Cold!Restart, Cold!Land, Cold!NetworkChanges
  <2> QED
    BY <2>1, <2>2, <2>3, <2>4, <2>5, ActionsAre DEF Cold!Next, Cold!Process, Outside, Looks, Changes
<1>2. ASSUME NEW d \in Directories, proc'[d] # Nobody
      PROVE  proc'[d].at \in DOMAIN Cold!Programs[proc'[d].do]
  <2>1. CASE UNCHANGED proc[d]
    BY <1>0, <1>2, <2>1 DEF FilesTyped
  <2>2. ASSUME NEW do \in Actions, proc'[d] = [do |-> do, at |-> 1]
        PROVE  proc'[d].at \in DOMAIN Cold!Programs[proc'[d].do]
    BY <2>2, RestoreSteps, WarmSteps, TransitionSteps, ReviewSteps, ConnectionSteps DEF Actions
  <2>3. CASE Advances(d)
    <3>1. /\ proc[d] # Nobody /\ Cold!Programs[proc[d].do][proc[d].at] # "receipt"
          /\ proc'[d].do = proc[d].do /\ proc'[d].at = proc[d].at + 1
      BY <2>3 DEF Advances
    <3> QED
      BY <3>1, ProcIs, StepsAre
  <2> QED
    BY <1>2, <2>1, <2>2, <2>3 DEF Moves
<1>3. /\ proc' \in [Directories -> {Nobody} \cup [do : Actions, at : Nat]]
      /\ witnessed' \in [Directories -> [pid : Pids \cup {0}, start : 0 .. MaxStarts, time : Nat,
                                         answered : 0 .. MaxStarts]]
  <2>1. Cold!Unseen \in [pid : Pids \cup {0}, start : 0 .. MaxStarts, time : Nat, answered : 0 .. MaxStarts]
    BY ColdConstants DEF Cold!Unseen
  <2>2. CASE Outside
    <3>1. \/ UNCHANGED <<proc, witnessed>>
          \/ /\ proc' = [d \in Directories |-> Nobody]
             /\ witnessed' = [d \in Directories |-> Cold!Unseen]
      BY <2>2 DEF Outside, Cold!Source, Cold!Quiesce, Cold!SourceChanges, Cold!Launch,
         Cold!RunStage, Cold!StageFails, Cold!Restart, Cold!Land, Cold!NetworkChanges
    <3> QED
      BY <1>0, <2>1, <3>1 DEF FilesTyped
  <2>3. ASSUME NEW d \in Directories, Ends(d)
        PROVE  /\ proc' \in [Directories -> {Nobody} \cup [do : Actions, at : Nat]]
               /\ UNCHANGED witnessed \/ witnessed' = [witnessed EXCEPT ![d] = Cold!Unseen]
    <3>1. \/ proc' = [proc EXCEPT ![d] = Nobody]
          \/ \E do \in Actions : proc' = [proc EXCEPT ![d] = [do |-> do, at |-> 1]]
      BY <2>3, ActionsAre DEF Ends, Cold!Receipt, Cold!Ends, Cold!Begin
    <3>2. UNCHANGED witnessed \/ witnessed' = [witnessed EXCEPT ![d] = Cold!Unseen]
      BY <2>3 DEF Ends, Cold!Receipt, Cold!Ends, Cold!Begin
    <3> QED
      BY <1>0, <3>1, <3>2 DEF FilesTyped
  <2>4. ASSUME NEW d \in Directories, Looks(d)
        PROVE  /\ Cold!Advance(d) /\ proc[d] # Nobody
               /\ witnessed' \in [Directories -> [pid : Pids \cup {0}, start : 0 .. MaxStarts, time : Nat,
                                                  answered : 0 .. MaxStarts]]
    <3>1. Cold!Advance(d) /\ proc[d] # Nobody
      BY <2>4 DEF Looks, Cold!Verify, Cold!Query, Cold!Bind, Cold!Reads, Cold!Runs
    <3>2. /\ sql.pid \in Pids \cup {0} /\ sql.start \in 0 .. MaxStarts /\ conf.time \in Nat
      BY TypedIs DEF ColdInv, HostTyped
    <3>3. \/ UNCHANGED witnessed
          \/ witnessed' = [witnessed EXCEPT ![d] = Cold!Unseen]
          \/ witnessed' = [witnessed EXCEPT ![d] = [pid |-> sql.pid, start |-> sql.start, time |-> conf.time,
                                                    answered |-> 0]]
          \/ witnessed' = [witnessed EXCEPT ![d].answered = sql.start]
      BY <2>4 DEF Looks, Cold!Verify, Cold!Query, Cold!Bind, Cold!Reads
    <3>4. witnessed[d] \in [pid : Pids \cup {0}, start : 0 .. MaxStarts, time : Nat, answered : 0 .. MaxStarts]
      BY <1>0 DEF FilesTyped
    <3>5. /\ [witnessed[d] EXCEPT !.answered = sql.start] \in
               [pid : Pids \cup {0}, start : 0 .. MaxStarts, time : Nat, answered : 0 .. MaxStarts]
          /\ [pid |-> sql.pid, start |-> sql.start, time |-> conf.time, answered |-> 0] \in
               [pid : Pids \cup {0}, start : 0 .. MaxStarts, time : Nat, answered : 0 .. MaxStarts]
      BY <3>2, <3>4, ColdConstants
    <3>6. \/ UNCHANGED witnessed
          \/ \E w \in [pid : Pids \cup {0}, start : 0 .. MaxStarts, time : Nat, answered : 0 .. MaxStarts] :
               witnessed' = [witnessed EXCEPT ![d] = w]
      BY <2>1, <3>3, <3>5
    <3> QED
      BY <1>0, <3>1, <3>6 DEF FilesTyped
  <2>5. ASSUME NEW d \in Directories, Changes(d) \/ Cold!Phase(d) \/ Cold!PutConnectionVersion(d)
        PROVE  /\ UNCHANGED witnessed /\ proc[d] # Nobody
               /\ Cold!Advance(d) \/ proc' = [proc EXCEPT ![d] = Nobody]
    BY <2>5 DEF Changes, Cold!Phase, Cold!PutConnectionVersion, Cold!CreateStaging, Cold!RestoreDatabase,
       Cold!Principals, Cold!Probe, Cold!Stop, Cold!Configure, Cold!Start, Cold!Runs
  <2>6. ASSUME NEW d \in Directories, Cold!Process(d)
        PROVE  Looks(d) \/ Changes(d) \/ Ends(d) \/ Cold!Phase(d) \/ Cold!PutConnectionVersion(d)
    BY <2>6 DEF Cold!Process, Looks, Changes, Ends
  <2>7. ASSUME NEW d \in Directories, Cold!Process(d)
        PROVE  /\ proc' \in [Directories -> {Nobody} \cup [do : Actions, at : Nat]]
               /\ witnessed' \in [Directories -> [pid : Pids \cup {0}, start : 0 .. MaxStarts, time : Nat,
                                                  answered : 0 .. MaxStarts]]
    <3>1. CASE Ends(d)
      BY <1>0, <2>1, <2>3, <3>1 DEF FilesTyped
    <3>2. CASE Looks(d)
      BY <2>4, <3>2, Advanced
    <3>3. CASE Changes(d) \/ Cold!Phase(d) \/ Cold!PutConnectionVersion(d)
      <4>1. CASE Cold!Advance(d)
        BY <1>0, <2>5, <3>3, <4>1, Advanced DEF FilesTyped
      <4>2. CASE proc' = [proc EXCEPT ![d] = Nobody]
        BY <1>0, <2>5, <3>3, <4>2 DEF FilesTyped
      <4> QED
        BY <2>5, <3>3, <4>1, <4>2
    <3> QED
      BY <2>6, <2>7, <3>1, <3>2, <3>3
  <2> QED
    BY <2>2, <2>7 DEF Cold!Next, Outside
<1>4. phases' \in [Directories -> 0 .. 7]
  <2>1. ASSUME NEW d \in Directories, Cold!Phase(d) PROVE phases[d] \in 0 .. 6
    <3>1. /\ proc[d] # Nobody /\ proc[d].do = "transition" /\ proc[d].at \in {6, 8, 11, 13, 16, 18, 25}
      BY <2>1, ProcIs, StepsAre DEF Cold!Phase, Cold!Runs
    <3> QED
      BY <3>1 DEF ColdInv, StepTells, PhasesAt
  <2>2. ASSUME ~ \E d \in Directories : Cold!Phase(d) PROVE UNCHANGED phases
    BY <2>2 DEF Cold!Next, Cold!Process, Cold!Source, Cold!Quiesce, Cold!SourceChanges, Cold!Launch,
       Cold!RunStage, Cold!StageFails, Cold!Restart, Cold!Land, Cold!NetworkChanges,
       Cold!Verify, Cold!Query, Cold!Bind, Cold!Reads, Cold!Receipt, Cold!Ends, Cold!Begin,
       Cold!PutConnectionVersion, Cold!CreateStaging, Cold!RestoreDatabase, Cold!Principals, Cold!Probe, Cold!Stop,
       Cold!Configure, Cold!Start
  <2> QED
    BY <1>0, <2>1, <2>2 DEF FilesTyped, Cold!Phase
<1> QED
  BY <1>1, <1>2, <1>3, <1>4 DEF FilesTyped

LEMMA ReceiptsKept ==
  ASSUME ColdInv, Cold!Next, Grows
  PROVE  ReceiptsTell' /\ (Cold!Planned => Cold!Planned')
<1> USE DEF Cold!host, Cold!files, Cold!cloud
<1>1. Cold!Planned => Cold!Planned'
  BY DEF Grows, Cold!Planned
<1>2. ASSUME ~ Cold!Planned, Cold!Planned' PROVE Gone /\ served = "restore"
  <2>1. PICK d \in Directories : "restore" \in receipts'[d] /\ "restore" \notin receipts[d]
    BY <1>2 DEF Cold!Planned
  <2>2. PICK e \in Directories : Cold!Receipt(e)
    BY <2>1 DEF Cold!Next, Cold!Process, Cold!Source, Cold!Quiesce, Cold!SourceChanges, Cold!Launch,
       Cold!RunStage, Cold!StageFails, Cold!Restart, Cold!Land, Cold!NetworkChanges,
       Cold!Verify, Cold!Query, Cold!Bind, Cold!Reads, Cold!Phase, Cold!Ends, Cold!Begin,
       Cold!PutConnectionVersion, Cold!CreateStaging, Cold!RestoreDatabase, Cold!Principals, Cold!Probe, Cold!Stop,
       Cold!Configure, Cold!Start
  <2>3. /\ proc[e] # Nobody /\ proc[e].do = "restore"
        /\ Cold!Programs[proc[e].do][proc[e].at] = "receipt"
    BY <2>1, <2>2 DEF Cold!Receipt, Cold!Runs, ColdInv, ColdTyped
  <2>4. proc[e].at = 12
    BY <2>3, ProcIs, StepsAre
  <2> QED
    BY <2>3, <2>4 DEF ColdInv, StepTells
<1>3. Cold!Planned' => source'.state = "terminated" /\ served' = "restore"
  BY <1>2 DEF ColdInv, ReceiptsTell, Grows, Gone
<1>4. ASSUME "recovery" \in stages' \/ putting', ~ ("recovery" \in stages \/ putting)
      PROVE  Cold!Planned /\ Ready /\ conf.address = "private"
  <2>1. PICK d \in Directories : Cold!PutConnectionVersion(d)
    BY <1>4 DEF Cold!Next, Cold!Process, Cold!Source, Cold!Quiesce, Cold!SourceChanges, Cold!Launch,
       Cold!RunStage, Cold!StageFails, Cold!Restart, Cold!Land, Cold!NetworkChanges,
       Cold!Verify, Cold!Query, Cold!Bind, Cold!Reads, Cold!Phase, Cold!Ends, Cold!Begin, Cold!Receipt,
       Cold!CreateStaging, Cold!RestoreDatabase, Cold!Principals, Cold!Probe, Cold!Stop,
       Cold!Configure, Cold!Start
  <2>2. proc[d] # Nobody /\ Cold!Programs[proc[d].do][proc[d].at] = "put"
    BY <2>1 DEF Cold!PutConnectionVersion, Cold!Runs
  <2>3. proc[d].do = "connection" /\ proc[d].at = 7
    BY <2>2, ProcIs, StepsAre
  <2> QED
    BY <2>2, <2>3 DEF ColdInv, StepTells
<1>5. "recovery" \in stages' \/ putting' => Cold!Planned' /\ boot' = 6 /\ conf'.address = "private"
  BY <1>1, <1>4 DEF ColdInv, ReceiptsTell, Grows, Ready
<1> QED
  BY <1>1, <1>3, <1>5 DEF ReceiptsTell, Gone, Ready

LEMMA TargetKept ==
  ASSUME ColdInv, Cold!Next, Grows
  PROVE  TargetTells'
<1> USE DEF Cold!host, Cold!files, Cold!cloud
<1>1. ASSUME boot' \in {4, 5, 6} PROVE sql'.up \/ \E d \in Directories : phases'[d] >= 2
  <2>1. CASE Cold!StartSql
    BY <2>1, Restarted
  <2>2. ASSUME NEW d \in Directories, Cold!Stop(d) PROVE phases'[d] >= 2
    <3>1. proc[d] # Nobody /\ Cold!Programs[proc[d].do][proc[d].at] = "stop" /\ UNCHANGED phases
      BY <2>2 DEF Cold!Stop, Cold!Runs
    <3>2. proc[d].do = "transition" /\ proc[d].at = 9
      BY <3>1, ProcIs, StepsAre
    <3> QED
      BY <3>1, <3>2 DEF ColdInv, StepTells, PhasesAt
  <2>3. CASE ~ Cold!StartSql /\ ~ \E d \in Directories : Cold!Stop(d)
    <3>1. UNCHANGED sql
      BY <2>3 DEF Cold!Next, Cold!Process, Cold!Source, Cold!Quiesce, Cold!SourceChanges, Cold!Launch,
         Cold!RunStage, Cold!SetupSql, Cold!Stages, Cold!StageFails, Cold!Restart, Cold!Land, Cold!NetworkChanges,
         Cold!Verify, Cold!Query, Cold!Bind, Cold!Reads, Cold!Phase, Cold!Ends, Cold!Begin, Cold!Receipt,
         Cold!PutConnectionVersion, Cold!CreateStaging, Cold!RestoreDatabase, Cold!Principals, Cold!Probe,
         Cold!Configure, Cold!Start
    <3>2. boot \in {4, 5, 6}
      BY <1>1, <2>3, HostIs DEF Cold!Next, Cold!Process, Cold!Source, Cold!Quiesce, Cold!SourceChanges,
         Cold!Launch, Cold!RunStage, Cold!SetupSql, Cold!Stages, Cold!StageFails, Cold!Restart, Cold!Land,
         Cold!NetworkChanges, Cold!Verify, Cold!Query, Cold!Bind, Cold!Reads, Cold!Phase, Cold!Ends, Cold!Begin,
         Cold!Receipt, Cold!PutConnectionVersion, Cold!CreateStaging, Cold!RestoreDatabase, Cold!Principals,
         Cold!Probe, Cold!Configure, Cold!Start
    <3>3. sql.up \/ \E d \in Directories : phases[d] >= 2
      BY <3>2 DEF ColdInv, TargetTells
    <3> QED
      BY <3>1, <3>3, TypedFiles, Movement, HostIs DEF Grows, FilesTyped
  <2> QED
    BY <2>1, <2>2, <2>3
<1>2. ASSUME conf'.address = "private" PROVE \E d \in Directories : phases'[d] >= 4
  <2>1. ASSUME NEW d \in Directories, Cold!Configure(d) PROVE phases'[d] >= 4
    <3>1. proc[d] # Nobody /\ Cold!Programs[proc[d].do][proc[d].at] = "conf" /\ UNCHANGED phases
      BY <2>1 DEF Cold!Configure, Cold!Runs
    <3>2. proc[d].do = "transition" /\ proc[d].at = 14
      BY <3>1, ProcIs, StepsAre
    <3> QED
      BY <3>1, <3>2 DEF ColdInv, StepTells, PhasesAt
  <2>2. CASE ~ \E d \in Directories : Cold!Configure(d)
    <3>1. conf.address = "private"
      BY <1>2, <2>2 DEF Cold!Next, Cold!Process, Cold!Source, Cold!Quiesce, Cold!SourceChanges, Cold!Launch,
         Cold!RunStage, Cold!SetupSql, Cold!Stages, Cold!StageFails, Cold!Restart, Cold!Land, Cold!NetworkChanges,
         Cold!Verify, Cold!Query, Cold!Bind, Cold!Reads, Cold!Phase, Cold!Ends, Cold!Begin, Cold!Receipt,
         Cold!PutConnectionVersion, Cold!CreateStaging, Cold!RestoreDatabase, Cold!Principals, Cold!Probe,
         Cold!Stop, Cold!Start
    <3> QED
      BY <3>1, TypedFiles, Movement, HostIs DEF ColdInv, TargetTells, Grows, FilesTyped
  <2> QED
    BY <2>1, <2>2
<1>3. UNCHANGED <<contents, served>> \/ \E d \in Directories : Changes(d)
  BY DEF Changes, Cold!Next, Cold!Process, Cold!Source, Cold!Quiesce, Cold!SourceChanges, Cold!Launch,
     Cold!RunStage, Cold!StageFails, Cold!Restart, Cold!Land, Cold!NetworkChanges,
     Cold!Verify, Cold!Query, Cold!Bind, Cold!Reads, Cold!Phase, Cold!Ends, Cold!Begin, Cold!Receipt,
     Cold!PutConnectionVersion
<1>4. /\ "probe" \in contents' => {"database", "login"} \subseteq contents'
      /\ served' # "none" => "probe" \in contents'
      /\ served' = "restore" => source'.state = "terminated"
  <2>1. CASE UNCHANGED <<contents, served>>
    BY <2>1 DEF ColdInv, TargetTells, Grows, Gone
  <2>2. ASSUME NEW d \in Directories, Changes(d), ~ Cold!Probe(d)
        PROVE  /\ UNCHANGED served /\ contents \subseteq contents' /\ ("probe" \in contents' => "probe" \in contents)
    BY <2>2 DEF Changes, Cold!CreateStaging, Cold!RestoreDatabase, Cold!Principals, Cold!Stop,
       Cold!Configure, Cold!Start
  <2>3. ASSUME NEW d \in Directories, Cold!Probe(d)
        PROVE  /\ {"database", "login", "probe"} \subseteq contents' /\ (served' = "restore" => Gone)
    <3>1. /\ proc[d] # Nobody /\ Cold!Programs[proc[d].do][proc[d].at] = "probe"
          /\ served' = proc[d].do /\ {"database", "login", "probe"} \subseteq contents'
      BY <2>3 DEF Cold!Probe, Cold!Api, Cold!Runs
    <3>2. proc[d].do = "restore" => proc[d].at = 10
      BY <3>1, ProcIs, StepsAre
    <3> QED
      BY <3>1, <3>2 DEF ColdInv, StepTells
  <2> QED
    BY <1>3, <2>1, <2>2, <2>3 DEF ColdInv, TargetTells, Grows, Gone
<1> QED
  BY <1>1, <1>2, <1>4 DEF TargetTells, Gone

LEMMA ColdKept == ColdInv /\ [Cold!Next]_(Cold!vars) => ColdInv'
<1> SUFFICES ASSUME ColdInv, [Cold!Next]_(Cold!vars) PROVE ColdInv'
  OBVIOUS
<1>1. CASE UNCHANGED Cold!vars
  <2> USE <1>1 DEF Cold!vars, Cold!host, Cold!files, Cold!cloud
  <2>1. HostTyped' /\ FilesTyped'
    BY TypedIs DEF ColdInv, HostTyped, FilesTyped
  <2>2. TargetTells' /\ ReceiptsTell'
    BY DEF ColdInv, TargetTells, ReceiptsTell, Gone, Ready, Cold!Planned
  <2>3. \A d \in Directories : StepTells(d)' /\ SeenTells(d)'
    BY DEF ColdInv, StepTells, SeenTells, Gone, Ready, Cold!Planned, Cold!Runs, Cold!Expected
  <2>4. ColdTyped'
    BY <2>1, TypedIs, PTL
  <2> QED
    BY <2>2, <2>3, <2>4 DEF ColdInv
<1>2. CASE Cold!Next
  <2>1. Grows /\ \A d \in Directories : Moves(d)
    BY <1>2, Movement
  <2>2. HostTyped' /\ FilesTyped'
    BY <1>2, <2>1, TypedHost, TypedFiles
  <2>3. TargetTells' /\ ReceiptsTell' /\ (Cold!Planned => Cold!Planned')
    BY <1>2, <2>1, TargetKept, ReceiptsKept
  <2>4. \A d \in Directories : StepTells(d)' /\ SeenTells(d)'
    BY <2>1, <2>3, StepsKept, SeenKept
  <2>5. ColdTyped'
    BY <2>2, TypedIs, PTL
  <2> QED
    BY <2>3, <2>4, <2>5 DEF ColdInv
<1> QED
  BY <1>1, <1>2

LEMMA ColdInvAlways == Cold!Spec => []ColdInv
<1> QED
  BY ColdInit, ColdKept, PTL DEF Cold!Spec

\* Nothing connects to the target while the source may come back, and the version of
\* the secret names a database that is there, for any directories and what they are for.
THEOREM FencedAlways == Cold!Spec => []FencedAndReachable
<1>1. ColdInv => FencedAndReachable
  BY DEF ColdInv, ColdTyped, TargetTells, ReceiptsTell, Gone, FencedAndReachable, Cold!FencedAndReachable
<1> QED
  BY <1>1, ColdInvAlways, PTL

\* The files tell of everything that a listener transition did to the host.
THEOREM PhasesTellAlways == Cold!Spec => []PhasesTell
<1>1. ColdInv => PhasesTell
  BY ReadyIs DEF ColdInv, TargetTells, PhasesTell, Cold!PhasesTell
<1> QED
  BY <1>1, ColdInvAlways, PTL

\* A runtime check accepts one process, however often SQL was started in between.
THEOREM OneProcessAccepted == Cold!Spec => OneProcess
<1>1. ASSUME ColdInv, [Cold!Next]_(Cold!vars), NEW d \in Directories, Cold!Runs(d, "bind"),
             proc'[d] # Nobody, proc'[d].at = proc[d].at + 1
      PROVE  /\ witnessed[d].answered = sql.start /\ witnessed[d].start = sql.start
             /\ sql.up /\ sql.address = Cold!Expected(d) /\ conf.address = Cold!Expected(d)
  <2>1. /\ proc[d] # Nobody /\ Cold!Programs[proc[d].do][proc[d].at] = "bind" /\ proc[d].at \in Nat
    BY <1>1, ProcIs DEF Cold!Runs
  <2>2. Cold!Bind(d)
    <3>1. proc'[d] # proc[d]
      BY <1>1, <2>1
    <3>2. ~ UNCHANGED Cold!vars /\ ~ Outside
      BY <1>1, <3>1 DEF Cold!vars, Cold!files, Cold!host, Cold!cloud, Outside, Cold!Source, Cold!Quiesce,
         Cold!SourceChanges, Cold!Launch, Cold!RunStage, Cold!StageFails, Cold!Restart, Cold!Land,
         Cold!NetworkChanges
    <3>3. PICK e \in Directories : Cold!Process(e)
      BY <1>1, <3>2 DEF Cold!Next, Outside
    <3>4. \/ Cold!Advance(e) /\ proc[e] # Nobody
          \/ \E p \in {Nobody} \cup [do : Actions, at : Nat] : proc' = [proc EXCEPT ![e] = p]
      <4>1. CASE Looks(e) \/ Changes(e) \/ Cold!Phase(e)
        BY <4>1 DEF Looks, Changes, Cold!Verify, Cold!Query, Cold!Bind, Cold!Reads, Cold!Phase,
           Cold!CreateStaging, Cold!RestoreDatabase, Cold!Principals, Cold!Probe, Cold!Stop, Cold!Configure,
           Cold!Start, Cold!Runs
      <4>2. CASE Cold!Receipt(e) \/ Cold!Ends(e) \/ Cold!PutConnectionVersion(e)
        BY <4>2 DEF Cold!Receipt, Cold!Ends, Cold!PutConnectionVersion, Cold!Runs
      <4>3. ASSUME NEW do \in Actions, Cold!Begin(e, do)
            PROVE  \E p \in {Nobody} \cup [do : Actions, at : Nat] : proc' = [proc EXCEPT ![e] = p]
        BY <4>3 DEF Cold!Begin
      <4> QED
        BY <3>3, <4>1, <4>2, <4>3, ActionsAre DEF Cold!Process, Looks, Changes
    <3>5. e = d
      BY <1>1, <3>1, <3>4, Advanced DEF ColdInv, ColdTyped
    <3>6. ~ Cold!Receipt(d) /\ ~ Cold!Ends(d) /\ ~ Cold!PutConnectionVersion(d)
          /\ ~ \E do \in DOMAIN Cold!Programs : Cold!Begin(d, do)
      BY <1>1, <2>1 DEF Cold!Receipt, Cold!Ends, Cold!PutConnectionVersion, Cold!Begin, Cold!Runs, ColdInv,
         ColdTyped
    <3> QED
      BY <2>1, <3>3, <3>5, <3>6, ReadsIs DEF Cold!Process, Cold!Verify, Cold!Query, Cold!Phase,
         Cold!CreateStaging, Cold!RestoreDatabase, Cold!Principals, Cold!Probe, Cold!Stop, Cold!Configure,
         Cold!Start, Cold!Runs
  <2>3. /\ sql.up /\ sql.start = witnessed[d].start /\ conf.time = witnessed[d].time
        /\ witnessed[d].answered # 0
    BY <2>2 DEF Cold!Bind, Cold!Bound, Cold!Environment, Cold!SameProcess
  <2> QED
    BY <1>1, <2>3, HostIs DEF ColdInv, SeenTells
<1>2. ColdInv /\ [Cold!Next]_(Cold!vars) =>
        [\A d \in Directories :
           Cold!Runs(d, "bind") /\ proc'[d] # Nobody /\ proc'[d].at = proc[d].at + 1 =>
             /\ witnessed[d].answered = sql.start /\ witnessed[d].start = sql.start
             /\ sql.up /\ sql.address = Cold!Expected(d) /\ conf.address = Cold!Expected(d)]_(Cold!vars)
  BY <1>1
<1> QED
  BY <1>2, ColdInvAlways, PTL DEF Cold!Spec, OneProcess, Cold!OneProcess
-----------------------------------------------------------------------------
(* NativeRecovery *)

NativeActions == {"fence", "restore"}

Commands == [directory : Evidence, action : NativeActions, request : Native!Requests,
             status : {"Pending", "InProgress", "Success", "Failed"}, receipt : 0 .. MaxBackups]

NativeTyped ==
  /\ instance \in {"running", "terminated"} /\ tasks \in BOOLEAN
  /\ data \in [Native!Hosts -> [rows : 0 .. MaxRows, mode : {"empty", "rw", "ro"}, enabled : BOOLEAN,
                               restored : 0 .. MaxBackups]]
  /\ connected \in BOOLEAN /\ timer \in BOOLEAN
  /\ service # Nobody => service \in [rows : 0 .. MaxRows] /\ Len(kept) < MaxBackups
  /\ kept \in Seq(0 .. MaxRows) /\ Len(kept) <= MaxBackups
  /\ evidence \in [Evidence -> [fence : Native!Requests \cup {Nobody}, restore : Native!Requests \cup {Nobody},
                                sent : SUBSET NativeActions]]
  /\ step \in [Evidence -> {Nobody} \cup [action : NativeActions, request : Native!Requests,
                                         at : {"checked", "intended", "sent"}]]
  /\ commands \subseteq Commands
  /\ run \in [Native!Hosts -> SUBSET NativeActions] /\ intents \in [Native!Hosts -> SUBSET NativeActions]
  /\ acts \in [Native!Hosts -> {Nobody} \cup [command : Commands, at : Nat, after : Nat]]
  /\ \A h \in Native!Hosts :
       acts[h] # Nobody => acts[h].at \in DOMAIN Native!Program(acts[h].command.action)

\* A backup that has all the source had, once it is gone.
Sound(request) ==
  /\ instance = "terminated" /\ request.host \in Targets
  /\ request.receipt \in 1 .. Len(kept) /\ kept[request.receipt] = data["source"].rows

Fenced(e) == \E c \in commands : c.directory = e /\ c.action = "fence" /\ c.status = "Success"

\* What a program is about to send.
SendTells(e) ==
  /\ step[e].action = "fence" <=> step[e].request.host = "source"
  /\ step[e].action = "restore" => Sound(step[e].request) /\ Fenced(e)
  /\ step[e].at = "intended" =>
       /\ evidence[e][step[e].action] # Nobody
       /\ ~ \E c \in commands : c.directory = e /\ c.action = step[e].action

\* An intent is made once for an action of a directory, and a command sent once for it; a
\* restore is for a sound request, in the directory of a fence that succeeded.
SentTells ==
  /\ \A b, c \in commands : b.directory = c.directory /\ b.action = c.action => b = c
  /\ \A c \in commands :
       /\ evidence[c.directory][c.action] # Nobody
       /\ c.action = "fence" <=> c.request.host = "source"
       /\ c.action = "restore" => Sound(c.request) /\ Fenced(c.directory)
       /\ c.status = "Pending" => c.receipt = 0
  /\ \A e \in Evidence : step[e] # Nobody => SendTells(e)

\* What runs on a host is a command to it that is under way.
HostTells ==
  \A h \in Native!Hosts : acts[h] # Nobody =>
    /\ acts[h].command \in commands /\ acts[h].command.status = "InProgress"
    /\ acts[h].command.request.host = h
    /\ acts[h].at > 1 => acts[h].command.action \in intents[h]

\* A fence that succeeded is the only one, and its receipt is of all the source had.
FenceTells ==
  /\ instance = "terminated" => ~ connected
  /\ \A c \in commands : c.action = "fence" /\ c.status = "Success" =>
       /\ "fence" \in intents["source"] /\ data["source"].mode = "ro"
       /\ c.receipt \in 1 .. Len(kept) /\ kept[c.receipt] = data["source"].rows
       /\ acts["source"] # Nobody => acts["source"].at = 1
  /\ \A b, c \in commands :
       b.action = "fence" /\ b.status = "Success" /\ c.action = "fence" /\ c.status = "Success" => b = c
  /\ acts["source"] # Nobody =>
       /\ acts["source"].at > 7 => data["source"].mode = "ro"
       /\ acts["source"].at > 9 =>
            /\ service # Nobody => service.rows = data["source"].rows
            /\ \A i \in 1 .. Len(kept) : i > acts["source"].after => kept[i] = data["source"].rows
       /\ acts["source"].at > 10 => Len(kept) > acts["source"].after

\* What a target has been given.
RestoredTells ==
  \A h \in Targets :
    /\ data[h].restored # 0 =>
         /\ instance = "terminated" /\ data[h].restored \in 1 .. Len(kept)
         /\ kept[data[h].restored] = data["source"].rows
    /\ acts[h] # Nobody /\ acts[h].at > 3 => data[h].restored # 0
    /\ data[h].mode # "empty" =>
         instance = "terminated" /\ \E c \in commands : c.action = "restore" /\ c.request.host = h

NativeInv == NativeTyped /\ SentTells /\ HostTells /\ FenceTells /\ RestoredTells

LEMMA NativeConstants ==
  /\ Native!Source = "source" /\ "source" \notin Targets /\ Nobody \notin Native!Requests
  /\ MaxRows \in Nat /\ MaxBackups \in Nat \ {0} /\ Native!Hosts = Targets \cup {"source"}
BY NativeHolds DEF Native!NativeAssumption, Native!Source, Native!Hosts

LEMMA FenceSteps ==
  LET p == Native!Program("fence")
  IN  /\ DOMAIN p = 1 .. 11 /\ p[1] = "begin" /\ p[2] = "before" /\ p[3] = "service" /\ p[4] = "timer"
      /\ p[5] = "service" /\ p[6] = "disable" /\ p[7] = "readonly" /\ p[8] = "after" /\ p[9] = "start"
      /\ p[10] = "backup" /\ p[11] = "result"
BY DEF Native!Program, Native!Fence

LEMMA RestoringSteps ==
  LET p == Native!Program("restore")
  IN  /\ DOMAIN p = 1 .. 6 /\ p[1] = "begin" /\ p[2] = "fresh" /\ p[3] = "restore" /\ p[4] = "promote"
      /\ p[5] = "data" /\ p[6] = "result"
BY DEF Native!Program, Native!Restore

LEMMA NativeInit == Native!Init => NativeInv
<1> SUFFICES ASSUME Native!Init PROVE NativeInv
  OBVIOUS
<1>1. /\ data \in [Native!Hosts -> [rows : 0 .. MaxRows, mode : {"empty", "rw", "ro"}, enabled : BOOLEAN,
                                   restored : 0 .. MaxBackups]]
      /\ \A h \in Targets : data[h].restored = 0 /\ data[h].mode = "empty"
  BY NativeConstants DEF Native!Init
<1>2. /\ evidence \in [Evidence -> [fence : Native!Requests \cup {Nobody}, restore : Native!Requests \cup {Nobody},
                                   sent : SUBSET NativeActions]]
      /\ commands = {} /\ \A e \in Evidence : step[e] = Nobody
      /\ step \in [Evidence -> {Nobody} \cup [action : NativeActions, request : Native!Requests,
                                             at : {"checked", "intended", "sent"}]]
  BY DEF Native!Init
<1>3. /\ acts \in [Native!Hosts -> {Nobody} \cup [command : Commands, at : Nat, after : Nat]]
      /\ \A h \in Native!Hosts : acts[h] = Nobody
      /\ run \in [Native!Hosts -> SUBSET NativeActions] /\ intents \in [Native!Hosts -> SUBSET NativeActions]
  BY DEF Native!Init
<1>4. kept \in Seq(0 .. MaxRows) /\ Len(kept) = 0
  BY DEF Native!Init
<1>5. NativeTyped
  <2>1. /\ instance = "running" /\ tasks = TRUE /\ connected = FALSE /\ timer = TRUE /\ service = Nobody
    BY DEF Native!Init
  <2>2. Len(kept) <= MaxBackups /\ commands \subseteq Commands
    BY <1>2, <1>4, NativeConstants
  <2> QED
    BY <1>1, <1>2, <1>3, <1>4, <2>1, <2>2 DEF NativeTyped
<1>6. SentTells /\ HostTells
  BY <1>2, <1>3 DEF SentTells, HostTells
<1>7. FenceTells /\ RestoredTells
  BY <1>1, <1>2, <1>3, NativeConstants DEF Native!Init, FenceTells, RestoredTells
<1> QED
  BY <1>5, <1>6, <1>7 DEF NativeInv

LEMMA ActIs ==
  ASSUME NativeInv, NEW h \in Native!Hosts, acts[h] # Nobody
  PROVE  /\ acts[h] \in [command : Commands, at : Nat, after : Nat]
         /\ acts[h].command \in Commands /\ acts[h].command \in commands /\ acts[h].at \in Nat
         /\ acts[h].after \in Nat /\ acts[h].command.request.host = h
         /\ acts[h].command.status = "InProgress" /\ acts[h].command.action \in NativeActions
         /\ acts[h].command.action = "fence" <=> h = "source"
         /\ acts[h].at \in DOMAIN Native!Program(acts[h].command.action)
BY DEF NativeInv, NativeTyped, HostTells, SentTells, Commands

\* Where the steps are, of which one or the other action has but one.
LEMMA RunsAt ==
  ASSUME NativeInv, NEW h \in Native!Hosts, acts[h] # Nobody
  PROVE  LET n == acts[h].at
             s == Native!Program(acts[h].command.action)[n]
         IN  /\ n \in Nat \ {0} /\ (n = 1 <=> s = "begin")
             /\ s # "result" => n + 1 \in DOMAIN Native!Program(acts[h].command.action)
             /\ s \in {"before", "service", "timer", "disable", "after"} =>
                  h = "source" /\ n < 9 /\ n # 7
             /\ s = "readonly" => h = "source" /\ n = 7
             /\ s = "start" => h = "source" /\ n = 9
             /\ s = "backup" => h = "source" /\ n = 10
             /\ s = "result" /\ h = "source" => n = 11
             /\ s = "fresh" => h # "source" /\ n = 2
             /\ s = "restore" => h # "source" /\ n = 3
             /\ s = "promote" => h # "source" /\ n = 4
             /\ s = "data" => h # "source" /\ n = 5
<1>1. CASE acts[h].command.action = "fence"
  BY <1>1, ActIs, FenceSteps
<1>2. CASE acts[h].command.action = "restore"
  BY <1>2, ActIs, RestoringSteps
<1> QED
  BY <1>1, <1>2, ActIs DEF NativeActions

LEMMA Stepped ==
  ASSUME NativeInv, NEW h \in Native!Hosts, acts[h] # Nobody, Native!Advance(h)
  PROVE  /\ acts' \in [Native!Hosts -> {Nobody} \cup [command : Commands, at : Nat, after : Nat]]
         /\ acts'[h].command = acts[h].command /\ acts'[h].at = acts[h].at + 1 /\ acts'[h].after = acts[h].after
         /\ \A g \in Native!Hosts \ {h} : acts'[g] = acts[g]
<1>1. acts \in [Native!Hosts -> {Nobody} \cup [command : Commands, at : Nat, after : Nat]]
  BY DEF NativeInv, NativeTyped
<1>2. /\ acts[h] \in [command : Commands, at : Nat, after : Nat] /\ acts[h].at + 1 \in Nat
      /\ acts' = [acts EXCEPT ![h] = [acts[h] EXCEPT !.at = acts[h].at + 1]]
  BY ActIs DEF Native!Advance
<1>3. [acts[h] EXCEPT !.at = acts[h].at + 1] \in [command : Commands, at : Nat, after : Nat]
  BY <1>2
<1>4. acts'[h] = [acts[h] EXCEPT !.at = acts[h].at + 1] /\ \A g \in Native!Hosts \ {h} : acts'[g] = acts[g]
  BY <1>1, <1>2
<1>5. /\ acts'[h].command = acts[h].command /\ acts'[h].at = acts[h].at + 1 /\ acts'[h].after = acts[h].after
  BY <1>2, <1>4
<1> QED
  BY <1>1, <1>2, <1>3, <1>4, <1>5

LEMMA StepIs ==
  ASSUME NativeInv, NEW e \in Evidence, step[e] # Nobody
  PROVE  /\ step[e] \in [action : NativeActions, request : Native!Requests, at : {"checked", "intended", "sent"}]
         /\ step[e].action \in NativeActions /\ step[e].request \in Native!Requests
BY DEF NativeInv, NativeTyped

LEMMA CommandIs ==
  ASSUME NativeInv, NEW c \in commands
  PROVE  /\ c \in Commands /\ c.directory \in Evidence /\ c.action \in NativeActions
         /\ c.request \in Native!Requests /\ c.request.host \in Native!Hosts
BY DEF NativeInv, NativeTyped, Commands, Native!Requests

\* A command that is settled or lost with its host.
Same(b, c) == b.directory = c.directory /\ b.action = c.action /\ b.request = c.request

Kept ==
  /\ commands' \subseteq Commands
  /\ \A c \in commands' : \E b \in commands : Same(b, c)
  /\ \A b \in commands : \E c \in commands' : Same(b, c)
  /\ \A b, c \in commands' : b.directory = c.directory /\ b.action = c.action => b = c
  /\ \A b \in commands : b.status = "Success" => b \in commands'
  /\ \A c \in commands' : c.status = "Pending" => c \in commands

Settled(b, status, receipt) == [b EXCEPT !.status = status, !.receipt = receipt]

LEMMA SettledKept ==
  ASSUME NativeInv, NEW b \in commands, b.status # "Success",
         NEW status \in {"InProgress", "Success", "Failed"}, NEW receipt \in 0 .. MaxBackups,
         Native!Settle(b, status, receipt)
  PROVE  /\ Kept
         /\ commands' = (commands \ {b}) \cup {Settled(b, status, receipt)}
         /\ Settled(b, status, receipt) \in Commands /\ Same(b, Settled(b, status, receipt))
         /\ Settled(b, status, receipt).status = status /\ Settled(b, status, receipt).receipt = receipt
<1> DEFINE d == Settled(b, status, receipt)
<1>1. commands' = (commands \ {b}) \cup {d}
  BY DEF Native!Settle, Settled
<1>2. b \in Commands /\ d \in Commands /\ Same(b, d) /\ d.status = status /\ d.receipt = receipt
  BY CommandIs DEF Commands, Same, Settled
<1>3. \A p, q \in commands : p.directory = q.directory /\ p.action = q.action => p = q
  BY DEF NativeInv, SentTells
<1> HIDE DEF d
<1>4. commands' \subseteq Commands
  BY <1>1, <1>2, CommandIs
<1>5. (\A c \in commands' : \E p \in commands : Same(p, c)) /\ (\A p \in commands : \E c \in commands' : Same(p, c))
  BY <1>1, <1>2 DEF Same
<1>6. \A p, q \in commands' : p.directory = q.directory /\ p.action = q.action => p = q
  BY <1>1, <1>2, <1>3 DEF Same
<1>7. b.status # "Success" /\ d.status # "Pending"
  BY <1>2
<1>8. \A c \in commands' : c.status = "Pending" => c \in commands
  BY <1>1, <1>7
<1>9. \A c \in commands : c.status = "Success" => c \in commands'
  BY <1>1, <1>7
<1> QED
  BY <1>1, <1>2, <1>4, <1>5, <1>6, <1>8, <1>9 DEF Kept, d

Fallen(h, c) == [c EXCEPT !.status = IF @ = "InProgress" /\ c.request.host = h THEN "Failed" ELSE @]

LEMMA DownKept ==
  ASSUME NativeInv, NEW h \in Native!Hosts, Native!Down(h)
  PROVE  /\ Kept /\ commands' = {Fallen(h, c) : c \in commands}
         /\ \A c \in commands' : c.status # "Failed" => c \in commands
         /\ \A c \in commands : c.status # "InProgress" \/ c.request.host # h => c \in commands'
<1>1. commands' = {Fallen(h, c) : c \in commands}
  BY DEF Native!Down, Fallen
<1>2. ASSUME NEW c \in commands
      PROVE  /\ Fallen(h, c) \in Commands /\ Same(c, Fallen(h, c))
             /\ c.status # "InProgress" \/ c.request.host # h => Fallen(h, c) = c
             /\ Fallen(h, c).status # "Failed" => Fallen(h, c) = c
  <2>1. c \in Commands
    BY CommandIs
  <2>2. CASE c.status = "InProgress" /\ c.request.host = h
    <3>1. Fallen(h, c) = [c EXCEPT !.status = "Failed"]
      BY <2>2 DEF Fallen
    <3> QED
      BY <2>1, <2>2, <3>1 DEF Commands, Same
  <2>3. CASE ~ (c.status = "InProgress" /\ c.request.host = h)
    <3>1. Fallen(h, c) = c
      BY <2>1, <2>3 DEF Fallen, Commands
    <3> QED
      BY <2>1, <3>1 DEF Same
  <2> QED
    BY <2>2, <2>3
<1>3. \A p, q \in commands : p.directory = q.directory /\ p.action = q.action => p = q
  BY DEF NativeInv, SentTells
<1> HIDE DEF Fallen
<1>4. Kept
  BY <1>1, <1>2, <1>3 DEF Kept, Same
<1> QED
  BY <1>1, <1>2, <1>4

\* Steps around the two programs, without those by which a host goes down.
World == Native!TasksChange \/ Native!Connect \/ Native!Disconnect \/ Native!Write \/ Native!Fires \/ Native!JobEnds

LEMMA Appended ==
  ASSUME NativeInv, kept' = Append(kept, service.rows), service # Nobody
  PROVE  /\ kept' \in Seq(0 .. MaxRows) /\ Len(kept') = Len(kept) + 1 /\ Len(kept') <= MaxBackups
         /\ \A i \in 1 .. Len(kept) : kept'[i] = kept[i]
         /\ kept'[Len(kept) + 1] = service.rows
<1>1. kept \in Seq(0 .. MaxRows) /\ service.rows \in 0 .. MaxRows /\ Len(kept) < MaxBackups
  BY DEF NativeInv, NativeTyped
<1>2. Len(kept) \in Nat
  BY <1>1
<1> QED
  BY <1>1, <1>2, NativeConstants

LEMMA LengthIs ==
  ASSUME NativeInv
  PROVE  Len(kept) \in Nat
BY DEF NativeInv, NativeTyped

LEMMA WorldSteps ==
  ASSUME NativeInv, World
  PROVE  NativeInv'
<1> USE DEF Native!backup, Native!operator, Native!remote
<1>1. UNCHANGED <<instance, timer, evidence, step, commands, run, intents, acts>> /\ tasks' \in BOOLEAN
  BY DEF World, Native!TasksChange, Native!Connect, Native!Disconnect, Native!Write, Native!Fires, Native!JobEnds,
     NativeInv, NativeTyped
<1>2. connected' \in BOOLEAN /\ (instance = "terminated" => ~ connected')
  <2>1. CASE Native!Connect
    BY <2>1 DEF Native!Connect
  <2>2. CASE Native!Disconnect
    BY <2>2 DEF Native!Disconnect
  <2>3. CASE UNCHANGED connected
    BY <2>3 DEF NativeInv, NativeTyped, FenceTells
  <2> QED
    BY <2>1, <2>2, <2>3 DEF World, Native!TasksChange, Native!Write, Native!Fires, Native!JobEnds
<1>3. /\ data' \in [Native!Hosts -> [rows : 0 .. MaxRows, mode : {"empty", "rw", "ro"}, enabled : BOOLEAN,
                                    restored : 0 .. MaxBackups]]
      /\ \A h \in Targets : data'[h] = data[h]
      /\ data'["source"].mode = data["source"].mode
      /\ instance = "terminated" \/ data["source"].mode = "ro" => data'["source"].rows = data["source"].rows
  <2>1. CASE Native!Write
    <3>1. /\ data' = [data EXCEPT !["source"].rows = data["source"].rows + 1] /\ data["source"].rows < MaxRows
          /\ data["source"].mode = "rw" /\ connected
      BY <2>1, NativeConstants DEF Native!Write
    <3>2. data["source"].rows \in 0 .. MaxRows /\ data["source"].rows + 1 \in 0 .. MaxRows
      BY <3>1, NativeConstants DEF NativeInv, NativeTyped
    <3>3. /\ data \in [Native!Hosts -> [rows : 0 .. MaxRows, mode : {"empty", "rw", "ro"}, enabled : BOOLEAN,
                                       restored : 0 .. MaxBackups]]
          /\ "source" \in Native!Hosts /\ "source" \notin Targets /\ Targets \subseteq Native!Hosts
      BY NativeConstants DEF NativeInv, NativeTyped
    <3>4. data' = [data EXCEPT !["source"] = [data["source"] EXCEPT !.rows = data["source"].rows + 1]]
      BY <3>1
    <3>5. [data["source"] EXCEPT !.rows = data["source"].rows + 1]
            \in [rows : 0 .. MaxRows, mode : {"empty", "rw", "ro"}, enabled : BOOLEAN, restored : 0 .. MaxBackups]
      BY <3>2, <3>3
    <3>6. instance # "terminated" /\ data["source"].mode # "ro"
      BY <3>1 DEF NativeInv, FenceTells
    <3>7. data'["source"].mode = data["source"].mode
      BY <3>3, <3>4
    <3> QED
      BY <3>3, <3>4, <3>5, <3>6, <3>7
  <2>2. CASE UNCHANGED data
    BY <2>2 DEF NativeInv, NativeTyped
  <2> QED
    BY <2>1, <2>2 DEF World, Native!TasksChange, Native!Connect, Native!Disconnect, Native!Fires, Native!JobEnds
<1>4. \/ UNCHANGED <<kept, service>>
      \/ service = Nobody /\ UNCHANGED <<kept, data>> /\ service' = [rows |-> data["source"].rows]
           /\ Len(kept) < MaxBackups
      \/ service # Nobody /\ service' = Nobody /\ (UNCHANGED kept \/ kept' = Append(kept, service.rows))
           /\ UNCHANGED data
  BY NativeConstants DEF World, Native!TasksChange, Native!Connect, Native!Disconnect, Native!Write, Native!Fires,
     Native!JobEnds
<1>5. /\ kept' \in Seq(0 .. MaxRows) /\ Len(kept') <= MaxBackups /\ Len(kept) <= Len(kept')
      /\ Len(kept) \in Nat /\ Len(kept') \in Nat
      /\ \A i \in 1 .. Len(kept) : kept'[i] = kept[i]
  BY <1>4, Appended, LengthIs DEF NativeInv, NativeTyped
<1>6. service' # Nobody => service' \in [rows : 0 .. MaxRows] /\ Len(kept') < MaxBackups
  BY <1>4, NativeConstants DEF NativeInv, NativeTyped
<1>7. NativeTyped'
  BY <1>1, <1>2, <1>3, <1>5, <1>6 DEF NativeInv, NativeTyped
<1>8. SentTells'
  BY <1>1, <1>3, <1>5 DEF NativeInv, SentTells, SendTells, Sound, Fenced
<1>9. HostTells'
  BY <1>1 DEF NativeInv, HostTells
<1>10. FenceTells'
  <2>1. \A c \in commands : c.action = "fence" /\ c.status = "Success" =>
          /\ "fence" \in intents["source"] /\ data'["source"].mode = "ro"
          /\ c.receipt \in 1 .. Len(kept') /\ kept'[c.receipt] = data'["source"].rows
          /\ acts["source"] # Nobody => acts["source"].at = 1
    BY <1>3, <1>5 DEF NativeInv, FenceTells
  <2>2. ASSUME acts["source"] # Nobody, acts["source"].at > 9
        PROVE  /\ service' # Nobody => service'.rows = data'["source"].rows
               /\ \A i \in 1 .. Len(kept') : i > acts["source"].after => kept'[i] = data'["source"].rows
    <3>1. /\ data["source"].mode = "ro" /\ data'["source"].rows = data["source"].rows
          /\ service # Nobody => service.rows = data["source"].rows
          /\ \A i \in 1 .. Len(kept) : i > acts["source"].after => kept[i] = data["source"].rows
      BY <1>3, <2>2, ActIs, NativeConstants DEF NativeInv, FenceTells
    <3>2. service' # Nobody => service'.rows = data'["source"].rows
      BY <1>4, <3>1
    <3>3. CASE UNCHANGED kept
      BY <3>1, <3>2, <3>3
    <3>4. CASE service # Nobody /\ kept' = Append(kept, service.rows)
      BY <3>1, <3>2, <3>4, Appended, LengthIs
    <3> QED
      BY <1>4, <3>3, <3>4
  <2>3. acts["source"] # Nobody =>
          /\ acts["source"].at > 7 => data'["source"].mode = "ro"
          /\ acts["source"].at > 10 => Len(kept') > acts["source"].after
    BY <1>3, <1>5, ActIs, NativeConstants DEF NativeInv, FenceTells
  <2> QED
    BY <1>1, <1>2, <2>1, <2>2, <2>3 DEF NativeInv, FenceTells
<1>11. RestoredTells'
  BY <1>1, <1>3, <1>5 DEF NativeInv, RestoredTells
<1> QED
  BY <1>7, <1>8, <1>9, <1>10, <1>11 DEF NativeInv

LEMMA FencedKept ==
  ASSUME Kept, NEW e \in Evidence, Fenced(e)
  PROVE  Fenced(e)'
BY DEF Kept, Fenced

LEMMA SentKept ==
  ASSUME NativeInv, Kept, UNCHANGED <<kept, evidence, step>>, instance = "terminated" => instance' = "terminated",
         data'["source"].rows = data["source"].rows
  PROVE  SentTells'
<1>1. \A r \in Native!Requests : Sound(r) => Sound(r)'
  BY DEF Sound
<1>2. ASSUME NEW c \in commands'
      PROVE  /\ evidence'[c.directory][c.action] # Nobody
             /\ c.action = "fence" <=> c.request.host = "source"
             /\ c.action = "restore" => Sound(c.request)' /\ Fenced(c.directory)'
             /\ c.status = "Pending" => c.receipt = 0
  <2>1. PICK b \in commands : Same(b, c)
    BY DEF Kept
  <2>2. c.status = "Pending" => c \in commands
    BY DEF Kept
  <2>3. c.status = "Pending" => c.receipt = 0
    BY <2>2 DEF NativeInv, SentTells
  <2> QED
    BY <1>1, <2>1, <2>3, CommandIs, FencedKept DEF Same, NativeInv, SentTells
<1>3. ASSUME NEW e \in Evidence, step[e] # Nobody
      PROVE  SendTells(e)'
  BY <1>1, <1>3, StepIs, FencedKept DEF Kept, Same, NativeInv, SentTells, SendTells
<1> QED
  BY <1>2, <1>3 DEF Kept, SentTells

LEMMA DownSteps ==
  ASSUME NativeInv, NEW h \in Native!Hosts, Native!Reboot(h) \/ (h = "source" /\ Native!Terminate)
  PROVE  NativeInv'
<1> USE DEF Native!backup, Native!operator, Native!remote
<1>1. /\ Native!Down(h)
      /\ UNCHANGED <<tasks, data, kept, evidence, step, intents>> /\ timer' \in BOOLEAN
      /\ instance' \in {"running", "terminated"} /\ (instance = "terminated" => instance' = "terminated")
      /\ service' = service \/ service' = Nobody
  <2>1. Native!Down(h)
    BY NativeConstants DEF Native!Reboot, Native!Terminate
  <2>2. UNCHANGED <<tasks, data, kept, evidence, step, intents>> /\ (service' = service \/ service' = Nobody)
    BY <2>1 DEF Native!Down
  <2>3. timer \in BOOLEAN /\ instance \in {"running", "terminated"}
    BY DEF NativeInv, NativeTyped
  <2>4. CASE Native!Reboot(h)
    <3>1. timer' = (h = Native!Source \/ timer) /\ UNCHANGED instance
      BY <2>4 DEF Native!Reboot
    <3>2. timer' \in BOOLEAN
      BY <3>1
    <3> QED
      BY <2>1, <2>2, <2>3, <3>1, <3>2
  <2>5. CASE Native!Terminate
    <3>1. instance' = "terminated" /\ UNCHANGED timer
      BY <2>5 DEF Native!Terminate
    <3> QED
      BY <2>1, <2>2, <2>3, <3>1
  <2> QED
    BY <2>4, <2>5
<1>2. connected' \in BOOLEAN /\ (instance' = "terminated" => ~ connected')
  <2>1. CASE connected' = FALSE
    BY <2>1
  <2>2. CASE UNCHANGED <<connected, instance>>
    BY <2>2 DEF NativeInv, NativeTyped, FenceTells
  <2> QED
    BY <2>1, <2>2, NativeConstants DEF Native!Reboot, Native!Terminate, Native!Down
<1>3. /\ Kept /\ commands' = {Fallen(h, c) : c \in commands}
      /\ \A c \in commands' : c.status # "Failed" => c \in commands
      /\ \A c \in commands : c.status # "InProgress" \/ c.request.host # h => c \in commands'
  BY <1>1, DownKept
<1>4. /\ acts' \in [Native!Hosts -> {Nobody} \cup [command : Commands, at : Nat, after : Nat]]
      /\ acts'[h] = Nobody /\ \A g \in Native!Hosts \ {h} : acts'[g] = acts[g]
      /\ run' \in [Native!Hosts -> SUBSET NativeActions]
  BY <1>1 DEF Native!Down, NativeInv, NativeTyped
<1>5. NativeTyped'
  BY <1>1, <1>2, <1>3, <1>4 DEF NativeInv, NativeTyped, Kept
<1>6. SentTells'
  BY <1>1, <1>3, SentKept
<1>7. HostTells'
  <2>1. ASSUME NEW g \in Native!Hosts, acts'[g] # Nobody PROVE g # h /\ acts'[g] = acts[g] /\ acts[g] # Nobody
    BY <1>4, <2>1
  <2> QED
    BY <1>1, <1>3, <2>1 DEF NativeInv, HostTells
<1>8. FenceTells'
  <2>1. \A c \in commands' : c.status = "Success" => c \in commands
    BY <1>3
  <2>2. acts'["source"] # Nobody => acts'["source"] = acts["source"] /\ h # "source"
    BY <1>4, NativeConstants
  <2> QED
    BY <1>1, <1>2, <2>1, <2>2 DEF NativeInv, FenceTells
<1>9. RestoredTells'
  <2>1. ASSUME NEW g \in Targets, \E c \in commands : c.action = "restore" /\ c.request.host = g
        PROVE  \E c \in commands' : c.action = "restore" /\ c.request.host = g
    BY <1>3, <2>1 DEF Kept, Same
  <2>2. \A g \in Targets : acts'[g] # Nobody => acts'[g] = acts[g]
    BY <1>4, NativeConstants
  <2> QED
    BY <1>1, <2>1, <2>2 DEF NativeInv, RestoredTells
<1> QED
  BY <1>5, <1>6, <1>7, <1>8, <1>9 DEF NativeInv

LEMMA Requested ==
  /\ \A r \in Native!Requests : r \in [host : Native!Hosts, rows : 0 .. MaxRows, receipt : 0 .. MaxBackups]
  /\ \A r \in Native!Requests : r # Nobody /\ r.host \in Native!Hosts /\ (r.host # "source" => r.host \in Targets)
BY NativeConstants DEF Native!Requests

\* The files and the programs of the operators, apart from what each of them does.
Others ==
  UNCHANGED <<instance, tasks, data, connected, timer, service, kept, run, intents, acts>>

LEMMA OthersKept ==
  ASSUME NativeInv, Others, commands \subseteq commands',
         \A c \in commands' : c.status = "Success" => c \in commands
  PROVE  HostTells' /\ FenceTells' /\ RestoredTells'
<1>1. HostTells'
  BY DEF Others, NativeInv, HostTells
<1>2. FenceTells'
  BY DEF Others, NativeInv, FenceTells
<1>3. RestoredTells'
  BY DEF Others, NativeInv, RestoredTells
<1> QED
  BY <1>1, <1>2, <1>3

LEMMA CheckSteps ==
  ASSUME NativeInv, NEW e \in Evidence, NEW action \in NativeActions, NEW request \in Native!Requests,
         Native!Check(e, action, request)
  PROVE  NativeInv'
<1> USE DEF Native!backup, Native!operator, Native!remote
<1> DEFINE r == [action |-> action, request |-> request, at |-> "checked"]
<1>1. /\ Others /\ UNCHANGED <<evidence, commands>> /\ step' = [step EXCEPT ![e] = r]
      /\ step[e] = Nobody
      /\ (action = "fence" <=> request.host = "source")
  BY NativeConstants DEF Native!Check, Native!Preflight, Others, NativeActions
<1>2. action = "restore" => Sound(request) /\ Fenced(e)
  <2> SUFFICES ASSUME action = "restore" PROVE Sound(request) /\ Fenced(e)
    OBVIOUS
  <2>1. /\ instance = "terminated" /\ request.host # "source"
        /\ evidence[e].fence # Nobody /\ Native!PriorFence(e, request)
    BY NativeConstants DEF Native!Check, Native!Preflight, Native!PriorFence
  <2>2. PICK c \in commands : /\ c.directory = e /\ c.action = "fence" /\ c.status = "Success"
                              /\ c.receipt = request.receipt
    BY <2>1 DEF Native!PriorFence
  <2>3. c.receipt \in 1 .. Len(kept) /\ kept[c.receipt] = data["source"].rows
    BY <2>2 DEF NativeInv, FenceTells
  <2> QED
    BY <2>1, <2>2, <2>3, Requested DEF Sound, Fenced
<1>3. r \in [action : NativeActions, request : Native!Requests, at : {"checked", "intended", "sent"}]
  OBVIOUS
<1>4. step \in [Evidence -> {Nobody} \cup [action : NativeActions, request : Native!Requests,
                                          at : {"checked", "intended", "sent"}]]
  BY DEF NativeInv, NativeTyped
<1>5. step'[e] = r /\ (\A d \in Evidence \ {e} : step'[d] = step[d])
      /\ step' \in [Evidence -> {Nobody} \cup [action : NativeActions, request : Native!Requests,
                                              at : {"checked", "intended", "sent"}]]
  BY <1>1, <1>3, <1>4
<1>6. NativeTyped'
  BY <1>1, <1>5 DEF Others, NativeInv, NativeTyped
<1>7. SentTells'
  <2>1. (\A q \in Native!Requests : Sound(q) => Sound(q)') /\ (\A d \in Evidence : Fenced(d) => Fenced(d)')
    BY <1>1 DEF Others, Sound, Fenced
  <2>2. ASSUME NEW d \in Evidence, step'[d] # Nobody
        PROVE  SendTells(d)'
    <3>1. CASE d = e
      <4>1. step'[d].action = action /\ step'[d].request = request /\ step'[d].at = "checked"
        BY <1>5, <3>1
      <4> QED
        BY <1>1, <1>2, <2>1, <3>1, <4>1 DEF SendTells
    <3>2. CASE d # e
      <4>1. step'[d] = step[d] /\ step[d] # Nobody
        BY <1>5, <2>2, <3>2
      <4> QED
        BY <1>1, <2>1, <4>1, StepIs DEF NativeInv, SentTells, SendTells
    <3> QED
      BY <3>1, <3>2
  <2>3. \A c \in commands' :
          /\ evidence'[c.directory][c.action] # Nobody
          /\ c.action = "fence" <=> c.request.host = "source"
          /\ c.action = "restore" => Sound(c.request)' /\ Fenced(c.directory)'
          /\ c.status = "Pending" => c.receipt = 0
    BY <1>1, <2>1, CommandIs DEF NativeInv, SentTells
  <2>4. \A b, c \in commands' : b.directory = c.directory /\ b.action = c.action => b = c
    BY <1>1 DEF NativeInv, SentTells
  <2> QED
    BY <2>2, <2>3, <2>4 DEF SentTells
<1> QED
  BY <1>1, <1>6, <1>7, OthersKept DEF NativeInv

\* A step of the operator that sends nothing, and after which its program is where it was,
\* at an intent that it made, or gone.
LEMMA OperatorKept ==
  ASSUME NativeInv, Others, UNCHANGED commands, NEW e \in Evidence, step[e] # Nobody,
         evidence' \in [Evidence -> [fence : Native!Requests \cup {Nobody},
                                     restore : Native!Requests \cup {Nobody}, sent : SUBSET NativeActions]],
         \A d \in Evidence, a \in NativeActions : evidence[d][a] # Nobody => evidence'[d][a] # Nobody,
         step' \in [Evidence -> {Nobody} \cup [action : NativeActions, request : Native!Requests,
                                              at : {"checked", "intended", "sent"}]],
         \A d \in Evidence \ {e} : step'[d] = step[d],
         step'[e] # Nobody => /\ step'[e].action = step[e].action /\ step'[e].request = step[e].request
                              /\ step'[e].at = "intended"
                              /\ evidence'[e][step[e].action] # Nobody
                              /\ evidence[e][step[e].action] = Nobody
  PROVE  NativeInv'
<1>1. NativeTyped'
  BY DEF Others, NativeInv, NativeTyped
<1>2. SentTells'
  <2>1. (\A q \in Native!Requests : Sound(q) => Sound(q)') /\ (\A d \in Evidence : Fenced(d) => Fenced(d)')
    BY DEF Others, Sound, Fenced
  <2>2. ASSUME NEW d \in Evidence, step'[d] # Nobody
        PROVE  SendTells(d)'
    <3>1. CASE d = e
      <4>1. /\ step[e].action = "fence" <=> step[e].request.host = "source"
            /\ step[e].action = "restore" => Sound(step[e].request) /\ Fenced(e)
            /\ step[e].request \in Native!Requests
        BY StepIs DEF NativeInv, SentTells, SendTells
      <4>2. step'[e].at = "intended" => ~ \E c \in commands : c.directory = e /\ c.action = step[e].action
        BY <2>2, <3>1 DEF NativeInv, SentTells
      <4> QED
        BY <2>1, <2>2, <3>1, <4>1, <4>2 DEF SendTells
    <3>2. CASE d # e
      <4>1. step'[d] = step[d] /\ step[d] # Nobody
        BY <2>2, <3>2
      <4> QED
        BY <2>1, <4>1, StepIs DEF NativeInv, SentTells, SendTells
    <3> QED
      BY <3>1, <3>2
  <2>3. \A c \in commands' :
          /\ evidence'[c.directory][c.action] # Nobody
          /\ c.action = "fence" <=> c.request.host = "source"
          /\ c.action = "restore" => Sound(c.request)' /\ Fenced(c.directory)'
          /\ c.status = "Pending" => c.receipt = 0
    BY <2>1, CommandIs DEF NativeInv, SentTells
  <2>4. \A b, c \in commands' : b.directory = c.directory /\ b.action = c.action => b = c
    BY DEF NativeInv, SentTells
  <2> QED
    BY <2>2, <2>3, <2>4 DEF SentTells
<1> QED
  BY <1>1, <1>2, OthersKept DEF NativeInv

LEMMA OperatesTypes ==
  ASSUME NativeInv
  PROVE  /\ evidence \in [Evidence -> [fence : Native!Requests \cup {Nobody},
                                       restore : Native!Requests \cup {Nobody}, sent : SUBSET NativeActions]]
         /\ step \in [Evidence -> {Nobody} \cup [action : NativeActions, request : Native!Requests,
                                                at : {"checked", "intended", "sent"}]]
BY DEF NativeInv, NativeTyped

LEMMA IntentSteps ==
  ASSUME NativeInv, NEW e \in Evidence, Native!Intent(e)
  PROVE  NativeInv'
<1> USE DEF Native!backup, Native!operator, Native!remote
<1> DEFINE files == [evidence[e] EXCEPT ![step[e].action] = step[e].request]
           s == [step[e] EXCEPT !.at = "intended"]
<1>1. /\ Others /\ UNCHANGED commands /\ step[e] # Nobody /\ evidence[e][step[e].action] = Nobody
      /\ evidence' = [evidence EXCEPT ![e] = files] /\ step' = [step EXCEPT ![e] = s]
  BY DEF Native!Intent, Native!At, Others
<1>2. /\ step[e] \in [action : NativeActions, request : Native!Requests, at : {"checked", "intended", "sent"}]
      /\ step[e].action \in NativeActions /\ step[e].request \in Native!Requests /\ step[e].request # Nobody
  BY <1>1, StepIs, Requested
<1>3. /\ s \in [action : NativeActions, request : Native!Requests, at : {"checked", "intended", "sent"}]
      /\ s.action = step[e].action /\ s.request = step[e].request /\ s.at = "intended"
  BY <1>2
<1>4. evidence[e] \in [fence : Native!Requests \cup {Nobody}, restore : Native!Requests \cup {Nobody},
                       sent : SUBSET NativeActions]
  BY OperatesTypes
<1>5. /\ files \in [fence : Native!Requests \cup {Nobody}, restore : Native!Requests \cup {Nobody},
                    sent : SUBSET NativeActions]
      /\ files[step[e].action] = step[e].request
      /\ \A a \in NativeActions \ {step[e].action} : files[a] = evidence[e][a]
  <2>1. CASE step[e].action = "fence"
    BY <1>2, <1>4, <2>1 DEF NativeActions
  <2>2. CASE step[e].action = "restore"
    BY <1>2, <1>4, <2>2 DEF NativeActions
  <2> QED
    BY <1>2, <2>1, <2>2 DEF NativeActions
<1> HIDE DEF files, s
<1>6. /\ evidence' \in [Evidence -> [fence : Native!Requests \cup {Nobody},
                                     restore : Native!Requests \cup {Nobody}, sent : SUBSET NativeActions]]
      /\ evidence'[e] = files /\ \A d \in Evidence \ {e} : evidence'[d] = evidence[d]
  BY <1>1, <1>5, OperatesTypes
<1>7. /\ step' \in [Evidence -> {Nobody} \cup [action : NativeActions, request : Native!Requests,
                                              at : {"checked", "intended", "sent"}]]
      /\ step'[e] = s /\ \A d \in Evidence \ {e} : step'[d] = step[d]
  BY <1>1, <1>3, OperatesTypes
<1>8. evidence'[e][step[e].action] # Nobody
  BY <1>2, <1>5, <1>6
<1>9. \A d \in Evidence, a \in NativeActions : evidence[d][a] # Nobody => evidence'[d][a] # Nobody
  BY <1>2, <1>5, <1>6
<1> QED
  BY <1>1, <1>3, <1>6, <1>7, <1>8, <1>9, OperatorKept

LEMMA DispatchSteps ==
  ASSUME NativeInv, NEW e \in Evidence, Native!DispatchResult(e) \/ Native!Leaves(e)
  PROVE  NativeInv'
<1> USE DEF Native!backup, Native!operator, Native!remote
<1>1. /\ Others /\ UNCHANGED commands /\ step[e] # Nobody /\ step' = [step EXCEPT ![e] = Nobody]
  BY DEF Native!DispatchResult, Native!Leaves, Native!At, Others
<1>2. /\ step' \in [Evidence -> {Nobody} \cup [action : NativeActions, request : Native!Requests,
                                              at : {"checked", "intended", "sent"}]]
      /\ step'[e] = Nobody /\ \A d \in Evidence \ {e} : step'[d] = step[d]
  BY <1>1, OperatesTypes
<1>3. /\ evidence' \in [Evidence -> [fence : Native!Requests \cup {Nobody},
                                     restore : Native!Requests \cup {Nobody}, sent : SUBSET NativeActions]]
      /\ \A d \in Evidence, a \in NativeActions : evidence[d][a] # Nobody => evidence'[d][a] # Nobody
  <2>1. CASE UNCHANGED evidence
    BY <2>1, OperatesTypes
  <2>2. CASE Native!DispatchResult(e)
    <3> DEFINE files == [evidence[e] EXCEPT !.sent = evidence[e].sent \cup {step[e].action}]
    <3>1. evidence' = [evidence EXCEPT ![e] = files]
      BY <2>2 DEF Native!DispatchResult
    <3>2. evidence[e] \in [fence : Native!Requests \cup {Nobody}, restore : Native!Requests \cup {Nobody},
                           sent : SUBSET NativeActions]
      BY OperatesTypes
    <3>3. evidence[e].sent \cup {step[e].action} \in SUBSET NativeActions
      BY <1>1, <3>2, StepIs
    <3>4. /\ files \in [fence : Native!Requests \cup {Nobody}, restore : Native!Requests \cup {Nobody},
                        sent : SUBSET NativeActions]
          /\ \A a \in NativeActions : files[a] = evidence[e][a]
      BY <3>2, <3>3 DEF NativeActions
    <3> HIDE DEF files
    <3>5. /\ evidence' \in [Evidence -> [fence : Native!Requests \cup {Nobody},
                                         restore : Native!Requests \cup {Nobody}, sent : SUBSET NativeActions]]
          /\ evidence'[e] = files /\ \A d \in Evidence \ {e} : evidence'[d] = evidence[d]
      BY <3>1, <3>4, OperatesTypes
    <3> QED
      BY <3>4, <3>5
  <2> QED
    BY <2>1, <2>2 DEF Native!Leaves
<1> QED
  BY <1>1, <1>2, <1>3, OperatorKept

LEMMA SendingSteps ==
  ASSUME NativeInv, NEW e \in Evidence, Native!Send(e)
  PROVE  NativeInv'
<1> USE DEF Native!backup, Native!operator, Native!remote
<1> DEFINE c0 == [directory |-> e, action |-> step[e].action, request |-> step[e].request,
                  status |-> "Pending", receipt |-> 0]
           s == [step[e] EXCEPT !.at = "sent"]
<1>1. /\ Others /\ UNCHANGED evidence /\ step[e] # Nobody /\ step[e].at = "intended"
      /\ commands' = commands \cup {c0}
      /\ step' = [step EXCEPT ![e] = s] \/ step' = [step EXCEPT ![e] = Nobody]
  BY DEF Native!Send, Native!At, Others
<1>2. /\ step[e] \in [action : NativeActions, request : Native!Requests, at : {"checked", "intended", "sent"}]
      /\ step[e].action \in NativeActions /\ step[e].request \in Native!Requests
      /\ SendTells(e)
  BY <1>1, StepIs DEF NativeInv, SentTells
<1>3. /\ s \in [action : NativeActions, request : Native!Requests, at : {"checked", "intended", "sent"}]
      /\ s.action = step[e].action /\ s.request = step[e].request /\ s.at = "sent"
  BY <1>2
<1>4. /\ c0 \in Commands /\ c0.directory = e /\ c0.action = step[e].action /\ c0.request = step[e].request
      /\ c0.status = "Pending" /\ c0.receipt = 0
  BY <1>2, NativeConstants DEF Commands
<1> HIDE DEF c0, s
<1>5. /\ step' \in [Evidence -> {Nobody} \cup [action : NativeActions, request : Native!Requests,
                                              at : {"checked", "intended", "sent"}]]
      /\ step'[e] = s \/ step'[e] = Nobody
      /\ \A d \in Evidence \ {e} : step'[d] = step[d]
  BY <1>1, <1>3, OperatesTypes
<1>6. NativeTyped'
  <2>1. commands' \subseteq Commands
    BY <1>1, <1>4, CommandIs
  <2> QED
    BY <1>1, <1>5, <2>1 DEF Others, NativeInv, NativeTyped
<1>7. SentTells'
  <2>1. (\A q \in Native!Requests : Sound(q) => Sound(q)') /\ (\A d \in Evidence : Fenced(d) => Fenced(d)')
    BY <1>1 DEF Others, Sound, Fenced
  <2>2. \A b, c \in commands' : b.directory = c.directory /\ b.action = c.action => b = c
    <3>1. \A b, c \in commands : b.directory = c.directory /\ b.action = c.action => b = c
      BY DEF NativeInv, SentTells
    <3>2. \A c \in commands : ~ (c.directory = e /\ c.action = step[e].action)
      BY <1>1, <1>2 DEF SendTells
    <3> QED
      BY <1>1, <1>4, <3>1, <3>2
  <2>3. ASSUME NEW c \in commands'
        PROVE  /\ evidence'[c.directory][c.action] # Nobody
               /\ c.action = "fence" <=> c.request.host = "source"
               /\ c.action = "restore" => Sound(c.request)' /\ Fenced(c.directory)'
               /\ c.status = "Pending" => c.receipt = 0
    <3>1. CASE c \in commands
      BY <1>1, <2>1, <3>1, CommandIs DEF NativeInv, SentTells
    <3>2. CASE c = c0
      BY <1>1, <1>2, <1>4, <2>1, <3>2 DEF SendTells
    <3> QED
      BY <1>1, <3>1, <3>2
  <2>4. ASSUME NEW d \in Evidence, step'[d] # Nobody PROVE SendTells(d)'
    <3>1. CASE d = e
      BY <1>2, <1>3, <1>5, <2>1, <2>4, <3>1 DEF SendTells
    <3>2. CASE d # e
      <4>1. step'[d] = step[d] /\ step[d] # Nobody /\ SendTells(d)
        BY <1>5, <2>4, <3>2 DEF NativeInv, SentTells
      <4>2. \A c \in commands' : c.directory = d => c \in commands
        BY <1>1, <1>4, <3>2
      <4> QED
        BY <1>1, <2>1, <4>1, <4>2, StepIs DEF SendTells
    <3> QED
      BY <3>1, <3>2
  <2> QED
    BY <2>2, <2>3, <2>4 DEF SentTells
<1>8. commands \subseteq commands' /\ \A c \in commands' : c.status = "Success" => c \in commands
  BY <1>1, <1>4
<1> QED
  BY <1>1, <1>6, <1>7, <1>8, OthersKept DEF NativeInv

LEMMA OperatesSteps ==
  ASSUME NativeInv, NEW e \in Evidence, Native!Operates(e)
  PROVE  NativeInv'
BY CheckSteps, IntentSteps, SendingSteps, DispatchSteps DEF Native!Operates, NativeActions

\* A command is settled, or taken, and what else runs goes on.
LEMMA SettlesKept ==
  ASSUME NativeInv, NEW b \in commands, b.status \in {"Pending", "InProgress"},
         NEW status \in {"InProgress", "Failed"}, Native!Settle(b, status, 0),
         UNCHANGED <<instance, tasks, data, connected, timer, service, kept, evidence, step, intents>>,
         run' \in [Native!Hosts -> SUBSET NativeActions],
         acts' \in [Native!Hosts -> {Nobody} \cup [command : Commands, at : Nat, after : Nat]],
         \A g \in Native!Hosts : acts'[g] # Nobody =>
           \/ acts'[g] = acts[g] /\ acts[g].command # b
           \/ /\ acts'[g].at = 1 /\ acts'[g].command \in commands' /\ acts'[g].command.status = "InProgress"
              /\ acts'[g].command.request.host = g
  PROVE  NativeInv'
<1> DEFINE d == Settled(b, status, 0)
<1>1. Kept /\ commands' = (commands \ {b}) \cup {d} /\ d.status # "Success" /\ b.status # "Success"
  <2>1. b.status # "Success" /\ 0 \in 0 .. MaxBackups
    BY NativeConstants
  <2> QED
    BY <2>1, SettledKept
<1> HIDE DEF d
<1>2. \A c \in commands' : c.status = "Success" => c \in commands
  BY <1>1
<1>3. NativeTyped'
  <2>1. \A g \in Native!Hosts : acts'[g] # Nobody => acts'[g].at \in DOMAIN Native!Program(acts'[g].command.action)
    <3>1. ASSUME NEW g \in Native!Hosts, acts'[g] # Nobody, acts'[g].at = 1
          PROVE  acts'[g].at \in DOMAIN Native!Program(acts'[g].command.action)
      <4>1. acts'[g].command.action \in NativeActions
        BY <3>1 DEF Commands
      <4> QED
        BY <3>1, <4>1, FenceSteps, RestoringSteps DEF NativeActions
    <3> QED
      BY <3>1 DEF NativeInv, NativeTyped
  <2> QED
    BY <1>1, <2>1 DEF NativeInv, NativeTyped, Kept
<1>4. SentTells'
  BY <1>1, SentKept
<1>5. HostTells'
  <2> SUFFICES ASSUME NEW g \in Native!Hosts, acts'[g] # Nobody
               PROVE  /\ acts'[g].command \in commands' /\ acts'[g].command.status = "InProgress"
                      /\ acts'[g].command.request.host = g
                      /\ acts'[g].at > 1 => acts'[g].command.action \in intents'[g]
    BY DEF HostTells
  <2>1. CASE acts'[g] = acts[g] /\ acts[g].command # b
    BY <1>1, <2>1 DEF NativeInv, HostTells
  <2>2. CASE ~ (acts'[g] = acts[g] /\ acts[g].command # b)
    BY <2>2
  <2> QED
    BY <2>1, <2>2
<1>6. FenceTells'
  <2>1. acts'["source"] # Nobody => acts'["source"] = acts["source"] \/ acts'["source"].at = 1
    BY NativeConstants
  <2> QED
    BY <1>2, <2>1 DEF NativeInv, FenceTells
<1>7. RestoredTells'
  <2>1. ASSUME NEW g \in Targets, \E c \in commands : c.action = "restore" /\ c.request.host = g
        PROVE  \E c \in commands' : c.action = "restore" /\ c.request.host = g
    BY <1>1, <2>1 DEF Kept, Same
  <2>2. \A g \in Targets : acts'[g] # Nobody => acts'[g] = acts[g] \/ acts'[g].at = 1
    BY NativeConstants
  <2> QED
    BY <2>1, <2>2 DEF NativeInv, RestoredTells
<1> QED
  BY <1>3, <1>4, <1>5, <1>6, <1>7 DEF NativeInv

LEMMA DeliverSteps ==
  ASSUME NativeInv, NEW b \in commands, Native!Deliver(b)
  PROVE  NativeInv'
<1> USE DEF Native!backup, Native!operator, Native!remote
<1> DEFINE h == b.request.host
           d == [b EXCEPT !.status = "InProgress"]
           act == [command |-> d, at |-> 1, after |-> 0]
<1>1. /\ b \in Commands /\ h \in Native!Hosts /\ b.status = "Pending" /\ b.receipt = 0
      /\ UNCHANGED <<instance, tasks, data, connected, timer, service, kept, evidence, step, intents>>
  BY CommandIs DEF Native!Deliver, NativeInv, SentTells
<1>2. \A g \in Native!Hosts : acts[g] # Nobody => acts[g].command # b
  BY <1>1, ActIs
<1>3. /\ acts \in [Native!Hosts -> {Nobody} \cup [command : Commands, at : Nat, after : Nat]]
      /\ run \in [Native!Hosts -> SUBSET NativeActions]
  BY DEF NativeInv, NativeTyped
<1>4. CASE Native!Settle(b, "Failed", 0) /\ UNCHANGED <<run, acts>>
  BY <1>1, <1>2, <1>3, <1>4, SettlesKept
<1>5. CASE /\ run' = [run EXCEPT ![h] = run[h] \cup {b.action}]
           /\ Native!Settle(b, "InProgress", 0) /\ acts' = [acts EXCEPT ![h] = act]
  <2>1. run' \in [Native!Hosts -> SUBSET NativeActions]
    BY <1>1, <1>3, <1>5 DEF Commands
  <2>2. /\ d \in Commands /\ d = [b EXCEPT !.status = "InProgress", !.receipt = 0] /\ d.request.host = h
        /\ d.status = "InProgress"
    BY <1>1 DEF Commands
  <2>3. d \in commands'
    BY <1>5, <2>2 DEF Native!Settle
  <2>4. act \in [command : Commands, at : Nat, after : Nat] /\ act.command = d /\ act.at = 1
    BY <2>2
  <2> HIDE DEF act
  <2>5. /\ acts' \in [Native!Hosts -> {Nobody} \cup [command : Commands, at : Nat, after : Nat]]
        /\ acts'[h] = act /\ \A g \in Native!Hosts \ {h} : acts'[g] = acts[g]
    BY <1>1, <1>3, <1>5, <2>4
  <2> HIDE DEF h, d
  <2>6. ASSUME NEW g \in Native!Hosts, acts'[g] # Nobody
        PROVE  \/ acts'[g] = acts[g] /\ acts[g].command # b
               \/ /\ acts'[g].at = 1 /\ acts'[g].command \in commands' /\ acts'[g].command.status = "InProgress"
                  /\ acts'[g].command.request.host = g
    <3>1. CASE g = h
      <4>1. acts'[g].at = 1 /\ acts'[g].command = d
        BY <2>4, <2>5, <3>1
      <4> QED
        BY <2>2, <2>3, <3>1, <4>1
    <3>2. CASE g # h
      <4>1. acts'[g] = acts[g]
        BY <2>5, <3>2
      <4> QED
        BY <1>2, <2>6, <4>1
    <3> QED
      BY <3>1, <3>2
  <2> QED
    BY <1>1, <1>5, <2>1, <2>5, <2>6, SettlesKept
<1> QED
  BY <1>4, <1>5 DEF Native!Deliver

LEMMA FailsSteps ==
  ASSUME NativeInv, NEW h \in Native!Hosts, Native!Fails(h)
  PROVE  NativeInv'
<1> USE DEF Native!backup, Native!operator, Native!remote
<1> DEFINE b == acts[h].command
<1>1. /\ UNCHANGED <<instance, tasks, data, connected, timer, service, kept, evidence, step, run, intents>>
      /\ acts[h] # Nobody /\ Native!Settle(b, "Failed", 0) /\ acts' = [acts EXCEPT ![h] = Nobody]
  BY DEF Native!Fails
<1>2. b \in commands /\ b.status = "InProgress" /\ b.request.host = h
  BY <1>1, ActIs
<1>3. /\ acts \in [Native!Hosts -> {Nobody} \cup [command : Commands, at : Nat, after : Nat]]
      /\ run \in [Native!Hosts -> SUBSET NativeActions]
  BY DEF NativeInv, NativeTyped
<1>4. /\ acts' \in [Native!Hosts -> {Nobody} \cup [command : Commands, at : Nat, after : Nat]]
      /\ acts'[h] = Nobody /\ \A g \in Native!Hosts \ {h} : acts'[g] = acts[g]
  BY <1>1, <1>3
<1>5. ASSUME NEW g \in Native!Hosts, acts'[g] # Nobody PROVE acts'[g] = acts[g] /\ acts[g].command # b
  <2>1. g # h /\ acts'[g] = acts[g]
    BY <1>4, <1>5
  <2>2. acts[g].command.request.host = g
    BY <1>5, <2>1, ActIs
  <2> QED
    BY <1>2, <2>1, <2>2
<1> HIDE DEF b
<1> QED
  BY <1>1, <1>2, <1>3, <1>4, <1>5, SettlesKept

\* No fence has succeeded while one is under way that had its intent to make, or made it.
LEMMA OneFence ==
  ASSUME NativeInv, acts["source"] # Nobody,
         acts["source"].at # 1 \/ acts["source"].command.action \notin intents["source"]
  PROVE  \A c \in commands : ~ (c.action = "fence" /\ c.status = "Success")
<1>1. acts["source"].command.action = "fence"
  BY ActIs, NativeConstants
<1> QED
  BY <1>1 DEF NativeInv, FenceTells

LEMMA ResultSteps ==
  ASSUME NativeInv, NEW h \in Native!Hosts, Native!Result(h)
  PROVE  NativeInv'
<1> USE DEF Native!backup, Native!operator, Native!remote
<1> DEFINE b == acts[h].command
           receipt == IF b.action = "fence" THEN Len(kept) ELSE 0
           d == Settled(b, "Success", receipt)
<1>1. /\ UNCHANGED <<instance, tasks, data, connected, timer, service, kept, evidence, step, run, intents>>
      /\ acts[h] # Nobody /\ Native!Settle(b, "Success", receipt) /\ acts' = [acts EXCEPT ![h] = Nobody]
      /\ Native!Program(b.action)[acts[h].at] = "result"
  BY DEF Native!Result, Native!Runs
<1>2. /\ b \in commands /\ b \in Commands /\ b.status = "InProgress" /\ b.request.host = h
      /\ b.action \in NativeActions /\ (b.action = "fence" <=> h = "source")
  BY <1>1, ActIs
<1>3. receipt \in 0 .. MaxBackups
  BY LengthIs, NativeConstants DEF NativeInv, NativeTyped
<1>4. /\ acts \in [Native!Hosts -> {Nobody} \cup [command : Commands, at : Nat, after : Nat]]
      /\ run \in [Native!Hosts -> SUBSET NativeActions]
  BY DEF NativeInv, NativeTyped
<1>5. /\ acts' \in [Native!Hosts -> {Nobody} \cup [command : Commands, at : Nat, after : Nat]]
      /\ acts'[h] = Nobody /\ \A g \in Native!Hosts \ {h} : acts'[g] = acts[g]
  BY <1>1, <1>4
<1>6. ASSUME NEW g \in Native!Hosts, acts'[g] # Nobody
      PROVE  g # h /\ acts'[g] = acts[g] /\ acts[g] # Nobody /\ acts[g].command # b
  <2>1. g # h /\ acts'[g] = acts[g]
    BY <1>5, <1>6
  <2>2. acts[g].command.request.host = g
    BY <1>6, <2>1, ActIs
  <2> QED
    BY <1>2, <1>6, <2>1, <2>2
<1>7. h = "source" => /\ receipt \in 1 .. Len(kept) /\ kept[receipt] = data["source"].rows
                      /\ data["source"].mode = "ro" /\ "fence" \in intents["source"]
                      /\ \A c \in commands : ~ (c.action = "fence" /\ c.status = "Success")
  <2> SUFFICES ASSUME h = "source"
               PROVE  /\ receipt \in 1 .. Len(kept) /\ kept[receipt] = data["source"].rows
                      /\ data["source"].mode = "ro" /\ "fence" \in intents["source"]
                      /\ \A c \in commands : ~ (c.action = "fence" /\ c.status = "Success")
    OBVIOUS
  <2>1. acts["source"].at = 11 /\ b.action = "fence" /\ receipt = Len(kept)
    BY <1>1, <1>2, RunsAt
  <2>2. /\ data["source"].mode = "ro" /\ Len(kept) > acts["source"].after
        /\ \A i \in 1 .. Len(kept) : i > acts["source"].after => kept[i] = data["source"].rows
    BY <1>1, <2>1 DEF NativeInv, FenceTells
  <2>3. acts["source"].after \in Nat
    BY <1>1, ActIs
  <2>4. "fence" \in intents["source"]
    BY <1>1, <2>1 DEF NativeInv, HostTells
  <2>5. \A c \in commands : ~ (c.action = "fence" /\ c.status = "Success")
    BY <1>1, <2>1, OneFence
  <2> QED
    BY <2>1, <2>2, <2>3, <2>4, <2>5, LengthIs
<1>8. /\ Kept /\ commands' = (commands \ {b}) \cup {d} /\ d.status = "Success" /\ d.receipt = receipt
      /\ d.action = b.action
  BY <1>1, <1>2, <1>3, SettledKept DEF Same
<1> HIDE DEF b, d, receipt
<1>9. NativeTyped'
  BY <1>1, <1>5, <1>6, <1>8 DEF NativeInv, NativeTyped, Kept
<1>10. SentTells'
  BY <1>1, <1>8, SentKept
<1>11. HostTells'
  BY <1>1, <1>6, <1>8 DEF NativeInv, HostTells
<1>12. FenceTells'
  <2>1. \A c \in commands' : c.action = "fence" /\ c.status = "Success" =>
          c \in commands \/ (c = d /\ h = "source")
    <3>1. d.action = "fence" => h = "source"
      BY <1>2, <1>8
    <3>2. \A c \in commands' : c \in commands \/ c = d
      BY <1>8
    <3> QED
      BY <3>1, <3>2
  <2>2. \A c \in commands' : c.action = "fence" /\ c.status = "Success" =>
          /\ "fence" \in intents["source"] /\ data["source"].mode = "ro"
          /\ c.receipt \in 1 .. Len(kept) /\ kept[c.receipt] = data["source"].rows
          /\ acts'["source"] # Nobody => acts'["source"].at = 1
    <3>1. acts'["source"] # Nobody => acts'["source"] = acts["source"] /\ h # "source"
      BY <1>6, NativeConstants
    <3> QED
      BY <1>7, <1>8, <2>1, <3>1 DEF NativeInv, FenceTells
  <2>3. \A p, q \in commands' :
          p.action = "fence" /\ p.status = "Success" /\ q.action = "fence" /\ q.status = "Success" => p = q
    BY <1>7, <2>1 DEF NativeInv, FenceTells
  <2>4. acts'["source"] # Nobody => acts'["source"] = acts["source"]
    BY <1>6, NativeConstants
  <2> QED
    BY <1>1, <2>2, <2>3, <2>4 DEF NativeInv, FenceTells
<1>13. RestoredTells'
  <2>1. ASSUME NEW g \in Targets, \E c \in commands : c.action = "restore" /\ c.request.host = g
        PROVE  \E c \in commands' : c.action = "restore" /\ c.request.host = g
    BY <1>8, <2>1 DEF Kept, Same
  <2>2. \A g \in Targets : acts'[g] # Nobody => acts'[g] = acts[g]
    BY <1>6, NativeConstants
  <2> QED
    BY <1>1, <2>1, <2>2 DEF NativeInv, RestoredTells
<1> QED
  BY <1>9, <1>10, <1>11, <1>12, <1>13 DEF NativeInv

DataTyped ==
  data \in [Native!Hosts -> [rows : 0 .. MaxRows, mode : {"empty", "rw", "ro"}, enabled : BOOLEAN,
                            restored : 0 .. MaxBackups]]

ActsTyped == acts \in [Native!Hosts -> {Nobody} \cup [command : Commands, at : Nat, after : Nat]]

\* A step of a host, after which it is at its next.
Goes(h) ==
  /\ acts[h] # Nobody /\ ActsTyped'
  /\ acts'[h].command = acts[h].command /\ acts'[h].at = acts[h].at + 1
  /\ \A g \in Native!Hosts \ {h} : acts'[g] = acts[g] /\ data'[g] = data[g] /\ intents'[g] = intents[g]
  /\ Native!Program(acts[h].command.action)[acts[h].at] # "result"
  /\ UNCHANGED <<instance, tasks, connected, kept, evidence, step, commands, run>>
  /\ timer' \in BOOLEAN /\ DataTyped'
  /\ service' # Nobody => service' \in [rows : 0 .. MaxRows] /\ Len(kept) < MaxBackups

LEMMA GoesKept ==
  ASSUME NativeInv, NEW h \in Native!Hosts, Goes(h),
         intents' \in [Native!Hosts -> SUBSET NativeActions],
         intents[h] \subseteq intents'[h], acts[h].at = 1 => acts[h].command.action \in intents'[h],
         h = "source" => data'[h].rows = data[h].rows
  PROVE  NativeTyped' /\ SentTells' /\ HostTells'
<1>1. NativeTyped'
  <2>1. acts'[h].at \in DOMAIN Native!Program(acts'[h].command.action)
    BY RunsAt DEF Goes
  <2>2. \A g \in Native!Hosts : acts'[g] # Nobody => acts'[g].at \in DOMAIN Native!Program(acts'[g].command.action)
    BY <2>1 DEF Goes, NativeInv, NativeTyped
  <2> QED
    BY <2>2 DEF Goes, NativeInv, NativeTyped, DataTyped, ActsTyped
<1>2. SentTells'
  <2>1. data'["source"].rows = data["source"].rows /\ UNCHANGED <<instance, kept, evidence, step, commands>>
    BY NativeConstants DEF Goes
  <2> QED
    BY <2>1 DEF NativeInv, SentTells, SendTells, Sound, Fenced
<1>3. HostTells'
  <2> SUFFICES ASSUME NEW g \in Native!Hosts, acts'[g] # Nobody
               PROVE  /\ acts'[g].command \in commands /\ acts'[g].command.status = "InProgress"
                      /\ acts'[g].command.request.host = g
                      /\ acts'[g].at > 1 => acts'[g].command.action \in intents'[g]
    BY DEF HostTells, Goes
  <2>1. CASE g = h
    <3>1. /\ acts[h].at \in Nat \ {0}
          /\ acts[h].command \in commands /\ acts[h].command.status = "InProgress"
          /\ acts[h].command.request.host = h
      BY ActIs, RunsAt DEF Goes
    <3>2. acts[h].at > 1 => acts[h].command.action \in intents[h]
      BY DEF Goes, NativeInv, HostTells
    <3> QED
      BY <2>1, <3>1, <3>2 DEF Goes
  <2>2. CASE g # h
    BY <2>2 DEF Goes, NativeInv, HostTells
  <2> QED
    BY <2>1, <2>2
<1> QED
  BY <1>1, <1>2, <1>3

LEMMA GoesOnSource ==
  ASSUME NativeInv, Goes("source"), intents["source"] \subseteq intents'["source"],
         acts["source"].at = 1 => acts["source"].command.action \notin intents["source"],
         data'["source"].rows = data["source"].rows,
         data'["source"].mode = data["source"].mode \/ data'["source"].mode = "ro",
         acts["source"].at = 7 => data'["source"].mode = "ro",
         acts["source"].at # 9 => acts'["source"].after = acts["source"].after /\ service' = service,
         acts["source"].at = 9 => /\ acts'["source"].after = Len(kept)
                                  /\ service' # Nobody => service'.rows = data["source"].rows,
         acts["source"].at = 10 => Len(kept) > acts["source"].after
  PROVE  FenceTells' /\ RestoredTells'
<1>1. acts["source"] # Nobody /\ "source" \in Native!Hosts /\ acts["source"].at \in Nat \ {0}
      /\ acts["source"].at < 11 /\ Targets \subseteq Native!Hosts \ {"source"}
  <2>1. acts["source"] # Nobody /\ "source" \in Native!Hosts /\ Targets \subseteq Native!Hosts \ {"source"}
    BY NativeConstants DEF Goes
  <2>2. /\ acts["source"].at \in 1 .. 11 /\ acts["source"].command.action = "fence"
    BY <2>1, ActIs, FenceSteps
  <2>3. acts["source"].at # 11
    BY <2>2, FenceSteps DEF Goes
  <2> QED
    BY <2>1, <2>2, <2>3
<1>2. \A c \in commands : ~ (c.action = "fence" /\ c.status = "Success")
  BY <1>1, OneFence
<1>3. /\ acts["source"].at > 7 => data["source"].mode = "ro"
      /\ acts["source"].at > 9 =>
           /\ service # Nobody => service.rows = data["source"].rows
           /\ \A i \in 1 .. Len(kept) : i > acts["source"].after => kept[i] = data["source"].rows
  BY <1>1 DEF NativeInv, FenceTells
<1>4. acts'["source"].at = acts["source"].at + 1 /\ UNCHANGED <<instance, connected, kept, commands>>
  BY DEF Goes
<1>5. acts'["source"].at > 7 => data'["source"].mode = "ro"
  BY <1>1, <1>3, <1>4
<1>6. acts'["source"].at > 9 =>
        /\ service' # Nobody => service'.rows = data'["source"].rows
        /\ \A i \in 1 .. Len(kept') : i > acts'["source"].after => kept'[i] = data'["source"].rows
  <2>1. CASE acts["source"].at = 9
    BY <1>4, <2>1, LengthIs
  <2>2. CASE acts["source"].at # 9
    BY <1>1, <1>3, <1>4, <2>2
  <2> QED
    BY <2>1, <2>2
<1>7. acts'["source"].at > 10 => Len(kept') > acts'["source"].after
  BY <1>1, <1>4
<1>8. FenceTells'
  BY <1>2, <1>4, <1>5, <1>6, <1>7 DEF NativeInv, FenceTells
<1>9. RestoredTells'
  BY <1>1, <1>4 DEF Goes, NativeInv, RestoredTells
<1> QED
  BY <1>8, <1>9

LEMMA GoesOnTarget ==
  ASSUME NativeInv, NEW h \in Targets, Goes(h), service' = service,
         data'[h].restored # 0 => /\ instance = "terminated" /\ data'[h].restored \in 1 .. Len(kept)
                                  /\ kept[data'[h].restored] = data["source"].rows,
         acts[h].at > 2 => data'[h].restored # 0,
         data'[h].mode = data[h].mode \/ acts[h].command.action = "restore"
  PROVE  FenceTells' /\ RestoredTells'
<1>1. /\ h \in Native!Hosts \ {"source"} /\ "source" \in Native!Hosts \ {h} /\ acts[h] # Nobody
      /\ acts[h].at \in Nat /\ Targets \subseteq Native!Hosts
      /\ acts[h].command \in commands /\ acts[h].command.request.host = h
  BY NativeConstants, ActIs DEF Goes
<1>2. /\ acts'["source"] = acts["source"] /\ data'["source"] = data["source"] /\ intents'["source"] = intents["source"]
      /\ UNCHANGED <<instance, connected, kept, commands>> /\ acts'[h].at = acts[h].at + 1
      /\ \A g \in Targets \ {h} : acts'[g] = acts[g] /\ data'[g] = data[g]
  BY <1>1 DEF Goes
<1>3. FenceTells'
  BY <1>2 DEF NativeInv, FenceTells
<1>4. RestoredTells'
  <2> SUFFICES ASSUME NEW g \in Targets
               PROVE  /\ data'[g].restored # 0 =>
                           /\ instance = "terminated" /\ data'[g].restored \in 1 .. Len(kept)
                           /\ kept[data'[g].restored] = data["source"].rows
                      /\ acts'[g] # Nobody /\ acts'[g].at > 3 => data'[g].restored # 0
                      /\ data'[g].mode # "empty" =>
                           instance = "terminated" /\ \E c \in commands : c.action = "restore" /\ c.request.host = g
    BY <1>2 DEF RestoredTells
  <2>1. CASE g = h
    <3>1. acts[h].command.action = "restore" => instance = "terminated"
      BY <1>1 DEF NativeInv, SentTells, Sound
    <3>2. data'[h].mode # "empty" =>
            instance = "terminated" /\ \E c \in commands : c.action = "restore" /\ c.request.host = h
      BY <1>1, <3>1 DEF NativeInv, RestoredTells
    <3> QED
      BY <1>1, <1>2, <2>1, <3>2
  <2>2. CASE g # h
    BY <1>2, <2>2 DEF NativeInv, RestoredTells
  <2> QED
    BY <2>1, <2>2
<1> QED
  BY <1>3, <1>4

\* A step that changes no more of a host than where it is.
LEMMA Proceeds ==
  ASSUME NativeInv, NEW h \in Native!Hosts, acts[h] # Nobody, Native!Advance(h),
         Native!Program(acts[h].command.action)[acts[h].at] # "result",
         UNCHANGED <<instance, tasks, connected, service, kept, evidence, step, commands, run>>,
         timer' \in BOOLEAN, DataTyped', \A g \in Native!Hosts \ {h} : data'[g] = data[g] /\ intents'[g] = intents[g]
  PROVE  Goes(h) /\ acts'[h].after = acts[h].after
<1>1. service # Nobody => service \in [rows : 0 .. MaxRows] /\ Len(kept) < MaxBackups
  BY DEF NativeInv, NativeTyped
<1> QED
  BY <1>1, Stepped DEF Goes, ActsTyped

LEMMA DataIs ==
  ASSUME NativeInv, NEW h \in Native!Hosts
  PROVE  /\ DataTyped /\ timer \in BOOLEAN /\ intents \in [Native!Hosts -> SUBSET NativeActions]
         /\ data[h] \in [rows : 0 .. MaxRows, mode : {"empty", "rw", "ro"}, enabled : BOOLEAN,
                         restored : 0 .. MaxBackups]
BY DEF NativeInv, NativeTyped, DataTyped

LEMMA BeginSteps ==
  ASSUME NativeInv, NEW h \in Native!Hosts, Native!Begin(h)
  PROVE  NativeInv'
<1> USE DEF Native!backup, Native!operator, Native!remote
<1>1. /\ acts[h] # Nobody /\ Native!Advance(h) /\ acts[h].command.action \notin intents[h]
      /\ Native!Program(acts[h].command.action)[acts[h].at] = "begin"
      /\ intents' = [intents EXCEPT ![h] = intents[h] \cup {acts[h].command.action}]
      /\ UNCHANGED <<instance, tasks, data, connected, timer, service, kept, evidence, step, commands, run>>
  BY DEF Native!Begin, Native!Runs
<1>2. acts[h].at = 1 /\ acts[h].command.action \in NativeActions
  BY <1>1, RunsAt, ActIs
<1>3. /\ intents' \in [Native!Hosts -> SUBSET NativeActions]
      /\ intents'[h] = intents[h] \cup {acts[h].command.action}
      /\ \A g \in Native!Hosts \ {h} : intents'[g] = intents[g]
  BY <1>1, <1>2, DataIs
<1>4. /\ timer' \in BOOLEAN /\ DataTyped'
  BY <1>1, DataIs DEF DataTyped
<1>5. Goes(h) /\ acts'[h].after = acts[h].after
  BY <1>1, <1>3, <1>4, Proceeds
<1>6. NativeTyped' /\ SentTells' /\ HostTells'
  BY <1>1, <1>3, <1>5, GoesKept
<1>7. CASE h = "source"
  BY <1>1, <1>2, <1>3, <1>5, <1>6, <1>7, GoesOnSource DEF NativeInv
<1>8. CASE h \in Targets
  BY <1>1, <1>2, <1>5, <1>6, <1>8, GoesOnTarget DEF NativeInv, RestoredTells
<1> QED
  BY <1>7, <1>8, NativeConstants

\* The steps of a fence.
LEMMA FenceActs ==
  ASSUME NativeInv, NEW h \in Native!Hosts, acts[h] # Nobody, h = "source", acts[h].at # 1,
         acts[h].at # 9, Native!Advance(h),
         Native!Program(acts[h].command.action)[acts[h].at] # "result",
         UNCHANGED <<instance, tasks, connected, service, kept, evidence, step, commands, run, intents>>,
         timer' \in BOOLEAN, DataTyped', \A g \in Native!Hosts \ {h} : data'[g] = data[g],
         data'[h].rows = data[h].rows, data'[h].mode = data[h].mode \/ data'[h].mode = "ro",
         acts[h].at = 7 => data'[h].mode = "ro",
         acts[h].at = 10 => Len(kept) > acts[h].after
  PROVE  NativeInv'
<1>1. Goes(h) /\ acts'[h].after = acts[h].after
  BY Proceeds
<1>2. NativeTyped' /\ SentTells' /\ HostTells'
  BY <1>1, GoesKept, DataIs
<1>3. FenceTells' /\ RestoredTells'
  BY <1>1, GoesOnSource
<1> QED
  BY <1>2, <1>3 DEF NativeInv

\* The steps of a restore.
LEMMA RestoreActs ==
  ASSUME NativeInv, NEW h \in Targets, acts[h] # Nobody, acts[h].at # 1, Native!Advance(h),
         Native!Program(acts[h].command.action)[acts[h].at] # "result",
         UNCHANGED <<instance, tasks, connected, timer, service, kept, evidence, step, commands, run, intents>>,
         DataTyped', \A g \in Native!Hosts \ {h} : data'[g] = data[g],
         data'[h].restored # 0 => /\ instance = "terminated" /\ data'[h].restored \in 1 .. Len(kept)
                                  /\ kept[data'[h].restored] = data["source"].rows,
         acts[h].at > 2 => data'[h].restored # 0
  PROVE  NativeInv'
<1>1. h \in Native!Hosts /\ h # "source" /\ timer' \in BOOLEAN
  BY NativeConstants, DataIs
<1>2. Goes(h)
  BY <1>1, Proceeds
<1>3. acts[h].command.action = "restore"
  BY <1>1, ActIs DEF NativeActions
<1>4. NativeTyped' /\ SentTells' /\ HostTells'
  BY <1>1, <1>2, GoesKept, DataIs
<1>5. FenceTells' /\ RestoredTells'
  BY <1>2, <1>3, GoesOnTarget
<1> QED
  BY <1>4, <1>5 DEF NativeInv

LEMMA ReadsSteps ==
  ASSUME NativeInv, NEW h \in Native!Hosts, Native!Reads(h) \/ Native!StopTimer(h) \/ Native!FinalBackup(h)
  PROVE  NativeInv'
<1> USE DEF Native!backup, Native!operator, Native!remote
<1> DEFINE s == Native!Program(acts[h].command.action)[acts[h].at]
<1>1. /\ acts[h] # Nobody /\ Native!Advance(h)
      /\ s \in {"before", "service", "after", "fresh", "data", "timer", "backup"}
      /\ s = "backup" => Len(kept) > acts[h].after
      /\ UNCHANGED <<instance, tasks, data, connected, service, kept, evidence, step, commands, run, intents>>
      /\ timer' = timer \/ (timer' = FALSE /\ s = "timer")
  BY DEF Native!Reads, Native!StopTimer, Native!FinalBackup, Native!Runs
<1>2. s # "result"
  BY <1>1
<1>3. timer' \in BOOLEAN /\ DataTyped'
  BY <1>1, DataIs DEF DataTyped
<1>4. CASE h = "source"
  <2>1. acts[h].at # 1 /\ acts[h].at # 9 /\ acts[h].at # 7 /\ (acts[h].at = 10 => s = "backup")
    BY <1>1, <1>4, RunsAt
  <2> QED
    BY <1>1, <1>2, <1>3, <1>4, <2>1, FenceActs
<1>5. CASE h \in Targets
  <2>1. h # "source"
    BY <1>5, NativeConstants
  <2>2. s \in {"fresh", "data"} /\ acts[h].at # 1 /\ (acts[h].at = 2 \/ acts[h].at = 5)
    BY <1>1, <2>1, RunsAt
  <2>3. /\ data[h].restored # 0 => /\ instance = "terminated" /\ data[h].restored \in 1 .. Len(kept)
                                   /\ kept[data[h].restored] = data["source"].rows
        /\ acts[h].at > 3 => data[h].restored # 0
    BY <1>1, <1>5 DEF NativeInv, RestoredTells
  <2>4. UNCHANGED timer
    BY <1>1, <2>2
  <2>5. acts[h].at > 2 => data[h].restored # 0
    BY <2>2, <2>3
  <2> QED
    BY <1>1, <1>3, <1>5, <2>2, <2>3, <2>4, <2>5, RestoreActs
<1> QED
  BY <1>4, <1>5, NativeConstants

LEMMA DataSteps ==
  ASSUME NativeInv, NEW h \in Native!Hosts, Native!DisableLogins(h) \/ Native!SetReadOnly(h)
  PROVE  NativeInv'
<1> USE DEF Native!backup, Native!operator, Native!remote
<1> DEFINE s == Native!Program(acts[h].command.action)[acts[h].at]
<1>1. /\ acts[h] # Nobody /\ Native!Advance(h) /\ s \in {"disable", "readonly"}
      /\ UNCHANGED <<instance, tasks, connected, timer, service, kept, evidence, step, commands, run, intents>>
      /\ \/ s = "disable" /\ data' = [data EXCEPT ![h] = [data[h] EXCEPT !.enabled = FALSE]]
         \/ s = "readonly" /\ data' = [data EXCEPT ![h] = [data[h] EXCEPT !.mode = "ro"]]
  BY DEF Native!DisableLogins, Native!SetReadOnly, Native!Runs
<1>2. h = "source" /\ acts[h].at \in 2 .. 8 /\ (acts[h].at = 7 => s = "readonly")
  BY <1>1, RunsAt
<1>3. PICK d \in [rows : 0 .. MaxRows, mode : {"empty", "rw", "ro"}, enabled : BOOLEAN, restored : 0 .. MaxBackups] :
        /\ data' = [data EXCEPT ![h] = d] /\ d.rows = data[h].rows /\ (d.mode = data[h].mode \/ d.mode = "ro")
        /\ s = "readonly" => d.mode = "ro"
  <2>1. CASE s = "disable" /\ data' = [data EXCEPT ![h] = [data[h] EXCEPT !.enabled = FALSE]]
    <3> DEFINE d == [data[h] EXCEPT !.enabled = FALSE]
    <3>1. /\ d \in [rows : 0 .. MaxRows, mode : {"empty", "rw", "ro"}, enabled : BOOLEAN, restored : 0 .. MaxBackups]
          /\ d.rows = data[h].rows /\ d.mode = data[h].mode
      BY DataIs
    <3> QED
      BY <2>1, <3>1
  <2>2. CASE s = "readonly" /\ data' = [data EXCEPT ![h] = [data[h] EXCEPT !.mode = "ro"]]
    <3> DEFINE d == [data[h] EXCEPT !.mode = "ro"]
    <3>1. /\ d \in [rows : 0 .. MaxRows, mode : {"empty", "rw", "ro"}, enabled : BOOLEAN, restored : 0 .. MaxBackups]
          /\ d.rows = data[h].rows /\ d.mode = "ro"
      BY DataIs
    <3> QED
      BY <2>2, <3>1
  <2> QED
    BY <1>1, <2>1, <2>2
<1>4. DataTyped' /\ data'[h] = d /\ (\A g \in Native!Hosts \ {h} : data'[g] = data[g]) /\ timer' \in BOOLEAN
  BY <1>1, <1>3, DataIs DEF DataTyped
<1>5. s # "result" /\ acts[h].at # 1 /\ acts[h].at # 9 /\ acts[h].at # 10
  BY <1>1, <1>2
<1> QED
  BY <1>1, <1>2, <1>3, <1>4, <1>5, FenceActs

LEMMA StartSteps ==
  ASSUME NativeInv, NEW h \in Native!Hosts, Native!StartBackup(h)
  PROVE  NativeInv'
<1> USE DEF Native!backup, Native!operator, Native!remote
<1> DEFINE act == [acts[h] EXCEPT !.at = acts[h].at + 1, !.after = Len(kept)]
<1>1. /\ acts[h] # Nobody /\ Native!Program(acts[h].command.action)[acts[h].at] = "start"
      /\ service = Nobody /\ Len(kept) < MaxBackups /\ service' = [rows |-> data[h].rows]
      /\ UNCHANGED <<instance, tasks, data, connected, timer, kept, evidence, step, commands, run, intents>>
      /\ acts' = [acts EXCEPT ![h].at = acts[h].at + 1, ![h].after = Len(kept)]
  BY DEF Native!StartBackup, Native!Runs
<1>2. h = "source" /\ acts[h].at = 9
  BY <1>1, RunsAt
<1>3. acts \in [Native!Hosts -> {Nobody} \cup [command : Commands, at : Nat, after : Nat]]
  BY DEF NativeInv, NativeTyped
<1>4. acts[h] \in [command : Commands, at : Nat, after : Nat]
  BY <1>1, ActIs
<1>5. /\ act \in [command : Commands, at : Nat, after : Nat]
      /\ act.command = acts[h].command /\ act.at = acts[h].at + 1 /\ act.after = Len(kept)
  <2> DEFINE n == Len(kept)
             m == acts[h].at + 1
  <2>1. n \in Nat /\ m \in Nat
    BY <1>4, LengthIs
  <2> HIDE DEF n, m
  <2>2. act = [acts[h] EXCEPT !.at = m, !.after = n]
    BY DEF n, m
  <2>3. /\ act \in [command : Commands, at : Nat, after : Nat]
        /\ act.command = acts[h].command /\ act.at = m /\ act.after = n
    BY <1>4, <2>1, <2>2
  <2> QED
    BY <2>3 DEF n, m
<1>6. acts' = [acts EXCEPT ![h] = act]
  BY <1>1, <1>3
<1> HIDE DEF act
<1>7. ActsTyped' /\ acts'[h] = act /\ \A g \in Native!Hosts \ {h} : acts'[g] = acts[g]
  BY <1>3, <1>5, <1>6 DEF ActsTyped
<1>8. Goes(h)
  <2>1. timer' \in BOOLEAN /\ DataTyped' /\ service' \in [rows : 0 .. MaxRows]
    BY <1>1, DataIs DEF DataTyped
  <2> QED
    BY <1>1, <1>5, <1>7, <2>1 DEF Goes
<1>9. NativeTyped' /\ SentTells' /\ HostTells'
  BY <1>1, <1>2, <1>8, GoesKept, DataIs
<1>10. FenceTells' /\ RestoredTells'
  BY <1>1, <1>2, <1>5, <1>7, <1>8, GoesOnSource
<1> QED
  BY <1>9, <1>10 DEF NativeInv

LEMMA RestoringKept ==
  ASSUME NativeInv, NEW h \in Native!Hosts, Native!RestoreBackup(h) \/ Native!Promote(h)
  PROVE  NativeInv'
<1> USE DEF Native!backup, Native!operator, Native!remote
<1> DEFINE s == Native!Program(acts[h].command.action)[acts[h].at]
           r == acts[h].command.request
<1>1. /\ acts[h] # Nobody /\ Native!Advance(h) /\ s \in {"restore", "promote"}
      /\ UNCHANGED <<instance, tasks, connected, timer, service, kept, evidence, step, commands, run, intents>>
      /\ \/ s = "restore" /\ data' = [data EXCEPT ![h] = [data[h] EXCEPT !.restored = r.receipt]]
         \/ s = "promote" /\ data' = [data EXCEPT ![h] = [data[h] EXCEPT !.rows = kept[data[h].restored], !.mode = "rw"]]
  <2>1. CASE Native!RestoreBackup(h)
    BY <2>1 DEF Native!RestoreBackup, Native!Runs, Native!Request
  <2>2. CASE Native!Promote(h)
    <3>1. data' = [data EXCEPT ![h].rows = kept[data[h].restored], ![h].mode = "rw"]
      BY <2>2 DEF Native!Promote
    <3>2. data' = [data EXCEPT ![h] = [data[h] EXCEPT !.rows = kept[data[h].restored], !.mode = "rw"]]
      BY <3>1, DataIs DEF DataTyped
    <3> QED
      BY <2>2, <3>2 DEF Native!Promote, Native!Runs
  <2> QED
    BY <2>1, <2>2
<1>2. /\ h # "source" /\ h \in Targets /\ (s = "restore" => acts[h].at = 3) /\ (s = "promote" => acts[h].at = 4)
      /\ acts[h].command.action = "restore"
  BY <1>1, RunsAt, ActIs, NativeConstants DEF NativeActions
<1>3. Sound(r) /\ r.receipt \in 0 .. MaxBackups
  BY <1>1, <1>2, ActIs, CommandIs, Requested DEF NativeInv, SentTells
<1>4. PICK d \in [rows : 0 .. MaxRows, mode : {"empty", "rw", "ro"}, enabled : BOOLEAN, restored : 0 .. MaxBackups] :
        /\ data' = [data EXCEPT ![h] = d]
        /\ instance = "terminated" /\ d.restored \in 1 .. Len(kept) /\ kept[d.restored] = data["source"].rows
  <2>1. CASE s = "restore" /\ data' = [data EXCEPT ![h] = [data[h] EXCEPT !.restored = r.receipt]]
    <3> DEFINE d == [data[h] EXCEPT !.restored = r.receipt]
    <3>1. /\ d \in [rows : 0 .. MaxRows, mode : {"empty", "rw", "ro"}, enabled : BOOLEAN, restored : 0 .. MaxBackups]
          /\ d.restored = r.receipt
      BY <1>3, DataIs
    <3> HIDE DEF d
    <3>2. data' = [data EXCEPT ![h] = d]
      BY <2>1 DEF d
    <3> QED
      BY <1>3, <3>1, <3>2 DEF Sound
  <2>2. CASE s = "promote" /\ data' = [data EXCEPT ![h] = [data[h] EXCEPT !.rows = kept[data[h].restored], !.mode = "rw"]]
    <3> DEFINE d == [data[h] EXCEPT !.rows = kept[data[h].restored], !.mode = "rw"]
    <3>1. /\ data[h].restored # 0 /\ instance = "terminated" /\ data[h].restored \in 1 .. Len(kept)
          /\ kept[data[h].restored] = data["source"].rows
      BY <1>1, <1>2, <2>2 DEF NativeInv, RestoredTells
    <3>2. data["source"].rows \in 0 .. MaxRows
      BY NativeConstants, DataIs
    <3>3. /\ d \in [rows : 0 .. MaxRows, mode : {"empty", "rw", "ro"}, enabled : BOOLEAN, restored : 0 .. MaxBackups]
          /\ d.restored = data[h].restored
      BY <3>1, <3>2, DataIs
    <3> HIDE DEF d
    <3>4. data' = [data EXCEPT ![h] = d]
      BY <2>2 DEF d
    <3> QED
      BY <3>1, <3>3, <3>4
  <2> QED
    BY <1>1, <2>1, <2>2
<1>5. DataTyped' /\ data'[h] = d /\ (\A g \in Native!Hosts \ {h} : data'[g] = data[g])
  BY <1>4, DataIs DEF DataTyped
<1>6. s # "result" /\ acts[h].at # 1 /\ d.restored # 0
  BY <1>1, <1>2, <1>4, LengthIs
<1> QED
  BY <1>1, <1>2, <1>4, <1>5, <1>6, RestoreActs

LEMMA ActivateSteps ==
  ASSUME NativeInv, NEW h \in Native!Hosts, Native!Activate(h)
  PROVE  NativeInv'
<1> USE DEF Native!backup, Native!operator, Native!remote
<1> DEFINE d == [data[h] EXCEPT !.enabled = TRUE]
<1>1. /\ UNCHANGED <<instance, tasks, connected, timer, service, kept, evidence, step, commands, run, intents, acts>>
      /\ data' = [data EXCEPT ![h] = d]
  BY DEF Native!Activate
<1>2. /\ d \in [rows : 0 .. MaxRows, mode : {"empty", "rw", "ro"}, enabled : BOOLEAN, restored : 0 .. MaxBackups]
      /\ d.rows = data[h].rows /\ d.mode = data[h].mode /\ d.restored = data[h].restored
  BY DataIs
<1> HIDE DEF d
<1>3. /\ DataTyped'
      /\ \A g \in Native!Hosts : /\ data'[g].rows = data[g].rows /\ data'[g].mode = data[g].mode
                                 /\ data'[g].restored = data[g].restored
  BY <1>1, <1>2, DataIs DEF DataTyped
<1>4. data'["source"].rows = data["source"].rows /\ data'["source"].mode = data["source"].mode
  BY <1>3, NativeConstants
<1>5. NativeTyped'
  BY <1>1, <1>3 DEF NativeInv, NativeTyped, DataTyped
<1>6. SentTells'
  BY <1>1, <1>4 DEF NativeInv, SentTells, SendTells, Sound, Fenced
<1>7. HostTells' /\ FenceTells'
  BY <1>1, <1>4 DEF NativeInv, HostTells, FenceTells
<1>8. RestoredTells'
  <2>1. \A g \in Targets : data'[g].mode = data[g].mode /\ data'[g].restored = data[g].restored
    BY <1>3, NativeConstants
  <2> QED
    BY <1>1, <1>4, <2>1 DEF NativeInv, RestoredTells
<1> QED
  BY <1>5, <1>6, <1>7, <1>8 DEF NativeInv

LEMMA WorksSteps ==
  ASSUME NativeInv, NEW h \in Native!Hosts, Native!Works(h)
  PROVE  NativeInv'
BY FailsSteps, BeginSteps, ReadsSteps, DataSteps, StartSteps, RestoringKept, ResultSteps, ActivateSteps
   DEF Native!Works

LEMMA NativeKept ==
  ASSUME NativeInv, [Native!Next]_(Native!vars)
  PROVE  NativeInv'
<1>1. CASE UNCHANGED Native!vars
  BY <1>1 DEF Native!vars, Native!backup, Native!operator, Native!remote, NativeInv, NativeTyped, SentTells, SendTells, Sound, Fenced, HostTells, FenceTells, RestoredTells
<1>2. CASE Native!Next
  <2>1. CASE World
    BY <2>1, WorldSteps
  <2>2. CASE Native!Terminate
    BY <2>2, DownSteps, NativeConstants
  <2>3. CASE \E h \in Native!Hosts : Native!Reboot(h)
    BY <2>3, DownSteps
  <2>4. CASE \E e \in Evidence : Native!Operates(e)
    BY <2>4, OperatesSteps
  <2>5. CASE \E c \in commands : Native!Deliver(c)
    BY <2>5, DeliverSteps
  <2>6. CASE \E h \in Native!Hosts : Native!Works(h)
    BY <2>6, WorksSteps
  <2> QED
    BY <1>2, <2>1, <2>2, <2>3, <2>4, <2>5, <2>6 DEF Native!Next, World
<1> QED
  BY <1>1, <1>2

\* Who has a restore has it of the one fence that succeeded, in whose directory one
\* command was sent for it.
LEMMA OneRestored ==
  ASSUME NativeInv,
         NEW g \in Targets, data[g].mode # "empty", NEW h \in Targets, data[h].mode # "empty"
  PROVE  g = h
<1>1. PICK b \in commands : b.action = "restore" /\ b.request.host = g
  BY DEF NativeInv, RestoredTells
<1>2. PICK c \in commands : c.action = "restore" /\ c.request.host = h
  BY DEF NativeInv, RestoredTells
<1>3. PICK p \in commands : p.directory = b.directory /\ p.action = "fence" /\ p.status = "Success"
  BY <1>1 DEF NativeInv, SentTells, Fenced
<1>4. PICK q \in commands : q.directory = c.directory /\ q.action = "fence" /\ q.status = "Success"
  BY <1>2 DEF NativeInv, SentTells, Fenced
<1>5. p = q
  BY <1>3, <1>4 DEF NativeInv, FenceTells
<1>6. b = c
  BY <1>1, <1>2, <1>3, <1>4, <1>5 DEF NativeInv, SentTells
<1> QED
  BY <1>1, <1>2, <1>6

LEMMA NativeLost == NativeInv => NothingLost
<1> SUFFICES ASSUME NativeInv PROVE NothingLost
  OBVIOUS
<1>1. Native!TypeOK
  <2>1. /\ instance \in {"running", "terminated"} /\ tasks \in BOOLEAN
        /\ data \in [Native!Hosts -> [rows : 0 .. MaxRows, mode : {"empty", "rw", "ro"}, enabled : BOOLEAN,
                                     restored : 0 .. MaxBackups]]
        /\ connected \in BOOLEAN /\ timer \in BOOLEAN
        /\ service # Nobody => service \in [rows : 0 .. MaxRows]
        /\ kept \in Seq(0 .. MaxRows) /\ Len(kept) <= MaxBackups
    BY DEF NativeInv, NativeTyped
  <2>2. ASSUME NEW e \in Evidence
        PROVE  /\ \A action \in {"fence", "restore"} :
                    evidence[e][action] # Nobody => evidence[e][action] \in Native!Requests
               /\ evidence[e].sent \subseteq {"fence", "restore"}
               /\ step[e] # Nobody =>
                    step[e].at \in {"checked", "intended", "sent"} /\ step[e].request \in Native!Requests
    <3>1. evidence[e] \in [fence : Native!Requests \cup {Nobody}, restore : Native!Requests \cup {Nobody},
                           sent : SUBSET NativeActions]
      BY OperatesTypes
    <3> QED
      BY <3>1, StepIs DEF NativeActions
  <2>3. ASSUME NEW c \in commands
        PROVE  /\ c.request \in Native!Requests /\ c.receipt \in 0 .. MaxBackups
               /\ c.status \in {"Pending", "InProgress", "Success", "Failed"}
    BY CommandIs DEF Commands
  <2>4. ASSUME NEW h \in Native!Hosts
        PROVE  /\ run[h] \subseteq {"fence", "restore"} /\ intents[h] \subseteq {"fence", "restore"}
               /\ acts[h] # Nobody =>
                    acts[h].command \in commands /\ acts[h].at \in DOMAIN Native!Program(acts[h].command.action)
    BY ActIs DEF NativeInv, NativeTyped, NativeActions
  <2> QED
    BY <2>1, <2>2, <2>3, <2>4 DEF Native!TypeOK
<1>2. /\ \A h \in Targets : data[h].restored # 0 => kept[data[h].restored] = data["source"].rows
      /\ \A h \in Targets : data[h].mode # "empty" => instance = "terminated"
  BY DEF NativeInv, RestoredTells
<1>3. \A g, h \in Targets : data[g].mode # "empty" /\ data[h].mode # "empty" => g = h
  BY OneRestored
<1>4. Native!NothingLost
  <2>1. \A h \in Targets : data[h].restored # 0 => kept[data[h].restored] = data[Native!Source].rows
    BY <1>2, NativeConstants
  <2> QED
    BY <1>1, <1>2, <1>3, <2>1 DEF Native!NothingLost
<1> QED
  BY <1>4 DEF NothingLost

THEOREM NothingLostAlways == Native!Spec => []NothingLost
<1>1. NativeInv /\ [Native!Next]_(Native!vars) => NativeInv'
  BY NativeKept
<1> QED
  BY <1>1, NativeInit, NativeLost, PTL DEF Native!Spec
=============================================================================
