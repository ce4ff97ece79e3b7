-------------------------------- MODULE SqlBackup --------------------------------
(***************************************************************************)
(* The scheduled backup of the database: the job on the SQL host            *)
(* (operations/sql-backup/host.py), the program it runs twice, as backup    *)
(* and as cleanup (SqlBackup/*.cs), and the two objects of each backup in   *)
(* S3.                                                                     *)
(*                                                                         *)
(* A job is one activation of the timer, with a run identity of its own     *)
(* once its program starts.  What is on the disk survives a reboot; locks   *)
(* and processes do not.  A killed host.py may leave its program running.   *)
(* A put to S3 may raise and still land, also when its sender is gone.      *)
(***************************************************************************)
EXTENDS Naturals, FiniteSets

CONSTANTS
  Jobs,      \* activations of host.py run
  Retain,    \* RetainLocalVerifiedBackups
  MaxClock,  \* bound on the times a backup may have started at
  None

ASSUME BackupAssumption ==
  None \notin Jobs /\ Retain \in Nat \ {0} /\ MaxClock \in Nat \ {0}

Both == {"backup", "manifest"}

VARIABLES
  job, inhibited,  \* last-job.json, and the marker of an inhibition
  held,            \* the holder of job.lock
  host, child,     \* each job's host.py, and the program it runs
  stamp,           \* StartedUtc of each backup, 0 before it is taken
  disk,            \* database.bak and receipt.json of each run
  attempt, last,   \* last-attempt.json and last-success.json
  objects, flying, \* each run's objects in S3, and those that may still land
  inhibitor, told, \* the operator's inhibit, and whether it reported idle
  ended            \* history: how the last job ended, if not reviewed since

local    == <<job, inhibited, held>>
staging  == <<stamp, disk, attempt, last>>
remote   == <<objects, flying>>
operator == <<inhibitor, told, ended>>
vars     == <<local, host, child, staging, remote, operator>>

Init ==
  /\ job = "none" /\ inhibited = FALSE /\ held = None
  /\ host = [j \in Jobs |-> "idle"] /\ child = [j \in Jobs |-> "none"]
  /\ stamp = [j \in Jobs |-> 0] /\ disk = [j \in Jobs |-> {}]
  /\ attempt = "none" /\ last = None
  /\ objects = [j \in Jobs |-> {}] /\ flying = {}
  /\ inhibitor = "idle" /\ told = FALSE /\ ended = "none"

Running == {"start", "dump", "putBackup", "getBackup", "putManifest", "getManifest",
            "receipt", "success", "attempt", "cleaning"}
Holding == Running \ {"start"}   \* of those, the holders of operation.lock
Host(j, pc)  == host' = [host EXCEPT ![j] = pc]
Child(j, pc) == child' = [child EXCEPT ![j] = pc]
-----------------------------------------------------------------------------
(* host.py run.                                                             *)

\* job.lock, without waiting; another holder is a refusal.
Lock(j) ==
  /\ host[j] = "idle" /\ held = None
  /\ held' = j /\ Host(j, "locked")
  /\ UNCHANGED <<job, inhibited, child, staging, remote, operator>>

\* Mutant: a job that was interrupted is not looked at.
AdmitsInterrupted(j) == ~inhibited

Admits(j) == ~inhibited /\ job \notin {"STARTED", "UNKNOWN"}

\* Under the lock, STARTED is written before the program is.
Start(j) ==
  /\ host[j] = "locked" /\ Admits(j)
  /\ job' = "STARTED" /\ Host(j, "backup") /\ Child(j, "start")
  /\ UNCHANGED <<inhibited, held, staging, remote, operator>>

\* Inhibited, not reviewed, or without executable and credentials.
Refuse(j) ==
  /\ host[j] = "locked"
  /\ held' = None /\ Host(j, "over")
  /\ UNCHANGED <<job, inhibited, child, staging, remote, operator>>

\* How a job ends: its receipt is written, and the lock is released.
End(j, status, how) ==
  /\ job' = status /\ ended' = how /\ held' = None /\ Host(j, "over")
  /\ UNCHANGED <<inhibited, staging, remote, inhibitor, told>>

\* Program.Main prints its result to stdout, but an error to stderr.
Stdout(j) == CASE child[j] = "ok"      -> "REMOTE_VERIFIED"
               [] child[j] = "cleaned" -> "LOCAL_CLEANUP_VERIFIED"
               [] OTHER                -> "none"

\* host.py looks for the code in what it read of stdout.
Unknown(j) == Stdout(j) = "DEADLINE_EXCEEDED"

How(j) == IF child[j] = "deadline" THEN "deadline" ELSE "none"

Succeeds(j) ==
  /\ host[j] = "backup" /\ Stdout(j) = "REMOTE_VERIFIED"
  /\ Host(j, "cleanup") /\ Child(j, IF \E k \in Jobs : child[k] \in Holding
                                      THEN "failed" ELSE "cleaning")
  /\ UNCHANGED <<local, staging, remote, operator>>

Completes(j) ==
  /\ host[j] = "cleanup" /\ Stdout(j) = "LOCAL_CLEANUP_VERIFIED"
  /\ End(j, "REMOTE_VERIFIED_CLEANUP_VERIFIED", "none")
  /\ UNCHANGED child

Fails(j) ==
  /\ host[j] \in {"backup", "cleanup"}
  /\ child[j] \in {"failed", "deadline", "partial", "killed"}
  /\ End(j, IF Unknown(j) THEN "UNKNOWN" ELSE "FAILED_OR_UNCONFIRMED", How(j))
  /\ UNCHANGED child

\* TimeoutExpired: thirty seconds after the program's own deadline it is killed.
Expires(j) ==
  /\ host[j] \in {"backup", "cleanup"} /\ child[j] \in Running
  /\ Child(j, "killed")
  /\ End(j, "UNKNOWN", "timeout")

\* The receipt says STARTED from then on.
Interrupts == IF \E j \in Jobs : host[j] \in {"backup", "cleanup"} THEN "crash" ELSE ended

\* host.py alone is killed: the lock goes with it, the program stays.
Killed(j) ==
  /\ host[j] \in {"locked", "backup", "cleanup"}
  /\ held' = None /\ Host(j, "over") /\ ended' = Interrupts
  /\ UNCHANGED <<job, inhibited, child, staging, remote, inhibitor, told>>

Reboot ==
  /\ \E j \in Jobs : host[j] \in {"locked", "backup", "cleanup"} \/ child[j] \in Running
  /\ held' = None /\ ended' = Interrupts
  /\ host' = [j \in Jobs |-> IF host[j] = "idle" THEN "idle" ELSE "over"]
  /\ child' = [j \in Jobs |-> IF child[j] \in Running THEN "killed" ELSE child[j]]
  /\ inhibitor' = "idle"
  /\ UNCHANGED <<job, inhibited, staging, remote, told>>
-----------------------------------------------------------------------------
(* Inhibit and resume.                                                      *)

\* The marker is written before the lock is asked for.
Inhibit ==
  /\ inhibitor = "idle"
  /\ inhibited' = TRUE /\ inhibitor' = "waiting"
  /\ UNCHANGED <<job, held, host, child, staging, remote, told, ended>>

Idle == held = None

\* A resume in between may have removed the marker, which is not looked at
\* again: what is reported is then not to be relied on.
Report ==
  /\ inhibitor = "waiting" /\ Idle
  /\ told' = inhibited /\ inhibitor' = "idle"
  /\ UNCHANGED <<local, host, child, staging, remote, ended>>

\* JOB_ACTIVE, after the time it waits at most; the marker stays.
GivesUp ==
  /\ inhibitor = "waiting" /\ inhibitor' = "idle"
  /\ UNCHANGED <<local, host, child, staging, remote, told, ended>>

Resume ==
  /\ held = None
  /\ inhibited' = FALSE /\ job' = "OPERATOR_RESUMED"
  /\ told' = FALSE /\ ended' = "none"
  /\ UNCHANGED <<held, host, child, staging, remote, inhibitor>>
-----------------------------------------------------------------------------
(* SqlBackup backup.                                                        *)

\* operation.lock is the program's own, so that an orphan keeps others out.
Open(j) ==
  /\ child[j] = "start"
  /\ IF \E k \in Jobs \ {j} : child[k] \in Holding
       THEN Child(j, "failed") /\ UNCHANGED attempt
       ELSE Child(j, "dump") /\ attempt' = "STARTED"
  /\ UNCHANGED <<local, host, stamp, disk, last, remote, operator>>

\* BACKUP DATABASE, a copy of its own for each run.
Taken(j) == disk' = [disk EXCEPT ![j] = {"bak"}]

\* The database is described, backed up and verified; the clock may be set back.
Dump(j) ==
  /\ child[j] = "dump" /\ Taken(j)
  /\ \E t \in 1..MaxClock : stamp' = [stamp EXCEPT ![j] = t]
  /\ Child(j, "putBackup")
  /\ UNCHANGED <<local, host, attempt, last, remote, operator>>

Object(pc) == IF pc \in {"putBackup", "getBackup"} THEN "backup" ELSE "manifest"

\* IfNoneMatch: what is there already is not replaced.
Stores(j, o) == objects' = [objects EXCEPT ![j] = @ \cup {o}]

\* The put is never sent again.  It returns, or raises, when it may have landed,
\* may land later or never.
Put(j) ==
  /\ child[j] \in {"putBackup", "putManifest"}
  /\ LET o == Object(child[j])
     IN  \/ Stores(j, o) /\ UNCHANGED flying
         \/ flying' = flying \cup {<<j, o>>} /\ UNCHANGED objects
         \/ UNCHANGED remote
  /\ Child(j, IF child[j] = "putBackup" THEN "getBackup" ELSE "getManifest")
  /\ UNCHANGED <<local, host, staging, operator>>

Land ==
  \E put \in flying :
    /\ flying' = flying \ {put}
    /\ Stores(put[1], put[2])
    /\ UNCHANGED <<local, host, child, staging, operator>>

\* Mutant: a put that raised is taken for done, without the readback.
CommittedUnread(j) == TRUE

\* CommitObject: the exact object is read back, whatever the put said.
Committed(j) == Object(child[j]) \in objects[j]

Get(j) ==
  /\ child[j] \in {"getBackup", "getManifest"} /\ Committed(j)
  /\ Child(j, IF child[j] = "getBackup" THEN "putManifest" ELSE "receipt")
  /\ UNCHANGED <<local, host, staging, remote, operator>>

WriteReceipt(j) ==
  /\ child[j] = "receipt"
  /\ disk' = [disk EXCEPT ![j] = @ \cup {"receipt"}]
  /\ Child(j, "success")
  /\ UNCHANGED <<local, host, stamp, attempt, last, remote, operator>>

WriteSuccess(j) ==
  /\ child[j] = "success"
  /\ last' = j /\ Child(j, "attempt")
  /\ UNCHANGED <<local, host, stamp, disk, attempt, remote, operator>>

WriteAttempt(j) ==
  /\ child[j] = "attempt"
  /\ attempt' = "REMOTE_VERIFIED" /\ Child(j, "ok")
  /\ UNCHANGED <<local, host, stamp, disk, last, remote, operator>>

\* Whatever raises, the deadline included, is retained as FAILED once STARTED is.
ChildFails(j) ==
  /\ child[j] \in Running \ {"cleaning"}
  /\ attempt' = IF child[j] = "start" THEN attempt ELSE "FAILED"
  /\ Child(j, "failed") \/ Child(j, "deadline")
  /\ UNCHANGED <<local, host, stamp, disk, last, remote, operator>>
-----------------------------------------------------------------------------
(* SqlBackup cleanup.                                                       *)

\* Restore reads the manifest and then the backup it names, each in its exact
\* version, and checks them.
Restores(j) == objects[j] = Both

\* A run whose receipt is there; one without, or not its own, is left alone.
Candidates == {j \in Jobs : {"bak", "receipt"} \subseteq disk[j]}
Unproved   == {j \in Jobs : "bak" \in disk[j] /\ "receipt" \notin disk[j]}

\* The n newest of a set, in the order the directory gives where times are equal.
Newest(n, S) ==
  {T \in SUBSET S : /\ Cardinality(T) = (IF n < Cardinality(S) THEN n ELSE Cardinality(S))
                    /\ \A j \in T, k \in S \ T : stamp[k] <= stamp[j]}

\* The last success first, then by StartedUtc.
Keep(n) ==
  LET first == {last} \cap Candidates
  IN  {first \cup T : T \in Newest(n - Cardinality(first), Candidates \ first)}

Disposable == {k \in Candidates : \E kept \in Keep(Retain) : k \notin kept}

\* The manifest and the backup are read from S3, the file is hashed, and only
\* then it is deleted.
Delete(j) ==
  /\ child[j] = "cleaning"
  /\ \E k \in Disposable :
       /\ Restores(k)
       /\ disk' = [disk EXCEPT ![k] = @ \ {"bak"}]
  /\ UNCHANGED <<local, host, child, stamp, attempt, last, remote, operator>>

\* Without a receipt, or with a read that failed, nothing is deleted and the
\* cleanup is partial: exit status 1.
Cleaned(j) ==
  /\ child[j] = "cleaning"
  /\ \/ Disposable = {} /\ Child(j, IF Unproved = {} THEN "cleaned" ELSE "partial")
     \/ Disposable # {} /\ Child(j, "partial")
     \/ Child(j, "deadline")
  /\ UNCHANGED <<local, host, staging, remote, operator>>
-----------------------------------------------------------------------------
Manifests == {j \in Jobs : "manifest" \in objects[j]}

\* SqlBackup check, apart from the age of the newest.
Check == IF attempt = "FAILED" THEN "FAILED"
         ELSE IF Manifests # {} THEN "COMMITTED" ELSE "MISSING"

Job(j) == \/ Lock(j) \/ Start(j) \/ Refuse(j) \/ Succeeds(j) \/ Completes(j) \/ Fails(j)
          \/ Expires(j) \/ Killed(j)
Program(j) == \/ Open(j) \/ Dump(j) \/ Put(j) \/ Get(j) \/ WriteReceipt(j) \/ WriteSuccess(j)
              \/ WriteAttempt(j) \/ ChildFails(j) \/ Delete(j) \/ Cleaned(j)

Next == \/ \E j \in Jobs : Job(j) \/ Program(j)
        \/ Land \/ Reboot \/ Inhibit \/ Report \/ GivesUp \/ Resume
Spec == Init /\ [][Next]_vars
-----------------------------------------------------------------------------
TypeOK ==
  /\ job \in {"none", "STARTED", "UNKNOWN", "FAILED_OR_UNCONFIRMED", "OPERATOR_RESUMED",
              "REMOTE_VERIFIED_CLEANUP_VERIFIED"}
  /\ inhibited \in BOOLEAN /\ held \in Jobs \cup {None}
  /\ host \in [Jobs -> {"idle", "locked", "backup", "cleanup", "over"}]
  /\ child \in [Jobs -> Running \cup {"none", "ok", "failed", "deadline", "killed", "cleaned", "partial"}]
  /\ stamp \in [Jobs -> 0..MaxClock] /\ disk \in [Jobs -> SUBSET {"bak", "receipt"}]
  /\ attempt \in {"none", "STARTED", "FAILED", "REMOTE_VERIFIED"} /\ last \in Jobs \cup {None}
  /\ objects \in [Jobs -> SUBSET Both] /\ flying \subseteq Jobs \X Both
  /\ inhibitor \in {"idle", "waiting"} /\ told \in BOOLEAN
  /\ ended \in {"none", "crash", "timeout", "deadline"}

\* Whatever is recorded as committed can be restored: every manifest in S3, also
\* one that lands after its job was killed, every receipt and last-success.json
\* have their backup in S3 (Protocol.cs:20-31, 65-72).  And no copy is lost: no
\* backup that was taken is on neither side, and last-success.json names one that
\* is still on the disk, though the clock may have been set back and jobs were
\* interrupted in between (Cleanup.cs:16-59).  In states of the right type.
Restorable ==
  /\ TypeOK
  /\ \A j \in Manifests : Restores(j)
  /\ \A j \in Jobs :
       /\ "receipt" \in disk[j] => Restores(j)
       /\ stamp[j] # 0 => "bak" \in disk[j] \/ Restores(j)
  /\ last # None => Restores(last) /\ "bak" \in disk[last]

Begins == \E j \in Jobs : host[j] = "locked" /\ host'[j] = "backup"

\* A job that was killed, lost to a reboot or timed out is reviewed before the
\* next one begins (host.py:75-76, README.md:264-265); and once an inhibit has
\* reported idle, no job is at work until a resume, though the program of a
\* host.py that was killed may be (host.py:58-74).
InterruptedBlocks ==
  [][/\ Begins => ended \notin {"crash", "timeout"}
     /\ told' => \A j \in Jobs : host'[j] \notin {"backup", "cleanup"}]_vars

\* So is one that ended at its deadline, says the README.
DeadlineBlocks == [][Begins => ended # "deadline"]_vars
=============================================================================
