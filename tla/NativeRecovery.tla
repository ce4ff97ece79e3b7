------------------------------ MODULE NativeRecovery ------------------------------
(***************************************************************************)
(* The recovery of the database by its existing owner                       *)
(* (operations/sql-backup/recovery): native_step.py looks at the instances  *)
(* and at ECS and sends one step, by SSM, to one host, where native_host.py *)
(* does it.  A fence stops the writers of the source and takes its last     *)
(* backup; after the source is terminated, a restore brings that backup up  *)
(* on a new host, where activate_native_runtime.py lets the runtime in.     *)
(*                                                                         *)
(* Files of the operator's are in a directory, --evidence, which it chooses. *)
(* All requests are of one trial; rows stand for the table and its hash.    *)
(***************************************************************************)
EXTENDS Naturals, Sequences

CONSTANTS
  Targets,      \* new instances
  Directories,  \* --evidence
  MaxRows,      \* bound on the rows
  MaxBackups,   \* and on the backups kept
  None

Source == "source"
Hosts  == Targets \cup {Source}

VARIABLES
  state,     \* EC2: the state of the source's instance
  tasks,     \* ECS: whether a task runs, or drains with its sessions
  data,      \* the database of each host
  connected, \* whether a session is open on the source
  timer,     \* on the source, whether the timer of the backup is on
  job,       \* and its backup service
  kept,      \* S3: the rows of each backup, in the order in which they were taken
  evidence,  \* the files of each directory
  step,      \* native_step.py, of each directory
  commands,  \* SSM: the commands
  run,       \* the steps of which a host has a directory under /run
  intents,   \* and an intent, which outlives it
  acts       \* native_host.py, on each host

operator == <<evidence, step>>
remote   == <<commands, run, intents, acts>>
backup   == <<timer, job, kept>>
vars     == <<state, tasks, data, connected, backup, operator, remote>>

\* What a request says: its host, and the rows and the backup that it expects.
Requests ==
  [host : Hosts, rows : 0..MaxRows, receipt : 0..MaxBackups]

NativeAssumption ==
  /\ None \notin Targets \cup Directories \cup Requests /\ Source \notin Targets
  /\ MaxRows \in Nat /\ MaxBackups \in Nat \ {0}

Init ==
  /\ state = "running" /\ tasks = TRUE
  /\ data = [h \in Hosts |-> [rows |-> 0, mode |-> IF h = Source THEN "rw" ELSE "empty",
                             enabled |-> h = Source, restored |-> 0]]
  /\ connected = FALSE
  /\ timer = TRUE /\ job = None /\ kept = <<>>
  /\ evidence = [e \in Directories |-> [fence |-> None, restore |-> None, sent |-> {}]]
  /\ step = [e \in Directories |-> None] /\ commands = {}
  /\ run = [h \in Hosts |-> {}] /\ intents = [h \in Hosts |-> {}]
  /\ acts = [h \in Hosts |-> None]
-----------------------------------------------------------------------------
(* Around the two programs.                                                 *)

\* Tasks are drained, and may be started again.
TasksChange ==
  /\ tasks' = ~tasks
  /\ UNCHANGED <<state, data, connected, backup, operator, remote>>

Connect ==
  /\ state = "running" /\ data[Source].enabled /\ tasks /\ ~connected
  /\ connected' = TRUE
  /\ UNCHANGED <<state, tasks, data, backup, operator, remote>>

Disconnect ==
  /\ connected /\ connected' = FALSE
  /\ UNCHANGED <<state, tasks, data, backup, operator, remote>>

Write ==
  /\ connected /\ data[Source].mode = "rw" /\ data[Source].rows < MaxRows
  /\ data' = [data EXCEPT ![Source].rows = @ + 1]
  /\ UNCHANGED <<state, tasks, connected, backup, operator, remote>>

Fires ==
  /\ timer /\ state = "running" /\ job = None /\ Len(kept) < MaxBackups
  /\ job' = [rows |-> data[Source].rows]
  /\ UNCHANGED <<state, tasks, data, connected, timer, kept, operator, remote>>

\* The job ends, with its success or without it.
JobEnds ==
  /\ job # None /\ job' = None
  /\ \/ kept' = Append(kept, job.rows)
     \/ UNCHANGED kept
  /\ UNCHANGED <<state, tasks, data, connected, timer, operator, remote>>

\* A host goes down with what it does and with /run.
Down(h) ==
  /\ acts' = [acts EXCEPT ![h] = None] /\ run' = [run EXCEPT ![h] = {}]
  /\ commands' = {[c EXCEPT !.status = IF @ = "InProgress" /\ c.request.host = h THEN "Failed" ELSE @] :
                  c \in commands}
  /\ IF h = Source THEN job' = None /\ connected' = FALSE ELSE UNCHANGED <<job, connected>>
  /\ UNCHANGED <<tasks, data, kept, operator, intents>>

\* The timer comes back with it.
Reboot(h) ==
  /\ h = Source => state = "running"
  /\ Down(h)
  /\ timer' = (h = Source \/ timer) /\ UNCHANGED state

Terminate ==
  /\ state = "running" /\ state' = "terminated"
  /\ Down(Source) /\ UNCHANGED timer
-----------------------------------------------------------------------------
(* native_step.py                                                           *)

\* verify_drained_tasks, and the counts of the services.
Drained == ~tasks

\* preflight: who is fenced or restored, and whether the source is gone.
Preflight(action, request) ==
  /\ Drained
  /\ \/ action = "fence" /\ state # "terminated" /\ request.host = Source
     \/ action = "restore" /\ state = "terminated" /\ request.host # Source

\* Mutant: that the fence was sent is enough.
PriorFenceSent(e, request) ==
  /\ evidence[e].fence # None /\ "fence" \in evidence[e].sent
  /\ evidence[e].fence.rows = request.rows

\* verify_prior_fence: the intent and the answer of the fence in this directory, for
\* the same rows, and the receipt that SSM has of it, with the same backup.
PriorFence(e, request) ==
  /\ evidence[e].fence # None /\ "fence" \in evidence[e].sent
  /\ evidence[e].fence.rows = request.rows
  /\ \E c \in commands :
       /\ c.directory = e /\ c.action = "fence" /\ c.status = "Success"
       /\ c.receipt = request.receipt

\* A request and its checks.
Check(e, action, request) ==
  /\ step[e] = None
  /\ action = "restore" => PriorFence(e, request)
  /\ Preflight(action, request)
  /\ step' = [step EXCEPT ![e] = [action |-> action, request |-> request, at |-> "checked"]]
  /\ UNCHANGED <<state, tasks, data, connected, backup, evidence, remote>>

At(e, at) == step[e] # None /\ step[e].at = at

\* SSM has no command of that host under way.
Quiet(h) == ~\E c \in commands : c.request.host = h /\ c.status \in {"Pending", "InProgress"}

\* The intent is created exclusively.
Intent(e) ==
  /\ At(e, "checked") /\ Quiet(step[e].request.host)
  /\ evidence[e][step[e].action] = None
  /\ evidence' = [evidence EXCEPT ![e][step[e].action] = step[e].request]
  /\ step' = [step EXCEPT ![e].at = "intended"]
  /\ UNCHANGED <<state, tasks, data, connected, backup, remote>>

\* send_command.  It may be accepted without an answer.
Send(e) ==
  /\ At(e, "intended")
  /\ commands' = commands \cup
       {[directory |-> e, action |-> step[e].action, request |-> step[e].request,
         status |-> "Pending", receipt |-> 0]}
  /\ \/ step' = [step EXCEPT ![e].at = "sent"]
     \/ step' = [step EXCEPT ![e] = None]
  /\ UNCHANGED <<state, tasks, data, connected, backup, evidence, run, intents, acts>>

DispatchResult(e) ==
  /\ At(e, "sent")
  /\ evidence' = [evidence EXCEPT ![e].sent = @ \cup {step[e].action}]
  /\ step' = [step EXCEPT ![e] = None]
  /\ UNCHANGED <<state, tasks, data, connected, backup, remote>>

\* A check refuses, or the program ends.
Leaves(e) ==
  /\ step[e] # None /\ step' = [step EXCEPT ![e] = None]
  /\ UNCHANGED <<state, tasks, data, connected, backup, evidence, remote>>
-----------------------------------------------------------------------------
(* native_host.py                                                           *)

Fence == <<"begin", "before", "service", "timer", "service", "disable", "readonly", "after", "start",
           "backup", "result">>

Restore == <<"begin", "fresh", "restore", "promote", "data", "result">>

Program(action) == IF action = "fence" THEN Fence ELSE Restore

Runs(h, at) == acts[h] # None /\ Program(acts[h].command.action)[acts[h].at] = at
Request(h)  == acts[h].command.request
Advance(h)  == acts' = [acts EXCEPT ![h].at = @ + 1]

Settle(command, status, receipt) ==
  commands' = (commands \ {command}) \cup {[command EXCEPT !.status = status, !.receipt = receipt]}

\* The agent runs a command, which makes its directory under /run first, or it was not
\* delivered in time.
Deliver(command) ==
  LET h == command.request.host IN
  /\ command.status = "Pending"
  /\ \/ /\ (h = Source => state = "running") /\ command.action \notin run[h]
        /\ run' = [run EXCEPT ![h] = @ \cup {command.action}]
        /\ Settle(command, "InProgress", 0)
        /\ acts' = [acts EXCEPT ![h] = [command |-> [command EXCEPT !.status = "InProgress"], at |-> 1,
                                        after |-> 0]]
     \/ Settle(command, "Failed", 0) /\ UNCHANGED <<run, acts>>
  /\ UNCHANGED <<state, tasks, data, connected, backup, operator, intents>>

\* A step raises, or is over its time.
Fails(h) ==
  /\ acts[h] # None
  /\ Settle(acts[h].command, "Failed", 0)
  /\ acts' = [acts EXCEPT ![h] = None]
  /\ UNCHANGED <<state, tasks, data, connected, backup, operator, run, intents>>

\* The intent of the host, created exclusively.
Begin(h) ==
  /\ Runs(h, "begin") /\ acts[h].command.action \notin intents[h]
  /\ intents' = [intents EXCEPT ![h] = @ \cup {acts[h].command.action}]
  /\ Advance(h)
  /\ UNCHANGED <<state, tasks, data, connected, backup, operator, commands, run>>

CheckData(h) == data[h].rows = Request(h).rows

\* No tables, and the runtime disabled, so that it has no session.
Fresh(h) == data[h].mode = "empty" /\ ~data[h].enabled

\* sql-backup.service is neither active nor on its way.
Inactive == job = None

\* What a step reads before it goes on.
Reads(h) ==
  /\ \/ Runs(h, "before") /\ CheckData(h) /\ ~connected /\ data[h].mode = "rw"
     \/ Runs(h, "service") /\ Inactive
     \/ /\ Runs(h, "after") /\ CheckData(h) /\ ~connected
        /\ data[h].mode = "ro" /\ ~data[h].enabled
     \/ Runs(h, "fresh") /\ Fresh(h)
     \/ Runs(h, "data") /\ CheckData(h) /\ ~data[h].enabled
  /\ Advance(h)
  /\ UNCHANGED <<state, tasks, data, connected, backup, operator, commands, run, intents>>

StopTimer(h) ==
  /\ Runs(h, "timer") /\ timer' = FALSE
  /\ Advance(h)
  /\ UNCHANGED <<state, tasks, data, connected, job, kept, operator, commands, run, intents>>

DisableLogins(h) ==
  /\ Runs(h, "disable")
  /\ data' = [data EXCEPT ![h].enabled = FALSE]
  /\ Advance(h)
  /\ UNCHANGED <<state, tasks, connected, backup, operator, commands, run, intents>>

\* WITH NO_WAIT: it fails when there is a session.
SetReadOnly(h) ==
  /\ Runs(h, "readonly") /\ ~connected
  /\ data' = [data EXCEPT ![h].mode = "ro"]
  /\ Advance(h)
  /\ UNCHANGED <<state, tasks, connected, backup, operator, commands, run, intents>>

\* systemctl start, which waits for the service.  Had it joined a job that was under
\* way, that backup would be too old, and refused.
StartBackup(h) ==
  /\ Runs(h, "start") /\ job = None /\ Len(kept) < MaxBackups
  /\ job' = [rows |-> data[h].rows]
  /\ acts' = [acts EXCEPT ![h].at = @ + 1, ![h].after = Len(kept)]
  /\ UNCHANGED <<state, tasks, data, connected, timer, kept, operator, commands, run, intents>>

\* last-job.json and last-success.json: the job succeeded, with another backup.
FinalBackup(h) ==
  /\ Runs(h, "backup") /\ job = None /\ Len(kept) > acts[h].after
  /\ Advance(h)
  /\ UNCHANGED <<state, tasks, data, connected, backup, operator, commands, run, intents>>

\* The exact version of the manifest, into a database of its own.
RestoreBackup(h) ==
  /\ Runs(h, "restore") /\ Request(h).receipt \in DOMAIN kept
  /\ kept[Request(h).receipt] = Request(h).rows
  /\ data' = [data EXCEPT ![h].restored = Request(h).receipt]
  /\ Advance(h)
  /\ UNCHANGED <<state, tasks, connected, backup, operator, commands, run, intents>>

\* It is made READ_WRITE and renamed; the empty one is kept.
Promote(h) ==
  /\ Runs(h, "promote")
  /\ data' = [data EXCEPT ![h].rows = kept[data[h].restored], ![h].mode = "rw"]
  /\ Advance(h)
  /\ UNCHANGED <<state, tasks, connected, backup, operator, commands, run, intents>>

\* The result, which SSM then has.
Result(h) ==
  /\ Runs(h, "result")
  /\ Settle(acts[h].command, "Success", IF acts[h].command.action = "fence" THEN Len(kept) ELSE 0)
  /\ acts' = [acts EXCEPT ![h] = None]
  /\ UNCHANGED <<state, tasks, data, connected, backup, operator, run, intents>>

\* activate_native_runtime.py, with the program that the restore left under /run and
\* the rows of its request.
Activate(h) ==
  /\ "restore" \in run[h] /\ data[h].mode = "rw"
  /\ ~data[h].enabled
  /\ data[h].rows = kept[data[h].restored]
  /\ data' = [data EXCEPT ![h].enabled = TRUE]
  /\ UNCHANGED <<state, tasks, connected, backup, operator, remote>>
-----------------------------------------------------------------------------
Operates(e) ==
  \/ /\ step[e] = None
     /\ \E action \in {"fence", "restore"}, request \in Requests :
          (action = "fence" => request.receipt = 0) /\ Check(e, action, request)
  \/ Intent(e) \/ Send(e) \/ DispatchResult(e) \/ Leaves(e)

Works(h) ==
  \/ /\ acts[h] # None
     /\ \/ Fails(h) \/ Begin(h) \/ Reads(h) \/ StopTimer(h) \/ DisableLogins(h) \/ SetReadOnly(h)
        \/ StartBackup(h) \/ FinalBackup(h) \/ RestoreBackup(h) \/ Promote(h) \/ Result(h)
  \/ Activate(h)

Next ==
  \/ TasksChange \/ Fires \/ JobEnds
  \/ Connect \/ Disconnect \/ Write \/ Terminate
  \/ \E h \in Hosts : Reboot(h)
  \/ \E e \in Directories : Operates(e)
  \/ \E c \in commands : Deliver(c)
  \/ \E h \in Hosts : Works(h)
Spec == Init /\ [][Next]_vars
-----------------------------------------------------------------------------
TypeOK ==
  /\ state \in {"running", "terminated"} /\ tasks \in BOOLEAN
  /\ data \in [Hosts -> [rows : 0..MaxRows, mode : {"empty", "rw", "ro"}, enabled : BOOLEAN,
                        restored : 0..MaxBackups]]
  /\ connected \in BOOLEAN /\ timer \in BOOLEAN
  /\ job # None => job \in [rows : 0..MaxRows]
  /\ kept \in Seq(0..MaxRows) /\ Len(kept) <= MaxBackups
  /\ \A e \in Directories :
       /\ \A action \in {"fence", "restore"} :
            evidence[e][action] # None => evidence[e][action] \in Requests
       /\ evidence[e].sent \subseteq {"fence", "restore"}
       /\ step[e] # None => step[e].at \in {"checked", "intended", "sent"} /\ step[e].request \in Requests
  /\ \A c \in commands :
       /\ c.request \in Requests /\ c.receipt \in 0..MaxBackups
       /\ c.status \in {"Pending", "InProgress", "Success", "Failed"}
  /\ \A h \in Hosts :
       /\ run[h] \subseteq {"fence", "restore"} /\ intents[h] \subseteq {"fence", "restore"}
       /\ acts[h] # None =>
            acts[h].command \in commands /\ acts[h].at \in DOMAIN Program(acts[h].command.action)

\* What is restored is everything the source had when it ended, though its writers, its
\* timer and its tasks went on until they were stopped, and its fence may have failed
\* anywhere; and it is brought up on one new host at most, for the runtime to write to,
\* and on none before the source is terminated (native_host.py:142-170,
\* native_step.py:101-104, 115-132, 186-188).  In states of the right type.
NothingLost ==
  /\ TypeOK
  /\ \A h \in Targets : data[h].restored # 0 => kept[data[h].restored] = data[Source].rows
  /\ \A h \in Targets : data[h].mode # "empty" => state = "terminated"
  /\ \A g, h \in Targets : data[g].mode # "empty" /\ data[h].mode # "empty" => g = h
=============================================================================
