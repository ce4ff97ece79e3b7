------------------------------- MODULE ColdRecovery -------------------------------
(***************************************************************************)
(* The recovery of the database on a fresh host                             *)
(* (operations/sql-backup/recovery): bootstrap.sh brings SQL up on it, and  *)
(* host.py restores the selected backup, moves the listener of SQL from     *)
(* loopback to the private address and writes the version of the secret by  *)
(* which tasks connect.  verify_effective.py is how it looks at SQL.        *)
(*                                                                         *)
(* An action of host.py belongs to a directory, in which its STARTED marker *)
(* stays.  Nothing keeps two directories apart, so that two processes may   *)
(* run on the host.  A process may end anywhere, because a check refuses, a *)
(* call raises or the host reboots; SQL comes back with the host.           *)
(*                                                                         *)
(* The plans and receipts given to an action are those this program wrote;  *)
(* the ages it bounds them by are left out, and one too old is a refusal.   *)
(***************************************************************************)
EXTENDS Naturals, Sequences, FiniteSets

CONSTANTS
  Directories,  \* --directory
  Offers,       \* the actions each directory is given for
  Pids,         \* process identities, which the kernel uses again
  MaxStarts,    \* bound on the starts of SQL on the target
  None

ColdAssumption ==
  /\ None \notin Directories \cup {"loopback", "private"}
  /\ DOMAIN Offers = Directories
  /\ \A d \in Directories :
       Offers[d] \subseteq {"restore", "warm", "transition", "review", "connection"}
  /\ Pids \subseteq Nat \ {0} /\ Pids # {} /\ MaxStarts \in Nat \ {0}

VARIABLES
  source,    \* the source, and what was recorded of it
  target,    \* the target's instance, and whether its network is as reviewed
  boot,      \* the stage of its bootstrap
  sql,       \* SQL on the target: its process, and the address it listens on
  conf,      \* mssql.conf: network.ipaddress, and how often it was written
  contents,  \* what the target has been given: staging, database, login, probe
  served,    \* history: the recovery that wrote through the API
  started,   \* the markers of each directory
  receipts,  \* and its receipts
  phases,    \* and how many phases of a listener transition it has
  proc,      \* the process of each directory: its action and where it is
  seen,      \* what its runtime check has seen
  stages,    \* the versions of the connection secret
  flying     \* whether a put of it may still land

host  == <<boot, sql, conf, contents, served>>
files == <<started, receipts, phases>>
cloud == <<stages, flying>>
vars  == <<source, target, host, files, proc, seen, cloud>>

Unseen == [pid |-> 0, start |-> 0, time |-> 0, answered |-> 0]

Init ==
  /\ source = [state |-> "running", recorded |-> FALSE, quiesced |-> FALSE]
  /\ target = [launched |-> "none", network |-> TRUE]
  /\ boot = 0
  /\ sql = [up |-> FALSE, pid |-> 0, start |-> 0, address |-> None]
  /\ conf = [address |-> None, time |-> 0]
  /\ contents = {} /\ served = "none"
  /\ started = [d \in Directories |-> {}] /\ receipts = [d \in Directories |-> {}]
  /\ phases = [d \in Directories |-> 0]
  /\ proc = [d \in Directories |-> None] /\ seen = [d \in Directories |-> Unseen]
  /\ stages = {"current"} /\ flying = FALSE
-----------------------------------------------------------------------------
(* The source runs with its SQL, or one of the two is stopped and may be     *)
(* started again, or its instance is terminated and may not.                *)

\* source: its database, a marker, its backup, another marker, and the record of
\* them, once, since what it created is refused.
Source ==
  /\ source.state = "running" /\ ~source.recorded
  /\ source' = [source EXCEPT !.recorded = TRUE]
  /\ UNCHANGED <<target, host, files, proc, seen, cloud>>

\* quiesce: SQL is stopped and was seen inactive.
Quiesce ==
  /\ source.state = "running" /\ source.recorded
  /\ source' = [source EXCEPT !.state = "stopped", !.quiesced = TRUE]
  /\ UNCHANGED <<target, host, files, proc, seen, cloud>>

SourceChanges ==
  /\ source.state # "terminated"
  /\ \E state \in {"running", "stopped", "terminated"} : source' = [source EXCEPT !.state = state]
  /\ UNCHANGED <<target, host, files, proc, seen, cloud>>
-----------------------------------------------------------------------------
(* The target's bootstrap, once in its life.                                *)

Stages == <<"fresh", "packages", "inactive", "setup", "query", "marker">>
Ready  == boot = Len(Stages)
Failed == Len(Stages) + 1

\* Before or after the recovery was requested.
Launch ==
  /\ target.launched = "none"
  /\ \E how \in {"prepared", "fresh"} : target' = [target EXCEPT !.launched = how]
  /\ UNCHANGED <<source, host, files, proc, seen, cloud>>

\* SQL starts with the address that mssql.conf has, as another process.
StartSql ==
  /\ sql.start < MaxStarts
  /\ \E pid \in Pids :
       sql' = [up |-> TRUE, pid |-> pid, start |-> sql.start + 1, address |-> conf'.address]

CheckFreshHost == conf.address = None
RequireSqlInactive == ~sql.up
WaitSql == sql.up

\* The settings are there before SQL starts for the first time.
SetupSql == conf' = [address |-> "loopback", time |-> 1] /\ StartSql

RunStage ==
  /\ target.launched # "none" /\ boot < Len(Stages)
  /\ CASE Stages[boot + 1] = "fresh"    -> CheckFreshHost /\ UNCHANGED <<sql, conf>>
       [] Stages[boot + 1] = "inactive" -> RequireSqlInactive /\ UNCHANGED <<sql, conf>>
       [] Stages[boot + 1] = "setup"    -> SetupSql
       [] Stages[boot + 1] = "query"    -> WaitSql /\ UNCHANGED <<sql, conf>>
       [] OTHER                         -> UNCHANGED <<sql, conf>>
  /\ boot' = boot + 1
  /\ UNCHANGED <<source, target, contents, served, files, proc, seen, cloud>>

StageFails ==
  /\ target.launched # "none" /\ boot < Len(Stages)
  /\ boot' = Failed
  /\ UNCHANGED <<source, target, sql, conf, contents, served, files, proc, seen, cloud>>
-----------------------------------------------------------------------------
(* What host.py does, action by action.                                     *)

\* A runtime check is "verify", "query" and "bind"; a check of the listener has one
\* between two looks at the network.
Restore ==
  <<"staging", "fence", "verify", "query", "bind", "restore", "fence", "login", "fence", "probe",
    "fence", "receipt">>

\* The prepared recovery, which has no fence but the quiesce receipt.
Warm ==
  <<"staging", "quiescence", "verify", "query", "bind", "restore", "login", "probe", "receipt">>

\* Mutant: SQL is stopped before it is recorded that it will be.
TransitionEarly ==
  <<"clean", "network", "verify", "query", "bind", "phase", "network", "stop", "phase", "stopped",
    "phase", "network", "phase", "conf", "stopped", "phase", "network", "phase", "start",
    "network", "verify", "query", "bind", "network", "phase", "receipt">>

\* preflight, stop-intent, stopped, config-intent, configured, start-intent and
\* verified: an intent is recorded before what it is for.
Transition ==
  <<"clean", "network", "verify", "query", "bind", "phase", "network", "phase", "stop", "stopped",
    "phase", "network", "phase", "conf", "stopped", "phase", "network", "phase", "start",
    "network", "verify", "query", "bind", "network", "phase", "receipt">>

Review == <<"history", "network", "verify", "query", "bind", "network", "receipt">>

Connection ==
  <<"network", "verify", "query", "bind", "network", "describe", "put", "described",
    "network", "verify", "query", "bind", "network", "receipt">>

Programs ==
  [do \in {"restore", "warm", "transition", "review", "connection"} |->
     CASE do = "restore"    -> Restore
       [] do = "warm"       -> Warm
       [] do = "transition" -> Transition
       [] do = "review"     -> Review
       [] do = "connection" -> Connection]

\* The marker and the receipt of an action, whichever recovery it is.
Marker(do) == IF do = "warm" THEN "restore" ELSE do

Runs(d, step) == proc[d] # None /\ Programs[proc[d].do][proc[d].at] = step
Advance(d)    == proc' = [proc EXCEPT ![d].at = @ + 1]

\* service_plan: a restore that was confirmed to be cold.
Planned == \E d \in Directories : "restore" \in receipts[d]

\* cold_path, and what a prepared recovery asks: a backup of the source's that it can
\* start from.
Selected == source.recorded

\* The marker is created, exclusively, before anything else.
Begin(d, do) ==
  /\ do \in Offers[d] /\ target.launched # "none" /\ proc[d] = None /\ Marker(do) \notin started[d]
  /\ IF do \in {"restore", "warm"} THEN Selected ELSE Planned
  /\ started' = [started EXCEPT ![d] = @ \cup {Marker(do)}]
  /\ proc' = [proc EXCEPT ![d] = [do |-> do, at |-> 1]]
  /\ UNCHANGED <<source, target, host, receipts, phases, seen, cloud>>

Receipt(d) ==
  /\ Runs(d, "receipt")
  /\ receipts' = [receipts EXCEPT ![d] = @ \cup {proc[d].do}]
  /\ proc' = [proc EXCEPT ![d] = None]
  /\ UNCHANGED <<source, target, host, started, phases, seen, cloud>>

\* The process ends: it refused, raised or was killed.
Ends(d) ==
  /\ proc[d] # None /\ proc' = [proc EXCEPT ![d] = None]
  /\ seen' = [seen EXCEPT ![d] = Unseen]
  /\ UNCHANGED <<source, target, host, files, cloud>>

\* systemd starts SQL again, or the host comes back with it.
Restart ==
  /\ boot >= 4
  /\ \/ sql.up /\ UNCHANGED <<proc, seen, boot>>
     \/ /\ proc' = [d \in Directories |-> None] /\ seen' = [d \in Directories |-> Unseen]
        /\ boot' = IF Ready THEN boot ELSE Failed
  /\ UNCHANGED conf /\ StartSql
  /\ UNCHANGED <<source, target, contents, served, files, cloud>>
-----------------------------------------------------------------------------
(* Reads.  One that does not find what it asks for ends the process.        *)

\* Mutant: a source that is stopped is enough.
ConfirmedStopped == source.state \in {"stopped", "terminated"} /\ target.launched = "fresh"

\* confirm_cold_fence: terminated, and a target that was not prepared before.
Confirmed == source.state = "terminated" /\ target.launched = "fresh"

\* application_network.
ApplicationNetwork == source.state = "terminated" /\ target.network

\* Where SQL must listen, and nowhere else.
Expected(d) ==
  IF \/ proc[d].do \in {"restore", "warm"}
     \/ proc[d].do = "transition" /\ phases[d] = 0
  THEN "loopback" ELSE "private"

\* Mutant: SQL may listen where it was configured to, whichever address that is.
ListensAnywhere(d) == sql.up /\ conf.address = sql.address

Listens(d) == sql.up /\ sql.address = Expected(d) /\ conf.address = Expected(d)

\* Verifier.verify and the first binding: marker, service, configuration, listener.
Verify(d) ==
  /\ Runs(d, "verify") /\ Ready /\ Listens(d)
  /\ seen' = [seen EXCEPT ![d] = [pid |-> sql.pid, start |-> sql.start, time |-> conf.time,
                                  answered |-> 0]]
  /\ Advance(d)
  /\ UNCHANGED <<source, target, host, files, cloud>>

\* A new session, answered by the SQL that then listens there.
Query(d) ==
  /\ Runs(d, "query") /\ sql.up
  /\ seen' = [seen EXCEPT ![d].answered = sql.start]
  /\ Advance(d)
  /\ UNCHANGED <<source, target, host, files, cloud>>

\* The environment is read by the identity of the process.
Environment(d) == sql.up /\ sql.pid = seen[d].pid

\* Mutant: the process is not bound again.
SameProcessUnread(d) == TRUE

\* token, binding: when the process started, its socket, and when mssql.conf was
\* written.
SameProcess(d) == sql.start = seen[d].start /\ conf.time = seen[d].time

\* require_runtime_precheck: a query was answered, and the process is still the one.
Bound(d) == seen[d].answered # 0 /\ Environment(d) /\ SameProcess(d)

Bind(d) ==
  /\ Runs(d, "bind") /\ Bound(d)
  /\ seen' = [seen EXCEPT ![d] = Unseen]
  /\ Advance(d)
  /\ UNCHANGED <<source, target, host, files, cloud>>

\* sql_stopped_observation.
Stopped == ~sql.up

\* describe-secret: neither the version nor its stage.
Describe == "recovery" \notin stages

\* Exactly the versions there were, and the new one.
Described == "recovery" \in stages

Finds(d, step) ==
  CASE step = "fence"      -> Confirmed
    [] step = "quiescence" -> source.quiesced
    [] step = "network"    -> ApplicationNetwork
    [] step = "clean"      -> phases[d] = 0
    [] step = "history"    -> phases[d] # 0
    [] step = "stopped"    -> Stopped
    [] step = "describe"   -> Describe
    [] step = "described"  -> Described
    [] OTHER               -> FALSE

Reads(d) ==
  /\ proc[d] # None /\ Finds(d, Programs[proc[d].do][proc[d].at])
  /\ Advance(d)
  /\ UNCHANGED <<source, target, host, files, seen, cloud>>
-----------------------------------------------------------------------------
(* Writes.                                                                  *)

\* create_staging: directories that exist are left for review.
CreateStaging(d) ==
  /\ Runs(d, "staging") /\ "staging" \notin contents
  /\ contents' = contents \cup {"staging"}
  /\ Advance(d)
  /\ UNCHANGED <<source, target, boot, sql, conf, served, files, seen, cloud>>

\* The administrator of SQL connects by loopback only.
Local == sql.up /\ sql.address = "loopback"

\* The exact version of the manifest, into a database that must not exist.
RestoreDatabase(d) ==
  /\ Runs(d, "restore") /\ Local /\ "database" \notin contents
  /\ contents' = contents \cup {"database"}
  /\ Advance(d)
  /\ UNCHANGED <<source, target, boot, sql, conf, served, files, seen, cloud>>

\* The logins, which must not exist, and what they may do.
Principals(d) ==
  /\ Runs(d, "login") /\ Local /\ "login" \notin contents
  /\ contents' = contents \cup {"login"}
  /\ Advance(d)
  /\ UNCHANGED <<source, target, boot, sql, conf, served, files, seen, cloud>>

\* api: started on this host, it is live and, once, ready: it has reached its database.
Api == Local /\ {"database", "login"} \subseteq contents

\* check_api_recovery: one row is written through the API.
Probe(d) ==
  /\ Runs(d, "probe") /\ Api /\ "probe" \notin contents
  /\ contents' = contents \cup {"probe"} /\ served' = proc[d].do
  /\ Advance(d)
  /\ UNCHANGED <<source, target, boot, sql, conf, files, seen, cloud>>

Phase(d) ==
  /\ Runs(d, "phase")
  /\ phases' = [phases EXCEPT ![d] = @ + 1]
  /\ Advance(d)
  /\ UNCHANGED <<source, target, host, started, receipts, seen, cloud>>

\* systemctl stop, mssql-conf set, systemctl start.
Stop(d) ==
  /\ Runs(d, "stop")
  /\ sql' = [sql EXCEPT !.up = FALSE]
  /\ Advance(d)
  /\ UNCHANGED <<source, target, boot, conf, contents, served, files, seen, cloud>>

Configure(d) ==
  /\ Runs(d, "conf")
  /\ conf' = [address |-> "private", time |-> conf.time + 1]
  /\ Advance(d)
  /\ UNCHANGED <<source, target, boot, sql, contents, served, files, seen, cloud>>

Start(d) ==
  /\ Runs(d, "start") /\ UNCHANGED conf
  /\ IF sql.up THEN UNCHANGED sql ELSE StartSql
  /\ Advance(d)
  /\ UNCHANGED <<source, target, boot, contents, served, files, seen, cloud>>

\* A version with a stage of its own.  It is not sent again; one that raised may
\* have been stored or may be, and with the same token it is the same version.
PutConnectionVersion(d) ==
  /\ Runs(d, "put")
  /\ \/ stages' = stages \cup {"recovery"} /\ UNCHANGED flying /\ Advance(d)
     \/ flying' = TRUE /\ UNCHANGED stages /\ proc' = [proc EXCEPT ![d] = None]
  /\ UNCHANGED <<source, target, host, files, seen>>

Land ==
  /\ flying /\ flying' = FALSE
  /\ stages' = stages \cup {"recovery"}
  /\ UNCHANGED <<source, target, host, files, proc, seen>>

\* Somebody changes the network of the target.
NetworkChanges ==
  /\ target.launched # "none" /\ target.network
  /\ target' = [target EXCEPT !.network = FALSE]
  /\ UNCHANGED <<source, host, files, proc, seen, cloud>>
-----------------------------------------------------------------------------
Process(d) ==
  \/ \E do \in DOMAIN Programs : Begin(d, do)
  \/ /\ proc[d] # None
     /\ \/ Receipt(d) \/ Ends(d) \/ Verify(d) \/ Query(d) \/ Bind(d) \/ Reads(d)
        \/ CreateStaging(d) \/ RestoreDatabase(d) \/ Principals(d) \/ Probe(d)
        \/ Phase(d) \/ Stop(d) \/ Configure(d) \/ Start(d) \/ PutConnectionVersion(d)

Next ==
  \/ Source \/ Quiesce \/ SourceChanges \/ Launch \/ RunStage \/ StageFails
  \/ Restart \/ Land \/ NetworkChanges
  \/ \E d \in Directories : Process(d)
Spec == Init /\ [][Next]_vars
-----------------------------------------------------------------------------
TypeOK ==
  /\ source \in [state : {"running", "stopped", "terminated"}, recorded : BOOLEAN,
                 quiesced : BOOLEAN]
  /\ target \in [launched : {"none", "prepared", "fresh"}, network : BOOLEAN]
  /\ boot \in 0..Failed
  /\ sql \in [up : BOOLEAN, pid : Pids \cup {0}, start : 0..MaxStarts,
              address : {None, "loopback", "private"}]
  /\ conf \in [address : {None, "loopback", "private"}, time : Nat]
  /\ contents \subseteq {"staging", "database", "login", "probe"}
  /\ served \in {"none", "restore", "warm"}
  /\ \A d \in Directories :
       /\ started[d] \subseteq {Marker(do) : do \in DOMAIN Programs}
       /\ receipts[d] \subseteq DOMAIN Programs
       /\ phases[d] \in 0..7
       /\ proc[d] # None => proc[d].at \in DOMAIN Programs[proc[d].do]
       /\ seen[d] \in [pid : Pids \cup {0}, start : 0..MaxStarts, time : Nat, answered : 0..MaxStarts]
  /\ stages \subseteq {"current", "recovery"} /\ flying \in BOOLEAN

\* Nothing connects to the target while the source may still come back: neither the
\* API of a cold restore nor, by the connection version, the tasks; and that version
\* names a database that was restored, with its login, at the address SQL is
\* configured to listen on (host.py:171-200, 542-597, 743-749).  In states of the
\* right type.
FencedAndReachable ==
  /\ TypeOK
  /\ served = "restore" \/ Planned => source.state = "terminated"
  /\ "recovery" \in stages \/ flying =>
       /\ source.state = "terminated" /\ conf.address = "private"
       /\ {"database", "login", "probe"} \subseteq contents /\ served = "restore"

\* The files that survive tell of everything a listener transition has done to the
\* host, wherever it ended: SQL that is down had its stop recorded, and another
\* address its change (host.py:482-505).
PhasesTell ==
  /\ Ready /\ ~sql.up => \E d \in Directories : phases[d] >= 2
  /\ conf.address = "private" => \E d \in Directories : phases[d] >= 4

\* The SQL that a runtime check accepts is one process, which answered the query and
\* is still there, listening where the action needs it, though SQL may have been
\* restarted in between and its identity used again (verify_effective.py:249-308).
OneProcess ==
  [][\A d \in Directories :
       Runs(d, "bind") /\ proc'[d] # None /\ proc'[d].at = proc[d].at + 1 =>
         /\ seen[d].answered = sql.start /\ seen[d].start = sql.start
         /\ sql.up /\ sql.address = Expected(d) /\ conf.address = Expected(d)]_vars
=============================================================================
