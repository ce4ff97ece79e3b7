------------------------------ MODULE BackupObserver ------------------------------
(***************************************************************************)
(* The watch over the backups: one activation at a time checks them         *)
(* (operations/sql-backup/observer.py, signals.py), compares what it finds  *)
(* with what it found before, and sends it to a queue of SQS                *)
(* (sentinel_publish.py).  One observation at most is pending, on the disk, *)
(* and no other is made before it has been accepted.                        *)
(*                                                                         *)
(* Observations are numbered in the order they are made; the number stands  *)
(* for the payload, byte for byte, and for the clock.  A process that dies  *)
(* leaves its lock file, and only the operator removes it.  A call of SQS   *)
(* may raise and its message still arrive.                                  *)
(***************************************************************************)
EXTENDS Naturals

CONSTANTS
  Attention,        \* the conditions that ask for attention: FAILED, STALE, ...
  Attempts,         \* --publish-attempts
  Total,            \* --total-publish-attempts
  MaxObservations,  \* bound on the observations
  None

Conditions   == Attention \cup {"HEALTHY"}
Observations == 1..MaxObservations
Pendings     == [n : Observations, attempts : 0..Attempts, blocked : BOOLEAN]

ObserverAssumption ==
  /\ Attention \cap {"HEALTHY", "MAINTENANCE"} = {} /\ {"FAILED", "UNKNOWN"} \subseteq Attention
  /\ Attempts \in Nat \ {0} /\ Total \in Nat \ {0} /\ MaxObservations \in Nat
  /\ None \notin Conditions \cup {"MAINTENANCE"} \cup Pendings

VARIABLES
  owner,     \* delivery/observer.lock: free, held, or left by a process that died
  pc,        \* where the activation is
  seen,      \* the last observation, and its event
  state,     \* observer-state.json
  pending,   \* pending.json
  budget,    \* budget.json
  enqueued,  \* last-enqueued.json
  queue,     \* the observations SQS has
  flying,    \* those that may still arrive
  calls,     \* history: the calls of SQS for each observation
  made,      \* history: and for all of them
  saved      \* history: the observations the saved state accounts for

sqs  == <<queue, flying, calls, made>>
vars == <<owner, pc, seen, state, pending, budget, enqueued, sqs, saved>>

NoState == [condition |-> None, open |-> FALSE, notice |-> 0]

Init ==
  /\ owner = "free" /\ pc = "idle"
  /\ seen = [n |-> 0, condition |-> None, emit |-> FALSE] /\ state = NoState
  /\ pending = None /\ budget = 0 /\ enqueued = 0
  /\ queue = {} /\ flying = {} /\ calls = [n \in Observations |-> 0] /\ made = 0 /\ saved = {}
-----------------------------------------------------------------------------
(* An observation.                                                          *)

\* parse_health, signals.render: the check's pair and exit status, or UNKNOWN
\* where they do not fit.
Checked == Conditions \cup {"UNKNOWN"}

\* health: a job that ended after the newest backup counts more than the check.
\* One that is STARTED does not.
JobStates == {"none", "STARTED", "REMOTE_VERIFIED_CLEANUP_VERIFIED", "FAILED_OR_UNCONFIRMED",
              "UNKNOWN", "OPERATOR_RESUMED"}
Health(check, job) ==
  CASE job = "FAILED_OR_UNCONFIRMED"             -> "FAILED"
    [] job \in {"UNKNOWN", "OPERATOR_RESUMED"}   -> "UNKNOWN"
    [] OTHER                                     -> check

\* transition: what is a notice, and what the state becomes.  A reminder may be
\* due whenever the condition lasts.
Emits(c, reminder) ==
  CASE c = "MAINTENANCE" -> FALSE
    [] c = "HEALTHY"     -> state.open
    [] OTHER             -> ~state.open \/ state.condition # c \/ reminder

Becomes(event) ==
  IF event.condition = "MAINTENANCE" THEN state
  ELSE [condition |-> event.condition, open |-> event.condition # "HEALTHY",
        notice |-> IF event.emit THEN event.n ELSE state.notice]

\* What transition asks of the state it is given: an incident is open exactly when
\* the last condition was not healthy, and its notice is not of the future.
Accepts(s) == /\ s.open = (s.condition \notin {None, "HEALTHY"})
              /\ s.notice <= seen.n /\ (s.open => s.notice # 0)

\* A pending observation is sent before another is made.
First == IF pending = None THEN "observe" ELSE "flush"

\* owner: the lock file is created, or somebody has it.
Begin ==
  /\ owner = "free"
  /\ owner' = "held" /\ pc' = First
  /\ UNCHANGED <<seen, state, pending, budget, enqueued, sqs, saved>>

Observe ==
  /\ pc = "observe" /\ seen.n < MaxObservations /\ Accepts(state)
  /\ \E check \in Checked, job \in JobStates, up, reminder \in BOOLEAN :
       LET c == IF up THEN Health(check, job) ELSE "MAINTENANCE"
       IN  seen' = [n |-> seen.n + 1, condition |-> c, emit |-> Emits(c, reminder)]
  /\ pc' = IF seen'.condition = "MAINTENANCE" THEN "save" ELSE "persist"
  /\ UNCHANGED <<owner, state, pending, budget, enqueued, sqs, saved>>

\* persist: the event becomes pending before the state says that it was seen.
Persist ==
  /\ pc = "persist"
  /\ pending' = [n |-> seen.n, attempts |-> 0, blocked |-> FALSE] /\ pc' = "save"
  /\ UNCHANGED <<owner, seen, state, budget, enqueued, sqs, saved>>

Release == owner' = "free" /\ pc' = "idle"

Save ==
  /\ pc = "save"
  /\ state' = Becomes(seen)
  /\ IF seen.condition = "MAINTENANCE"
       THEN Release /\ UNCHANGED saved
       ELSE pc' = "flush" /\ saved' = saved \cup {seen.n} /\ UNCHANGED owner
  /\ UNCHANGED <<seen, pending, budget, enqueued, sqs>>
-----------------------------------------------------------------------------
(* flush.                                                                   *)

Within == ~pending.blocked /\ pending.attempts < Attempts /\ budget < Total

Count ==
  /\ pc = "flush" /\ Within
  /\ budget' = budget + 1 /\ pc' = "attempt"
  /\ UNCHANGED <<owner, seen, state, pending, enqueued, sqs, saved>>

\* Both are counted, on the disk, before SQS is called.
Attempt ==
  /\ pc = "attempt"
  /\ pending' = [pending EXCEPT !.attempts = @ + 1] /\ pc' = "send"
  /\ UNCHANGED <<owner, seen, state, budget, enqueued, sqs, saved>>

\* Mutant: a call that gave no identity is taken for accepted.
UnconfirmedIsAccepted == pc' = "accepted" /\ UNCHANGED owner

\* PENDING: the activation is over and the observation stays.
Unconfirmed == Release

Send ==
  /\ pc = "send"
  /\ calls' = [calls EXCEPT ![pending.n] = @ + 1] /\ made' = made + 1
  /\ \/ queue' = queue \cup {pending.n} /\ pc' = "accepted" /\ UNCHANGED <<owner, flying>>
     \/ queue' = queue \cup {pending.n} /\ UNCHANGED flying /\ Unconfirmed
     \/ flying' = flying \cup {pending.n} /\ UNCHANGED queue /\ Unconfirmed
     \/ UNCHANGED <<queue, flying>> /\ Unconfirmed
     \/ UNCHANGED <<queue, flying, owner>> /\ pc' = "denied"
  /\ UNCHANGED <<seen, state, pending, budget, enqueued, saved>>

Arrive ==
  \E n \in flying :
    /\ flying' = flying \ {n} /\ queue' = queue \cup {n}
    /\ UNCHANGED <<owner, pc, seen, state, pending, budget, enqueued, calls, made, saved>>

\* Access denied: no later activation tries again.
Block ==
  /\ pc = "denied"
  /\ pending' = [pending EXCEPT !.blocked = TRUE] /\ Release
  /\ UNCHANGED <<seen, state, budget, enqueued, sqs, saved>>

\* The acceptance is retained before the observation is removed.
Note ==
  /\ pc = "accepted"
  /\ enqueued' = pending.n /\ pc' = "unlink"
  /\ UNCHANGED <<owner, seen, state, pending, budget, sqs, saved>>

Unlink ==
  /\ pc = "unlink"
  /\ pending' = None /\ Release
  /\ UNCHANGED <<seen, state, budget, enqueued, sqs, saved>>
-----------------------------------------------------------------------------
\* A refusal, or a file that cannot be written: the lock file is removed.
Raises ==
  /\ owner = "held" /\ Release
  /\ UNCHANGED <<seen, state, pending, budget, enqueued, sqs, saved>>

\* The lock file stays, and a file half written beside those that are whole.
Dies ==
  /\ owner = "held" /\ owner' = "left" /\ pc' = "idle"
  /\ UNCHANGED <<seen, state, pending, budget, enqueued, sqs, saved>>

\* The operator removes what it left, and no more.
Reconcile ==
  /\ owner = "left" /\ owner' = "free"
  /\ UNCHANGED <<pc, seen, state, pending, budget, enqueued, sqs, saved>>

Next == \/ Begin \/ Observe \/ Persist \/ Save \/ Count \/ Attempt \/ Send \/ Arrive
        \/ Block \/ Note \/ Unlink \/ Raises \/ Dies \/ Reconcile
Spec == Init /\ [][Next]_vars
-----------------------------------------------------------------------------
TypeOK ==
  /\ owner \in {"free", "held", "left"}
  /\ pc \in {"idle", "observe", "persist", "save", "flush", "attempt", "send", "accepted",
             "unlink", "denied"}
  /\ seen \in [n : 0..MaxObservations, condition : Conditions \cup {"MAINTENANCE", None},
               emit : BOOLEAN]
  /\ state \in [condition : Conditions \cup {None}, open : BOOLEAN, notice : 0..MaxObservations]
  /\ pending \in {None} \cup Pendings
  /\ budget \in 0..Total /\ enqueued \in 0..MaxObservations
  /\ queue \subseteq Observations /\ flying \subseteq Observations
  /\ calls \in [Observations -> Nat] /\ made \in Nat /\ saved \subseteq Observations

\* No observation that the state accounts for is lost, the notice of an open incident
\* among them: it is still pending or SQS has it, wherever an activation raised or
\* died (sentinel_publish.py:80-90, observer.py:70-82); what is recorded as
\* accepted is there; and the state that is saved is never refused by the next
\* activation.  SQS is called at most so often for one observation and for all, and for
\* a later one only when it has the earlier (sentinel_publish.py:55-85).  In states of the right type.
Announced ==
  /\ TypeOK
  /\ Accepts(state)
  /\ \A n \in saved : n \in queue \/ (pending # None /\ pending.n = n)
  /\ enqueued # 0 => enqueued \in queue
  /\ state.open => state.notice \in saved
  /\ made <= Total /\ \A n \in Observations : calls[n] <= Attempts
  /\ \A m, n \in Observations : m < n /\ calls[m] > 0 /\ calls[n] > 0 => m \in queue
=============================================================================
