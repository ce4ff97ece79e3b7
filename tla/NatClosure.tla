------------------------------- MODULE NatClosure -------------------------------
(***************************************************************************)
(* The closure of NAT recovery while an environment is taken down           *)
(* (scripts/nat/closure.py, quiescence.py).  A duty that is about to change *)
(* EC2 is admitted, and then marked as dispatched, in one S3 object, the    *)
(* head; whoever takes the environment down closes that object for ever and *)
(* reports what it still accounts for.                                      *)
(*                                                                         *)
(* Every write of the head is a compare-and-swap of what was read before;   *)
(* its answer is not looked at, only what is read next.  A put may be lost, *)
(* or land long after.  E2, read from its own object, is a generation and a *)
(* holder (MutationAuthority), and the two objects are no transaction.      *)
(*                                                                         *)
(* An invocation is one delivery of a duty that E13 lets through to its     *)
(* transport, so it has a token of its own (RecoveryJournal, AtMostOnce).   *)
(* The revision of the head only counts its changes, and is left out.       *)
(***************************************************************************)
EXTENDS Naturals, FiniteSets

CONSTANTS
  Invocations,     \* invocations of the duties, and their tokens
  Down,            \* the operation that closes
  Limit,           \* LIMIT of closure.py
  MaxGeneration,   \* bound on the generations of E2
  MaxFlying,       \* bound on puts of the head that land late
  MaxInspections,  \* bound on the calls of require_network_teardown
  None

ClosureAssumption ==
  /\ Down \notin Invocations /\ None \notin Invocations \cup {Down} \cup Nat
  /\ "other" \notin {Down, None}
  /\ {Limit, MaxGeneration, MaxFlying, MaxInspections} \subseteq Nat /\ MaxGeneration > 0

Processes == Invocations \cup {Down}
Permits   == {"none", "ADMITTED", "DISPATCHED", "CANCELLED", "SEALED"}
Anchor    == 1                 \* the released generation the epoch was seeded at

VARIABLES
  gen, holder,   \* the E2 head
  head,          \* the NAT head: its closure and the permits
  flying,        \* puts that raised and may still land
  proc,          \* each process: where it is, what it wants, the head it read
  sent,          \* how often each invocation called EC2
  effect,        \* what became of that in EC2
  journal,       \* invocations whose response, and those whose ack E13 has
  intent,        \* whether the UNKNOWN intent of Down is retained
  report,        \* the last retained report of the permits
  inspections

e2   == <<gen, holder>>
ec2  == <<sent, effect, journal>>
down == <<intent, report, inspections>>
vars == <<e2, head, flying, proc, ec2, down>>

\* initial, as the administrator seeds it: E2 RELEASED, open, no permits.
Init ==
  /\ gen = Anchor /\ holder = None
  /\ head = [closure |-> None, permits |-> [i \in Invocations |-> "none"]]
  /\ flying = {}
  /\ proc = [p \in Processes |-> [pc |-> IF p = Down THEN "idle" ELSE "read",
                                  goal |-> IF p = Down THEN "CLOSED" ELSE "ADMITTED",
                                  prior |-> head]]
  /\ sent = [i \in Invocations |-> 0]
  /\ effect = [i \in Invocations |-> "none"]
  /\ journal = [response |-> {}, ack |-> {}]
  /\ intent = FALSE /\ report = None /\ inspections = 0

At(p, pc) == proc[p].pc = pc
To(p, pc) == proc' = [proc EXCEPT ![p].pc = pc]
Aim(p, goal) == proc' = [proc EXCEPT ![p].pc = "read", ![p].goal = goal]
Goal(p)  == proc[p].goal
Prior(p) == proc[p].prior
-----------------------------------------------------------------------------
(* The head.                                                                *)

\* Head.read.
Read(p) ==
  /\ At(p, "read")
  /\ proc' = [proc EXCEPT ![p].pc = "check", ![p].prior = head]
  /\ UNCHANGED <<e2, head, flying, ec2, down>>

\* What a process wants the head to become.
Value(p) == IF p = Down THEN [Prior(p) EXCEPT !.closure = gen]
                        ELSE [Prior(p) EXCEPT !.permits[p] = Goal(p)]

\* Mutant: the put overwrites whatever is there.
MatchesAlways(prior) == TRUE

\* IfMatch of the ETag that was read.
Matches(prior) == head = prior

\* Head.exchange: the put, whose outcome is not looked at.
Put(p) ==
  /\ At(p, "put")
  /\ \/ Matches(Prior(p)) /\ head' = Value(p) /\ UNCHANGED flying
     \/ UNCHANGED <<head, flying>>
     \/ /\ Cardinality(flying) < MaxFlying
        /\ flying' = flying \cup {[prior |-> Prior(p), value |-> Value(p)]}
        /\ UNCHANGED head
  /\ To(p, "readback")
  /\ UNCHANGED <<e2, ec2, down>>

\* A put in flight meets the head it expects, or another one.
Land ==
  \E put \in flying :
    /\ flying' = flying \ {put}
    /\ head' = IF Matches(put.prior) THEN put.value ELSE head
    /\ UNCHANGED <<e2, proc, ec2, down>>

\* Mutant: a put that did not raise is taken for done.
SettledUnread(p) == TRUE

\* Only an exact readback settles it.
Settled(p) == head = Value(p)
-----------------------------------------------------------------------------
(* The duties.                                                              *)

Released == holder = None /\ gen = Anchor

\* Coordinator.admit.
Admissible(i) ==
  /\ Prior(i).closure = None /\ Released
  /\ Prior(i).permits[i] = "none"
  /\ Cardinality({j \in Invocations : Prior(i).permits[j] # "none"}) < Limit

Expected(i) == IF Goal(i) = "SEALED" THEN "DISPATCHED" ELSE "ADMITTED"

\* Coordinator.transition.
Permitted(i) ==
  /\ Prior(i).permits[i] = Expected(i)
  /\ Goal(i) = "DISPATCHED" => Prior(i).closure = None /\ Released

Check(i) ==
  /\ At(i, "check")
  /\ IF Goal(i) = "ADMITTED" THEN Admissible(i) ELSE Permitted(i)
  /\ To(i, "put")
  /\ UNCHANGED <<e2, head, flying, ec2, down>>

Readback(i) ==
  /\ At(i, "readback") /\ Settled(i)
  /\ CASE Goal(i) = "ADMITTED"   -> Aim(i, "DISPATCHED")
       [] Goal(i) = "DISPATCHED" -> To(i, "send")
       [] Goal(i) = "CANCELLED"  -> To(i, "raised")
       [] Goal(i) = "SEALED"     -> To(i, "done")
  /\ UNCHANGED <<e2, head, flying, ec2, down>>

\* A read, a check or a readback that raises: an unused permit is cancelled,
\* whatever else failed stays as it is.
Fails(i) ==
  /\ proc[i].pc \in {"read", "check", "readback"}
  /\ IF Goal(i) = "DISPATCHED" THEN Aim(i, "CANCELLED") ELSE To(i, "raised")
  /\ UNCHANGED <<e2, head, flying, ec2, down>>

\* DispatchEvidence: the one call the permit is for.  It returns, or raises and
\* may have been made all the same.
Send(i) ==
  /\ At(i, "send")
  /\ sent' = [sent EXCEPT ![i] = @ + 1]
  /\ \/ To(i, "respond") /\ \E e \in {"flying", "applied"} : effect' = [effect EXCEPT ![i] = e]
     \/ To(i, "raised") /\ \E e \in {"none", "flying", "applied"} : effect' = [effect EXCEPT ![i] = e]
  /\ UNCHANGED <<e2, head, flying, journal, down>>

LateEffect(i) ==
  /\ effect[i] = "flying"
  /\ effect' = [effect EXCEPT ![i] = "applied"]
  /\ UNCHANGED <<e2, head, flying, proc, sent, journal, down>>

\* The response is retained beside E13's records, and read back.
Respond(i) ==
  /\ At(i, "respond")
  /\ journal' = [journal EXCEPT !.response = @ \cup {i}]
  /\ \/ To(i, "ack") \/ To(i, "raised")
  /\ UNCHANGED <<e2, head, flying, sent, effect, down>>

\* The transport's own acknowledgement.
Ack(i) ==
  /\ At(i, "ack")
  /\ journal' = [journal EXCEPT !.ack = @ \cup {i}]
  /\ \/ To(i, "effect") \/ To(i, "raised")
  /\ UNCHANGED <<e2, head, flying, sent, effect, down>>

\* Cooperative.evidence: E13's records, the response and an observed effect.
Evidence(i) == i \in journal.response \cap journal.ack /\ effect[i] = "applied"

Observe(i) ==
  /\ At(i, "effect")
  /\ IF Evidence(i) THEN Aim(i, "SEALED") ELSE To(i, "raised")
  /\ UNCHANGED <<e2, head, flying, ec2, down>>

Dies(p) ==
  /\ proc[p].pc \notin {"idle", "raised", "done", "dead"}
  /\ To(p, "dead")
  /\ UNCHANGED <<e2, head, flying, ec2, down>>
-----------------------------------------------------------------------------
(* E2 and the operation that closes.                                        *)

OtherAcquires ==
  /\ holder = None /\ gen < MaxGeneration
  /\ gen' = gen + 1 /\ holder' = "other"
  /\ UNCHANGED <<head, flying, proc, ec2, down>>

OtherReleases ==
  /\ holder = "other" /\ holder' = None
  /\ UNCHANGED <<gen, head, flying, proc, ec2, down>>

Acquires ==
  /\ At(Down, "idle") /\ holder = None /\ gen < MaxGeneration
  /\ gen' = gen + 1 /\ holder' = Down
  /\ To(Down, "intent")
  /\ UNCHANGED <<head, flying, ec2, down>>

\* Quiescence.request: the intent is retained before anything is observed.
Request ==
  /\ At(Down, "intent") /\ inspections < MaxInspections
  /\ intent' = TRUE /\ inspections' = inspections + 1
  /\ To(Down, "observe")
  /\ UNCHANGED <<e2, head, flying, ec2, report>>

\* readback: whatever is observed of rules, functions, queues and slots, there
\* are blockers that no observation removes.
Blocked == TRUE

\* Quiescence.inspect: the observation, or its failure, is retained.
Inspect ==
  /\ At(Down, "observe") /\ intent /\ Blocked
  /\ To(Down, "read")
  /\ UNCHANGED <<e2, head, flying, ec2, down>>

\* Coordinator.close: under the generation after the anchor's, and once.
CheckClose ==
  /\ At(Down, "check") /\ gen = Anchor + 1
  /\ \/ Prior(Down).closure = None /\ To(Down, "put")
     \/ Prior(Down).closure = gen  /\ To(Down, "report")
  /\ UNCHANGED <<e2, head, flying, ec2, down>>

ReadbackClose ==
  /\ At(Down, "readback") /\ Settled(Down)
  /\ proc' = [proc EXCEPT ![Down].pc = "report", ![Down].prior = head]
  /\ UNCHANGED <<e2, head, flying, ec2, down>>

\* Coordinator.inspect: what is not CANCELLED or SEALED is pending.
Pending(permits) == {i \in Invocations : permits[i] \in {"ADMITTED", "DISPATCHED"}}

\* The report of the head that was read is retained; then it is refused in any
\* case, and a later gate may come again.
Report ==
  /\ At(Down, "report")
  /\ report' = Pending(Prior(Down).permits)
  /\ To(Down, "intent")
  /\ UNCHANGED <<e2, head, flying, ec2, intent, inspections>>

\* Anything that raises is a refusal too.
Refused ==
  /\ proc[Down].pc \in {"observe", "read", "check", "readback", "report"}
  /\ To(Down, "intent")
  /\ UNCHANGED <<e2, head, flying, ec2, down>>
-----------------------------------------------------------------------------
Invocation(i) ==
  \/ Read(i) \/ Check(i) \/ Put(i) \/ Readback(i) \/ Fails(i) \/ Send(i) \/ LateEffect(i)
  \/ Respond(i) \/ Ack(i) \/ Observe(i) \/ Dies(i)

Closing ==
  \/ OtherAcquires \/ OtherReleases \/ Acquires \/ Request \/ Inspect \/ Read(Down)
  \/ CheckClose \/ Put(Down) \/ ReadbackClose \/ Report \/ Refused \/ Dies(Down)

Next == (\E i \in Invocations : Invocation(i)) \/ Land \/ Closing
Spec == Init /\ [][Next]_vars
-----------------------------------------------------------------------------
Heads == [closure : {None} \cup 1..MaxGeneration, permits : [Invocations -> Permits]]

TypeOK ==
  /\ gen \in 1..MaxGeneration /\ holder \in {None, "other", Down}
  /\ head \in Heads
  /\ flying \subseteq [prior : Heads, value : Heads]
  /\ proc \in [Processes ->
       [pc : {"idle", "intent", "observe", "read", "check", "put", "readback", "report",
              "send", "respond", "ack", "effect", "raised", "done", "dead"},
        goal : {"CLOSED", "ADMITTED", "DISPATCHED", "CANCELLED", "SEALED"},
        prior : Heads]]
  /\ sent \in [Invocations -> Nat]
  /\ effect \in [Invocations -> {"none", "flying", "applied"}]
  /\ journal \in [response : SUBSET Invocations, ack : SUBSET Invocations]
  /\ intent \in BOOLEAN /\ report \in {None} \cup SUBSET Invocations
  /\ inspections \in 0..MaxInspections

\* The head accounts for every call of EC2: each is made at most once, under a
\* permit that is DISPATCHED then and may only become SEALED, which says that the
\* effect is there; a lost put, a late one or a crash at any point makes none
\* that it does not know of (closure.py:148-162, 299-313).  In states of the
\* right type.
Accounted ==
  /\ TypeOK
  /\ \A i \in Invocations :
       /\ sent[i] <= 1
       /\ At(i, "send") => sent[i] = 0 /\ head.permits[i] = "DISPATCHED"
       /\ sent[i] = 1 => head.permits[i] \in {"DISPATCHED", "SEALED"}
       /\ head.permits[i] = "SEALED" => sent[i] = 1 /\ effect[i] = "applied"

\* A closed head stays closed as it is, no permit becomes ADMITTED or DISPATCHED
\* any more, and EC2 is called only by those that were DISPATCHED already,
\* wherever the others were when it closed; and once a report of what is pending
\* is retained, only by those in it (closure.py:138-141, 156-158, 164-191).
ClosedToNew ==
  [][/\ head.closure # None =>
          /\ head'.closure = head.closure
          /\ \A i \in Invocations :
               /\ head'.permits[i] \in {"ADMITTED", "DISPATCHED"} => head'.permits[i] = head.permits[i]
               /\ sent'[i] # sent[i] => head.permits[i] = "DISPATCHED"
     /\ report # None => \A i \in Invocations \ report : sent'[i] = sent[i]]_vars
=============================================================================
