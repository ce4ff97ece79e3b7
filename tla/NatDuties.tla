------------------------------ MODULE NatDuties ------------------------------
(***************************************************************************)
(* Recovery of one NAT slot after its Auto Scaling group has replaced the  *)
(* instance: scripts/recovery/nat.py, scripts/wp4d/nat_resolver.py, the    *)
(* Nat transport of scripts/wp4d/aws_runtime.py and, in dev only, the      *)
(* guard of scripts/wp4d/dev_nat_guard.py.                                 *)
(*                                                                         *)
(* The launch event of an instance starts three duties, one per Lambda     *)
(* function: the EIP, the default route and the source/destination check.  *)
(* They run concurrently and are never told of each other.  Each keeps its *)
(* own journal (see RecoveryJournal for its storage failures, which are    *)
(* not repeated here) and repeats its context() before every step, so that *)
(* it sees the others' progress and the group's changes.                   *)
(*                                                                         *)
(* Abstractions.  An instance stands for its network interface, which is   *)
(* deleted with it.  Launch-template, AMI, profile, tag and subnet checks  *)
(* always hold.  The other slot is one flag: observe() reads both slots,   *)
(* so that every context fails while the other one is without its member.  *)
(* The context that a duty's own guard reads is of one moment; that of the *)
(* final readiness check is read look by look.                             *)
(* A crash, a lost answer, an expired deadline and an untimely change of   *)
(* the groups are faults, counted so that runs can bound them.             *)
(***************************************************************************)
EXTENDS Naturals, FiniteSets

CONSTANTS
  Duties,         \* the functions that the launch event starts
  Instances,      \* instances the group may have, launched in the order 1, 2, ...
  MaxInvocations, \* deliveries of one launch event to one function, retries included
  MaxFaults,      \* faults that are explored
  DevGuard,       \* whether the dev package overlay is installed
  NoIntent        \* no retained intent

ASSUME NatAssumption ==
  /\ Duties \subseteq {"assign_eip", "change_rt", "disable_sdc"}
  /\ Instances \in Nat \ {0}
  /\ MaxInvocations \in Nat
  /\ MaxFaults \in Nat
  /\ DevGuard \in BOOLEAN

Instance == 1 .. Instances
Nobody   == 0
Ops      == Instance \X Duties

\* What context() returns of the slot, the membership aside; a default route
\* exists exactly when it names an interface.
States == [eip : {Nobody} \cup Instance, route : {Nobody} \cup Instance, check : BOOLEAN]

ASSUME NoIntentAssumption == NoIntent \notin States

VARIABLES
  launched,    \* number of instances launched so far
  listed,      \* instances the Auto Scaling group lists
  leaving,     \* those of them that are no longer InService and Healthy
  neighbour,   \* whether the other slot has its healthy member
  eip,         \* instance whose interface has the slot's address
  route,       \* instance whose interface the default route names
  check,       \* source/destination check of each instance
  intent,      \* the state in the retained intent of each operation
  attempt,     \* operations with a retained attempt
  ack,         \* operations with a retained acknowledgement
  observed,    \* operations with a retained observation
  calls,       \* EC2 calls that have been sent and not applied or refused
  applied,     \* operations whose call was applied
  expired,     \* operations whose deadline has passed
  invoked,     \* how often each operation was invoked
  pc,          \* where each operation's invocation is
  verdict,     \* what its last invocation returned
  faults

groups  == <<launched, listed, leaving, neighbour>>
network == <<eip, route, check>>
journal == <<intent, attempt, ack, observed>>
ec2     == <<calls, applied>>
lambda  == <<expired, invoked, pc, verdict>>
vars    == <<groups, network, journal, ec2, lambda, faults>>

\* A new environment has no address association and no default route; an old
\* one has had its first instance set up.
Init ==
  /\ \/ launched = 0 /\ listed = {} /\ eip = Nobody /\ route = Nobody
        /\ check = [i \in Instance |-> TRUE]
     \/ launched = 1 /\ listed = {1} /\ eip = 1 /\ route = 1
        /\ check = [i \in Instance |-> i # 1]
  /\ leaving = {}
  /\ neighbour = TRUE
  /\ intent = [o \in Ops |-> NoIntent]
  /\ attempt = {}
  /\ ack = {}
  /\ observed = {}
  /\ calls = {}
  /\ applied = {}
  /\ expired = {}
  /\ invoked = [o \in Ops |-> 0]
  /\ pc = [o \in Ops |-> "idle"]
  /\ verdict = [o \in Ops |-> "none"]
  /\ faults = 0

Fault == faults < MaxFaults /\ faults' = faults + 1

------------------------------------------------------------------------------
(* The Auto Scaling groups. *)

\* The duties of an instance are over when each was invoked and has returned.
Over(i) == \A d \in Duties : invoked[<<i, d>>] > 0 /\ pc[<<i, d>>] = "idle"

\* An instance set up before the model starts has no launch event to handle.
NeedsDuties(i) == check[i] \/ \E d \in Duties : invoked[<<i, d>>] > 0

Launch ==
  /\ launched < Instances
  /\ listed \subseteq leaving
  /\ launched' = launched + 1
  /\ listed' = listed \cup {launched + 1}
  /\ IF listed = {} THEN UNCHANGED faults ELSE Fault
  /\ UNCHANGED <<leaving, neighbour, network, journal, ec2, lambda>>

Leave(i) ==
  /\ i \in listed \ leaving
  /\ leaving' = leaving \cup {i}
  /\ IF NeedsDuties(i) /\ ~ Over(i) THEN Fault ELSE UNCHANGED faults
  /\ UNCHANGED <<launched, listed, neighbour, network, journal, ec2, lambda>>

\* Termination deletes the interface: the address is free, the route is left
\* naming an interface that is gone.
Terminate(i) ==
  /\ i \in leaving
  /\ listed' = listed \ {i}
  /\ leaving' = leaving \ {i}
  /\ eip' = IF eip = i THEN Nobody ELSE eip
  /\ UNCHANGED <<launched, neighbour, route, check, journal, ec2, lambda, faults>>

NeighbourLeaves ==
  /\ neighbour
  /\ neighbour' = FALSE
  /\ Fault
  /\ UNCHANGED <<launched, listed, leaving, network, journal, ec2, lambda>>

NeighbourReturns ==
  /\ ~ neighbour
  /\ neighbour' = TRUE
  /\ UNCHANGED <<launched, listed, leaving, network, journal, ec2, lambda, faults>>

------------------------------------------------------------------------------
(* Observation. *)

\* Mutant: a predecessor that is still listed is passed over.
MemberAmongOthers(i) == i \in listed \ leaving

\* _slot() requires exactly one listed instance, InService and Healthy; the transport
\* requires it to be the one in the event.
Member(i) == listed = {i} /\ leaving = {}

\* observe() requires it of both slots.
Observable(i) == Member(i) /\ neighbour

State(i) == [eip |-> eip, route |-> route, check |-> check[i]]

\* The duty's own field shows its result.
Done(d, i) ==
  CASE d = "assign_eip"  -> eip = i
    [] d = "change_rt"   -> route = i
    [] d = "disable_sdc" -> ~ check[i]

\* The guard of nat.py compares the whole context with the one in the intent.
ExactGuard(d, i, state) == State(i) = state

\* The guard of dev_nat_guard.py compares the field that the duty changes.
OwnGuard(d, i, state) ==
  CASE d = "assign_eip"  -> eip = state.eip
    [] d = "change_rt"   -> route = state.route
    [] d = "disable_sdc" -> check[i] = state.check

Guarded(d, i, state) ==
  Observable(i) /\ IF DevGuard THEN OwnGuard(d, i, state) ELSE ExactGuard(d, i, state)

------------------------------------------------------------------------------
(* An invocation of an operation, which is an instance's launch event and a   *)
(* duty.  Each function has reserved concurrency 1.                           *)

Free(d) == \A i \in Instance : pc[<<i, d>>] = "idle"

At(o, place) == pc[o] = place

GoTo(o, place) == pc' = [pc EXCEPT ![o] = place] /\ UNCHANGED verdict

Return(o, status) ==
  /\ pc' = [pc EXCEPT ![o] = "idle"]
  /\ verdict' = [verdict EXCEPT ![o] = status]

\* The event is delivered: the function runs, again after an error or when the
\* event is duplicated.
Invoke(i, d) ==
  LET o == <<i, d>>
  IN  /\ i \in 1 .. launched /\ NeedsDuties(i)
      /\ Free(d)
      /\ invoked[o] < MaxInvocations
      /\ invoked' = [invoked EXCEPT ![o] = @ + 1]
      /\ GoTo(o, "begun")
      /\ UNCHANGED <<groups, network, journal, ec2, expired, faults>>

\* accept(): the retained intent, or prepare() and a new one.
Accept(i, d) ==
  LET o == <<i, d>>
  IN  /\ At(o, "begun")
      /\ \/ intent[o] # NoIntent /\ GoTo(o, "accepted") /\ UNCHANGED intent
         \/ /\ intent[o] = NoIntent /\ Observable(i)
            /\ intent' = [intent EXCEPT ![o] = State(i)]
            /\ GoTo(o, "accepted")
         \/ intent[o] = NoIntent /\ ~ Observable(i) /\ Return(o, "FAILURE") /\ UNCHANGED intent
      /\ UNCHANGED <<groups, network, attempt, ack, observed, ec2, expired, invoked, faults>>

\* effect(): a retained attempt is only observed; otherwise the deadline and the
\* guard are checked and the attempt is retained.
Attempt(i, d) ==
  LET o == <<i, d>>
  IN  /\ At(o, "accepted")
      /\ \/ o \in attempt /\ GoTo(o, "observing") /\ UNCHANGED attempt
         \/ /\ o \notin attempt /\ o \notin expired /\ Guarded(d, i, intent[o])
            /\ attempt' = attempt \cup {o}
            /\ GoTo(o, "attempted")
         \/ /\ o \notin attempt /\ (o \in expired \/ ~ Guarded(d, i, intent[o]))
            /\ Return(o, "FAILURE")
            /\ UNCHANGED attempt
      /\ UNCHANGED <<groups, network, intent, ack, observed, ec2, expired, invoked, faults>>

\* The fresh guard after persistence.
Guard(i, d) ==
  LET o == <<i, d>>
  IN  /\ At(o, "attempted")
      /\ IF o \notin expired /\ Guarded(d, i, intent[o])
         THEN GoTo(o, "guarded")
         ELSE Return(o, "FAILURE")
      /\ UNCHANGED <<groups, network, journal, ec2, expired, invoked, faults>>

\* Mutant: the route is always created.
AlwaysCreates(o) == route = Nobody

\* The verb of the route request was chosen when the intent was prepared.
SameVerb(o) == (route # Nobody) = (intent[o].route # Nobody)

\* mutate() checks the deadline and looks at the context once more; what it refuses
\* was not sent, but its exception is swallowed and no acknowledgement will ever be
\* found.
Mutate(i, d) ==
  LET o == <<i, d>>
  IN  /\ At(o, "guarded")
      /\ IF o \notin expired /\ Observable(i) /\ (d = "change_rt" => SameVerb(o))
         THEN calls' = calls \cup {o} /\ GoTo(o, "called")
         ELSE UNCHANGED calls /\ GoTo(o, "observing")
      /\ UNCHANGED <<groups, network, journal, applied, expired, invoked, faults>>

\* EC2 applies a call as long as the interface or instance exists, and refuses to
\* create a route that exists or to replace one that does not.
Apply(i, d) ==
  LET o == <<i, d>>
  IN  /\ o \in calls
      /\ i \in listed
      /\ d = "change_rt" => SameVerb(o)
      /\ calls' = calls \ {o}
      /\ applied' = applied \cup {o}
      /\ eip' = IF d = "assign_eip" THEN i ELSE eip
      /\ route' = IF d = "change_rt" THEN i ELSE route
      /\ check' = IF d = "disable_sdc" THEN [check EXCEPT ![i] = FALSE] ELSE check
      /\ UNCHANGED <<groups, journal, lambda, faults>>

\* A call is refused when it cannot be applied any more.
Reject(i, d) ==
  LET o == <<i, d>>
  IN  /\ o \in calls
      /\ i \notin listed \/ (d = "change_rt" /\ ~ SameVerb(o))
      /\ calls' = calls \ {o}
      /\ UNCHANGED <<groups, network, journal, applied, lambda, faults>>

\* The call returns and its acknowledgement is retained, or it was refused.
Answer(i, d) ==
  LET o == <<i, d>>
  IN  /\ At(o, "called")
      /\ o \notin calls
      /\ ack' = IF o \in applied THEN ack \cup {o} ELSE ack
      /\ GoTo(o, "observing")
      /\ UNCHANGED <<groups, network, intent, attempt, observed, ec2, expired, invoked, faults>>

\* The call, sent or even applied, times out.
LoseAnswer(i, d) ==
  LET o == <<i, d>>
  IN  /\ At(o, "called")
      /\ Fault
      /\ GoTo(o, "observing")
      /\ UNCHANGED <<groups, network, journal, ec2, expired, invoked>>

\* effect(): a retained observation is reused; an acknowledged call is verified
\* against the context; everything else stays UNCERTAIN.
Observe(i, d) ==
  LET o == <<i, d>>
  IN  /\ At(o, "observing")
      /\ IF o \in observed \/ (o \in ack /\ Observable(i) /\ Done(d, i))
         THEN observed' = observed \cup {o} /\ GoTo(o, "final")
         ELSE UNCHANGED observed /\ Return(o, "UNCERTAIN")
      /\ UNCHANGED <<groups, network, intent, attempt, ack, ec2, expired, invoked, faults>>

\* final(): the deadline, the membership and the duty's own field.
Final(i, d) ==
  LET o == <<i, d>>
  IN  /\ At(o, "final")
      /\ IF o \notin expired /\ Observable(i) /\ Done(d, i)
         THEN IF d = "disable_sdc" THEN GoTo(o, "member") ELSE Return(o, "SUCCESS")
         ELSE Return(o, "FAILURE")
      /\ UNCHANGED <<groups, network, journal, ec2, expired, invoked, faults>>

\* reliability.verify(), after disable_sdc: a pass resolves the context and assesses
\* it.  Each describe call is a step of its own, between which the groups, EC2 and
\* the other functions go on; a pass that saw what must not be is over, and the next
\* one begins with the first look.
Verifying == {"member", "address", "default", "check", "neighbour", "active", "running", "ready"}

Look(i, place, good, next) ==
  LET o == <<i, "disable_sdc">>
  IN  /\ At(o, place)
      /\ GoTo(o, IF good THEN next ELSE "member")
      /\ UNCHANGED <<groups, network, journal, ec2, expired, invoked, faults>>

\* The resolver looks at the group, the address, the route table, the check and the
\* other slot; assess() once more at the route table, whose route is active as long
\* as the interface exists, and at the instance.
Verify(i) ==
  \/ Look(i, "member", Member(i), "address")
  \/ Look(i, "address", eip = i, "default")
  \/ Look(i, "default", route = i, "check")
  \/ Look(i, "check", ~ check[i], "neighbour")
  \/ Look(i, "neighbour", neighbour, "active")
  \/ Look(i, "active", route = i /\ i \in listed, "running")
  \/ Look(i, "running", i \in listed, "ready")

\* The console output of the bootstrap is there, and the evidence is returned.
VerifySucceeds(i) ==
  LET o == <<i, "disable_sdc">>
  IN  /\ At(o, "ready")
      /\ Return(o, "SUCCESS")
      /\ UNCHANGED <<groups, network, journal, ec2, expired, invoked, faults>>

\* The last of 12 passes has failed, or 120 seconds have passed.
VerifyGivesUp(i) ==
  LET o == <<i, "disable_sdc">>
  IN  /\ pc[o] \in Verifying
      /\ Fault
      /\ Return(o, "UNREADY")
      /\ UNCHANGED <<groups, network, journal, ec2, expired, invoked>>

Expire(o) ==
  /\ intent[o] # NoIntent
  /\ o \notin expired
  /\ Fault
  /\ expired' = expired \cup {o}
  /\ UNCHANGED <<groups, network, journal, ec2, invoked, pc, verdict>>

\* The Lambda function is stopped at its time limit.
Crash(o) ==
  /\ ~ At(o, "idle")
  /\ Fault
  /\ Return(o, "CRASHED")
  /\ UNCHANGED <<groups, network, journal, ec2, expired, invoked>>

------------------------------------------------------------------------------
Run(i, d) ==
  \/ Invoke(i, d) \/ Accept(i, d) \/ Attempt(i, d) \/ Guard(i, d) \/ Mutate(i, d)
  \/ Answer(i, d) \/ Observe(i, d) \/ Final(i, d)
  \/ d = "disable_sdc" /\ (Verify(i) \/ VerifySucceeds(i))

Ec2(i, d) == Apply(i, d) \/ Reject(i, d)

Group == Launch \/ \E i \in Instance : Leave(i) \/ Terminate(i)

Trouble ==
  \/ NeighbourLeaves \/ NeighbourReturns
  \/ \E i \in Instance, d \in Duties : LoseAnswer(i, d)
  \/ "disable_sdc" \in Duties /\ \E i \in Instance : VerifyGivesUp(i)
  \/ \E o \in Ops : Expire(o) \/ Crash(o)

Next ==
  \/ Group
  \/ Trouble
  \/ \E i \in Instance, d \in Duties : Run(i, d) \/ Ec2(i, d)

Spec == Init /\ [][Next]_vars

\* EventBridge and Lambda deliver, functions run and EC2 answers.  Nothing makes
\* the group replace an instance that is healthy.
FairSpec ==
  /\ Spec
  /\ \A i \in Instance, d \in Duties : WF_vars(Run(i, d)) /\ WF_vars(Ec2(i, d))
  /\ WF_vars(NeighbourReturns)

------------------------------------------------------------------------------
(* Properties. *)

Places == {"idle", "begun", "accepted", "attempted", "guarded", "called", "observing",
           "final"} \cup Verifying

\* Every variable has its type.
TypeOK ==
  /\ launched \in {Nobody} \cup Instance
  /\ listed \subseteq Instance
  /\ leaving \subseteq listed
  /\ neighbour \in BOOLEAN
  /\ eip \in {Nobody} \cup Instance
  /\ route \in {Nobody} \cup Instance
  /\ check \in [Instance -> BOOLEAN]
  /\ intent \in [Ops -> States \cup {NoIntent}]
  /\ ack \subseteq attempt
  /\ observed \subseteq ack
  /\ attempt \subseteq Ops
  /\ calls \subseteq attempt
  /\ applied \subseteq attempt
  /\ expired \subseteq Ops
  /\ invoked \in [Ops -> 0 .. MaxInvocations]
  /\ pc \in [Ops -> Places]
  /\ verdict \in [Ops -> {"none", "SUCCESS", "FAILURE", "UNCERTAIN", "UNREADY", "CRASHED"}]
  /\ faults \in 0 .. MaxFaults

\* An observation keeps its word: as long as the instance is the slot's only member,
\* the result a duty has recorded stands, and no late call or late invocation of
\* a predecessor takes the address or the route away from it (the resolver
\* accepts no slot that still lists the predecessor).  In states of the right type.
ObservedStands ==
  /\ TypeOK
  /\ \A i \in Instance, d \in Duties :
       <<i, d>> \in observed /\ listed = {i} => Done(d, i)

\* "The other handlers complete independently" (terraform/docs/e13-nat-reliability.md:143):
\* when nothing crashes, times out or is replaced meanwhile, no duty fails or
\* stays uncertain because of what the others do.
DutiesIndependent ==
  faults = 0 =>
    \A i \in Instance, d \in Duties :
      Observable(i) => verdict[<<i, d>>] \in {"none", "SUCCESS"}

\* A SUCCESS of disable_sdc certifies the slot: unless the instance is terminated
\* by then, the address, the route and the check are all as they must be when it is
\* returned, although three functions set them, they were looked at one after the
\* other, and calls of a predecessor or of the instance may land between two looks.
SuccessCertifies ==
  [][\A i \in Instance :
       LET o == <<i, "disable_sdc">>
       IN  o \in Ops /\ ~ At(o, "idle") /\ At(o, "idle")' /\ verdict'[o] = "SUCCESS"
             => i \notin listed \/ (eip = i /\ route = i /\ ~ check[i])]_vars

Ready(i) == Observable(i) /\ \A d \in Duties : Done(d, i)

\* Without faults every instance that is launched comes to forward traffic, unless
\* it is replaced.
SlotRecovers ==
  \A i \in Instance : launched = i ~> Ready(i) \/ i \notin listed \ leaving
==============================================================================
