--------------------------- MODULE ExclusiveEpochs ---------------------------
(***************************************************************************)
(* What scripts/environment_mutation.py promises the rest of the control   *)
(* plane, with no storage, no invocation state and no messages: one        *)
(* conflict domain is owned by at most one holder at a time, each          *)
(* admission opens a new epoch, an epoch is never reopened, and a mutation *)
(* of the environment takes effect only while the holder that issued it    *)
(* still owns the domain, in the epoch in which it was issued.             *)
(***************************************************************************)
EXTENDS Naturals

CONSTANTS
  Holders,    \* whoever may be admitted
  MaxEpoch,   \* the last epoch that can be opened (2^63 - 1 in the code)
  NoHolder    \* the domain is free

VARIABLES
  epoch,      \* the number of admissions so far
  holder,     \* the current owner, or NoHolder
  landed      \* the epoch of the newest mutation that took effect, 0 at first

vars == <<epoch, holder, landed>>

Init ==
  /\ epoch = 0
  /\ holder = NoHolder
  /\ landed = 0

Grant(h) ==
  /\ holder = NoHolder
  /\ epoch < MaxEpoch
  /\ epoch' = epoch + 1
  /\ holder' = h
  /\ UNCHANGED landed

Release ==
  /\ holder # NoHolder
  /\ holder' = NoHolder
  /\ UNCHANGED <<epoch, landed>>

Mutate ==
  /\ holder # NoHolder
  /\ landed' = epoch
  /\ UNCHANGED <<epoch, holder>>

Next ==
  \/ \E h \in Holders : Grant(h)
  \/ Release
  \/ Mutate

Spec == Init /\ [][Next]_vars
==============================================================================
