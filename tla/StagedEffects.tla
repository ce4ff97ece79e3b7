---------------------------- MODULE StagedEffects ----------------------------
(***************************************************************************)
(* What a staged operation on AWS promises whoever asked for it, with no   *)
(* journal, no faults and no retry: its mutations are sent in a fixed      *)
(* order, each at most once and only when every earlier one has taken      *)
(* effect; and what it reports is true: SUCCESS if all have taken effect,  *)
(* FAILURE if none is in doubt and the step that cannot be taken back, the *)
(* switch of the traffic, was not sent.  Anything else is UNCERTAIN, after *)
(* which nothing is sent any more although what was sent may still land.   *)
(***************************************************************************)
EXTENDS Naturals, Sequences

CONSTANTS
  Last,    \* number of stages
  Commit   \* the stage that switches the traffic

VARIABLES
  calls,   \* the stages whose mutation was sent, in that order
  landed,  \* the stages whose mutation has taken effect
  report   \* what the operation answered

vars == <<calls, landed, report>>

Sent == { calls[i] : i \in 1 .. Len(calls) }

Init ==
  /\ calls = << >>
  /\ landed = {}
  /\ report = "none"

\* A mutation may take effect before the caller does anything else.
Send ==
  /\ report = "none"
  /\ Len(calls) < Last
  /\ landed = 1 .. Len(calls)
  /\ calls' = Append(calls, Len(calls) + 1)
  /\ landed' \in {landed, landed \cup {Len(calls) + 1}}
  /\ UNCHANGED report

Land ==
  /\ \E s \in Sent \ landed : landed' = landed \cup {s}
  /\ UNCHANGED <<calls, report>>

Report ==
  /\ report = "none"
  /\ report' \in {"SUCCESS", "FAILURE", "UNCERTAIN"}
  /\ report' = "SUCCESS" => landed = 1 .. Last
  /\ report' = "FAILURE" => Sent = landed /\ Commit \notin Sent
  /\ UNCHANGED <<calls, landed>>

Next == Send \/ Land \/ Report

Spec == Init /\ [][Next]_vars
==============================================================================
