----------------------------- MODULE PolicyReview -----------------------------
(***************************************************************************)
(* What the audit log of a policy evaluation promises: events are appended *)
(* one at a time and never change, and every step of the review stands on  *)
(* the events before it, as if it were checked and appended at once.       *)
(* PolicyEvaluations, which reads, checks and writes in separate           *)
(* transactions over copies of the whole store, implements it.             *)
(***************************************************************************)
EXTENDS Naturals, Sequences

CONSTANTS
  Evaluations,   \* policy evaluations
  Blocked,       \* those with the status BLOCKED
  Conflicted     \* those with a material conflict of interest

VARIABLE log     \* per evaluation: its audit events, oldest first

Init == log = [e \in Evaluations |-> <<>>]

Appends(e) ==
  /\ Len(log'[e]) = Len(log[e]) + 1
  /\ \A i \in DOMAIN log[e] : log'[e][i] = log[e][i]
  /\ \A f \in Evaluations \ {e} : log'[f] = log[f]

New(e) == log'[e][Len(log[e]) + 1]

Cleared(events) == \E i \in DOMAIN events : events[i].cleared

SignedOff(events) == \E i \in DOMAIN events : events[i].type = "SIGN_OFF"

\* An evaluation is finalized once, before anything else.
Finalize(e) ==
  /\ Appends(e)
  /\ log[e] = <<>>
  /\ New(e).type = "FINALIZED"

Review(e) ==
  /\ Appends(e)
  /\ log[e] # <<>>
  /\ New(e).type \in {"REVIEW", "AI_EVIDENCE"}

\* Four eyes, no blocked evaluation, no material conflict left standing.
SignOff(e) ==
  /\ Appends(e)
  /\ log[e] # <<>>
  /\ New(e).type = "SIGN_OFF"
  /\ New(e).actor # log[e][1].actor
  /\ e \notin Blocked
  /\ e \in Conflicted => Cleared(log[e]) \/ New(e).cleared

\* A report package is made of what is signed off.
Report(e) ==
  /\ Appends(e)
  /\ SignedOff(log[e])
  /\ New(e).type = "REPORT"

Next == \E e \in Evaluations : Finalize(e) \/ Review(e) \/ SignOff(e) \/ Report(e)

Spec == Init /\ [][Next]_log
=============================================================================
