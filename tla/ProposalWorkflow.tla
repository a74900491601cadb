-------------------------- MODULE ProposalWorkflow --------------------------
(***************************************************************************)
(* What the proposal aggregate promises to everyone who reads it, however  *)
(* many threads and processes serve its commands: one atomic step at a     *)
(* time, each of them allowed by the workflow rules in the state it finds, *)
(* and each leaving one entry in the history.                              *)
(***************************************************************************)
EXTENDS Naturals, Sequences, WorkflowRules

VARIABLES state, version, history

workflowVars == <<state, version, history>>

Entry(type, from, to) == [type |-> type, from |-> from, to |-> to]

Init ==
  /\ state = "DRAFT"
  /\ version = 1
  /\ history = <<Entry("CREATED", "NONE", "DRAFT")>>

Record(type, to) ==
  /\ state' = to
  /\ history' = Append(history, Entry(type, state, to))

\* A transition, an approval or an execution handoff.
Advance ==
  /\ \E edge \in resolve_transition_state \cup resolve_approval_transition :
       state = edge[1] /\ Record(edge[2], edge[3])
  /\ UNCHANGED version

\* A provider reports on an execution that was handed off at some time.
ExecutionUpdate ==
  /\ state \notin TERMINAL_STATES
  /\ \E i \in DOMAIN history : history[i].type = "EXECUTION_REQUESTED"
  /\ \E outcome \in EXECUTION_UPDATE_EVENT_MAP : Record(outcome[1], outcome[2])
  /\ UNCHANGED version

\* A report request or a narrative review.
Annotate ==
  /\ \E type \in {"REPORT_REQUESTED", "NARRATIVE_REVIEWED"} : Record(type, state)
  /\ UNCHANGED version

\* A new version starts over as a draft.
Redraft ==
  /\ state \notin TERMINAL_STATES
  /\ Record("NEW_VERSION_CREATED", "DRAFT")
  /\ version' = version + 1

Next == Advance \/ ExecutionUpdate \/ Annotate \/ Redraft

Spec == Init /\ [][Next]_workflowVars
=============================================================================
