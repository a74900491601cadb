--------------------------- MODULE WorkflowRules ---------------------------
(***************************************************************************)
(* The pure rule tables of the proposal workflow                           *)
(* (src/src/core/proposals/workflow_rules.py): which state an event type   *)
(* leads to, which approvals a state waits for, and what an execution      *)
(* update from a downstream provider does.  Names are those of the code.   *)
(***************************************************************************)

States == {"DRAFT", "RISK_REVIEW", "COMPLIANCE_REVIEW", "AWAITING_CLIENT_CONSENT",
           "EXECUTION_READY", "EXECUTED", "REJECTED", "CANCELLED", "EXPIRED"}

TERMINAL_STATES == {"EXECUTED", "REJECTED", "CANCELLED", "EXPIRED"}

\* Every event type the workflow log may hold.
EventTypes == {"CREATED", "NEW_VERSION_CREATED", "SUBMITTED_FOR_RISK_REVIEW",
               "RISK_APPROVED", "SUBMITTED_FOR_COMPLIANCE_REVIEW", "COMPLIANCE_APPROVED",
               "CLIENT_CONSENT_RECORDED", "EXECUTION_REQUESTED", "EXECUTION_ACCEPTED",
               "EXECUTION_PARTIALLY_EXECUTED", "EXECUTION_REJECTED", "EXECUTION_CANCELLED",
               "EXECUTION_EXPIRED", "NARRATIVE_REVIEWED", "REPORT_REQUESTED", "EXECUTED",
               "REJECTED", "EXPIRED", "CANCELLED"}

\* <<current state, event type, next state>>
TRANSITION_MAP ==
  {<<"DRAFT", "SUBMITTED_FOR_RISK_REVIEW", "RISK_REVIEW">>,
   <<"DRAFT", "SUBMITTED_FOR_COMPLIANCE_REVIEW", "COMPLIANCE_REVIEW">>,
   <<"RISK_REVIEW", "RISK_APPROVED", "AWAITING_CLIENT_CONSENT">>,
   <<"RISK_REVIEW", "REJECTED", "REJECTED">>,
   <<"COMPLIANCE_REVIEW", "COMPLIANCE_APPROVED", "AWAITING_CLIENT_CONSENT">>,
   <<"COMPLIANCE_REVIEW", "REJECTED", "REJECTED">>,
   <<"AWAITING_CLIENT_CONSENT", "CLIENT_CONSENT_RECORDED", "EXECUTION_READY">>,
   <<"AWAITING_CLIENT_CONSENT", "REJECTED", "REJECTED">>,
   <<"EXECUTION_READY", "EXECUTION_REQUESTED", "EXECUTION_READY">>,
   <<"EXECUTION_READY", "EXECUTED", "EXECUTED">>,
   <<"EXECUTION_READY", "EXPIRED", "EXPIRED">>}

\* CANCELLED is accepted from every state that is not terminal; every other
\* event type follows the map.  INVALID_TRANSITION is "no edge".
resolve_transition_state ==
  TRANSITION_MAP \cup {<<s, "CANCELLED", "CANCELLED">> : s \in States \ TERMINAL_STATES}

\* <<required state, event type when approved, next state when approved>>
APPROVAL_TRANSITION_RULES ==
  {<<"RISK_REVIEW", "RISK_APPROVED", "AWAITING_CLIENT_CONSENT">>,
   <<"COMPLIANCE_REVIEW", "COMPLIANCE_APPROVED", "AWAITING_CLIENT_CONSENT">>,
   <<"AWAITING_CLIENT_CONSENT", "CLIENT_CONSENT_RECORDED", "EXECUTION_READY">>}

\* A declined approval of any type rejects the proposal.
resolve_approval_transition ==
  APPROVAL_TRANSITION_RULES \cup
    {<<rule[1], "REJECTED", "REJECTED">> : rule \in APPROVAL_TRANSITION_RULES}

\* <<event type, state it leads to>> for each status a provider may report.
\* The current state is not part of the rule.
EXECUTION_UPDATE_EVENT_MAP ==
  {<<"EXECUTION_ACCEPTED", "EXECUTION_READY">>,
   <<"EXECUTION_PARTIALLY_EXECUTED", "EXECUTION_READY">>,
   <<"EXECUTION_REJECTED", "REJECTED">>,
   <<"EXECUTION_CANCELLED", "CANCELLED">>,
   <<"EXECUTION_EXPIRED", "EXPIRED">>,
   <<"EXECUTED", "EXECUTED">>}
=============================================================================
