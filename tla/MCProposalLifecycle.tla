------------------------ MODULE MCProposalLifecycle ------------------------
(***************************************************************************)
(* TLC instances of ProposalLifecycle.                                     *)
(***************************************************************************)
EXTENDS ProposalLifecycle, TLC

WorkerSymmetry == Permutations(Workers)

\* An event of the rule tables, of the command with that rank.
Move(rank, command, type, from, to) ==
  [NoEvent EXCEPT !.id = rank, !.at = rank, !.command = command, !.type = type,
                  !.from = from, !.to = to]

Approved ==
  <<CreatedEvent,
    Move(2, "transition", "SUBMITTED_FOR_RISK_REVIEW", "DRAFT", "RISK_REVIEW"),
    Move(3, "approval", "RISK_APPROVED", "RISK_REVIEW", "AWAITING_CLIENT_CONSENT")>>

Consent ==
  Move(4, "approval", "CLIENT_CONSENT_RECORDED", "AWAITING_CLIENT_CONSENT", "EXECUTION_READY")

\* A proposal that was submitted and approved, one command after the other, and
\* whose fourth command was declined, or was the consent: where the handoff and
\* the provider's updates begin.
LaterInit ==
  /\ \/ /\ proposal = [state |-> "AWAITING_CLIENT_CONSENT", version |-> 1]
        /\ events = Approved
     \/ /\ proposal = [state |-> "EXECUTION_READY", version |-> 1]
        /\ events = Append(Approved, Consent)
  /\ versions = {[no |-> 1, id |-> 1]}
  /\ job = [w \in Workers |-> Idle]
  /\ clock = 4

LaterSpec == LaterInit /\ [][Next]_vars
=============================================================================
