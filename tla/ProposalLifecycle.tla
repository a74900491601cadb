------------------------- MODULE ProposalLifecycle -------------------------
(***************************************************************************)
(* One proposal aggregate under concurrent API commands.                   *)
(*                                                                         *)
(* A command is run by a request thread (a worker) in separate repository  *)
(* calls, each of them one Postgres transaction: it loads the proposal,    *)
(* reads the workflow log and validates, and then commits one event with a *)
(* compare-and-set on (current_state, current_version_no).  Creating a     *)
(* version has one more transaction, the insert of the version row, before *)
(* that commit.  Between two calls other workers run and the process may   *)
(* stop.                                                                   *)
(*                                                                         *)
(* Abstractions: event, version and approval ids are one number, the rank  *)
(* of the command that made them, which is also the time it started.       *)
(* Payload contents are reduced to the command, the event type and the key.*)
(* An approval row is written in the transaction of its event and carries  *)
(* the same key; it is the event whose command is "approval".              *)
(***************************************************************************)
EXTENDS Naturals, Sequences, WorkflowRules

CONSTANTS
  Workers,              \* request threads
  Commands,             \* the commands the clients of this instance issue
  Keys,                 \* Idempotency-Key values
  UpdateIds,            \* update_id values of a downstream provider
  NoKey,                \* the absent key
  ExternalTimes,        \* timestamps other systems put in their messages
  ExternalRequestIds,   \* external_request_id values of handoff payloads
  RelatedVersions,      \* explicit related_version_no values of payloads
  RequireExpectedState, \* PROPOSAL_REQUIRE_EXPECTED_STATE
  MaxCommands           \* bound: commands started, the initial create included

CommandNames == {"transition", "approval", "handoff", "update", "report",
                 "narrative", "version"}

ASSUME CommandsAssumption == Commands \subseteq CommandNames
ASSUME KeysAssumption == NoKey \notin Keys \cup UpdateIds
ASSUME NumbersAssumption ==
  /\ ExternalTimes \subseteq Nat
  /\ ExternalRequestIds \subseteq Nat \ {0}
  /\ RelatedVersions \subseteq Nat \ {0}
  /\ MaxCommands \in Nat
  /\ RequireExpectedState \in BOOLEAN

VARIABLES
  proposal,  \* proposal_records: current_state and current_version_no
  events,    \* proposal_workflow_events in the order the rows were committed
  versions,  \* proposal_versions: version_no and proposal_version_id
  job,       \* per worker: where its command is and what it has read
  clock      \* commands started so far; the time of the latest start

vars == <<proposal, events, versions, job, clock>>

-----------------------------------------------------------------------------
\* Records

VersionRow == [no : Nat, id : Nat]

Event == [id : Nat, command : CommandNames \cup {"create", "none"},
          type : EventTypes \cup {"NONE"}, from : States \cup {"NONE"}, to : States,
          at : Nat, key : Keys \cup UpdateIds \cup {NoKey}, related : Nat, request : Nat]

NoEvent == [id |-> 0, command |-> "none", type |-> "NONE", from |-> "NONE", to |-> "DRAFT",
            at |-> 0, key |-> NoKey, related |-> 0, request |-> 0]

CreatedEvent == [NoEvent EXCEPT !.id = 1, !.command = "create", !.type = "CREATED",
                                !.at = 1, !.related = 1]

Job == [pc : {"idle", "loaded", "insert", "commit"}, id : Nat, state : States,
        version : Nat, event : Event]

Idle == [pc |-> "idle", id |-> 0, state |-> "DRAFT", version |-> 0, event |-> NoEvent]

Log == {events[i] : i \in DOMAIN events}

-----------------------------------------------------------------------------
(* Faults: what each check of the code would be with a plausible bug in    *)
(* it.  No action uses them; each shows that some property depends on the  *)
(* check it replaces.                                                      *)

StillCurrentIgnoringState(current, from, version) == current.version = version

StillCurrentIgnoringVersion(current, from, version) == current.state = from

ReplaceVersion(rows, row) == {r \in rows : r.no # row.no} \cup {row}

AnyEventOfTheLog(h) == h \in Log

AnyState(state) == TRUE

AnyTime(at, h) == TRUE

VersionKept(w) == job[w].version

-----------------------------------------------------------------------------
(* The aggregate as persist_created_proposal leaves it.                    *)

Init ==
  /\ proposal = [state |-> "DRAFT", version |-> 1]
  /\ events = <<CreatedEvent>>
  /\ versions = {[no |-> 1, id |-> 1]}
  /\ job = [w \in Workers |-> Idle]
  /\ clock = 1

Finish(w) == job' = [job EXCEPT ![w] = Idle]

(***************************************************************************)
(* A command starts: its time is taken and the proposal is loaded.         *)
(***************************************************************************)
Load(w) ==
  /\ job[w].pc = "idle"
  /\ clock < MaxCommands
  /\ clock' = clock + 1
  /\ job' = [job EXCEPT ![w] = [Idle EXCEPT !.pc = "loaded", !.id = clock + 1,
                                            !.state = proposal.state,
                                            !.version = proposal.version]]
  /\ UNCHANGED <<proposal, events, versions>>

(***************************************************************************)
(* A command ends before any write: a replay of an earlier event, a key    *)
(* conflict, an expected_state mismatch, an invalid transition, a failed   *)
(* simulation.  Some payload does so from every loaded state.              *)
(***************************************************************************)
Decline(w) ==
  /\ job[w].pc = "loaded"
  /\ Finish(w)
  /\ UNCHANGED <<proposal, events, versions, clock>>

-----------------------------------------------------------------------------
(* Validation of each command against the loaded proposal and the log.     *)

\* No record of the log carries the key, so nothing is replayed and nothing
\* conflicts.
Unused(key, records) == key = NoKey \/ \A e \in records : e.key # key

ExpectedStateHolds(state, expected) ==
  /\ RequireExpectedState => expected # "NONE"
  /\ expected # "NONE" => expected = state

\* The validated command with the event it is about to write.
Stage(w, pc, event) ==
  /\ job' = [job EXCEPT ![w].pc = pc,
                        ![w].event = [event EXCEPT !.id = job[w].id, !.from = job[w].state]]
  /\ UNCHANGED <<proposal, events, versions, clock>>

Loaded(w, command) == job[w].pc = "loaded" /\ command \in Commands

\* The caller's reason is stored as it is, an execution request id in it too.
StageTransition(w) ==
  /\ Loaded(w, "transition")
  /\ \E edge \in resolve_transition_state, key \in Keys \cup {NoKey},
        expected \in States \cup {"NONE"}, related \in RelatedVersions \cup {0},
        request \in ExternalRequestIds \cup {0} :
       /\ Unused(key, Log)
       /\ ExpectedStateHolds(job[w].state, expected)
       /\ edge[1] = job[w].state
       /\ Stage(w, "commit",
                [NoEvent EXCEPT !.command = "transition", !.type = edge[2], !.to = edge[3],
                                !.at = job[w].id, !.key = key, !.related = related,
                                !.request = request])

\* Replay of an approval looks at the approvals only.
StageApproval(w) ==
  /\ Loaded(w, "approval")
  /\ \E edge \in resolve_approval_transition, key \in Keys \cup {NoKey},
        expected \in States \cup {"NONE"}, related \in RelatedVersions \cup {0} :
       /\ Unused(key, {e \in Log : e.command = "approval"})
       /\ ExpectedStateHolds(job[w].state, expected)
       /\ edge[1] = job[w].state
       /\ Stage(w, "commit",
                [NoEvent EXCEPT !.command = "approval", !.type = edge[2], !.to = edge[3],
                                !.at = job[w].id, !.key = key, !.related = related])

HandoffReady(state) == state = "EXECUTION_READY"

\* The handoff keeps the state; its request id is the caller's or a new one.
StageHandoff(w) ==
  /\ Loaded(w, "handoff")
  /\ \E key \in Keys \cup {NoKey}, expected \in States \cup {"NONE"},
        related \in RelatedVersions \cup {job[w].version},
        request \in ExternalRequestIds \cup {job[w].id} :
       /\ Unused(key, Log)
       /\ ExpectedStateHolds(job[w].state, expected)
       /\ HandoffReady(job[w].state)
       /\ Stage(w, "commit",
                [NoEvent EXCEPT !.command = "handoff", !.type = "EXECUTION_REQUESTED",
                                !.to = "EXECUTION_READY", !.at = job[w].id, !.key = key,
                                !.related = related, !.request = request])

\* list_events returns the rows by (occurred_at, event_id).  The column is TEXT
\* and compares as text; the handoffs, the rows this decides about, carry the
\* server's own UTC time, whose text order is the order of time.
ListedBefore(a, b) == a.at < b.at \/ (a.at = b.at /\ a.id < b.id)

LatestHandoff(h) ==
  /\ h \in Log
  /\ h.type = "EXECUTION_REQUESTED"
  /\ \A g \in Log : g.type = "EXECUTION_REQUESTED" => g = h \/ ListedBefore(g, h)

\* An update names the request of the latest handoff; request = 0 marks an event
\* that names none.
KnownHandoff(h) == LatestHandoff(h) /\ h.request # 0

MayUpdate(state) == state \notin TERMINAL_STATES

NotBeforeHandoff(at, h) == at >= h.at

\* The provider's report on an execution request: it must name the latest
\* handoff and not be older; the state it leads to ignores the current one.
StageUpdate(w) ==
  /\ Loaded(w, "update")
  /\ \E h \in Log, outcome \in EXECUTION_UPDATE_EVENT_MAP, id \in UpdateIds,
        at \in ExternalTimes \cup {job[w].id} :
       /\ KnownHandoff(h)
       /\ Unused(id, Log)
       /\ MayUpdate(job[w].state)
       /\ NotBeforeHandoff(at, h)
       /\ \E related \in RelatedVersions \cup {h.related} :
            Stage(w, "commit",
                  [NoEvent EXCEPT !.command = "update", !.type = outcome[1],
                                  !.to = outcome[2], !.at = at, !.key = id,
                                  !.related = related, !.request = h.request])

\* lotus-report has accepted a report request; its generated_at is the time.
StageReport(w) ==
  /\ Loaded(w, "report")
  /\ \E row \in versions, at \in ExternalTimes \cup {job[w].id} :
       Stage(w, "commit",
             [NoEvent EXCEPT !.command = "report", !.type = "REPORT_REQUESTED",
                             !.to = job[w].state, !.at = at, !.related = row.no])

\* Replay of a narrative review looks at NARRATIVE_REVIEWED events only.
StageNarrativeReview(w) ==
  /\ Loaded(w, "narrative")
  /\ \E row \in versions, key \in Keys \cup {NoKey} :
       /\ Unused(key, {e \in Log : e.type = "NARRATIVE_REVIEWED"})
       /\ Stage(w, "commit",
                [NoEvent EXCEPT !.command = "narrative", !.type = "NARRATIVE_REVIEWED",
                                !.to = job[w].state, !.at = job[w].id, !.key = key,
                                !.related = row.no])

MayCreateVersion(state) == state \notin TERMINAL_STATES

\* expected_current_version_no is optional (0 here) and the simulation runs
\* before the first write.
StageVersion(w) ==
  /\ Loaded(w, "version")
  /\ \E expected \in {0} \cup 1..MaxCommands :
       /\ MayCreateVersion(job[w].state)
       /\ expected # 0 => expected = job[w].version
       /\ Stage(w, "insert",
                [NoEvent EXCEPT !.command = "version", !.type = "NEW_VERSION_CREATED",
                                !.to = "DRAFT", !.at = job[w].id,
                                !.related = job[w].version + 1])

-----------------------------------------------------------------------------
(* The writes.                                                             *)

\* INSERT ... ON CONFLICT (proposal_id, version_no) DO NOTHING
WithVersion(rows, row) ==
  IF \E r \in rows : r.no = row.no THEN rows ELSE rows \cup {row}

\* First transaction of create_version: the row.  A different row under the
\* same number is PROPOSAL_VERSION_IDENTITY_CONFLICT and ends the command.
InsertVersion(w) ==
  LET row == [no |-> job[w].version + 1, id |-> job[w].id]
  IN /\ job[w].pc = "insert"
     /\ versions' = WithVersion(versions, row)
     /\ IF row \in versions' THEN job' = [job EXCEPT ![w].pc = "commit"] ELSE Finish(w)
     /\ UNCHANGED <<proposal, events, clock>>

\* WHERE current_state = ... AND current_version_no = ...
StillCurrent(current, from, version) ==
  current.state = from /\ current.version = version

\* The foreign key of related_version_no.
RelatedExists(related) == related = 0 \/ \E row \in versions : row.no = related

Committable(w) ==
  /\ StillCurrent(proposal, job[w].event.from, job[w].version)
  /\ RelatedExists(job[w].event.related)

\* The version number the command's copy of the proposal carries.
NextVersion(w) ==
  IF job[w].event.type = "NEW_VERSION_CREATED" THEN job[w].version + 1 ELSE job[w].version

\* transition_proposal: the aggregate, its event and the approval row, in one
\* transaction.
Commit(w) ==
  /\ job[w].pc = "commit"
  /\ Committable(w)
  /\ proposal' = [state |-> job[w].event.to, version |-> NextVersion(w)]
  /\ events' = Append(events, job[w].event)
  /\ Finish(w)
  /\ UNCHANGED <<versions, clock>>

\* STATE_CONFLICT, or the foreign key refused the event: rolled back.
Refuse(w) ==
  /\ job[w].pc = "commit"
  /\ ~Committable(w)
  /\ Finish(w)
  /\ UNCHANGED <<proposal, events, versions, clock>>

\* The process stops between two repository calls; nothing resumes the command.
Crash(w) ==
  /\ job[w].pc # "idle"
  /\ Finish(w)
  /\ UNCHANGED <<proposal, events, versions, clock>>

-----------------------------------------------------------------------------
Step(w) ==
  \/ Load(w)
  \/ Decline(w)
  \/ StageTransition(w)
  \/ StageApproval(w)
  \/ StageHandoff(w)
  \/ StageUpdate(w)
  \/ StageReport(w)
  \/ StageNarrativeReview(w)
  \/ StageVersion(w)
  \/ InsertVersion(w)
  \/ Commit(w)
  \/ Refuse(w)
  \/ Crash(w)

Next == \E w \in Workers : Step(w)

Spec == Init /\ [][Next]_vars

-----------------------------------------------------------------------------
(***************************************************************************)
(* Properties                                                              *)
(***************************************************************************)

\* Every stored row and every command in progress is well formed; the version
\* an update copies from a command's loaded proposal is a number from 1.
TypeOK ==
  /\ proposal \in [state : States, version : Nat \ {0}]
  /\ events \in Seq(Event)
  /\ versions \in SUBSET VersionRow
  /\ job \in [Workers -> Job]
  /\ clock \in Nat

\* A step of the rule tables, or of one of the commands that have none.
Allowed(e, version) ==
  \/ e.command = "transition" /\ <<e.from, e.type, e.to>> \in resolve_transition_state
  \/ e.command = "approval" /\ <<e.from, e.type, e.to>> \in resolve_approval_transition
  \/ /\ e.command = "handoff" /\ e.type = "EXECUTION_REQUESTED"
     /\ e.from = "EXECUTION_READY" /\ e.to = "EXECUTION_READY"
  \/ /\ e.command = "update" /\ e.from \notin TERMINAL_STATES
     /\ <<e.type, e.to>> \in EXECUTION_UPDATE_EVENT_MAP
  \/ /\ e.command \in {"report", "narrative"} /\ e.to = e.from
     /\ e.type \in {"REPORT_REQUESTED", "NARRATIVE_REVIEWED"}
  \/ /\ e.command = "version" /\ e.from \notin TERMINAL_STATES
     /\ e.type = "NEW_VERSION_CREATED" /\ e.to = "DRAFT" /\ e.related = version + 1

AnswersHandoff(e, h) ==
  h.type = "EXECUTION_REQUESTED" /\ h.request = e.request /\ h.at <= e.at

\* What a command has read and validated still holds when it writes, whatever
\* the others did in between: the loaded version is not ahead of the stored one,
\* an update still answers a stored handoff, and a version command that reached
\* its second transaction still owns the row it inserted in the first.
WorkIsValid(w) ==
  /\ job[w].version <= proposal.version
  /\ job[w].pc \in {"insert", "commit"} =>
       /\ job[w].event.id = job[w].id
       /\ job[w].event.from = job[w].state
       /\ Allowed(job[w].event, job[w].version)
       /\ job[w].event.command = "update" => \E h \in Log : AnswersHandoff(job[w].event, h)
  /\ job[w].pc = "insert" => job[w].event.command = "version"
  /\ job[w].pc = "commit" /\ job[w].event.command = "version" =>
       [no |-> job[w].version + 1, id |-> job[w].id] \in versions

ValidatedWorkStaysValid == \A w \in Workers : WorkIsValid(w)

\* In commit order the log is one unbroken walk from creation to the current
\* state: no committed command built on a state another command had replaced.
\* About the compare-and-set of transition_proposal.
HistoryIsLinked ==
  /\ Len(events) >= 1
  /\ events[1].from = "NONE"
  /\ \A i \in 1..Len(events) - 1 : events[i + 1].from = events[i].to
  /\ events[Len(events)].to = proposal.state

Opens(e) == e.type \in {"CREATED", "NEW_VERSION_CREATED"}

\* Every version the aggregate ever pointed at was opened by exactly one event
\* of the log, and its row is the one that command inserted, whatever rows
\* other version commands tried to insert under the same number.
\* About create_proposal_version's two transactions.
EveryVersionHasItsEvidence ==
  /\ \A e \in Log : Opens(e) =>
       e.related \in 1..proposal.version /\ [no |-> e.related, id |-> e.id] \in versions
  /\ \A n \in 1..proposal.version : \E e \in Log : Opens(e) /\ e.related = n
  /\ \A i, j \in DOMAIN events :
       Opens(events[i]) /\ Opens(events[j]) /\ events[i].related = events[j].related => i = j

\* Version numbers are never reused for another row and run at most one ahead
\* of the aggregate, however many version commands fail or crash half way.
\* About insert_version and the second transaction's compare-and-set.
VersionRowsAreContiguous ==
  /\ \A r \in versions : r.no \in 1..proposal.version + 1
  /\ \A n \in 1..proposal.version : \E r \in versions : r.no = n
  /\ \A r, s \in versions : r.no = s.no => r = s

\* An execution-side state is reached only by way of the client's consent, and
\* consent only by way of a risk or compliance approval, at least once in the
\* proposal's life.  About the rule tables together with execution updates,
\* which set the state without looking at the current one, after a new version
\* has returned the proposal to its draft too.
ConsentPrecedesExecution ==
  /\ proposal.state \in {"EXECUTION_READY", "EXECUTED", "EXPIRED"} =>
       \E e \in Log : e.type = "CLIENT_CONSENT_RECORDED"
  /\ \A i \in DOMAIN events : events[i].type = "CLIENT_CONSENT_RECORDED" =>
       \E k \in DOMAIN events :
         k < i /\ events[k].type \in {"RISK_APPROVED", "COMPLIANCE_APPROVED"}

\* Every provider update in the log follows, in commit order and in its own
\* time, a handoff that issued the execution request it names.  About the
\* identity and timestamp checks, made on a log read before the commit.
UpdateAnswersAHandoff ==
  \A i \in DOMAIN events : events[i].command = "update" =>
    \E k \in DOMAIN events :
      k < i /\ AnswersHandoff(events[i], events[k])

\* Two commits under one key never both move the proposal the same way: of
\* concurrent retries of one state-changing command at most one takes effect.
\* The replay check reads the log before the commit; this is what the
\* compare-and-set on state and version adds to it.
KeyedMoveHappensOnce ==
  \A i, j \in DOMAIN events :
    /\ events[i].key = events[j].key
    /\ events[i].key # NoKey
    /\ events[i].command = events[j].command
    /\ events[i].type = events[j].type
    /\ events[i].from = events[j].from
    /\ events[i].from # events[i].to
    => i = j

StateRank(state) ==
  CASE state = "DRAFT" -> 0
    [] state \in {"RISK_REVIEW", "COMPLIANCE_REVIEW"} -> 1
    [] state = "AWAITING_CLIENT_CONSENT" -> 2
    [] state = "EXECUTION_READY" -> 3
    [] OTHER -> 4

\* The aggregate only moves forward: to a later stage of the same version, or to
\* the next version.  So a (state, version) pair never comes back, which is why
\* comparing the pair is enough to detect any concurrent move.
LifecycleMovesForward ==
  [][\/ proposal'.version = proposal.version + 1
     \/ /\ proposal'.version = proposal.version
        /\ StateRank(proposal'.state) > StateRank(proposal.state)]_proposal

\* Nothing moves a proposal out of a terminal state: not a command validated
\* before it ended, not a late provider update, not a new version.
TerminalIsFinal == [][proposal.state \notin TERMINAL_STATES]_proposal

HistoryEntries ==
  [i \in DOMAIN events |-> [type |-> events[i].type, from |-> events[i].from,
                            to |-> events[i].to]]

Workflow == INSTANCE ProposalWorkflow
  WITH state <- proposal.state, version <- proposal.version, history <- HistoryEntries

\* The interleaved multi-transaction commands implement the atomic workflow.
ImplementsWorkflow == Workflow!Spec

-----------------------------------------------------------------------------
(***************************************************************************)
(* What documents and field descriptions of the repository say of the      *)
(* lifecycle and the commands above do not do.                             *)
(***************************************************************************)

\* docs/architecture/CODEBASE-REVIEW-LEDGER.md: "approvals are version-scoped,
\* and execution eligibility cannot silently bleed from an old version into a
\* new one": an execution-ready proposal has a consent recorded since its
\* current version was opened.  About StageUpdate's disregard of the state.
ApprovalsAreVersionScoped ==
  proposal.state = "EXECUTION_READY" =>
    \E i \in DOMAIN events :
      /\ events[i].type = "CLIENT_CONSENT_RECORDED"
      /\ \A k \in DOMAIN events : Opens(events[k]) => k < i

\* RFC-0013: "Current status is derived from last event".  The last event is the
\* last one list_events returns, which orders by occurred_at.
StatusIsThatOfTheLastEvent ==
  \A e \in Log : (\A g \in Log : g = e \/ ListedBefore(g, e)) => proposal.state = e.to

\* RFC-0013, transaction boundaries: "Persist updates in a single DB
\* transaction": once no command is running, no version row is left without the
\* event and the aggregate update that make it current.  A row that is left
\* takes the next number, and every later version command ends on it.
VersionIsWrittenWithItsEvent ==
  (\A w \in Workers : job[w].pc = "idle") => \A r \in versions : r.no <= proposal.version

\* delivery_parameters.py: "Optional idempotency key for replay-safe execution
\* handoff writes", and delivery_execution_models.py: update_id is "used for
\* idempotent ingestion": one handoff per key, one event per update_id.
KeyedRequestsActOnce ==
  \A i, j \in DOMAIN events :
    /\ events[i].command \in {"handoff", "update"}
    /\ events[j].command = events[i].command
    /\ events[i].key = events[j].key /\ events[i].key # NoKey
    => i = j
=============================================================================
