---------------------- MODULE ProposalLifecycleProofs ----------------------
(***************************************************************************)
(* What holds of ProposalLifecycle for every set of workers, keys, ids and *)
(* payload values and for every number of commands.                        *)
(***************************************************************************)
EXTENDS ProposalLifecycle, SequenceTheorems, TLAPS

\* Every edge of the rule tables joins two states by an event type.
LEMMA RuleTablesTyped ==
  /\ resolve_transition_state \subseteq States \X EventTypes \X States
  /\ resolve_approval_transition \subseteq States \X EventTypes \X States
  /\ EXECUTION_UPDATE_EVENT_MAP \subseteq EventTypes \X States
<1>1. TRANSITION_MAP \subseteq States \X EventTypes \X States
  BY DEF TRANSITION_MAP, States, EventTypes
<1>2. {<<s, "CANCELLED", "CANCELLED">> : s \in States \ TERMINAL_STATES}
        \subseteq States \X EventTypes \X States
  BY DEF States, EventTypes
<1>3. APPROVAL_TRANSITION_RULES \subseteq States \X EventTypes \X States
  BY DEF APPROVAL_TRANSITION_RULES, States, EventTypes
<1>4. {<<rule[1], "REJECTED", "REJECTED">> : rule \in APPROVAL_TRANSITION_RULES}
        \subseteq States \X EventTypes \X States
  BY <1>3 DEF States, EventTypes
<1>5. EXECUTION_UPDATE_EVENT_MAP \subseteq EventTypes \X States
  BY DEF EXECUTION_UPDATE_EVENT_MAP, EventTypes, States
<1> QED
  BY <1>1, <1>2, <1>3, <1>4, <1>5 DEF resolve_transition_state, resolve_approval_transition

-----------------------------------------------------------------------------
(* Staging: seven actions validate a command, each in its own way, and all *)
(* leave behind an event that the rule tables allow.                       *)

Completed(w, e) == [e EXCEPT !.id = job[w].id, !.from = job[w].state]

\* The command found no earlier event of its kind under its key, carries no key,
\* or leaves the state alone.
MovesUnderNewKey(e) ==
  \/ e.key = NoKey
  \/ e.to = e.from
  \/ \A f \in Log : f.command = e.command => f.key # e.key

SoundStaging(w, pc, e) ==
  /\ job[w].pc = "loaded"
  /\ e \in Event
  /\ Stage(w, pc, e)
  /\ Allowed(Completed(w, e), job[w].version)
  /\ e.command = "update" => \E h \in Log : AnswersHandoff(Completed(w, e), h)
  /\ MovesUnderNewKey(Completed(w, e))
  /\ pc = "insert" <=> e.command = "version"

Staging(w) ==
  \/ StageTransition(w) \/ StageApproval(w) \/ StageHandoff(w) \/ StageUpdate(w)
  \/ StageReport(w) \/ StageNarrativeReview(w) \/ StageVersion(w)

\* The events of the log are events.
LEMMA LogTyped ==
  ASSUME TypeOK
  PROVE  Log \subseteq Event /\ NoEvent \in Event
<1>1. \A i \in DOMAIN events : events[i] \in Event
  BY DEF TypeOK
<1>2. NoEvent \in Event
  BY DEF NoEvent, Event, States
<1> QED
  BY <1>1, <1>2 DEF Log

\* Each of the seven validations, about transition_proposal_state,
\* record_proposal_approval, request_proposal_execution_handoff,
\* record_proposal_execution_update, record_proposal_report_request,
\* record_proposal_narrative_review_event and create_proposal_version.
LEMMA StagingIsSound ==
  ASSUME TypeOK, NEW w \in Workers, Staging(w)
  PROVE  \E pc \in {"insert", "commit"}, e \in Event : SoundStaging(w, pc, e)
<1>0. job[w] \in Job /\ versions \subseteq VersionRow /\ Log \subseteq Event
  BY LogTyped DEF TypeOK
<1> USE NumbersAssumption
<1>1. CASE StageTransition(w)
  <2>1. PICK edge \in resolve_transition_state, key \in Keys \cup {NoKey},
             related \in RelatedVersions \cup {0}, request \in ExternalRequestIds \cup {0} :
               /\ Unused(key, Log)
               /\ edge[1] = job[w].state
               /\ Stage(w, "commit",
                        [NoEvent EXCEPT !.command = "transition", !.type = edge[2],
                                        !.to = edge[3], !.at = job[w].id, !.key = key,
                                        !.related = related, !.request = request])
    BY <1>1 DEF StageTransition
  <2> DEFINE e == [NoEvent EXCEPT !.command = "transition", !.type = edge[2],
                                  !.to = edge[3], !.at = job[w].id, !.key = key,
                                  !.related = related, !.request = request]
  <2>2. edge \in States \X EventTypes \X States
    BY <2>1, RuleTablesTyped
  <2>3. e \in Event
    <3>1. /\ edge[2] \in EventTypes /\ edge[3] \in States /\ job[w].id \in Nat
          /\ related \in Nat /\ request \in Nat
      BY <2>1, <2>2, <1>0 DEF Job
    <3> QED
      BY <3>1, <2>1 DEF Event, CommandNames, NoEvent
  <2>4. Allowed(Completed(w, e), job[w].version)
    <3>1. edge = <<edge[1], edge[2], edge[3]>>
      BY <2>2
    <3>2. /\ Completed(w, e).command = "transition" /\ Completed(w, e).from = edge[1]
          /\ Completed(w, e).type = edge[2] /\ Completed(w, e).to = edge[3]
      BY <2>1 DEF Completed, NoEvent
    <3> QED
      BY <2>1, <3>1, <3>2 DEF Allowed
  <2>5. MovesUnderNewKey(Completed(w, e))
    BY <2>1 DEF MovesUnderNewKey, Completed, NoEvent, Unused
  <2>7. SoundStaging(w, "commit", e)
    BY <1>1, <2>1, <2>3, <2>4, <2>5 DEF SoundStaging, StageTransition, Loaded, NoEvent
  <2> QED
    BY <2>7 DEF SoundStaging
<1>2. CASE StageApproval(w)
  <2>1. PICK edge \in resolve_approval_transition, key \in Keys \cup {NoKey},
             related \in RelatedVersions \cup {0} :
               /\ Unused(key, {f \in Log : f.command = "approval"})
               /\ edge[1] = job[w].state
               /\ Stage(w, "commit",
                        [NoEvent EXCEPT !.command = "approval", !.type = edge[2],
                                        !.to = edge[3], !.at = job[w].id, !.key = key,
                                        !.related = related])
    BY <1>2 DEF StageApproval
  <2> DEFINE e == [NoEvent EXCEPT !.command = "approval", !.type = edge[2],
                                  !.to = edge[3], !.at = job[w].id, !.key = key,
                                  !.related = related]
  <2>2. edge \in States \X EventTypes \X States
    BY <2>1, RuleTablesTyped
  <2>3. e \in Event
    <3>1. /\ edge[2] \in EventTypes /\ edge[3] \in States /\ job[w].id \in Nat
          /\ related \in Nat
      BY <2>1, <2>2, <1>0 DEF Job
    <3> QED
      BY <3>1, <2>1 DEF Event, CommandNames, NoEvent
  <2>4. Allowed(Completed(w, e), job[w].version)
    <3>1. edge = <<edge[1], edge[2], edge[3]>>
      BY <2>2
    <3>2. /\ Completed(w, e).command = "approval" /\ Completed(w, e).from = edge[1]
          /\ Completed(w, e).type = edge[2] /\ Completed(w, e).to = edge[3]
      BY <2>1 DEF Completed, NoEvent
    <3> QED
      BY <2>1, <3>1, <3>2 DEF Allowed
  <2>5. MovesUnderNewKey(Completed(w, e))
    BY <2>1 DEF MovesUnderNewKey, Completed, NoEvent, Unused
  <2>7. SoundStaging(w, "commit", e)
    BY <1>2, <2>1, <2>3, <2>4, <2>5 DEF SoundStaging, StageApproval, Loaded, NoEvent
  <2> QED
    BY <2>7 DEF SoundStaging
<1>3. CASE StageHandoff(w)
  <2>1. PICK key \in Keys \cup {NoKey}, related \in RelatedVersions \cup {job[w].version},
             request \in ExternalRequestIds \cup {job[w].id} :
               /\ HandoffReady(job[w].state)
               /\ Stage(w, "commit",
                        [NoEvent EXCEPT !.command = "handoff", !.type = "EXECUTION_REQUESTED",
                                        !.to = "EXECUTION_READY", !.at = job[w].id, !.key = key,
                                        !.related = related, !.request = request])
    BY <1>3 DEF StageHandoff
  <2> DEFINE e == [NoEvent EXCEPT !.command = "handoff", !.type = "EXECUTION_REQUESTED",
                                  !.to = "EXECUTION_READY", !.at = job[w].id, !.key = key,
                                  !.related = related, !.request = request]
  <2>2. e \in Event
    <3>1. job[w].id \in Nat /\ related \in Nat /\ request \in Nat
      BY <2>1, <1>0 DEF Job
    <3> QED
      BY <3>1, <2>1 DEF Event, CommandNames, EventTypes, States, NoEvent
  <2>3. Allowed(Completed(w, e), job[w].version)
    BY <2>1 DEF Allowed, Completed, NoEvent, HandoffReady
  <2>4. MovesUnderNewKey(Completed(w, e))
    BY <2>1 DEF MovesUnderNewKey, Completed, NoEvent, HandoffReady
  <2>7. SoundStaging(w, "commit", e)
    BY <1>3, <2>1, <2>2, <2>3, <2>4 DEF SoundStaging, StageHandoff, Loaded, NoEvent
  <2> QED
    BY <2>7 DEF SoundStaging
<1>4. CASE StageUpdate(w)
  <2>1. PICK h \in Log, outcome \in EXECUTION_UPDATE_EVENT_MAP, id \in UpdateIds,
             at \in ExternalTimes \cup {job[w].id} :
               /\ KnownHandoff(h)
               /\ Unused(id, Log)
               /\ MayUpdate(job[w].state)
               /\ NotBeforeHandoff(at, h)
               /\ \E related \in RelatedVersions \cup {h.related} :
                    Stage(w, "commit",
                          [NoEvent EXCEPT !.command = "update", !.type = outcome[1],
                                          !.to = outcome[2], !.at = at, !.key = id,
                                          !.related = related, !.request = h.request])
    BY <1>4 DEF StageUpdate
  <2>2. PICK related \in RelatedVersions \cup {h.related} :
               Stage(w, "commit",
                     [NoEvent EXCEPT !.command = "update", !.type = outcome[1],
                                     !.to = outcome[2], !.at = at, !.key = id,
                                     !.related = related, !.request = h.request])
    BY <2>1
  <2> DEFINE e == [NoEvent EXCEPT !.command = "update", !.type = outcome[1],
                                  !.to = outcome[2], !.at = at, !.key = id,
                                  !.related = related, !.request = h.request]
  <2>3. outcome \in EventTypes \X States /\ h \in Event
    BY <1>0, <2>1, RuleTablesTyped
  <2>4. e \in Event
    <3>1. /\ outcome[1] \in EventTypes /\ outcome[2] \in States /\ at \in Nat
          /\ related \in Nat /\ h.request \in Nat
      BY <2>1, <2>2, <2>3, <1>0 DEF Job, Event
    <3> QED
      BY <3>1, <2>1 DEF Event, CommandNames, NoEvent
  <2>5. Allowed(Completed(w, e), job[w].version)
    <3>1. outcome = <<outcome[1], outcome[2]>>
      BY <2>3
    <3>2. /\ Completed(w, e).command = "update" /\ Completed(w, e).from = job[w].state
          /\ Completed(w, e).type = outcome[1] /\ Completed(w, e).to = outcome[2]
      BY DEF Completed, NoEvent
    <3> QED
      BY <2>1, <3>1, <3>2 DEF Allowed, MayUpdate
  <2>6. AnswersHandoff(Completed(w, e), h)
    BY <2>1, <2>3 DEF AnswersHandoff, Completed, NoEvent, KnownHandoff, LatestHandoff,
              NotBeforeHandoff, Event
  <2>8. MovesUnderNewKey(Completed(w, e))
    BY <2>1 DEF MovesUnderNewKey, Completed, NoEvent, Unused
  <2>7. SoundStaging(w, "commit", e)
    BY <1>4, <2>1, <2>2, <2>4, <2>5, <2>6, <2>8 DEF SoundStaging, StageUpdate, Loaded, NoEvent
  <2> QED
    BY <2>7 DEF SoundStaging
<1>5. CASE StageReport(w)
  <2>1. PICK row \in versions, at \in ExternalTimes \cup {job[w].id} :
               Stage(w, "commit",
                     [NoEvent EXCEPT !.command = "report", !.type = "REPORT_REQUESTED",
                                     !.to = job[w].state, !.at = at, !.related = row.no])
    BY <1>5 DEF StageReport
  <2> DEFINE e == [NoEvent EXCEPT !.command = "report", !.type = "REPORT_REQUESTED",
                                  !.to = job[w].state, !.at = at, !.related = row.no]
  <2>2. e \in Event
    <3>1. job[w].state \in States /\ at \in Nat /\ row.no \in Nat
      BY <2>1, <1>0 DEF Job, VersionRow
    <3> QED
      BY <3>1 DEF Event, CommandNames, EventTypes, NoEvent
  <2>3. Allowed(Completed(w, e), job[w].version)
    BY DEF Allowed, Completed, NoEvent
  <2>4. MovesUnderNewKey(Completed(w, e))
    BY DEF MovesUnderNewKey, Completed, NoEvent
  <2>7. SoundStaging(w, "commit", e)
    BY <1>5, <2>1, <2>2, <2>3, <2>4 DEF SoundStaging, StageReport, Loaded, NoEvent
  <2> QED
    BY <2>7 DEF SoundStaging
<1>6. CASE StageNarrativeReview(w)
  <2>1. PICK row \in versions, key \in Keys \cup {NoKey} :
               Stage(w, "commit",
                     [NoEvent EXCEPT !.command = "narrative", !.type = "NARRATIVE_REVIEWED",
                                     !.to = job[w].state, !.at = job[w].id, !.key = key,
                                     !.related = row.no])
    BY <1>6 DEF StageNarrativeReview
  <2> DEFINE e == [NoEvent EXCEPT !.command = "narrative", !.type = "NARRATIVE_REVIEWED",
                                  !.to = job[w].state, !.at = job[w].id, !.key = key,
                                  !.related = row.no]
  <2>2. e \in Event
    <3>1. job[w].state \in States /\ job[w].id \in Nat /\ row.no \in Nat
      BY <2>1, <1>0 DEF Job, VersionRow
    <3> QED
      BY <3>1, <2>1 DEF Event, CommandNames, EventTypes, NoEvent
  <2>3. Allowed(Completed(w, e), job[w].version)
    BY DEF Allowed, Completed, NoEvent
  <2>4. MovesUnderNewKey(Completed(w, e))
    BY DEF MovesUnderNewKey, Completed, NoEvent
  <2>7. SoundStaging(w, "commit", e)
    BY <1>6, <2>1, <2>2, <2>3, <2>4 DEF SoundStaging, StageNarrativeReview, Loaded, NoEvent
  <2> QED
    BY <2>7 DEF SoundStaging
<1>7. CASE StageVersion(w)
  <2> DEFINE e == [NoEvent EXCEPT !.command = "version", !.type = "NEW_VERSION_CREATED",
                                  !.to = "DRAFT", !.at = job[w].id,
                                  !.related = job[w].version + 1]
  <2>1. Stage(w, "insert", e) /\ MayCreateVersion(job[w].state)
    BY <1>7 DEF StageVersion
  <2>2. e \in Event
    <3>1. job[w].id \in Nat /\ job[w].version + 1 \in Nat
      BY <1>0 DEF Job
    <3> QED
      BY <3>1 DEF Event, CommandNames, EventTypes, States, NoEvent
  <2>3. Allowed(Completed(w, e), job[w].version)
    BY <2>1 DEF Allowed, Completed, NoEvent, MayCreateVersion
  <2>4. e.command = "version" /\ job[w].pc = "loaded"
    BY <1>7 DEF StageVersion, Loaded, NoEvent
  <2>5. MovesUnderNewKey(Completed(w, e))
    BY DEF MovesUnderNewKey, Completed, NoEvent
  <2> HIDE DEF e
  <2>7. SoundStaging(w, "insert", e)
    BY <2>1, <2>2, <2>3, <2>4, <2>5 DEF SoundStaging
  <2> QED
    BY <2>7 DEF SoundStaging
<1> QED
  BY <1>1, <1>2, <1>3, <1>4, <1>5, <1>6, <1>7 DEF Staging

\* A command ends without a write.
Ends(w) == Finish(w) /\ UNCHANGED <<proposal, events, versions, clock>>

\* The five kinds of step.
LEMMA StepKinds ==
  ASSUME TypeOK, [Next]_vars
  PROVE  \/ UNCHANGED vars
         \/ \E w \in Workers :
              \/ Load(w)
              \/ Ends(w)
              \/ \E pc \in {"insert", "commit"}, e \in Event : SoundStaging(w, pc, e)
              \/ InsertVersion(w)
              \/ Commit(w)
<1>1. CASE UNCHANGED vars
  BY <1>1
<1>2. ASSUME NEW w \in Workers, Step(w)
      PROVE  \/ Load(w) \/ Ends(w) \/ Staging(w) \/ InsertVersion(w) \/ Commit(w)
  BY <1>2 DEF Step, Staging, Ends, Decline, Refuse, Crash
<1>3. ASSUME NEW w \in Workers, Staging(w)
      PROVE  \E pc \in {"insert", "commit"}, e \in Event : SoundStaging(w, pc, e)
  BY <1>3, StagingIsSound
<1> QED
  BY <1>1, <1>2, <1>3 DEF Next

-----------------------------------------------------------------------------
(* Type correctness.                                                       *)

\* A worker without a command and the first event of a log are well formed.
LEMMA IdleTyped == Idle \in Job /\ CreatedEvent \in Event
<1>1. NoEvent \in Event
  BY DEF NoEvent, Event, States
<1>2. CreatedEvent \in Event
  BY DEF CreatedEvent, NoEvent, Event, EventTypes, States
<1> QED
  BY <1>1, <1>2 DEF Idle, Job, States

\* The aggregate persist_created_proposal leaves is well typed.
LEMMA InitTyped == Init => TypeOK
<1> SUFFICES ASSUME Init PROVE TypeOK
  OBVIOUS
<1>1. proposal \in [state : States, version : Nat \ {0}]
  BY DEF Init, States
<1>2. events \in Seq(Event)
  BY IdleTyped DEF Init
<1>3. versions \in SUBSET VersionRow /\ job \in [Workers -> Job] /\ clock \in Nat
  BY IdleTyped DEF Init, VersionRow
<1> QED
  BY <1>1, <1>2, <1>3 DEF TypeOK

\* No step writes an ill-formed row or leaves an ill-formed command.
LEMMA StepTyped == TypeOK /\ [Next]_vars => TypeOK'
<1> SUFFICES ASSUME TypeOK, [Next]_vars PROVE TypeOK'
  OBVIOUS
<1>1. CASE UNCHANGED vars
  BY <1>1 DEF TypeOK, vars
<1>2. ASSUME NEW w \in Workers, Load(w) PROVE TypeOK'
  <2>1. /\ proposal.state \in States /\ proposal.version \in Nat /\ clock + 1 \in Nat
        /\ NoEvent \in Event
    BY LogTyped DEF TypeOK
  <2>2. [Idle EXCEPT !.pc = "loaded", !.id = clock + 1, !.state = proposal.state,
                     !.version = proposal.version] \in Job
    BY <2>1 DEF Job, Idle
  <2> QED
    BY <1>2, <2>2 DEF TypeOK, Load
<1>3. ASSUME NEW w \in Workers, Ends(w) PROVE TypeOK'
  BY <1>3, IdleTyped DEF TypeOK, Ends, Finish
<1>4. ASSUME NEW w \in Workers, NEW pc \in {"insert", "commit"}, NEW e \in Event,
             SoundStaging(w, pc, e)
      PROVE  TypeOK'
  <2>1. Stage(w, pc, e)
    BY <1>4 DEF SoundStaging
  <2>2. job[w] \in Job
    BY DEF TypeOK
  <2>3. [e EXCEPT !.id = job[w].id, !.from = job[w].state] \in Event
    BY <2>2 DEF Event, Job
  <2> DEFINE j == [job[w] EXCEPT !.pc = pc, !.event = Completed(w, e)]
  <2>4. j \in Job
    BY <2>2, <2>3 DEF Job, Completed
  <2>5. job' = [job EXCEPT ![w] = j]
    BY <2>1 DEF Stage, Completed, TypeOK
  <2> QED
    BY <2>1, <2>4, <2>5 DEF TypeOK, Stage
<1>5. ASSUME NEW w \in Workers, InsertVersion(w) PROVE TypeOK'
  <2> DEFINE row == [no |-> job[w].version + 1, id |-> job[w].id]
  <2>1. job[w] \in Job /\ Idle \in Job
    BY IdleTyped DEF TypeOK
  <2>2. versions' \in SUBSET VersionRow
    BY <1>5, <2>1 DEF InsertVersion, WithVersion, TypeOK, VersionRow, Job
  <2>3. job' \in [Workers -> Job]
    <3>1. [job[w] EXCEPT !.pc = "commit"] \in Job
      BY <2>1 DEF Job
    <3>2. \/ job' = [job EXCEPT ![w] = [job[w] EXCEPT !.pc = "commit"]]
          \/ job' = [job EXCEPT ![w] = Idle]
      BY <1>5 DEF InsertVersion, Finish, TypeOK
    <3> QED
      BY <2>1, <3>1, <3>2 DEF TypeOK
  <2> QED
    BY <1>5, <2>2, <2>3 DEF InsertVersion, TypeOK
<1>6. ASSUME NEW w \in Workers, Commit(w) PROVE TypeOK'
  <2>1. job[w] \in Job /\ Idle \in Job
    BY IdleTyped DEF TypeOK
  <2>2. job[w].event \in Event /\ job[w].version = proposal.version
    BY <1>6, <2>1 DEF Commit, Committable, StillCurrent, Job
  <2>3. proposal' \in [state : States, version : Nat \ {0}]
    BY <1>6, <2>2 DEF Commit, NextVersion, TypeOK, Event
  <2>4. events' \in Seq(Event)
    BY <1>6, <2>2 DEF Commit, TypeOK
  <2>5. job' \in [Workers -> Job]
    BY <1>6, <2>1 DEF Commit, Finish, TypeOK
  <2> QED
    BY <1>6, <2>3, <2>4, <2>5 DEF Commit, TypeOK
<1> QED
  BY <1>1, <1>2, <1>3, <1>4, <1>5, <1>6, StepKinds

\* Every state the commands can reach is well typed.
THEOREM TypeCorrect == Spec => []TypeOK
  BY InitTyped, StepTyped, PTL DEF Spec

-----------------------------------------------------------------------------
(* What a command has validated stays valid until it writes.               *)

\* Rows are never taken back and the version never decreases.
LEMMA SharedStateGrows ==
  ASSUME TypeOK, [Next]_vars
  PROVE  /\ versions \subseteq versions'
         /\ Log \subseteq Log'
         /\ proposal.version <= proposal'.version
<1>1. CASE UNCHANGED <<proposal, events, versions>>
  BY <1>1 DEF Log, TypeOK
<1>2. ASSUME NEW w \in Workers, InsertVersion(w)
      PROVE  versions \subseteq versions' /\ UNCHANGED <<proposal, events>>
  BY <1>2 DEF InsertVersion, WithVersion
<1>3. UNCHANGED <<proposal, events>> =>
        Log \subseteq Log' /\ proposal.version <= proposal'.version
  BY DEF Log, TypeOK
<1>4. ASSUME NEW w \in Workers, Commit(w)
      PROVE  /\ versions' = versions
             /\ Log \subseteq Log'
             /\ proposal.version <= proposal'.version
  <2>1. job[w].event \in Event
    BY DEF TypeOK, Job
  <2>2. events' = Append(events, job[w].event)
    BY <1>4 DEF Commit
  <2>3. \A i \in DOMAIN events : i \in DOMAIN events' /\ events'[i] = events[i]
    BY <2>1, <2>2 DEF TypeOK
  <2>4. Log \subseteq Log'
    BY <2>3 DEF Log
  <2>5. proposal.version <= proposal'.version
    BY <1>4 DEF Commit, Committable, StillCurrent, NextVersion, TypeOK
  <2> QED
    BY <1>4, <2>4, <2>5 DEF Commit
<1>5. \/ UNCHANGED <<proposal, events, versions>>
      \/ \E w \in Workers : InsertVersion(w) \/ Commit(w)
  <2>1. ASSUME NEW w \in Workers, NEW pc, NEW e, SoundStaging(w, pc, e)
        PROVE  UNCHANGED <<proposal, events, versions>>
    BY <2>1 DEF SoundStaging, Stage
  <2> QED
    BY <2>1, StepKinds DEF vars, Load, Ends
<1>6. CASE \E w \in Workers : InsertVersion(w)
  BY <1>2, <1>3, <1>6 DEF TypeOK
<1>7. CASE \E w \in Workers : Commit(w)
  BY <1>4, <1>7
<1> QED
  BY <1>1, <1>5, <1>6, <1>7

\* The inductive step: a command's own steps establish its part of WorkIsValid,
\* the steps of the others preserve it, because the stores only grow.
LEMMA WorkStaysValid ==
  ASSUME TypeOK, ValidatedWorkStaysValid, [Next]_vars
  PROVE  ValidatedWorkStaysValid'
<1>0. TypeOK' /\ job \in [Workers -> Job]
  BY StepTyped DEF TypeOK
<1>1. ASSUME NEW v \in Workers, job'[v] = job[v]
      PROVE  WorkIsValid(v)'
  <2>1. job[v].version \in Nat /\ proposal.version \in Nat /\ proposal'.version \in Nat
    BY <1>0 DEF TypeOK, Job
  <2> QED
    BY <1>1, <2>1, SharedStateGrows DEF ValidatedWorkStaysValid, WorkIsValid
<1>2. ASSUME NEW v \in Workers, job'[v] = Idle
      PROVE  WorkIsValid(v)'
  BY <1>0, <1>2 DEF WorkIsValid, Idle, TypeOK
<1>3. CASE UNCHANGED vars
  BY <1>1, <1>3 DEF ValidatedWorkStaysValid, vars
<1>4. ASSUME NEW w \in Workers, Load(w) PROVE ValidatedWorkStaysValid'
  <2>1. WorkIsValid(w)'
    BY <1>0, <1>4 DEF Load, WorkIsValid, Idle, TypeOK
  <2> QED
    BY <1>0, <1>1, <1>4, <2>1 DEF Load, ValidatedWorkStaysValid
<1>5. ASSUME NEW w \in Workers, Finish(w) PROVE ValidatedWorkStaysValid'
  BY <1>0, <1>1, <1>2, <1>5 DEF Finish, ValidatedWorkStaysValid
<1>6. ASSUME NEW w \in Workers, NEW pc \in {"insert", "commit"}, NEW e \in Event,
             SoundStaging(w, pc, e)
      PROVE  ValidatedWorkStaysValid'
  <2>1. \A v \in Workers \ {w} : job'[v] = job[v]
    BY <1>0, <1>6 DEF SoundStaging, Stage
  <2>2. /\ job'[w] = [job[w] EXCEPT !.pc = pc, !.event = Completed(w, e)]
        /\ UNCHANGED <<proposal, events, versions>>
    BY <1>0, <1>6 DEF SoundStaging, Stage, Completed
  <2>3. WorkIsValid(w)'
    <3>1. /\ job'[w].pc = pc /\ job'[w].id = job[w].id /\ job'[w].state = job[w].state
          /\ job'[w].version = job[w].version /\ job'[w].event = Completed(w, e)
      BY <1>0, <2>2 DEF Job
    <3>2. /\ Completed(w, e).id = job[w].id /\ Completed(w, e).from = job[w].state
          /\ Completed(w, e).command = e.command
      BY DEF Completed, Event
    <3>3. Log' = Log
      BY <2>2 DEF Log
    <3> QED
      BY <1>6, <2>2, <3>1, <3>2, <3>3
         DEF SoundStaging, WorkIsValid, ValidatedWorkStaysValid
  <2> QED
    BY <1>1, <2>1, <2>3 DEF ValidatedWorkStaysValid
<1>7. ASSUME NEW w \in Workers, InsertVersion(w) PROVE ValidatedWorkStaysValid'
  <2> DEFINE row == [no |-> job[w].version + 1, id |-> job[w].id]
  <2>1. CASE row \in versions'
    <3>1. job' = [job EXCEPT ![w].pc = "commit"] /\ UNCHANGED <<proposal, events>>
      BY <1>7, <2>1 DEF InsertVersion
    <3>2. /\ job'[w].pc = "commit" /\ job'[w].id = job[w].id /\ job'[w].state = job[w].state
          /\ job'[w].version = job[w].version /\ job'[w].event = job[w].event
      BY <1>0, <3>1 DEF Job
    <3>3. Log' = Log
      BY <3>1 DEF Log
    <3>4. WorkIsValid(w)'
      BY <1>7, <2>1, <3>1, <3>2, <3>3 DEF WorkIsValid, ValidatedWorkStaysValid, InsertVersion
    <3>5. \A v \in Workers \ {w} : job'[v] = job[v]
      BY <1>0, <3>1
    <3> QED
      BY <1>1, <3>4, <3>5 DEF ValidatedWorkStaysValid
  <2>2. CASE row \notin versions'
    BY <1>5, <1>7, <2>2 DEF InsertVersion
  <2> QED
    BY <2>1, <2>2
<1> QED
  BY <1>3, <1>4, <1>5, <1>6, <1>7, StepKinds DEF Ends, Commit

\* Whatever other commands, crashes and refusals come in between, the work a
\* command has validated is still valid when it reaches its write.
THEOREM ValidatedWorkAlwaysValid == Spec => []ValidatedWorkStaysValid
<1>1. Init => ValidatedWorkStaysValid
  BY DEF Init, Idle, ValidatedWorkStaysValid, WorkIsValid
<1>2. TypeOK /\ ValidatedWorkStaysValid /\ [Next]_vars => ValidatedWorkStaysValid'
  BY WorkStaysValid
<1> QED
  BY <1>1, <1>2, TypeCorrect, PTL DEF Spec

-----------------------------------------------------------------------------
(* The log.                                                                *)

\* Only Commit touches the aggregate and the log.
LEMMA OnlyCommitMoves ==
  ASSUME TypeOK, [Next]_vars
  PROVE  UNCHANGED <<proposal, events>> \/ \E w \in Workers : Commit(w)
<1>1. ASSUME NEW w \in Workers, NEW pc, NEW e, SoundStaging(w, pc, e)
      PROVE  UNCHANGED <<proposal, events>>
  BY <1>1 DEF SoundStaging, Stage
<1> QED
  BY <1>1, StepKinds DEF vars, Load, Ends, InsertVersion

\* The log after a commit, entry by entry.
LEMMA LogAfterCommit ==
  ASSUME TypeOK, NEW w \in Workers, Commit(w)
  PROVE  /\ Len(events') = Len(events) + 1
         /\ Len(events) \in Nat
         /\ \A i \in 1..Len(events) : events'[i] = events[i]
         /\ events'[Len(events) + 1] = job[w].event
<1>1. job[w].event \in Event
  BY DEF TypeOK, Job
<1>2. events' = Append(events, job[w].event)
  BY DEF Commit
<1> QED
  BY <1>1, <1>2 DEF TypeOK

\* Only a commit extends the log, and its compare-and-set makes the new event
\* start where the last one ended.
LEMMA HistoryStaysLinked ==
  ASSUME TypeOK, HistoryIsLinked, [Next]_vars
  PROVE  HistoryIsLinked'
<1>1. CASE UNCHANGED <<proposal, events>>
  BY <1>1 DEF HistoryIsLinked
<1>2. ASSUME NEW w \in Workers, Commit(w) PROVE HistoryIsLinked'
  <2>1. /\ proposal.state = job[w].event.from
        /\ proposal'.state = job[w].event.to
    BY <1>2 DEF Commit, Committable, StillCurrent
  <2>2. events[Len(events)].to = job[w].event.from
    BY <2>1 DEF HistoryIsLinked
  <2>3. Len(events') >= 1 /\ events'[1].from = "NONE"
    BY <1>2, LogAfterCommit DEF HistoryIsLinked
  <2>4. \A i \in 1..Len(events') - 1 : events'[i + 1].from = events'[i].to
    <3> SUFFICES ASSUME NEW i \in 1..Len(events') - 1
                 PROVE  events'[i + 1].from = events'[i].to
      OBVIOUS
    <3>1. CASE i < Len(events)
      BY <1>2, <3>1, LogAfterCommit DEF HistoryIsLinked
    <3>2. CASE i = Len(events)
      BY <1>2, <2>2, <3>2, LogAfterCommit DEF HistoryIsLinked
    <3> QED
      BY <1>2, <3>1, <3>2, LogAfterCommit
  <2>5. events'[Len(events')].to = proposal'.state
    BY <1>2, <2>1, LogAfterCommit
  <2> QED
    BY <2>3, <2>4, <2>5 DEF HistoryIsLinked
<1> QED
  BY <1>1, <1>2, OnlyCommitMoves

\* The log is at all times one unbroken walk from creation to the current state.
THEOREM HistoryAlwaysLinked == Spec => []HistoryIsLinked
<1>1. Init => HistoryIsLinked
  <2>1. CreatedEvent.from = "NONE" /\ CreatedEvent.to = "DRAFT"
    BY DEF CreatedEvent, NoEvent
  <2>2. Init => Len(events) = 1 /\ events[1] = CreatedEvent /\ proposal.state = "DRAFT"
    BY DEF Init
  <2>3. ASSUME Init PROVE HistoryIsLinked
    <3>1. Len(events) = 1 /\ events[Len(events)].to = proposal.state /\ events[1].from = "NONE"
      BY <2>1, <2>2, <2>3
    <3>2. 1..(Len(events) - 1) = {}
      BY <3>1
    <3> QED
      BY <3>1, <3>2 DEF HistoryIsLinked
  <2> QED
    BY <2>3
<1>2. TypeOK /\ HistoryIsLinked /\ [Next]_vars => HistoryIsLinked'
  BY HistoryStaysLinked
<1> QED
  BY <1>1, <1>2, TypeCorrect, PTL DEF Spec

-----------------------------------------------------------------------------
(* The state of the aggregate.                                             *)

\* An allowed event that leaves the state alone or does not start a version
\* moves the lifecycle forward, and none leaves a terminal state.
LEMMA AllowedMovesForward ==
  ASSUME NEW e \in Event, e.from \in States, NEW version \in Nat, Allowed(e, version)
  PROVE  /\ e.type # "NEW_VERSION_CREATED" /\ e.to # e.from =>
              StateRank(e.to) > StateRank(e.from)
         /\ e.from \in TERMINAL_STATES => e.to = e.from /\ e.type # "NEW_VERSION_CREATED"
<1> DEFINE Goal == /\ e.type # "NEW_VERSION_CREATED" /\ e.to # e.from =>
                        StateRank(e.to) > StateRank(e.from)
                   /\ e.from \in TERMINAL_STATES =>
                        e.to = e.from /\ e.type # "NEW_VERSION_CREATED"
<1>1. CASE e.command = "transition" /\ <<e.from, e.type, e.to>> \in resolve_transition_state
  <2>1. CASE <<e.from, e.type, e.to>> \in TRANSITION_MAP
    BY <2>1 DEF TRANSITION_MAP, StateRank, TERMINAL_STATES
  <2>2. CASE e.from \in States \ TERMINAL_STATES /\ e.type = "CANCELLED" /\ e.to = "CANCELLED"
    BY <2>2 DEF StateRank, TERMINAL_STATES, States
  <2> QED
    BY <1>1, <2>1, <2>2 DEF resolve_transition_state
<1>2. CASE e.command = "approval" /\ <<e.from, e.type, e.to>> \in resolve_approval_transition
  <2>1. CASE <<e.from, e.type, e.to>> \in APPROVAL_TRANSITION_RULES
    BY <2>1 DEF APPROVAL_TRANSITION_RULES, StateRank, TERMINAL_STATES
  <2>2. CASE /\ e.from \in {"RISK_REVIEW", "COMPLIANCE_REVIEW", "AWAITING_CLIENT_CONSENT"}
             /\ e.type = "REJECTED" /\ e.to = "REJECTED"
    BY <2>2 DEF StateRank, TERMINAL_STATES
  <2>3. \A rule \in APPROVAL_TRANSITION_RULES :
          rule[1] \in {"RISK_REVIEW", "COMPLIANCE_REVIEW", "AWAITING_CLIENT_CONSENT"}
    BY DEF APPROVAL_TRANSITION_RULES
  <2> QED
    BY <1>2, <2>1, <2>2, <2>3 DEF resolve_approval_transition
<1>3. CASE e.command = "update" /\ e.from \notin TERMINAL_STATES
           /\ <<e.type, e.to>> \in EXECUTION_UPDATE_EVENT_MAP
  <2>1. e.to \in TERMINAL_STATES \/ e.to = "EXECUTION_READY"
    BY <1>3 DEF EXECUTION_UPDATE_EVENT_MAP, TERMINAL_STATES
  <2>2. e.type # "NEW_VERSION_CREATED"
    BY <1>3 DEF EXECUTION_UPDATE_EVENT_MAP
  <2> QED
    BY <1>3, <2>1, <2>2 DEF StateRank, TERMINAL_STATES, Event, States
<1> QED
  BY <1>1, <1>2, <1>3 DEF Allowed, StateRank, TERMINAL_STATES

\* A commit that changes the aggregate moves it forward from a state that is
\* not terminal.
LEMMA CommitMovesForward ==
  ASSUME TypeOK, ValidatedWorkStaysValid, NEW w \in Workers, Commit(w)
  PROVE  /\ proposal' # proposal => proposal.state \notin TERMINAL_STATES
         /\ proposal' # proposal =>
              \/ proposal'.version = proposal.version + 1
              \/ /\ proposal'.version = proposal.version
                 /\ StateRank(proposal'.state) > StateRank(proposal.state)
<1> DEFINE e == job[w].event
<1>1. e \in Event /\ job[w].version \in Nat /\ job[w].state \in States
  BY DEF TypeOK, Job
<1>2. Allowed(e, job[w].version) /\ e.from = job[w].state
  BY DEF Commit, ValidatedWorkStaysValid, WorkIsValid
<1>3. /\ proposal.state = e.from /\ proposal.version = job[w].version
      /\ proposal' = [state |-> e.to, version |-> NextVersion(w)]
  BY DEF Commit, Committable, StillCurrent
<1>4. e.type # "NEW_VERSION_CREATED" /\ e.to = e.from => proposal' = proposal
  BY <1>3 DEF NextVersion, TypeOK
<1>5. /\ e.type # "NEW_VERSION_CREATED" /\ e.to # e.from => StateRank(e.to) > StateRank(e.from)
      /\ e.from \in TERMINAL_STATES => e.to = e.from /\ e.type # "NEW_VERSION_CREATED"
  BY <1>1, <1>2, AllowedMovesForward
<1> HIDE DEF e
<1>6. /\ proposal'.state = e.to
      /\ proposal'.version = IF e.type = "NEW_VERSION_CREATED" THEN proposal.version + 1
                                                             ELSE proposal.version
  BY <1>3 DEF NextVersion, e
<1> QED
  BY <1>3, <1>4, <1>5, <1>6

\* No step takes a proposal out of a terminal state.
THEOREM TerminalAlwaysFinal == Spec => TerminalIsFinal
<1>1. TypeOK /\ ValidatedWorkStaysValid /\ [Next]_vars =>
        [proposal.state \notin TERMINAL_STATES]_proposal
  BY CommitMovesForward, OnlyCommitMoves
<1> QED
  BY <1>1, TypeCorrect, ValidatedWorkAlwaysValid, PTL DEF Spec, TerminalIsFinal

\* A pair of state and version that was left never comes back, which makes the
\* compare-and-set on the pair safe.
THEOREM LifecycleAlwaysForward == Spec => LifecycleMovesForward
<1>1. TypeOK /\ ValidatedWorkStaysValid /\ [Next]_vars =>
        [\/ proposal'.version = proposal.version + 1
         \/ /\ proposal'.version = proposal.version
            /\ StateRank(proposal'.state) > StateRank(proposal.state)]_proposal
  BY CommitMovesForward, OnlyCommitMoves
<1> QED
  BY <1>1, TypeCorrect, ValidatedWorkAlwaysValid, PTL DEF Spec, LifecycleMovesForward

-----------------------------------------------------------------------------
(* Versions.                                                               *)

\* Of the allowed events only those of a version command open a version.
LEMMA OnlyVersionsOpen ==
  ASSUME NEW e \in Event, NEW version \in Nat, Allowed(e, version), Opens(e)
  PROVE  e.command = "version" /\ e.type = "NEW_VERSION_CREATED" /\ e.related = version + 1
<1>1. e.command = "transition" => <<e.from, e.type, e.to>> \notin resolve_transition_state
  BY DEF Opens, resolve_transition_state, TRANSITION_MAP
<1>2. e.command = "approval" => <<e.from, e.type, e.to>> \notin resolve_approval_transition
  BY DEF Opens, resolve_approval_transition, APPROVAL_TRANSITION_RULES
<1>3. e.command = "update" => <<e.type, e.to>> \notin EXECUTION_UPDATE_EVENT_MAP
  BY DEF Opens, EXECUTION_UPDATE_EVENT_MAP
<1> QED
  BY <1>1, <1>2, <1>3 DEF Allowed, Opens

\* What a commit does to the version number.
LEMMA CommitOfVersion ==
  ASSUME TypeOK, ValidatedWorkStaysValid, NEW w \in Workers, Commit(w)
  PROVE  /\ job[w].event \in Event /\ proposal.version \in Nat \ {0}
         /\ IF Opens(job[w].event)
              THEN /\ proposal'.version = proposal.version + 1
                   /\ job[w].event.related = proposal.version + 1
                   /\ [no |-> proposal.version + 1, id |-> job[w].event.id] \in versions
              ELSE proposal'.version = proposal.version
<1>1. job[w].event \in Event /\ job[w].version \in Nat /\ proposal.version \in Nat \ {0}
  BY DEF TypeOK, Job
<1>2. /\ Allowed(job[w].event, job[w].version)
      /\ job[w].event.id = job[w].id
      /\ job[w].event.command = "version" =>
           [no |-> job[w].version + 1, id |-> job[w].id] \in versions
  BY DEF Commit, ValidatedWorkStaysValid, WorkIsValid
<1>3. job[w].version = proposal.version /\ proposal'.version = NextVersion(w)
  BY DEF Commit, Committable, StillCurrent
<1>4. CASE Opens(job[w].event)
  BY <1>1, <1>2, <1>3, <1>4, OnlyVersionsOpen DEF NextVersion
<1>5. CASE ~Opens(job[w].event)
  BY <1>1, <1>3, <1>5 DEF NextVersion, Opens
<1> QED
  BY <1>1, <1>4, <1>5

\* insert_version only takes the number after the loaded version, which is not
\* ahead of the stored one; the commit that advances the version finds its row.
LEMMA RowsStayContiguous ==
  ASSUME TypeOK, ValidatedWorkStaysValid, VersionRowsAreContiguous, [Next]_vars
  PROVE  VersionRowsAreContiguous'
<1>1. CASE UNCHANGED <<proposal, versions>>
  BY <1>1 DEF VersionRowsAreContiguous
<1>2. ASSUME NEW w \in Workers, InsertVersion(w) PROVE VersionRowsAreContiguous'
  <2> DEFINE row == [no |-> job[w].version + 1, id |-> job[w].id]
  <2>1. /\ versions' = IF \E r \in versions : r.no = row.no THEN versions
                                                           ELSE versions \cup {row}
        /\ proposal' = proposal
    BY <1>2 DEF InsertVersion, WithVersion
  <2>2. row.no \in 1..proposal.version + 1 /\ proposal.version \in Nat
    <3>1. job[w].version \in Nat /\ proposal.version \in Nat
      BY DEF TypeOK, Job
    <3>2. job[w].version <= proposal.version
      BY DEF ValidatedWorkStaysValid, WorkIsValid
    <3> QED
      BY <3>1, <3>2
  <2> HIDE DEF row
  <2> QED
    BY <2>1, <2>2 DEF VersionRowsAreContiguous
<1>3. ASSUME NEW w \in Workers, Commit(w) PROVE VersionRowsAreContiguous'
  <2>1. versions' = versions /\ versions \subseteq VersionRow
    BY <1>3 DEF Commit, TypeOK
  <2>2. CASE Opens(job[w].event)
    <3>1. /\ proposal'.version = proposal.version + 1 /\ proposal.version \in Nat
          /\ \E r \in versions : r.no = proposal.version + 1
      BY <1>3, <2>2, CommitOfVersion
    <3> QED
      BY <2>1, <3>1 DEF VersionRowsAreContiguous, VersionRow
  <2>3. CASE ~Opens(job[w].event)
    BY <1>3, <2>1, <2>3, CommitOfVersion DEF VersionRowsAreContiguous
  <2> QED
    BY <2>2, <2>3
<1>4. \/ UNCHANGED <<proposal, versions>>
      \/ \E w \in Workers : InsertVersion(w) \/ Commit(w)
  <2>1. ASSUME NEW w \in Workers, NEW pc, NEW e, SoundStaging(w, pc, e)
        PROVE  UNCHANGED <<proposal, versions>>
    BY <2>1 DEF SoundStaging, Stage
  <2> QED
    BY <2>1, StepKinds DEF vars, Load, Ends
<1> QED
  BY <1>1, <1>2, <1>3, <1>4

\* However many version commands race, fail or crash, version numbers stay
\* contiguous and are used once.
THEOREM RowsAlwaysContiguous == Spec => []VersionRowsAreContiguous
<1>1. Init => VersionRowsAreContiguous
  BY DEF Init, VersionRowsAreContiguous
<1>2. TypeOK /\ ValidatedWorkStaysValid /\ VersionRowsAreContiguous /\ [Next]_vars =>
        VersionRowsAreContiguous'
  BY RowsStayContiguous
<1> QED
  BY <1>1, <1>2, TypeCorrect, ValidatedWorkAlwaysValid, PTL DEF Spec

\* A commit that opens a version opens the next one, with the row it inserted.
LEMMA EvidenceStays ==
  ASSUME TypeOK, ValidatedWorkStaysValid, EveryVersionHasItsEvidence, [Next]_vars
  PROVE  EveryVersionHasItsEvidence'
<1>1. CASE UNCHANGED <<proposal, events>>
  <2>1. Log' = Log
    BY <1>1 DEF Log
  <2> QED
    BY <1>1, <2>1, SharedStateGrows DEF EveryVersionHasItsEvidence
<1>2. ASSUME NEW w \in Workers, Commit(w) PROVE EveryVersionHasItsEvidence'
  <2> DEFINE e == job[w].event
             n == Len(events)
  <2>1. /\ n \in Nat /\ DOMAIN events = 1..n /\ DOMAIN events' = 1..(n + 1)
        /\ \A i \in 1..n : events'[i] = events[i]
        /\ events'[n + 1] = e
    BY <1>2, LogAfterCommit, StepTyped DEF TypeOK
  <2>2. Log' = Log \cup {e}
    BY <2>1 DEF Log
  <2>3. proposal.version \in Nat /\ versions' = versions
    BY <1>2 DEF TypeOK, Commit
  <2>4. Opens(e) =>
          /\ proposal'.version = proposal.version + 1
          /\ e.related = proposal.version + 1
          /\ [no |-> proposal.version + 1, id |-> e.id] \in versions
    BY <1>2, CommitOfVersion
  <2>5. ~Opens(e) => proposal'.version = proposal.version
    BY <1>2, CommitOfVersion
  <2> HIDE DEF e, n
  <2>6. \A f \in Log' : Opens(f) =>
          f.related \in 1..proposal'.version /\ [no |-> f.related, id |-> f.id] \in versions'
    BY <2>2, <2>3, <2>4, <2>5 DEF EveryVersionHasItsEvidence
  <2>7. \A k \in 1..proposal'.version : \E f \in Log' : Opens(f) /\ f.related = k
    BY <2>2, <2>3, <2>4, <2>5 DEF EveryVersionHasItsEvidence
  <2>8. ASSUME NEW i \in 1..(n + 1), NEW j \in 1..(n + 1),
               Opens(events'[i]), Opens(events'[j]), events'[i].related = events'[j].related
        PROVE  i = j
    <3>1. \A k \in 1..n : Opens(events[k]) => events[k].related \in 1..proposal.version
      BY <2>1 DEF EveryVersionHasItsEvidence, Log
    <3>2. CASE i \in 1..n /\ j \in 1..n
      BY <2>1, <2>8, <3>2 DEF EveryVersionHasItsEvidence
    <3>3. CASE i = n + 1 /\ j \in 1..n
      BY <2>1, <2>3, <2>4, <2>8, <3>1, <3>3
    <3>4. CASE i \in 1..n /\ j = n + 1
      BY <2>1, <2>3, <2>4, <2>8, <3>1, <3>4
    <3> QED
      BY <2>1, <3>2, <3>3, <3>4
  <2> QED
    BY <2>1, <2>6, <2>7, <2>8 DEF EveryVersionHasItsEvidence
<1> QED
  BY <1>1, <1>2, OnlyCommitMoves

\* Every version ever current was opened by exactly one event, whose command
\* wrote the row stored under that number.
THEOREM EvidenceAlwaysThere == Spec => []EveryVersionHasItsEvidence
<1>1. ASSUME Init PROVE EveryVersionHasItsEvidence
  <2>1. Log = {CreatedEvent} /\ DOMAIN events = {1} /\ events[1] = CreatedEvent
    BY <1>1 DEF Init, Log
  <2>2. CreatedEvent.related = 1 /\ CreatedEvent.id = 1 /\ CreatedEvent.type = "CREATED"
    BY DEF CreatedEvent, NoEvent
  <2>3. proposal.version = 1 /\ versions = {[no |-> 1, id |-> 1]}
    BY <1>1 DEF Init
  <2> QED
    BY <2>1, <2>2, <2>3 DEF EveryVersionHasItsEvidence, Opens
<1>2. TypeOK /\ ValidatedWorkStaysValid /\ EveryVersionHasItsEvidence /\ [Next]_vars =>
        EveryVersionHasItsEvidence'
  BY EvidenceStays
<1> QED
  BY <1>1, <1>2, TypeCorrect, ValidatedWorkAlwaysValid, PTL DEF Spec

-----------------------------------------------------------------------------
(* Consent, execution and the provider's updates.                          *)

\* The log after a commit: the same entries and the command's event.
LEMMA CommitAddsOne ==
  ASSUME TypeOK, NEW w \in Workers, Commit(w)
  PROVE  /\ Len(events) \in Nat
         /\ DOMAIN events = 1..Len(events) /\ DOMAIN events' = 1..(Len(events) + 1)
         /\ \A i \in 1..Len(events) : events'[i] = events[i]
         /\ events'[Len(events) + 1] = job[w].event
         /\ Log' = Log \cup {job[w].event}
<1>1. /\ Len(events) \in Nat
      /\ DOMAIN events = 1..Len(events) /\ DOMAIN events' = 1..(Len(events) + 1)
      /\ \A i \in 1..Len(events) : events'[i] = events[i]
      /\ events'[Len(events) + 1] = job[w].event
  BY LogAfterCommit, StepTyped DEF TypeOK, Next, Step
<1>2. Log' = Log \cup {job[w].event}
  BY <1>1 DEF Log
<1> QED
  BY <1>1, <1>2

\* What a command has validated when it commits.
LEMMA CommitIsValidated ==
  ASSUME TypeOK, ValidatedWorkStaysValid, NEW w \in Workers, Commit(w)
  PROVE  /\ job[w].event \in Event
         /\ Allowed(job[w].event, job[w].version)
         /\ job[w].event.from = proposal.state /\ job[w].event.to = proposal'.state
         /\ job[w].event.command = "update" =>
              \E h \in Log : AnswersHandoff(job[w].event, h)
<1>1. job[w].event \in Event
  BY DEF TypeOK, Job
<1>2. /\ Allowed(job[w].event, job[w].version)
      /\ job[w].event.command = "update" =>
           \E h \in Log : AnswersHandoff(job[w].event, h)
  BY DEF Commit, ValidatedWorkStaysValid, WorkIsValid
<1>3. job[w].event.from = proposal.state /\ job[w].event.to = proposal'.state
  BY DEF Commit, Committable, StillCurrent
<1> QED
  BY <1>1, <1>2, <1>3

\* The handoff an update answered when it was validated comes before it in the
\* log: the log only grows at its end.
LEMMA UpdatesStayAnswered ==
  ASSUME TypeOK, ValidatedWorkStaysValid, UpdateAnswersAHandoff, [Next]_vars
  PROVE  UpdateAnswersAHandoff'
<1>1. CASE UNCHANGED events
  BY <1>1 DEF UpdateAnswersAHandoff
<1>2. ASSUME NEW w \in Workers, Commit(w) PROVE UpdateAnswersAHandoff'
  <2> DEFINE n == Len(events)
             e == job[w].event
  <2>1. /\ n \in Nat /\ DOMAIN events = 1..n /\ DOMAIN events' = 1..(n + 1)
        /\ \A i \in 1..n : events'[i] = events[i]
        /\ events'[n + 1] = e
    BY <1>2, CommitAddsOne
  <2>2. e.command = "update" => \E k \in 1..n : AnswersHandoff(e, events[k])
    BY <1>2, <2>1, CommitIsValidated DEF Log
  <2> HIDE DEF n, e
  <2>3. ASSUME NEW i \in DOMAIN events', events'[i].command = "update"
        PROVE  \E k \in DOMAIN events' : k < i /\ AnswersHandoff(events'[i], events'[k])
    <3>1. CASE i \in 1..n
      <4>1. PICK k \in 1..n : k < i /\ AnswersHandoff(events[i], events[k])
        BY <2>1, <2>3, <3>1 DEF UpdateAnswersAHandoff
      <4> QED
        BY <2>1, <3>1, <4>1
    <3>2. CASE i = n + 1
      <4>1. PICK k \in 1..n : AnswersHandoff(e, events[k])
        BY <2>1, <2>2, <2>3, <3>2
      <4> QED
        BY <2>1, <3>2, <4>1
    <3> QED
      BY <2>1, <3>1, <3>2
  <2> QED
    BY <2>3 DEF UpdateAnswersAHandoff
<1> QED
  BY <1>1, <1>2, OnlyCommitMoves

\* Every provider update in the log comes after a handoff that issued the
\* execution request it names and is not later than the update's own time, with
\* any number of handoffs and updates in flight.
THEOREM UpdatesAlwaysAnswer == Spec => []UpdateAnswersAHandoff
<1>1. ASSUME Init PROVE UpdateAnswersAHandoff
  <2>1. DOMAIN events = {1} /\ events[1] = CreatedEvent
    BY <1>1 DEF Init
  <2>2. CreatedEvent.command = "create"
    BY DEF CreatedEvent, NoEvent
  <2> QED
    BY <2>1, <2>2 DEF UpdateAnswersAHandoff
<1>2. TypeOK /\ ValidatedWorkStaysValid /\ UpdateAnswersAHandoff /\ [Next]_vars =>
        UpdateAnswersAHandoff'
  BY UpdatesStayAnswered
<1> QED
  BY <1>1, <1>2, TypeCorrect, ValidatedWorkAlwaysValid, PTL DEF Spec

Approvals == {"RISK_APPROVED", "COMPLIANCE_APPROVED"}

\* What makes ConsentPrecedesExecution inductive: the state consent is given in
\* is itself earned by an approval, and a handoff, which is all an execution
\* update needs, by a consent.
StagesAreEarned ==
  /\ ConsentPrecedesExecution
  /\ proposal.state = "AWAITING_CLIENT_CONSENT" => \E e \in Log : e.type \in Approvals
  /\ \A h \in Log : h.type = "EXECUTION_REQUESTED" =>
       \E e \in Log : e.type = "CLIENT_CONSENT_RECORDED"

\* What an allowed event says about the state it leaves and the one it leads to.
LEMMA AllowedEarnsItsStage ==
  ASSUME NEW e \in Event, NEW version \in Nat, Allowed(e, version)
  PROVE  /\ e.type = "CLIENT_CONSENT_RECORDED" => e.from = "AWAITING_CLIENT_CONSENT"
         /\ e.type = "EXECUTION_REQUESTED" => e.from = "EXECUTION_READY"
         /\ e.to = "AWAITING_CLIENT_CONSENT" => e.type \in Approvals \/ e.to = e.from
         /\ e.to \in {"EXECUTION_READY", "EXECUTED", "EXPIRED"} =>
              \/ e.type = "CLIENT_CONSENT_RECORDED"
              \/ e.from = "EXECUTION_READY" \/ e.to = e.from
              \/ e.command = "update"
<1> USE DEF Approvals
<1>1. CASE e.command = "transition" /\ <<e.from, e.type, e.to>> \in resolve_transition_state
  BY <1>1 DEF resolve_transition_state, TRANSITION_MAP
<1>2. CASE e.command = "approval" /\ <<e.from, e.type, e.to>> \in resolve_approval_transition
  BY <1>2 DEF resolve_approval_transition, APPROVAL_TRANSITION_RULES
<1>3. CASE e.command = "update" /\ <<e.type, e.to>> \in EXECUTION_UPDATE_EVENT_MAP
  BY <1>3 DEF EXECUTION_UPDATE_EVENT_MAP
<1> QED
  BY <1>1, <1>2, <1>3 DEF Allowed

\* A commit earns its stage from the log it extends.
LEMMA StagesStayEarned ==
  ASSUME TypeOK, ValidatedWorkStaysValid, StagesAreEarned, [Next]_vars
  PROVE  StagesAreEarned'
<1>1. CASE UNCHANGED <<proposal, events>>
  BY <1>1 DEF StagesAreEarned, ConsentPrecedesExecution, Log
<1>2. ASSUME NEW w \in Workers, Commit(w) PROVE StagesAreEarned'
  <2> DEFINE n == Len(events)
             e == job[w].event
  <2>1. /\ n \in Nat /\ DOMAIN events = 1..n /\ DOMAIN events' = 1..(n + 1)
        /\ \A i \in 1..n : events'[i] = events[i]
        /\ events'[n + 1] = e
        /\ Log' = Log \cup {e}
    BY <1>2, CommitAddsOne
  <2>2. /\ e.from = proposal.state /\ e.to = proposal'.state
        /\ e.command = "update" => \E h \in Log : h.type = "EXECUTION_REQUESTED"
    BY <1>2, CommitIsValidated DEF AnswersHandoff
  <2>3. /\ e.type = "CLIENT_CONSENT_RECORDED" => e.from = "AWAITING_CLIENT_CONSENT"
        /\ e.type = "EXECUTION_REQUESTED" => e.from = "EXECUTION_READY"
        /\ e.to = "AWAITING_CLIENT_CONSENT" => e.type \in Approvals \/ e.to = e.from
        /\ e.to \in {"EXECUTION_READY", "EXECUTED", "EXPIRED"} =>
             \/ e.type = "CLIENT_CONSENT_RECORDED"
             \/ e.from = "EXECUTION_READY" \/ e.to = e.from
             \/ e.command = "update"
    <3>1. job[w].version \in Nat
      BY DEF TypeOK, Job
    <3> QED
      BY <1>2, <3>1, CommitIsValidated, AllowedEarnsItsStage
  <2>4. Log = {events[i] : i \in 1..n}
    BY <2>1 DEF Log
  <2> HIDE DEF n, e
  <2> DEFINE Consented(log) == \E f \in log : f.type = "CLIENT_CONSENT_RECORDED"
  <2>5. proposal'.state \in {"EXECUTION_READY", "EXECUTED", "EXPIRED"} => Consented(Log')
    BY <2>1, <2>2, <2>3 DEF StagesAreEarned, ConsentPrecedesExecution
  <2>6. ASSUME NEW i \in DOMAIN events', events'[i].type = "CLIENT_CONSENT_RECORDED"
        PROVE  \E k \in DOMAIN events' : k < i /\ events'[k].type \in Approvals
    <3>1. CASE i \in 1..n
      <4>1. PICK k \in 1..n : k < i /\ events[k].type \in Approvals
        BY <2>1, <2>6, <3>1 DEF StagesAreEarned, ConsentPrecedesExecution, Approvals
      <4> QED
        BY <2>1, <3>1, <4>1
    <3>2. CASE i = n + 1
      <4>1. \E f \in Log : f.type \in Approvals
        BY <2>1, <2>2, <2>3, <2>6, <3>2 DEF StagesAreEarned
      <4>2. PICK k \in 1..n : events[k].type \in Approvals
        BY <2>4, <4>1
      <4> QED
        BY <2>1, <3>2, <4>2
    <3> QED
      BY <2>1, <3>1, <3>2
  <2>7. proposal'.state = "AWAITING_CLIENT_CONSENT" => \E f \in Log' : f.type \in Approvals
    BY <2>1, <2>2, <2>3 DEF StagesAreEarned
  <2>8. \A h \in Log' : h.type = "EXECUTION_REQUESTED" => Consented(Log')
    BY <2>1, <2>2, <2>3 DEF StagesAreEarned, ConsentPrecedesExecution
  <2> QED
    BY <2>5, <2>6, <2>7, <2>8 DEF StagesAreEarned, ConsentPrecedesExecution, Approvals
<1> QED
  BY <1>1, <1>2, OnlyCommitMoves

\* No interleaving of transitions, approvals, provider updates and new versions
\* makes a proposal ready, executed or expired before a client has consented, or
\* takes a consent before a risk or compliance approval.
THEOREM ConsentAlwaysPrecedes == Spec => []ConsentPrecedesExecution
<1>1. ASSUME Init PROVE StagesAreEarned
  <2>1. DOMAIN events = {1} /\ events[1] = CreatedEvent /\ proposal.state = "DRAFT"
    BY <1>1 DEF Init
  <2>2. CreatedEvent.type = "CREATED"
    BY DEF CreatedEvent, NoEvent
  <2> QED
    BY <2>1, <2>2 DEF StagesAreEarned, ConsentPrecedesExecution, Log
<1>2. TypeOK /\ ValidatedWorkStaysValid /\ StagesAreEarned /\ [Next]_vars => StagesAreEarned'
  BY StagesStayEarned
<1>3. StagesAreEarned => ConsentPrecedesExecution
  BY DEF StagesAreEarned
<1> QED
  BY <1>1, <1>2, <1>3, TypeCorrect, ValidatedWorkAlwaysValid, PTL DEF Spec

-----------------------------------------------------------------------------
(* Retries of one keyed command.                                           *)

SameMove(e, f) ==
  e.key = f.key /\ e.command = f.command /\ e.type = f.type /\ e.from = f.from

\* The aggregate has left the state and version the command has loaded.
HasMovedOn(w) ==
  \/ job[w].version < proposal.version
  \/ job[w].version = proposal.version /\ StateRank(job[w].state) < StateRank(proposal.state)

\* A validated command that moves the state under a key, and that another one
\* has anticipated since, will not commit.
FreshOrOutdated(w) ==
  job[w].pc \in {"insert", "commit"} =>
    \/ job[w].event.key = NoKey
    \/ job[w].event.to = job[w].event.from
    \/ \A f \in Log : ~SameMove(f, job[w].event)
    \/ HasMovedOn(w)

\* The keyed events of the log are such as the rule tables allow.
KeyedEventsAreAllowed == \A f \in Log : f.key # NoKey => \E m \in Nat : Allowed(f, m)

RetriesAreOutdated ==
  /\ KeyedMoveHappensOnce
  /\ KeyedEventsAreAllowed
  /\ \A w \in Workers : FreshOrOutdated(w)

\* Command, event type and state left decide the state an allowed event leads to.
LEMMA SameMoveSameState ==
  ASSUME NEW e \in Event, NEW f \in Event, NEW m \in Nat, NEW n \in Nat,
         Allowed(e, m), Allowed(f, n), SameMove(e, f)
  PROVE  e.to = f.to
<1>1. CASE e.command = "transition"
  <2>1. /\ <<e.from, e.type, e.to>> \in resolve_transition_state
        /\ <<e.from, e.type, f.to>> \in resolve_transition_state
    BY <1>1 DEF Allowed, SameMove
  <2> QED
    BY <2>1 DEF resolve_transition_state, TRANSITION_MAP
<1>2. CASE e.command = "approval"
  <2>1. /\ <<e.from, e.type, e.to>> \in resolve_approval_transition
        /\ <<e.from, e.type, f.to>> \in resolve_approval_transition
    BY <1>2 DEF Allowed, SameMove
  <2> QED
    BY <2>1 DEF resolve_approval_transition, APPROVAL_TRANSITION_RULES
<1>3. CASE e.command = "update"
  <2>1. /\ <<e.type, e.to>> \in EXECUTION_UPDATE_EVENT_MAP
        /\ <<e.type, f.to>> \in EXECUTION_UPDATE_EVENT_MAP
    BY <1>3 DEF Allowed, SameMove
  <2> QED
    BY <2>1 DEF EXECUTION_UPDATE_EVENT_MAP
<1> QED
  BY <1>1, <1>2, <1>3 DEF Allowed, SameMove

\* Having moved on is for ever: the aggregate only moves forward.
LEMMA MovedOnForGood ==
  ASSUME TypeOK, ValidatedWorkStaysValid, [Next]_vars,
         NEW w \in Workers, HasMovedOn(w), job'[w] = job[w]
  PROVE  HasMovedOn(w)'
<1>1. job[w].version \in Nat /\ proposal.version \in Nat /\ proposal'.version \in Nat
  BY StepTyped DEF TypeOK, Job
<1>2. \A s \in States : StateRank(s) \in Nat
  BY DEF StateRank
<1>3. /\ StateRank(job[w].state) \in Nat /\ StateRank(proposal.state) \in Nat
      /\ StateRank(proposal'.state) \in Nat
  BY <1>2, StepTyped DEF TypeOK, Job
<1>4. \/ proposal' = proposal
      \/ proposal'.version = proposal.version + 1
      \/ /\ proposal'.version = proposal.version
         /\ StateRank(proposal'.state) > StateRank(proposal.state)
  BY OnlyCommitMoves, CommitMovesForward
<1> QED
  BY <1>1, <1>3, <1>4 DEF HasMovedOn

\* A command that another one leaves alone stays fresh or becomes outdated: the
\* commit of the same move takes the aggregate away from what it has loaded.
LEMMA OthersStayFreshOrOutdated ==
  ASSUME TypeOK, ValidatedWorkStaysValid, [Next]_vars,
         NEW v \in Workers, FreshOrOutdated(v), job'[v] = job[v]
  PROVE  FreshOrOutdated(v)'
<1>1. CASE HasMovedOn(v)
  BY <1>1, MovedOnForGood DEF FreshOrOutdated
<1>2. CASE UNCHANGED <<proposal, events>>
  BY <1>2 DEF FreshOrOutdated, HasMovedOn, Log
<1>3. ASSUME NEW w \in Workers, Commit(w), ~HasMovedOn(v)
      PROVE  FreshOrOutdated(v)'
  <2> SUFFICES ASSUME job[v].pc \in {"insert", "commit"}, job[v].event.key # NoKey,
                      job[v].event.to # job[v].event.from,
                      SameMove(job[w].event, job[v].event)
               PROVE  HasMovedOn(v)'
    <3>1. Log' = Log \cup {job[w].event}
      BY <1>3, CommitAddsOne
    <3> QED
      BY <1>3, <3>1 DEF FreshOrOutdated
  <2>1. /\ job[v].version \in Nat /\ proposal.version \in Nat /\ job[w].version \in Nat
        /\ job[v].event \in Event /\ job[w].event \in Event
        /\ proposal'.version \in Nat
    BY StepTyped DEF TypeOK, Job
  <2>2. /\ Allowed(job[w].event, job[w].version)
        /\ job[w].event.from = proposal.state /\ job[w].event.to = proposal'.state
    BY <1>3, CommitIsValidated
  <2>3. /\ Allowed(job[v].event, job[v].version)
        /\ job[v].event.from = job[v].state /\ job[v].version <= proposal.version
    BY DEF ValidatedWorkStaysValid, WorkIsValid
  <2>4. job[v].event.to = job[w].event.to /\ job[v].event.from = job[w].event.from
    BY <2>1, <2>2, <2>3, SameMoveSameState DEF SameMove
  <2>5. proposal'.state # proposal.state /\ job[v].state = proposal.state
    BY <2>2, <2>3, <2>4
  <2>6. \/ proposal'.version = proposal.version + 1
        \/ /\ proposal'.version = proposal.version
           /\ StateRank(proposal'.state) > StateRank(proposal.state)
    BY <1>3, <2>5, CommitMovesForward
  <2>7. \A s \in States : StateRank(s) \in Nat
    BY DEF StateRank
  <2>8. StateRank(proposal.state) \in Nat /\ StateRank(proposal'.state) \in Nat
    BY <2>7, StepTyped DEF TypeOK
  <2> QED
    BY <2>1, <2>3, <2>5, <2>6, <2>8 DEF HasMovedOn
<1> QED
  BY <1>1, <1>2, <1>3, OnlyCommitMoves

\* A validation starts fresh, because it has looked for its key in the log.
LEMMA AllStayFreshOrOutdated ==
  ASSUME TypeOK, ValidatedWorkStaysValid, \A w \in Workers : FreshOrOutdated(w), [Next]_vars
  PROVE  \A w \in Workers : FreshOrOutdated(w)'
<1>0. job \in [Workers -> Job] /\ job' \in [Workers -> Job]
  BY StepTyped DEF TypeOK
<1>1. ASSUME NEW v \in Workers, job'[v] = job[v] PROVE FreshOrOutdated(v)'
  BY <1>1, OthersStayFreshOrOutdated
<1>2. ASSUME NEW v \in Workers, job'[v].pc \in {"idle", "loaded"} PROVE FreshOrOutdated(v)'
  BY <1>2 DEF FreshOrOutdated
<1>3. CASE UNCHANGED vars
  BY <1>1, <1>3 DEF vars
<1>4. ASSUME NEW w \in Workers, Load(w) \/ Finish(w) PROVE \A v \in Workers : FreshOrOutdated(v)'
  <2>1. \A v \in Workers \ {w} : job'[v] = job[v]
    BY <1>0, <1>4 DEF Load, Finish
  <2>2. CASE Finish(w)
    BY <1>0, <1>1, <1>2, <2>1, <2>2 DEF Finish, Idle
  <2>3. CASE Load(w)
    <3>1. job'[w].pc = "loaded"
      BY <1>0, <2>3 DEF Load, Idle
    <3> QED
      BY <1>1, <1>2, <2>1, <3>1
  <2> QED
    BY <1>4, <2>2, <2>3
<1>5. ASSUME NEW w \in Workers, NEW pc \in {"insert", "commit"}, NEW e \in Event,
             SoundStaging(w, pc, e)
      PROVE  \A v \in Workers : FreshOrOutdated(v)'
  <2>1. /\ job'[w] = [job[w] EXCEPT !.pc = pc, !.event = Completed(w, e)]
        /\ \A v \in Workers \ {w} : job'[v] = job[v]
        /\ events' = events
    BY <1>0, <1>5 DEF SoundStaging, Stage, Completed
  <2>2. job'[w].event = Completed(w, e) /\ Log' = Log
    BY <1>0, <2>1 DEF Job, Log
  <2>3. FreshOrOutdated(w)'
    BY <1>5, <2>2 DEF SoundStaging, MovesUnderNewKey, FreshOrOutdated, SameMove
  <2> QED
    BY <1>1, <2>1, <2>3
<1>6. ASSUME NEW w \in Workers, InsertVersion(w), job' = [job EXCEPT ![w].pc = "commit"]
      PROVE  \A v \in Workers : FreshOrOutdated(v)'
  <2>1. /\ job'[w].event = job[w].event /\ job'[w].version = job[w].version
        /\ job'[w].state = job[w].state
        /\ \A v \in Workers \ {w} : job'[v] = job[v]
    BY <1>0, <1>6 DEF Job
  <2>2. proposal' = proposal /\ Log' = Log /\ job[w].pc = "insert"
    BY <1>6 DEF InsertVersion, Log
  <2>3. FreshOrOutdated(w)'
    BY <2>1, <2>2 DEF FreshOrOutdated, HasMovedOn
  <2> QED
    BY <1>1, <2>1, <2>3
<1> QED
  BY <1>3, <1>4, <1>5, <1>6, StepKinds DEF Ends, InsertVersion, Commit

\* A command that commits has not been anticipated: the compare-and-set would
\* have refused it.
LEMMA RetriesStayOutdated ==
  ASSUME TypeOK, ValidatedWorkStaysValid, RetriesAreOutdated, [Next]_vars
  PROVE  RetriesAreOutdated'
<1>1. CASE UNCHANGED events
  <2>1. KeyedMoveHappensOnce' /\ KeyedEventsAreAllowed'
    BY <1>1 DEF RetriesAreOutdated, KeyedMoveHappensOnce, KeyedEventsAreAllowed, Log
  <2> QED
    BY <2>1, AllStayFreshOrOutdated DEF RetriesAreOutdated
<1>2. ASSUME NEW w \in Workers, Commit(w) 
      PROVE  KeyedMoveHappensOnce' /\ KeyedEventsAreAllowed'
  <2> DEFINE n == Len(events)
             e == job[w].event
  <2>1. /\ n \in Nat /\ DOMAIN events = 1..n /\ DOMAIN events' = 1..(n + 1)
        /\ \A i \in 1..n : events'[i] = events[i]
        /\ events'[n + 1] = e
    BY <1>2, CommitAddsOne
  <2>2. ~HasMovedOn(w) /\ job[w].pc = "commit"
    <3>1. /\ job[w].pc = "commit" /\ job[w].version = proposal.version
          /\ job[w].event.from = proposal.state
      BY <1>2 DEF Commit, Committable, StillCurrent
    <3>2. job[w].event.from = job[w].state
      BY <3>1 DEF ValidatedWorkStaysValid, WorkIsValid
    <3>3. \A s \in States : StateRank(s) \in Nat
      BY DEF StateRank
    <3>4. job[w].version \in Nat /\ StateRank(proposal.state) \in Nat
      BY <3>3 DEF TypeOK, Job
    <3> QED
      BY <3>1, <3>2, <3>4 DEF HasMovedOn
  <2>3. e.key = NoKey \/ e.to = e.from \/ \A i \in 1..n : ~SameMove(events[i], e)
    BY <2>1, <2>2 DEF RetriesAreOutdated, FreshOrOutdated, Log
  <2>4. ASSUME NEW i \in 1..n, SameMove(events[i], e), e.key # NoKey
        PROVE  events[i].to = e.to
    <3>1. PICK m \in Nat : Allowed(events[i], m)
      BY <2>1, <2>4 DEF RetriesAreOutdated, KeyedEventsAreAllowed, Log, SameMove
    <3>2. events[i] \in Event /\ e \in Event /\ job[w].version \in Nat
      BY <2>1 DEF TypeOK, Job
    <3>3. Allowed(e, job[w].version)
      BY <1>2, CommitIsValidated
    <3> QED
      BY <2>4, <3>1, <3>2, <3>3, SameMoveSameState
  <2>5. ASSUME NEW i \in 1..(n + 1), NEW j \in 1..(n + 1), SameMove(events'[i], events'[j]),
               events'[i].key # NoKey, events'[i].from # events'[i].to
        PROVE  i = j
    <3>1. CASE i \in 1..n /\ j \in 1..n
      BY <2>1, <2>5, <3>1 DEF RetriesAreOutdated, KeyedMoveHappensOnce, SameMove
    <3>2. CASE i = n + 1 /\ j \in 1..n
      BY <2>1, <2>3, <2>5, <3>2 DEF SameMove
    <3>3. CASE i \in 1..n /\ j = n + 1
      BY <2>1, <2>3, <2>4, <2>5, <3>3 DEF SameMove
    <3> QED
      BY <2>1, <3>1, <3>2, <3>3
  <2>6. KeyedEventsAreAllowed'
    <3>1. Log' = Log \cup {e} /\ Allowed(e, job[w].version) /\ job[w].version \in Nat
      BY <1>2, CommitAddsOne, CommitIsValidated DEF TypeOK, Job
    <3> QED
      BY <3>1 DEF RetriesAreOutdated, KeyedEventsAreAllowed
  <2> QED
    BY <2>1, <2>5, <2>6 DEF KeyedMoveHappensOnce, SameMove
<1> QED
  BY <1>1, <1>2, OnlyCommitMoves, AllStayFreshOrOutdated DEF RetriesAreOutdated

\* Of concurrent retries of one state-changing command under one key at most one
\* takes effect, whatever crashes, conflicts and other commands come in between.
THEOREM KeyedMovesHappenOnce == Spec => []KeyedMoveHappensOnce
<1>1. ASSUME Init PROVE RetriesAreOutdated
  <2>1. /\ DOMAIN events = {1} /\ Log = {CreatedEvent} /\ CreatedEvent.key = NoKey
        /\ \A w \in Workers : job[w].pc = "idle"
    BY <1>1 DEF Init, Idle, Log, CreatedEvent, NoEvent
  <2> QED
    BY <2>1 DEF RetriesAreOutdated, KeyedMoveHappensOnce, KeyedEventsAreAllowed, FreshOrOutdated
<1>2. TypeOK /\ ValidatedWorkStaysValid /\ RetriesAreOutdated /\ [Next]_vars =>
        RetriesAreOutdated'
  BY RetriesStayOutdated
<1>3. RetriesAreOutdated => KeyedMoveHappensOnce
  BY DEF RetriesAreOutdated
<1> QED
  BY <1>1, <1>2, <1>3, TypeCorrect, ValidatedWorkAlwaysValid, PTL DEF Spec

-----------------------------------------------------------------------------
(* The commands implement the atomic workflow.                             *)

Summary(e) == [type |-> e.type, from |-> e.from, to |-> e.to]

\* The abstract history after a commit.
LEMMA HistoryAfterCommit ==
  ASSUME TypeOK, NEW w \in Workers, Commit(w)
  PROVE  HistoryEntries' = Append(HistoryEntries, Summary(job[w].event))
<1> DEFINE n == Len(events)
           e == job[w].event
<1>1. /\ n \in Nat /\ DOMAIN events = 1..n /\ DOMAIN events' = 1..(n + 1)
      /\ \A i \in 1..n : events'[i] = events[i]
      /\ events'[n + 1] = e
  BY LogAfterCommit, StepTyped DEF TypeOK, Next, Step
<1> HIDE DEF n, e
<1> DEFINE S == {Summary(f) : f \in Event}
<1>2. /\ HistoryEntries = [i \in 1..n |-> Summary(events[i])]
      /\ HistoryEntries' = [i \in 1..(n + 1) |-> Summary(events'[i])]
  BY <1>1 DEF HistoryEntries, Summary
<1>3. /\ \A i \in 1..n : Summary(events[i]) \in S
      /\ Summary(e) \in S
  BY <1>1 DEF TypeOK, Job, e
<1> HIDE DEF S
<1>4. HistoryEntries \in Seq(S) /\ Len(HistoryEntries) = n
  BY <1>1, <1>2, <1>3
<1>5. /\ Append(HistoryEntries, Summary(e)) \in Seq(S)
      /\ Len(Append(HistoryEntries, Summary(e))) = n + 1
      /\ \A i \in 1..n : Append(HistoryEntries, Summary(e))[i] = HistoryEntries[i]
      /\ Append(HistoryEntries, Summary(e))[n + 1] = Summary(e)
  BY <1>3, <1>4, AppendProperties
<1>6. HistoryEntries' \in Seq(S) /\ Len(HistoryEntries') = n + 1
  BY <1>1, <1>2, <1>3
<1>7. \A i \in 1..(n + 1) :
        HistoryEntries'[i] = Append(HistoryEntries, Summary(e))[i]
  BY <1>1, <1>2, <1>5
<1> QED
  BY <1>1, <1>5, <1>6, <1>7, SeqEqual DEF e

\* The instance speaks of the same tables.
LEMMA SameTables ==
  /\ Workflow!resolve_transition_state = resolve_transition_state
  /\ Workflow!resolve_approval_transition = resolve_approval_transition
  /\ Workflow!EXECUTION_UPDATE_EVENT_MAP = EXECUTION_UPDATE_EVENT_MAP
  /\ Workflow!TERMINAL_STATES = TERMINAL_STATES
<1>1. /\ Workflow!TRANSITION_MAP = TRANSITION_MAP
      /\ Workflow!APPROVAL_TRANSITION_RULES = APPROVAL_TRANSITION_RULES
      /\ Workflow!States = States
      /\ Workflow!TERMINAL_STATES = TERMINAL_STATES
  BY DEF Workflow!TRANSITION_MAP, TRANSITION_MAP, Workflow!APPROVAL_TRANSITION_RULES,
         APPROVAL_TRANSITION_RULES, Workflow!States, States, Workflow!TERMINAL_STATES,
         TERMINAL_STATES
<1>2. Workflow!EXECUTION_UPDATE_EVENT_MAP = EXECUTION_UPDATE_EVENT_MAP
  BY DEF Workflow!EXECUTION_UPDATE_EVENT_MAP, EXECUTION_UPDATE_EVENT_MAP
<1> QED
  BY <1>1, <1>2 DEF Workflow!resolve_transition_state, resolve_transition_state,
                    Workflow!resolve_approval_transition, resolve_approval_transition

\* A commit is one atomic step of the abstract workflow.
LEMMA CommitImplementsWorkflow ==
  ASSUME TypeOK, ValidatedWorkStaysValid, NEW w \in Workers, Commit(w)
  PROVE  Workflow!Next
<1> DEFINE e == job[w].event
<1>1. /\ e \in Event /\ Allowed(e, job[w].version)
      /\ e.command = "update" => \E h \in Log : AnswersHandoff(e, h)
  BY DEF TypeOK, Job, Commit, ValidatedWorkStaysValid, WorkIsValid
<1>2. /\ proposal.state = e.from /\ job[w].version = proposal.version
      /\ proposal'.state = e.to /\ proposal'.version = NextVersion(w)
  BY DEF Commit, Committable, StillCurrent
<1>3. HistoryEntries' = Append(HistoryEntries, Summary(e))
  BY HistoryAfterCommit
<1>4. Workflow!Record(e.type, e.to)
  BY <1>2, <1>3 DEF Workflow!Record, Workflow!Entry, Summary
<1>5. e.type # "NEW_VERSION_CREATED" => UNCHANGED proposal.version
  BY <1>2 DEF NextVersion
<1> HIDE DEF e
<1>6. CASE e.command \in {"transition", "approval", "handoff"}
  <2>1. <<e.from, e.type, e.to>> \in resolve_transition_state \cup resolve_approval_transition
    BY <1>1, <1>6 DEF Allowed, resolve_transition_state, TRANSITION_MAP
  <2>2. e.type # "NEW_VERSION_CREATED"
    BY <2>1 DEF resolve_transition_state, TRANSITION_MAP, resolve_approval_transition,
                APPROVAL_TRANSITION_RULES
  <2>3. \E edge \in resolve_transition_state \cup resolve_approval_transition :
          proposal.state = edge[1] /\ Workflow!Record(edge[2], edge[3])
    BY <1>2, <1>4, <2>1 DEF Workflow!Record
  <2> QED
    BY <1>5, <2>2, <2>3, SameTables DEF Workflow!Next, Workflow!Advance
<1>7. CASE e.command = "update"
  <2>1. <<e.type, e.to>> \in EXECUTION_UPDATE_EVENT_MAP /\ e.from \notin TERMINAL_STATES
    BY <1>1, <1>7 DEF Allowed
  <2>2. e.type # "NEW_VERSION_CREATED"
    BY <2>1 DEF EXECUTION_UPDATE_EVENT_MAP
  <2>3. \E i \in DOMAIN HistoryEntries : HistoryEntries[i].type = "EXECUTION_REQUESTED"
    BY <1>1, <1>7 DEF HistoryEntries, Log, AnswersHandoff
  <2>4. \E outcome \in EXECUTION_UPDATE_EVENT_MAP : Workflow!Record(outcome[1], outcome[2])
    BY <1>4, <2>1 DEF Workflow!Record
  <2> QED
    BY <1>2, <1>5, <2>1, <2>2, <2>3, <2>4, SameTables
       DEF Workflow!Next, Workflow!ExecutionUpdate
<1>8. CASE e.command \in {"report", "narrative"}
  <2>1. e.to = e.from /\ e.type \in {"REPORT_REQUESTED", "NARRATIVE_REVIEWED"}
    BY <1>1, <1>8 DEF Allowed
  <2> QED
    BY <1>2, <1>4, <1>5, <2>1 DEF Workflow!Next, Workflow!Annotate, Workflow!Record
<1>9. CASE e.command = "version"
  <2>1. e.type = "NEW_VERSION_CREATED" /\ e.to = "DRAFT" /\ e.from \notin TERMINAL_STATES
    BY <1>1, <1>9 DEF Allowed
  <2>2. proposal'.version = proposal.version + 1
    BY <1>2, <2>1 DEF NextVersion, e
  <2> QED
    BY <1>2, <1>4, <2>1, <2>2, SameTables DEF Workflow!Next, Workflow!Redraft, Workflow!Record
<1> QED
  BY <1>1, <1>6, <1>7, <1>8, <1>9 DEF Allowed

\* Run by interleaved threads in several transactions each, the commands
\* implement the workflow in which every command is one atomic step.
THEOREM LifecycleImplementsWorkflow == Spec => ImplementsWorkflow
<1>1. ASSUME Init PROVE Workflow!Init
  <2>1. DOMAIN events = {1} /\ events = <<CreatedEvent>>
    BY <1>1 DEF Init
  <2>2. Summary(CreatedEvent) = [type |-> "CREATED", from |-> "NONE", to |-> "DRAFT"]
    BY DEF Summary, CreatedEvent, NoEvent
  <2>3. HistoryEntries = [i \in {1} |-> Summary(CreatedEvent)]
    BY <2>1 DEF HistoryEntries, Summary
  <2>4. HistoryEntries = <<[type |-> "CREATED", from |-> "NONE", to |-> "DRAFT"]>>
    BY <2>2, <2>3
  <2> QED
    BY <1>1, <2>4 DEF Init, Workflow!Init, Workflow!Entry
<1>2. TypeOK /\ ValidatedWorkStaysValid /\ [Next]_vars =>
        [Workflow!Next]_(Workflow!workflowVars)
  <2>1. UNCHANGED <<proposal, events>> => UNCHANGED Workflow!workflowVars
    BY DEF Workflow!workflowVars, HistoryEntries
  <2> QED
    BY <2>1, OnlyCommitMoves, CommitImplementsWorkflow
<1> QED
  BY <1>1, <1>2, TypeCorrect, ValidatedWorkAlwaysValid, PTL
     DEF Spec, ImplementsWorkflow, Workflow!Spec
=============================================================================
