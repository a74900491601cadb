--------------------------- MODULE WorkspaceSession ---------------------------
(***************************************************************************)
(* One advisory workspace under concurrent requests, and its handoff to    *)
(* the proposal lifecycle.                                                 *)
(*                                                                         *)
(* Every operation reads the session, changes its copy and writes the      *)
(* whole document back: get is two SELECTs (the session row, then the      *)
(* saved-version rows), save is one transaction that overwrites the row,   *)
(* deletes the saved-version rows and inserts those of the copy.  Nothing  *)
(* compares the copy with what is stored.  A handoff commits a proposal or *)
(* a version first and writes the link into the session afterwards.        *)
(*                                                                         *)
(* Abstractions: a draft is a model value, which stands for its hash and,  *)
(* the input being stateless, for the evaluation request built from it;    *)
(* the result and the summary of an evaluation are the draft evaluated;    *)
(* a proposal is the sequence of drafts its versions were made from.  The  *)
(* two transactions of a new version are one here (see ProposalLifecycle). *)
(***************************************************************************)
EXTENDS Naturals, Sequences

CONSTANTS
  Threads,      \* request threads
  Drafts,       \* draft states an advisor may produce
  Keys,         \* Idempotency-Key values of handoffs
  None,         \* an absent value
  MaxRequests,  \* bound: requests started
  MaxRows       \* bound: saved versions, proposals, versions of a proposal

ASSUME NoneAssumption == None \notin Drafts \cup Keys
ASSUME BoundsAssumption == MaxRequests \in Nat /\ MaxRows \in Nat

VARIABLES
  session,    \* advisory_workspace_sessions.session_json
  saved,      \* advisory_workspace_saved_versions, by version_no
  proposals,  \* the proposals made from this workspace
  keys,       \* proposal_idempotency
  job,        \* per thread: the request it runs and the copy it holds
  requests    \* requests started

vars == <<session, saved, proposals, keys, job, requests>>

-----------------------------------------------------------------------------
\* Records

Lineage == [proposal : Nat, version : Nat, draft : Drafts]
Evidence == [draft : Drafts, request : Drafts \cup {None}, handoff : Lineage \cup {None}]
Link == [proposal : Nat, version : Nat]
Session == [draft : Drafts, result : Drafts \cup {None}, evidence : Evidence \cup {None},
            link : Link \cup {None}]
SavedVersion == [id : Threads \X Nat, no : Nat, draft : Drafts, result : Drafts \cup {None},
                 evidence : Evidence]

Operations == {"edit", "evaluate", "save", "resume", "handoff"}

Job == [pc : {"idle", "reload", "reading", "loaded", "absent", "answered"},
        op : Operations, key : Keys \cup {None}, session : Session \cup {None},
        saved : Seq(SavedVersion), answer : Link \cup {None}, fresh : BOOLEAN]

ASSUME RowsAssumption == None \notin Session \cup Evidence \cup Link

build_replay_evidence(draft, request) == [draft |-> draft, request |-> request, handoff |-> None]

NewSession(draft) == [draft |-> draft, result |-> None, evidence |-> None, link |-> None]

Idle == [pc |-> "idle", op |-> "edit", key |-> None, session |-> None, saved |-> <<>>,
         answer |-> None, fresh |-> TRUE]

-----------------------------------------------------------------------------
(* Faults: the checks and updates of the code with a plausible bug.        *)

InsertMissing(stored, rows) ==
  rows \o SelectSeq(stored, LAMBDA r : \A i \in DOMAIN rows : rows[i].id # r.id)

ResumeDraftAndResult(copy, row) ==
  [copy EXCEPT !.draft = row.draft, !.result = row.result]

AnyRecord(record, draft) == record # None

ResumeAsNewSession(copy, row) ==
  [NewSession(row.draft) EXCEPT !.result = row.result, !.evidence = row.evidence]

-----------------------------------------------------------------------------
\* create_session saves a session without evaluation, saved version or link.
Init ==
  /\ session \in {NewSession(d) : d \in Drafts}
  /\ job = [t \in Threads |-> Idle]
  /\ saved = <<>>
  /\ proposals = <<>>
  /\ keys = [k \in Keys |-> None]
  /\ requests = 0

(***************************************************************************)
(* get: the session row first, then the rows of its saved versions.        *)
(***************************************************************************)
Get(t) ==
  /\ job[t].pc = "idle"
  /\ requests < MaxRequests
  /\ requests' = requests + 1
  /\ \E op \in Operations, key \in Keys \cup {None} :
       /\ op # "handoff" => key = None
       /\ job' = [job EXCEPT ![t] = [Idle EXCEPT
                    !.pc = "reading", !.op = op, !.key = key, !.session = session]]
  /\ UNCHANGED <<session, saved, proposals, keys>>

\* An edit was saved; reevaluate_session reads the workspace again.
GetAgain(t) ==
  /\ job[t].pc = "reload"
  /\ job' = [job EXCEPT ![t] = [Idle EXCEPT
               !.pc = "reading", !.op = "evaluate", !.session = session]]
  /\ UNCHANGED <<session, saved, proposals, keys, requests>>

GetSavedVersions(t) ==
  /\ job[t].pc = "reading"
  /\ job' = [job EXCEPT ![t].pc = "loaded", ![t].saved = saved]
  /\ UNCHANGED <<session, saved, proposals, keys, requests>>

\* DELETE and INSERT: of what is stored nothing stays.
ReplaceSavedVersions(stored, rows) == rows

(***************************************************************************)
(* save: the copy replaces the row and the saved versions; the copies of   *)
(* the other threads are stale from here on.                               *)
(***************************************************************************)
Save(t, copy, rows, next) ==
  /\ session' = copy
  /\ saved' = ReplaceSavedVersions(saved, rows)
  /\ job' = [u \in Threads |-> IF u = t THEN next ELSE [job[u] EXCEPT !.fresh = FALSE]]
  /\ UNCHANGED <<proposals, keys, requests>>

Loaded(t, op) == job[t].pc = "loaded" /\ job[t].op = op

\* apply_draft_action, first half: any of the actions; an update can restore an
\* earlier draft.
SaveDraft(t) ==
  /\ Loaded(t, "edit")
  /\ \E d \in Drafts :
       Save(t, [job[t].session EXCEPT !.draft = d], job[t].saved,
            [Idle EXCEPT !.pc = "reload"])

\* The evaluation of the copy's draft, with the evidence that describes it.
Evaluated(copy) ==
  [copy EXCEPT !.result = copy.draft,
               !.evidence = build_replay_evidence(copy.draft, copy.draft)]

SaveEvaluation(t) ==
  /\ Loaded(t, "evaluate")
  /\ Save(t, Evaluated(job[t].session), job[t].saved, Idle)

build_saved_workspace_version(copy, rows, id) ==
  [id |-> id, no |-> Len(rows) + 1, draft |-> copy.draft, result |-> copy.result,
   evidence |-> IF copy.evidence # None THEN copy.evidence
                                        ELSE build_replay_evidence(copy.draft, None)]

\* The id is new: a thread saves at most once before requests moves on.
SaveVersion(t) ==
  /\ Loaded(t, "save")
  /\ Len(job[t].saved) < MaxRows
  /\ Save(t, job[t].session,
          Append(job[t].saved,
                 build_saved_workspace_version(job[t].session, job[t].saved, <<t, requests>>)),
          Idle)

apply_saved_workspace_version(copy, row) ==
  [copy EXCEPT !.draft = row.draft, !.result = row.result, !.evidence = row.evidence]

ResumeVersion(t) ==
  /\ Loaded(t, "resume")
  /\ \E i \in DOMAIN job[t].saved :
       Save(t, apply_saved_workspace_version(job[t].session, job[t].saved[i]),
            job[t].saved, Idle)

-----------------------------------------------------------------------------
(* Handoff.                                                                *)

SameRequest(record, draft) == record # None /\ record.draft = draft

Answer(t, proposal, version) ==
  job' = [job EXCEPT ![t].pc = "answered",
                     ![t].answer = [proposal |-> proposal, version |-> version]]

\* A handoff of an unlinked session asks for the record of its key.  Another
\* request under the key is a conflict, the same one gets the recorded proposal.
LookUpKey(t) ==
  /\ Loaded(t, "handoff")
  /\ job[t].session.link = None
  /\ job[t].key # None
  /\ LET record == keys[job[t].key] IN
     \/ /\ record = None
        /\ job' = [job EXCEPT ![t].pc = "absent"]
     \/ /\ SameRequest(record, job[t].session.draft)
        /\ Answer(t, record.proposal, 1)
  /\ UNCHANGED <<session, saved, proposals, keys, requests>>

\* One transaction inserts the proposal and its first version and writes the
\* record of the key over the one that may be there by now.
CommitProposal(t) ==
  /\ job[t].pc = "absent"
  /\ Len(proposals) < MaxRows
  /\ proposals' = Append(proposals, <<job[t].session.draft>>)
  /\ keys' = [keys EXCEPT ![job[t].key] =
                [draft |-> job[t].session.draft, proposal |-> Len(proposals) + 1]]
  /\ Answer(t, Len(proposals) + 1, 1)
  /\ UNCHANGED <<session, saved, requests>>

\* A linked session makes the next version, if the link is at the current one.
CommitVersion(t) ==
  /\ Loaded(t, "handoff")
  /\ job[t].session.link # None
  /\ LET p == job[t].session.link.proposal
         v == job[t].session.link.version IN
     /\ v = Len(proposals[p])
     /\ v < MaxRows
     /\ proposals' = [proposals EXCEPT ![p] = Append(@, job[t].session.draft)]
     /\ Answer(t, p, v + 1)
  /\ UNCHANGED <<session, saved, keys, requests>>

find_matching_saved_version(copy, rows) ==
  LET matches == {i \in DOMAIN rows :
                    /\ rows[i].evidence.draft = copy.draft
                    /\ \/ copy.evidence = None
                       \/ copy.evidence.request \in {None, rows[i].evidence.request}} IN
  {i \in matches : \A j \in matches : j <= i}

HandoffLineage(t) ==
  [proposal |-> job[t].answer.proposal, version |-> job[t].answer.version,
   draft |-> job[t].session.draft]

\* The session evidence and the latest saved version that matches the draft take
\* the lineage of the handoff.
SaveLink(t) ==
  LET copy == job[t].session
      rows == job[t].saved
      named == find_matching_saved_version(copy, rows) IN
  /\ job[t].pc = "answered"
  /\ Save(t,
       [copy EXCEPT !.link = job[t].answer,
                    !.evidence = IF @ = None THEN None
                                 ELSE [@ EXCEPT !.handoff = HandoffLineage(t)]],
       [i \in DOMAIN rows |-> IF i \in named
                              THEN [rows[i] EXCEPT !.evidence.handoff = HandoffLineage(t)]
                              ELSE rows[i]],
       Idle)

-----------------------------------------------------------------------------
\* The evaluation is unavailable, a check refuses, or the process stops.
Fail(t) ==
  /\ job[t].pc # "idle"
  /\ job' = [job EXCEPT ![t] = Idle]
  /\ UNCHANGED <<session, saved, proposals, keys, requests>>

\* Another client of the lifecycle adds a version to a proposal.
OtherVersion ==
  /\ requests < MaxRequests
  /\ requests' = requests + 1
  /\ \E p \in DOMAIN proposals, d \in Drafts :
       /\ Len(proposals[p]) < MaxRows
       /\ proposals' = [proposals EXCEPT ![p] = Append(@, d)]
  /\ UNCHANGED <<session, saved, keys, job>>

Next ==
  \/ \E t \in Threads :
       \/ Get(t) \/ GetAgain(t) \/ GetSavedVersions(t)
       \/ SaveDraft(t) \/ SaveEvaluation(t) \/ SaveVersion(t) \/ ResumeVersion(t)
       \/ LookUpKey(t) \/ CommitProposal(t) \/ CommitVersion(t) \/ SaveLink(t)
       \/ Fail(t)
  \/ OtherVersion

Spec == Init /\ [][Next]_vars

-----------------------------------------------------------------------------
(* Properties.                                                             *)

TypeOK ==
  /\ session \in Session
  /\ saved \in Seq(SavedVersion)
  /\ proposals \in Seq(Seq(Drafts))
  /\ keys \in [Keys -> [draft : Drafts, proposal : Nat] \cup {None}]
  /\ job \in [Threads -> Job]
  /\ \A t \in Threads :
       /\ job[t].pc \notin {"idle", "reload"} => job[t].session # None
       /\ job[t].pc = "absent" => job[t].key # None
       /\ job[t].pc = "answered" => job[t].answer # None
  /\ requests \in Nat

\* Whatever saves overwrite each other and however the two SELECTs of a read are
\* torn apart, the stored versions are numbered 1, 2, 3, ... without gap or
\* duplicate, so the UNIQUE (workspace_id, version_no) of the table never
\* rejects the save of save_version.
VersionsAreNumbered == \A i \in DOMAIN saved : saved[i].no = i

\* The evidence a session or a saved version carries is that of the evaluation it
\* shows: a result is stored with the hashes of the draft it was computed from,
\* and no evidence of an evaluation stands without its result.
EvidenceFitsResult ==
  \A w \in {session} \cup {saved[i] : i \in DOMAIN saved} :
    IF w.evidence = None THEN w.result = None
    ELSE /\ w.evidence.request = w.result
         /\ w.result # None => w.evidence.draft = w.result

Lineages ==
  {e.handoff : e \in {w.evidence : w \in {session} \cup {saved[i] : i \in DOMAIN saved}} \ {None}}
    \ {None}

\* The proposal version a stored lineage names was made from the draft the lineage
\* names, over failed, retried and overlapping handoffs under the same key.
LineageIsTrue ==
  \A l \in Lineages :
    /\ l.proposal \in DOMAIN proposals
    /\ l.version \in DOMAIN proposals[l.proposal]
    /\ proposals[l.proposal][l.version] = l.draft

LinkMovesBack ==
  /\ session.link # None
  /\ \/ session'.link = None
     \/ session'.link.proposal # session.link.proposal
     \/ session'.link.version < session.link.version

VersionDisappears ==
  \E i \in DOMAIN saved : i \notin DOMAIN saved' \/ saved'[i].id # saved[i].id

\* A step takes back a link or a saved version only when its thread has read the
\* session before some other save: no operation loses them on its own.
LostOnlyToAStaleCopy ==
  [][LinkMovesBack \/ VersionDisappears
       => \E t \in Threads : job'[t] # job[t] /\ ~job[t].fresh /\ job'[t].fresh]_vars

-----------------------------------------------------------------------------
(* Statements that do not hold; the README says where TLC refutes them.    *)

\* wiki/Advisory-Workspace.md: "first handoff creates a proposal", "later handoffs
\* create new versions".
OneProposalPerWorkspace == Len(proposals) <= 1

\* A saved version that carries the lineage of a handoff holds the draft that was
\* handed off (RFC-0019: "workspace-to-lifecycle handoff preserves evidence
\* continuity").
LineageNamesTheWork ==
  \A i \in DOMAIN saved :
    saved[i].evidence.handoff # None => saved[i].draft = saved[i].evidence.handoff.draft
=============================================================================
