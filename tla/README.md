# Verification of lotus-advise

TLA+ models, TLC runs and TLAPS proofs for lotus-advise, the advisory proposal
service: a FastAPI application that simulates portfolio proposals, keeps them
as versioned aggregates with a workflow, and hands them to execution.  Paths
below are relative to the repository root; `core/` stands for `src/core/`,
`infrastructure/` for `src/infrastructure/`, `integrations/` for `src/integrations/`.

## The system

Every HTTP route is a synchronous function run in a thread pool, in one or more
processes, so requests interleave.  State is in Postgres (the in-memory
repositories are for tests).  A repository call is one transaction; a command
makes several calls, and nothing is locked between them.  What guards a write
against what happened since the read differs from part to part, and that is what
most of these models are about:

| Guard | Where |
| --- | --- |
| conditional update of state and version | lifecycle commands |
| none: the document or row is overwritten | workspace sessions, async operations, copilot runs, simulation keys |
| number of events compared when a copy of the whole store is upserted | policy evaluations, policy catalog |
| unique key, and a comparison of hashes | cockpit acknowledgements, memo creation |
| none: rows are only appended | events of a memo, copilot reviews |
| a lock around one map of the process | idea intake, caches of lotus-core data |

Nothing resumes a command after a crash, except the async operations, which
start-up recovery runs again.

| Part | State it keeps | Operations | Correct when |
| --- | --- | --- | --- |
| Proposal lifecycle commands (`core/proposals`) | none of their own; they read and write the store | transition, approval, execution handoff, execution update, report request, narrative review, new version | concurrent commands behave like atomic ones; terminal states are final; consent precedes execution; updates answer a handoff; retries take effect once |
| Proposal store (`infrastructure/proposals`) | proposals, versions, workflow events, approvals, idempotency records, memos, async operations, cockpit acknowledgements | conditional update, inserts, listings | rows are immutable where promised; a version has its evidence |
| Proposal creation | idempotency record per key | create with lookup and one-transaction insert | one proposal per key |
| Async operations | one row per operation: status, attempts, lease | submit, run, retry, recover at start-up, quarantine | an accepted operation ends; a finished one stays finished; its command runs once |
| Workspace sessions (`core/workspace`) | drafts, saved versions, link to a proposal | edit, evaluate, save, resume, hand off | versions are numbered; evidence and lineage are true; nothing is lost but to a stale copy |
| Policy packs (`core/policy_packs`) | evaluations with their audit log, versions of the packs with theirs | finalize, repair, review, AI evidence, sign off, report; validate, activate | every sign-off, report and activation stands on the log it is stored in |
| Advisory copilot (`core/advisory_copilot`) | runs, reviews, keys | run, refresh, review | a verdict shows on an output made for review, and is on record |
| Advisory memo | memos and events per proposal version | create, review, record or request a package, request a commentary | one memo per version; requests follow an approval |
| Advisor cockpit (`core/advisor_cockpit`) | acknowledgements | acknowledge, project work items | the acknowledgement shown is the one its key stands for |
| Simulation idempotency (`api/services`) | stored result per key | simulate | a conflict is refused |
| Idea intake | in-process ledger of keys with age and size limits | convert an idea into a proposal | a key is forgotten by age or number only |
| Clients of lotus-core | timed caches | resolve a stateful context | data served has a bounded age; what is in use stays |
| Clients of lotus-risk, -performance, -report, -ai | none | HTTP calls | not modelled |
| Advisory simulation, alternatives, artifacts, narrative | none | pure computation | not modelled |
| API, capabilities, demo proof, migrations | none at run time | routing, start-up, reports | start-up recovery only |

`PROJECT.json` lists the same parts with their files, and every hazard of the
code at its line, with the properties that cover it.

How the parts interact: workspace handoff, idea intake and async operations call
the create and version commands of the lifecycle; memo, cockpit, policy packs
and copilot read proposals and versions and write rows of their own; upstream
clients feed the simulation inside create and version; lotus-report and the
execution provider answer outside any transaction, and their answers enter the
lifecycle as payloads of a report request or an execution update.

## Modules

| Module | What it is |
| --- | --- |
| `WorkflowRules` | the rule tables of `core/proposals/workflow_rules.py`, as sets of edges |
| `ProposalWorkflow` | the abstract promise: one atomic, allowed step at a time, one history entry each |
| `ProposalLifecycle` | the commands as the code runs them, on one proposal |
| `OperationPromise` | the abstract promise of an async operation: one step of its life at a time, a counted attempt per start, a final end |
| `AsyncOperations` | async operations as the code runs them: tasks, processes, recovery, the operator |
| `WorkspaceSession` | one workspace: whole documents read in two statements and written back, and the handoff into proposals |
| `PolicyReview` | the abstract promise of an evaluation's audit log: checked and appended at once |
| `PolicyEvaluations` | evaluations as the code runs them: loads and saves of the whole store |
| `PolicyCatalog` | the versions of one policy pack: validation, activation, supersession |
| `CopilotRuns` | runs, refreshes and reviews of copilot drafts |
| `KeyedWrites` | simulations, acknowledgements, memos and memo events: four treatments of a taken key |
| `ProcessMemory` | what a process keeps in memory: the intake ledger and two levels of caches |
| `MC...` | TLC instances: symmetry, the later start of `MCProposalLifecycle`, the constraint of `MCProcessMemory` |
| `...Proofs` | theorems about the component of the same name |

### ProposalLifecycle

A worker is a request thread.  `job[w]` is what its command has in memory; its
`pc` says which repository call is next:

    idle -> loaded -> commit -> idle                    most commands
    idle -> loaded -> insert -> commit -> idle          new version

| Model | Code |
| --- | --- |
| `proposal` | `current_state`, `current_version_no` of the row in `proposal_records` |
| `events` | rows of `proposal_workflow_events`, in commit order; `ListedBefore` is the order in which `list_events` returns them |
| `versions` | number and id of the rows in `proposal_versions` |
| `clock`, event ids | a command takes its time when it starts and a fresh id; one rank stands for both |
| `Load` | `load_proposal_command_read_model` |
| `Stage...` | the rest of each command up to its first write: the log is read, replay, expected state, rules and timestamps are checked against the loaded proposal, and the event is built |
| `Decline` | any exit before the first write (replay, conflict, invalid transition, failed simulation) |
| `InsertVersion` | `create_version`: insert, or ignore an existing row, and compare |
| `Commit`, `Refuse` | `transition_proposal`: conditional update, event, approval, or rollback on a state conflict or a missing related version |
| `Crash` | the process stops between two calls |

Only what the properties tell apart is kept of a payload: its key, its times,
the execution request it names and the version it relates to.  A key used twice
is a replay or a hash conflict, and both end the command without a write, so the
request hash is not modelled.  An approval row is written with its event and
carries the same key, so approvals are the events of approval commands.

Left out of the row: `last_event_at` and the descriptive columns, which no
command reads.  Left out of `Unused`: a caller may put a key into the free-form
reason of a transition.  Updates check the provider's name with the request id;
the two are one value here.

### AsyncOperations

`task[p][o]` is what the thread that runs operation `o` in process `p` has in
memory; its `pc` says which repository call is next:

    none -> queued -> next -> start -> execute -> ... -> succeed | raise | fail

| Model | Code |
| --- | --- |
| `row` | the rows of `proposal_async_operations`: status, `attempt_count`, lease (0 for none), what `error_json` says, rank of `created_at` |
| `made`, `draft` | what the command of an operation has committed, and a version row of it that stands without its event |
| `Submit` | accepting a new submission and adding the background task (`routes_async.py`) |
| `Begin`, `RejectPayload` | `execute_..._async_operation` up to the runner: first read, stored payload resolved or the operation failed |
| `SkipFinished`, `ReadForAttempt`, `Start` | one turn of `run_async_operation_until_terminal`: read, stop checks, claim of the attempt |
| `Look` ... `CommitVersion`, `Decline`, `ExecutorRaises` | the executor: the reads and the transactions of the create or version command, and its two kinds of exception |
| `Persist...` | the outcome, written from the task's copy; after a runtime exception with attempts left the task turns again |
| `StartUp`, `RecoverNext`, `Serve` | `_app_lifespan`: list one batch, run it in order in this thread, serve |
| `Crash`, `StoreFails` | a process stops; a repository call of the runner raises, which ends a background task, or keeps a recovering process from starting |
| `EvaluateQuarantine`, `WriteQuarantine` | `quarantine_controlled_operation`: read and evaluate, then write |

Submissions that repeat an idempotency key or a correlation id find the row
(both are unique) and change nothing, so an operation stands for its key.  The
RETRY decision of the control plane is only computed: nothing schedules it, and
quarantine is a method of the service that no route calls yet.  An operation of
an unknown type cannot be stored by this release and is left out of the
recovery.  `draft` is a version row without its event
(`VersionIsWrittenWithItsEvent`): it makes every later attempt of the operation
raise.

### WorkspaceSession

    idle -> reload -> reading -> loaded -> idle                    all operations
                 handoff: loaded -> absent -> answered -> idle     create
                          loaded -> answered -> idle               replay, new version

| Model | Code |
| --- | --- |
| `session` | `advisory_workspace_sessions.session_json`: draft, evaluation, replay evidence, link to the proposal |
| `saved` | `advisory_workspace_saved_versions`, by number |
| `proposals`, `keys` | what handoffs have committed: the drafts the versions of each proposal were made from, and `proposal_idempotency` |
| `Get`, `GetAgain`, `GetSavedVersions` | `get` of `infrastructure/workspace/postgres.py`: SELECT of the session, SELECT of the saved versions; `GetAgain` is the second `get` of the operations that call it twice |
| `Save` | `save`: overwrite the row, delete the rows of the saved versions, insert those of the copy |
| `SaveDraft`, `SaveEvaluation`, `SaveVersion`, `ResumeVersion` | the operations of `core/workspace/application.py` |
| `LookUpKey`, `CommitProposal`, `CommitVersion`, `SaveLink` | a handoff: the create or version command of the lifecycle, then the link, in the session and in the latest saved version that matches |
| `Fail` | an error or a stopped process anywhere |

`fresh` is a ghost: false once another thread has saved since this one read.
`OtherVersion` is a version made by the routes of the lifecycle, without the
workspace.

### PolicyEvaluations and PolicyCatalog

    idle -> read -> check -> load -> events -> keys -> loaded -> counted -> idle

| Model | Code |
| --- | --- |
| `records`, `log`, `keys` | the three tables of `infrastructure/policy_packs/postgres_state.py`; event ids are positions in the log of an evaluation |
| `ReadRecord`, `CheckSignOff`, `CheckReport`, `CheckAiEvidence` | the reads and checks of a sign-off (`workflow.py`), of a report package (`reporting.py`) and of AI evidence (`ai.py`) before the write |
| `LoadRecords`, `LoadEvents`, `LoadKeys` | `load_snapshot`, three statements that see different commits, and then `from_snapshot` and the change of the copy: replay, finalization (with the repair of a blocked evaluation), append |
| `AttachedTypes` | reviews, sign-offs and reports are copied into the record; the first event and AI evidence are not |
| `CountEvents`, `Save` | `save_snapshot`: the upsert of the first record counts events; everything else, and the commit. An upsert that waited for the row of another save counted before that save's commit |
| `torn`, `waited` | a ghost: a save came between the SELECTs, or the copy began from a record that had already lost events; the records whose upsert waited for the save of another thread |

`PolicyCatalog` has the same shape without the checks before the load: `states`
(`activation_state`), `log`, `keys`; `MayCommand` and `Commanded` are validate and
activate; `IndexAllows` is the unique index on the ACTIVE version of a pack, which
holds after every row and not only at the commit; `overtaken` is its ghost.

### CopilotRuns

| Model | Code |
| --- | --- |
| `runs`, `keys`, `reviews` | `advisory_copilot_runs`, `..._run_idempotency`, `..._reviews` |
| `RunAction`, `ResolveReplay`, `GenerateDraft`, `FindExisting`, `Refresh`, `CheckKey`, `InsertRun` | a run request: look the key up, call lotus-ai, look key and run up again, refresh or insert |
| `ReviewRun`, `RequireReviewable`, `AppendReview`, `UpdateReviewedRun` | a review: read the run, check it, append the review, update the run |

### KeyedWrites

| Model | Code |
| --- | --- |
| `LookUpSimulation`, `SaveSimulation` | `advisory_simulation_service.py`: lookup before, upsert after the simulation |
| `LookUpAcknowledgement`, `SaveAcknowledgement` | `service_acknowledgement.py` and one transaction that rolls back when the key stands for something else |
| `LookUpMemoKey`, `FindMemo`, `SaveMemoKey`, `CreateMemo` | `memo_persistence.py`: key, existing memo, memo with its creation event |
| `require_advisor_use_review`, `FindReplayedEvent`, `AppendEvent` | `memo_event_recording.py`, `memo_external_request_operations.py`: the gate before the external call, the search for a replay after it, the append |

### ProcessMemory

| Model | Code |
| --- | --- |
| `ledger`, `StartIntake`, `Record` | `idea_proposal_intake.py`: the time is read, then under the lock purge, replay or conflict, insert, cap |
| `contexts`, `enrichment`, `get`, `set` | `timed_cache.py`, as `STATEFUL_CONTEXT_CACHE` and `INSTRUMENT_ENRICHMENT_CACHE` |
| `turn` of an entry, `intakes`, `uses` | the order of an `OrderedDict`: appending or moving to the end takes the next turn, 0 is that of an absent entry; `Newest` keeps the entries that as many `popitem(last=False)` would |
| `GetContext`, `FetchSource` | a cached context answers; otherwise portfolio, positions and cash are called for, and the positions name the securities (`stateful_context.py`) |
| `GetEnrichment`, `Call`, `SetEnrichment` | `stateful_context_source_reads.py`: the securities are looked up one by one, what is found is kept, one POST asks for the missing ones, and what it returns is stored one by one |
| `SetContext` | after the call for the taxonomy the context is cached, with the oldest of its records as its `data` |
| `receipts`, `served`, `used` | histories the properties read: intakes, age of what was served, turn and expiry of the last use |

### What is assumed

Each repository call is atomic (one Postgres transaction, committed or rolled
back), except where a model says otherwise: the reads of a session and the loads
of a policy store are several statements that see different commits, and the
upsert of a policy record counts in the snapshot its statement began with.  The
conditional update of the lifecycle holds its row lock until the commit, so the
two statements of `transition_proposal` are one step.  A save of policy
evaluations upserts its records in the order of `generated_at`, a new one last, so
two saves wait for each other at the first record both of them write, which need
not be the first of either (`FirstOf`, `Overtaken`); a deadlock of two saves ends
one of them (`Fail`).  The rest of a save is one step.

Server clocks give distinct, increasing times to commands in the order they
start; commits happen in any order.  Clocks that disagree between hosts are not
modelled.  A call whose commit succeeds and whose answer is lost is not modelled
either: a crash right after the commit has the same effect on the store.

A tick of `AsyncOperations` is the unit in which its leases expire, a tick of
`ProcessMemory` a second, and `now` is the same for all processes.  In
`ProcessMemory` a call of lotus-core with the work after it, and the lookups of one
resolution, take `MaxCall` at most; the code gives each phase of a call a timeout
and has no limit for the whole.

The keys of the ledger and of the caches are finitely many (`KeysAssumption`): a run
of the service sees finitely many, and what is counted among them has a number.

A content-addressed row (a memo, a copilot run, a policy evaluation) is identified
with the request that determines its hash: hashes do not collide.

## Runs

| Run | States, time | Question |
| --- | --- | --- |
| `races` | 0.49 M, 35 s | Do commands of two threads on a new proposal, provider updates among them, with crashes, keep every lifecycle guarantee and implement the atomic workflow? |
| `payloads` | 0.35 M, 20 s | From a proposal that waits for consent or is execution-ready, with retries under one key and values the callers choose (foreign times, own request ids, explicit related versions): does an update still answer a handoff before it, and do retries move the state once? |
| `single` | 0.21 M, 10 s | One process, a create and a pinned version operation, recovery batches of one, three faults: does a task own the row it writes, is the budget kept over restarts, does the command take effect once, why is an operation ever left behind, and do the rows implement `OperationPromise`? |
| `fleet` | 0.88 M, 30 s | Two processes and an operator on the row of one version operation that names its expected version: what is still true of every stored row when copies are stale, and is there one version? |
| `progress` | 0.08 M, 30 s | Under fairness, two operations and batches of one: does an accepted operation end, and does a restart take up its batch? |
| `overlap` | - | One sentence of a document, refuted; see Findings. |
| `drafting` | 1.2 M, 25 s | Two threads on one workspace: what survives torn reads, lost updates and repeated handoffs, and who takes something back? |
| `signoff` | 3.4 M, 80 s | Two threads finalize, repair, review, sign off, report and ask for AI evidence of two evaluations, one blocked and one with a conflict: is the stored log that of an atomic review? |
| `catalog` | 3.2 M, 90 s | Two threads validate and activate two versions under four eyes: what do whole copies, torn and stale, leave of the log and of the states? |
| `copilot` | 2.8 M, 60 s | Two threads run, refresh and review two drafts: what does a verdict stand on? |
| `keyed` | 3.5 M, 70 s | Two threads race keyed writes on two targets: what does each of the four treatments of a taken key guarantee? |
| `memory` | 4.0 M, 130 s | Two threads use the intake ledger and the caches of a process that restarts, and contexts find some of their records and call for the rest: what is forgotten, how old is what is served, what stays? |

Bounds.  Two workers: every race in this code is between a command and one other
(the check-then-commit pairs, or the two transactions of a command and whatever
comes between them); a third command interferes as a later command of the other
worker.  `MaxCommands` bounds the commands started: seven
from creation reach execution-ready along the shortest path, a handoff and an
update, and leave room for a racing command; `payloads` starts where consent is
waited for or given, with the history `LaterInit` spells out.  One key, one update
id and one foreign time are enough to collide; `races` has no keys, which are the
question of `payloads`.  Symmetry is in threads and in values that only compare
for equality.  Deadlock is off because the bounds stop the models.

For the async operations: `MaxAttempts` is 2 (the service's default is 3), which
has a first attempt, a retry and an exhausted budget.  `MaxTime` lets a lease of
one tick begin, run out and be followed by another.  `MaxFaults` (crashes and
failing calls together) allows a fault in the first run, one in the recovery and
one more.  `runs`, the history of claims, saturates one above the budget, where
`RetryBudget` is already violated.  The recovery is written for one process (the
container starts one); `fleet` and `overlap` have two, which suffices for every
pair of a stale and a fresh copy.  `single` and `progress` have two operations and
batches of one, so a recovery leaves one of them.

For the others: `drafting` starts five requests (two edits, an evaluation, a saved
version and a handoff, in any order and overlap); the rest start four, which is a
request that reads, two that change what it has read, and one that meets what it
leaves.  `signoff` has three events an evaluation, enough for a finalization, a
review and a sign-off; a larger instance with two keys (11 M states) was checked
once, as its properties had been refuted only there.  `memory` has one security
more than the cache has places and a second more on the clock than the bound of
`ServedDataIsRecent`, which is reached: by a record that a first request read, a
second one found while it called for another, and a third one met in the context.
Its constraint `Bounds` leaves out lives of a process that use both the ledger and
the caches, which share nothing but the clock; a fourth request once there is a
resolution; and the use of a third security later than the first two seconds, as
evictions depend on expiry and turns and not on the time of day.  What the proofs below establish does not depend on bounds.

Fairness in `progress`: threads run (`TaskStep`), a stopped process is started
again (`StartUp`), its recovery goes on (`RecoverNext`, `Serve`), and time
passes.  `ExecutorRaises` and `Decline` are among the steps of a task, so an
executor may fail every time, but it does not hang: its upstream calls have
timeouts.  Clients, operators and faults are not fair.

No liveness is claimed of the other parts: the service never retries a request, so
it may end without effect at any point, and no fairness is assumed.

### Properties worth reading first

* `ImplementsWorkflow`: the interleaved multi-transaction commands implement the
  atomic workflow of `ProposalWorkflow`.
* `LifecycleMovesForward`: a (state, version) pair that was left never comes back.
  This is why comparing the pair in the update is enough; it would fail with a
  rule that leads back to an earlier state of the same version.
* `ValidatedWorkStaysValid`: what a command checked on a stale read is still true
  when it writes.
* `EveryVersionHasItsEvidence`, `VersionRowsAreContiguous`: the two transactions
  of a version command never mix up rows of different commands.
* `UpdateAnswersAHandoff`, `ConsentPrecedesExecution`, `KeyedMoveHappensOnce`: what
  the conditional update adds to checks made on a log read before the commit.
* `OwnerHoldsTheRow`, `KeepsThePromise`: why unconditional writes are safe with
  one process, and what is lost with two (`AttemptsStayCounted`,
  `SuccessHasItsEffect`).
* `RestartResumes`: what a stopped process leaves behind is taken up by the next
  start if it is in the batch of the oldest; without that premise it is false, and
  what is left out is what `DriftHasACause` names.
* `DriftHasACause`: the three ways an accepted operation is left to the next
  restart; with `AcceptedEndsOrDrifts` it says that there is no fourth.
* `ImplementsReview`: sign-offs are checked on loads that others overtake, and yet
  the log is one an atomic review writes: an event has its place in the log it was
  appended to, or the save is refused.
* `ForgetsOnlyWhenOvertaken`, `CommandsAreAtomic`: exactly when the count of events
  in an upsert protects the row it is attached to, and when it does not.
* `EvidenceFitsResult`, `LineageIsTrue`, `LostOnlyToAStaleCopy`: a workspace may lose
  work to a stale copy, but it never shows a result with another draft's evidence.
* `VerdictIsOnReviewableOutput`: a late refresh may replace a verdict, never slip an
  unreviewable output under one.
* `RequestsFollowApproval`: a package or a commentary is requested on reviews listed
  before an external call, and yet its event follows an approval, and every event the
  creation of its memo.
* `MemoIsCreatedOnce`, `AcknowledgementIsKeyed`: what survives of "one key, one
  result" where it does not hold as such.
* `ForgetsByAgeOrNumber`, `ServedDataIsRecent`, `RecentlyUsedStays`: what the bounded
  maps guarantee although clocks are read before locks, by intakes and by lookups,
  and calls overlap.  What is served may be two lifetimes and five calls old: a record
  found in its cache waits for the call for the others and for the taxonomy before
  the context is cached.

## Findings

`overlap` refutes `OneProposalPerKey`: RFC-0013 has it that the same input and the
same key return the same proposal; the key is looked up in one transaction and
upserted in another, so two attempts that both look first create two proposals.

### Statements that do not hold

The modules also define, after the properties they are checked for, statements one
would expect of the code, in a document's words where there is one, which TLC
refutes.  Each says why the checked property beside it is weaker.  To see the
counterexample, put the definition in the place of the run's properties, with the
constants named here.

| Statement | Refuted with | Why |
| --- | --- | --- |
| `ApprovalsAreVersionScoped` ("approvals are version-scoped, and execution eligibility cannot silently bleed from an old version into a new one", `docs/architecture/CODEBASE-REVIEW-LEDGER.md`) | `payloads` | an execution update answers the handoff of the old version and makes the new draft execution-ready (`core/proposals/execution_update.py:75`) |
| `StatusIsThatOfTheLastEvent` ("Current status is derived from last event", RFC-0013) | `races` | the listing is by start time, so the last listed event need not be the last committed (`infrastructure/proposals/postgres_workflow_events.py:42`) |
| `VersionIsWrittenWithItsEvent` ("Persist updates in a single DB transaction", RFC-0013) | `races` | the version row is committed first; a crash or a lost race leaves it alone, and every later version command ends in an identity conflict (`core/proposals/create_persistence.py:31`) |
| `KeyedRequestsActOnce` ("replay-safe execution handoff writes", `src/api/proposals/delivery_parameters.py`) | `payloads` | the replay check reads the log before the commit, and a handoff does not change what the commit compares (`core/proposals/execution_handoff_command.py:51`) |
| `InterruptedOperationsEnd` ("durable, restart-safe", RFC-0019) | `progress` | recovery runs once at start-up and skips an attempt whose lease still runs (`core/proposals/async_operation_recovery.py:20`) |
| `RetryBudget` with two processes ("configured retry budgets consistently across direct execution, startup recovery, and operator recovery paths", the ledger) | `fleet` | a replica that starts up takes over operations that wait in another one, and two claims from equal copies count as one attempt (`infrastructure/proposals/postgres_async_operations.py:157`) |
| `OneProposalPerWorkspace` ("first handoff creates a proposal", "later handoffs create new versions", `wiki/Advisory-Workspace.md`) | `drafting` | the link is written after the proposal is committed (`core/workspace/application.py:201`) |
| `LineageNamesTheWork` ("workspace-to-lifecycle handoff preserves evidence continuity", RFC-0019) | `drafting` with one thread, six requests | the matched saved version is found by evidence that a resume and an edit leave behind (`core/workspace/replay.py:42`) |
| `RecordCarriesItsEvents` (review is append-only, RFC-0025) | `signoff` | the count that guards a record is taken before the statement waits for the row of another save (`infrastructure/policy_packs/postgres_state.py:148`); the events themselves stay |
| `ActiveUntilReplaced` ("activated policy versions are immutable", RFC-0025) | `catalog` with one version, two keys, three requests | the copy of a validation that overlaps the activation still says DRAFT and passes the count (`postgres_state.py:300`) |
| `CommandsAreSaved` ("Activating a different validated version atomically changes that version to `ACTIVE`" and "marks the prior active version `SUPERSEDED`", RFC-0025 slice 5) | `catalog` with one thread, two keys, three requests | definitions are rewritten in the order of versions under an index that is checked at every row, so an earlier version cannot be activated while a later one is ACTIVE (`infrastructure/postgres_migrations/policy_packs/0002_one_active_policy_pack_version.sql`) |
| `OnlyActivationReplaces` | five requests in two threads without four eyes (validate 2, validate 1, activate 2, validate 2, activate 1), following that script | a copy loaded in pieces takes an activation back, and a copy read before it repeats it |
| `OneRunPerKey` | `copilot` | the key is upserted with the run (`core/advisory_copilot/run_persistence.py`) |
| `RecordedReviewTookEffect` | `copilot` | the run is updated after the review is appended, and a replay does not look at it (`core/advisory_copilot/review_persistence.py:82`) |
| `SimulationAnswersOnce` | `keyed` | the key is overwritten after the simulation (`src/api/services/advisory_simulation_service.py`) |
| `KeyedEventHappensOnce` | `keyed` | two requests under one key both list the events before either appends |
| `OneMemoPerKey` | `keyed` | the memo is created whether or not its key was free (`core/proposals/memo_persistence.py:59`) |
| `ReplayShowsItsAcknowledgement` ("acknowledgement is idempotent, audited, and replayable", RFC-0026) | `keyed` | a later acknowledgement of the item under another key takes its row |
| `DataNeverGoesBack` | `memory` | a slow call stores what it read over what a faster one read later (`integrations/lotus_core/stateful_context.py:205`) |
| `ServedWithinLifetime` (five calls and one lifetime) | `memory` | a context is cached for its lifetime with records that were cached for theirs |
| `RetryIsReplayed` | `memory` | a request that came later but reached the lock earlier has purged the record (`core/proposals/idea_proposal_intake.py:38`) |

`KeyedRequestsActOnce` is why `KeyedMoveHappensOnce` speaks of commands that change
the state: for those the conditional update does what the replay check cannot.
The runbook's "active leases block quarantine" holds of the decision only: it is
taken on a copy, and the row may be leased by the time it is written.

## Proofs

The theorems hold for every value of the constants, the bounds included.  The
assumptions are those on the constants in the component modules: absent values are
none of the present ones, bounds are numbers, attempts are at least one, the tables
of the workflow rules are what they are.

`ProposalLifecycleProofs`:

| Theorem | Argument |
| --- | --- |
| `TypeCorrect` | `TypeOK` is inductive: `StagingIsSound` types the event each command builds, `StepTyped` goes through the kinds of step |
| `ValidatedWorkAlwaysValid` | with `TypeOK`, `ValidatedWorkStaysValid` is inductive: a worker's own steps establish it, and the steps of the others preserve it because rows are only added and the version never decreases (`SharedStateGrows`) |
| `HistoryAlwaysLinked` | inductive with the two above: only `Commit` extends the log, and its comparison makes the event start at the current state |
| `TerminalAlwaysFinal`, `LifecycleAlwaysForward` | action properties, from `CommitMovesForward`: a commit writes an allowed event whose origin is the current state |
| `RowsAlwaysContiguous`, `EvidenceAlwaysThere` | inductive; a version command that commits still owns its row (`ValidatedWorkStaysValid`), and what it compared makes its number the next one |
| `UpdatesAlwaysAnswer` | inductive with the two above it: the handoff an update was checked against is in the log it read, and the log only grows |
| `ConsentAlwaysPrecedes` | from `StagesAreEarned`: a proposal that awaits consent has an approval in its log and every handoff there comes with a consent, so an execution update, which does not look at the state, has one behind the handoff it answers; any other commit starts from the state it has compared |
| `KeyedMovesHappenOnce` | from `RetriesAreOutdated`: a command in progress whose move is already in the log under its key has read a (state, version) pair that was left since, and such a pair does not come back (`MovedOnForGood`), so its commit is refused |
| `LifecycleImplementsWorkflow` | initial states map to initial states, a commit is one abstract step, every other step stutters |

None of these invariants is inductive alone: each needs to know that the event a
worker is about to write is allowed from the state it compares, which is what
`ValidatedWorkStaysValid` says.

`AsyncOperationsProofs`, for any number of processes, operations, attempts, crashes
and quarantine requests:

| Theorem | Argument |
| --- | --- |
| `TypeCorrect` | `TypeOK` is inductive (`TaskStepTyped`, `StepTyped`) |
| `AttemptsAreCounted`, `LeaseMeansRunning`, `SuccessIsBacked` | consequences of `CopiesAreSound`, which is inductive with `TypeOK` |
| `DriftIsExplained` | every step but the three either leaves a task, a recovery or an end behind (`StepExplainsDrift`, by `RunningIsLeased`) |
| `EffectsHappenOnce` | `PinnedOnce`: a task that is about to compare the expected version has seen none made; `CreatedOnce`: with one process, one task of an operation at a time looks its key up and commits |
| `BudgetIsKept` | `BudgetKept`: the starts so far are at most the attempts in a row that is open, and in the copy of a task that will write; the operator's copy is older but its write ends the row |
| `OwnersHoldTheirRows` | `Owned`: a task that has read its row holds the row as it stands, open until the task writes the outcome; what the recovery has listed is open and has no task |
| `RowsKeepThePromise` | by `Owned` every write starts from the stored row, so it is a step of `OperationPromise`; all other steps stutter |

The first four need no assumption on the processes.  `BudgetIsKept` and
`EffectsHappenOnce` assume one process (`OneProcess`: the container starts one), the
latter only for operations that do not name their version; the last two also assume
that the operator does not quarantine, as that write comes from a copy of its own.
`RetryBudget` with two processes is among the refuted statements above.

With several processes the row changes under a task, so nothing inductive
relates the row to a copy.  `CopiesAreSound` instead says of every copy, stale or
not, and of every row, that its attempts, status and lease fit together, and of
every task that what it is about to write is earned: an attempt below the limit,
a success after a commit (`WritesCoherent`).  Effects are never taken back, so a
step elsewhere keeps that (`LocalStepSound`).

The other proof modules follow the same idea.  Each states one inductive invariant
`IInv` as a conjunction of operators on the parts of a state (a job, a table, a
log), so that what a step leaves alone is carried over by a lemma about those
parts, and a step lemma per action shows the rest.

| Module | Theorems | What the invariant says of copies |
| --- | --- | --- |
| `WorkspaceSessionProofs` | `TypeCorrect`, `VersionsAlwaysNumbered`, `EvidenceAlwaysFits`, `LineageAlwaysTrue`, `LostToStaleCopies` | every document a thread holds is as sound as the stored one, so overwriting one with the other keeps it sound; a fresh copy is the stored document |
| `PolicyEvaluationsProofs` | `TypeCorrect`, `KeysNameTheirEvents`, `OnlyOvertakenSavesForget`, `EvaluationsImplementReview` | the stored log only grows and a copy of it is a prefix, or a prefix with the one event of the request; checks made on a prefix hold of the log (`ChecksStand`), and a save that is not refused appends that event or nothing (`SaveAddsOneEvent`), which is one step of `PolicyReview` |
| `PolicyCatalogProofs` | `TypeCorrect`, `ActivationsAreChecked`, `StatesStayLogged`, `CommandsStayAtomic` | the checks and the explanation of states hold of every copy as of the store; a copy nobody overtook has counted every stored event, so its log is the stored one, with the event of its request or without (`SaveIsAtomic`); an event is told from an equal one by the time of its request |
| `CopilotRunsProofs` | `TypeCorrect`, `VerdictsAreOnReviewableOutput`, `VerdictsAreOnRecord`, `VerdictsFallToStaleCopies` | a copy to be written with a verdict has a reviewable output and its review is on record; a fresh copy is the stored run |
| `KeyedWritesProofs` | `TypeCorrect`, `AcknowledgementsAreKeyed`, `MemosAreCreatedOnce`, `RequestsFollowApprovals`, `KeysStayFixed` | rows are inserted if absent and events appended, so what a request has found stays |

`ProcessMemoryProofs` has no copies of a whole map, as each lookup and store is under a
lock; its invariants relate a map to its history, and data to the clock.

| Theorem | Argument |
| --- | --- |
| `TypeCorrect` | inductive with `JobsFit` and `CachesFit`: what a request has noted, read or cached is of the past |
| `ServedDataAlwaysRecent` | `DataIsRecent` bounds at every stage of a resolution the time since the oldest record in it was read: a call and a lifetime at the lookups, and `MaxCall` more at each of the two calls; the expiry of a record and of a context follow, and a hit changes neither data nor expiry |
| `RecentlyUsedAlwaysStays` | `UsesAreKept`: a cached entry has the turn and the expiry of its last use, and a lookup whose clock is behind drops nothing that has not expired.  No fewer entries come after a security in the history of use than in the cache (`FewerAfter`), so what a store drops is older than `MaxSize` others |
| `ForgettingIsExplained` | `LedgerIsOfReceipts`: a record is that of an accepted intake, in its turn, and an intake that nothing has outlived and fewer than `MaxRecords` follow has its record.  The records after it inject into the intakes accepted after it (`FewerRecordsAfter`), so the cap spares it |

Every invariant, action property and refinement that a passing run checks is stated
by a theorem.  Model-checked only are the two liveness properties of `progress`
(`AcceptedEndsOrDrifts`, `RestartResumes`), as fairness and ENABLED are out of the
prover's reach.  The refuted statements are counterexamples of TLC.

## Plan

Done: the lifecycle, the async operations, and the components above with their
proofs.  To come:

1. Proofs: weaker hypotheses where a theorem has one (which of the one-process
   guarantees survive the operator), and what the three loads of a policy store
   guarantee of a record that has lost events.
2. Algorithms: order of dependent trade intents, pagination cursors, projection of
   the execution status.

## Not modelled

The simulation, alternatives, artifacts and narratives are deterministic
computations over decimals and text (about a third of `src/src`); the lifecycle
sees only whether they succeed, and a reference definition of them would be their
code again.  HTTP, authentication, observability, capabilities and demo material
keep no state that a command depends on.  The read side projects stored rows.
Migrations run at deployment, under an advisory lock.  `scripts/` are tools of the
repository, not of the running service.  What decides over time, across requests and
failures, is in the parts that are modelled; it is a small share of the lines.
