-------------------------- MODULE AsyncOperations --------------------------
(***************************************************************************)
(* Asynchronous create and version operations: accepted by a route, run by *)
(* a background task of the process that accepted them, and, after a       *)
(* restart, by the start-up recovery of whichever process starts next.     *)
(*                                                                         *)
(* The only shared state is the operation's row.  A task reads it, changes *)
(* its own copy and writes the copy back unconditionally; the claim of an  *)
(* attempt is such a write too, and the lease it stores is looked at by    *)
(* the recovery and the operator only.                                     *)
(*                                                                         *)
(* Abstractions: submissions that repeat a key or a correlation id change  *)
(* nothing (the rows are unique in both) and are left out, so an operation *)
(* stands for its key.  Of the command an operation runs, only what it     *)
(* leaves in the store is kept: created proposals or versions, counted.    *)
(***************************************************************************)
EXTENDS Naturals, FiniteSets

CONSTANTS
  Processes,      \* service processes on one database
  CreateOps,      \* operations that create a proposal
  VersionOps,     \* operations that create a version of an existing proposal
  PinnedOps,      \* those of them that carry expected_current_version_no
  MaxAttempts,    \* max_attempts of an operation
  LeaseTime,      \* ASYNC_OPERATION_LEASE_SECONDS, in ticks
  BatchSize,      \* ASYNC_RECOVERY_BATCH_SIZE
  OperatorActs,   \* whether an operator quarantines operations
  MaxTime,        \* bound: ticks of the clock
  MaxFaults       \* bound: crashes and failing repository calls

Operations == CreateOps \cup VersionOps

ASSUME OperationsAssumption ==
  /\ CreateOps \cap VersionOps = {}
  /\ PinnedOps \subseteq VersionOps
  /\ IsFiniteSet(CreateOps \cup VersionOps)
ASSUME LimitsAssumption ==
  /\ MaxAttempts \in Nat \ {0}
  /\ LeaseTime \in Nat \ {0}
  /\ BatchSize \in Nat \ {0}
  /\ MaxTime \in Nat
  /\ MaxFaults \in Nat
  /\ OperatorActs \in BOOLEAN

VARIABLES
  row,      \* proposal_async_operations
  made,     \* per operation: proposals or versions its command has committed
  draft,    \* per operation: a version row of its command stands without event
  task,     \* per process and operation: the task that runs it, with its copy
  up,       \* per process: down, recovering in the lifespan hook, or serving
  backlog,  \* per process: operations its recovery has listed and not yet run
  control,  \* per process and operation: the quarantine request in progress
  now,      \* the clock
  runs,     \* history: attempts started, counted up to one more than allowed
  faults    \* crashes and failed calls so far

store == <<row, made, draft>>
process == <<up, backlog>>
vars == <<store, task, process, control, now, runs, faults>>

-----------------------------------------------------------------------------
\* Records.  A lease of 0 is none; created is the rank of created_at.

Row == [status : {"ABSENT", "PENDING", "RUNNING", "SUCCEEDED", "FAILED"},
        attempts : Nat, lease : Nat, error : {"none", "error", "quarantined"},
        created : Nat]

NoRow == [status |-> "ABSENT", attempts |-> 0, lease |-> 0, error |-> "none",
          created |-> 0]

\* Where a task is: the next repository call it will make.
Stages == {"none", "queued", "next", "start", "execute", "insert", "commit",
           "succeed", "raise", "fail"}

Task == [pc : Stages, copy : Row, seen : Nat]

NoTask == [pc |-> "none", copy |-> NoRow, seen |-> 0]

Control == [pc : {"idle", "write"}, copy : Row]

NoControl == [pc |-> "idle", copy |-> NoRow]

ASYNC_TERMINAL_STATUSES == {"SUCCEEDED", "FAILED"}

Accepted == {o \in Operations : row[o].status # "ABSENT"}

Put(p, o, t) == task' = [task EXCEPT ![p][o] = t]

Goto(p, o, pc) == Put(p, o, [task[p][o] EXCEPT !.pc = pc])

Finish(p, o) == Put(p, o, NoTask)

Save(o, r) == row' = [row EXCEPT ![o] = r]

-----------------------------------------------------------------------------
(* Faults: what parts of the code would be with a plausible bug in them.   *)
(* No action uses them.                                                    *)

AttemptNotCounted(r) == [r EXCEPT !.status = "RUNNING", !.lease = now + LeaseTime,
                                  !.error = "none"]

NeverExhausted(r) == FALSE

NotReplayed(o) == FALSE

NotPinned(o) == FALSE

StartOnStaleCopy(p, o) ==
  /\ task[p][o].pc = "start"
  /\ Save(o, [task[p][o].copy EXCEPT !.status = "RUNNING", !.attempts = @ + 1,
                                     !.lease = now + LeaseTime, !.error = "none"])
  /\ Goto(p, o, "execute")
  /\ runs' = [runs EXCEPT ![o] = IF @ > MaxAttempts THEN @ ELSE @ + 1]
  /\ UNCHANGED <<made, draft, process, control, now, faults>>

VersionRowIsEnough(p, o) ==
  /\ task[p][o].pc = "insert"
  /\ draft' = [draft EXCEPT ![o] = TRUE]
  /\ Goto(p, o, "succeed")
  /\ UNCHANGED <<row, made, process, control, now, runs, faults>>

-----------------------------------------------------------------------------
(* What a task does to its copy of the row.                                *)

should_skip(r) == r.status \in {"ABSENT"} \cup ASYNC_TERMINAL_STATUSES

has_exhausted(r) == r.attempts >= MaxAttempts

begin_async_attempt(r) ==
  [r EXCEPT !.status = "RUNNING", !.attempts = @ + 1, !.lease = now + LeaseTime,
            !.error = "none"]

mark_operation_succeeded(r) ==
  [r EXCEPT !.status = "SUCCEEDED", !.lease = 0, !.error = "none"]

mark_operation_failed(r) ==
  [r EXCEPT !.status = "FAILED", !.lease = 0, !.error = "error"]

Retries(r) == r.attempts < MaxAttempts

apply_runtime_exception_outcome(r) ==
  [r EXCEPT !.status = IF Retries(r) THEN "PENDING" ELSE "FAILED",
            !.lease = 0, !.error = "error"]

-----------------------------------------------------------------------------
(* Submission.                                                             *)

Init ==
  /\ row = [o \in Operations |-> NoRow]
  /\ made = [o \in Operations |-> 0]
  /\ draft = [o \in Operations |-> FALSE]
  /\ task = [p \in Processes |-> [o \in Operations |-> NoTask]]
  /\ up = [p \in Processes |-> "down"]
  /\ backlog = [p \in Processes |-> {}]
  /\ control = [p \in Processes |-> [o \in Operations |-> NoControl]]
  /\ now = 0
  /\ runs = [o \in Operations |-> 0]
  /\ faults = 0

\* A new submission inserts its row and schedules a background task, which
\* starts after the response.
Submit(p, o) ==
  /\ up[p] = "serving"
  /\ row[o].status = "ABSENT"
  /\ Save(o, [NoRow EXCEPT !.status = "PENDING", !.created = Cardinality(Accepted) + 1])
  /\ Goto(p, o, "queued")
  /\ UNCHANGED <<made, draft, process, control, now, runs, faults>>

-----------------------------------------------------------------------------
(* The runner.                                                             *)

\* The row is read for its payload.
Begin(p, o) ==
  /\ task[p][o].pc = "queued"
  /\ Goto(p, o, "next")
  /\ UNCHANGED <<store, process, control, now, runs, faults>>

\* A release that starts up may reject what an earlier one has stored.
RejectPayload(p, o) ==
  /\ task[p][o].pc = "queued"
  /\ up[p] = "recovering"
  /\ Put(p, o, [task[p][o] EXCEPT !.pc = "fail", !.copy = row[o]])
  /\ UNCHANGED <<store, process, control, now, runs, faults>>

\* The loop of the runner reads the row again and stops on a finished one,
SkipFinished(p, o) ==
  /\ task[p][o].pc = "next"
  /\ should_skip(row[o])
  /\ Finish(p, o)
  /\ UNCHANGED <<store, process, control, now, runs, faults>>

\* will fail one without attempts left, and otherwise starts an attempt.
ReadForAttempt(p, o) ==
  /\ task[p][o].pc = "next"
  /\ ~should_skip(row[o])
  /\ Put(p, o, [task[p][o] EXCEPT !.pc = IF has_exhausted(row[o]) THEN "fail" ELSE "start",
                                  !.copy = row[o]])
  /\ UNCHANGED <<store, process, control, now, runs, faults>>

Start(p, o) ==
  /\ task[p][o].pc = "start"
  /\ LET r == begin_async_attempt(task[p][o].copy) IN
     /\ Save(o, r)
     /\ Put(p, o, [task[p][o] EXCEPT !.pc = "execute", !.copy = r])
  /\ runs' = [runs EXCEPT ![o] = IF @ > MaxAttempts THEN @ ELSE @ + 1]
  /\ UNCHANGED <<made, draft, process, control, now, faults>>

PersistSucceeded(p, o) ==
  /\ task[p][o].pc = "succeed"
  /\ Save(o, mark_operation_succeeded(task[p][o].copy))
  /\ Finish(p, o)
  /\ UNCHANGED <<made, draft, process, control, now, runs, faults>>

PersistFailed(p, o) ==
  /\ task[p][o].pc = "fail"
  /\ Save(o, mark_operation_failed(task[p][o].copy))
  /\ Finish(p, o)
  /\ UNCHANGED <<made, draft, process, control, now, runs, faults>>

PersistException(p, o) ==
  /\ task[p][o].pc = "raise"
  /\ Save(o, apply_runtime_exception_outcome(task[p][o].copy))
  /\ IF Retries(task[p][o].copy)
     THEN Put(p, o, [NoTask EXCEPT !.pc = "next"])
     ELSE Finish(p, o)
  /\ UNCHANGED <<made, draft, process, control, now, runs, faults>>

-----------------------------------------------------------------------------
(* The executor: the create command or the version command.                *)

\* The create command found the record its key left behind and replays.
HasRecord(o) == made[o] > 0

\* expected_current_version_no is no longer that of the proposal.
VersionMoved(o) == o \in PinnedOps /\ made[o] > 0

\* The command reads: the idempotency record, or the proposal.
Look(p, o) ==
  /\ task[p][o].pc = "execute"
  /\ Put(p, o, [task[p][o] EXCEPT
       !.seen = made[o],
       !.pc = IF o \in CreateOps
              THEN IF HasRecord(o) THEN "succeed" ELSE "commit"
              ELSE IF VersionMoved(o) THEN "fail" ELSE "insert"])
  /\ UNCHANGED <<store, process, control, now, runs, faults>>

\* One transaction: proposal, version, event and idempotency record.
CommitCreate(p, o) ==
  /\ task[p][o].pc = "commit" /\ o \in CreateOps
  /\ made' = [made EXCEPT ![o] = @ + 1]
  /\ Goto(p, o, "succeed")
  /\ UNCHANGED <<row, draft, process, control, now, runs, faults>>

\* The row of the next version, which must not be there yet.
InsertVersion(p, o) ==
  /\ task[p][o].pc = "insert"
  /\ IF draft[o] \/ made[o] # task[p][o].seen
     THEN Goto(p, o, "raise") /\ UNCHANGED draft
     ELSE Goto(p, o, "commit") /\ draft' = [draft EXCEPT ![o] = TRUE]
  /\ UNCHANGED <<row, made, process, control, now, runs, faults>>

\* Compare-and-set of the proposal, with the event.
CommitVersion(p, o) ==
  /\ task[p][o].pc = "commit" /\ o \in VersionOps
  /\ made[o] = task[p][o].seen
  /\ made' = [made EXCEPT ![o] = @ + 1]
  /\ draft' = [draft EXCEPT ![o] = FALSE]
  /\ Goto(p, o, "succeed")
  /\ UNCHANGED <<row, process, control, now, runs, faults>>

\* The command is declined: invalid input, unknown proposal, a conflict with
\* another command on the proposal.
Decline(p, o) ==
  /\ \/ task[p][o].pc = "execute"
     \/ task[p][o].pc = "commit" /\ o \in VersionOps
  /\ Goto(p, o, "fail")
  /\ UNCHANGED <<store, process, control, now, runs, faults>>

\* Any other exception: an upstream service or the database does not answer.
ExecutorRaises(p, o) ==
  /\ task[p][o].pc \in {"execute", "insert", "commit"}
  /\ Goto(p, o, "raise")
  /\ UNCHANGED <<store, process, control, now, runs, faults>>

-----------------------------------------------------------------------------
(* Processes.                                                              *)

Recoverable(o) ==
  \/ row[o].status = "PENDING"
  \/ row[o].status = "RUNNING" /\ row[o].lease # 0 /\ row[o].lease <= now

\* Faults: a page that is one short, and one that begins with the newest.
ShortPage ==
  LET found == {o \in Operations : Recoverable(o)} IN
  {o \in found : Cardinality({q \in found : row[q].created < row[o].created}) + 1 < BatchSize}

NewestFirst ==
  LET found == {o \in Operations : Recoverable(o)} IN
  {o \in found : Cardinality({q \in found : row[q].created > row[o].created}) < BatchSize}

\* The oldest BatchSize of them.
list_recoverable_operations ==
  LET found == {o \in Operations : Recoverable(o)} IN
  {o \in found : Cardinality({q \in found : row[q].created < row[o].created}) < BatchSize}

\* The lifespan hook lists once, before the process serves.
StartUp(p) ==
  /\ up[p] = "down"
  /\ up' = [up EXCEPT ![p] = "recovering"]
  /\ backlog' = [backlog EXCEPT ![p] = list_recoverable_operations]
  /\ UNCHANGED <<store, task, control, now, runs, faults>>

NoTasks(p) == \A o \in Operations : task[p][o].pc = "none"

\* The listed operations are run one after the other, the oldest first.
RecoverNext(p, o) ==
  /\ up[p] = "recovering"
  /\ NoTasks(p)
  /\ o \in backlog[p]
  /\ \A q \in backlog[p] : row[o].created <= row[q].created
  /\ backlog' = [backlog EXCEPT ![p] = @ \ {o}]
  /\ Goto(p, o, "queued")
  /\ UNCHANGED <<store, up, control, now, runs, faults>>

Serve(p) ==
  /\ up[p] = "recovering"
  /\ NoTasks(p)
  /\ backlog[p] = {}
  /\ up' = [up EXCEPT ![p] = "serving"]
  /\ UNCHANGED <<store, task, backlog, control, now, runs, faults>>

Stop(p) ==
  /\ up' = [up EXCEPT ![p] = "down"]
  /\ backlog' = [backlog EXCEPT ![p] = {}]
  /\ task' = [task EXCEPT ![p] = [o \in Operations |-> NoTask]]
  /\ control' = [control EXCEPT ![p] = [o \in Operations |-> NoControl]]

Crash(p) ==
  /\ up[p] # "down"
  /\ faults < MaxFaults
  /\ faults' = faults + 1
  /\ Stop(p)
  /\ UNCHANGED <<store, now, runs>>

\* A repository call of the runner raises.  A background task ends with it; in
\* the recovery the exception leaves the hook and the process does not start.
StoreFails(p, o) ==
  /\ task[p][o].pc \in {"queued", "next", "start", "succeed", "raise", "fail"}
  /\ faults < MaxFaults
  /\ faults' = faults + 1
  /\ IF up[p] = "recovering" THEN Stop(p)
     ELSE Finish(p, o) /\ UNCHANGED <<process, control>>
  /\ UNCHANGED <<store, now, runs>>

Tick ==
  /\ now < MaxTime
  /\ now' = now + 1
  /\ UNCHANGED <<store, task, process, control, runs, faults>>

-----------------------------------------------------------------------------
(* The operator: read, evaluate, write.                                    *)

MayQuarantine(r) ==
  \/ r.status = "PENDING"
  \/ r.status = "FAILED" /\ r.error # "quarantined" /\ has_exhausted(r)
  \/ r.status = "RUNNING" /\ r.lease # 0 /\ r.lease <= now

EvaluateQuarantine(p, o) ==
  /\ OperatorActs
  /\ up[p] = "serving"
  /\ control[p][o].pc = "idle"
  /\ MayQuarantine(row[o])
  /\ control' = [control EXCEPT ![p][o] = [pc |-> "write", copy |-> row[o]]]
  /\ UNCHANGED <<store, task, process, now, runs, faults>>

WriteQuarantine(p, o) ==
  /\ control[p][o].pc = "write"
  /\ Save(o, [control[p][o].copy EXCEPT !.status = "FAILED", !.lease = 0,
                                        !.error = "quarantined"])
  /\ control' = [control EXCEPT ![p][o] = NoControl]
  /\ UNCHANGED <<made, draft, task, process, now, runs, faults>>

-----------------------------------------------------------------------------

TaskStep(p, o) ==
  \/ Begin(p, o) \/ RejectPayload(p, o)
  \/ SkipFinished(p, o) \/ ReadForAttempt(p, o) \/ Start(p, o)
  \/ PersistSucceeded(p, o) \/ PersistFailed(p, o) \/ PersistException(p, o)
  \/ Look(p, o) \/ CommitCreate(p, o) \/ InsertVersion(p, o) \/ CommitVersion(p, o)
  \/ Decline(p, o) \/ ExecutorRaises(p, o)

Next ==
  \/ \E p \in Processes, o \in Operations :
       \/ Submit(p, o) \/ TaskStep(p, o) \/ RecoverNext(p, o) \/ StoreFails(p, o)
       \/ EvaluateQuarantine(p, o) \/ WriteQuarantine(p, o)
  \/ \E p \in Processes : StartUp(p) \/ Serve(p) \/ Crash(p)
  \/ Tick

Spec == Init /\ [][Next]_vars

\* Threads run, commands end (their upstream calls have timeouts), and a stopped
\* process is started again.  Clients, operators and faults are not fair.
Fairness ==
  /\ WF_vars(Tick)
  /\ \A p \in Processes, o \in Operations :
       WF_vars(TaskStep(p, o)) /\ WF_vars(RecoverNext(p, o))
  /\ \A p \in Processes : WF_vars(StartUp(p)) /\ WF_vars(Serve(p))

FairSpec == Spec /\ Fairness

-----------------------------------------------------------------------------
\* Every variable has the shape of the table or thread state it stands for.
TypeOK ==
  /\ row \in [Operations -> Row]
  /\ made \in [Operations -> Nat]
  /\ draft \in [Operations -> BOOLEAN]
  /\ task \in [Processes -> [Operations -> Task]]
  /\ up \in [Processes -> {"down", "recovering", "serving"}]
  /\ backlog \in [Processes -> SUBSET Operations]
  /\ control \in [Processes -> [Operations -> Control]]
  /\ now \in 0 .. MaxTime
  /\ runs \in [Operations -> Nat]
  /\ faults \in 0 .. MaxFaults

\* An attempt is counted in the row before its command runs, and no count above
\* the limit is ever stored: holds for any number of processes, because every
\* claim is preceded by the check of has_exhausted_async_attempts on its copy.
AttemptsStayCounted ==
  \A o \in Operations :
    /\ row[o].attempts <= MaxAttempts
    /\ row[o].status = "RUNNING" => row[o].attempts > 0

\* A RUNNING row has a lease and no other row has: list_recoverable_operations
\* and the operator see an interrupted attempt by its lease only.
RunningIsLeased ==
  \A o \in Operations : row[o].status = "RUNNING" <=> row[o].lease # 0

\* A row that says SUCCEEDED is backed by a committed proposal or version, also
\* when the run that stored it was not the one that committed.
SuccessHasItsEffect ==
  \A o \in Operations : row[o].status = "SUCCEEDED" => made[o] > 0

\* With one process, the copy a task will write back is the row as it stands:
\* its unconditional writes overwrite nothing.
OwnerHoldsTheRow ==
  \A p \in Processes, o \in Operations :
    task[p][o].pc \notin {"none", "queued", "next"} => row[o] = task[p][o].copy

\* The command of an operation is started at most max_attempts times, over all
\* retries, restarts and recoveries (max_attempts of the accepted response).
RetryBudget == \A o \in Operations : runs[o] <= MaxAttempts

\* However often it is run, a create operation creates one proposal, and a
\* version operation that names the expected version creates one version.
EffectOnce == \A o \in CreateOps \cup PinnedOps : made[o] <= 1

\* Accepted and unfinished, and no task or recovery of a running process will
\* take it up: it waits for a restart.
Adrift(o) ==
  /\ row[o].status \in {"PENDING", "RUNNING"}
  /\ \A p \in Processes : up[p] # "down" /\ o \notin backlog[p] /\ task[p][o].pc = "none"

\* PENDING, or RUNNING after its lease has expired.
LeftBehind(o) ==
  \/ row[o].status = "PENDING"
  \/ row[o].status = "RUNNING" /\ row[o].lease <= now

\* An operation is left adrift in three ways only: a repository call of its
\* background task raised, a process started up before the lease of the
\* interrupted attempt had expired, or the recovery found more than a batch.
DriftHasACause ==
  [][\A o \in Operations : ~Adrift(o) /\ Adrift(o)' =>
       \/ \E p \in Processes : StoreFails(p, o) /\ up[p] = "serving"
       \/ \E p \in Processes :
            /\ StartUp(p)
            /\ \/ row[o].status = "RUNNING" /\ row[o].lease > now
               \/ Cardinality({q \in Operations : LeftBehind(q)}) > BatchSize]_vars

\* The rows keep the promise of one process's operations.
Promise == INSTANCE OperationPromise WITH
  status <- [o \in Operations |-> row[o].status],
  attempts <- [o \in Operations |-> row[o].attempts]

\* With one process and no operator, every write of a row is one step of the
\* promised life of the operation.
KeepsThePromise == Promise!Spec

\* Every accepted operation ends, unless it is left adrift.
AcceptedEndsOrDrifts ==
  \A o \in Operations :
    row[o].status = "PENDING" ~> (row[o].status \in ASYNC_TERMINAL_STATUSES \/ Adrift(o))

\* Unfinished, and fewer than a batch of the unfinished operations are older: in
\* the batch of the next recovery, whichever leases expire until then.
InFirstBatch(o) ==
  Cardinality({q \in Operations : /\ row[q].status \in {"PENDING", "RUNNING"}
                                  /\ row[q].created < row[o].created}) < BatchSize

\* What a stopped process leaves PENDING, or RUNNING with an expired lease, among
\* its oldest BatchSize unfinished operations is tried again or ended after the
\* restart, though a recovery may fail and the process stop again.
RestartResumes ==
  \A o \in Operations, n \in 0 .. MaxAttempts :
    (/\ LeftBehind(o) /\ InFirstBatch(o) /\ row[o].attempts = n
     /\ \A p \in Processes : up[p] = "down")
    ~> (row[o].status \in ASYNC_TERMINAL_STATUSES \/ row[o].attempts > n)

-----------------------------------------------------------------------------
(* Statements of the repository's documents that the code does not keep.   *)

\* RFC-0019: async proposal operations are durable and restart-safe, so one that
\* a crash interrupts ends after the restart.  (Its lease expires in time.)
InterruptedOperationsEnd ==
  \A o \in Operations :
    (/\ row[o].status = "RUNNING" /\ row[o].lease <= MaxTime
     /\ \A p \in Processes : up[p] = "down")
    ~> row[o].status \in ASYNC_TERMINAL_STATUSES

\* RFC-0013: the same input and key return the same created proposal.
OneProposalPerKey == \A o \in CreateOps : made[o] <= 1
=============================================================================
