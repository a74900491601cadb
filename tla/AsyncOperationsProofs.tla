----------------------- MODULE AsyncOperationsProofs -----------------------
(***************************************************************************)
(* Theorems about AsyncOperations: for any number of operations, attempts, *)
(* crashes and quarantine requests, first with any number of processes,    *)
(* then with one.                                                          *)
(***************************************************************************)
EXTENDS AsyncOperations, FiniteSetTheorems, TLAPS

-----------------------------------------------------------------------------
(* Lemmas about the building blocks.                                       *)

\* The absent row, task and quarantine request.
LEMMA InitialValuesTyped == NoRow \in Row /\ NoTask \in Task /\ NoControl \in Control
<1>1. NoRow \in Row
  BY DEF NoRow, Row
<1> QED
  BY <1>1 DEF NoTask, Task, Stages, NoControl, Control

\* A row with other contents is a row.
LEMMA ChangedRowTyped ==
  ASSUME NEW r \in Row, NEW status \in {"PENDING", "RUNNING", "SUCCEEDED", "FAILED"},
         NEW attempts \in Nat, NEW lease \in Nat,
         NEW error \in {"none", "error", "quarantined"}
  PROVE  /\ [r EXCEPT !.status = status, !.attempts = attempts, !.lease = lease,
                      !.error = error] \in Row
         /\ [r EXCEPT !.status = status, !.lease = lease, !.error = error] \in Row
  BY DEF Row

\* What the runner writes to a row has the row's type.
LEMMA RowUpdatesTyped ==
  ASSUME now \in Nat, NEW r \in Row
  PROVE  /\ begin_async_attempt(r) \in Row
         /\ mark_operation_succeeded(r) \in Row
         /\ mark_operation_failed(r) \in Row
         /\ apply_runtime_exception_outcome(r) \in Row
<1>1. r.attempts + 1 \in Nat
  BY DEF Row
<1>2. now + LeaseTime \in Nat
  BY LimitsAssumption
<1>3. begin_async_attempt(r) \in Row
  BY <1>1, <1>2, ChangedRowTyped DEF begin_async_attempt
<1>4. mark_operation_succeeded(r) \in Row /\ mark_operation_failed(r) \in Row
  BY ChangedRowTyped DEF mark_operation_succeeded, mark_operation_failed
<1>5. apply_runtime_exception_outcome(r) \in Row
  <2>1. (IF Retries(r) THEN "PENDING" ELSE "FAILED") \in {"PENDING", "FAILED"}
    OBVIOUS
  <2> QED
    BY <2>1, ChangedRowTyped DEF apply_runtime_exception_outcome
<1> QED
  BY <1>3, <1>4, <1>5

\* Replacing the task of one operation in one process.
LEMMA PutEffect ==
  ASSUME task \in [Processes -> [Operations -> Task]],
         NEW p \in Processes, NEW o \in Operations, NEW t \in Task, Put(p, o, t)
  PROVE  /\ task' \in [Processes -> [Operations -> Task]]
         /\ task'[p][o] = t
         /\ \A q \in Processes, x \in Operations :
              q # p \/ x # o => task'[q][x] = task[q][x]
  BY DEF Put

\* Moving a task on, with or without a new copy.
LEMMA ChangedTaskTyped ==
  ASSUME NEW t \in Task, NEW pc \in Stages, NEW r \in Row, NEW n \in Nat
  PROVE  /\ [t EXCEPT !.pc = pc] \in Task
         /\ [t EXCEPT !.pc = pc, !.copy = r] \in Task
         /\ [t EXCEPT !.seen = n, !.pc = pc] \in Task
  BY DEF Task

LEMMA GotoEffect ==
  ASSUME task \in [Processes -> [Operations -> Task]],
         NEW p \in Processes, NEW o \in Operations, NEW pc \in Stages, Goto(p, o, pc)
  PROVE  /\ task' \in [Processes -> [Operations -> Task]]
         /\ task'[p][o] = [task[p][o] EXCEPT !.pc = pc]
         /\ \A q \in Processes, x \in Operations :
              q # p \/ x # o => task'[q][x] = task[q][x]
<1>1. [task[p][o] EXCEPT !.pc = pc] \in Task
  BY DEF Task
<1> QED
  BY <1>1, PutEffect DEF Goto

LEMMA FinishEffect ==
  ASSUME task \in [Processes -> [Operations -> Task]],
         NEW p \in Processes, NEW o \in Operations, Finish(p, o)
  PROVE  /\ task' \in [Processes -> [Operations -> Task]]
         /\ task'[p][o] = NoTask
         /\ \A q \in Processes, x \in Operations :
              q # p \/ x # o => task'[q][x] = task[q][x]
  BY InitialValuesTyped, PutEffect DEF Finish

\* Writing the row of one operation.
LEMMA SaveEffect ==
  ASSUME row \in [Operations -> Row], NEW o \in Operations, NEW r \in Row, Save(o, r)
  PROVE  /\ row' \in [Operations -> Row]
         /\ row'[o] = r
         /\ \A x \in Operations : x # o => row'[x] = row[x]
  BY DEF Save

\* Rows are numbered in the order they are accepted.
LEMMA RankTyped == Cardinality(Accepted) \in Nat
<1>1. Accepted \subseteq Operations /\ IsFiniteSet(Operations)
  BY OperationsAssumption DEF Accepted, Operations
<1> QED
  BY <1>1, FS_Subset, FS_CardinalityType

\* The row of a new submission.
LEMMA FirstRowTyped ==
  ASSUME NEW r \in Row, NEW n \in Nat
  PROVE  [r EXCEPT !.status = "PENDING", !.created = n] \in Row
  BY DEF Row

\* The recovery lists operations.
LEMMA ListTyped == list_recoverable_operations \subseteq Operations
  BY DEF list_recoverable_operations

-----------------------------------------------------------------------------
(* Types.                                                                  *)

\* A step of a task changes the task, at most the row and the effects of its
\* operation, and nothing else.
LEMMA TaskStepTyped ==
  ASSUME TypeOK, NEW p \in Processes, NEW o \in Operations, TaskStep(p, o)
  PROVE  TypeOK'
<1> USE DEF TypeOK
<1>copy. task[p][o] \in Task /\ task[p][o].copy \in Row /\ row[o] \in Row
  BY DEF Task
<1>writes. \A r \in Row : /\ begin_async_attempt(r) \in Row
                         /\ mark_operation_succeeded(r) \in Row
                         /\ mark_operation_failed(r) \in Row
                         /\ apply_runtime_exception_outcome(r) \in Row
  BY RowUpdatesTyped
<1>1. CASE Begin(p, o)
  <2>1. task' \in [Processes -> [Operations -> Task]]
    BY <1>1, GotoEffect DEF Begin, Stages
  <2> QED
    BY <1>1, <2>1 DEF Begin, store, process
<1>2. CASE RejectPayload(p, o)
  <2>1. [task[p][o] EXCEPT !.pc = "fail", !.copy = row[o]] \in Task
    BY <1>copy, ChangedTaskTyped DEF Stages
  <2>2. task' \in [Processes -> [Operations -> Task]]
    BY <1>2, <2>1, PutEffect DEF RejectPayload
  <2> QED
    BY <1>2, <2>2 DEF RejectPayload, store, process
<1>3. CASE SkipFinished(p, o)
  <2>1. task' \in [Processes -> [Operations -> Task]]
    BY <1>3, FinishEffect DEF SkipFinished
  <2> QED
    BY <1>3, <2>1 DEF SkipFinished, store, process
<1>4. CASE ReadForAttempt(p, o)
  <2> DEFINE pc == IF has_exhausted(row[o]) THEN "fail" ELSE "start"
  <2>1. pc \in Stages
    BY DEF Stages
  <2>2. [task[p][o] EXCEPT !.pc = pc, !.copy = row[o]] \in Task
    BY <1>copy, <2>1, ChangedTaskTyped
  <2>3. task' \in [Processes -> [Operations -> Task]]
    BY <1>4, <2>2, PutEffect DEF ReadForAttempt
  <2> QED
    BY <1>4, <2>3 DEF ReadForAttempt, store, process
<1>5. CASE Start(p, o)
  <2> DEFINE r == begin_async_attempt(task[p][o].copy)
  <2>1. r \in Row
    BY <1>copy, <1>writes
  <2>2. [task[p][o] EXCEPT !.pc = "execute", !.copy = r] \in Task
    BY <1>copy, <2>1, ChangedTaskTyped DEF Stages
  <2>3. Put(p, o, [task[p][o] EXCEPT !.pc = "execute", !.copy = r]) /\ Save(o, r)
    BY <1>5 DEF Start
  <2>4. task' \in [Processes -> [Operations -> Task]]
    BY <2>2, <2>3, PutEffect
  <2>5. row' \in [Operations -> Row]
    BY <2>1, <2>3, SaveEffect
  <2>6. runs' \in [Operations -> Nat]
    BY <1>5 DEF Start
  <2> QED
    BY <1>5, <2>4, <2>5, <2>6 DEF Start, process
<1>6. CASE PersistSucceeded(p, o) \/ PersistFailed(p, o)
  <2>1. task' \in [Processes -> [Operations -> Task]]
    BY <1>6, FinishEffect DEF PersistSucceeded, PersistFailed
  <2>2. row' \in [Operations -> Row]
    BY <1>6, <1>copy, <1>writes, SaveEffect DEF PersistSucceeded, PersistFailed
  <2> QED
    BY <1>6, <2>1, <2>2 DEF PersistSucceeded, PersistFailed, process
<1>7. CASE PersistException(p, o)
  <2>1. [NoTask EXCEPT !.pc = "next"] \in Task
    BY InitialValuesTyped, ChangedTaskTyped DEF Stages
  <2>2. task' \in [Processes -> [Operations -> Task]]
    BY <1>7, <2>1, PutEffect, FinishEffect DEF PersistException
  <2>3. row' \in [Operations -> Row]
    BY <1>7, <1>copy, <1>writes, SaveEffect DEF PersistException
  <2> QED
    BY <1>7, <2>2, <2>3 DEF PersistException, process
<1>8. CASE Look(p, o)
  <2> DEFINE pc == IF o \in CreateOps
                   THEN IF HasRecord(o) THEN "succeed" ELSE "commit"
                   ELSE IF VersionMoved(o) THEN "fail" ELSE "insert"
  <2>1. pc \in Stages
    BY DEF Stages
  <2>2. made[o] \in Nat
    OBVIOUS
  <2>3. [task[p][o] EXCEPT !.seen = made[o], !.pc = pc] \in Task
    BY <1>copy, <2>1, <2>2, ChangedTaskTyped
  <2>4. task' \in [Processes -> [Operations -> Task]]
    BY <1>8, <2>3, PutEffect DEF Look
  <2> QED
    BY <1>8, <2>4 DEF Look, store, process
<1>9. CASE CommitCreate(p, o)
  <2>1. task' \in [Processes -> [Operations -> Task]]
    BY <1>9, GotoEffect DEF CommitCreate, Stages
  <2> QED
    BY <1>9, <2>1 DEF CommitCreate, process
<1>10. CASE InsertVersion(p, o)
  <2>1. task' \in [Processes -> [Operations -> Task]]
    BY <1>10, GotoEffect DEF InsertVersion, Stages
  <2>2. draft' \in [Operations -> BOOLEAN]
    BY <1>10 DEF InsertVersion
  <2> QED
    BY <1>10, <2>1, <2>2 DEF InsertVersion, process
<1>11. CASE CommitVersion(p, o)
  <2>1. task' \in [Processes -> [Operations -> Task]]
    BY <1>11, GotoEffect DEF CommitVersion, Stages
  <2> QED
    BY <1>11, <2>1 DEF CommitVersion, process
<1>12. CASE Decline(p, o) \/ ExecutorRaises(p, o)
  <2>1. task' \in [Processes -> [Operations -> Task]]
    BY <1>12, GotoEffect DEF Decline, ExecutorRaises, Stages
  <2> QED
    BY <1>12, <2>1 DEF Decline, ExecutorRaises, store, process
<1> QED
  BY <1>1, <1>2, <1>3, <1>4, <1>5, <1>6, <1>7, <1>8, <1>9, <1>10, <1>11,
     <1>12 DEF TaskStep

\* Stopping a process leaves it without tasks, backlog and requests.
LEMMA StopEffect ==
  ASSUME TypeOK, NEW p \in Processes, Stop(p)
  PROVE  /\ up' \in [Processes -> {"down", "recovering", "serving"}]
         /\ backlog' \in [Processes -> SUBSET Operations]
         /\ task' \in [Processes -> [Operations -> Task]]
         /\ control' \in [Processes -> [Operations -> Control]]
         /\ \A o \in Operations : task'[p][o] = NoTask /\ control'[p][o] = NoControl
         /\ up'[p] = "down" /\ backlog'[p] = {}
         /\ \A q \in Processes \ {p} :
              /\ up'[q] = up[q] /\ backlog'[q] = backlog[q]
              /\ task'[q] = task[q] /\ control'[q] = control[q]
  BY InitialValuesTyped DEF Stop, TypeOK

\* Every step keeps the types.
LEMMA StepTyped == TypeOK /\ [Next]_vars => TypeOK'
<1> SUFFICES ASSUME TypeOK, [Next]_vars PROVE TypeOK'
  OBVIOUS
<1>1. ASSUME NEW p \in Processes, NEW o \in Operations, Submit(p, o) PROVE TypeOK'
  <2>1. [NoRow EXCEPT !.status = "PENDING", !.created = Cardinality(Accepted) + 1] \in Row
    <3>1. Cardinality(Accepted) + 1 \in Nat
      BY RankTyped
    <3> QED
      BY <3>1, InitialValuesTyped, FirstRowTyped
  <2>2. row' \in [Operations -> Row]
    BY <1>1, <2>1, SaveEffect DEF Submit, TypeOK
  <2>3. task' \in [Processes -> [Operations -> Task]]
    BY <1>1, GotoEffect DEF Submit, TypeOK, Stages
  <2> QED
    BY <1>1, <2>2, <2>3 DEF Submit, TypeOK, process
<1>2. ASSUME NEW p \in Processes, NEW o \in Operations, RecoverNext(p, o) PROVE TypeOK'
  <2>1. task' \in [Processes -> [Operations -> Task]]
    BY <1>2, GotoEffect DEF RecoverNext, TypeOK, Stages
  <2> QED
    BY <1>2, <2>1 DEF RecoverNext, TypeOK, store
<1>3. ASSUME NEW p \in Processes, NEW o \in Operations, StoreFails(p, o) PROVE TypeOK'
  <2>1. faults' \in 0 .. MaxFaults
    BY <1>3, LimitsAssumption DEF StoreFails, TypeOK
  <2>2. CASE Stop(p)
    BY <1>3, <2>1, <2>2, StopEffect DEF StoreFails, TypeOK, store
  <2>3. CASE Finish(p, o) /\ UNCHANGED <<process, control>>
    BY <1>3, <2>1, <2>3, FinishEffect DEF StoreFails, TypeOK, store, process
  <2> QED
    BY <1>3, <2>2, <2>3 DEF StoreFails
<1>4. ASSUME NEW p \in Processes, NEW o \in Operations, EvaluateQuarantine(p, o)
      PROVE  TypeOK'
  <2>1. [pc |-> "write", copy |-> row[o]] \in Control
    BY DEF TypeOK, Control
  <2> QED
    BY <1>4, <2>1 DEF EvaluateQuarantine, TypeOK, store, process
<1>5. ASSUME NEW p \in Processes, NEW o \in Operations, WriteQuarantine(p, o)
      PROVE  TypeOK'
  <2>1. control[p][o].copy \in Row
    BY DEF TypeOK, Control
  <2>2. [control[p][o].copy EXCEPT !.status = "FAILED", !.lease = 0,
                                   !.error = "quarantined"] \in Row
    BY <2>1, ChangedRowTyped
  <2>3. row' \in [Operations -> Row]
    BY <1>5, <2>2, SaveEffect DEF WriteQuarantine, TypeOK
  <2> QED
    BY <1>5, <2>3, InitialValuesTyped DEF WriteQuarantine, TypeOK, process
<1>6. ASSUME NEW p \in Processes, StartUp(p) PROVE TypeOK'
  BY <1>6, ListTyped DEF StartUp, TypeOK, store
<1>7. ASSUME NEW p \in Processes, Serve(p) PROVE TypeOK'
  BY <1>7 DEF Serve, TypeOK, store
<1>8. ASSUME NEW p \in Processes, Crash(p) PROVE TypeOK'
  BY <1>8, StopEffect, LimitsAssumption DEF Crash, TypeOK, store
<1>9. CASE Tick
  BY <1>9, LimitsAssumption DEF Tick, TypeOK, store, process
<1>10. CASE UNCHANGED vars
  BY <1>10 DEF vars, TypeOK, store, process
<1> QED
  BY <1>1, <1>2, <1>3, <1>4, <1>5, <1>6, <1>7, <1>8, <1>9, <1>10, TaskStepTyped DEF Next

\* Every variable keeps the shape of the table or thread state it stands for,
\* whatever the processes do.
THEOREM TypeCorrect == Spec => []TypeOK
<1>1. Init => TypeOK
  BY InitialValuesTyped, LimitsAssumption DEF Init, TypeOK
<1> QED
  BY <1>1, StepTyped, PTL DEF Spec

-----------------------------------------------------------------------------
(* With any number of processes: what every copy of a row satisfies.       *)

Coherent(r) ==
  /\ r.attempts <= MaxAttempts
  /\ r.status = "RUNNING" => r.attempts > 0
  /\ r.status = "RUNNING" <=> r.lease # 0

RowSound(r, n) == Coherent(r) /\ (r.status = "SUCCEEDED" => n > 0)

TaskSound(t, n) ==
  /\ t.pc \notin {"none", "queued", "next"} => Coherent(t.copy)
  /\ t.pc = "start" => t.copy.attempts < MaxAttempts
  /\ t.pc = "succeed" => n > 0

ControlSound(c) == c.pc = "write" => Coherent(c.copy)

\* A copy may be stale, but whatever is written back is coherent: this is what
\* survives of the row's invariants when several processes write it.
CopiesAreSound ==
  /\ \A o \in Operations : RowSound(row[o], made[o])
  /\ \A p \in Processes, o \in Operations :
       TaskSound(task[p][o], made[o]) /\ ControlSound(control[p][o])

\* The writes of the runner and of the operator are coherent.
LEMMA WritesCoherent ==
  ASSUME now \in Nat, NEW r \in Row, Coherent(r)
  PROVE  /\ r.attempts < MaxAttempts => Coherent(begin_async_attempt(r))
         /\ Coherent(mark_operation_succeeded(r))
         /\ Coherent(mark_operation_failed(r))
         /\ Coherent(apply_runtime_exception_outcome(r))
         /\ Coherent([r EXCEPT !.status = "FAILED", !.lease = 0, !.error = "quarantined"])
<1> USE DEF Coherent, Row
<1>1. ASSUME r.attempts < MaxAttempts PROVE Coherent(begin_async_attempt(r))
  <2>1. now + LeaseTime \in Nat \ {0} /\ MaxAttempts \in Nat
    BY LimitsAssumption
  <2>2. r.attempts + 1 <= MaxAttempts /\ r.attempts + 1 > 0
    BY <1>1, <2>1
  <2>3. /\ begin_async_attempt(r).status = "RUNNING"
        /\ begin_async_attempt(r).attempts = r.attempts + 1
        /\ begin_async_attempt(r).lease = now + LeaseTime
    BY DEF begin_async_attempt
  <2> QED
    BY <2>1, <2>2, <2>3
<1>2. Coherent(mark_operation_succeeded(r)) /\ Coherent(mark_operation_failed(r))
  BY DEF mark_operation_succeeded, mark_operation_failed
<1>3. Coherent(apply_runtime_exception_outcome(r))
  BY DEF apply_runtime_exception_outcome, Retries
<1>4. Coherent([r EXCEPT !.status = "FAILED", !.lease = 0, !.error = "quarantined"])
  OBVIOUS
<1> QED
  BY <1>1, <1>2, <1>3, <1>4

\* A step at one process and one operation that leaves its own row, task and
\* effects sound leaves everything sound, for effects are never taken back.
LEMMA LocalStepSound ==
  ASSUME TypeOK, CopiesAreSound, NEW p \in Processes, NEW o \in Operations,
         \A x \in Operations \ {o} : row'[x] = row[x] /\ made'[x] = made[x],
         \A q \in Processes, x \in Operations :
           q # p \/ x # o => task'[q][x] = task[q][x],
         \A q \in Processes, x \in Operations :
           control'[q][x] = control[q][x] \/ ControlSound(control'[q][x]),
         made'[o] \in Nat, made[o] <= made'[o],
         RowSound(row'[o], made'[o]), TaskSound(task'[p][o], made'[o])
  PROVE  CopiesAreSound'
<1>1. made[o] \in Nat
  BY DEF TypeOK
<1>2. ASSUME NEW x \in Operations PROVE RowSound(row'[x], made'[x])
  BY DEF CopiesAreSound
<1>3. ASSUME NEW q \in Processes, NEW x \in Operations
      PROVE  TaskSound(task'[q][x], made'[x]) /\ ControlSound(control'[q][x])
  <2>1. ControlSound(control'[q][x])
    BY DEF CopiesAreSound
  <2>2. TaskSound(task'[q][x], made'[x])
    <3>1. CASE x # o
      BY <3>1 DEF CopiesAreSound
    <3>2. CASE x = o /\ q = p
      BY <3>2
    <3>3. CASE x = o /\ q # p
      BY <1>1, <3>3 DEF CopiesAreSound, TaskSound
    <3> QED
      BY <3>1, <3>2, <3>3
  <2> QED
    BY <2>1, <2>2
<1> QED
  BY <1>2, <1>3 DEF CopiesAreSound

\* Each step of a task.
LEMMA TaskStepSound ==
  ASSUME TypeOK, CopiesAreSound, NEW p \in Processes, NEW o \in Operations, TaskStep(p, o)
  PROVE  CopiesAreSound'
<1> DEFINE t == task[p][o]
<1>types. /\ task \in [Processes -> [Operations -> Task]] /\ row \in [Operations -> Row]
          /\ t \in Task /\ t.copy \in Row /\ row[o] \in Row
          /\ made[o] \in Nat /\ now \in Nat /\ made \in [Operations -> Nat]
  BY LimitsAssumption DEF TypeOK, Task
<1>sound. RowSound(row[o], made[o]) /\ TaskSound(t, made[o])
  BY DEF CopiesAreSound
<1>1. CASE Begin(p, o)
  <2>1. /\ task'[p][o] = [t EXCEPT !.pc = "next"]
        /\ \A q \in Processes, x \in Operations : q # p \/ x # o => task'[q][x] = task[q][x]
    BY <1>1, <1>types, GotoEffect DEF Begin, Stages
  <2>2. TaskSound(task'[p][o], made[o])
    BY <2>1, <1>types DEF TaskSound, Task
  <2> QED
    BY <1>1, <2>1, <2>2, <1>types, <1>sound, LocalStepSound DEF Begin, store
<1>2. CASE RejectPayload(p, o)
  <2>1. [t EXCEPT !.pc = "fail", !.copy = row[o]] \in Task
    BY <1>types, ChangedTaskTyped DEF Stages
  <2>2. /\ task'[p][o] = [t EXCEPT !.pc = "fail", !.copy = row[o]]
        /\ \A q \in Processes, x \in Operations : q # p \/ x # o => task'[q][x] = task[q][x]
    BY <1>2, <2>1, <1>types, PutEffect DEF RejectPayload
  <2>3. TaskSound(task'[p][o], made[o])
    BY <2>2, <1>types, <1>sound DEF TaskSound, RowSound, Task
  <2> QED
    BY <1>2, <2>2, <2>3, <1>types, <1>sound, LocalStepSound DEF RejectPayload, store
<1>3. CASE SkipFinished(p, o)
  <2>1. /\ task'[p][o] = NoTask
        /\ \A q \in Processes, x \in Operations : q # p \/ x # o => task'[q][x] = task[q][x]
    BY <1>3, <1>types, FinishEffect DEF SkipFinished
  <2>2. TaskSound(task'[p][o], made[o])
    BY <2>1 DEF TaskSound, NoTask
  <2> QED
    BY <1>3, <2>1, <2>2, <1>types, <1>sound, LocalStepSound DEF SkipFinished, store
<1>4. CASE ReadForAttempt(p, o)
  <2> DEFINE pc == IF has_exhausted(row[o]) THEN "fail" ELSE "start"
             u == [t EXCEPT !.pc = pc, !.copy = row[o]]
  <2>1. pc \in Stages /\ u \in Task
    BY <1>types, ChangedTaskTyped DEF Stages
  <2>2. /\ task'[p][o] = u
        /\ \A q \in Processes, x \in Operations : q # p \/ x # o => task'[q][x] = task[q][x]
    BY <1>4, <2>1, <1>types, PutEffect DEF ReadForAttempt
  <2>3. u.pc = pc /\ u.copy = row[o]
    BY <1>types DEF Task
  <2>4. pc = "start" => row[o].attempts < MaxAttempts
    BY <1>types, LimitsAssumption DEF has_exhausted, Row
  <2>5. TaskSound(u, made[o])
    BY <2>3, <2>4, <1>sound DEF TaskSound, RowSound
  <2> QED
    BY <1>4, <2>2, <2>5, <1>types, <1>sound, LocalStepSound DEF ReadForAttempt, store
<1>5. CASE Start(p, o)
  <2> DEFINE r == begin_async_attempt(t.copy)
             u == [t EXCEPT !.pc = "execute", !.copy = r]
  <2>1. r \in Row /\ u \in Task
    BY <1>types, RowUpdatesTyped, ChangedTaskTyped DEF Stages
  <2>2. Put(p, o, u) /\ Save(o, r) /\ t.pc = "start" /\ UNCHANGED <<made, control>>
    BY <1>5 DEF Start, process
  <2>3. /\ task'[p][o] = u
        /\ \A q \in Processes, x \in Operations : q # p \/ x # o => task'[q][x] = task[q][x]
    BY <2>1, <2>2, <1>types, PutEffect
  <2>4. row'[o] = r /\ \A x \in Operations \ {o} : row'[x] = row[x]
    BY <2>1, <2>2, <1>types, SaveEffect
  <2>5. Coherent(r)
    BY <2>2, <1>types, <1>sound, WritesCoherent DEF TaskSound
  <2>6. r.status = "RUNNING"
    BY <1>types DEF begin_async_attempt, Row
  <2>7. u.pc = "execute" /\ u.copy = r
    BY <1>types DEF Task
  <2>8. RowSound(r, made[o]) /\ TaskSound(u, made[o])
    BY <2>5, <2>6, <2>7 DEF RowSound, TaskSound
  <2> QED
    BY <2>2, <2>3, <2>4, <2>8, <1>types, LocalStepSound
<1>6. CASE PersistSucceeded(p, o)
  <2> DEFINE r == mark_operation_succeeded(t.copy)
  <2>1. r \in Row
    BY <1>types, RowUpdatesTyped
  <2>2. /\ Finish(p, o) /\ Save(o, r) /\ t.pc = "succeed" /\ UNCHANGED <<made, control>>
    BY <1>6 DEF PersistSucceeded
  <2>3. /\ task'[p][o] = NoTask
        /\ \A q \in Processes, x \in Operations : q # p \/ x # o => task'[q][x] = task[q][x]
    BY <2>2, <1>types, FinishEffect
  <2>4. row'[o] = r /\ \A x \in Operations \ {o} : row'[x] = row[x]
    BY <2>1, <2>2, <1>types, SaveEffect
  <2>5. Coherent(r) /\ made[o] > 0
    BY <2>2, <1>types, <1>sound, WritesCoherent DEF TaskSound
  <2>6. RowSound(r, made[o]) /\ TaskSound(NoTask, made[o])
    BY <2>5 DEF RowSound, TaskSound, NoTask
  <2> QED
    BY <2>2, <2>3, <2>4, <2>6, <1>types, LocalStepSound
<1>7. CASE PersistFailed(p, o)
  <2> DEFINE r == mark_operation_failed(t.copy)
  <2>1. r \in Row
    BY <1>types, RowUpdatesTyped
  <2>2. /\ Finish(p, o) /\ Save(o, r) /\ t.pc = "fail" /\ UNCHANGED <<made, control>>
    BY <1>7 DEF PersistFailed
  <2>3. /\ task'[p][o] = NoTask
        /\ \A q \in Processes, x \in Operations : q # p \/ x # o => task'[q][x] = task[q][x]
    BY <2>2, <1>types, FinishEffect
  <2>4. row'[o] = r /\ \A x \in Operations \ {o} : row'[x] = row[x]
    BY <2>1, <2>2, <1>types, SaveEffect
  <2>5. Coherent(r) /\ r.status = "FAILED"
    <3>1. Coherent(r)
      BY <2>2, <1>types, <1>sound, WritesCoherent DEF TaskSound
    <3>2. r.status = "FAILED"
      BY <1>types DEF mark_operation_failed, Row
    <3> QED
      BY <3>1, <3>2
  <2>6. RowSound(r, made[o]) /\ TaskSound(NoTask, made[o])
    BY <2>5 DEF RowSound, TaskSound, NoTask
  <2> QED
    BY <2>2, <2>3, <2>4, <2>6, <1>types, LocalStepSound
<1>8. CASE PersistException(p, o)
  <2> DEFINE r == apply_runtime_exception_outcome(t.copy)
             again == [NoTask EXCEPT !.pc = "next"]
  <2>1. r \in Row /\ again \in Task
    BY <1>types, RowUpdatesTyped, InitialValuesTyped, ChangedTaskTyped DEF Stages
  <2>2. /\ Finish(p, o) \/ Put(p, o, again)
        /\ Save(o, r) /\ t.pc = "raise" /\ UNCHANGED <<made, control>>
    BY <1>8 DEF PersistException
  <2>3. /\ task'[p][o] \in {NoTask, again}
        /\ \A q \in Processes, x \in Operations : q # p \/ x # o => task'[q][x] = task[q][x]
    BY <2>1, <2>2, <1>types, FinishEffect, PutEffect
  <2>4. row'[o] = r /\ \A x \in Operations \ {o} : row'[x] = row[x]
    BY <2>1, <2>2, <1>types, SaveEffect
  <2>5. Coherent(r)
    BY <2>2, <1>types, <1>sound, WritesCoherent DEF TaskSound
  <2>6. r.status # "SUCCEEDED"
    BY <1>types DEF apply_runtime_exception_outcome, Row
  <2>7. TaskSound(task'[p][o], made[o])
    <3>1. NoTask.pc = "none" /\ again.pc = "next"
      BY InitialValuesTyped DEF NoTask, Task
    <3> QED
      BY <2>3, <3>1 DEF TaskSound
  <2> QED
    BY <2>2, <2>3, <2>4, <2>5, <2>6, <2>7, <1>types, LocalStepSound DEF RowSound
<1>9. CASE Look(p, o)
  <2> DEFINE pc == IF o \in CreateOps
                   THEN IF HasRecord(o) THEN "succeed" ELSE "commit"
                   ELSE IF VersionMoved(o) THEN "fail" ELSE "insert"
             u == [t EXCEPT !.seen = made[o], !.pc = pc]
  <2>1. pc \in Stages /\ u \in Task
    <3>1. pc \in Stages
      BY DEF Stages
    <3> QED
      BY <3>1, <1>types, ChangedTaskTyped
  <2>2. Put(p, o, u) /\ t.pc = "execute" /\ UNCHANGED <<row, made, control>>
    BY <1>9 DEF Look, store
  <2>3. /\ task'[p][o] = u
        /\ \A q \in Processes, x \in Operations : q # p \/ x # o => task'[q][x] = task[q][x]
    BY <2>1, <2>2, <1>types, PutEffect
  <2>4. u.pc = pc /\ u.copy = t.copy
    BY <1>types DEF Task
  <2>5. pc \notin {"start"} /\ (pc = "succeed" => made[o] > 0)
    BY DEF HasRecord
  <2>6. TaskSound(u, made[o])
    BY <2>2, <2>4, <2>5, <1>sound DEF TaskSound
  <2> QED
    BY <2>2, <2>3, <2>6, <1>types, <1>sound, LocalStepSound
<1>10. ASSUME t.pc \in {"execute", "insert", "commit"}, NEW pc \in {"raise", "commit", "fail"},
              Goto(p, o, pc), UNCHANGED <<row, made, control>>
       PROVE  CopiesAreSound'
  <2> pc \in Stages /\ Goto(p, o, pc)
    BY <1>10 DEF Stages
  <2>1. /\ task'[p][o] = [t EXCEPT !.pc = pc]
        /\ \A q \in Processes, x \in Operations : q # p \/ x # o => task'[q][x] = task[q][x]
    BY <1>types, GotoEffect
  <2>2. task'[p][o].pc = pc /\ task'[p][o].copy = t.copy
    BY <2>1, <1>types DEF Task
  <2>3. TaskSound(task'[p][o], made[o])
    BY <1>10, <2>2, <1>sound DEF TaskSound
  <2> QED
    BY <1>10, <2>1, <2>3, <1>types, <1>sound, LocalStepSound
<1>11. CASE InsertVersion(p, o) \/ Decline(p, o) \/ ExecutorRaises(p, o)
  BY <1>10, <1>11 DEF InsertVersion, Decline, ExecutorRaises, store
<1>12. CASE CommitCreate(p, o) \/ CommitVersion(p, o)
  <2>1. /\ t.pc = "commit" /\ Goto(p, o, "succeed") /\ UNCHANGED <<row, control>>
        /\ made' = [made EXCEPT ![o] = @ + 1]
    BY <1>12 DEF CommitCreate, CommitVersion
  <2>2. /\ task'[p][o] = [t EXCEPT !.pc = "succeed"]
        /\ \A q \in Processes, x \in Operations : q # p \/ x # o => task'[q][x] = task[q][x]
    BY <2>1, <1>types, GotoEffect DEF Stages
  <2>3. made'[o] = made[o] + 1 /\ \A x \in Operations \ {o} : made'[x] = made[x]
    BY <2>1, <1>types
  <2>4. task'[p][o].pc = "succeed" /\ task'[p][o].copy = t.copy
    BY <2>2, <1>types DEF Task
  <2>5. made'[o] \in Nat /\ made'[o] > 0 /\ made[o] <= made'[o]
    BY <2>3, <1>types
  <2>6. TaskSound(task'[p][o], made'[o]) /\ RowSound(row'[o], made'[o])
    BY <2>1, <2>4, <2>5, <1>sound DEF TaskSound, RowSound
  <2> QED
    BY <2>1, <2>2, <2>3, <2>5, <2>6, LocalStepSound
<1> QED
  BY <1>1, <1>2, <1>3, <1>4, <1>5, <1>6, <1>7, <1>8, <1>9, <1>11, <1>12 DEF TaskStep

\* Every step keeps the copies sound.
LEMMA StepSound == TypeOK /\ CopiesAreSound /\ [Next]_vars => CopiesAreSound'
<1> SUFFICES ASSUME TypeOK, CopiesAreSound, [Next]_vars PROVE CopiesAreSound'
  OBVIOUS
<1>types. /\ task \in [Processes -> [Operations -> Task]] /\ row \in [Operations -> Row]
          /\ control \in [Processes -> [Operations -> Control]]
          /\ made \in [Operations -> Nat] /\ now \in Nat
  BY LimitsAssumption DEF TypeOK
<1>none. \A n : TaskSound(NoTask, n) /\ ControlSound(NoControl)
  BY DEF TaskSound, NoTask, ControlSound, NoControl
<1>1. ASSUME NEW p \in Processes, NEW o \in Operations, Submit(p, o)
      PROVE  CopiesAreSound'
  <2> DEFINE r == [NoRow EXCEPT !.status = "PENDING", !.created = Cardinality(Accepted) + 1]
  <2>1. r \in Row
    <3>1. Cardinality(Accepted) + 1 \in Nat
      BY RankTyped
    <3> QED
      BY <3>1, InitialValuesTyped, FirstRowTyped
  <2>2. Save(o, r) /\ Goto(p, o, "queued") /\ UNCHANGED <<made, control>>
    BY <1>1 DEF Submit
  <2>3. row'[o] = r /\ \A x \in Operations \ {o} : row'[x] = row[x]
    BY <2>1, <2>2, <1>types, SaveEffect
  <2>4. /\ task'[p][o] = [task[p][o] EXCEPT !.pc = "queued"]
        /\ \A q \in Processes, x \in Operations : q # p \/ x # o => task'[q][x] = task[q][x]
    BY <2>2, <1>types, GotoEffect DEF Stages
  <2>5. RowSound(r, made[o])
    BY LimitsAssumption DEF RowSound, Coherent, NoRow
  <2>6. TaskSound(task'[p][o], made[o])
    BY <2>4, <1>types DEF TaskSound, Task
  <2> QED
    BY <2>2, <2>3, <2>4, <2>5, <2>6, <1>types, LocalStepSound
<1>2. ASSUME NEW p \in Processes, NEW o \in Operations, RecoverNext(p, o)
      PROVE  CopiesAreSound'
  <2>1. Goto(p, o, "queued") /\ UNCHANGED <<row, made, control>>
    BY <1>2 DEF RecoverNext, store
  <2>2. /\ task'[p][o] = [task[p][o] EXCEPT !.pc = "queued"]
        /\ \A q \in Processes, x \in Operations : q # p \/ x # o => task'[q][x] = task[q][x]
    BY <2>1, <1>types, GotoEffect DEF Stages
  <2>3. TaskSound(task'[p][o], made[o])
    BY <2>2, <1>types DEF TaskSound, Task
  <2>4. RowSound(row[o], made[o])
    BY DEF CopiesAreSound
  <2> QED
    BY <2>1, <2>2, <2>3, <2>4, <1>types, LocalStepSound
<1>3. ASSUME NEW p \in Processes, Stop(p), UNCHANGED <<row, made>>
      PROVE  CopiesAreSound'
  <2>1. /\ \A o \in Operations : task'[p][o] = NoTask /\ control'[p][o] = NoControl
        /\ \A q \in Processes \ {p} : task'[q] = task[q] /\ control'[q] = control[q]
    BY <1>3, StopEffect
  <2>2. ASSUME NEW q \in Processes, NEW x \in Operations
        PROVE  TaskSound(task'[q][x], made[x]) /\ ControlSound(control'[q][x])
    BY <2>1, <1>none DEF CopiesAreSound
  <2> QED
    BY <1>3, <2>2 DEF CopiesAreSound
<1>4. ASSUME NEW p \in Processes, NEW o \in Operations, StoreFails(p, o)
      PROVE  CopiesAreSound'
  <2>1. CASE Stop(p)
    BY <1>3, <1>4, <2>1 DEF StoreFails, store
  <2>2. CASE Finish(p, o) /\ UNCHANGED <<process, control>>
    <3>1. /\ task'[p][o] = NoTask
          /\ \A q \in Processes, x \in Operations : q # p \/ x # o => task'[q][x] = task[q][x]
      BY <2>2, <1>types, FinishEffect
    <3>2. RowSound(row[o], made[o]) /\ TaskSound(task'[p][o], made[o])
      BY <3>1, <1>none DEF CopiesAreSound
    <3>3. UNCHANGED <<row, made, control>>
      BY <1>4, <2>2 DEF StoreFails, store
    <3> QED
      BY <3>1, <3>2, <3>3, <1>types, LocalStepSound
  <2> QED
    BY <1>4, <2>1, <2>2 DEF StoreFails
<1>5. ASSUME NEW p \in Processes, NEW o \in Operations, EvaluateQuarantine(p, o)
      PROVE  CopiesAreSound'
  <2> DEFINE c == [pc |-> "write", copy |-> row[o]]
  <2>1. UNCHANGED <<row, made, task>> /\ control' = [control EXCEPT ![p][o] = c]
    BY <1>5 DEF EvaluateQuarantine, store
  <2>2. ControlSound(c)
    BY DEF CopiesAreSound, RowSound, ControlSound
  <2>3. \A q \in Processes, x \in Operations :
          control'[q][x] = control[q][x] \/ control'[q][x] = c
    BY <2>1, <1>types
  <2> QED
    BY <2>1, <2>2, <2>3 DEF CopiesAreSound
<1>6. ASSUME NEW p \in Processes, NEW o \in Operations, WriteQuarantine(p, o)
      PROVE  CopiesAreSound'
  <2> DEFINE c == control[p][o].copy
             r == [c EXCEPT !.status = "FAILED", !.lease = 0, !.error = "quarantined"]
  <2>1. /\ control[p][o].pc = "write" /\ Save(o, r) /\ UNCHANGED <<made, task>>
        /\ control' = [control EXCEPT ![p][o] = NoControl]
    BY <1>6 DEF WriteQuarantine
  <2>2. c \in Row /\ Coherent(c)
    BY <2>1, <1>types DEF CopiesAreSound, ControlSound, Control
  <2>3. r \in Row /\ Coherent(r)
    BY <2>2, <1>types, ChangedRowTyped, WritesCoherent
  <2>4. r.status = "FAILED"
    BY <2>2 DEF Row
  <2>5. row'[o] = r /\ \A x \in Operations \ {o} : row'[x] = row[x]
    BY <2>1, <2>3, <1>types, SaveEffect
  <2>6. \A q \in Processes, x \in Operations :
          control'[q][x] = control[q][x] \/ control'[q][x] = NoControl
    BY <2>1, <1>types
  <2>7. RowSound(r, made[o])
    BY <2>3, <2>4 DEF RowSound
  <2>8. ASSUME NEW x \in Operations PROVE RowSound(row'[x], made[x])
    BY <2>5, <2>7 DEF CopiesAreSound
  <2>9. ASSUME NEW q \in Processes, NEW x \in Operations
        PROVE  TaskSound(task'[q][x], made[x]) /\ ControlSound(control'[q][x])
    BY <2>1, <2>6, <1>none DEF CopiesAreSound
  <2> QED
    BY <2>1, <2>8, <2>9 DEF CopiesAreSound
<1>7. CASE UNCHANGED <<row, made, task, control>>
  BY <1>7 DEF CopiesAreSound
<1>8. ASSUME NEW p \in Processes, StartUp(p) \/ Serve(p) PROVE CopiesAreSound'
  BY <1>7, <1>8 DEF StartUp, Serve, store
<1>9. ASSUME NEW p \in Processes, Crash(p) PROVE CopiesAreSound'
  BY <1>3, <1>9 DEF Crash, store
<1>10. CASE Tick \/ UNCHANGED vars
  BY <1>7, <1>10 DEF Tick, vars, store
<1> QED
  BY <1>1, <1>2, <1>4, <1>5, <1>6, <1>8, <1>9, <1>10, TaskStepSound DEF Next

\* The copies of every process, and every row, stay sound.
LEMMA CopiesStaySound == Spec => []CopiesAreSound
<1>1. Init => CopiesAreSound
  BY LimitsAssumption DEF Init, CopiesAreSound, RowSound, TaskSound, ControlSound, Coherent,
     NoRow, NoTask, NoControl
<1> QED
  BY <1>1, StepSound, TypeCorrect, PTL DEF Spec

\* No stored count of attempts exceeds the limit and no row runs uncounted,
\* however many processes run or recover the same operation: each claims it from
\* a copy on which has_exhausted_async_attempts was checked.
THEOREM AttemptsAreCounted == Spec => []AttemptsStayCounted
<1>1. CopiesAreSound => AttemptsStayCounted
  BY DEF CopiesAreSound, RowSound, Coherent, AttemptsStayCounted
<1> QED
  BY <1>1, CopiesStaySound, PTL

\* A row has a lease if and only if it is RUNNING, also after writes from stale
\* copies: begin_async_attempt sets both and every other write clears both.
THEOREM LeaseMeansRunning == Spec => []RunningIsLeased
<1>1. CopiesAreSound => RunningIsLeased
  BY DEF CopiesAreSound, RowSound, Coherent, RunningIsLeased
<1> QED
  BY <1>1, CopiesStaySound, PTL

\* SUCCEEDED is stored for committed work only, whatever crashes or overlaps:
\* a task reaches that write after its command has committed or has found the
\* record of the one that did.
THEOREM SuccessIsBacked == Spec => []SuccessHasItsEffect
<1>1. CopiesAreSound => SuccessHasItsEffect
  BY DEF CopiesAreSound, RowSound, SuccessHasItsEffect
<1> QED
  BY <1>1, CopiesStaySound, PTL

-----------------------------------------------------------------------------
(* What a step of a task does, in terms of the task and the row before and *)
(* after it: the case analysis the theorems below share.                   *)

\* A call that reads, or a command that ends without an effect.
TaskReads(p, o) ==
  LET t == task[p][o]
      u == task'[p][o]
  IN /\ row'[o] = row[o] /\ made'[o] = made[o] /\ runs'[o] = runs[o]
     /\ \/ t.pc = "queued" /\ u.pc = "next"
        \/ t.pc = "queued" /\ u.pc = "fail" /\ u.copy = row[o]
        \/ t.pc = "next" /\ u.pc = "none" /\ should_skip(row[o])
        \/ /\ t.pc = "next" /\ ~should_skip(row[o]) /\ u.copy = row[o]
           /\ u.pc = IF has_exhausted(row[o]) THEN "fail" ELSE "start"
        \/ /\ t.pc = "execute" /\ u.copy = t.copy /\ u.seen = made[o]
           /\ u.pc = IF o \in CreateOps
                     THEN IF HasRecord(o) THEN "succeed" ELSE "commit"
                     ELSE IF VersionMoved(o) THEN "fail" ELSE "insert"
        \/ /\ t.pc \in {"execute", "insert", "commit"} /\ u.copy = t.copy /\ u.seen = t.seen
           /\ u.pc \in {"fail", "raise"} \/ (t.pc = "insert" /\ u.pc = "commit")

\* The write that claims an attempt.
TaskStarts(p, o) ==
  /\ task[p][o].pc = "start" /\ task'[p][o].pc = "execute"
  /\ row'[o] = begin_async_attempt(task[p][o].copy) /\ task'[p][o].copy = row'[o]
  /\ runs'[o] = IF runs[o] > MaxAttempts THEN runs[o] ELSE runs[o] + 1
  /\ made'[o] = made[o]

\* The transaction of the command.
TaskCommits(p, o) ==
  /\ task[p][o].pc = "commit" /\ task'[p][o].pc = "succeed"
  /\ task'[p][o].copy = task[p][o].copy
  /\ o \in CreateOps \/ (o \in VersionOps /\ made[o] = task[p][o].seen)
  /\ made'[o] = made[o] + 1
  /\ row'[o] = row[o] /\ runs'[o] = runs[o]

\* The write of an outcome.
TaskPersists(p, o) ==
  LET t == task[p][o]
      u == task'[p][o]
  IN /\ made'[o] = made[o] /\ runs'[o] = runs[o]
     /\ \/ t.pc = "succeed" /\ u.pc = "none" /\ row'[o] = mark_operation_succeeded(t.copy)
        \/ t.pc = "fail" /\ u.pc = "none" /\ row'[o] = mark_operation_failed(t.copy)
        \/ /\ t.pc = "raise" /\ row'[o] = apply_runtime_exception_outcome(t.copy)
           /\ u.pc = IF Retries(t.copy) THEN "next" ELSE "none"

\* The step is at one process and one operation.
Elsewhere(p, o) ==
  /\ \A q \in Processes, x \in Operations : q # p \/ x # o => task'[q][x] = task[q][x]
  /\ \A x \in Operations \ {o} :
       row'[x] = row[x] /\ made'[x] = made[x] /\ runs'[x] = runs[x]

\* Every step of a task is one of the four, and leaves everything else alone.
LEMMA TaskStepKinds ==
  ASSUME TypeOK, NEW p \in Processes, NEW o \in Operations, TaskStep(p, o)
  PROVE  /\ TaskReads(p, o) \/ TaskStarts(p, o) \/ TaskCommits(p, o) \/ TaskPersists(p, o)
         /\ Elsewhere(p, o)
         /\ UNCHANGED <<up, backlog, control, now, faults>>
<1> DEFINE t == task[p][o]
<1> DEFINE u == task'[p][o]
<1>types. /\ task \in [Processes -> [Operations -> Task]] /\ row \in [Operations -> Row]
          /\ made \in [Operations -> Nat] /\ runs \in [Operations -> Nat]
          /\ t \in Task /\ t.copy \in Row /\ row[o] \in Row
          /\ made[o] \in Nat /\ runs[o] \in Nat /\ now \in Nat
  BY LimitsAssumption DEF TypeOK, Task
<1>same. ASSUME UNCHANGED <<row, made, runs>>,
                \A q \in Processes, x \in Operations : q # p \/ x # o => task'[q][x] = task[q][x]
         PROVE  Elsewhere(p, o)
  BY <1>same DEF Elsewhere
<1>still. UNCHANGED <<up, backlog, control, now, faults>>
  BY DEF TaskStep, Begin, RejectPayload, SkipFinished, ReadForAttempt, Start, PersistSucceeded,
         PersistFailed, PersistException, Look, CommitCreate, InsertVersion, CommitVersion,
         Decline, ExecutorRaises, process
<1>1. CASE Begin(p, o)
  <2>1. /\ t.pc = "queued" /\ Goto(p, o, "next") /\ UNCHANGED <<row, made, runs>>
    BY <1>1 DEF Begin, store
  <2>2. /\ u = [t EXCEPT !.pc = "next"]
        /\ \A q \in Processes, x \in Operations : q # p \/ x # o => task'[q][x] = task[q][x]
    BY <2>1, <1>types, GotoEffect DEF Stages
  <2>3. u.pc = "next"
    BY <2>2, <1>types DEF Task
  <2> QED
    BY <2>1, <2>2, <2>3, <1>same, <1>still DEF TaskReads
<1>2. CASE RejectPayload(p, o)
  <2> DEFINE v == [t EXCEPT !.pc = "fail", !.copy = row[o]]
  <2>1. /\ t.pc = "queued" /\ Put(p, o, v) /\ UNCHANGED <<row, made, runs>>
    BY <1>2 DEF RejectPayload, store
  <2>2. v \in Task
    BY <1>types, ChangedTaskTyped DEF Stages
  <2>3. /\ u = v
        /\ \A q \in Processes, x \in Operations : q # p \/ x # o => task'[q][x] = task[q][x]
    BY <2>1, <2>2, <1>types, PutEffect
  <2>4. u.pc = "fail" /\ u.copy = row[o]
    BY <2>3, <1>types DEF Task
  <2> QED
    BY <2>1, <2>3, <2>4, <1>same, <1>still DEF TaskReads
<1>3. CASE SkipFinished(p, o)
  <2>1. /\ t.pc = "next" /\ should_skip(row[o]) /\ Finish(p, o) /\ UNCHANGED <<row, made, runs>>
    BY <1>3 DEF SkipFinished, store
  <2>2. /\ u = NoTask
        /\ \A q \in Processes, x \in Operations : q # p \/ x # o => task'[q][x] = task[q][x]
    BY <2>1, <1>types, FinishEffect
  <2>3. u.pc = "none"
    BY <2>2 DEF NoTask
  <2> QED
    BY <2>1, <2>2, <2>3, <1>same, <1>still DEF TaskReads
<1>4. CASE ReadForAttempt(p, o)
  <2> DEFINE pc == IF has_exhausted(row[o]) THEN "fail" ELSE "start"
             v == [t EXCEPT !.pc = pc, !.copy = row[o]]
  <2>1. /\ t.pc = "next" /\ ~should_skip(row[o]) /\ Put(p, o, v) /\ UNCHANGED <<row, made, runs>>
    BY <1>4 DEF ReadForAttempt, store
  <2>2. v \in Task
    BY <1>types, ChangedTaskTyped DEF Stages
  <2>3. /\ u = v
        /\ \A q \in Processes, x \in Operations : q # p \/ x # o => task'[q][x] = task[q][x]
    BY <2>1, <2>2, <1>types, PutEffect
  <2>4. u.pc = pc /\ u.copy = row[o]
    BY <2>3, <1>types DEF Task
  <2> QED
    BY <2>1, <2>3, <2>4, <1>same, <1>still DEF TaskReads
<1>5. CASE Start(p, o)
  <2> DEFINE r == begin_async_attempt(t.copy)
             v == [t EXCEPT !.pc = "execute", !.copy = r]
  <2>1. /\ t.pc = "start" /\ Save(o, r) /\ Put(p, o, v) /\ UNCHANGED made
        /\ runs' = [runs EXCEPT ![o] = IF @ > MaxAttempts THEN @ ELSE @ + 1]
    BY <1>5 DEF Start
  <2>2. r \in Row /\ v \in Task
    BY <1>types, RowUpdatesTyped, ChangedTaskTyped DEF Stages
  <2>3. /\ u = v
        /\ \A q \in Processes, x \in Operations : q # p \/ x # o => task'[q][x] = task[q][x]
    BY <2>1, <2>2, <1>types, PutEffect
  <2>4. row'[o] = r /\ \A x \in Operations : x # o => row'[x] = row[x]
    BY <2>1, <2>2, <1>types, SaveEffect
  <2>5. u.pc = "execute" /\ u.copy = r
    BY <2>3, <1>types DEF Task
  <2>6. /\ runs'[o] = IF runs[o] > MaxAttempts THEN runs[o] ELSE runs[o] + 1
        /\ \A x \in Operations \ {o} : runs'[x] = runs[x]
    BY <2>1, <1>types
  <2> QED
    BY <2>1, <2>3, <2>4, <2>5, <2>6, <1>still DEF TaskStarts, Elsewhere
<1>6. ASSUME NEW r \in Row, NEW v \in Task, Save(o, r), Put(p, o, v), UNCHANGED <<made, runs>>
      PROVE  Elsewhere(p, o) /\ u = v /\ row'[o] = r
  BY <1>6, <1>types, PutEffect, SaveEffect DEF Elsewhere
<1>7. CASE PersistSucceeded(p, o)
  <2>1. /\ t.pc = "succeed" /\ Save(o, mark_operation_succeeded(t.copy)) /\ Put(p, o, NoTask)
        /\ UNCHANGED <<made, runs>>
    BY <1>7 DEF PersistSucceeded, Finish
  <2> QED
    BY <2>1, <1>6, <1>types, <1>still, RowUpdatesTyped, InitialValuesTyped DEF TaskPersists, NoTask
<1>8. CASE PersistFailed(p, o)
  <2>1. /\ t.pc = "fail" /\ Save(o, mark_operation_failed(t.copy)) /\ Put(p, o, NoTask)
        /\ UNCHANGED <<made, runs>>
    BY <1>8 DEF PersistFailed, Finish
  <2> QED
    BY <2>1, <1>6, <1>types, <1>still, RowUpdatesTyped, InitialValuesTyped DEF TaskPersists, NoTask
<1>9. CASE PersistException(p, o)
  <2> DEFINE v == IF Retries(t.copy) THEN [NoTask EXCEPT !.pc = "next"] ELSE NoTask
  <2>1. /\ t.pc = "raise" /\ Save(o, apply_runtime_exception_outcome(t.copy)) /\ Put(p, o, v)
        /\ UNCHANGED <<made, runs>>
    BY <1>9 DEF PersistException, Finish
  <2>2. v \in Task /\ v.pc = IF Retries(t.copy) THEN "next" ELSE "none"
    BY InitialValuesTyped, ChangedTaskTyped DEF Stages, NoTask
  <2> HIDE DEF v
  <2> QED
    BY <2>1, <2>2, <1>6, <1>types, <1>still, RowUpdatesTyped DEF TaskPersists
<1>10. CASE Look(p, o)
  <2> DEFINE pc == IF o \in CreateOps
                   THEN IF HasRecord(o) THEN "succeed" ELSE "commit"
                   ELSE IF VersionMoved(o) THEN "fail" ELSE "insert"
             v == [t EXCEPT !.seen = made[o], !.pc = pc]
  <2>1. t.pc = "execute" /\ Put(p, o, v) /\ UNCHANGED <<row, made, runs>>
    BY <1>10 DEF Look, store
  <2>2. v \in Task
    <3>1. pc \in Stages
      BY DEF Stages
    <3> QED
      BY <3>1, <1>types, ChangedTaskTyped
  <2>3. /\ u = v
        /\ \A q \in Processes, x \in Operations : q # p \/ x # o => task'[q][x] = task[q][x]
    BY <2>1, <2>2, <1>types, PutEffect
  <2>4. u.pc = pc /\ u.copy = t.copy /\ u.seen = made[o]
    BY <2>3, <1>types DEF Task
  <2> QED
    BY <2>1, <2>3, <2>4, <1>same, <1>still DEF TaskReads
<1>11. ASSUME NEW pc \in Stages, Goto(p, o, pc)
       PROVE  /\ u.pc = pc /\ u.copy = t.copy /\ u.seen = t.seen
              /\ \A q \in Processes, x \in Operations :
                   q # p \/ x # o => task'[q][x] = task[q][x]
  <2>1. /\ u = [t EXCEPT !.pc = pc]
        /\ \A q \in Processes, x \in Operations : q # p \/ x # o => task'[q][x] = task[q][x]
    BY <1>11, <1>types, GotoEffect
  <2>2. u.pc = pc /\ u.copy = t.copy /\ u.seen = t.seen
    BY <2>1, <1>types DEF Task
  <2> QED
    BY <2>1, <2>2
<1>12. CASE CommitCreate(p, o) \/ CommitVersion(p, o)
  <2>1. /\ t.pc = "commit" /\ Goto(p, o, "succeed") /\ UNCHANGED <<row, runs>>
        /\ o \in CreateOps \/ (o \in VersionOps /\ made[o] = t.seen)
        /\ made' = [made EXCEPT ![o] = @ + 1]
    BY <1>12 DEF CommitCreate, CommitVersion
  <2>2. made'[o] = made[o] + 1 /\ \A x \in Operations \ {o} : made'[x] = made[x]
    BY <2>1, <1>types
  <2> QED
    BY <2>1, <2>2, <1>11, <1>still DEF TaskCommits, Elsewhere, Stages
<1>13. CASE InsertVersion(p, o) \/ Decline(p, o) \/ ExecutorRaises(p, o)
  <2>1. /\ UNCHANGED <<row, made, runs>>
        /\ t.pc \in {"execute", "insert", "commit"}
        /\ \/ Goto(p, o, "fail") \/ Goto(p, o, "raise")
           \/ t.pc = "insert" /\ Goto(p, o, "commit")
    BY <1>13 DEF InsertVersion, Decline, ExecutorRaises, store
  <2> QED
    BY <2>1, <1>11, <1>same, <1>still DEF TaskReads, Stages
<1> QED
  BY <1>1, <1>2, <1>3, <1>4, <1>5, <1>7, <1>8, <1>9, <1>10, <1>12, <1>13 DEF TaskStep

\* A task is scheduled, by a submission or by the recovery.
TaskEnqueued(p, o) ==
  /\ task'[p][o].pc = "queued"
  /\ made'[o] = made[o] /\ runs'[o] = runs[o]
  /\ \/ row'[o] = row[o]
     \/ /\ row[o].status = "ABSENT"
        /\ row'[o].status = "PENDING" /\ row'[o].attempts = 0

\* Tasks may be gone, with their process or after a failed call.
TasksMayEnd ==
  /\ \A q \in Processes, x \in Operations : task'[q][x] = task[q][x] \/ task'[q][x] = NoTask
  /\ UNCHANGED <<row, made, runs>>

\* The operator ends an operation.
RowQuarantined(o) ==
  /\ row'[o].status = "FAILED" /\ \A x \in Operations \ {o} : row'[x] = row[x]
  /\ UNCHANGED <<task, made, runs>>

LEMMA SubmitKind ==
  ASSUME TypeOK, NEW p \in Processes, NEW o \in Operations, Submit(p, o)
  PROVE  /\ TaskEnqueued(p, o) /\ Elsewhere(p, o) /\ UNCHANGED <<up, backlog, control>>
         /\ up[p] = "serving" /\ row[o].status = "ABSENT" /\ row'[o].status = "PENDING"
<1> DEFINE r == [NoRow EXCEPT !.status = "PENDING", !.created = Cardinality(Accepted) + 1]
<1>types. task \in [Processes -> [Operations -> Task]] /\ row \in [Operations -> Row]
  BY DEF TypeOK
<1>1. r \in Row /\ r.status = "PENDING" /\ r.attempts = 0
  <2>1. Cardinality(Accepted) + 1 \in Nat
    BY RankTyped
  <2>2. r \in Row
    BY <2>1, InitialValuesTyped, FirstRowTyped
  <2> QED
    BY <2>2 DEF NoRow
<1>2. /\ Save(o, r) /\ Goto(p, o, "queued") /\ UNCHANGED <<made, runs, up, backlog, control>>
      /\ up[p] = "serving" /\ row[o].status = "ABSENT"
  BY DEF Submit, process
<1>3. row'[o] = r /\ \A x \in Operations \ {o} : row'[x] = row[x]
  BY <1>1, <1>2, <1>types, SaveEffect
<1>4. /\ task'[p][o] = [task[p][o] EXCEPT !.pc = "queued"]
      /\ \A q \in Processes, x \in Operations : q # p \/ x # o => task'[q][x] = task[q][x]
  BY <1>2, <1>types, GotoEffect DEF Stages
<1>5. task'[p][o].pc = "queued"
  BY <1>4, <1>types DEF Task
<1> HIDE DEF r
<1> QED
  BY <1>1, <1>2, <1>3, <1>4, <1>5 DEF TaskEnqueued, Elsewhere

LEMMA RecoverNextKind ==
  ASSUME TypeOK, NEW p \in Processes, NEW o \in Operations, RecoverNext(p, o)
  PROVE  /\ TaskEnqueued(p, o) /\ Elsewhere(p, o) /\ UNCHANGED <<row, up, control>>
         /\ o \in backlog[p] /\ backlog' = [backlog EXCEPT ![p] = @ \ {o}]
<1>types. task \in [Processes -> [Operations -> Task]]
  BY DEF TypeOK
<1>1. /\ Goto(p, o, "queued") /\ UNCHANGED <<row, made, runs, up, control>>
      /\ o \in backlog[p] /\ backlog' = [backlog EXCEPT ![p] = @ \ {o}]
  BY DEF RecoverNext, store
<1>2. /\ task'[p][o] = [task[p][o] EXCEPT !.pc = "queued"]
      /\ \A q \in Processes, x \in Operations : q # p \/ x # o => task'[q][x] = task[q][x]
  BY <1>1, <1>types, GotoEffect DEF Stages
<1>3. task'[p][o].pc = "queued"
  BY <1>2, <1>types DEF Task
<1> QED
  BY <1>1, <1>2, <1>3 DEF TaskEnqueued, Elsewhere

\* A stopped process has lost its tasks; a failed call ends one task at most.
LEMMA EndKind ==
  ASSUME TypeOK, NEW p \in Processes,
         Crash(p) \/ \E o \in Operations : StoreFails(p, o)
  PROVE  /\ TasksMayEnd
         /\ \/ UNCHANGED <<up, backlog>>
            \/ /\ up'[p] = "down" /\ backlog'[p] = {}
               /\ \A x \in Operations : task'[p][x] = NoTask
               /\ \A q \in Processes \ {p} : up'[q] = up[q] /\ backlog'[q] = backlog[q]
<1>1. UNCHANGED <<row, made, runs>>
  BY DEF Crash, StoreFails, store
<1>2. CASE Stop(p)
  BY <1>1, <1>2, StopEffect DEF TasksMayEnd
<1>3. ASSUME NEW o \in Operations, Finish(p, o), UNCHANGED <<process, control>>
      PROVE  TasksMayEnd /\ UNCHANGED <<up, backlog>>
  <2>1. task \in [Processes -> [Operations -> Task]]
    BY DEF TypeOK
  <2> QED
    BY <1>1, <1>3, <2>1, FinishEffect DEF TasksMayEnd, process
<1> QED
  BY <1>2, <1>3 DEF Crash, StoreFails

LEMMA QuarantineKind ==
  ASSUME TypeOK, NEW p \in Processes, NEW o \in Operations, WriteQuarantine(p, o)
  PROVE  RowQuarantined(o) /\ UNCHANGED <<up, backlog>>
<1> DEFINE c == control[p][o].copy
           r == [c EXCEPT !.status = "FAILED", !.lease = 0, !.error = "quarantined"]
<1>1. c \in Row /\ row \in [Operations -> Row]
  BY DEF TypeOK, Control
<1>2. r \in Row /\ r.status = "FAILED"
  <2>1. c \in Row
    BY <1>1
  <2> HIDE DEF c
  <2>2. r \in Row
    BY <2>1, ChangedRowTyped
  <2>3. r.status = "FAILED"
    BY <2>1 DEF Row
  <2> QED
    BY <2>2, <2>3
<1>3. Save(o, r) /\ UNCHANGED <<task, made, runs, up, backlog>>
  BY DEF WriteQuarantine, process
<1> HIDE DEF r
<1>4. row'[o] = r /\ \A x \in Operations : x # o => row'[x] = row[x]
  BY <1>1, <1>2, <1>3, SaveEffect
<1> QED
  BY <1>2, <1>3, <1>4 DEF RowQuarantined

\* What any step does to rows, tasks, effects and counted attempts.
LEMMA StepKinds ==
  ASSUME TypeOK, [Next]_vars
  PROVE  \/ \E p \in Processes, o \in Operations :
              /\ Elsewhere(p, o)
              /\ \/ TaskReads(p, o) \/ TaskStarts(p, o) \/ TaskCommits(p, o)
                 \/ TaskPersists(p, o) \/ TaskEnqueued(p, o)
         \/ TasksMayEnd
         \/ \E o \in Operations : RowQuarantined(o)
<1>1. CASE UNCHANGED <<row, made, runs, task>>
  BY <1>1 DEF TasksMayEnd
<1>2. \/ UNCHANGED <<row, made, runs, task>>
      \/ \E p \in Processes, o \in Operations :
           TaskStep(p, o) \/ Submit(p, o) \/ RecoverNext(p, o) \/ WriteQuarantine(p, o)
      \/ \E p \in Processes : Crash(p) \/ \E o \in Operations : StoreFails(p, o)
  BY DEF Next, EvaluateQuarantine, StartUp, Serve, Tick, vars, store
<1> QED
  BY <1>1, <1>2, TaskStepKinds, SubmitKind, RecoverNextKind, EndKind, QuarantineKind

-----------------------------------------------------------------------------
(* How often the command of an operation takes effect.                     *)

OneProcess == \A p, q \in Processes : p = q

\* A command that expects the version made before it has seen none made, until
\* its compare-and-set.
PinnedOnce ==
  \A o \in PinnedOps :
    /\ made[o] <= 1
    /\ \A p \in Processes : task[p][o].pc \in {"insert", "commit"} => task[p][o].seen = 0

\* The compare-and-set on the expected version lets one of the commands through.
LEMMA PinnedStaysOnce ==
  ASSUME TypeOK, PinnedOnce, [Next]_vars
  PROVE  PinnedOnce'
<1>types. /\ \A x \in Operations : made[x] \in Nat
          /\ PinnedOps \subseteq Operations /\ PinnedOps \cap CreateOps = {}
  BY OperationsAssumption DEF TypeOK, Operations
<1>1. ASSUME NEW p \in Processes, NEW o \in Operations, Elsewhere(p, o),
             o \in PinnedOps =>
               /\ made'[o] <= 1
               /\ task'[p][o].pc \in {"insert", "commit"} => task'[p][o].seen = 0
      PROVE  PinnedOnce'
  BY <1>1, <1>types DEF PinnedOnce, Elsewhere
<1>2. ASSUME NEW p \in Processes, NEW o \in PinnedOps,
             TaskReads(p, o) \/ TaskStarts(p, o) \/ TaskCommits(p, o)
               \/ TaskPersists(p, o) \/ TaskEnqueued(p, o)
      PROVE  /\ made'[o] <= 1
             /\ task'[p][o].pc \in {"insert", "commit"} => task'[p][o].seen = 0
  <2>0. /\ made[o] \in Nat /\ made[o] <= 1 /\ o \notin CreateOps
        /\ task[p][o].pc \in {"insert", "commit"} => task[p][o].seen = 0
    BY <1>types DEF PinnedOnce
  <2>1. CASE TaskReads(p, o)
    BY <2>0, <2>1 DEF TaskReads, VersionMoved
  <2>2. CASE TaskCommits(p, o)
    BY <2>0, <2>2 DEF TaskCommits
  <2>3. CASE TaskStarts(p, o) \/ TaskPersists(p, o) \/ TaskEnqueued(p, o)
    BY <2>0, <2>3 DEF TaskStarts, TaskPersists, TaskEnqueued
  <2> QED
    BY <1>2, <2>1, <2>2, <2>3
<1>3. CASE TasksMayEnd \/ \E o \in Operations : RowQuarantined(o)
  <2>1. \A q \in Processes, x \in Operations :
          task'[q][x] = task[q][x] \/ task'[q][x].pc = "none"
    BY <1>3 DEF TasksMayEnd, RowQuarantined, NoTask
  <2>2. made' = made
    BY <1>3 DEF TasksMayEnd, RowQuarantined
  <2> QED
    BY <1>types, <2>1, <2>2 DEF PinnedOnce
<1> QED
  BY <1>1, <1>2, <1>3, StepKinds

\* With one process, a create command about to commit has found no record, and
\* nothing else can leave one.
CreatedOnce ==
  \A o \in CreateOps :
    /\ made[o] <= 1
    /\ \A p \in Processes :
         task[p][o].pc # "insert" /\ (task[p][o].pc = "commit" => made[o] = 0)

\* The record is looked up before the commit and left by it.
LEMMA CreatedStaysOnce ==
  ASSUME OneProcess, TypeOK, CreatedOnce, [Next]_vars
  PROVE  CreatedOnce'
<1>types. (\A x \in Operations : made[x] \in Nat) /\ CreateOps \subseteq Operations
  BY DEF TypeOK, Operations
<1>0. CreateOps \cap VersionOps = {}
  BY OperationsAssumption
<1>1. ASSUME NEW p \in Processes, NEW o \in Operations, Elsewhere(p, o),
             o \in CreateOps =>
               /\ made'[o] <= 1 /\ task'[p][o].pc # "insert"
               /\ task'[p][o].pc = "commit" => made'[o] = 0
      PROVE  CreatedOnce'
  <2>1. ASSUME NEW x \in CreateOps, NEW q \in Processes
        PROVE  /\ made'[x] <= 1 /\ task'[q][x].pc # "insert"
               /\ task'[q][x].pc = "commit" => made'[x] = 0
    <3>1. q = p
      BY DEF OneProcess
    <3> QED
      BY <1>1, <1>types, <3>1 DEF CreatedOnce, Elsewhere
  <2> QED
    BY <1>1, <1>types, <2>1 DEF CreatedOnce, Elsewhere
<1>2. ASSUME NEW p \in Processes, NEW o \in CreateOps,
             TaskReads(p, o) \/ TaskStarts(p, o) \/ TaskCommits(p, o)
               \/ TaskPersists(p, o) \/ TaskEnqueued(p, o)
      PROVE  /\ made'[o] <= 1 /\ task'[p][o].pc # "insert"
             /\ task'[p][o].pc = "commit" => made'[o] = 0
  <2>0. /\ made[o] \in Nat /\ made[o] <= 1 /\ task[p][o].pc # "insert"
        /\ task[p][o].pc = "commit" => made[o] = 0
    BY <1>types DEF CreatedOnce
  <2>1. CASE TaskReads(p, o)
    <3>1. made'[o] = made[o]
      BY <2>1 DEF TaskReads
    <3>2. task'[p][o].pc # "insert" /\ (task'[p][o].pc = "commit" => made[o] = 0)
      BY <2>0, <2>1 DEF TaskReads, HasRecord
    <3> QED
      BY <2>0, <3>1, <3>2
  <2>2. CASE TaskCommits(p, o)
    BY <2>0, <2>2 DEF TaskCommits
  <2>3. CASE TaskStarts(p, o) \/ TaskPersists(p, o) \/ TaskEnqueued(p, o)
    BY <2>0, <2>3 DEF TaskStarts, TaskPersists, TaskEnqueued
  <2> QED
    BY <1>2, <2>1, <2>2, <2>3
<1>3. CASE TasksMayEnd \/ \E o \in Operations : RowQuarantined(o)
  <2>1. \A q \in Processes, x \in Operations :
          task'[q][x] = task[q][x] \/ task'[q][x].pc = "none"
    BY <1>3 DEF TasksMayEnd, RowQuarantined, NoTask
  <2>2. made' = made
    BY <1>3 DEF TasksMayEnd, RowQuarantined
  <2> QED
    BY <1>types, <2>1, <2>2 DEF CreatedOnce
<1> QED
  BY <1>1, <1>2, <1>3, StepKinds

\* One process never creates a second proposal or version for an operation,
\* however often it retries, crashes and recovers; for version operations that
\* name the expected version any number of processes will do.
THEOREM EffectsHappenOnce ==
  ASSUME OneProcess \/ CreateOps = {}
  PROVE  Spec => []EffectOnce
<1>1. Init => PinnedOnce /\ CreatedOnce
  BY OperationsAssumption DEF Init, PinnedOnce, CreatedOnce, NoTask, Operations
<1>2. TypeOK /\ PinnedOnce /\ CreatedOnce /\ [Next]_vars => PinnedOnce' /\ CreatedOnce'
  <2>1. CASE OneProcess
    BY <2>1, PinnedStaysOnce, CreatedStaysOnce
  <2>2. CASE CreateOps = {}
    BY <2>2, PinnedStaysOnce DEF CreatedOnce
  <2> QED
    BY <2>1, <2>2
<1>3. PinnedOnce /\ CreatedOnce => EffectOnce
  BY DEF PinnedOnce, CreatedOnce, EffectOnce
<1> QED
  BY <1>1, <1>2, <1>3, TypeCorrect, PTL DEF Spec

-----------------------------------------------------------------------------
(* With one process: the budget of attempts.                               *)

Open == {"PENDING", "RUNNING"}

\* Attempts started and not counted are counted in the row the next attempt
\* will be started from, or in the copy of the task that is at one.
Budgeted(n, r) ==
  /\ n <= MaxAttempts
  /\ r.status = "ABSENT" => n = 0
  /\ r.status \in Open => n <= r.attempts

TaskBudgeted(n, t) ==
  t.pc \in {"start", "execute", "insert", "commit", "succeed", "raise"} => n <= t.copy.attempts

BudgetKept ==
  \A o \in Operations :
    Budgeted(runs[o], row[o]) /\ \A p \in Processes : TaskBudgeted(runs[o], task[p][o])

\* Every start is counted in the row it writes, and the operator's write of an
\* older copy ends the operation.
LEMMA BudgetStaysKept ==
  ASSUME OneProcess, TypeOK, CopiesAreSound, BudgetKept, [Next]_vars
  PROVE  BudgetKept'
<1>1. ASSUME NEW p \in Processes, NEW o \in Operations, Elsewhere(p, o),
             Budgeted(runs'[o], row'[o]), TaskBudgeted(runs'[o], task'[p][o])
      PROVE  BudgetKept'
  <2>1. ASSUME NEW x \in Operations PROVE Budgeted(runs'[x], row'[x])
    BY <1>1 DEF BudgetKept, Elsewhere
  <2>2. ASSUME NEW x \in Operations, NEW q \in Processes
        PROVE  TaskBudgeted(runs'[x], task'[q][x])
    <3>1. q = p
      BY DEF OneProcess
    <3> QED
      BY <1>1, <3>1 DEF BudgetKept, Elsewhere
  <2> QED
    BY <2>1, <2>2 DEF BudgetKept
<1>2. ASSUME NEW p \in Processes, NEW o \in Operations,
             TaskReads(p, o) \/ TaskStarts(p, o) \/ TaskCommits(p, o)
               \/ TaskPersists(p, o) \/ TaskEnqueued(p, o)
      PROVE  Budgeted(runs'[o], row'[o]) /\ TaskBudgeted(runs'[o], task'[p][o])
  <2> DEFINE t == task[p][o]
             r == row[o]
             n == runs[o]
  <2>0. /\ r \in Row /\ t.copy \in Row /\ n \in Nat /\ MaxAttempts \in Nat
        /\ Budgeted(n, r) /\ TaskBudgeted(n, t)
        /\ t.pc = "start" => t.copy.attempts < MaxAttempts
    BY LimitsAssumption DEF TypeOK, Task, BudgetKept, CopiesAreSound, TaskSound
  <2>1. CASE TaskReads(p, o)
    <3>1. ~should_skip(r) => r.status \in Open
      BY <2>0 DEF should_skip, ASYNC_TERMINAL_STATUSES, Open, Row
    <3> HIDE DEF t, r, n
    <3>2. Budgeted(runs'[o], row'[o])
      BY <2>0, <2>1 DEF TaskReads, t, r, n
    <3>3. TaskBudgeted(n, task'[p][o])
      BY <2>0, <2>1, <3>1 DEF TaskReads, TaskBudgeted, Budgeted, t, r, n
    <3> QED
      BY <2>1, <3>2, <3>3 DEF TaskReads, n
  <2>2. CASE TaskStarts(p, o)
    <3>1. /\ t.pc = "start" /\ row'[o] = begin_async_attempt(t.copy) /\ task'[p][o].copy = row'[o]
          /\ runs'[o] = n + 1 /\ n <= t.copy.attempts
      BY <2>0, <2>2 DEF TaskStarts, TaskBudgeted, Budgeted
    <3>2. row'[o].status = "RUNNING" /\ row'[o].attempts = t.copy.attempts + 1
      BY <2>0, <3>1 DEF begin_async_attempt, Row
    <3>3. n + 1 <= MaxAttempts /\ n + 1 <= t.copy.attempts + 1 /\ t.copy.attempts \in Nat
      BY <2>0, <3>1 DEF Row
    <3> QED
      BY <3>1, <3>2, <3>3 DEF Budgeted, TaskBudgeted
  <2>3. CASE TaskCommits(p, o)
    BY <2>0, <2>3 DEF TaskCommits, TaskBudgeted
  <2>4. CASE TaskPersists(p, o)
    <3>1. runs'[o] = n /\ task'[p][o].pc \in {"none", "next"}
      BY <2>4 DEF TaskPersists
    <3>2. /\ row'[o].status # "ABSENT"
          /\ row'[o].status \in Open => t.pc = "raise" /\ row'[o].attempts = t.copy.attempts
      BY <2>0, <2>4 DEF TaskPersists, mark_operation_succeeded, mark_operation_failed,
         apply_runtime_exception_outcome, Row, Open
    <3> QED
      BY <2>0, <3>1, <3>2 DEF Budgeted, TaskBudgeted
  <2>5. CASE TaskEnqueued(p, o)
    BY <2>0, <2>5 DEF TaskEnqueued, Budgeted, TaskBudgeted
  <2> QED
    BY <1>2, <2>1, <2>2, <2>3, <2>4, <2>5
<1>3. CASE TasksMayEnd
  <2>1. \A n : TaskBudgeted(n, NoTask)
    BY DEF TaskBudgeted, NoTask
  <2> QED
    BY <1>3, <2>1 DEF TasksMayEnd, BudgetKept
<1>4. ASSUME NEW o \in Operations, RowQuarantined(o) PROVE BudgetKept'
  <2>1. ASSUME NEW x \in Operations PROVE Budgeted(runs[x], row'[x])
    BY <1>4 DEF RowQuarantined, BudgetKept, Budgeted, Open
  <2> QED
    BY <1>4, <2>1 DEF RowQuarantined, BudgetKept
<1> QED
  BY <1>1, <1>2, <1>3, <1>4, StepKinds

\* One process starts the command of an operation at most MaxAttempts times over
\* all its retries, restarts and recoveries, whatever the operator quarantines.
THEOREM BudgetIsKept ==
  ASSUME OneProcess
  PROVE  Spec => []RetryBudget
<1>1. Init => BudgetKept
  BY LimitsAssumption DEF Init, BudgetKept, Budgeted, TaskBudgeted, NoRow, NoTask, Open
<1>2. TypeOK /\ CopiesAreSound /\ BudgetKept /\ [Next]_vars => BudgetKept'
  BY BudgetStaysKept
<1>3. BudgetKept => RetryBudget
  BY DEF BudgetKept, Budgeted, RetryBudget
<1> QED
  BY <1>1, <1>2, <1>3, TypeCorrect, CopiesStaySound, PTL DEF Spec

-----------------------------------------------------------------------------
(* With one process and no operator: nobody else writes the row of a task. *)

NoRequest == \A p \in Processes, o \in Operations : control[p][o].pc = "idle"

\* A task that has read its row holds the row as it stands, which is open until
\* the task writes its outcome; a listed operation is open and has no task.
OwnedAt(p, o) ==
  LET t == task[p][o] IN
  /\ t.pc \notin {"none", "queued", "next"} => t.copy = row[o]
  /\ t.pc \in {"queued", "start", "fail"} => row[o].status \in Open
  /\ t.pc \in {"execute", "insert", "commit", "succeed", "raise"} => row[o].status = "RUNNING"
  /\ t.pc # "none" => up[p] # "down"
  /\ o \in backlog[p] => up[p] = "recovering" /\ t.pc = "none" /\ row[o].status \in Open
  /\ row[o].status = "ABSENT" => row[o].attempts = 0

Owned == NoRequest /\ \A p \in Processes, o \in Operations : OwnedAt(p, o)

\* What the writes of a task store.
LEMMA StoredStatus ==
  ASSUME NEW r \in Row, now \in Nat
  PROVE  /\ begin_async_attempt(r).status = "RUNNING"
         /\ begin_async_attempt(r).attempts = r.attempts + 1
         /\ mark_operation_succeeded(r).status = "SUCCEEDED"
         /\ mark_operation_succeeded(r).attempts = r.attempts
         /\ mark_operation_failed(r).status = "FAILED"
         /\ mark_operation_failed(r).attempts = r.attempts
         /\ apply_runtime_exception_outcome(r).status
              = IF Retries(r) THEN "PENDING" ELSE "FAILED"
         /\ apply_runtime_exception_outcome(r).attempts = r.attempts
<1>1. /\ begin_async_attempt(r).status = "RUNNING"
      /\ begin_async_attempt(r).attempts = r.attempts + 1
  BY DEF begin_async_attempt, Row
<1>2. /\ mark_operation_succeeded(r).status = "SUCCEEDED"
      /\ mark_operation_succeeded(r).attempts = r.attempts
  BY DEF mark_operation_succeeded, Row
<1>3. /\ mark_operation_failed(r).status = "FAILED"
      /\ mark_operation_failed(r).attempts = r.attempts
  BY DEF mark_operation_failed, Row
<1>4. /\ apply_runtime_exception_outcome(r).status = IF Retries(r) THEN "PENDING" ELSE "FAILED"
      /\ apply_runtime_exception_outcome(r).attempts = r.attempts
  BY DEF apply_runtime_exception_outcome, Row
<1> QED
  BY <1>1, <1>2, <1>3, <1>4

\* A step of a task leaves its operation owned.
LEMMA TaskStepOwned ==
  ASSUME TypeOK, NEW p \in Processes, NEW o \in Operations, OwnedAt(p, o), TaskStep(p, o)
  PROVE  OwnedAt(p, o)'
<1> DEFINE t == task[p][o]
           u == task'[p][o]
           r == row[o]
<1>1. /\ TaskReads(p, o) \/ TaskStarts(p, o) \/ TaskCommits(p, o) \/ TaskPersists(p, o)
      /\ UNCHANGED <<up, backlog>>
  BY TaskStepKinds
<1>2. /\ r \in Row /\ t.copy \in Row /\ now \in Nat
      /\ t.pc \notin {"none", "queued", "next"} => t.copy = r
      /\ t.pc \in {"queued", "start", "fail"} => r.status \in Open
      /\ t.pc \in {"execute", "insert", "commit", "succeed", "raise"} => r.status = "RUNNING"
      /\ t.pc # "none" => up[p] # "down"
      /\ o \in backlog[p] => t.pc = "none"
      /\ r.status = "ABSENT" => r.attempts = 0
  BY LimitsAssumption DEF OwnedAt, TypeOK, Task
<1>3. ASSUME u.pc \notin {"none", "queued", "next"} => u.copy = row'[o],
             u.pc \in {"queued", "start", "fail"} => row'[o].status \in Open,
             u.pc \in {"execute", "insert", "commit", "succeed", "raise"}
               => row'[o].status = "RUNNING",
             row'[o].status = "ABSENT" => row'[o].attempts = 0,
             t.pc # "none"
      PROVE  OwnedAt(p, o)'
  BY <1>1, <1>2, <1>3 DEF OwnedAt
<1>4. ~should_skip(r) => r.status \in Open
  BY <1>2 DEF should_skip, ASYNC_TERMINAL_STATUSES, Open, Row
<1>5. CASE TaskReads(p, o)
  <2>1. row'[o] = r
    BY <1>5 DEF TaskReads
  <2> HIDE DEF t, u, r
  <2>2. /\ u.pc \notin {"none", "queued", "next"} => u.copy = r
        /\ u.pc \in {"queued", "start", "fail"} => r.status \in Open
        /\ u.pc \in {"execute", "insert", "commit", "succeed", "raise"} => r.status = "RUNNING"
        /\ t.pc # "none"
    BY <1>2, <1>4, <1>5 DEF TaskReads, t, u, r, Open
  <2> QED
    BY <1>2, <1>3, <2>1, <2>2
<1>6. CASE TaskStarts(p, o)
  <2>1. t.pc = "start" /\ u.pc = "execute" /\ row'[o] = begin_async_attempt(t.copy) /\ u.copy = row'[o]
    BY <1>6 DEF TaskStarts
  <2>2. row'[o].status = "RUNNING"
    BY <1>2, <2>1, StoredStatus
  <2> QED
    BY <1>3, <2>1, <2>2
<1>7. CASE TaskCommits(p, o)
  <2>1. t.pc = "commit" /\ u.pc = "succeed" /\ u.copy = t.copy /\ row'[o] = r
    BY <1>7 DEF TaskCommits
  <2> QED
    BY <1>2, <1>3, <2>1
<1>8. CASE TaskPersists(p, o)
  <2>1. t.pc # "none" /\ u.pc \in {"none", "next"}
    BY <1>8 DEF TaskPersists
  <2>2. row'[o].status # "ABSENT"
    BY <1>2, <1>8, StoredStatus DEF TaskPersists
  <2> QED
    BY <1>3, <2>1, <2>2
<1> QED
  BY <1>1, <1>5, <1>6, <1>7, <1>8

\* No step of the process disturbs the ownership of a task.
LEMMA StaysOwned ==
  ASSUME OneProcess, OperatorActs = FALSE, TypeOK, Owned, [Next]_vars
  PROVE  Owned'
<1>types. /\ task \in [Processes -> [Operations -> Task]] /\ row \in [Operations -> Row]
          /\ control \in [Processes -> [Operations -> Control]]
          /\ up \in [Processes -> {"down", "recovering", "serving"}]
          /\ backlog \in [Processes -> SUBSET Operations]
  BY DEF TypeOK
<1>0. NoRequest'
  <2>1. ASSUME NEW p \in Processes, Stop(p) PROVE NoRequest'
    BY <2>1, StopEffect DEF Owned, NoRequest, NoControl
  <2>2. ASSUME NEW p \in Processes, Crash(p) \/ \E o \in Operations : StoreFails(p, o)
        PROVE  NoRequest'
    BY <2>1, <2>2 DEF Crash, StoreFails, Owned, NoRequest
  <2>3. ASSUME NEW p \in Processes, NEW o \in Operations, TaskStep(p, o) PROVE NoRequest'
    BY <2>3, TaskStepKinds DEF Owned, NoRequest
  <2>4. ASSUME NEW p \in Processes, NEW o \in Operations, Submit(p, o) \/ RecoverNext(p, o)
        PROVE  NoRequest'
    BY <2>4 DEF Submit, RecoverNext, Owned, NoRequest
  <2>5. ASSUME NEW p \in Processes, NEW o \in Operations
        PROVE  ~EvaluateQuarantine(p, o) /\ ~WriteQuarantine(p, o)
    BY DEF EvaluateQuarantine, WriteQuarantine, Owned, NoRequest
  <2>6. CASE Tick \/ UNCHANGED vars
    BY <2>6 DEF Tick, vars, Owned, NoRequest
  <2>7. ASSUME NEW p \in Processes, StartUp(p) \/ Serve(p) PROVE NoRequest'
    BY <2>7 DEF StartUp, Serve, Owned, NoRequest
  <2> QED
    BY <2>2, <2>3, <2>4, <2>5, <2>6, <2>7 DEF Next
<1>1. ASSUME NEW p \in Processes, NEW o \in Operations, Elsewhere(p, o), OwnedAt(p, o)',
             up' = up, \A x \in Operations \ {o} : x \in backlog'[p] => x \in backlog[p]
      PROVE  Owned'
  <2>1. ASSUME NEW q \in Processes, NEW x \in Operations PROVE OwnedAt(q, x)'
    <3>1. q = p
      BY DEF OneProcess
    <3>2. CASE x # o
      BY <1>1, <3>1, <3>2 DEF Owned, OwnedAt, Elsewhere
    <3> QED
      BY <1>1, <3>1, <3>2
  <2> QED
    BY <1>0, <2>1 DEF Owned
<1>2. ASSUME NEW p \in Processes, NEW o \in Operations, TaskStep(p, o) PROVE Owned'
  <2>1. Elsewhere(p, o) /\ up' = up /\ backlog' = backlog
    BY <1>2, TaskStepKinds
  <2>2. OwnedAt(p, o)'
    BY <1>2, TaskStepOwned DEF Owned
  <2> QED
    BY <1>1, <2>1, <2>2
<1>3. ASSUME NEW p \in Processes, NEW o \in Operations, Submit(p, o) PROVE Owned'
  <2>1. /\ TaskEnqueued(p, o) /\ Elsewhere(p, o) /\ up' = up /\ backlog' = backlog
        /\ up[p] = "serving" /\ row'[o].status = "PENDING"
    BY <1>3, SubmitKind
  <2>2. OwnedAt(p, o)'
    BY <2>1 DEF TaskEnqueued, Owned, OwnedAt, Open
  <2> QED
    BY <1>1, <2>1, <2>2
<1>4. ASSUME NEW p \in Processes, NEW o \in Operations, RecoverNext(p, o) PROVE Owned'
  <2>1. /\ TaskEnqueued(p, o) /\ Elsewhere(p, o) /\ up' = up /\ row' = row
        /\ o \in backlog[p] /\ backlog' = [backlog EXCEPT ![p] = @ \ {o}]
    BY <1>4, RecoverNextKind
  <2>2. backlog'[p] = backlog[p] \ {o}
    BY <2>1, <1>types
  <2>3. OwnedAt(p, o)'
    BY <2>1, <2>2 DEF TaskEnqueued, Owned, OwnedAt, Open
  <2> QED
    BY <1>1, <2>1, <2>2, <2>3
<1>5. ASSUME NEW p \in Processes, Crash(p) \/ \E o \in Operations : StoreFails(p, o)
      PROVE  Owned'
  <2>1. TasksMayEnd
    BY <1>5, EndKind
  <2>2. ASSUME NEW q \in Processes, NEW x \in Operations PROVE OwnedAt(q, x)'
    <3>1. q = p
      BY DEF OneProcess
    <3>2. OwnedAt(p, x) /\ row' = row
      BY <2>1 DEF Owned, TasksMayEnd
    <3>3. task'[p][x] = task[p][x] \/ task'[p][x].pc = "none"
      BY <2>1 DEF TasksMayEnd, NoTask
    <3>4. CASE UNCHANGED <<up, backlog>>
      BY <3>1, <3>2, <3>3, <3>4 DEF OwnedAt
    <3>5. CASE backlog'[p] = {} /\ task'[p][x] = NoTask
      BY <3>1, <3>2, <3>5 DEF OwnedAt, NoTask
    <3> QED
      BY <1>5, <3>4, <3>5, EndKind
  <2> QED
    BY <1>0, <2>2 DEF Owned
<1>6. ASSUME NEW p \in Processes, StartUp(p) PROVE Owned'
  <2>1. /\ up[p] = "down" /\ up'[p] = "recovering" /\ row' = row /\ task' = task
        /\ backlog'[p] = list_recoverable_operations
    BY <1>6, <1>types DEF StartUp, store
  <2>2. \A x \in list_recoverable_operations : row[x].status \in Open
    BY DEF list_recoverable_operations, Recoverable, Open
  <2>3. ASSUME NEW q \in Processes, NEW x \in Operations PROVE OwnedAt(q, x)'
    <3>1. q = p
      BY DEF OneProcess
    <3>2. OwnedAt(p, x)
      BY DEF Owned
    <3> QED
      BY <2>1, <2>2, <3>1, <3>2 DEF OwnedAt
  <2> QED
    BY <1>0, <2>3 DEF Owned
<1>7. ASSUME NEW p \in Processes, Serve(p) PROVE Owned'
  <2>1. /\ backlog[p] = {} /\ up'[p] = "serving"
        /\ row' = row /\ task' = task /\ backlog' = backlog
    BY <1>7, <1>types DEF Serve, store
  <2>2. ASSUME NEW q \in Processes, NEW x \in Operations PROVE OwnedAt(q, x)'
    <3>1. q = p
      BY DEF OneProcess
    <3>2. OwnedAt(p, x)
      BY DEF Owned
    <3> QED
      BY <2>1, <3>1, <3>2 DEF OwnedAt
  <2> QED
    BY <1>0, <2>2 DEF Owned
<1>8. CASE UNCHANGED <<row, task, up, backlog>>
  BY <1>0, <1>8 DEF Owned, OwnedAt
<1>9. CASE Tick \/ UNCHANGED vars
  BY <1>8, <1>9 DEF Tick, vars, store, process
<1>10. ASSUME NEW p \in Processes, NEW o \in Operations
       PROVE  ~EvaluateQuarantine(p, o) /\ ~WriteQuarantine(p, o)
  BY DEF EvaluateQuarantine, WriteQuarantine, Owned, NoRequest
<1> QED
  BY <1>2, <1>3, <1>4, <1>5, <1>6, <1>7, <1>9, <1>10 DEF Next

\* The rows start absent and nobody owns one.
LEMMA StartsOwned == Init => Owned
  BY DEF Init, Owned, OwnedAt, NoRequest, NoRow, NoTask, NoControl

\* One process, no operator: the copy a task will write back is the row as it
\* stands, through every retry, crash and recovery.
THEOREM OwnersHoldTheirRows ==
  ASSUME OneProcess, OperatorActs = FALSE
  PROVE  Spec => []OwnerHoldsTheRow
<1>1. TypeOK /\ Owned /\ [Next]_vars => Owned'
  BY StaysOwned
<1>2. Owned => OwnerHoldsTheRow
  BY DEF Owned, OwnedAt, OwnerHoldsTheRow
<1> QED
  BY <1>1, <1>2, StartsOwned, TypeCorrect, PTL DEF Spec

-----------------------------------------------------------------------------
(* With one process and no operator: the rows keep the promise.            *)

StatusOf == [o \in Operations |-> row[o].status]
AttemptsOf == [o \in Operations |-> row[o].attempts]

\* One step of the promised life of an operation, or none, from row r to row s.
PromisedMove(r, s) ==
  \/ s.status = r.status /\ s.attempts = r.attempts
  \/ r.status = "ABSENT" /\ s.status = "PENDING" /\ s.attempts = r.attempts
  \/ /\ r.status \in Open /\ r.attempts < MaxAttempts
     /\ s.status = "RUNNING" /\ s.attempts = r.attempts + 1
  \/ /\ r.status = "RUNNING" /\ r.attempts < MaxAttempts
     /\ s.status = "PENDING" /\ s.attempts = r.attempts
  \/ r.status = "RUNNING" /\ s.status = "SUCCEEDED" /\ s.attempts = r.attempts
  \/ r.status \in Open /\ s.status = "FAILED" /\ s.attempts = r.attempts

\* Such a step of one row is a step of the promise.
LEMMA MoveIsPromised ==
  ASSUME NEW o \in Operations, PromisedMove(row[o], row'[o]),
         \A x \in Operations \ {o} : row'[x] = row[x]
  PROVE  Promise!Next \/ UNCHANGED <<StatusOf, AttemptsOf>>
<1> DEFINE s == row'[o].status
           a == row'[o].attempts
<1>1. StatusOf' = [StatusOf EXCEPT ![o] = s] /\ AttemptsOf' = [AttemptsOf EXCEPT ![o] = a]
  BY DEF StatusOf, AttemptsOf
<1>2. /\ StatusOf[o] = row[o].status /\ AttemptsOf[o] = row[o].attempts
      /\ s = row[o].status => StatusOf' = StatusOf
      /\ a = row[o].attempts => AttemptsOf' = AttemptsOf
      /\ a = row[o].attempts + 1 => AttemptsOf' = [AttemptsOf EXCEPT ![o] = @ + 1]
  BY <1>1 DEF StatusOf, AttemptsOf
<1>3. Promise!Next <=> \E x \in Operations :
        \/ /\ StatusOf[x] = "ABSENT"
           /\ StatusOf' = [StatusOf EXCEPT ![x] = "PENDING"] /\ UNCHANGED AttemptsOf
        \/ /\ StatusOf[x] \in {"PENDING", "RUNNING"} /\ AttemptsOf[x] < MaxAttempts
           /\ StatusOf' = [StatusOf EXCEPT ![x] = "RUNNING"]
           /\ AttemptsOf' = [AttemptsOf EXCEPT ![x] = @ + 1]
        \/ /\ StatusOf[x] = "RUNNING" /\ AttemptsOf[x] < MaxAttempts
           /\ StatusOf' = [StatusOf EXCEPT ![x] = "PENDING"] /\ UNCHANGED AttemptsOf
        \/ /\ StatusOf[x] = "RUNNING"
           /\ StatusOf' = [StatusOf EXCEPT ![x] = "SUCCEEDED"] /\ UNCHANGED AttemptsOf
        \/ /\ StatusOf[x] \in {"PENDING", "RUNNING"}
           /\ StatusOf' = [StatusOf EXCEPT ![x] = "FAILED"] /\ UNCHANGED AttemptsOf
  BY DEF Promise!Next, Promise!Accept, Promise!Attempt, Promise!Requeue, Promise!Succeed,
     Promise!Fail, Promise!Move, StatusOf, AttemptsOf
<1> HIDE DEF s, a
<1> QED
  BY <1>1, <1>2, <1>3 DEF PromisedMove, Open, s, a

\* What a task writes to the row it owns is promised: an attempt is started below
\* the limit only, and only an attempt in progress is requeued or succeeds.
LEMMA TaskKeepsThePromise ==
  ASSUME TypeOK, CopiesAreSound, NEW p \in Processes, NEW o \in Operations, OwnedAt(p, o),
         TaskStep(p, o)
  PROVE  PromisedMove(row[o], row'[o])
<1> DEFINE t == task[p][o]
           r == row[o]
<1>1. /\ r \in Row /\ now \in Nat
      /\ t.pc \notin {"none", "queued", "next"} => t.copy = r
      /\ t.pc \in {"start", "fail"} => r.status \in Open
      /\ t.pc \in {"succeed", "raise"} => r.status = "RUNNING"
      /\ t.pc = "start" => t.copy.attempts < MaxAttempts
  BY LimitsAssumption DEF OwnedAt, TypeOK, CopiesAreSound, TaskSound
<1>2. CASE row'[o] = r
  BY <1>2 DEF PromisedMove
<1>3. CASE TaskStarts(p, o)
  <2>1. t.pc = "start" /\ row'[o] = begin_async_attempt(r)
    BY <1>1, <1>3 DEF TaskStarts
  <2> QED
    BY <1>1, <2>1, StoredStatus DEF PromisedMove
<1>4. CASE TaskPersists(p, o)
  <2>1. \/ t.pc = "succeed" /\ row'[o] = mark_operation_succeeded(r)
        \/ t.pc = "fail" /\ row'[o] = mark_operation_failed(r)
        \/ t.pc = "raise" /\ row'[o] = apply_runtime_exception_outcome(r)
    BY <1>1, <1>4 DEF TaskPersists
  <2> QED
    BY <1>1, <2>1, StoredStatus DEF PromisedMove, Retries, Open
<1> QED
  BY <1>2, <1>3, <1>4, TaskStepKinds DEF TaskReads, TaskCommits

LEMMA StepKeepsThePromise ==
  ASSUME OneProcess, OperatorActs = FALSE, TypeOK, CopiesAreSound, Owned, [Next]_vars
  PROVE  Promise!Next \/ UNCHANGED <<StatusOf, AttemptsOf>>
<1>1. CASE row' = row
  BY <1>1 DEF StatusOf, AttemptsOf
<1>2. ASSUME NEW p \in Processes, NEW o \in Operations, TaskStep(p, o)
      PROVE  Promise!Next \/ UNCHANGED <<StatusOf, AttemptsOf>>
  <2>1. PromisedMove(row[o], row'[o])
    BY <1>2, TaskKeepsThePromise DEF Owned
  <2>2. \A x \in Operations \ {o} : row'[x] = row[x]
    BY <1>2, TaskStepKinds DEF Elsewhere
  <2> QED
    BY <2>1, <2>2, MoveIsPromised
<1>3. ASSUME NEW p \in Processes, NEW o \in Operations, Submit(p, o)
      PROVE  Promise!Next \/ UNCHANGED <<StatusOf, AttemptsOf>>
  <2>1. /\ TaskEnqueued(p, o) /\ Elsewhere(p, o)
        /\ row[o].status = "ABSENT" /\ row'[o].status = "PENDING"
    BY <1>3, SubmitKind
  <2>2. PromisedMove(row[o], row'[o])
    BY <2>1 DEF TaskEnqueued, PromisedMove, Owned, OwnedAt
  <2> QED
    BY <2>1, <2>2, MoveIsPromised DEF Elsewhere
<1>4. ASSUME NEW p \in Processes, NEW o \in Operations
      PROVE  ~EvaluateQuarantine(p, o) /\ ~WriteQuarantine(p, o)
  BY DEF EvaluateQuarantine, WriteQuarantine, Owned, NoRequest
<1>5. \/ row' = row
      \/ \E p \in Processes, o \in Operations :
           TaskStep(p, o) \/ Submit(p, o) \/ EvaluateQuarantine(p, o) \/ WriteQuarantine(p, o)
  BY DEF Next, RecoverNext, StoreFails, StartUp, Serve, Crash, Tick, vars, store
<1> QED
  BY <1>1, <1>2, <1>3, <1>4, <1>5

\* One process, no operator: rows implement OperationPromise.  Attempts are counted
\* one by one up to the limit, and an end is final.
THEOREM RowsKeepThePromise ==
  ASSUME OneProcess, OperatorActs = FALSE
  PROVE  Spec => KeepsThePromise
<1>1. Init => Promise!Init
  BY DEF Init, NoRow, Promise!Init
<1>2. TypeOK /\ CopiesAreSound /\ Owned /\ [Next]_vars
        => [Promise!Next]_<<[o \in Operations |-> row[o].status],
                            [o \in Operations |-> row[o].attempts]>>
  BY StepKeepsThePromise DEF StatusOf, AttemptsOf
<1>3. TypeOK /\ Owned /\ [Next]_vars => Owned'
  BY StaysOwned
<1> QED
  BY <1>1, <1>2, <1>3, StartsOwned, TypeCorrect, CopiesStaySound, PTL
     DEF Spec, KeepsThePromise, Promise!Spec

-----------------------------------------------------------------------------
(* With any number of processes: how an operation comes to wait for a      *)
(* restart.                                                                *)

DriftExplained(o) ==
  ~Adrift(o) /\ Adrift(o)' =>
    \/ \E p \in Processes : StoreFails(p, o) /\ up[p] = "serving"
    \/ \E p \in Processes :
         /\ StartUp(p)
         /\ \/ row[o].status = "RUNNING" /\ row[o].lease > now
            \/ Cardinality({q \in Operations : LeftBehind(q)}) > BatchSize

\* A recoverable operation that is not listed comes after a batch of older ones.
LEMMA UnlistedAreBehindABatch ==
  ASSUME NEW o \in Operations, row[o] \in Row, Recoverable(o),
         o \notin list_recoverable_operations
  PROVE  Cardinality({q \in Operations : LeftBehind(q)}) > BatchSize
<1> DEFINE found == {q \in Operations : Recoverable(q)}
           older == {q \in found : row[q].created < row[o].created}
           left == {q \in Operations : LeftBehind(q)}
<1>1. o \in left /\ older \subseteq left /\ IsFiniteSet(left)
  <2>1. left \subseteq Operations /\ IsFiniteSet(Operations)
    BY OperationsAssumption DEF Operations
  <2>2. IsFiniteSet(left)
    BY <2>1, FS_Subset
  <2> QED
    BY <2>2 DEF Recoverable, LeftBehind
<1>2. o \notin older
  BY DEF Row
<1>3. ~(Cardinality(older) < BatchSize)
  BY DEF list_recoverable_operations
<1> HIDE DEF found, older, left
<1>4. /\ IsFiniteSet(older) /\ Cardinality(older) \in Nat
      /\ IsFiniteSet(older \cup {o}) /\ Cardinality(older \cup {o}) = Cardinality(older) + 1
  BY <1>1, <1>2, FS_Subset, FS_CardinalityType, FS_AddElement
<1>5. Cardinality(older) + 1 <= Cardinality(left) /\ Cardinality(left) \in Nat
  BY <1>1, <1>4, FS_Subset, FS_CardinalityType
<1>6. BatchSize \in Nat
  BY LimitsAssumption
<1> QED
  BY <1>3, <1>4, <1>5, <1>6 DEF left

\* A step that touches neither the row nor the tasks of an operation, nor its
\* place in a backlog, casts nothing adrift.
LEMMA DriftIsLocal ==
  ASSUME NEW o \in Operations, Adrift(o)', row'[o] = row[o],
         \A p \in Processes : /\ task[p][o].pc = task'[p][o].pc
                              /\ o \in backlog[p] => o \in backlog'[p]
                              /\ up[p] = "down" => up'[p] = "down"
  PROVE  Adrift(o)
  BY DEF Adrift

\* A task that is through has left a finished row, unless its call has failed.
LEMMA TasksEndTheirRows ==
  ASSUME TypeOK, NEW p \in Processes, NEW o \in Operations, TaskStep(p, o),
         task'[p][o].pc = "none"
  PROVE  row'[o].status \notin Open
<1>1. /\ row[o] \in Row /\ task[p][o].copy \in Row /\ now \in Nat
  BY LimitsAssumption DEF TypeOK, Task
<1>2. CASE TaskReads(p, o)
  <2>1. should_skip(row[o]) /\ row'[o] = row[o]
    BY <1>2 DEF TaskReads
  <2> QED
    BY <2>1 DEF should_skip, ASYNC_TERMINAL_STATUSES, Open
<1>3. CASE TaskPersists(p, o)
  <2> DEFINE c == task[p][o].copy
  <2>1. \/ row'[o] = mark_operation_succeeded(c)
        \/ row'[o] = mark_operation_failed(c)
        \/ row'[o] = apply_runtime_exception_outcome(c) /\ ~Retries(c)
    BY <1>3 DEF TaskPersists
  <2> HIDE DEF c
  <2>2. c \in Row
    BY <1>1 DEF c
  <2> QED
    BY <1>1, <2>1, <2>2, StoredStatus DEF Open
<1> QED
  BY <1>2, <1>3, TaskStepKinds DEF TaskStarts, TaskCommits

\* The causes of the property are all there are.
LEMMA StepExplainsDrift ==
  ASSUME TypeOK, RunningIsLeased, [Next]_vars, NEW o \in Operations
  PROVE  DriftExplained(o)
<1> SUFFICES ASSUME ~Adrift(o), Adrift(o)' PROVE DriftExplained(o)
  BY DEF DriftExplained
<1>types. /\ up \in [Processes -> {"down", "recovering", "serving"}]
          /\ backlog \in [Processes -> SUBSET Operations]
          /\ row[o] \in Row /\ now \in Nat
  BY LimitsAssumption DEF TypeOK
<1>adrift. /\ row'[o].status \in Open
           /\ \A p \in Processes :
                up'[p] # "down" /\ o \notin backlog'[p] /\ task'[p][o].pc = "none"
  BY DEF Adrift, Open
<1>1. ASSUME NEW p \in Processes, NEW x \in Operations, Elsewhere(p, x), up' = up, x # o,
             \A q \in Processes : o \in backlog[q] => o \in backlog'[q]
      PROVE  FALSE
  BY <1>1, DriftIsLocal DEF Elsewhere
<1>2. ASSUME NEW p \in Processes, NEW x \in Operations, TaskStep(p, x) PROVE FALSE
  <2>1. Elsewhere(p, x) /\ up' = up /\ backlog' = backlog
    BY <1>2, TaskStepKinds
  <2>2. x # o
    BY <1>2, <1>adrift, TasksEndTheirRows
  <2> QED
    BY <1>1, <2>1, <2>2
<1>3. ASSUME NEW p \in Processes, NEW x \in Operations, Submit(p, x) PROVE FALSE
  <2>1. TaskEnqueued(p, x) /\ Elsewhere(p, x) /\ up' = up /\ backlog' = backlog
    BY <1>3, SubmitKind
  <2>2. x # o
    BY <1>adrift, <2>1 DEF TaskEnqueued
  <2> QED
    BY <1>1, <2>1, <2>2
<1>4. ASSUME NEW p \in Processes, NEW x \in Operations, RecoverNext(p, x) PROVE FALSE
  <2>1. /\ TaskEnqueued(p, x) /\ Elsewhere(p, x) /\ up' = up
        /\ backlog' = [backlog EXCEPT ![p] = @ \ {x}]
    BY <1>4, RecoverNextKind
  <2>2. x # o
    BY <1>adrift, <2>1 DEF TaskEnqueued
  <2>3. \A q \in Processes : o \in backlog[q] => o \in backlog'[q]
    BY <1>types, <2>1, <2>2
  <2> QED
    BY <1>1, <2>1, <2>2, <2>3
<1>5. ASSUME NEW p \in Processes, Stop(p) PROVE FALSE
  BY <1>5, <1>adrift, StopEffect
<1>6. ASSUME NEW p \in Processes, NEW x \in Operations, StoreFails(p, x)
      PROVE  DriftExplained(o)
  <2>1. /\ up[p] # "recovering" /\ Finish(p, x)
        /\ UNCHANGED <<row, up, backlog>>
    BY <1>5, <1>6 DEF StoreFails, store, process
  <2>2. up[p] = "serving"
    BY <1>adrift, <1>types, <2>1
  <2>3. CASE x = o
    BY <1>6, <2>2, <2>3 DEF DriftExplained
  <2>4. CASE x # o
    <3>1. \A q \in Processes : task'[q][o] = task[q][o]
      BY <2>1, <2>4, FinishEffect DEF TypeOK
    <3> QED
      BY <2>1, <3>1, DriftIsLocal
  <2> QED
    BY <2>3, <2>4
<1>7. ASSUME NEW p \in Processes, NEW x \in Operations, WriteQuarantine(p, x) PROVE FALSE
  <2>1. RowQuarantined(x) /\ UNCHANGED <<up, backlog>>
    BY <1>7, QuarantineKind
  <2>2. x # o
    BY <1>adrift, <2>1 DEF RowQuarantined, Open
  <2> QED
    BY <2>1, <2>2, DriftIsLocal DEF RowQuarantined
<1>8. ASSUME NEW p \in Processes, Serve(p) PROVE FALSE
  <2>1. up[p] = "recovering" /\ UNCHANGED <<row, task, backlog>>
        /\ \A q \in Processes \ {p} : up'[q] = up[q]
    BY <1>8, <1>types DEF Serve, store
  <2>2. \A q \in Processes : up[q] # "down"
    BY <1>adrift, <2>1
  <2> QED
    BY <2>1, <2>2, DriftIsLocal
<1>9. ASSUME NEW p \in Processes, StartUp(p) PROVE DriftExplained(o)
  <2>1. row' = row /\ backlog'[p] = list_recoverable_operations
    BY <1>9, <1>types DEF StartUp, store
  <2>2. row[o].status \in Open /\ o \notin list_recoverable_operations
    BY <1>adrift, <2>1
  <2>3. Recoverable(o) \/ (row[o].status = "RUNNING" /\ row[o].lease > now)
    <3>1. row[o].status = "RUNNING" => row[o].lease # 0
      BY DEF RunningIsLeased
    <3>2. row[o].lease \in Nat
      BY <1>types DEF Row
    <3> QED
      BY <1>types, <2>2, <3>1, <3>2 DEF Recoverable, Open
  <2> QED
    BY <1>9, <1>types, <2>2, <2>3, UnlistedAreBehindABatch DEF DriftExplained
<1>10. CASE UNCHANGED <<row, task, up, backlog>>
  BY <1>10, DriftIsLocal
<1>11. \/ UNCHANGED <<row, task, up, backlog>>
       \/ \E p \in Processes, x \in Operations :
            TaskStep(p, x) \/ Submit(p, x) \/ RecoverNext(p, x) \/ StoreFails(p, x)
              \/ WriteQuarantine(p, x)
       \/ \E p \in Processes : Stop(p) \/ StartUp(p) \/ Serve(p)
  BY DEF Next, EvaluateQuarantine, Crash, Tick, vars, store, process
<1> QED
  BY <1>2, <1>3, <1>4, <1>5, <1>6, <1>7, <1>8, <1>9, <1>10, <1>11

\* No step other than the three the property names leaves an accepted operation
\* to the next restart, with any number of processes and with the operator.
THEOREM DriftIsExplained == Spec => DriftHasACause
<1>1. TypeOK /\ RunningIsLeased /\ [Next]_vars
        => [\A o \in Operations : DriftExplained(o)]_vars
  BY StepExplainsDrift
<1> QED
  BY <1>1, TypeCorrect, LeaseMeansRunning, PTL DEF Spec, DriftHasACause, DriftExplained
=============================================================================
