-------------------------- MODULE KeyedWritesProofs --------------------------
(***************************************************************************)
(* Theorems about KeyedWrites, for any number of threads, targets,         *)
(* payloads and keys.                                                      *)
(***************************************************************************)
EXTENDS KeyedWrites, SequenceTheorems, TLAPS

-----------------------------------------------------------------------------
(* The inductive invariant.                                                *)

Approved(v) ==
  \E i \in DOMAIN events : /\ events[i].type = "review"
                          /\ events[i].target = v
                          /\ events[i].content \in Approvals

Created(v) ==
  \E i \in DOMAIN events : events[i].type = "created" /\ events[i].target = v

\* What is on record stays there.
RecordStands == \A v : (Approved(v) => Approved(v)') /\ (Created(v) => Created(v)')

\* A request belongs to its stage: only the events of a memo go without a key, only
\* they are appended, of a memo whose creation is on record, and a package or
\* commentary only gets past the gate of its memo with an approval on record.
Sound(j) ==
  j.pc # "idle" =>
    /\ j.request \in Request
    /\ j.request.op \notin MemoEventOps => j.request.key \in Keys
    /\ j.request.op \in MemoEventOps => Created(j.request.target)
    /\ j.pc \in {"replay", "relist", "append"} => j.request.op \in MemoEventOps
    /\ j.pc \in {"replay", "relist", "append"} /\ j.request.op = "request"
         => Approved(j.request.target)

JobsSound == \A t \in Threads : Sound(job[t])

IInv ==
  /\ TypeOK
  /\ JobsSound
  /\ AcknowledgementIsKeyed
  /\ MemoIsCreatedOnce
  /\ RequestsFollowApproval

-----------------------------------------------------------------------------
(* Lemmas about the building blocks.                                       *)

LEMMA IdleTyped == Idle \in Job /\ Idle.pc = "idle"
  BY DEF Idle, Job

\* What an INSERT of a key leaves alone, and what it leaves behind.
LEMMA InsertKeyEffect ==
  ASSUME NEW rows \in [Keys -> KeyRow \cup {None}], NEW r \in Request
  PROVE  /\ InsertKey(rows, r) \in [Keys -> KeyRow \cup {None}]
         /\ \A k \in Keys : rows[k] # None => InsertKey(rows, r)[k] = rows[k]
         /\ \A k \in Keys : k = r.key /\ rows[k] = None => InsertKey(rows, r)[k] = RowOf(r)
<1>1. RowOf(r) \in KeyRow
  BY DEF RowOf, KeyRow, Request
<1> QED
  BY <1>1 DEF InsertKey

\* Appending an event adds the last one and moves none.
LEMMA AppendEffect ==
  ASSUME events \in Seq(Event), NEW e \in Event, events' = Append(events, e)
  PROVE  /\ events' \in Seq(Event)
         /\ Len(events) \in Nat
         /\ DOMAIN events = 1..Len(events)
         /\ DOMAIN events' = 1..(Len(events) + 1)
         /\ \A i \in 1..Len(events) : events'[i] = events[i]
         /\ events'[Len(events) + 1] = e
<1>1. Len(events) \in Nat /\ DOMAIN events = 1..Len(events)
  BY LenProperties
<1>2. /\ events' \in Seq(Event)
      /\ Len(events') = Len(events) + 1
      /\ \A i \in 1..Len(events) : events'[i] = events[i]
      /\ events'[Len(events) + 1] = e
  BY AppendProperties
<1>3. DOMAIN events' = 1..Len(events')
  BY <1>2, LenProperties
<1> QED
  BY <1>1, <1>2, <1>3

\* An approval or a creation on record stays there.
LEMMA RecordStays ==
  ASSUME events \in Seq(Event), NEW e \in Event, events' = Append(events, e)
  PROVE  RecordStands
<1>1. \A i \in DOMAIN events : i \in DOMAIN events' /\ events'[i] = events[i]
  BY AppendEffect
<1> QED
  BY <1>1 DEF RecordStands, Approved, Created

\* The rest of the threads is sound after a step of one.
LEMMA OneJobMoves ==
  ASSUME TypeOK, JobsSound, NEW t \in Threads,
         job' = [job EXCEPT ![t] = job'[t]], job'[t] \in Job, Sound(job[t])',
         RecordStands
  PROVE  job' \in [Threads -> Job] /\ JobsSound'
<1>1. job' \in [Threads -> Job]
  BY DEF TypeOK
<1>2. ASSUME NEW u \in Threads, u # t
      PROVE  Sound(job[u])'
  <2>1. job'[u] = job[u] /\ Sound(job[u])
    BY <1>2 DEF TypeOK, JobsSound
  <2> QED
    BY <2>1 DEF Sound, RecordStands
<1> QED
  BY <1>1, <1>2 DEF JobsSound

LEMMA EndEffect ==
  ASSUME TypeOK, JobsSound, NEW t \in Threads, End(t),
         RecordStands
  PROVE  job' \in [Threads -> Job] /\ JobsSound'
<1>1. job'[t] = Idle /\ job' = [job EXCEPT ![t] = job'[t]]
  BY DEF End, TypeOK
<1>2. Sound(job[t])'
  BY <1>1, IdleTyped DEF Sound
<1> QED
  BY <1>1, <1>2, IdleTyped, OneJobMoves

\* A step that stores nothing keeps what is said of the tables.
LEMMA NothingStored ==
  ASSUME IInv, job' \in [Threads -> Job], JobsSound', requests' \in Nat,
         UNCHANGED <<simulationKeys, ackKeys, acks, memoKeys, memos, events>>
  PROVE  IInv'
<1>1. TypeOK'
  BY DEF IInv, TypeOK
<1>2. AcknowledgementIsKeyed' /\ MemoIsCreatedOnce' /\ RequestsFollowApproval'
  BY DEF IInv, AcknowledgementIsKeyed, MemoIsCreatedOnce, RequestsFollowApproval
<1> QED
  BY <1>1, <1>2 DEF IInv

LEMMA RequestEnds ==
  ASSUME IInv, NEW t \in Threads, End(t),
         UNCHANGED <<simulationKeys, ackKeys, acks, memoKeys, memos, events, requests>>
  PROVE  IInv'
<1>1. RecordStands
  BY DEF RecordStands, Approved, Created
<1>2. job' \in [Threads -> Job] /\ JobsSound'
  BY <1>1, EndEffect DEF IInv
<1> QED
  BY <1>2, NothingStored DEF IInv, TypeOK

\* A request goes on to a stage it may be in.
LEMMA RequestGoesOn ==
  ASSUME IInv, NEW t \in Threads, job[t].pc # "idle",
         NEW pc \in {"save", "find", "create", "savekey", "replay", "relist", "append"},
         Step(t, pc),
         pc \in {"replay", "relist", "append"} =>
           /\ job[t].request.op \in MemoEventOps
           /\ job[t].request.op = "request" => Approved(job[t].request.target),
         UNCHANGED <<simulationKeys, ackKeys, acks, memoKeys, memos, events, requests>>
  PROVE  IInv'
<1>1. job[t] \in Job /\ Sound(job[t])
  BY DEF IInv, TypeOK, JobsSound
<1>2. job'[t] = [job[t] EXCEPT !.pc = pc] /\ job' = [job EXCEPT ![t] = job'[t]]
  BY DEF Step, IInv, TypeOK
<1>3. job'[t] \in Job /\ job'[t].pc = pc /\ job'[t].request = job[t].request
  BY <1>1, <1>2 DEF Job
<1>4. RecordStands
  BY DEF RecordStands, Approved, Created
<1>5. Sound(job[t])'
  BY <1>1, <1>3, <1>4 DEF Sound, RecordStands
<1>6. job' \in [Threads -> Job] /\ JobsSound'
  BY <1>2, <1>3, <1>4, <1>5, OneJobMoves DEF IInv
<1> QED
  BY <1>6, NothingStored DEF IInv, TypeOK

-----------------------------------------------------------------------------
(* The invariant is inductive.                                             *)

THEOREM InitSound == Init => IInv
<1> SUFFICES ASSUME Init
             PROVE  IInv
  OBVIOUS
<1>1. events \in Seq(Event) /\ DOMAIN events = {}
  BY EmptySeq, LenProperties DEF Init
<1>2. TypeOK
  BY <1>1, IdleTyped DEF Init, TypeOK
<1>3. JobsSound
  BY IdleTyped DEF Init, JobsSound, Sound
<1>4. AcknowledgementIsKeyed /\ MemoIsCreatedOnce /\ RequestsFollowApproval
  BY <1>1 DEF Init, AcknowledgementIsKeyed, MemoIsCreatedOnce, RequestsFollowApproval
<1> QED
  BY <1>2, <1>3, <1>4 DEF IInv

LEMMA StartSound ==
  ASSUME IInv, NEW t \in Threads, Start(t)
  PROVE  IInv'
<1>1. PICK op \in Ops, i \in Targets, c \in Contents, k \in Keys \cup {None} :
        /\ op \in MemoEventOps => memos[i] # None
        /\ k = None => op \in MemoEventOps
        /\ job' = [job EXCEPT ![t] =
                     [pc |-> CASE op = "request" -> "gate"
                               [] op \in {"review", "record"} -> "relist"
                               [] OTHER -> "lookup",
                      request |-> [op |-> op, target |-> i, content |-> c, key |-> k,
                                   at |-> requests + 1]]]
  BY DEF Start
<1> DEFINE r == [op |-> op, target |-> i, content |-> c, key |-> k, at |-> requests + 1]
           pc == CASE op = "request" -> "gate"
                   [] op \in {"review", "record"} -> "relist"
                   [] OTHER -> "lookup"
<1>2. requests + 1 \in Nat
  BY DEF IInv, TypeOK
<1>3. r \in Request /\ r.op = op /\ r.key = k /\ r.target = i
  BY <1>2 DEF Request
<1>4. pc \in {"gate", "relist", "lookup"} /\ (pc = "relist" => op \in {"review", "record"})
  OBVIOUS
<1> HIDE DEF r, pc
<1>5. job'[t] = [pc |-> pc, request |-> r] /\ job' = [job EXCEPT ![t] = job'[t]]
  BY <1>1 DEF pc, r, IInv, TypeOK
<1>6. job'[t] \in Job
  BY <1>3, <1>4, <1>5 DEF Job
<1>7. Sound(job[t])'
  <2>1. op \in MemoEventOps => Created(i)
    BY <1>1 DEF IInv, MemoIsCreatedOnce, Created
  <2>2. op \in MemoEventOps => Created(i)'
    BY <2>1 DEF Start, Created
  <2> QED
    BY <1>1, <1>3, <1>4, <1>5, <2>2 DEF Sound, MemoEventOps
<1>8. RecordStands
  BY DEF Start, RecordStands, Approved, Created
<1>9. job' \in [Threads -> Job] /\ JobsSound'
  BY <1>5, <1>6, <1>7, <1>8, OneJobMoves DEF IInv
<1>10. UNCHANGED <<simulationKeys, ackKeys, acks, memoKeys, memos, events>>
  BY DEF Start
<1>11. requests' \in Nat
  BY <1>2 DEF Start
<1> QED
  BY <1>9, <1>10, <1>11, NothingStored

\* The reads of a request.
LEMMA ReadSound ==
  ASSUME IInv, NEW t \in Threads,
         \/ LookUpSimulation(t) \/ LookUpAcknowledgement(t) \/ LookUpMemoKey(t)
         \/ FindMemo(t) \/ require_advisor_use_review(t) \/ FindReplayedEvent(t)
  PROVE  IInv'
<1>1. CASE LookUpSimulation(t) \/ LookUpAcknowledgement(t) \/ LookUpMemoKey(t)
  BY <1>1, RequestEnds, RequestGoesOn
  DEF LookUpSimulation, LookUpAcknowledgement, LookUpMemoKey, At
<1>2. CASE FindMemo(t)
  BY <1>2, RequestGoesOn DEF FindMemo, At
<1>3. CASE require_advisor_use_review(t)
  <2>1. PICK i \in latest_review(job[t].request.target) : events[i].content \in Approvals
    BY <1>3 DEF require_advisor_use_review
  <2>2. Approved(job[t].request.target)
    BY <2>1 DEF latest_review, Approved
  <2> QED
    BY <1>3, <2>2, RequestGoesOn DEF require_advisor_use_review, At, MemoEventOps
<1>4. CASE FindReplayedEvent(t)
  <2>1. job[t].pc \in {"replay", "relist"} /\ Sound(job[t])
    BY <1>4 DEF FindReplayedEvent, IInv, JobsSound
  <2>2. End(t) \/ Step(t, "relist") \/ Step(t, "append")
    BY <1>4 DEF FindReplayedEvent
  <2>3. UNCHANGED <<simulationKeys, ackKeys, acks, memoKeys, memos, events, requests>>
    BY <1>4 DEF FindReplayedEvent
  <2>4. /\ job[t].request.op \in MemoEventOps
        /\ job[t].request.op = "request" => Approved(job[t].request.target)
    BY <2>1 DEF Sound
  <2> QED
    BY <2>1, <2>2, <2>3, <2>4, RequestEnds, RequestGoesOn
<1> QED
  BY <1>1, <1>2, <1>3, <1>4

\* What a writer ends with, where it appends no event.
LEMMA WriterEnds ==
  ASSUME IInv, NEW t \in Threads, End(t), UNCHANGED <<events, requests>>
  PROVE  job' \in [Threads -> Job] /\ JobsSound' /\ RequestsFollowApproval'
<1>1. RecordStands
  BY DEF RecordStands, Approved, Created
<1>2. RequestsFollowApproval'
  BY DEF IInv, RequestsFollowApproval
<1> QED
  BY <1>1, <1>2, EndEffect DEF IInv

LEMMA SaveSimulationSound ==
  ASSUME IInv, NEW t \in Threads, SaveSimulation(t)
  PROVE  IInv'
<1> DEFINE r == job[t].request
<1>1. r \in Request /\ r.op \notin MemoEventOps /\ r.key \in Keys
  BY DEF SaveSimulation, At, IInv, JobsSound, Sound, MemoEventOps
<1>2. RowOf(r) \in KeyRow
  BY <1>1 DEF RowOf, KeyRow, Request
<1>3. simulationKeys' \in [Keys -> KeyRow \cup {None}]
  BY <1>2 DEF SaveSimulation, IInv, TypeOK
<1>4. UNCHANGED <<ackKeys, acks, memoKeys, memos, events, requests>>
  BY DEF SaveSimulation
<1>5. job' \in [Threads -> Job] /\ JobsSound' /\ RequestsFollowApproval'
  BY <1>4, WriterEnds DEF SaveSimulation
<1>6. TypeOK'
  BY <1>3, <1>4, <1>5 DEF IInv, TypeOK
<1>7. AcknowledgementIsKeyed' /\ MemoIsCreatedOnce'
  BY <1>4 DEF IInv, AcknowledgementIsKeyed, MemoIsCreatedOnce
<1> QED
  BY <1>5, <1>6, <1>7 DEF IInv

\* An acknowledgement is stored under a key that was free or already stood for it.
LEMMA SaveAcknowledgementSound ==
  ASSUME IInv, NEW t \in Threads, SaveAcknowledgement(t)
  PROVE  IInv'
<1> DEFINE r == job[t].request
           ack == [content |-> r.content, key |-> r.key, at |-> r.at]
<1>1. r \in Request /\ r.key \in Keys /\ r.target \in Targets
  BY DEF SaveAcknowledgement, At, IInv, JobsSound, Sound, MemoEventOps, Request
<1>2. ackKeys \in [Keys -> KeyRow \cup {None}] /\ ackKeys' = InsertKey(ackKeys, r)
  BY DEF SaveAcknowledgement, IInv, TypeOK
<1>3. /\ ackKeys' \in [Keys -> KeyRow \cup {None}]
      /\ \A k \in Keys : ackKeys[k] # None => ackKeys'[k] = ackKeys[k]
      /\ ackKeys[r.key] = None => ackKeys'[r.key] = RowOf(r)
  BY <1>1, <1>2, InsertKeyEffect
<1>4. acks' = [acks EXCEPT ![r.target] = ack]
  BY DEF SaveAcknowledgement
<1>5. UNCHANGED <<simulationKeys, memoKeys, memos, events, requests>>
  BY DEF SaveAcknowledgement
<1>6. job' \in [Threads -> Job] /\ JobsSound' /\ RequestsFollowApproval'
  BY <1>5, WriterEnds DEF SaveAcknowledgement
<1>7. TypeOK'
  <2>1. ack \in [content : Contents, key : Keys, at : Nat]
    BY <1>1 DEF Request
  <2>2. acks' \in [Targets -> [content : Contents, key : Keys, at : Nat] \cup {None}]
    BY <1>4, <2>1 DEF IInv, TypeOK
  <2> QED
    BY <1>3, <1>5, <1>6, <2>2 DEF IInv, TypeOK
<1>8. /\ ackKeys'[r.key] # None
      /\ ackKeys'[r.key].target = r.target
      /\ ackKeys'[r.key].content = r.content
  <2>1. CASE ackKeys[r.key] = None
    <3>1. RowOf(r) \in KeyRow
      BY <1>1 DEF RowOf, KeyRow, Request
    <3> QED
      BY <1>3, <2>1, <3>1, RowsAssumption DEF RowOf
  <2>2. CASE ackKeys[r.key] # None
    <3>1. SameHash(ackKeys[r.key], r)
      BY <2>2 DEF SaveAcknowledgement, KeyIsOurs
    <3> QED
      BY <1>1, <1>3, <2>2, <3>1 DEF SameHash
  <2> QED
    BY <2>1, <2>2
<1>9. AcknowledgementIsKeyed'
  <2> SUFFICES ASSUME NEW i \in Targets, acks'[i] # None
               PROVE  /\ ackKeys'[acks'[i].key] # None
                      /\ ackKeys'[acks'[i].key].target = i
                      /\ ackKeys'[acks'[i].key].content = acks'[i].content
    BY DEF AcknowledgementIsKeyed
  <2>1. CASE i = r.target
    <3>1. acks'[i] = ack
      BY <1>4, <2>1 DEF IInv, TypeOK
    <3> QED
      BY <1>8, <2>1, <3>1
  <2>2. CASE i # r.target
    <3>1. acks'[i] = acks[i] /\ acks[i] \in [content : Contents, key : Keys, at : Nat]
      BY <1>4, <2>2 DEF IInv, TypeOK
    <3> QED
      BY <1>3, <3>1 DEF IInv, AcknowledgementIsKeyed
  <2> QED
    BY <2>1, <2>2
<1>10. MemoIsCreatedOnce'
  BY <1>5 DEF IInv, MemoIsCreatedOnce
<1> QED
  BY <1>6, <1>7, <1>9, <1>10 DEF IInv

LEMMA SaveMemoKeySound ==
  ASSUME IInv, NEW t \in Threads, SaveMemoKey(t)
  PROVE  IInv'
<1> DEFINE r == job[t].request
<1>1. r \in Request
  BY DEF SaveMemoKey, At, IInv, JobsSound, Sound
<1>2. memoKeys' = InsertKey(memoKeys, r) /\ memoKeys \in [Keys -> KeyRow \cup {None}]
  BY DEF SaveMemoKey, insert_memo_idempotency, IInv, TypeOK
<1>3. memoKeys' \in [Keys -> KeyRow \cup {None}]
  BY <1>1, <1>2, InsertKeyEffect
<1>4. UNCHANGED <<simulationKeys, ackKeys, acks, memos, events, requests>>
  BY DEF SaveMemoKey
<1>5. job' \in [Threads -> Job] /\ JobsSound' /\ RequestsFollowApproval'
  BY <1>4, WriterEnds DEF SaveMemoKey
<1>6. TypeOK'
  BY <1>3, <1>4, <1>5 DEF IInv, TypeOK
<1>7. AcknowledgementIsKeyed' /\ MemoIsCreatedOnce'
  BY <1>4 DEF IInv, AcknowledgementIsKeyed, MemoIsCreatedOnce
<1> QED
  BY <1>5, <1>6, <1>7 DEF IInv

\* A writer that appends an event which follows the creation and the approval it
\* needs.
LEMMA AppenderEnds ==
  ASSUME IInv, NEW t \in Threads, End(t), NEW e \in Event, events' = Append(events, e),
         e.type # "created" => Created(e.target),
         e.type = "request" => Approved(e.target)
  PROVE  job' \in [Threads -> Job] /\ JobsSound' /\ RequestsFollowApproval'
<1>1. events \in Seq(Event)
  BY DEF IInv, TypeOK
<1>2. RecordStands
  BY <1>1, RecordStays
<1>3. RequestsFollowApproval'
  <2> SUFFICES ASSUME NEW i \in DOMAIN events'
               PROVE  /\ events'[i].type # "created" =>
                           \E j \in 1..(i - 1) : /\ events'[j].type = "created"
                                                 /\ events'[j].target = events'[i].target
                      /\ events'[i].type = "request" =>
                           \E j \in 1..(i - 1) : /\ events'[j].type = "review"
                                                 /\ events'[j].target = events'[i].target
                                                 /\ events'[j].content \in Approvals
    BY DEF RequestsFollowApproval
  <2>0. /\ Len(events) \in Nat /\ DOMAIN events = 1..Len(events)
        /\ \A j \in 1..Len(events) : events'[j] = events[j]
        /\ events'[Len(events) + 1] = e
        /\ DOMAIN events' = 1..(Len(events) + 1)
    BY <1>1, AppendEffect
  <2>1. CASE i = Len(events) + 1
    <3>1. /\ events'[i] = e
          /\ \A j \in DOMAIN events : j \in 1..(i - 1) /\ events'[j] = events[j]
      BY <2>0, <2>1
    <3> QED
      BY <3>1 DEF Approved, Created
  <2>2. CASE i # Len(events) + 1
    <3>1. /\ i \in DOMAIN events /\ events'[i] = events[i]
          /\ \A j \in 1..(i - 1) : events'[j] = events[j]
      BY <2>0, <2>2
    <3>2. /\ events[i].type # "created" =>
               \E j \in 1..(i - 1) : /\ events[j].type = "created"
                                     /\ events[j].target = events[i].target
          /\ events[i].type = "request" =>
               \E j \in 1..(i - 1) : /\ events[j].type = "review"
                                     /\ events[j].target = events[i].target
                                     /\ events[j].content \in Approvals
      BY <3>1 DEF IInv, RequestsFollowApproval
    <3> QED
      BY <3>1, <3>2
  <2> QED
    BY <2>1, <2>2
<1> QED
  BY <1>2, <1>3, EndEffect DEF IInv

\* The primary key lets one memo of a version in, with its event.
LEMMA CreateMemoSound ==
  ASSUME IInv, NEW t \in Threads, CreateMemo(t)
  PROVE  IInv'
<1> DEFINE r == job[t].request
           e == EventOf(r, "created")
           memo == [content |-> r.content, at |-> r.at]
<1>1. r \in Request
  BY DEF CreateMemo, At, IInv, JobsSound, Sound
<1>2. e \in Event /\ e.type = "created" /\ e.target = r.target /\ e.at = r.at
  BY <1>1 DEF EventOf, Event, Request
<1>3. memo \in Memo /\ memo.at = r.at /\ r.target \in Targets
  BY <1>1 DEF Memo, Request
<1>4. events \in Seq(Event) /\ memos \in [Targets -> Memo \cup {None}] /\ memos[r.target] = None
  BY DEF CreateMemo, MemoIsNew, IInv, TypeOK
<1>5. /\ memos' = [memos EXCEPT ![r.target] = memo]
      /\ memoKeys' = InsertKey(memoKeys, r)
      /\ events' = Append(events, e)
      /\ End(t)
      /\ UNCHANGED <<simulationKeys, ackKeys, acks, requests>>
  BY <1>4 DEF CreateMemo, insert_memo_idempotency
<1> HIDE DEF e, memo
<1>6. job' \in [Threads -> Job] /\ JobsSound' /\ RequestsFollowApproval'
  BY <1>2, <1>5, AppenderEnds
<1>7. TypeOK'
  <2>1. memoKeys' \in [Keys -> KeyRow \cup {None}]
    BY <1>1, <1>5, InsertKeyEffect DEF IInv, TypeOK
  <2>2. events' \in Seq(Event)
    BY <1>2, <1>4, <1>5, AppendEffect
  <2>3. memos' \in [Targets -> Memo \cup {None}]
    BY <1>3, <1>4, <1>5
  <2> QED
    BY <1>5, <1>6, <2>1, <2>2, <2>3 DEF IInv, TypeOK
<1>8. MemoIsCreatedOnce'
  <2> DEFINE Made(v) == {i \in DOMAIN events : events[i].type = "created" /\ events[i].target = v}
             MadeNow(v) == {i \in DOMAIN events' :
                              events'[i].type = "created" /\ events'[i].target = v}
             last == Len(events) + 1
  <2>1. /\ DOMAIN events = 1..Len(events) /\ DOMAIN events' = 1..last
        /\ Len(events) \in Nat
        /\ \A i \in DOMAIN events : events'[i] = events[i]
        /\ events'[last] = e
    BY <1>2, <1>4, <1>5, AppendEffect
  <2> HIDE DEF last
  <2>2. DOMAIN events' = DOMAIN events \cup {last}
    BY <2>1 DEF last
  <2>3. \A v : v # r.target => MadeNow(v) = Made(v)
    BY <1>2, <2>1, <2>2
  <2>4. Made(r.target) = {}
    BY <1>3, <1>4 DEF IInv, MemoIsCreatedOnce
  <2>5. MadeNow(r.target) = {last}
    BY <1>2, <2>1, <2>2, <2>4
  <2> SUFFICES ASSUME NEW v \in Targets
               PROVE  IF memos'[v] = None THEN MadeNow(v) = {}
                      ELSE \E i \in MadeNow(v) : MadeNow(v) = {i} /\ events'[i].at = memos'[v].at
    BY DEF MemoIsCreatedOnce
  <2>6. CASE v = r.target
    <3>1. memos'[v] = memo /\ memo # None
      BY <1>3, <1>4, <1>5, <2>6, RowsAssumption
    <3> QED
      BY <1>2, <1>3, <2>1, <2>5, <2>6, <3>1
  <2>7. CASE v # r.target
    <3>1. memos'[v] = memos[v] /\ MadeNow(v) = Made(v)
      BY <1>4, <1>5, <2>3, <2>7
    <3>2. IF memos[v] = None THEN Made(v) = {}
          ELSE \E i \in Made(v) : Made(v) = {i} /\ events[i].at = memos[v].at
      BY DEF IInv, MemoIsCreatedOnce
    <3>3. \A i \in Made(v) : events'[i] = events[i]
      BY <2>1
    <3> HIDE DEF Made, MadeNow
    <3> QED
      BY <3>1, <3>2, <3>3
  <2> QED
    BY <2>6, <2>7
<1>9. AcknowledgementIsKeyed'
  BY <1>5 DEF IInv, AcknowledgementIsKeyed
<1> QED
  BY <1>6, <1>7, <1>8, <1>9 DEF IInv

LEMMA AppendEventSound ==
  ASSUME IInv, NEW t \in Threads, AppendEvent(t)
  PROVE  IInv'
<1> DEFINE r == job[t].request
           e == EventOf(r, r.op)
<1>1. /\ r \in Request /\ r.op \in MemoEventOps /\ Created(r.target)
      /\ r.op = "request" => Approved(r.target)
  BY DEF AppendEvent, IInv, JobsSound, Sound
<1>2. e \in Event /\ e.type = r.op /\ e.target = r.target
  BY <1>1 DEF EventOf, Event, Request
<1>3. /\ events \in Seq(Event)
      /\ events' = Append(events, e)
      /\ End(t)
      /\ UNCHANGED <<simulationKeys, ackKeys, acks, memoKeys, memos, requests>>
  BY DEF AppendEvent, IInv, TypeOK
<1> HIDE DEF e
<1>4. job' \in [Threads -> Job] /\ JobsSound' /\ RequestsFollowApproval'
  BY <1>1, <1>2, <1>3, AppenderEnds
<1>5. TypeOK'
  BY <1>2, <1>3, <1>4, AppendEffect DEF IInv, TypeOK
<1>6. MemoIsCreatedOnce'
  <2> DEFINE Made(v) == {i \in DOMAIN events : events[i].type = "created" /\ events[i].target = v}
             MadeNow(v) == {i \in DOMAIN events' :
                              events'[i].type = "created" /\ events'[i].target = v}
             last == Len(events) + 1
  <2>1. /\ DOMAIN events = 1..Len(events) /\ DOMAIN events' = 1..last
        /\ Len(events) \in Nat
        /\ \A i \in DOMAIN events : events'[i] = events[i]
        /\ events'[last] = e
    BY <1>2, <1>3, AppendEffect
  <2> HIDE DEF last
  <2>2. DOMAIN events' = DOMAIN events \cup {last}
    BY <2>1 DEF last
  <2>3. e.type # "created"
    BY <1>1, <1>2 DEF MemoEventOps
  <2>4. \A v : MadeNow(v) = Made(v)
    BY <2>1, <2>2, <2>3
  <2> SUFFICES ASSUME NEW v \in Targets
               PROVE  IF memos[v] = None THEN MadeNow(v) = {}
                      ELSE \E i \in MadeNow(v) : MadeNow(v) = {i} /\ events'[i].at = memos[v].at
    BY <1>3 DEF MemoIsCreatedOnce
  <2>5. IF memos[v] = None THEN Made(v) = {}
        ELSE \E i \in Made(v) : Made(v) = {i} /\ events[i].at = memos[v].at
    BY DEF IInv, MemoIsCreatedOnce
  <2>6. \A i \in Made(v) : events'[i] = events[i]
    BY <2>1
  <2> HIDE DEF Made, MadeNow
  <2> QED
    BY <2>4, <2>5, <2>6
<1>7. AcknowledgementIsKeyed'
  BY <1>3 DEF IInv, AcknowledgementIsKeyed
<1> QED
  BY <1>4, <1>5, <1>6, <1>7 DEF IInv

\* Every step keeps the invariant.
THEOREM StepSound == IInv /\ [Next]_vars => IInv'
<1> SUFFICES ASSUME IInv, [Next]_vars
             PROVE  IInv'
  OBVIOUS
<1>1. CASE UNCHANGED vars
  <2>1. UNCHANGED <<simulationKeys, ackKeys, acks, memoKeys, memos, events, job, requests>>
    BY <1>1 DEF vars
  <2>2. JobsSound'
    BY <2>1 DEF IInv, JobsSound, Sound, Approved, Created
  <2> QED
    BY <2>1, <2>2, NothingStored DEF IInv, TypeOK
<1>2. ASSUME NEW t \in Threads,
             \/ Start(t)
             \/ LookUpSimulation(t) \/ SaveSimulation(t)
             \/ LookUpAcknowledgement(t) \/ SaveAcknowledgement(t)
             \/ LookUpMemoKey(t) \/ FindMemo(t) \/ SaveMemoKey(t) \/ CreateMemo(t)
             \/ require_advisor_use_review(t) \/ FindReplayedEvent(t) \/ AppendEvent(t)
             \/ Fail(t)
      PROVE  IInv'
  <2>1. CASE Start(t)
    BY <2>1, StartSound
  <2>2. CASE \/ LookUpSimulation(t) \/ LookUpAcknowledgement(t) \/ LookUpMemoKey(t)
             \/ FindMemo(t) \/ require_advisor_use_review(t) \/ FindReplayedEvent(t)
    BY <2>2, ReadSound
  <2>3. CASE SaveSimulation(t)
    BY <2>3, SaveSimulationSound
  <2>4. CASE SaveAcknowledgement(t)
    BY <2>4, SaveAcknowledgementSound
  <2>5. CASE SaveMemoKey(t)
    BY <2>5, SaveMemoKeySound
  <2>6. CASE CreateMemo(t)
    BY <2>6, CreateMemoSound
  <2>7. CASE AppendEvent(t)
    BY <2>7, AppendEventSound
  <2>8. CASE Fail(t)
    BY <2>8, RequestEnds DEF Fail
  <2> QED
    BY <1>2, <2>1, <2>2, <2>3, <2>4, <2>5, <2>6, <2>7, <2>8
<1> QED
  BY <1>1, <1>2 DEF Next

THEOREM Invariance == Spec => []IInv
  BY InitSound, StepSound, PTL DEF Spec

-----------------------------------------------------------------------------
(* The theorems.                                                           *)

\* The tables hold rows and the threads requests, whatever overlaps or fails.
THEOREM TypeCorrect == Spec => []TypeOK
<1>1. IInv => TypeOK
  BY DEF IInv
<1> QED
  BY <1>1, Invariance, PTL

\* An acknowledgement shows only under a key that stands for it: the transaction
\* that loses a race for the key rolls back.
THEOREM AcknowledgementsAreKeyed == Spec => []AcknowledgementIsKeyed
<1>1. IInv => AcknowledgementIsKeyed
  BY DEF IInv
<1> QED
  BY <1>1, Invariance, PTL

\* A memo has one creation, recorded with it: the primary key refuses the other.
THEOREM MemosAreCreatedOnce == Spec => []MemoIsCreatedOnce
<1>1. IInv => MemoIsCreatedOnce
  BY DEF IInv
<1> QED
  BY <1>1, Invariance, PTL

\* Every event of a memo comes after the memo's creation, and a requested package or
\* commentary after an approval of it, as events are appended and never withdrawn
\* between the gate and the request.
THEOREM RequestsFollowApprovals == Spec => []RequestsFollowApproval
<1>1. IInv => RequestsFollowApproval
  BY DEF IInv
<1> QED
  BY <1>1, Invariance, PTL

\* The key of an acknowledgement or of a memo stands for one request for good.
THEOREM KeysStayFixed == Spec => KeysAreFixed
<1> DEFINE Fixed(k) == /\ ackKeys[k] # None => ackKeys'[k] = ackKeys[k]
                       /\ memoKeys[k] # None => memoKeys'[k] = memoKeys[k]
<1>1. ASSUME Next, NEW k \in Keys
      PROVE  Fixed(k)
  <2>1. PICK t \in Threads :
          \/ UNCHANGED <<ackKeys, memoKeys>>
          \/ ackKeys' = InsertKey(ackKeys, job[t].request) /\ UNCHANGED memoKeys
          \/ memoKeys' = InsertKey(memoKeys, job[t].request) /\ UNCHANGED ackKeys
    BY <1>1
    DEF Next, Start, LookUpSimulation, SaveSimulation, LookUpAcknowledgement,
        SaveAcknowledgement, LookUpMemoKey, FindMemo, SaveMemoKey, CreateMemo,
        require_advisor_use_review, FindReplayedEvent, AppendEvent, Fail,
        insert_memo_idempotency
  <2> QED
    BY <2>1 DEF InsertKey
<1>2. Next => [\A k \in Keys : Fixed(k)]_vars
  BY <1>1
<1>3. [Next]_vars => [\A k \in Keys : Fixed(k)]_vars
  BY <1>2
<1> QED
  BY <1>3, PTL DEF Spec, KeysAreFixed
=============================================================================
