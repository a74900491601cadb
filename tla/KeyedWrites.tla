------------------------------ MODULE KeyedWrites ------------------------------
(***************************************************************************)
(* The keyed writes of the proposal store outside the lifecycle:           *)
(* simulations, cockpit acknowledgements, advisor memos and the events of  *)
(* a memo (reviews, packages recorded, packages and AI commentaries        *)
(* requested).                                                             *)
(*                                                                         *)
(* All four look an Idempotency-Key up in one transaction and write in     *)
(* another; they differ in what the write does when the key is taken by    *)
(* then: overwrites it (simulation), rolls back unless it is the same      *)
(* request (acknowledgement), leaves it (memo), or does not look at it     *)
(* (events of a memo, which keep their key inside).                        *)
(*                                                                         *)
(* Abstractions: a content is the payload of a request without its target; *)
(* the id of a memo is the hash of a pack built from the version alone, so *)
(* a memo is its version; the action version an acknowledgement names is   *)
(* part of its content; a clock reading is the number of the request.      *)
(***************************************************************************)
EXTENDS Naturals, Sequences

CONSTANTS
  Threads,      \* request threads
  Targets,      \* cockpit action items; proposal versions
  Contents,     \* payloads
  Approvals,    \* the payloads that approve a memo for advisor use
  Keys,         \* Idempotency-Key values
  None,         \* an absent value
  MaxRequests   \* bound: requests started

ASSUME NoneAssumption == None \notin Targets \cup Contents \cup Keys
ASSUME ApprovalsAssumption == Approvals \subseteq Contents
ASSUME BoundAssumption == MaxRequests \in Nat

VARIABLES
  simulationKeys,  \* proposal_simulation_idempotency
  ackKeys,         \* advisor_cockpit_acknowledgement_idempotency
  acks,            \* advisor_cockpit_acknowledgements, by action item
  memoKeys,        \* proposal_memo_idempotency
  memos,           \* proposal_memos, by version
  events,          \* proposal_memo_events, in the order of their commits
  job,             \* per thread: its request
  requests         \* requests started

vars == <<simulationKeys, ackKeys, acks, memoKeys, memos, events, job, requests>>

-----------------------------------------------------------------------------
\* Records

MemoEventOps == {"review", "record", "request"}
Ops == {"simulate", "acknowledge", "create_memo"} \cup MemoEventOps

\* target and content are what the request hash covers; at tells requests apart.
Request == [op : Ops, target : Targets, content : Contents, key : Keys \cup {None}, at : Nat]
KeyRow == [target : Targets, content : Contents, at : Nat]
Memo == [content : Contents, at : Nat]
Event == [type : MemoEventOps \cup {"created"}, target : Targets, content : Contents,
          key : Keys \cup {None}, at : Nat]

Job == [pc : {"idle", "lookup", "save", "find", "create", "savekey", "gate", "replay",
              "relist", "append"},
        request : Request \cup {None}]

ASSUME RowsAssumption == None \notin KeyRow \cup Memo

Idle == [pc |-> "idle", request |-> None]

RowOf(r) == [target |-> r.target, content |-> r.content, at |-> r.at]

EventOf(r, type) ==
  [type |-> type, target |-> r.target, content |-> r.content, key |-> r.key, at |-> r.at]

SameHash(row, r) == row.target = r.target /\ row.content = r.content

-----------------------------------------------------------------------------
(* Faults: the statements of the code with a plausible bug.                *)

\* INSERT ... ON CONFLICT (memo_id) DO NOTHING, as for the keys.
MemoConflictIgnored(v) == TRUE

\* No second look at the key inside the transaction.
KeyUnread(r) == TRUE

\* ON CONFLICT DO UPDATE, as for the proposals.
OverwriteKey(rows, r) == [k \in Keys |-> IF k = r.key THEN RowOf(r) ELSE rows[k]]

\* The latest event of the memo, whatever its type.
AnyLatest(v) ==
  {i \in DOMAIN events : /\ events[i].target = v
                         /\ \A j \in DOMAIN events :
                              events[j].target = v => events[j].at <= events[i].at}

-----------------------------------------------------------------------------
Init ==
  /\ simulationKeys = [k \in Keys |-> None]
  /\ ackKeys = [k \in Keys |-> None]
  /\ acks = [i \in Targets |-> None]
  /\ memoKeys = [k \in Keys |-> None]
  /\ memos = [v \in Targets |-> None]
  /\ events = <<>>
  /\ job = [t \in Threads |-> Idle]
  /\ requests = 0

Step(t, pc) == job' = [job EXCEPT ![t].pc = pc]
End(t) == job' = [job EXCEPT ![t] = Idle]

At(t, pc, ops) == job[t].pc = pc /\ job[t].request.op \in ops

\* Only the events of a memo go without a key, and only where its memo exists.
Start(t) ==
  /\ job[t].pc = "idle"
  /\ requests < MaxRequests
  /\ requests' = requests + 1
  /\ \E op \in Ops, i \in Targets, c \in Contents, k \in Keys \cup {None} :
       /\ op \in MemoEventOps => memos[i] # None
       /\ k = None => op \in MemoEventOps
       /\ job' = [job EXCEPT ![t] =
                    [pc |-> CASE op = "request" -> "gate"
                              [] op \in {"review", "record"} -> "relist"
                              [] OTHER -> "lookup",
                     request |-> [op |-> op, target |-> i, content |-> c, key |-> k,
                                  at |-> requests + 1]]]
  /\ UNCHANGED <<simulationKeys, ackKeys, acks, memoKeys, memos, events>>

-----------------------------------------------------------------------------
(* Simulations.                                                            *)

\* The key answers the request or refuses it; without it the result is computed.
LookUpSimulation(t) ==
  /\ At(t, "lookup", {"simulate"})
  /\ IF simulationKeys[job[t].request.key] = None THEN Step(t, "save") ELSE End(t)
  /\ UNCHANGED <<simulationKeys, ackKeys, acks, memoKeys, memos, events, requests>>

\* ON CONFLICT DO UPDATE.
SaveSimulation(t) ==
  LET r == job[t].request IN
  /\ At(t, "save", {"simulate"})
  /\ simulationKeys' = [simulationKeys EXCEPT ![r.key] = RowOf(r)]
  /\ End(t)
  /\ UNCHANGED <<ackKeys, acks, memoKeys, memos, events, requests>>

-----------------------------------------------------------------------------
(* Cockpit acknowledgements.                                               *)

LookUpAcknowledgement(t) ==
  /\ At(t, "lookup", {"acknowledge"})
  /\ IF ackKeys[job[t].request.key] = None THEN Step(t, "save") ELSE End(t)
  /\ UNCHANGED <<simulationKeys, ackKeys, acks, memoKeys, memos, events, requests>>

\* The key is read again after its INSERT, which waited for other writers of it.
KeyIsOurs(r) == ackKeys[r.key] # None => SameHash(ackKeys[r.key], r)

InsertKey(rows, r) ==
  [k \in Keys |-> IF k = r.key /\ rows[k] = None THEN RowOf(r) ELSE rows[k]]

\* One transaction, rolled back where the key is another's: the row of the action
\* item takes this acknowledgement over an earlier one.
SaveAcknowledgement(t) ==
  LET r == job[t].request IN
  /\ At(t, "save", {"acknowledge"})
  /\ KeyIsOurs(r)
  /\ ackKeys' = InsertKey(ackKeys, r)
  /\ acks' = [acks EXCEPT ![r.target] = [content |-> r.content, key |-> r.key, at |-> r.at]]
  /\ End(t)
  /\ UNCHANGED <<simulationKeys, memoKeys, memos, events, requests>>

-----------------------------------------------------------------------------
(* Advisor memos.                                                          *)

LookUpMemoKey(t) ==
  /\ At(t, "lookup", {"create_memo"})
  /\ IF memoKeys[job[t].request.key] = None THEN Step(t, "find") ELSE End(t)
  /\ UNCHANGED <<simulationKeys, ackKeys, acks, memoKeys, memos, events, requests>>

\* A memo that is there is the answer; the key is recorded for it.
FindMemo(t) ==
  /\ At(t, "find", {"create_memo"})
  /\ Step(t, IF memos[job[t].request.target] = None THEN "create" ELSE "savekey")
  /\ UNCHANGED <<simulationKeys, ackKeys, acks, memoKeys, memos, events, requests>>

\* ON CONFLICT DO NOTHING.
insert_memo_idempotency(rows, r) == InsertKey(rows, r)

SaveMemoKey(t) ==
  /\ At(t, "savekey", {"create_memo"})
  /\ memoKeys' = insert_memo_idempotency(memoKeys, job[t].request)
  /\ End(t)
  /\ UNCHANGED <<simulationKeys, ackKeys, acks, memos, events, requests>>

\* The primary key refuses a memo that is there.
MemoIsNew(v) == memos[v] = None

CreateMemo(t) ==
  LET r == job[t].request IN
  /\ At(t, "create", {"create_memo"})
  /\ MemoIsNew(r.target)
  /\ memos' = [memos EXCEPT ![r.target] = IF @ = None THEN [content |-> r.content, at |-> r.at]
                                          ELSE @]
  /\ memoKeys' = insert_memo_idempotency(memoKeys, r)
  /\ events' = Append(events, EventOf(r, "created"))
  /\ End(t)
  /\ UNCHANGED <<simulationKeys, ackKeys, acks, requests>>

-----------------------------------------------------------------------------
(* Events of a memo.                                                       *)

\* list_memo_events orders by occurred_at.
latest_review(v) ==
  LET reviews == {i \in DOMAIN events : events[i].target = v /\ events[i].type = "review"} IN
  {i \in reviews : \A j \in reviews : events[j].at <= events[i].at}

\* A package or a commentary is requested on a memo whose latest review approves.
require_advisor_use_review(t) ==
  /\ At(t, "gate", {"request"})
  /\ \E i \in latest_review(job[t].request.target) : events[i].content \in Approvals
  /\ Step(t, "replay")
  /\ UNCHANGED <<simulationKeys, ackKeys, acks, memoKeys, memos, events, requests>>

\* The first event with the key answers the request or refuses it.  A request looks
\* before and after it calls lotus-report or lotus-ai.
FindReplayedEvent(t) ==
  LET r == job[t].request
      known == \E i \in DOMAIN events :
                 /\ r.key # None
                 /\ events[i].target = r.target
                 /\ events[i].key = r.key IN
  /\ \/ /\ job[t].pc = "replay"
        /\ IF known THEN End(t) ELSE Step(t, "relist")
     \/ /\ job[t].pc = "relist"
        /\ IF known THEN End(t) ELSE Step(t, "append")
  /\ UNCHANGED <<simulationKeys, ackKeys, acks, memoKeys, memos, events, requests>>

AppendEvent(t) ==
  LET r == job[t].request IN
  /\ job[t].pc = "append"
  /\ events' = Append(events, EventOf(r, r.op))
  /\ End(t)
  /\ UNCHANGED <<simulationKeys, ackKeys, acks, memoKeys, memos, requests>>

-----------------------------------------------------------------------------
\* A statement or another service fails, or the process stops.
Fail(t) ==
  /\ job[t].pc # "idle"
  /\ End(t)
  /\ UNCHANGED <<simulationKeys, ackKeys, acks, memoKeys, memos, events, requests>>

Next ==
  \E t \in Threads :
    \/ Start(t)
    \/ LookUpSimulation(t) \/ SaveSimulation(t)
    \/ LookUpAcknowledgement(t) \/ SaveAcknowledgement(t)
    \/ LookUpMemoKey(t) \/ FindMemo(t) \/ SaveMemoKey(t) \/ CreateMemo(t)
    \/ require_advisor_use_review(t) \/ FindReplayedEvent(t) \/ AppendEvent(t)
    \/ Fail(t)

Spec == Init /\ [][Next]_vars

-----------------------------------------------------------------------------
(* Properties.                                                             *)

TypeOK ==
  /\ simulationKeys \in [Keys -> KeyRow \cup {None}]
  /\ ackKeys \in [Keys -> KeyRow \cup {None}]
  /\ acks \in [Targets -> [content : Contents, key : Keys, at : Nat] \cup {None}]
  /\ memoKeys \in [Keys -> KeyRow \cup {None}]
  /\ memos \in [Targets -> Memo \cup {None}]
  /\ events \in Seq(Event)
  /\ job \in [Threads -> Job]
  /\ requests \in Nat

\* The acknowledgement an action item shows was made under a key that stands for
\* it: two requests that race under one key, with another payload or for another
\* item, never both take effect.
AcknowledgementIsKeyed ==
  \A i \in Targets :
    acks[i] # None =>
      /\ ackKeys[acks[i].key] # None
      /\ ackKeys[acks[i].key].target = i
      /\ ackKeys[acks[i].key].content = acks[i].content

\* A memo and the event of its creation are one: requests that race for the memo of
\* a version, under one key or several, leave one of each, by the same request.
MemoIsCreatedOnce ==
  \A v \in Targets :
    LET made == {i \in DOMAIN events : events[i].type = "created" /\ events[i].target = v} IN
    IF memos[v] = None THEN made = {}
    ELSE \E i \in made : made = {i} /\ events[i].at = memos[v].at

\* What a key of an acknowledgement or of a memo stands for never changes.
KeysAreFixed ==
  [][\A k \in Keys : /\ ackKeys[k] # None => ackKeys'[k] = ackKeys[k]
                     /\ memoKeys[k] # None => memoKeys'[k] = memoKeys[k]]_vars

\* Every event of a memo follows the memo's creation, and a requested package or
\* commentary an approval of it too, whichever requests overlap.
RequestsFollowApproval ==
  \A i \in DOMAIN events :
    /\ events[i].type # "created" =>
         \E j \in 1..(i - 1) :
           events[j].type = "created" /\ events[j].target = events[i].target
    /\ events[i].type = "request" =>
         \E j \in 1..(i - 1) : /\ events[j].type = "review"
                               /\ events[j].target = events[i].target
                               /\ events[j].content \in Approvals

-----------------------------------------------------------------------------
(* Statements that do not hold; the README says where TLC refutes them.    *)

\* One key, one simulation result.
SimulationAnswersOnce ==
  [][\A k \in Keys :
       simulationKeys[k] # None => simulationKeys'[k] = simulationKeys[k]]_vars

\* One key, one event of a memo.
KeyedEventHappensOnce ==
  \A i, j \in DOMAIN events :
    /\ events[i].key # None /\ events[i].key = events[j].key
    /\ events[i].type # "created" /\ events[j].type # "created"
    /\ events[i].target = events[j].target
      => i = j

\* One key, one memo.
OneMemoPerKey ==
  \A i, j \in DOMAIN events :
    /\ events[i].type = "created" /\ events[j].type = "created"
    /\ events[i].key = events[j].key
      => i = j

\* A key that is replayed shows the acknowledgement made under it.
ReplayShowsItsAcknowledgement ==
  \A k \in Keys : ackKeys[k] # None => acks[ackKeys[k].target].key = k
=============================================================================
