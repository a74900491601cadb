-------------------------- MODULE PolicyEvaluations --------------------------
(***************************************************************************)
(* Policy evaluations, their review and their sign-off on Postgres.        *)
(*                                                                         *)
(* Every write loads the whole store with three SELECTs in a connection    *)
(* that reads what is committed (records, then events, then keys), changes *)
(* the copy and saves the whole copy in one transaction: each record, each *)
(* event and each key is upserted, and one row that may not be written     *)
(* rolls everything back.  Sign-offs, report packages and AI evidence are  *)
(* checked on loads of their own, before the load whose copy is saved.     *)
(*                                                                         *)
(* Abstractions: an evaluation is identified by proposal version, policy   *)
(* version and source evidence, so its status and its conflict posture are *)
(* constants; an approval that does not list every requirement of the      *)
(* record is refused before it does anything, as the requirements never    *)
(* change; the events are ordered by position, which supposes that clocks  *)
(* follow it.  Hashes of earlier releases (the legacy replay) are left     *)
(* out.                                                                    *)
(***************************************************************************)
EXTENDS Naturals, Sequences

CONSTANTS
  Threads,       \* request threads
  Evaluations,   \* evaluation identities
  Blocked,       \* evaluations whose status is BLOCKED
  Conflicted,    \* evaluations with a material conflict
  Repairs,       \* pairs: a blocked evaluation, the one that adds its legal entity
  Actors,        \* makers and checkers
  Keys,          \* Idempotency-Key values
  None,          \* an absent value
  MaxRequests,   \* bound: requests started
  MaxEvents      \* bound: events of an evaluation

ASSUME NoneAssumption == None \notin Evaluations \cup Actors \cup Keys
ASSUME RepairsAssumption == Repairs \subseteq Blocked \X (Evaluations \ Blocked)
ASSUME BoundsAssumption == MaxRequests \in Nat /\ MaxEvents \in Nat

VARIABLES
  records,    \* policy_evaluation_records, by evaluation
  log,        \* policy_evaluation_audit_events: peev_1, peev_2, ... per evaluation
  keys,       \* policy_evaluation_idempotency
  job,        \* per thread: its request, what it has read, its copy
  requests    \* requests started

vars == <<records, log, keys, job, requests>>

-----------------------------------------------------------------------------
\* Records

Types == {"FINALIZED", "REVIEW", "SIGN_OFF", "REPORT", "AI_EVIDENCE"}

\* The events a record carries a copy of.
AttachedTypes == {"REVIEW", "SIGN_OFF", "REPORT"}

\* The types that are checked on loads of their own.
CheckedFirst == {"SIGN_OFF", "REPORT", "AI_EVIDENCE"}

\* The content of a request; ref tells report packages and drafts apart, whose
\* reason holds the id of the report or the lineage of the draft.
Hash == [type : Types, evaluation : Evaluations, actor : Actors,
         cleared : BOOLEAN, ref : Nat]
Request == [type : Types, evaluation : Evaluations, actor : Actors,
            cleared : BOOLEAN, key : Keys \cup {None}, at : Nat]
Event == [type : Types, actor : Actors, cleared : BOOLEAN, key : Keys \cup {None}, at : Nat]
Row == [created_by : Actors, at : Nat, attached : SUBSET Nat]
KeyRow == [hash : Hash, evaluation : Evaluations, event : Nat]

NoRecords == [e \in Evaluations |-> None]
NoEvents == [e \in Evaluations |-> <<>>]
NoKeys == [k \in Keys |-> None]

Stores == [records : [Evaluations -> Row \cup {None}], log : [Evaluations -> Seq(Event)],
           keys : [Keys -> KeyRow \cup {None}]]

Job == [pc : {"idle", "read", "check", "load", "events", "keys", "loaded", "counted"},
        request : Request \cup {None}, maker : Actors \cup {None}, copy : Stores,
        torn : BOOLEAN, waited : SUBSET Evaluations]

ASSUME RowsAssumption == None \notin Request \cup KeyRow

EmptyCopy == [records |-> NoRecords, log |-> NoEvents, keys |-> NoKeys]

Idle == [pc |-> "idle", request |-> None, maker |-> None, copy |-> EmptyCopy,
         torn |-> FALSE, waited |-> {}]

\* Who asks is part of the hash: of a finalization, as the subject of the trusted
\* principal in its reason, of which only the correlation and trace ids are left out.
RequestHash(r) ==
  [type |-> r.type, evaluation |-> r.evaluation, actor |-> r.actor, cleared |-> r.cleared,
   ref |-> IF r.type \in {"REPORT", "AI_EVIDENCE"} THEN r.at ELSE 0]

\* occurred_at makes every event differ from every other: at stands for it.
EventOf(r) == [type |-> r.type, actor |-> r.actor, cleared |-> r.cleared, key |-> r.key, at |-> r.at]

-----------------------------------------------------------------------------
(* Faults: the statements of the code with a plausible bug.                *)

\* ON CONFLICT DO UPDATE, without a comparison with the event stored at the id.
OverwriteEvents(copy) ==
  log' = [e \in Evaluations |->
            copy.log[e] \o SubSeq(log[e], Len(copy.log[e]) + 1, Len(log[e]))]

\* ON CONFLICT DO UPDATE without a WHERE.
OverwriteKeys(copy) ==
  keys' = [k \in Keys |-> IF copy.keys[k] = None THEN keys[k] ELSE copy.keys[k]]

NoCount(copy, e) == TRUE

-----------------------------------------------------------------------------
Init ==
  /\ records = NoRecords
  /\ log = NoEvents
  /\ keys = NoKeys
  /\ job = [t \in Threads |-> Idle]
  /\ requests = 0

(***************************************************************************)
(* A request is started.  A finalization and a review are carried out on   *)
(* the copy they save; the others name the hash of the record, which they  *)
(* read first.                                                             *)
(***************************************************************************)
Start(t) ==
  /\ job[t].pc = "idle"
  /\ requests < MaxRequests
  /\ requests' = requests + 1
  /\ \E type \in Types, e \in Evaluations, a \in Actors, c \in BOOLEAN, k \in Keys \cup {None} :
       /\ type = "FINALIZED" => k # None
       /\ c => type \in {"REVIEW", "SIGN_OFF"}
       /\ job' = [job EXCEPT ![t] = [Idle EXCEPT
                    !.pc = IF type \in CheckedFirst THEN "read" ELSE "load",
                    !.request = [type |-> type, evaluation |-> e, actor |-> a, cleared |-> c,
                                 key |-> k, at |-> requests + 1]]]
  /\ UNCHANGED <<records, log, keys>>

ReadRecord(t) ==
  LET e == job[t].request.evaluation IN
  /\ job[t].pc = "read"
  /\ records[e] # None
  /\ job' = [job EXCEPT ![t].pc = "check", ![t].maker = records[e].created_by]
  /\ UNCHANGED <<records, log, keys, requests>>

Cleared(events) == \E i \in DOMAIN events : events[i].cleared

\* Only approvals are recorded as sign-offs.
SignedOff(events) == \E i \in DOMAIN events : events[i].type = "SIGN_OFF"

\* Maker-checker, status, conflict posture.
validate_policy_sign_off_decision(t) ==
  LET r == job[t].request IN
  /\ r.actor # job[t].maker
  /\ r.evaluation \notin Blocked
  /\ r.evaluation \in Conflicted => Cleared(log[r.evaluation]) \/ r.cleared

CheckSignOff(t) ==
  /\ job[t].pc = "check"
  /\ job[t].request.type = "SIGN_OFF"
  /\ validate_policy_sign_off_decision(t)
  /\ job' = [job EXCEPT ![t].pc = "load"]
  /\ UNCHANGED <<records, log, keys, requests>>

\* An event with the key answers the request or is a conflict.
KeyIsNew(events, key) == \A i \in DOMAIN events : key # None => events[i].key # key

\* lotus-report is asked for the package of what is signed off, then its event is
\* appended.
CheckReport(t) ==
  LET r == job[t].request
      events == log[r.evaluation] IN
  /\ job[t].pc = "check"
  /\ r.type = "REPORT"
  /\ KeyIsNew(events, r.key)
  /\ SignedOff(events)
  /\ job' = [job EXCEPT ![t].pc = "load"]
  /\ UNCHANGED <<records, log, keys, requests>>

\* lotus-ai is asked for a draft, then its event is appended, as is that of the
\* fallback when it is unavailable.
CheckAiEvidence(t) ==
  LET r == job[t].request IN
  /\ job[t].pc = "check"
  /\ r.type = "AI_EVIDENCE"
  /\ KeyIsNew(log[r.evaluation], r.key)
  /\ job' = [job EXCEPT ![t].pc = "load"]
  /\ UNCHANGED <<records, log, keys, requests>>

-----------------------------------------------------------------------------
(* load_snapshot.                                                          *)

AttachedIn(events) == {i \in DOMAIN events : events[i].type \in AttachedTypes}

\* The record has the events it should carry attached.
CarriesItsEvents(row, events) == row # None => AttachedIn(events) \subseteq row.attached

LoadRecords(t) ==
  /\ job[t].pc = "load"
  /\ job' = [job EXCEPT ![t].pc = "events", ![t].copy.records = records,
                ![t].torn = \E e \in Evaluations : ~CarriesItsEvents(records[e], log[e])]
  /\ UNCHANGED <<records, log, keys, requests>>

LoadEvents(t) ==
  /\ job[t].pc = "events"
  /\ job' = [job EXCEPT ![t].pc = "keys", ![t].copy.log = log]
  /\ UNCHANGED <<records, log, keys, requests>>

-----------------------------------------------------------------------------
(* The change of the copy.                                                 *)

CanRepair(old, new) == <<old, new>> \in Repairs

KeyRowOf(r, i) == [hash |-> RequestHash(r), evaluation |-> r.evaluation, event |-> i]

WithKey(copy, r, i) ==
  IF r.key = None THEN copy.keys ELSE [copy.keys EXCEPT ![r.key] = KeyRowOf(r, i)]

\* The record and the event of a stored key are found in the copy, or the request
\* fails.
KeyIsLoaded(copy, key) ==
  LET row == copy.keys[key] IN
  /\ row # None
  /\ copy.records[row.evaluation] # None
  /\ row.event \in DOMAIN copy.log[row.evaluation]

Replays(copy, r) ==
  /\ r.key # None
  /\ KeyIsLoaded(copy, r.key)
  /\ copy.keys[r.key].hash = RequestHash(r)

KeyIsFree(copy, r) == r.key # None => copy.keys[r.key] = None

\* Only the maker of the blocked record repairs it.
MayRepair(copy, r) ==
  /\ KeyIsLoaded(copy, r.key)
  /\ CanRepair(copy.keys[r.key].evaluation, r.evaluation)
  /\ copy.records[copy.keys[r.key].evaluation].created_by = r.actor

\* identity_index is not loaded: a second key for one identity builds the record
\* and its first event anew, and the save meets the stored ones.
Finalized(copy, r) ==
  [records |-> [copy.records EXCEPT ![r.evaluation] =
                  [created_by |-> r.actor, at |-> r.at, attached |-> {}]],
   log |-> [copy.log EXCEPT ![r.evaluation] = <<EventOf(r)>>],
   keys |-> WithKey(copy, r, 1)]

Appended(copy, r) ==
  LET i == Len(copy.log[r.evaluation]) + 1 IN
  [records |-> IF r.type \in AttachedTypes
                 THEN [copy.records EXCEPT ![r.evaluation].attached = @ \cup {i}]
                 ELSE copy.records,
   log |-> [copy.log EXCEPT ![r.evaluation] = Append(@, EventOf(r))],
   keys |-> WithKey(copy, r, i)]

\* A replay changes nothing in the copy, which is saved all the same.
Change(copy, r) ==
  IF Replays(copy, r) THEN copy
  ELSE IF r.type = "FINALIZED" THEN Finalized(copy, r) ELSE Appended(copy, r)

MayChange(copy, r) ==
  \/ Replays(copy, r)
  \/ /\ r.type = "FINALIZED"
     /\ KeyIsFree(copy, r) \/ MayRepair(copy, r)
  \/ /\ r.type # "FINALIZED"
     /\ copy.records[r.evaluation] # None
     /\ KeyIsFree(copy, r)
     /\ Len(copy.log[r.evaluation]) < MaxEvents

\* Building the record or the event reads nothing more.
LoadKeys(t) ==
  LET r == job[t].request
      loaded == [job[t].copy EXCEPT !.keys = keys] IN
  /\ job[t].pc = "keys"
  /\ MayChange(loaded, r)
  /\ job' = [job EXCEPT ![t].pc = "loaded", ![t].copy = Change(loaded, r)]
  /\ UNCHANGED <<records, log, keys, requests>>

-----------------------------------------------------------------------------
(* save_snapshot.                                                          *)

\* A stored record is overwritten unless it has more events than the copy.
CountAllows(copy, e) ==
  (copy.records[e] # None /\ records[e] # None) => Len(log[e]) <= Len(copy.log[e])

RowsOf(copy) == {e \in Evaluations : copy.records[e] # None}

IsNew(j, e) == j.copy.records[e].at = j.request.at

\* Records are saved as they were loaded, by generated_at, and a new one last.
SavedBefore(j, e, f) ==
  \/ IsNew(j, f)
  \/ ~IsNew(j, e) /\ j.copy.records[e].at <= j.copy.records[f].at

FirstOf(j, rows) == {e \in rows : \A f \in rows : SavedBefore(j, e, f)}

\* The upsert of a record counts the events in the snapshot its statement starts
\* with and may then wait for the row another save holds; that of the first comes
\* before everything else.
CountEvents(t) ==
  /\ job[t].pc = "loaded"
  /\ \A e \in FirstOf(job[t], RowsOf(job[t].copy)) : CountAllows(job[t].copy, e)
  /\ job' = [job EXCEPT ![t].pc = "counted"]
  /\ UNCHANGED <<records, log, keys, requests>>

\* The record whose upsert waited was counted before the row was free.
StoreRecords(j) ==
  /\ \A e \in Evaluations \ j.waited : CountAllows(j.copy, e)
  /\ records' = [e \in Evaluations |->
                   IF j.copy.records[e] = None THEN records[e] ELSE j.copy.records[e]]

\* An event is inserted at its id or is the one stored there.
StoreEvents(copy) ==
  /\ \A e \in Evaluations : \A i \in DOMAIN copy.log[e] \cap DOMAIN log[e] :
       copy.log[e][i] = log[e][i]
  /\ log' = [e \in Evaluations |->
               IF Len(copy.log[e]) > Len(log[e]) THEN copy.log[e] ELSE log[e]]

\* A key is inserted, is the one stored, or moves to the repaired evaluation.
StoreKeys(copy) ==
  /\ \A k \in Keys : copy.keys[k] # None /\ keys[k] \notin {None, copy.keys[k]}
       => CanRepair(keys[k].evaluation, copy.keys[k].evaluation)
  /\ keys' = [k \in Keys |-> IF copy.keys[k] = None THEN keys[k] ELSE copy.keys[k]]

\* The other threads in the middle of a load, or waiting for a row of this copy (the
\* first one they meet), go on with what is older than this commit.  A copy is torn,
\* too, when the records it was read from had lost events by then.
Overtaken(j, copy) ==
  [j EXCEPT !.torn = @ \/ j.pc = "events",
            !.waited = IF j.pc # "counted" THEN @ ELSE
              @ \cup {e \in FirstOf(j, RowsOf(j.copy) \cap RowsOf(copy)) : CountAllows(j.copy, e)}]

Save(t) ==
  /\ job[t].pc = "counted"
  /\ StoreRecords(job[t])
  /\ StoreEvents(job[t].copy)
  /\ StoreKeys(job[t].copy)
  /\ job' = [u \in Threads |-> IF u = t THEN Idle ELSE Overtaken(job[u], job[t].copy)]
  /\ UNCHANGED requests

\* A check or a statement refuses, a client fails, the process stops.
Fail(t) ==
  /\ job[t].pc # "idle"
  /\ job' = [job EXCEPT ![t] = Idle]
  /\ UNCHANGED <<records, log, keys, requests>>

Next ==
  \E t \in Threads :
    \/ Start(t) \/ ReadRecord(t) \/ CheckSignOff(t) \/ CheckReport(t) \/ CheckAiEvidence(t)
    \/ LoadRecords(t) \/ LoadEvents(t) \/ LoadKeys(t)
    \/ CountEvents(t) \/ Save(t) \/ Fail(t)

Spec == Init /\ [][Next]_vars

-----------------------------------------------------------------------------
(* Properties.                                                             *)

TypeOK ==
  /\ records \in [Evaluations -> Row \cup {None}]
  /\ log \in [Evaluations -> Seq(Event)]
  /\ keys \in [Keys -> KeyRow \cup {None}]
  /\ job \in [Threads -> Job]
  /\ \A t \in Threads :
       /\ job[t].pc # "idle" => job[t].request # None
       /\ job[t].pc = "check" => job[t].maker # None
  /\ requests \in Nat

PolicyLog == INSTANCE PolicyReview

\* Over torn loads, stale copies and overlapping saves the stored events are the
\* log of a review in which every sign-off and every report package was checked
\* and appended in one step.
ImplementsReview == PolicyLog!Spec

\* A key is recorded with one event of an evaluation, and names it until a repair of
\* the evaluation takes the key: a retry is never recorded twice.
KeyNamesItsEvent ==
  \A e \in Evaluations : \A i \in DOMAIN log[e] :
    LET k == log[e][i].key IN
    k # None =>
      /\ keys[k] # None
      /\ \/ keys[k].evaluation = e /\ keys[k].event = i
         \/ CanRepair(e, keys[k].evaluation)
      /\ \A j \in DOMAIN log[e] : log[e][j].key = k => j = i

Forgotten(e) ==
  records[e] # None /\ ~(records[e].attached \subseteq records'[e].attached)

\* A save takes an attached event out of a record only if the save of another
\* thread came between its SELECTs or while its upsert of a record waited, or if it
\* started from a record that had lost events that way: the count of events in
\* the upsert stops every other stale copy.
ForgetsOnlyWhenOvertaken ==
  [][\A e \in Evaluations : Forgotten(e) =>
       \E t \in Threads : job[t].pc = "counted" /\ job'[t].pc = "idle"
                          /\ (job[t].torn \/ job[t].waited # {})]_vars

-----------------------------------------------------------------------------
(* Statements that do not hold; the README says where TLC refutes them.    *)

\* routes_policy_evaluation_commands.py: the record carries its review, sign-off
\* and report events.
RecordCarriesItsEvents ==
  \A e \in Evaluations : CarriesItsEvents(records[e], log[e])
=============================================================================
