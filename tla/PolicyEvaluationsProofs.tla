----------------------- MODULE PolicyEvaluationsProofs -----------------------
(***************************************************************************)
(* Theorems about PolicyEvaluations, for any number of threads,            *)
(* evaluations, actors and keys, and whatever the bounds.                  *)
(*                                                                         *)
(* The stored log only grows, so a copy of it stays a prefix of it: what   *)
(* was checked on a copy is still true when the copy is saved, and a save  *)
(* that is not refused adds the one event of its request or nothing.       *)
(***************************************************************************)
EXTENDS PolicyEvaluations, SequenceTheorems, TLAPS

Records == [Evaluations -> Row \cup {None}]
Logs == [Evaluations -> Seq(Event)]
KeyTables == [Keys -> KeyRow \cup {None}]

-----------------------------------------------------------------------------
(* The inductive invariant, of a state given by its parts.                 *)

Prefix(a, b) == \A i \in DOMAIN a : i \in DOMAIN b /\ b[i] = a[i]

Grows(old, new) == \A e \in Evaluations : Prefix(old[e], new[e])

\* The log a is the event of the request r after events of b.
Extends(a, b, r) ==
  /\ Len(a) \in DOMAIN a
  /\ a[Len(a)] = EventOf(r)
  /\ \A i \in DOMAIN a : i < Len(a) => i \in DOMAIN b /\ b[i] = a[i]
  /\ r.type = "FINALIZED" <=> Len(a) = 1

RecordsSound(recs, lg) ==
  \A e \in Evaluations : recs[e] # None =>
    /\ 1 \in DOMAIN lg[e]
    /\ recs[e].created_by = lg[e][1].actor
    /\ recs[e].attached \subseteq AttachedIn(lg[e])

Complete(recs, lg) == \A e \in Evaluations : CarriesItsEvents(recs[e], lg[e])

SignOffStands(r, events) ==
  /\ 1 \in DOMAIN events
  /\ r.actor # events[1].actor
  /\ r.evaluation \notin Blocked
  /\ r.evaluation \in Conflicted => Cleared(events) \/ r.cleared

Checked == {"load", "events", "keys", "loaded", "counted"}
Built == {"loaded", "counted"}

\* What the checks of a request have found is still true.
ChecksStand(j, lg) ==
  LET events == lg[j.request.evaluation] IN
  /\ j.pc = "check" => 1 \in DOMAIN events /\ j.maker = events[1].actor
  /\ j.pc \in Checked /\ j.request.type = "SIGN_OFF" => SignOffStands(j.request, events)
  /\ j.pc \in Checked /\ j.request.type = "REPORT" => SignedOff(events)

\* Of a copy that is built, one evaluation may have the event of the request.
BuiltLog(copy, lg, r, e) ==
  \/ Prefix(copy.log[e], lg[e])
  \/ /\ e = r.evaluation
     /\ Extends(copy.log[e], lg[e], r)
     /\ r.key # None => copy.keys[r.key] = KeyRowOf(r, Len(copy.log[e]))

CopySound(j, lg) ==
  /\ j.pc = "events" => RecordsSound(j.copy.records, lg)
  /\ j.pc \in {"keys"} \cup Built => RecordsSound(j.copy.records, j.copy.log)
  /\ j.pc = "keys" => Grows(j.copy.log, lg)
  /\ j.pc \in Built => \A e \in Evaluations : BuiltLog(j.copy, lg, j.request, e)

\* A copy that is not torn has lost no event.
CopyComplete(j, lg) ==
  /\ j.pc = "events" /\ ~j.torn => Complete(j.copy.records, lg)
  /\ j.pc \in {"keys"} \cup Built /\ ~j.torn => Complete(j.copy.records, j.copy.log)

JobTyped(j) ==
  /\ j \in Job
  /\ j.pc # "idle" => j.request # None
  /\ j.pc = "check" => j.maker # None

JobSound(j, lg) == ChecksStand(j, lg) /\ CopySound(j, lg) /\ CopyComplete(j, lg)

Names(row, e, i) ==
  \/ row.evaluation = e /\ row.event = i
  \/ CanRepair(e, row.evaluation)

KeysSound(table, lg) ==
  \A e \in Evaluations : \A i \in DOMAIN lg[e] :
    lg[e][i].key # None =>
      /\ table[lg[e][i].key] # None
      /\ Names(table[lg[e][i].key], e, i)
      /\ \A j \in DOMAIN lg[e] : lg[e][j].key = lg[e][i].key => j = i

IInv ==
  /\ TypeOK
  /\ RecordsSound(records, log)
  /\ KeysSound(keys, log)
  /\ \A t \in Threads : JobSound(job[t], log)

-----------------------------------------------------------------------------
(* Lemmas about logs that grow.                                            *)

LEMMA SeqDomain ==
  ASSUME NEW a \in Seq(Event)
  PROVE  Len(a) \in Nat /\ DOMAIN a = 1..Len(a) /\ \A i \in DOMAIN a : a[i] \in Event
  BY LenProperties, ElementOfSeq

LEMMA PrefixIsShorter ==
  ASSUME NEW a \in Seq(Event), NEW b \in Seq(Event), Prefix(a, b)
  PROVE  Len(a) <= Len(b)
<1>1. CASE Len(a) = 0
  BY <1>1, SeqDomain
<1>2. CASE Len(a) # 0
  <2>1. Len(a) \in DOMAIN a
    BY <1>2, SeqDomain
  <2> QED
    BY <2>1, SeqDomain DEF Prefix
<1> QED
  BY <1>1, <1>2

LEMMA RecordsStaySound ==
  ASSUME NEW recs, NEW l \in Logs, NEW m \in Logs, Grows(l, m), RecordsSound(recs, l)
  PROVE  RecordsSound(recs, m)
<1> SUFFICES ASSUME NEW e \in Evaluations, recs[e] # None
             PROVE  /\ 1 \in DOMAIN m[e]
                    /\ recs[e].created_by = m[e][1].actor
                    /\ recs[e].attached \subseteq AttachedIn(m[e])
  BY DEF RecordsSound
<1>1. Prefix(l[e], m[e])
  BY DEF Grows
<1>2. AttachedIn(l[e]) \subseteq AttachedIn(m[e])
  BY <1>1 DEF AttachedIn, Prefix
<1> QED
  BY <1>1, <1>2 DEF RecordsSound, Prefix

LEMMA ChecksStayTrue ==
  ASSUME NEW j \in Job, j.request \in Request, NEW l \in Logs, NEW m \in Logs, Grows(l, m),
         ChecksStand(j, l)
  PROVE  ChecksStand(j, m)
<1> DEFINE e == j.request.evaluation
<1>1. Prefix(l[e], m[e])
  BY DEF Request, Grows
<1>2. Cleared(l[e]) => Cleared(m[e])
  BY <1>1 DEF Cleared, Prefix
<1>3. SignedOff(l[e]) => SignedOff(m[e])
  BY <1>1 DEF SignedOff, Prefix
<1>4. 1 \in DOMAIN l[e] => 1 \in DOMAIN m[e] /\ m[e][1] = l[e][1]
  BY <1>1 DEF Prefix
<1> QED
  BY <1>2, <1>3, <1>4 DEF ChecksStand, SignOffStands

LEMMA CopyStaysSound ==
  ASSUME NEW j \in Job, NEW l \in Logs, NEW m \in Logs, Grows(l, m), CopySound(j, l)
  PROVE  CopySound(j, m)
<1>1. j.pc = "events" => RecordsSound(j.copy.records, m)
  BY RecordsStaySound DEF CopySound
<1>2. j.pc = "keys" => Grows(j.copy.log, m)
  BY DEF CopySound, Grows, Prefix
<1>3. ASSUME NEW e \in Evaluations, BuiltLog(j.copy, l, j.request, e)
      PROVE  BuiltLog(j.copy, m, j.request, e)
  <2>1. Prefix(l[e], m[e])
    BY DEF Grows
  <2>2. Prefix(j.copy.log[e], l[e]) => Prefix(j.copy.log[e], m[e])
    BY <2>1 DEF Prefix
  <2>3. Extends(j.copy.log[e], l[e], j.request) => Extends(j.copy.log[e], m[e], j.request)
    BY <2>1 DEF Prefix, Extends
  <2> QED
    BY <1>3, <2>2, <2>3 DEF BuiltLog
<1> QED
  BY <1>1, <1>2, <1>3 DEF CopySound

-----------------------------------------------------------------------------
(* Lemmas about the change of a copy.                                      *)

\* A load whose SELECTs are done: what is known of the copy before the change.
Loadable(copy, r, lg) ==
  /\ copy \in Stores
  /\ r \in Request
  /\ lg \in Logs
  /\ RecordsSound(copy.records, copy.log)
  /\ Grows(copy.log, lg)

\* What is known of it afterwards.
Changed(copy, new, r, lg) ==
  /\ new \in Stores
  /\ RecordsSound(new.records, new.log)
  /\ \A e \in Evaluations : BuiltLog(new, lg, r, e)
  /\ Complete(copy.records, copy.log) => Complete(new.records, new.log)

LEMMA EventTyped ==
  ASSUME NEW r \in Request
  PROVE  EventOf(r) \in Event
  BY DEF EventOf, Event, Request

LEMMA KeyTyped ==
  ASSUME NEW copy \in Stores, NEW r \in Request, NEW i \in Nat
  PROVE  /\ WithKey(copy, r, i) \in KeyTables
         /\ r.key # None => WithKey(copy, r, i)[r.key] = KeyRowOf(r, i)
<1>1. RequestHash(r) \in Hash
  BY DEF RequestHash, Hash, Request
<1>2. KeyRowOf(r, i) \in KeyRow
  BY <1>1 DEF KeyRowOf, KeyRow, Request
<1>3. copy.keys \in KeyTables
  BY DEF Stores, KeyTables
<1>4. r.key # None => r.key \in Keys
  BY DEF Request
<1> HIDE DEF KeyTables
<1>5. CASE r.key = None
  BY <1>3, <1>5 DEF WithKey
<1>6. CASE r.key # None
  <2>1. WithKey(copy, r, i) = [copy.keys EXCEPT ![r.key] = KeyRowOf(r, i)]
    BY <1>6 DEF WithKey
  <2> QED
    BY <1>2, <1>3, <1>4, <1>6, <2>1 DEF KeyTables
<1> QED
  BY <1>5, <1>6

LEMMA ReplayChangesNothing ==
  ASSUME NEW copy, NEW r, NEW lg, Loadable(copy, r, lg)
  PROVE  Changed(copy, copy, r, lg)
  BY DEF Loadable, Changed, BuiltLog, Grows

LEMMA FinalizedChanges ==
  ASSUME NEW copy, NEW r, NEW lg, Loadable(copy, r, lg), r.type = "FINALIZED"
  PROVE  Changed(copy, Finalized(copy, r), r, lg)
<1> DEFINE e == r.evaluation
           row == [created_by |-> r.actor, at |-> r.at, attached |-> {}]
           recs == [copy.records EXCEPT ![e] = row]
           events == <<EventOf(r)>>
           lgs == [copy.log EXCEPT ![e] = events]
           new == Finalized(copy, r)
<1>1. /\ e \in Evaluations /\ copy.records \in Records /\ copy.log \in Logs
      /\ row \in Row
  BY DEF Loadable, Request, Stores, Records, Logs, Row
<1>2. EventOf(r) \in Event /\ EventOf(r).actor = r.actor
  BY EventTyped DEF Loadable, EventOf
<1>3. events \in Seq(Event) /\ Len(events) = 1 /\ DOMAIN events = 1..1 /\ events[1] = EventOf(r)
  BY <1>2
<1>4. new.records = recs /\ new.log = lgs /\ new.keys = WithKey(copy, r, 1)
  BY DEF Finalized
<1>5. WithKey(copy, r, 1) \in KeyTables /\ (r.key # None => WithKey(copy, r, 1)[r.key] = KeyRowOf(r, 1))
  BY KeyTyped DEF Loadable
<1>6. new = [records |-> recs, log |-> lgs, keys |-> WithKey(copy, r, 1)]
  BY DEF Finalized
<1> HIDE DEF row, events, new
<1>7. recs \in Records /\ lgs \in Logs
  BY <1>1, <1>3 DEF Records, Logs
<1>8. new \in Stores
  BY <1>5, <1>6, <1>7 DEF Stores, Records, Logs, KeyTables
<1>9. ASSUME NEW f \in Evaluations, f # e
      PROVE  recs[f] = copy.records[f] /\ lgs[f] = copy.log[f]
  BY <1>1, <1>9 DEF Records, Logs
<1>10. recs[e] = row /\ lgs[e] = events
  BY <1>1 DEF Records, Logs
<1>11. row.created_by = r.actor /\ row.attached = {}
  BY DEF row
<1> HIDE DEF recs, lgs
<1>12. RecordsSound(recs, lgs)
  BY <1>2, <1>3, <1>9, <1>10, <1>11 DEF RecordsSound, Loadable
<1>13. Extends(events, lg[e], r)
  BY <1>3 DEF Extends
<1>14. \A f \in Evaluations : BuiltLog(new, lg, r, f)
  BY <1>3, <1>4, <1>5, <1>9, <1>10, <1>13 DEF BuiltLog, Loadable, Grows
<1>15. Complete(copy.records, copy.log) => Complete(recs, lgs)
  <2>1. AttachedIn(events) = {}
    BY <1>3 DEF AttachedIn, AttachedTypes, EventOf
  <2> QED
    BY <1>9, <1>10, <2>1 DEF Complete, CarriesItsEvents
<1> QED
  BY <1>4, <1>8, <1>12, <1>14, <1>15 DEF Changed, new

LEMMA AppendedChanges ==
  ASSUME NEW copy, NEW r, NEW lg, Loadable(copy, r, lg), r.type # "FINALIZED",
         copy.records[r.evaluation] # None
  PROVE  Changed(copy, Appended(copy, r), r, lg)
<1> DEFINE e == r.evaluation
           n == Len(copy.log[e]) + 1
           old == copy.records[e]
           row == IF r.type \in AttachedTypes THEN [old EXCEPT !.attached = @ \cup {n}] ELSE old
           added == IF r.type \in AttachedTypes THEN {n} ELSE {}
           recs == [copy.records EXCEPT ![e] = row]
           events == Append(copy.log[e], EventOf(r))
           lgs == [copy.log EXCEPT ![e] = events]
           new == Appended(copy, r)
<1>1. /\ e \in Evaluations /\ copy.records \in Records /\ copy.log \in Logs
      /\ copy.log[e] \in Seq(Event) /\ old \in Row
  BY DEF Loadable, Request, Stores, Records, Logs
<1>2. EventOf(r) \in Event
  BY EventTyped DEF Loadable
<1>3. /\ Len(copy.log[e]) \in Nat /\ DOMAIN copy.log[e] = 1..Len(copy.log[e])
      /\ n \in Nat /\ Len(copy.log[e]) = n - 1
      /\ events \in Seq(Event) /\ Len(events) = n /\ DOMAIN events = 1..n
      /\ events[n] = EventOf(r)
      /\ \A i \in DOMAIN copy.log[e] : events[i] = copy.log[e][i]
  BY <1>1, <1>2, SeqDomain, AppendProperties, LenProperties
<1>4. 1 \in DOMAIN copy.log[e] /\ old.created_by = copy.log[e][1].actor
      /\ old.attached \subseteq AttachedIn(copy.log[e])
  BY <1>1, <1>3 DEF Loadable, RecordsSound
<1>5. /\ row \in Row /\ row.created_by = old.created_by
      /\ row.attached = old.attached \cup added
  BY <1>1, <1>3 DEF Row
<1>6. /\ new.records = recs /\ new.log = lgs /\ new.keys = WithKey(copy, r, n)
      /\ new = [records |-> recs, log |-> lgs, keys |-> WithKey(copy, r, n)]
  <2>1. CASE r.type \in AttachedTypes
    BY <1>1, <2>1 DEF Appended, Records, Logs
  <2>2. CASE r.type \notin AttachedTypes
    <3>1. recs = copy.records
      BY <1>1, <2>2 DEF Records
    <3> QED
      BY <2>2, <3>1 DEF Appended
  <2> QED
    BY <2>1, <2>2
<1>7. WithKey(copy, r, n) \in KeyTables /\ (r.key # None => WithKey(copy, r, n)[r.key] = KeyRowOf(r, n))
  BY <1>3, KeyTyped DEF Loadable
<1> HIDE DEF row, events, new, n, old
<1>8. recs \in Records /\ lgs \in Logs
  BY <1>1, <1>3, <1>5 DEF Records, Logs
<1>9. new \in Stores
  BY <1>6, <1>7, <1>8 DEF Stores, Records, Logs, KeyTables
<1>10. ASSUME NEW f \in Evaluations, f # e
       PROVE  recs[f] = copy.records[f] /\ lgs[f] = copy.log[f]
  BY <1>1, <1>10 DEF Records, Logs
<1>11. recs[e] = row /\ lgs[e] = events
  BY <1>1 DEF Records, Logs
<1> HIDE DEF recs, lgs
<1>12. n >= 2 /\ 1 \in DOMAIN events /\ events[1] = copy.log[e][1]
  BY <1>3, <1>4
<1>13. AttachedIn(events) = AttachedIn(copy.log[e]) \cup added
  <2>1. EventOf(r).type = r.type
    BY DEF EventOf
  <2> QED
    BY <1>3, <2>1 DEF AttachedIn, added
<1> HIDE DEF added
<1>14. RecordsSound(recs, lgs)
  <2>1. row.attached \subseteq AttachedIn(events)
    BY <1>4, <1>5, <1>13
  <2> QED
    BY <1>4, <1>5, <1>10, <1>11, <1>12, <2>1 DEF RecordsSound, Loadable
<1>15. Extends(events, lg[e], r)
  <2>1. Prefix(copy.log[e], lg[e])
    BY <1>1 DEF Loadable, Grows
  <2> QED
    BY <1>3, <1>12, <2>1 DEF Extends, Prefix
<1>16. \A f \in Evaluations : BuiltLog(new, lg, r, f)
  BY <1>3, <1>6, <1>7, <1>10, <1>11, <1>15 DEF BuiltLog, Loadable, Grows
<1>17. Complete(copy.records, copy.log) => Complete(recs, lgs)
  <2>1. CarriesItsEvents(copy.records[e], copy.log[e]) => CarriesItsEvents(row, events)
    <3>1. copy.records[e] = old /\ copy.records[e] # None
      BY DEF old
    <3> QED
      BY <1>5, <1>13, <3>1 DEF CarriesItsEvents
  <2> QED
    BY <1>1, <1>10, <1>11, <2>1 DEF Complete, CarriesItsEvents
<1> QED
  BY <1>6, <1>9, <1>14, <1>16, <1>17 DEF Changed, new

LEMMA ChangeIsSound ==
  ASSUME NEW copy, NEW r, NEW lg, Loadable(copy, r, lg), MayChange(copy, r)
  PROVE  Changed(copy, Change(copy, r), r, lg)
<1>1. CASE Replays(copy, r)
  BY <1>1, ReplayChangesNothing DEF Change
<1>2. CASE ~Replays(copy, r) /\ r.type = "FINALIZED"
  BY <1>2, FinalizedChanges DEF Change
<1>3. CASE ~Replays(copy, r) /\ r.type # "FINALIZED"
  BY <1>3, AppendedChanges DEF Change, MayChange
<1> QED
  BY <1>1, <1>2, <1>3

-----------------------------------------------------------------------------
(* Lemmas about the threads.                                               *)

LEMMA IdleTyped ==
  JobTyped(Idle) /\ Idle.pc = "idle"
<1>1. <<>> \in Seq(Event)
  OBVIOUS
<1>2. EmptyCopy \in Stores
  BY <1>1 DEF EmptyCopy, NoRecords, NoEvents, NoKeys, Stores
<1> QED
  BY <1>2 DEF Idle, Job, JobTyped

\* A job between requests is bound to nothing.
LEMMA IdleIsSound ==
  ASSUME NEW j, j.pc = "idle", NEW lg
  PROVE  JobSound(j, lg)
  BY DEF JobSound, ChecksStand, CopySound, CopyComplete, Checked, Built

\* A step of one thread that changes nothing stored.
LEMMA OneJobMoves ==
  ASSUME IInv, NEW t \in Threads,
         job' = [job EXCEPT ![t] = job'[t]], JobTyped(job'[t]),
         JobSound(job'[t], log),
         UNCHANGED <<records, log, keys>>, requests' \in Nat
  PROVE  IInv'
<1>1. \A u \in Threads : u # t => job'[u] = job[u]
  BY DEF IInv, TypeOK
<1>2. TypeOK'
  <2>1. job' \in [Threads -> Job]
    BY DEF JobTyped, IInv, TypeOK
  <2> QED
    BY <1>1, <2>1 DEF JobTyped, IInv, TypeOK
<1>3. \A u \in Threads : JobSound(job'[u], log)
  BY <1>1 DEF IInv
<1> QED
  BY <1>2, <1>3 DEF IInv

\* A request that ends without a save.
LEMMA RequestEnds ==
  ASSUME IInv, NEW t \in Threads, Fail(t)
  PROVE  IInv'
<1>1. /\ job'[t] = Idle /\ job' = [job EXCEPT ![t] = job'[t]]
      /\ UNCHANGED <<records, log, keys, requests>>
  BY DEF Fail, IInv, TypeOK
<1>2. JobSound(job'[t], log)
  BY <1>1, IdleTyped, IdleIsSound
<1> QED
  BY <1>1, <1>2, IdleTyped, OneJobMoves DEF IInv, TypeOK

\* The request of a thread at work.
LEMMA RequestTyped ==
  ASSUME TypeOK, NEW t \in Threads, job[t].pc # "idle"
  PROVE  /\ job[t].request \in Request /\ job[t].request.evaluation \in Evaluations
         /\ job[t] \in Job /\ JobTyped(job[t])
         /\ log \in Logs /\ records \in Records
<1>1. job[t] \in Job /\ JobTyped(job[t]) /\ log \in Logs /\ records \in Records
  BY DEF TypeOK, JobTyped, Logs, Records
<1>2. job[t].request \in Request
  BY <1>1 DEF JobTyped, Job
<1> QED
  BY <1>1, <1>2 DEF Request

-----------------------------------------------------------------------------
(* The invariant is inductive.                                             *)

THEOREM InitSound == Init => IInv
<1> SUFFICES ASSUME Init
             PROVE  IInv
  OBVIOUS
<1>1. /\ records = NoRecords /\ log = NoEvents /\ keys = NoKeys
      /\ job = [t \in Threads |-> Idle] /\ requests = 0
  BY DEF Init
<1>2. <<>> \in Seq(Event)
  OBVIOUS
<1>3. TypeOK
  BY <1>1, <1>2, IdleTyped DEF TypeOK, NoRecords, NoEvents, NoKeys, JobTyped
<1>4. RecordsSound(records, log)
  BY <1>1 DEF RecordsSound, NoRecords
<1>5. KeysSound(keys, log)
  BY <1>1 DEF KeysSound, NoEvents
<1>6. \A t \in Threads : JobSound(job[t], log)
  BY <1>1, IdleTyped, IdleIsSound
<1> QED
  BY <1>3, <1>4, <1>5, <1>6 DEF IInv

LEMMA StartSound ==
  ASSUME IInv, NEW t \in Threads, Start(t)
  PROVE  IInv'
<1>1. PICK type \in Types, e \in Evaluations, a \in Actors, c \in BOOLEAN,
           k \in Keys \cup {None} :
        /\ type = "FINALIZED" => k # None
        /\ c => type \in {"REVIEW", "SIGN_OFF"}
        /\ job' = [job EXCEPT ![t] = [Idle EXCEPT
                 !.pc = IF type \in CheckedFirst THEN "read" ELSE "load",
                 !.request = [type |-> type, evaluation |-> e, actor |-> a, cleared |-> c,
                              key |-> k, at |-> requests + 1]]]
  BY DEF Start
<1> DEFINE r == [type |-> type, evaluation |-> e, actor |-> a, cleared |-> c, key |-> k,
                 at |-> requests + 1]
           at == IF type \in CheckedFirst THEN "read" ELSE "load"
           j == [Idle EXCEPT !.pc = at, !.request = r]
<1>2. job'[t] = j /\ job' = [job EXCEPT ![t] = job'[t]]
  BY <1>1 DEF IInv, TypeOK
<1>3. requests + 1 \in Nat /\ requests' = requests + 1 /\ UNCHANGED <<records, log, keys>>
  BY DEF Start, IInv, TypeOK
<1>4. r \in Request /\ r # None
  <2>1. r \in Request
    BY <1>3 DEF Request
  <2> QED
    BY <2>1, RowsAssumption
<1>5. r.type = type
  OBVIOUS
<1>6. at \in {"read", "load"} /\ (at = "load" => type \notin {"SIGN_OFF", "REPORT"})
  BY DEF CheckedFirst
<1> HIDE DEF r, at
<1>7. JobTyped(j) /\ j.pc = at /\ j.request = r
  BY <1>4, <1>6, IdleTyped DEF JobTyped, Job, Idle
<1> HIDE DEF j
<1>8. JobSound(j, log)
  BY <1>5, <1>6, <1>7 DEF JobSound, ChecksStand, CopySound, CopyComplete, Checked, Built
<1> QED
  BY <1>2, <1>3, <1>7, <1>8, OneJobMoves

LEMMA ReadRecordSound ==
  ASSUME IInv, NEW t \in Threads, ReadRecord(t)
  PROVE  IInv'
<1> DEFINE r == job[t].request
           maker == records[r.evaluation].created_by
<1>1. /\ job' = [job EXCEPT ![t] = [job[t] EXCEPT !.pc = "check", !.maker = maker]]
      /\ UNCHANGED <<records, log, keys, requests>>
      /\ job[t].pc = "read" /\ records[r.evaluation] # None
  BY DEF ReadRecord, IInv, TypeOK
<1>2. r \in Request /\ r.evaluation \in Evaluations /\ JobTyped(job[t]) /\ records \in Records
  BY <1>1, RequestTyped DEF IInv
<1>3. records[r.evaluation] \in Row
  BY <1>1, <1>2 DEF Records
<1>4. maker \in Actors /\ 1 \in DOMAIN log[r.evaluation] /\ maker = log[r.evaluation][1].actor
  BY <1>1, <1>2, <1>3 DEF Row, IInv, RecordsSound
<1>5. maker # None
  BY <1>4, NoneAssumption
<1> HIDE DEF maker
<1>6. /\ job'[t] = [job[t] EXCEPT !.pc = "check", !.maker = maker]
      /\ job' = [job EXCEPT ![t] = job'[t]]
  BY <1>1 DEF IInv, TypeOK
<1>7. JobTyped(job'[t]) /\ job'[t].pc = "check" /\ job'[t].maker = maker /\ job'[t].request = r
  <2> DEFINE j == job[t]
             new == [j EXCEPT !.pc = "check", !.maker = maker]
  <2>1. j \in Job /\ j.request # None
    BY <1>1, <1>2 DEF JobTyped
  <2> HIDE DEF j
  <2>2. new \in Job /\ new.pc = "check" /\ new.maker = maker /\ new.request = j.request
    BY <1>4, <2>1 DEF Job
  <2>3. job'[t] = new
    BY <1>6 DEF j
  <2> HIDE DEF new
  <2>4. JobTyped(new)
    BY <1>5, <2>1, <2>2 DEF JobTyped
  <2> QED
    BY <2>2, <2>3, <2>4 DEF j
<1>8. JobSound(job'[t], log)
  BY <1>4, <1>7 DEF JobSound, ChecksStand, CopySound, CopyComplete, Checked, Built
<1> QED
  BY <1>1, <1>6, <1>7, <1>8, OneJobMoves DEF IInv, TypeOK

LEMMA CheckSound ==
  ASSUME IInv, NEW t \in Threads, CheckSignOff(t) \/ CheckReport(t) \/ CheckAiEvidence(t)
  PROVE  IInv'
<1> DEFINE r == job[t].request
<1>1. /\ job' = [job EXCEPT ![t].pc = "load"]
      /\ UNCHANGED <<records, log, keys, requests>>
      /\ job[t].pc = "check"
  BY DEF CheckSignOff, CheckReport, CheckAiEvidence
<1>2. r \in Request /\ r.evaluation \in Evaluations /\ JobTyped(job[t])
  BY <1>1, RequestTyped DEF IInv
<1>3. /\ job'[t] = [job[t] EXCEPT !.pc = "load"]
      /\ job' = [job EXCEPT ![t] = job'[t]]
  BY <1>1 DEF IInv, TypeOK
<1>4. JobTyped(job'[t]) /\ job'[t].pc = "load" /\ job'[t].request = r
  BY <1>1, <1>2, <1>3 DEF JobTyped, Job
<1>5. 1 \in DOMAIN log[r.evaluation] /\ job[t].maker = log[r.evaluation][1].actor
  BY <1>1 DEF IInv, JobSound, ChecksStand
<1>6. r.type = "SIGN_OFF" => SignOffStands(r, log[r.evaluation])
  BY <1>5 DEF CheckSignOff, CheckReport, CheckAiEvidence, validate_policy_sign_off_decision, SignOffStands
<1>7. r.type = "REPORT" => SignedOff(log[r.evaluation])
  BY DEF CheckSignOff, CheckReport, CheckAiEvidence
<1>8. JobSound(job'[t], log)
  BY <1>4, <1>6, <1>7 DEF JobSound, ChecksStand, CopySound, CopyComplete, Built
<1> QED
  BY <1>1, <1>3, <1>4, <1>8, OneJobMoves DEF IInv, TypeOK

LEMMA LoadRecordsSound ==
  ASSUME IInv, NEW t \in Threads, LoadRecords(t)
  PROVE  IInv'
<1> DEFINE j == job[t]
           torn == \E e \in Evaluations : ~CarriesItsEvents(records[e], log[e])
           copy == [j.copy EXCEPT !.records = records]
           new == [j EXCEPT !.pc = "events", !.copy = copy, !.torn = torn]
<1>1. j.pc = "load" /\ UNCHANGED <<records, log, keys, requests>>
  BY DEF LoadRecords
<1>2. job' = [job EXCEPT ![t].pc = "events", ![t].copy.records = records, ![t].torn = torn]
  BY DEF LoadRecords
<1>3. j \in Job /\ j.request # None /\ records \in Records
  BY <1>1, RequestTyped DEF IInv, JobTyped
<1>4. torn \in BOOLEAN /\ (~torn => Complete(records, log))
  BY DEF Complete
<1>5. JobSound(j, log) /\ RecordsSound(records, log)
  BY DEF IInv
<1> HIDE DEF torn
<1>6. job'[t] = new /\ job' = [job EXCEPT ![t] = job'[t]]
  BY <1>2 DEF IInv, TypeOK
<1> HIDE DEF j
<1>7. copy \in Stores /\ copy.records = records
  BY <1>3 DEF Job, Stores, Records
<1> HIDE DEF copy
<1>8. /\ new \in Job /\ new.pc = "events" /\ new.request = j.request /\ new.copy = copy
      /\ new.torn = torn
  BY <1>3, <1>4, <1>7 DEF Job
<1> HIDE DEF new
<1>9. JobTyped(new)
  BY <1>3, <1>8 DEF JobTyped
<1>10. JobSound(new, log)
  BY <1>1, <1>4, <1>5, <1>7, <1>8 DEF JobSound, ChecksStand, CopySound, CopyComplete, Checked, Built
<1> QED
  BY <1>1, <1>6, <1>9, <1>10, OneJobMoves DEF IInv, TypeOK

LEMMA LoadEventsSound ==
  ASSUME IInv, NEW t \in Threads, LoadEvents(t)
  PROVE  IInv'
<1> DEFINE j == job[t]
           copy == [j.copy EXCEPT !.log = log]
           new == [j EXCEPT !.pc = "keys", !.copy = copy]
<1>1. /\ j.pc = "events" /\ UNCHANGED <<records, log, keys, requests>>
      /\ job' = [job EXCEPT ![t].pc = "keys", ![t].copy.log = log]
  BY DEF LoadEvents
<1>2. j \in Job /\ j.request # None /\ log \in Logs
  BY <1>1, RequestTyped DEF IInv, JobTyped
<1>3. JobSound(j, log)
  BY DEF IInv
<1>4. job'[t] = new /\ job' = [job EXCEPT ![t] = job'[t]]
  BY <1>1 DEF IInv, TypeOK
<1> HIDE DEF j
<1>5. copy \in Stores /\ copy.records = j.copy.records /\ copy.log = log
  BY <1>2 DEF Job, Stores, Logs
<1> HIDE DEF copy
<1>6. /\ new \in Job /\ new.pc = "keys" /\ new.request = j.request /\ new.copy = copy
      /\ new.torn = j.torn
  BY <1>2, <1>5 DEF Job
<1> HIDE DEF new
<1>7. JobTyped(new)
  BY <1>2, <1>6 DEF JobTyped
<1>8. Grows(log, log)
  BY DEF Grows, Prefix
<1>9. JobSound(new, log)
  BY <1>1, <1>3, <1>5, <1>6, <1>8
  DEF JobSound, ChecksStand, CopySound, CopyComplete, Checked, Built
<1> QED
  BY <1>1, <1>4, <1>7, <1>9, OneJobMoves DEF IInv, TypeOK

LEMMA LoadKeysSound ==
  ASSUME IInv, NEW t \in Threads, LoadKeys(t)
  PROVE  IInv'
<1> DEFINE j == job[t]
           r == j.request
           loaded == [j.copy EXCEPT !.keys = keys]
           copy == Change(loaded, r)
           new == [j EXCEPT !.pc = "loaded", !.copy = copy]
<1>1. /\ j.pc = "keys" /\ UNCHANGED <<records, log, keys, requests>>
      /\ job' = [job EXCEPT ![t].pc = "loaded", ![t].copy = copy]
      /\ MayChange(loaded, r)
  BY DEF LoadKeys
<1>2. j \in Job /\ r # None /\ r \in Request /\ log \in Logs /\ keys \in KeyTables
  BY <1>1, RequestTyped DEF IInv, JobTyped, TypeOK, KeyTables
<1>3. JobSound(j, log)
  BY DEF IInv
<1>4. job'[t] = new /\ job' = [job EXCEPT ![t] = job'[t]]
  BY <1>1 DEF IInv, TypeOK
<1> HIDE DEF j
<1>5. loaded \in Stores /\ loaded.records = j.copy.records /\ loaded.log = j.copy.log
  BY <1>2 DEF Job, Stores, KeyTables
<1> HIDE DEF loaded
<1>6. Loadable(loaded, r, log)
  BY <1>1, <1>2, <1>3, <1>5 DEF Loadable, JobSound, CopySound
<1>7. Changed(loaded, copy, r, log)
  BY <1>1, <1>6, ChangeIsSound
<1> HIDE DEF copy
<1>8. /\ new \in Job /\ new.pc = "loaded" /\ new.request = r /\ new.copy = copy
      /\ new.torn = j.torn
  BY <1>2, <1>7 DEF Job, Changed
<1> HIDE DEF new
<1>9. JobTyped(new)
  BY <1>2, <1>8 DEF JobTyped
<1>10. ChecksStand(new, log)
  BY <1>1, <1>3, <1>8 DEF JobSound, ChecksStand, Checked
<1>11. CopySound(new, log)
  BY <1>7, <1>8 DEF Changed, CopySound, Built
<1>12. CopyComplete(new, log)
  BY <1>1, <1>3, <1>5, <1>7, <1>8 DEF JobSound, CopyComplete, Changed, Built
<1> QED
  BY <1>1, <1>4, <1>9, <1>10, <1>11, <1>12, OneJobMoves DEF JobSound, IInv, TypeOK

LEMMA CountEventsSound ==
  ASSUME IInv, NEW t \in Threads, CountEvents(t)
  PROVE  IInv'
<1> DEFINE j == job[t]
           new == [j EXCEPT !.pc = "counted"]
<1>1. /\ j.pc = "loaded" /\ UNCHANGED <<records, log, keys, requests>>
      /\ job' = [job EXCEPT ![t].pc = "counted"]
  BY DEF CountEvents
<1>2. j \in Job /\ j.request # None
  BY <1>1, RequestTyped DEF IInv, JobTyped
<1>3. JobSound(j, log)
  BY DEF IInv
<1>4. job'[t] = new /\ job' = [job EXCEPT ![t] = job'[t]]
  BY <1>1 DEF IInv, TypeOK
<1> HIDE DEF j
<1>5. /\ new \in Job /\ new.pc = "counted" /\ new.request = j.request /\ new.copy = j.copy
      /\ new.torn = j.torn
  BY <1>2 DEF Job
<1> HIDE DEF new
<1>6. JobTyped(new)
  BY <1>2, <1>5 DEF JobTyped
<1>7. JobSound(new, log)
  BY <1>1, <1>3, <1>5 DEF JobSound, ChecksStand, CopySound, CopyComplete, Checked, Built
<1> QED
  BY <1>1, <1>4, <1>6, <1>7, OneJobMoves DEF IInv, TypeOK

-----------------------------------------------------------------------------
(* A save that is not refused.                                             *)

\* The event of the request r, and nothing else, is added to the log of e.
Adds(e, r) ==
  /\ e = r.evaluation
  /\ Len(log'[e]) = Len(log[e]) + 1
  /\ \A i \in DOMAIN log[e] : i \in DOMAIN log'[e] /\ log'[e][i] = log[e][i]
  /\ log'[e][Len(log[e]) + 1] = EventOf(r)
  /\ r.type = "FINALIZED" <=> log[e] = <<>>

LEMMA SaveAddsOneEvent ==
  ASSUME IInv, NEW t \in Threads, Save(t)
  PROVE  /\ log' \in Logs
         /\ Grows(log, log')
         /\ Grows(job[t].copy.log, log')
         /\ \A e \in Evaluations :
              \/ log'[e] = log[e]
              \/ /\ Adds(e, job[t].request)
                 /\ job[t].request.key # None =>
                      job[t].copy.keys[job[t].request.key]
                        = KeyRowOf(job[t].request, Len(log'[e]))
<1> DEFINE copy == job[t].copy
           r == job[t].request
<1>1. /\ job[t].pc = "counted"
      /\ \A e \in Evaluations : \A i \in DOMAIN copy.log[e] \cap DOMAIN log[e] :
           copy.log[e][i] = log[e][i]
      /\ log' = [e \in Evaluations |->
                   IF Len(copy.log[e]) > Len(log[e]) THEN copy.log[e] ELSE log[e]]
  BY DEF Save, StoreEvents
<1>2. copy \in Stores /\ copy.log \in Logs /\ log \in Logs
  BY <1>1, RequestTyped DEF IInv, Job, Stores, Logs
<1>3. \A e \in Evaluations : BuiltLog(copy, log, r, e)
  BY <1>1 DEF IInv, JobSound, CopySound, Built
<1> HIDE DEF copy, r
<1>4. ASSUME NEW e \in Evaluations
      PROVE  /\ log'[e] \in Seq(Event) /\ Prefix(log[e], log'[e]) /\ Prefix(copy.log[e], log'[e])
             /\ \/ log'[e] = log[e]
                \/ Adds(e, r) /\ (r.key # None => copy.keys[r.key] = KeyRowOf(r, Len(log'[e])))
  <2> DEFINE a == copy.log[e]
             b == log[e]
  <2>1. a \in Seq(Event) /\ b \in Seq(Event)
    BY <1>2 DEF Logs
  <2>2. /\ Len(a) \in Nat /\ DOMAIN a = 1..Len(a)
        /\ Len(b) \in Nat /\ DOMAIN b = 1..Len(b)
    BY <2>1, SeqDomain
  <2>3. \A i \in DOMAIN a \cap DOMAIN b : a[i] = b[i]
    BY <1>1
  <2>4. log'[e] = IF Len(a) > Len(b) THEN a ELSE b
    BY <1>1
  <2> HIDE DEF a, b
  <2>5. CASE ~(Len(a) > Len(b))
    <3>1. log'[e] = b
      BY <2>4, <2>5
    <3>2. Prefix(a, b) /\ Prefix(b, b)
      BY <2>2, <2>3, <2>5 DEF Prefix
    <3> QED
      BY <2>1, <3>1, <3>2 DEF a, b
  <2>6. CASE Len(a) > Len(b)
    <3>1. log'[e] = a
      BY <2>4, <2>6
    <3>2. Prefix(b, a) /\ Prefix(a, a)
      BY <2>2, <2>3, <2>6 DEF Prefix
    <3>3. ~Prefix(a, b)
      BY <2>1, <2>2, <2>6, PrefixIsShorter
    <3>4. /\ e = r.evaluation /\ Extends(a, b, r)
          /\ r.key # None => copy.keys[r.key] = KeyRowOf(r, Len(a))
      BY <1>3, <3>3 DEF BuiltLog, a, b
    <3>5. Len(a) = Len(b) + 1
      <4>1. CASE Len(a) = 1
        BY <2>2, <2>6, <4>1
      <4>2. CASE Len(a) # 1
        <5>1. /\ Len(a) - 1 \in DOMAIN a /\ Len(a) - 1 < Len(a)
              /\ Len(a) - 1 \in Nat
          BY <2>2, <2>6, <4>2
        <5>2. \A i \in DOMAIN a : i < Len(a) => i \in DOMAIN b
          BY <3>4 DEF Extends
        <5>3. Len(a) - 1 \in 1..Len(b)
          BY <2>2, <5>1, <5>2
        <5>4. \A m, n \in Nat : m > n /\ m - 1 \in 1..n => m = n + 1
          OBVIOUS
        <5> QED
          BY <2>2, <2>6, <5>3, <5>4
      <4> QED
        BY <4>1, <4>2
    <3>6. b = <<>> <=> Len(b) = 0
      BY <2>1, EmptySeq
    <3>7. Adds(e, r)
      BY <2>2, <3>1, <3>2, <3>4, <3>5, <3>6 DEF Adds, Extends, Prefix, a, b
    <3> QED
      BY <2>1, <3>1, <3>2, <3>4, <3>7 DEF a, b
  <2> QED
    BY <2>5, <2>6
<1>5. log' \in Logs
  BY <1>1, <1>4 DEF Logs
<1> QED
  BY <1>4, <1>5 DEF Grows, copy, r

LEMMA KeysStaySound ==
  ASSUME IInv, NEW t \in Threads, Save(t)
  PROVE  keys' \in KeyTables /\ KeysSound(keys', log')
<1> DEFINE copy == job[t].copy
           r == job[t].request
<1>1. /\ keys' = [k \in Keys |-> IF copy.keys[k] = None THEN keys[k] ELSE copy.keys[k]]
      /\ \A k \in Keys : copy.keys[k] # None /\ keys[k] \notin {None, copy.keys[k]}
           => CanRepair(keys[k].evaluation, copy.keys[k].evaluation)
  BY DEF Save, StoreKeys
<1>2. copy \in Stores /\ r \in Request /\ log \in Logs /\ keys \in KeyTables
  <2>1. job[t].pc # "idle"
    BY DEF Save
  <2> QED
    BY <2>1, RequestTyped DEF IInv, Job, TypeOK, KeyTables
<1>3. log' \in Logs /\ \A e \in Evaluations :
        \/ log'[e] = log[e]
        \/ Adds(e, r) /\ (r.key # None => copy.keys[r.key] = KeyRowOf(r, Len(log'[e])))
  BY SaveAddsOneEvent
<1>4. KeysSound(keys, log)
  BY DEF IInv
<1> HIDE DEF copy, r
<1>5. keys' \in KeyTables
  <2>1. copy.keys \in KeyTables
    BY <1>2 DEF Stores, KeyTables
  <2> QED
    BY <1>1, <1>2, <2>1 DEF KeyTables
<1>6. \A old, mid, new : CanRepair(old, mid) => ~CanRepair(mid, new)
  BY RepairsAssumption DEF CanRepair
\* A key that names an event keeps naming it.
<1>7. ASSUME NEW k \in Keys, NEW e, NEW i, keys[k] # None, Names(keys[k], e, i)
      PROVE  keys'[k] # None /\ Names(keys'[k], e, i)
  <2>1. CASE keys'[k] = keys[k]
    BY <1>7, <2>1
  <2>2. CASE keys'[k] # keys[k]
    <3>1. /\ keys'[k] = copy.keys[k] /\ copy.keys[k] # None
          /\ CanRepair(keys[k].evaluation, copy.keys[k].evaluation)
      BY <1>1, <1>7, <2>2
    <3> QED
      BY <1>6, <1>7, <3>1 DEF Names
  <2> QED
    BY <2>1, <2>2
<1> SUFFICES ASSUME NEW e \in Evaluations, NEW i \in DOMAIN log'[e], log'[e][i].key # None
             PROVE  /\ keys'[log'[e][i].key] # None
                    /\ Names(keys'[log'[e][i].key], e, i)
                    /\ \A j \in DOMAIN log'[e] : log'[e][j].key = log'[e][i].key => j = i
  BY <1>5 DEF KeysSound
<1> DEFINE k == log'[e][i].key
<1>8. log[e] \in Seq(Event) /\ log'[e] \in Seq(Event)
  BY <1>2, <1>3 DEF Logs
<1>9. k \in Keys /\ k # None
  <2>1. log'[e][i] \in Event
    BY <1>8, SeqDomain
  <2> QED
    BY <2>1 DEF Event
<1> HIDE DEF k
\* What is known of the events that were there before.
<1>10. ASSUME NEW m \in DOMAIN log[e], log[e][m].key = k
       PROVE  /\ keys[k] # None /\ Names(keys[k], e, m)
              /\ \A n \in DOMAIN log[e] : log[e][n].key = k => n = m
  BY <1>4, <1>9, <1>10 DEF KeysSound
<1>11. CASE log'[e] = log[e]
  <2>1. i \in DOMAIN log[e] /\ log[e][i].key = k
    BY <1>11 DEF k
  <2>2. keys'[k] # None /\ Names(keys'[k], e, i)
    BY <1>7, <1>9, <1>10, <2>1
  <2> QED
    BY <1>10, <1>11, <2>1, <2>2 DEF k
<1>12. CASE log'[e] # log[e]
  <2> DEFINE last == Len(log[e]) + 1
  <2>1. Adds(e, r) /\ (r.key # None => copy.keys[r.key] = KeyRowOf(r, Len(log'[e])))
    BY <1>3, <1>12
  <2>2. /\ DOMAIN log'[e] = 1..last /\ DOMAIN log[e] = 1..(last - 1) /\ last \in Nat
        /\ Len(log'[e]) = last
    BY <1>8, <2>1, SeqDomain DEF Adds
  <2>3. \A m \in DOMAIN log[e] : log'[e][m] = log[e][m]
    BY <2>1 DEF Adds
  <2>4. log'[e][last].key = r.key
    BY <2>1 DEF Adds, EventOf
  <2> HIDE DEF last
  \* No earlier event has the key of the new one.
  <2>5. ASSUME NEW m \in DOMAIN log[e], log[e][m].key = k, r.key = k
        PROVE  FALSE
    <3>1. keys[k] # None /\ Names(keys[k], e, m)
      BY <1>10, <2>5
    <3>2. k # None
      BY DEF k
    <3>3. copy.keys[k] = KeyRowOf(r, last) /\ copy.keys[k] # None
      <4>1. copy.keys[k] = KeyRowOf(r, last)
        BY <2>1, <2>2, <2>5, <3>2
      <4>2. KeyRowOf(r, last) \in KeyRow
        BY <1>2, <2>2 DEF KeyRowOf, KeyRow, RequestHash, Hash, Request
      <4> QED
        BY <4>1, <4>2, RowsAssumption
    <3>4. copy.keys[k].evaluation = e /\ copy.keys[k].event = last
      BY <2>1, <3>3 DEF KeyRowOf, Adds
    <3>5. CASE keys[k] = copy.keys[k]
      <4>1. ~CanRepair(e, e)
        BY <1>6
      <4> QED
        BY <2>2, <3>1, <3>4, <3>5, <4>1 DEF Names
    <3>6. CASE keys[k] # copy.keys[k]
      <4>1. CanRepair(keys[k].evaluation, e)
        BY <1>1, <1>9, <3>1, <3>3, <3>4, <3>6
      <4> QED
        BY <1>6, <3>1, <4>1 DEF Names
    <3> QED
      BY <3>5, <3>6
  <2>6. CASE i = last
    <3>1. r.key = k /\ k # None
      BY <2>4, <2>6 DEF k
    <3>2. copy.keys[k] = KeyRowOf(r, last) /\ KeyRowOf(r, last) \in KeyRow
      BY <1>2, <2>1, <2>2, <3>1 DEF KeyRowOf, KeyRow, RequestHash, Hash, Request
    <3>3. copy.keys[k] # None
      BY <3>2, RowsAssumption
    <3>4. keys'[k] = copy.keys[k]
      BY <1>1, <1>9, <3>3
    <3>5. copy.keys[k].evaluation = e /\ copy.keys[k].event = i
      BY <2>1, <2>6, <3>2 DEF KeyRowOf, Adds
    <3>6. Names(keys'[k], e, i)
      BY <3>4, <3>5 DEF Names
    <3>7. \A n \in DOMAIN log'[e] : log'[e][n].key = k => n = i
      BY <2>2, <2>3, <2>5, <2>6, <3>1
    <3> QED
      BY <3>3, <3>4, <3>6, <3>7 DEF k
  <2>7. CASE i # last
    <3>1. i \in DOMAIN log[e] /\ log[e][i].key = k
      BY <2>2, <2>3, <2>7 DEF k
    <3>2. keys'[k] # None /\ Names(keys'[k], e, i)
      BY <1>7, <1>9, <1>10, <3>1
    <3>3. \A n \in DOMAIN log'[e] : log'[e][n].key = k => n = i
      BY <1>10, <2>2, <2>3, <2>4, <2>5, <3>1
    <3> QED
      BY <3>2, <3>3 DEF k
  <2> QED
    BY <2>6, <2>7
<1> QED
  BY <1>11, <1>12

\* The commit of another thread.
LEMMA OvertakenIsSound ==
  ASSUME NEW j, JobTyped(j), NEW copy, NEW l \in Logs, NEW m \in Logs, Grows(l, m),
         JobSound(j, l)
  PROVE  JobTyped(Overtaken(j, copy)) /\ JobSound(Overtaken(j, copy), m)
<1> DEFINE torn == j.torn \/ j.pc = "events"
           waited == IF j.pc # "counted" THEN j.waited ELSE
             j.waited \cup {e \in FirstOf(j, RowsOf(j.copy) \cap RowsOf(copy)) :
                             CountAllows(j.copy, e)}
           new == [j EXCEPT !.torn = torn, !.waited = waited]
<1>1. Overtaken(j, copy) = new
  BY DEF Overtaken
<1>2. /\ torn \in BOOLEAN /\ waited \in SUBSET Evaluations
      /\ ~torn => ~j.torn /\ j.pc # "events"
  BY DEF JobTyped, Job, FirstOf, RowsOf
<1> HIDE DEF torn, waited
<1>3. j \in Job
  BY DEF JobTyped
<1>4. /\ new \in Job /\ new.pc = j.pc /\ new.request = j.request /\ new.maker = j.maker
      /\ new.copy = j.copy /\ new.torn = torn /\ new.waited = waited
  BY <1>2, <1>3 DEF Job
<1> HIDE DEF new
<1>5. JobTyped(new)
  BY <1>4 DEF JobTyped
<1>6. ChecksStand(new, m)
  <2>1. CASE j.pc = "idle"
    BY <1>4, <2>1 DEF ChecksStand, Checked
  <2>2. CASE j.pc # "idle"
    <3>1. j.request \in Request
      BY <1>3, <2>2 DEF JobTyped, Job
    <3>2. ChecksStand(j, m)
      BY <1>3, <3>1, ChecksStayTrue DEF JobSound
    <3> QED
      BY <1>4, <3>2 DEF ChecksStand
  <2> QED
    BY <2>1, <2>2
<1>7. CopySound(new, m)
  <2>1. CopySound(j, m)
    BY <1>3, CopyStaysSound DEF JobSound
  <2> QED
    BY <1>4, <2>1 DEF CopySound
<1>8. CopyComplete(new, m)
  BY <1>2, <1>4 DEF JobSound, CopyComplete, Built
<1> QED
  BY <1>1, <1>5, <1>6, <1>7, <1>8 DEF JobSound

LEMMA SaveSound ==
  ASSUME IInv, NEW t \in Threads, Save(t)
  PROVE  IInv'
<1> DEFINE copy == job[t].copy
<1>1. /\ job[t].pc = "counted" /\ UNCHANGED requests
      /\ records' = [e \in Evaluations |->
                       IF copy.records[e] = None THEN records[e] ELSE copy.records[e]]
      /\ job' = [u \in Threads |-> IF u = t THEN Idle ELSE Overtaken(job[u], copy)]
  BY DEF Save, StoreRecords
<1>2. copy \in Stores /\ records \in Records /\ log \in Logs
  BY <1>1, RequestTyped DEF IInv, Job
<1>3. log' \in Logs /\ Grows(log, log') /\ Grows(copy.log, log')
  BY SaveAddsOneEvent
<1>4. RecordsSound(copy.records, copy.log)
  BY <1>1 DEF IInv, JobSound, CopySound, Built
<1> HIDE DEF copy
<1>5. records' \in Records
  BY <1>1, <1>2 DEF Stores, Records
<1>6. RecordsSound(records', log')
  <2>1. RecordsSound(copy.records, log')
    BY <1>2, <1>3, <1>4, RecordsStaySound DEF Stores, Logs
  <2>2. RecordsSound(records, log')
    BY <1>2, <1>3, RecordsStaySound DEF IInv
  <2> QED
    BY <1>1, <2>1, <2>2 DEF RecordsSound
<1>7. keys' \in KeyTables /\ KeysSound(keys', log')
  BY KeysStaySound
<1>8. ASSUME NEW u \in Threads
      PROVE  JobTyped(job'[u]) /\ JobSound(job'[u], log')
  <2>1. CASE u = t
    BY <1>1, <2>1, IdleTyped, IdleIsSound
  <2>2. CASE u # t
    <3>1. JobTyped(job[u]) /\ JobSound(job[u], log)
      BY DEF IInv, TypeOK, JobTyped
    <3>2. JobTyped(Overtaken(job[u], copy)) /\ JobSound(Overtaken(job[u], copy), log')
      BY <1>2, <1>3, <3>1, OvertakenIsSound
    <3> QED
      BY <1>1, <2>2, <3>2
  <2> QED
    BY <2>1, <2>2
<1>9. job' \in [Threads -> Job]
  <2>1. \A u \in Threads : job'[u] \in Job
    BY <1>8 DEF JobTyped
  <2> QED
    BY <1>1, <2>1
<1>10. TypeOK'
  BY <1>1, <1>3, <1>5, <1>7, <1>8, <1>9 DEF IInv, TypeOK, JobTyped, Records, Logs, KeyTables
<1> QED
  BY <1>6, <1>7, <1>8, <1>10 DEF IInv

THEOREM StepSound == IInv /\ [Next]_vars => IInv'
<1> SUFFICES ASSUME IInv, [Next]_vars
             PROVE  IInv'
  OBVIOUS
<1>1. CASE UNCHANGED vars
  BY <1>1 DEF vars, IInv, TypeOK
<1>2. ASSUME NEW t \in Threads,
             \/ Start(t) \/ ReadRecord(t) \/ CheckSignOff(t) \/ CheckReport(t) \/ CheckAiEvidence(t)
             \/ LoadRecords(t) \/ LoadEvents(t) \/ LoadKeys(t)
             \/ CountEvents(t) \/ Save(t) \/ Fail(t)
      PROVE  IInv'
  <2>1. CASE Start(t) \/ ReadRecord(t)
    BY <2>1, StartSound, ReadRecordSound
  <2>2. CASE CheckSignOff(t) \/ CheckReport(t) \/ CheckAiEvidence(t)
    BY <2>2, CheckSound
  <2>3. CASE LoadRecords(t) \/ LoadEvents(t)
    BY <2>3, LoadRecordsSound, LoadEventsSound
  <2>4. CASE LoadKeys(t)
    BY <2>4, LoadKeysSound
  <2>5. CASE CountEvents(t)
    BY <2>5, CountEventsSound
  <2>6. CASE Save(t)
    BY <2>6, SaveSound
  <2>7. CASE Fail(t)
    BY <2>7, RequestEnds
  <2> QED
    BY <1>2, <2>1, <2>2, <2>3, <2>4, <2>5, <2>6, <2>7
<1> QED
  BY <1>1, <1>2 DEF Next

THEOREM Invariance == Spec => []IInv
  BY InitSound, StepSound, PTL DEF Spec

-----------------------------------------------------------------------------
(* The theorems.                                                           *)

\* The tables hold rows and every thread a request and a copy, whatever fails.
THEOREM TypeCorrect == Spec => []TypeOK
<1>1. IInv => TypeOK
  BY DEF IInv
<1> QED
  BY <1>1, Invariance, PTL

\* A key is recorded once per evaluation: the save of a second event under it meets
\* the row of the first.
THEOREM KeysNameTheirEvents == Spec => []KeyNamesItsEvent
<1>1. IInv => KeyNamesItsEvent
  BY DEF IInv, KeysSound, Names, KeyNamesItsEvent
<1> QED
  BY <1>1, Invariance, PTL

\* A save of a copy that is neither torn nor waited for keeps what the record has:
\* the copy has as many events as are stored, and a record has its events.
THEOREM OnlyOvertakenSavesForget == Spec => ForgetsOnlyWhenOvertaken
<1> DEFINE Excused == \E t \in Threads : job[t].pc = "counted" /\ job'[t].pc = "idle"
                                         /\ (job[t].torn \/ job[t].waited # {})
<1>1. ASSUME IInv, [Next]_vars, NEW e \in Evaluations, Forgotten(e)
      PROVE  Excused
  <2>1. records' # records
    BY <1>1 DEF Forgotten
  <2>2. PICK t \in Threads : Save(t)
    BY <1>1, <2>1
    DEF Next, vars, Start, ReadRecord, CheckSignOff, CheckReport, CheckAiEvidence, LoadRecords, LoadEvents,
        LoadKeys, CountEvents, Fail
  <2> DEFINE copy == job[t].copy
  <2>3. job[t].pc = "counted" /\ job'[t].pc = "idle"
    BY <2>2, IdleTyped DEF Save
  <2>4. SUFFICES ASSUME ~job[t].torn, job[t].waited = {}
                 PROVE  FALSE
    BY <2>3
  <2>5. /\ records'[e] = IF copy.records[e] = None THEN records[e] ELSE copy.records[e]
        /\ CountAllows(copy, e)
        /\ \A i \in DOMAIN copy.log[e] \cap DOMAIN log[e] : copy.log[e][i] = log[e][i]
    BY <2>2, <2>4 DEF Save, StoreRecords, StoreEvents
  <2>6. Complete(copy.records, copy.log)
    BY <1>1, <2>3, <2>4 DEF IInv, JobSound, CopyComplete, Built
  <2>7. copy.log \in Logs /\ log \in Logs
    BY <1>1, <2>3, RequestTyped DEF IInv, Job, Stores, Logs
  <2> HIDE DEF copy
  <2>8. records[e] # None /\ copy.records[e] # None
    BY <1>1, <2>5 DEF Forgotten
  <2>9. DOMAIN log[e] \subseteq DOMAIN copy.log[e]
    <3>1. Len(log[e]) <= Len(copy.log[e])
      BY <2>5, <2>8 DEF CountAllows
    <3> QED
      BY <2>7, <3>1, SeqDomain DEF Logs
  <2>10. records[e].attached \subseteq AttachedIn(log[e])
    BY <1>1, <2>8 DEF IInv, RecordsSound
  <2>11. AttachedIn(copy.log[e]) \subseteq copy.records[e].attached
    BY <2>6, <2>8 DEF Complete, CarriesItsEvents
  <2>12. AttachedIn(log[e]) \subseteq AttachedIn(copy.log[e])
    BY <2>5, <2>9 DEF AttachedIn
  <2> QED
    BY <1>1, <2>5, <2>8, <2>10, <2>11, <2>12 DEF Forgotten
<1>2. IInv /\ [Next]_vars => [\A e \in Evaluations : Forgotten(e) => Excused]_vars
  BY <1>1
<1> QED
  BY <1>2, Invariance, PTL DEF Spec, ForgetsOnlyWhenOvertaken

\* What a request has checked is true of the log when its event is added to it.
LEMMA StepMaps == IInv /\ [Next]_vars => [PolicyLog!Next]_log
<1> SUFFICES ASSUME IInv, [Next]_vars, log' # log
             PROVE  PolicyLog!Next
  OBVIOUS
<1>1. PICK t \in Threads : Save(t)
  BY DEF Next, vars, Start, ReadRecord, CheckSignOff, CheckReport, CheckAiEvidence, LoadRecords, LoadEvents,
         LoadKeys, CountEvents, Fail
<1> DEFINE r == job[t].request
<1>2. log \in Logs /\ log' \in Logs /\ \A e \in Evaluations : log'[e] = log[e] \/ Adds(e, r)
  BY <1>1, SaveAddsOneEvent DEF IInv, TypeOK, Logs
<1>3. PICK e \in Evaluations : log'[e] # log[e]
  BY <1>2 DEF Logs
<1>4. Adds(e, r) /\ \A f \in Evaluations \ {e} : log'[f] = log[f]
  BY <1>2, <1>3 DEF Adds
<1>5. PolicyLog!Appends(e)
  BY <1>4 DEF PolicyLog!Appends, Adds
<1>6. PolicyLog!New(e) = EventOf(r)
  BY <1>4 DEF PolicyLog!New, Adds
<1>7. EventOf(r).type = r.type /\ EventOf(r).actor = r.actor /\ EventOf(r).cleared = r.cleared
  BY DEF EventOf
<1>8. job[t].pc = "counted" /\ r.type \in Types /\ ChecksStand(job[t], log)
  <2>1. job[t].pc = "counted"
    BY <1>1 DEF Save
  <2> QED
    BY <2>1, RequestTyped DEF Request, IInv, JobSound
<1>9. e = r.evaluation /\ (r.type = "FINALIZED" <=> log[e] = <<>>)
  BY <1>4 DEF Adds
<1> HIDE DEF r
<1>10. CASE r.type = "FINALIZED"
  BY <1>5, <1>6, <1>7, <1>9, <1>10 DEF PolicyLog!Next, PolicyLog!Finalize
<1>11. CASE r.type \in {"REVIEW", "AI_EVIDENCE"}
  BY <1>5, <1>6, <1>7, <1>9, <1>11 DEF PolicyLog!Next, PolicyLog!Review
<1>12. CASE r.type = "SIGN_OFF"
  <2>1. SignOffStands(r, log[e])
    BY <1>8, <1>9, <1>12 DEF ChecksStand, Checked, r
  <2>2. PolicyLog!SignOff(e)
    BY <1>5, <1>6, <1>7, <1>9, <1>12, <2>1
    DEF PolicyLog!SignOff, SignOffStands, Cleared, PolicyLog!Cleared
  <2> QED
    BY <2>2 DEF PolicyLog!Next
<1>13. CASE r.type = "REPORT"
  <2>1. SignedOff(log[e])
    BY <1>8, <1>9, <1>13 DEF ChecksStand, Checked, r
  <2>2. PolicyLog!Report(e)
    BY <1>5, <1>6, <1>7, <1>13, <2>1 DEF PolicyLog!Report, SignedOff, PolicyLog!SignedOff
  <2> QED
    BY <2>2 DEF PolicyLog!Next
<1> QED
  BY <1>8, <1>10, <1>11, <1>12, <1>13 DEF Types

\* The stored log is one of PolicyReview, where a step is checked and appended at
\* once.
THEOREM EvaluationsImplementReview == Spec => ImplementsReview
<1>1. Init => PolicyLog!Init
  BY DEF Init, NoEvents, PolicyLog!Init
<1> QED
  BY <1>1, StepMaps, Invariance, PTL DEF Spec, ImplementsReview, PolicyLog!Spec
=============================================================================
