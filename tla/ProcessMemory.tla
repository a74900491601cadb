----------------------------- MODULE ProcessMemory -----------------------------
(***************************************************************************)
(* What one API process keeps in memory for its request threads and loses  *)
(* when it restarts: the ledger of idea intakes, and the caches of         *)
(* lotus-core data, a cache of resolved contexts over a cache of the       *)
(* enrichment they are resolved with.                                      *)
(*                                                                         *)
(* Ledger and caches are ordered maps that forget by age and by number.    *)
(* The ledger drops what is expired by the clock of the current request,   *)
(* read before it takes the lock, and then the oldest insertion; a cache   *)
(* drops an expired entry when it is asked for, by a clock read before the *)
(* lock too, and the least recently used one when it is full.  A           *)
(* resolution looks its securities up one by one, keeps the records it     *)
(* finds, calls lotus-core without a lock for the missing ones, stores     *)
(* them one by one, calls for the taxonomy and stores the context.         *)
(*                                                                         *)
(* Abstractions: a fingerprint is a model value; the data of an enrichment *)
(* record is the time it was read from lotus-core, that of a context the   *)
(* oldest of the records in it, and a portfolio holds some security; the   *)
(* cache of the taxonomy is left out.  A call, with the work after it, and *)
(* the lookups last MaxCall at most: the client has a timeout for each     *)
(* phase of a call.  An ordered map is a function of its keys, its order   *)
(* the turns in which the entries took their places.                       *)
(***************************************************************************)
EXTENDS Naturals, Sequences, FiniteSets

CONSTANTS
  Threads,       \* request threads
  Keys,          \* intake keys, scoped to their caller
  Fingerprints,  \* intake requests
  Contexts,      \* keys of the context cache
  Securities,    \* keys of the enrichment cache
  None,          \* an absent value
  ReplayTtl,     \* IDEA_PROPOSAL_INTAKE_IDEMPOTENCY_REPLAY_TTL_SECONDS
  MaxRecords,    \* IDEA_PROPOSAL_INTAKE_IDEMPOTENCY_MAX_RECORDS
  CacheTtl,      \* LOTUS_CORE_STATEFUL_CONTEXT_CACHE_TTL_SECONDS
  MaxSize,       \* LOTUS_CORE_STATEFUL_CONTEXT_CACHE_MAX_SIZE
  MaxCall,       \* bound: duration of a call of lotus-core and the work after it
  MaxTime,       \* bound: clock
  MaxRequests    \* bound: requests started

ASSUME SizesAssumption == MaxRecords \in Nat \ {0} /\ MaxSize \in Nat \ {0}
ASSUME TimesAssumption == ReplayTtl \in Nat \ {0} /\ CacheTtl \in Nat /\ MaxCall \in Nat
ASSUME BoundsAssumption == MaxTime \in Nat /\ MaxRequests \in Nat
ASSUME KeysAssumption == IsFiniteSet(Keys) /\ IsFiniteSet(Contexts) /\ IsFiniteSet(Securities)

VARIABLES
  ledger,       \* intake records, ordered by their insertion
  contexts,     \* STATEFUL_CONTEXT_CACHE, ordered by use
  enrichment,   \* INSTRUMENT_ENRICHMENT_CACHE, ordered by use
  intakes,      \* turns taken in the ledger
  uses,         \* turns taken in the caches
  job,          \* per thread: its request
  clock,        \* seconds
  requests,     \* requests started
  receipts,     \* history: intakes accepted by this process
  served,       \* history: age of the data last served
  used          \* history: the turn of the last use of a security, and its expiry

records == <<ledger, intakes>>
caches == <<contexts, enrichment, uses>>
history == <<receipts, served, used>>
vars == <<records, caches, job, clock, requests, history>>

-----------------------------------------------------------------------------
\* Ordered maps.  A turn of 0 is that of an absent entry.

NoRecord == [turn |-> 0, fingerprint |-> None, expires |-> 0]

NoEntry == [turn |-> 0, data |-> 0, expires |-> 0]

NoUse == [turn |-> 0, expires |-> 0]

After(map, key) == {k \in DOMAIN map : map[k].turn > map[key].turn}

\* The n entries with the latest turns.
Newest(map, n, absent) ==
  [key \in DOMAIN map |-> IF Cardinality(After(map, key)) < n THEN map[key] ELSE absent]

-----------------------------------------------------------------------------
(* Faults: the policies of the code with a plausible bug.                  *)

EnforceCapEarly(map) == Newest(map, MaxRecords - 1, NoRecord)

HitKeepsPlace(map, key, now) == map

FreshAtExpiry(map, key, now) == map[key].turn # 0 /\ map[key].expires >= now

-----------------------------------------------------------------------------
Idle == [pc |-> "idle", at |-> 0, key |-> None, fingerprint |-> None,
         todo |-> {}, missing |-> {}, read |-> 0, data |-> 0]

\* at is where an intake, a call or the lookups started; todo are the securities to
\* look up, missing those to call for or to store; read is when lotus-core read what
\* is to store, data the oldest read of what is found.
Job == [pc : {"idle", "intake", "context", "source", "lookup", "call", "received", "taxonomy"},
        at : 0..MaxTime, key : Keys \cup Contexts \cup {None},
        fingerprint : Fingerprints \cup {None},
        todo : SUBSET Securities, missing : SUBSET Securities,
        read : 0..MaxTime, data : 0..MaxTime]

Init ==
  /\ ledger = [k \in Keys |-> NoRecord]
  /\ contexts = [c \in Contexts |-> NoEntry]
  /\ enrichment = [s \in Securities |-> NoEntry]
  /\ intakes = 0
  /\ uses = 0
  /\ job = [t \in Threads |-> Idle]
  /\ clock = 0
  /\ requests = 0
  /\ receipts = <<>>
  /\ served = 0
  /\ used = [s \in Securities |-> NoUse]

Step(t, pc) == job' = [job EXCEPT ![t].pc = pc]
End(t) == job' = [job EXCEPT ![t] = Idle]

-----------------------------------------------------------------------------
(* Idea intakes.                                                           *)

\* received_at is read here, the lock is taken later.
StartIntake(t) ==
  /\ job[t].pc = "idle"
  /\ requests < MaxRequests
  /\ requests' = requests + 1
  /\ \E k \in Keys, f \in Fingerprints :
       job' = [job EXCEPT ![t] = [Idle EXCEPT !.pc = "intake", !.at = clock,
                                              !.key = k, !.fingerprint = f]]
  /\ UNCHANGED <<records, caches, clock, history>>

purge_expired(now) ==
  [k \in Keys |-> IF ledger[k].expires > now THEN ledger[k] ELSE NoRecord]

enforce_record_cap(map) == Newest(map, MaxRecords, NoRecord)

\* An accepted intake is inserted; a replay and a conflict only purge.
Record(t) ==
  LET j == job[t]
      kept == purge_expired(j.at)
      entry == [turn |-> intakes + 1, fingerprint |-> j.fingerprint,
                expires |-> j.at + ReplayTtl]
      known == kept[j.key].turn # 0 IN
  /\ j.pc = "intake"
  /\ ledger' = IF known THEN kept ELSE enforce_record_cap([kept EXCEPT ![j.key] = entry])
  /\ intakes' = intakes + 1
  /\ receipts' = Append(receipts, [key |-> j.key, at |-> j.at, accepted |-> ~known])
  /\ End(t)
  /\ UNCHANGED <<caches, clock, requests, served, used>>

-----------------------------------------------------------------------------
(* TimedCache.                                                             *)

\* A hit moves the entry to the end.
Hit(map, key, now) == [map EXCEPT ![key].turn = uses + 1]

Fresh(map, key, now) == map[key].expires > now

get(map, key, now) ==
  IF Fresh(map, key, now) THEN Hit(map, key, now) ELSE [map EXCEPT ![key] = NoEntry]

set(map, key, data, now) ==
  Newest([map EXCEPT ![key] = [turn |-> uses + 1, data |-> data, expires |-> now + CacheTtl]],
         MaxSize, NoEntry)

\* The history of use: a set gives a new expiry, a hit keeps it.
Use(key, expires) == [used EXCEPT ![key] = [turn |-> uses + 1, expires |-> expires]]

-----------------------------------------------------------------------------
(* Resolution of a stateful context.                                       *)

\* A lookup reads the clock before it takes the lock.
StartResolve(t) ==
  /\ job[t].pc = "idle"
  /\ requests < MaxRequests
  /\ requests' = requests + 1
  /\ \E c \in Contexts :
       job' = [job EXCEPT ![t] = [Idle EXCEPT !.pc = "context", !.at = clock, !.key = c]]
  /\ UNCHANGED <<records, caches, clock, history>>

\* A cached context answers.
GetContext(t) ==
  LET j == job[t] IN
  /\ j.pc = "context"
  /\ \E now \in j.at..clock :
       /\ contexts' = get(contexts, j.key, now)
       /\ IF Fresh(contexts, j.key, now)
          THEN /\ served' = clock - contexts[j.key].data
               /\ uses' = uses + 1
               /\ End(t)
          ELSE /\ Step(t, "source")
               /\ UNCHANGED <<served, uses>>
  /\ UNCHANGED <<records, enrichment, clock, requests, receipts, used>>

\* Portfolio, positions and cash are called for; the positions name the securities.
\* Nothing of their enrichment is read yet, so its oldest read is still to come.
FetchSource(t) ==
  /\ job[t].pc = "source"
  /\ \E held \in (SUBSET Securities) \ {{}} :
       job' = [job EXCEPT ![t] = [job[t] EXCEPT !.pc = "lookup", !.at = clock, !.todo = held,
                                                !.data = MaxTime]]
  /\ UNCHANGED <<records, caches, clock, requests, history>>

Oldest(a, b) == IF a < b THEN a ELSE b

\* After the lookups the missing records are called for, if there are any.
AfterLookups(j) ==
  IF j.todo # {} THEN j
  ELSE [j EXCEPT !.pc = IF j.missing = {} THEN "taxonomy" ELSE "call", !.at = clock]

GetEnrichment(t, s) ==
  LET j == job[t] IN
  /\ j.pc = "lookup"
  /\ s \in j.todo
  /\ \E now \in j.at..clock :
       /\ enrichment' = get(enrichment, s, now)
       /\ IF Fresh(enrichment, s, now)
          THEN /\ job' = [job EXCEPT ![t] = AfterLookups([j EXCEPT !.todo = j.todo \ {s},
                                             !.data = Oldest(j.data, enrichment[s].data)])]
               /\ used' = Use(s, used[s].expires)
               /\ uses' = uses + 1
          ELSE /\ job' = [job EXCEPT ![t] = AfterLookups([j EXCEPT !.todo = j.todo \ {s},
                                             !.missing = j.missing \cup {s}])]
               /\ UNCHANGED <<used, uses>>
  /\ UNCHANGED <<records, contexts, clock, requests, receipts, served>>

\* After the last record is stored the taxonomy is called for.
AfterStores(j) ==
  IF j.missing # {} THEN j ELSE [j EXCEPT !.pc = "taxonomy", !.at = clock]

\* lotus-core reads its data at some moment of the call, and leaves out or garbles
\* the records of some securities, which are skipped.
Call(t) ==
  LET j == job[t] IN
  /\ j.pc = "call"
  /\ \E returned \in SUBSET j.missing :
       job' = [job EXCEPT ![t] = AfterStores([j EXCEPT
                 !.pc = "received", !.missing = returned,
                 !.read = clock, !.data = Oldest(j.data, clock)])]
  /\ UNCHANGED <<records, caches, clock, requests, history>>

SetEnrichment(t, s) ==
  LET j == job[t] IN
  /\ j.pc = "received"
  /\ s \in j.missing
  /\ enrichment' = set(enrichment, s, j.read, clock)
  /\ uses' = uses + 1
  /\ used' = Use(s, clock + CacheTtl)
  /\ job' = [job EXCEPT ![t] = AfterStores([j EXCEPT !.missing = j.missing \ {s}])]
  /\ UNCHANGED <<records, contexts, clock, requests, receipts, served>>

\* The taxonomy is called for or found, or does without; a resolution that is then
\* complete is cached.
SetContext(t) ==
  LET j == job[t] IN
  /\ j.pc = "taxonomy"
  /\ contexts' = set(contexts, j.key, j.data, clock)
  /\ uses' = uses + 1
  /\ served' = clock - j.data
  /\ End(t)
  /\ UNCHANGED <<records, enrichment, clock, requests, receipts, used>>

-----------------------------------------------------------------------------
\* lotus-core is unavailable, or what it returned is incomplete.
Fail(t) ==
  /\ job[t].pc \in {"source", "call", "taxonomy"}
  /\ End(t)
  /\ UNCHANGED <<records, caches, clock, requests, history>>

\* Where a call, with the work after it, or the lookups have lasted MaxCall.
Overdue(t) ==
  /\ job[t].pc \in {"context", "lookup", "call", "received", "taxonomy"}
  /\ clock - job[t].at >= MaxCall

Tick ==
  /\ clock < MaxTime
  /\ \A t \in Threads : ~Overdue(t)
  /\ clock' = clock + 1
  /\ UNCHANGED <<records, caches, job, requests, history>>

\* The memory is gone; so is the history of the process.
Restart ==
  /\ ledger' = [k \in Keys |-> NoRecord]
  /\ contexts' = [c \in Contexts |-> NoEntry]
  /\ enrichment' = [s \in Securities |-> NoEntry]
  /\ intakes' = 0
  /\ uses' = 0
  /\ job' = [t \in Threads |-> Idle]
  /\ receipts' = <<>>
  /\ used' = [s \in Securities |-> NoUse]
  /\ UNCHANGED <<clock, requests, served>>

Next ==
  \/ \E t \in Threads :
       \/ StartIntake(t) \/ Record(t)
       \/ StartResolve(t) \/ GetContext(t) \/ FetchSource(t) \/ Call(t)
       \/ SetContext(t) \/ Fail(t)
       \/ \E s \in Securities : GetEnrichment(t, s) \/ SetEnrichment(t, s)
  \/ Tick
  \/ Restart

Spec == Init /\ [][Next]_vars

-----------------------------------------------------------------------------
(* Properties.                                                             *)

Intake == [turn : Nat, fingerprint : Fingerprints \cup {None}, expires : Nat]

Entry == [turn : Nat, data : 0..MaxTime, expires : Nat]

TypeOK ==
  /\ ledger \in [Keys -> Intake]
  /\ contexts \in [Contexts -> Entry]
  /\ enrichment \in [Securities -> Entry]
  /\ intakes \in Nat
  /\ uses \in Nat
  /\ job \in [Threads -> Job]
  /\ clock \in 0..MaxTime
  /\ requests \in 0..MaxRequests
  /\ receipts \in Seq([key : Keys, at : 0..MaxTime, accepted : BOOLEAN])
  /\ served \in Nat
  /\ used \in [Securities -> [turn : Nat, expires : Nat]]

\* A process accepts a second intake under a key only when some request since the
\* first came later than its replay time, or MaxRecords other intakes were
\* accepted since: until then a retry is a replay or a conflict.
ForgetsByAgeOrNumber ==
  \A i, j \in DOMAIN receipts :
    i < j /\ receipts[i].accepted /\ receipts[j].accepted /\ receipts[i].key = receipts[j].key =>
      \/ \E m \in (i + 1)..j : receipts[m].at >= receipts[i].at + ReplayTtl
      \/ Cardinality({m \in (i + 1)..(j - 1) : receipts[m].accepted}) >= MaxRecords

\* The oldest enrichment in what is served: of a record, the call it was read in, one
\* lifetime in its cache and the lookups that found it; then a call for the records
\* that were missing and one for the taxonomy, one lifetime of the context and the
\* lookup that found it.  Hits do not keep it alive.
ServedDataIsRecent ==
  CacheTtl > 0 => served <= 2 * (CacheTtl - 1) + 5 * MaxCall

\* Of the unexpired records the most recently used ones are cached: a security in
\* use is not evicted for one that is not, whatever the threads store in between.
RecentlyUsedStays ==
  \A s \in Securities :
    used[s].expires > clock /\ Cardinality(After(used, s)) < MaxSize
      => enrichment[s].turn # 0

-----------------------------------------------------------------------------
(* Statements that do not hold; the README says where TLC refutes them.    *)

\* The record served last is the one read last: a slow call does not put older data
\* back over newer.
DataNeverGoesBack ==
  [][\A s \in Securities :
       enrichment[s].turn # 0 /\ enrichment'[s].turn # 0
         => enrichment'[s].data >= enrichment[s].data]_vars

\* One lifetime and the calls bound the age of what is served.
ServedWithinLifetime == served <= (CacheTtl - 1) + 5 * MaxCall

\* Within its replay time, by its own clock, a retry is not accepted again.
RetryIsReplayed ==
  \A i, j \in DOMAIN receipts :
    i < j /\ receipts[i].accepted /\ receipts[j].accepted /\ receipts[i].key = receipts[j].key =>
      \/ receipts[j].at >= receipts[i].at + ReplayTtl
      \/ Cardinality({m \in (i + 1)..(j - 1) : receipts[m].accepted}) >= MaxRecords
=============================================================================
