------------------------ MODULE ProcessMemoryProofs ------------------------
(***************************************************************************)
(* Theorems about ProcessMemory: for any number of threads, keys, contexts *)
(* and securities, any lifetimes and sizes of the ledger and the caches.   *)
(***************************************************************************)
EXTENDS ProcessMemory, FiniteSetTheorems, TLAPS

-----------------------------------------------------------------------------
(* Lemmas about values and jobs.                                           *)

\* Absent records and entries, and a thread without a request.
LEMMA InitialValuesTyped ==
  NoRecord \in Intake /\ NoEntry \in Entry /\ Idle \in Job /\ 0 \in 0..MaxTime
  BY BoundsAssumption DEF NoRecord, Intake, NoEntry, Entry, Idle, Job

\* A request moves on to j, or to its end.
JobTo(t, j) ==
  /\ job' \in [Threads -> Job]
  /\ job'[t] = j
  /\ \A u \in Threads \ {t} : job'[u] = job[u]

JobEnds(t) == JobTo(t, Idle)

LEMMA JobMoves ==
  ASSUME job \in [Threads -> Job], NEW t \in Threads, NEW j \in Job,
         job' = [job EXCEPT ![t] = j]
  PROVE  JobTo(t, j)
  BY DEF JobTo

LEMMA EndMoves ==
  ASSUME job \in [Threads -> Job], NEW t \in Threads, End(t)
  PROVE  JobEnds(t)
  BY InitialValuesTyped DEF End, JobEnds, JobTo

\* The stages of a resolution that end in a call of lotus-core or in the store.
Open == {"lookup", "call", "received", "taxonomy"}

\* After the lookups, and after the stores, the next call begins now; until then
\* nothing changes.
LEMMA AfterLookupsEffect ==
  ASSUME NEW j \in Job, j.pc = "lookup", clock \in 0..MaxTime
  PROVE  LET next == AfterLookups(j) IN
         /\ next \in Job /\ next.key = j.key /\ next.data = j.data
         /\ next.pc \in {"lookup", "call", "taxonomy"}
         /\ next.pc = "lookup" => next.at = j.at
         /\ next.pc # "lookup" => next.at = clock
         /\ next.pc = "taxonomy" => j.missing = {}
<1>1. ASSUME NEW pc \in {"call", "taxonomy"}
      PROVE  LET n == [j EXCEPT !.pc = pc, !.at = clock] IN
             n \in Job /\ n.key = j.key /\ n.data = j.data /\ n.pc = pc /\ n.at = clock
  BY DEF Job
<1>2. CASE j.todo # {}
  BY <1>2 DEF AfterLookups
<1>3. CASE j.todo = {} /\ j.missing = {}
  BY <1>1, <1>3 DEF AfterLookups
<1>4. CASE j.todo = {} /\ j.missing # {}
  BY <1>1, <1>4 DEF AfterLookups
<1> QED
  BY <1>2, <1>3, <1>4

LEMMA AfterStoresEffect ==
  ASSUME NEW j \in Job, j.pc = "received", clock \in 0..MaxTime
  PROVE  LET next == AfterStores(j) IN
         /\ next \in Job /\ next.key = j.key /\ next.data = j.data /\ next.read = j.read
         /\ next.pc \in {"received", "taxonomy"}
         /\ next.pc = "received" => next.at = j.at
         /\ next.pc = "taxonomy" => next.at = clock
<1>1. LET n == [j EXCEPT !.pc = "taxonomy", !.at = clock] IN
      /\ n \in Job /\ n.key = j.key /\ n.data = j.data /\ n.read = j.read
      /\ n.pc = "taxonomy" /\ n.at = clock
  BY DEF Job
<1>2. CASE j.missing # {}
  BY <1>2 DEF AfterStores
<1>3. CASE j.missing = {}
  BY <1>1, <1>3 DEF AfterStores
<1> QED
  BY <1>2, <1>3

-----------------------------------------------------------------------------
(* Lookups and stores of a cache.                                          *)

\* A lookup returns the map with the entry moved to the end, or dropped.
LEMMA GetEffect ==
  ASSUME uses \in Nat, NEW now \in Nat, NEW K, NEW map \in [K -> Entry], NEW k \in K
  PROVE  /\ get(map, k, now) \in [K -> Entry]
         /\ \A l \in K \ {k} : get(map, k, now)[l] = map[l]
         /\ map[k].expires > now =>
              get(map, k, now)[k] = [map[k] EXCEPT !.turn = uses + 1]
         /\ ~(map[k].expires > now) => get(map, k, now)[k] = NoEntry
<1>1. NoEntry \in Entry
  BY InitialValuesTyped
<1>2. [map[k] EXCEPT !.turn = uses + 1] \in Entry
  BY DEF Entry
<1>3. CASE map[k].expires > now
  BY <1>1, <1>2, <1>3 DEF get, Hit, Fresh
<1>4. CASE ~(map[k].expires > now)
  BY <1>1, <1>4 DEF get, Fresh
<1> QED
  BY <1>3, <1>4

\* A store puts the entry at the end and drops the first ones.
NewEntry(data) == [turn |-> uses + 1, data |-> data, expires |-> clock + CacheTtl]

Stored(map, k, data) == [map EXCEPT ![k] = NewEntry(data)]

LEMMA SetEffect ==
  ASSUME uses \in Nat, clock \in Nat, NEW K, NEW map \in [K -> Entry], NEW k \in K,
         NEW data \in 0..MaxTime
  PROVE  /\ NewEntry(data) \in Entry
         /\ Stored(map, k, data) \in [K -> Entry]
         /\ set(map, k, data, clock) \in [K -> Entry]
         /\ \A l \in K : set(map, k, data, clock)[l] \in {Stored(map, k, data)[l], NoEntry}
         /\ \A l \in K : Cardinality(After(Stored(map, k, data), l)) < MaxSize
                           => set(map, k, data, clock)[l] = Stored(map, k, data)[l]
<1> DEFINE put == Stored(map, k, data)
<1>1. NewEntry(data) \in Entry
  BY TimesAssumption DEF NewEntry, Entry
<1>2. put \in [K -> Entry] /\ NoEntry \in Entry
  BY <1>1, InitialValuesTyped DEF Stored
<1>3. set(map, k, data, clock) = Newest(put, MaxSize, NoEntry)
  BY DEF set, Stored, NewEntry
<1> HIDE DEF put
<1>4. /\ Newest(put, MaxSize, NoEntry) \in [K -> Entry]
      /\ \A l \in K : Newest(put, MaxSize, NoEntry)[l] \in {put[l], NoEntry}
      /\ \A l \in K : Cardinality(After(put, l)) < MaxSize
                        => Newest(put, MaxSize, NoEntry)[l] = put[l]
  BY <1>2 DEF Newest
<1> QED
  BY <1>1, <1>2, <1>3, <1>4, Zenon DEF put

-----------------------------------------------------------------------------
(* Types.                                                                  *)

Resolving == {"context", "source"} \cup Open

\* An intake has a key and a fingerprint, a resolution a context, and what a request
\* has noted or read is of the past.
JobFits(j) ==
  /\ j.pc = "intake" => j.key \in Keys /\ j.fingerprint \in Fingerprints
  /\ j.pc \in Resolving => j.key \in Contexts
  /\ j.at <= clock
  /\ j.pc = "received" => j.read <= clock
  /\ j.pc \in {"received", "taxonomy"} => j.data <= clock

JobsFit == \A t \in Threads : JobFits(job[t])

\* Cached data has been read in the past.
CachesFit ==
  /\ \A c \in Contexts : contexts[c].data <= clock
  /\ \A s \in Securities : enrichment[s].data <= clock

\* A request that moves on, or ends, fits.
LEMMA JobsStayFit ==
  ASSUME TypeOK, JobsFit, clock' = clock, NEW t \in Threads, NEW j \in Job,
         JobTo(t, j), JobFits(j) \/ j = Idle
  PROVE  JobsFit'
<1>1. clock \in Nat
  BY BoundsAssumption DEF TypeOK
<1>2. JobFits(Idle)
  BY <1>1 DEF JobFits, Idle, Resolving, Open
<1>3. JobFits(job'[t])
  BY <1>2 DEF JobTo
<1>4. \A u \in Threads : JobFits(job'[u])
  BY <1>3 DEF JobTo, JobsFit
<1> QED
  BY <1>4 DEF JobsFit, JobFits

\* What a step of a resolution looks up, stores and serves.
LEMMA GetContextKind ==
  ASSUME TypeOK, JobsFit, CachesFit, NEW t \in Threads, GetContext(t)
  PROVE  LET entry == contexts[job[t].key] IN
         /\ job[t].key \in Contexts
         /\ contexts' \in [Contexts -> Entry] /\ uses' \in Nat
         /\ \A c \in Contexts : \/ contexts'[c] = NoEntry
                                \/ /\ contexts'[c].data = contexts[c].data
                                   /\ contexts'[c].expires = contexts[c].expires
         /\ \/ JobEnds(t) /\ entry.expires > job[t].at /\ served' = clock - entry.data
            \/ /\ \E j \in Job : JobTo(t, j) /\ j.pc = "source" /\ JobFits(j)
               /\ served' = served
         /\ served' \in Nat
<1>0. PICK k : k = job[t].key
  OBVIOUS
<1>1. /\ k \in Contexts /\ clock \in Nat /\ uses \in Nat /\ contexts \in [Contexts -> Entry]
      /\ job \in [Threads -> Job] /\ clock \in 0..MaxTime /\ job[t] \in Job
      /\ contexts[k].data \in Nat /\ contexts[k].data <= clock /\ served \in Nat
      /\ job[t].at \in Nat /\ job[t].at <= clock /\ contexts[k].expires \in Nat
  BY <1>0, BoundsAssumption
     DEF TypeOK, JobsFit, JobFits, CachesFit, GetContext, Resolving, Entry, Job
<1>2. PICK now \in job[t].at..clock :
         /\ contexts' = get(contexts, k, now)
         /\ \/ /\ contexts[k].expires > now /\ served' = clock - contexts[k].data
               /\ End(t) /\ uses' = uses + 1
            \/ Step(t, "source") /\ served' = served /\ uses' = uses
  BY <1>0 DEF GetContext, Fresh
<1>3. /\ get(contexts, k, now) \in [Contexts -> Entry]
      /\ \A l \in Contexts \ {k} : get(contexts, k, now)[l] = contexts[l]
      /\ contexts[k].expires > now =>
              get(contexts, k, now)[k] = [contexts[k] EXCEPT !.turn = uses + 1]
      /\ ~(contexts[k].expires > now) => get(contexts, k, now)[k] = NoEntry
  <2>1. now \in Nat
    BY <1>1
  <2> QED
    BY <1>1, <2>1, GetEffect
<1>4. \A c \in Contexts : \/ contexts'[c] = NoEntry
                          \/ /\ contexts'[c].data = contexts[c].data
                             /\ contexts'[c].expires = contexts[c].expires
  <2>1. LET e == [contexts[k] EXCEPT !.turn = uses + 1] IN
        e.data = contexts[k].data /\ e.expires = contexts[k].expires
    BY <1>1 DEF Entry
  <2> QED
    BY <1>2, <1>3, <2>1
<1>5. ASSUME Step(t, "source")
      PROVE  \E j \in Job : JobTo(t, j) /\ j.pc = "source" /\ JobFits(j)
  <2> DEFINE j == [job[t] EXCEPT !.pc = "source"]
  <2>1. job' = [job EXCEPT ![t] = j]
    BY <1>5 DEF Step
  <2>2. j \in Job /\ j.pc = "source" /\ j.key = k /\ j.at = job[t].at
    BY <1>0, <1>1 DEF Job
  <2> HIDE DEF j
  <2>3. JobTo(t, j)
    BY <1>1, <2>1, <2>2, JobMoves
  <2>4. JobFits(j)
    BY <1>1, <2>2 DEF JobFits
  <2> QED
    BY <2>2, <2>3, <2>4
<1>6. End(t) => JobEnds(t)
  BY <1>1, EndMoves
<1>7. contexts[k].expires > now => contexts[k].expires > job[t].at
  BY <1>1, <1>2
<1>8. served' \in Nat /\ uses' \in Nat
  BY <1>1, <1>2
<1> QED
  BY <1>0, <1>1, <1>2, <1>3, <1>4, <1>5, <1>6, <1>7, <1>8

LEMMA FetchSourceKind ==
  ASSUME TypeOK, JobsFit, NEW t \in Threads, FetchSource(t)
  PROVE  \E j \in Job : /\ JobTo(t, j) /\ JobFits(j)
                        /\ j.pc = "lookup" /\ j.at = clock /\ j.data = MaxTime
<1>1. /\ job \in [Threads -> Job] /\ job[t] \in Job /\ clock \in 0..MaxTime
      /\ job[t].pc = "source" /\ job[t].key \in Contexts
  BY DEF TypeOK, JobsFit, JobFits, FetchSource, Resolving
<1>2. PICK held \in SUBSET Securities, at \in 0..MaxTime, data \in 0..MaxTime :
         /\ at = clock /\ data = MaxTime
         /\ job' = [job EXCEPT ![t] = [job[t] EXCEPT !.pc = "lookup", !.at = at,
                                                   !.todo = held, !.data = data]]
  <2>1. MaxTime \in 0..MaxTime
    BY BoundsAssumption
  <2> QED
    BY <1>1, <2>1 DEF FetchSource
<1> DEFINE j == [job[t] EXCEPT !.pc = "lookup", !.at = at, !.todo = held, !.data = data]
<1>4. j \in Job /\ j.pc = "lookup" /\ j.at = clock /\ j.data = MaxTime /\ j.key = job[t].key
  BY <1>1, <1>2 DEF Job
<1>3. job' = [job EXCEPT ![t] = j]
  BY <1>2
<1> HIDE DEF j
<1>5. JobTo(t, j)
  BY <1>1, <1>3, <1>4, JobMoves
<1>6. JobFits(j)
  BY <1>1, <1>4 DEF JobFits, Resolving, Open
<1> QED
  BY <1>4, <1>5, <1>6

\* A lookup keeps the oldest of what is found; after the last one the next call begins.
LookedUp(t, j, data) ==
  /\ j \in Job /\ JobTo(t, j) /\ JobFits(j)
  /\ j.pc \in {"lookup", "call", "taxonomy"}
  /\ j.data = data
  /\ j.pc = "lookup" => j.at = job[t].at
  /\ j.pc # "lookup" => j.at = clock

LEMMA GetEnrichmentKind ==
  ASSUME TypeOK, JobsFit, CachesFit, NEW t \in Threads, NEW s \in Securities,
         GetEnrichment(t, s)
  PROVE  LET entry == enrichment[s] IN
         /\ job[t].pc = "lookup"
         /\ enrichment' \in [Securities -> Entry] /\ uses' \in Nat
         /\ \A r \in Securities \ {s} : enrichment'[r] = enrichment[r]
         /\ \/ /\ entry.expires > job[t].at
               /\ enrichment'[s] = [entry EXCEPT !.turn = uses + 1] /\ uses' = uses + 1
               /\ used' = [used EXCEPT ![s] = [turn |-> uses + 1, expires |-> used[s].expires]]
               /\ \E j : LookedUp(t, j, Oldest(job[t].data, entry.data))
            \/ /\ entry.expires <= clock /\ enrichment'[s] = NoEntry
               /\ used' = used /\ uses' = uses
               /\ \E j : LookedUp(t, j, job[t].data)
<1> DEFINE found == [job[t] EXCEPT !.todo = job[t].todo \ {s},
                             !.data = Oldest(job[t].data, enrichment[s].data)]
           lacking == [job[t] EXCEPT !.todo = job[t].todo \ {s},
                               !.missing = job[t].missing \cup {s}]
<1>1. /\ clock \in Nat /\ uses \in Nat /\ clock \in 0..MaxTime /\ job \in [Threads -> Job]
      /\ enrichment \in [Securities -> Entry] /\ enrichment[s] \in Entry
      /\ job[t] \in Job /\ job[t].at \in Nat /\ job[t].at <= clock
      /\ job[t].pc = "lookup" /\ job[t].key \in Contexts
      /\ enrichment[s].data <= clock
  BY BoundsAssumption
     DEF TypeOK, JobsFit, JobFits, CachesFit, GetEnrichment, Resolving, Open, Job
<1>2. /\ job[t].data \in 0..MaxTime /\ enrichment[s].data \in 0..MaxTime
      /\ enrichment[s].expires \in Nat
  BY <1>1 DEF Job, Entry
<1>3. PICK now \in job[t].at..clock :
         /\ enrichment' = get(enrichment, s, now)
         /\ \/ /\ enrichment[s].expires > now
               /\ job' = [job EXCEPT ![t] = AfterLookups(found)]
               /\ used' = [used EXCEPT ![s] = [turn |-> uses + 1, expires |-> used[s].expires]]
               /\ uses' = uses + 1
            \/ /\ ~(enrichment[s].expires > now)
               /\ job' = [job EXCEPT ![t] = AfterLookups(lacking)]
               /\ used' = used /\ uses' = uses
  BY DEF GetEnrichment, Fresh, Use
<1>4. /\ get(enrichment, s, now) \in [Securities -> Entry]
      /\ \A l \in Securities \ {s} : get(enrichment, s, now)[l] = enrichment[l]
      /\ enrichment[s].expires > now =>
              get(enrichment, s, now)[s] = [enrichment[s] EXCEPT !.turn = uses + 1]
      /\ ~(enrichment[s].expires > now) => get(enrichment, s, now)[s] = NoEntry
  <2>1. now \in Nat
    BY <1>1
  <2> QED
    BY <1>1, <2>1, GetEffect
<1>5. Oldest(job[t].data, enrichment[s].data) \in 0..MaxTime
      /\ Oldest(job[t].data, enrichment[s].data) <= clock
  BY <1>1, <1>2 DEF Oldest
<1>6. /\ found \in Job /\ found.pc = "lookup" /\ found.at = job[t].at
      /\ found.key = job[t].key /\ found.data = Oldest(job[t].data, enrichment[s].data)
      /\ lacking \in Job /\ lacking.pc = "lookup" /\ lacking.at = job[t].at
      /\ lacking.key = job[t].key /\ lacking.data = job[t].data /\ lacking.missing # {}
  <2> HIDE DEF found, lacking
  <2>1. ASSUME NEW d \in 0..MaxTime, NEW n \in SUBSET Securities, NEW m \in SUBSET Securities
        PROVE  /\ [job[t] EXCEPT !.todo = n, !.data = d] \in Job
               /\ [job[t] EXCEPT !.todo = n, !.missing = m] \in Job
    BY <1>1 DEF Job
  <2>2. /\ job[t].todo \ {s} \in SUBSET Securities
        /\ job[t].missing \cup {s} \in SUBSET Securities
    BY <1>1 DEF Job
  <2>3. found \in Job /\ lacking \in Job
    BY <1>5, <2>1, <2>2 DEF found, lacking
  <2> QED
    BY <1>1, <2>3 DEF found, lacking, Job
<1> HIDE DEF found, lacking
<1>7. ASSUME NEW j \in Job, j.pc = "lookup", j.at = job[t].at, j.key = job[t].key,
             j.missing = {} => j.data <= clock, job' = [job EXCEPT ![t] = AfterLookups(j)]
      PROVE  \E next : LookedUp(t, next, j.data)
  <2>0. PICK next : next = AfterLookups(j)
    OBVIOUS
  <2>1. /\ next \in Job /\ next.key = j.key /\ next.data = j.data
        /\ next.pc \in {"lookup", "call", "taxonomy"}
        /\ next.pc = "lookup" => next.at = j.at
        /\ next.pc # "lookup" => next.at = clock
        /\ next.pc = "taxonomy" => j.missing = {}
    BY <1>1, <1>7, <2>0, AfterLookupsEffect
  <2>2. JobTo(t, next)
    BY <1>1, <1>7, <2>0, <2>1, JobMoves
  <2>3. JobFits(next)
    BY <1>1, <1>7, <2>1 DEF JobFits
  <2> QED
    BY <1>7, <2>1, <2>2, <2>3 DEF LookedUp
<1>8. CASE enrichment[s].expires > now
  <2>1. \E j : LookedUp(t, j, Oldest(job[t].data, enrichment[s].data))
    BY <1>3, <1>5, <1>6, <1>7, <1>8
  <2>2. enrichment[s].expires > job[t].at
    BY <1>1, <1>2, <1>3, <1>8
  <2> QED
    BY <1>1, <1>3, <1>4, <1>8, <2>1, <2>2
<1>9. CASE ~(enrichment[s].expires > now)
  <2>1. \E j : LookedUp(t, j, job[t].data)
    BY <1>3, <1>6, <1>7, <1>9
  <2>2. enrichment[s].expires <= clock
    BY <1>1, <1>2, <1>3, <1>9
  <2> QED
    BY <1>1, <1>3, <1>4, <1>9, <2>1, <2>2
<1> QED
  BY <1>8, <1>9

LEMMA SetContextKind ==
  ASSUME TypeOK, JobsFit, NEW t \in Threads, SetContext(t)
  PROVE  LET j == job[t] IN
         /\ contexts' \in [Contexts -> Entry] /\ uses' \in Nat
         /\ \A c \in Contexts :
              \/ contexts'[c] \in {contexts[c], NoEntry}
              \/ contexts'[c].data = j.data /\ contexts'[c].expires = clock + CacheTtl
         /\ JobEnds(t) /\ j.data <= clock /\ j.data \in Nat
         /\ served' = clock - j.data /\ served' \in Nat
<1> DEFINE k == job[t].key
           d == job[t].data
<1>1. /\ k \in Contexts /\ clock \in Nat /\ uses \in Nat /\ contexts \in [Contexts -> Entry]
      /\ job \in [Threads -> Job] /\ job[t] \in Job /\ d <= clock
  BY BoundsAssumption DEF TypeOK, JobsFit, JobFits, SetContext, Resolving, Open
<1>2. d \in 0..MaxTime /\ d \in Nat
  BY <1>1 DEF Job
<1>3. /\ contexts' = set(contexts, k, d, clock) /\ uses' = uses + 1
      /\ served' = clock - d /\ JobEnds(t)
  BY <1>1, EndMoves DEF SetContext
<1> HIDE DEF k, d
<1>4. /\ set(contexts, k, d, clock) \in [Contexts -> Entry]
      /\ \A l \in Contexts : set(contexts, k, d, clock)[l] \in {Stored(contexts, k, d)[l], NoEntry}
  BY <1>1, <1>2, SetEffect
<1>5. \A l \in Contexts : Stored(contexts, k, d)[l] \in {contexts[l], NewEntry(d)}
  BY <1>1 DEF Stored
<1>6. NewEntry(d).data = d /\ NewEntry(d).expires = clock + CacheTtl
  BY DEF NewEntry
<1> QED
  BY <1>1, <1>2, <1>3, <1>4, <1>5, <1>6 DEF k, d

\* What is received is stored one record at a time; after the last one the taxonomy is
\* called for.
Stores(t, j, read, data) ==
  /\ j \in Job /\ JobTo(t, j) /\ JobFits(j)
  /\ j.pc \in {"received", "taxonomy"}
  /\ j.read = read /\ j.data = data
  /\ j.pc = "received" => j.at = job[t].at
  /\ j.pc = "taxonomy" => j.at = clock

LEMMA StoresFollow ==
  ASSUME TypeOK, JobsFit, NEW t \in Threads, job[t].pc \in {"call", "received"},
         NEW j \in Job, j.pc = "received", j.at = job[t].at, j.key = job[t].key,
         j.read <= clock, j.data <= clock, job' = [job EXCEPT ![t] = AfterStores(j)]
  PROVE  \E next : Stores(t, next, j.read, j.data)
<1>0. PICK next : next = AfterStores(j)
  OBVIOUS
<1>1. /\ job \in [Threads -> Job] /\ clock \in 0..MaxTime /\ clock \in Nat
      /\ job[t].key \in Contexts /\ job[t].at <= clock
  BY BoundsAssumption DEF TypeOK, JobsFit, JobFits, Resolving, Open
<1>2. /\ next \in Job /\ next.key = j.key /\ next.data = j.data /\ next.read = j.read
      /\ next.pc \in {"received", "taxonomy"}
      /\ next.pc = "received" => next.at = j.at
      /\ next.pc = "taxonomy" => next.at = clock
  BY <1>0, <1>1, AfterStoresEffect
<1>3. JobTo(t, next)
  BY <1>0, <1>1, <1>2, JobMoves
<1>4. JobFits(next)
  BY <1>1, <1>2 DEF JobFits
<1> QED
  BY <1>2, <1>3, <1>4 DEF Stores

LEMMA CallKind ==
  ASSUME TypeOK, JobsFit, NEW t \in Threads, Call(t)
  PROVE  \E j : Stores(t, j, clock, Oldest(job[t].data, clock))
<1>1. /\ job \in [Threads -> Job] /\ job[t] \in Job /\ job[t].pc = "call"
      /\ clock \in 0..MaxTime /\ clock \in Nat /\ job[t].data \in 0..MaxTime
  BY BoundsAssumption DEF TypeOK, Call, Job
<1>2. Oldest(job[t].data, clock) \in 0..MaxTime /\ Oldest(job[t].data, clock) <= clock
  BY <1>1 DEF Oldest
<1>3. PICK returned \in SUBSET job[t].missing, read \in 0..MaxTime, data \in 0..MaxTime :
         /\ read = clock /\ data = Oldest(job[t].data, clock)
         /\ job' = [job EXCEPT ![t] = AfterStores([job[t] EXCEPT
                      !.pc = "received", !.missing = returned, !.read = read, !.data = data])]
  BY <1>1, <1>2 DEF Call
<1> DEFINE j == [job[t] EXCEPT !.pc = "received", !.missing = returned, !.read = read,
                               !.data = data]
<1>4. /\ j \in Job /\ j.pc = "received" /\ j.at = job[t].at /\ j.key = job[t].key
      /\ j.read = read /\ j.data = data
  BY <1>1, <1>2, <1>3 DEF Job
<1>5. job' = [job EXCEPT ![t] = AfterStores(j)]
  BY <1>3
<1> HIDE DEF j
<1>6. \E next : Stores(t, next, j.read, j.data)
  <2>1. j.read <= clock /\ j.data <= clock /\ job[t].pc \in {"call", "received"}
    BY <1>1, <1>2, <1>3, <1>4
  <2> QED
    BY <1>4, <1>5, <2>1, StoresFollow
<1> QED
  BY <1>3, <1>4, <1>6

LEMMA SetEnrichmentKind ==
  ASSUME TypeOK, JobsFit, NEW t \in Threads, NEW s \in Securities, SetEnrichment(t, s)
  PROVE  LET put == Stored(enrichment, s, job[t].read) IN
         /\ job[t].pc = "received" /\ job[t].read \in 0..MaxTime /\ job[t].read <= clock
         /\ put \in [Securities -> Entry]
         /\ enrichment' \in [Securities -> Entry] /\ uses' = uses + 1
         /\ \A r \in Securities : enrichment'[r] \in {put[r], NoEntry}
         /\ \A r \in Securities : Cardinality(After(put, r)) < MaxSize => enrichment'[r] = put[r]
         /\ used' = [used EXCEPT ![s] = [turn |-> uses + 1, expires |-> clock + CacheTtl]]
         /\ \E j : Stores(t, j, job[t].read, job[t].data)
<1>0. PICK d : d = job[t].read
  OBVIOUS
<1>1. /\ clock \in 0..MaxTime /\ clock \in Nat /\ uses \in Nat
      /\ enrichment \in [Securities -> Entry] /\ job \in [Threads -> Job] /\ job[t] \in Job
      /\ job[t].pc = "received" /\ d <= clock /\ job[t].data <= clock
  BY <1>0, BoundsAssumption DEF TypeOK, JobsFit, JobFits, SetEnrichment
<1>2. d \in 0..MaxTime
  BY <1>0, <1>1 DEF Job
<1> DEFINE j == [job[t] EXCEPT !.missing = job[t].missing \ {s}]
<1>3. /\ enrichment' = set(enrichment, s, d, clock) /\ uses' = uses + 1
      /\ used' = [used EXCEPT ![s] = [turn |-> uses + 1, expires |-> clock + CacheTtl]]
      /\ job' = [job EXCEPT ![t] = AfterStores(j)]
  BY <1>0 DEF SetEnrichment, Use
<1>4. /\ j \in Job /\ j.pc = "received" /\ j.at = job[t].at /\ j.key = job[t].key
      /\ j.read = d /\ j.data = job[t].data
  <2>1. job[t].missing \ {s} \in SUBSET Securities
    BY <1>1 DEF Job
  <2> QED
    BY <1>0, <1>1, <2>1 DEF Job
<1> HIDE DEF j
<1>5. \E next : Stores(t, next, d, job[t].data)
  BY <1>1, <1>3, <1>4, StoresFollow
<1>6. /\ Stored(enrichment, s, d) \in [Securities -> Entry]
      /\ set(enrichment, s, d, clock) \in [Securities -> Entry]
      /\ \A l \in Securities :
           set(enrichment, s, d, clock)[l] \in {Stored(enrichment, s, d)[l], NoEntry}
      /\ \A l \in Securities : Cardinality(After(Stored(enrichment, s, d), l)) < MaxSize
           => set(enrichment, s, d, clock)[l] = Stored(enrichment, s, d)[l]
  BY <1>1, <1>2, SetEffect
<1> QED
  BY <1>0, <1>1, <1>2, <1>3, <1>5, <1>6

\* An intake purges, and is inserted unless its key is still held.
NewRecord(j) == [turn |-> intakes + 1, fingerprint |-> j.fingerprint, expires |-> j.at + ReplayTtl]

Inserted(j) == [purge_expired(j.at) EXCEPT ![j.key] = NewRecord(j)]

LEMMA RecordKind ==
  ASSUME TypeOK, JobsFit, NEW t \in Threads, Record(t)
  PROVE  LET j == job[t]
             kept == purge_expired(j.at)
             known == kept[j.key].turn # 0
             put == Inserted(j)
         IN
         /\ j.key \in Keys /\ j.at \in 0..MaxTime
         /\ kept \in [Keys -> Intake] /\ put \in [Keys -> Intake]
         /\ known => ledger' = kept
         /\ ~known =>
              \A l \in Keys :
                /\ ledger'[l] \in {put[l], NoRecord}
                /\ Cardinality(After(put, l)) < MaxRecords => ledger'[l] = put[l]
         /\ ledger' \in [Keys -> Intake]
         /\ intakes' = intakes + 1
         /\ receipts' = Append(receipts, [key |-> j.key, at |-> j.at, accepted |-> ~known])
         /\ receipts' \in Seq([key : Keys, at : 0..MaxTime, accepted : BOOLEAN])
         /\ JobEnds(t)
<1> DEFINE j == job[t]
           kept == purge_expired(j.at)
           known == kept[j.key].turn # 0
           put == Inserted(j)
<1>1. /\ j.key \in Keys /\ j.fingerprint \in Fingerprints /\ intakes \in Nat
      /\ ledger \in [Keys -> Intake] /\ job \in [Threads -> Job] /\ j \in Job
      /\ receipts \in Seq([key : Keys, at : 0..MaxTime, accepted : BOOLEAN])
  BY DEF TypeOK, JobsFit, JobFits, Record
<1>2. j.at \in 0..MaxTime /\ NoRecord \in Intake
  BY <1>1, InitialValuesTyped DEF Job
<1>3. kept \in [Keys -> Intake]
  BY <1>1, <1>2 DEF purge_expired
<1>4. put \in [Keys -> Intake]
  <2>1. NewRecord(j) \in Intake
    BY <1>1, <1>2, TimesAssumption, BoundsAssumption DEF NewRecord, Intake
  <2> QED
    BY <1>3, <2>1 DEF Inserted
<1>5. /\ ledger' = IF known THEN kept ELSE enforce_record_cap(put)
      /\ intakes' = intakes + 1
      /\ receipts' = Append(receipts, [key |-> j.key, at |-> j.at, accepted |-> ~known])
      /\ JobEnds(t)
  BY <1>1, EndMoves DEF Record, Inserted, NewRecord
<1> HIDE DEF put, known, kept
<1>6. /\ \A l \in Keys :
           /\ enforce_record_cap(put)[l] \in {put[l], NoRecord}
           /\ Cardinality(After(put, l)) < MaxRecords => enforce_record_cap(put)[l] = put[l]
      /\ enforce_record_cap(put) \in [Keys -> Intake]
  BY <1>2, <1>4 DEF enforce_record_cap, Newest
<1>7. receipts' \in Seq([key : Keys, at : 0..MaxTime, accepted : BOOLEAN])
  BY <1>1, <1>2, <1>5
<1>8. ledger' \in [Keys -> Intake]
  BY <1>3, <1>5, <1>6
<1>9. /\ known => ledger' = kept
      /\ ~known => ledger' = enforce_record_cap(put)
  BY <1>5
<1> QED
  BY <1>1, <1>2, <1>3, <1>4, <1>5, <1>6, <1>7, <1>8, <1>9 DEF put, known, kept

\* A request starts.
LEMMA StartKind ==
  ASSUME TypeOK, JobsFit, NEW t \in Threads, StartIntake(t) \/ StartResolve(t)
  PROVE  /\ job' \in [Threads -> Job] /\ JobsFit'
         /\ job'[t].pc \in {"intake", "context"} /\ job'[t].at = clock
         /\ \A u \in Threads \ {t} : job'[u] = job[u]
<1>0. job \in [Threads -> Job] /\ clock \in 0..MaxTime /\ clock \in Nat
  BY BoundsAssumption DEF TypeOK
<1>1. clock' = clock
  BY DEF StartIntake, StartResolve
<1>2. ASSUME NEW j \in Job, job' = [job EXCEPT ![t] = j], j.pc \in {"intake", "context"},
             j.at = clock, JobFits(j)
      PROVE  /\ job' \in [Threads -> Job] /\ JobsFit' /\ job'[t].pc \in {"intake", "context"}
             /\ job'[t].at = clock
             /\ \A u \in Threads \ {t} : job'[u] = job[u]
  <2>1. job' \in [Threads -> Job] /\ job'[t] = j /\ \A u \in Threads \ {t} : job'[u] = job[u]
    BY <1>0, <1>2
  <2> QED
    BY <1>1, <1>2, <2>1 DEF JobsFit, JobFits
<1>3. ASSUME NEW k \in Keys, NEW f \in Fingerprints,
             job' = [job EXCEPT ![t] = [Idle EXCEPT !.pc = "intake", !.at = clock,
                                                    !.key = k, !.fingerprint = f]]
      PROVE  \E j \in Job : /\ job' = [job EXCEPT ![t] = j]
                            /\ j.pc \in {"intake", "context"} /\ j.at = clock /\ JobFits(j)
  <2> DEFINE j == [Idle EXCEPT !.pc = "intake", !.at = clock, !.key = k, !.fingerprint = f]
  <2>1. j \in Job
    BY <1>0, InitialValuesTyped DEF Job
  <2>2. j.pc = "intake" /\ j.at = clock /\ j.key = k /\ j.fingerprint = f
    BY InitialValuesTyped DEF Job
  <2>3. job' = [job EXCEPT ![t] = j]
    BY <1>3
  <2> HIDE DEF j
  <2>4. JobFits(j)
    BY <1>0, <2>2 DEF JobFits, Resolving, Open
  <2> QED
    BY <2>1, <2>2, <2>3, <2>4
<1>4. ASSUME NEW c \in Contexts,
             job' = [job EXCEPT ![t] = [Idle EXCEPT !.pc = "context", !.at = clock, !.key = c]]
      PROVE  \E j \in Job : /\ job' = [job EXCEPT ![t] = j]
                            /\ j.pc \in {"intake", "context"} /\ j.at = clock /\ JobFits(j)
  <2> DEFINE j == [Idle EXCEPT !.pc = "context", !.at = clock, !.key = c]
  <2>1. j \in Job
    BY <1>0, InitialValuesTyped DEF Job
  <2>2. j.pc = "context" /\ j.at = clock /\ j.key = c
    BY InitialValuesTyped DEF Job
  <2>3. job' = [job EXCEPT ![t] = j]
    BY <1>4
  <2> HIDE DEF j
  <2>4. JobFits(j)
    BY <1>0, <2>2 DEF JobFits, Resolving, Open
  <2> QED
    BY <2>1, <2>2, <2>3, <2>4
<1>5. \E j \in Job : /\ job' = [job EXCEPT ![t] = j]
                     /\ j.pc \in {"intake", "context"} /\ j.at = clock /\ JobFits(j)
  <2>1. CASE StartIntake(t)
    BY <1>3, <2>1, Zenon DEF StartIntake
  <2>2. CASE StartResolve(t)
    BY <1>4, <2>2, Zenon DEF StartResolve
  <2> QED
    BY <2>1, <2>2
<1> QED
  BY <1>2, <1>5

\* Every step keeps the types and the order of reading and holding.
LEMMA StepTyped ==
  ASSUME TypeOK, JobsFit, CachesFit, [Next]_vars
  PROVE  TypeOK' /\ JobsFit' /\ CachesFit'
<1>now. clock \in Nat /\ clock \in 0..MaxTime
  BY BoundsAssumption DEF TypeOK
<1>1. ASSUME NEW t \in Threads, StartIntake(t) \/ StartResolve(t)
      PROVE  TypeOK' /\ JobsFit' /\ CachesFit'
  <2>1. /\ requests < MaxRequests /\ requests' = requests + 1
        /\ UNCHANGED <<records, caches, clock, history>>
    BY <1>1 DEF StartIntake, StartResolve
  <2>2. requests' \in 0..MaxRequests
    BY <2>1, BoundsAssumption DEF TypeOK
  <2> QED
    BY <1>1, <2>1, <2>2, StartKind DEF TypeOK, CachesFit, records, caches, history
<1>2. ASSUME NEW t \in Threads, Record(t)
      PROVE  TypeOK' /\ JobsFit' /\ CachesFit'
  <2>1. /\ ledger' \in [Keys -> Intake] /\ intakes' = intakes + 1 /\ JobEnds(t)
        /\ receipts' \in Seq([key : Keys, at : 0..MaxTime, accepted : BOOLEAN])
    BY <1>2, RecordKind
  <2>2. UNCHANGED <<caches, clock, requests, served, used>>
    BY <1>2 DEF Record
  <2>3. JobsFit'
    BY <2>1, <2>2, InitialValuesTyped, JobsStayFit DEF JobEnds
  <2> QED
    BY <2>1, <2>2, <2>3 DEF TypeOK, CachesFit, caches, JobEnds, JobTo
<1>3. ASSUME NEW t \in Threads, GetContext(t)
      PROVE  TypeOK' /\ JobsFit' /\ CachesFit'
  <2>1. UNCHANGED <<records, enrichment, clock, requests, receipts, used>>
    BY <1>3 DEF GetContext
  <2>2. /\ contexts' \in [Contexts -> Entry] /\ uses' \in Nat /\ served' \in Nat
        /\ \A c \in Contexts : contexts'[c] = NoEntry \/ contexts'[c].data = contexts[c].data
        /\ \E j \in Job : JobTo(t, j) /\ (JobFits(j) \/ j = Idle)
    BY <1>3, GetContextKind, InitialValuesTyped DEF JobEnds
  <2>3. job' \in [Threads -> Job] /\ JobsFit'
    BY <2>1, <2>2, JobsStayFit DEF JobTo
  <2>4. CachesFit'
    BY <1>now, <2>1, <2>2 DEF CachesFit, NoEntry
  <2> QED
    BY <2>1, <2>2, <2>3, <2>4 DEF TypeOK, records
<1>4. ASSUME NEW t \in Threads, FetchSource(t)
      PROVE  TypeOK' /\ JobsFit' /\ CachesFit'
  <2>1. UNCHANGED <<records, caches, clock, requests, history>>
    BY <1>4 DEF FetchSource
  <2>2. job' \in [Threads -> Job] /\ JobsFit'
    BY <1>4, <2>1, FetchSourceKind, JobsStayFit DEF JobTo
  <2> QED
    BY <2>1, <2>2 DEF TypeOK, CachesFit, records, caches, history
<1>5. ASSUME NEW t \in Threads, NEW s \in Securities, GetEnrichment(t, s)
      PROVE  TypeOK' /\ JobsFit' /\ CachesFit'
  <2> DEFINE entry == enrichment[s]
  <2>1. UNCHANGED <<records, contexts, clock, requests, receipts, served>>
    BY <1>5 DEF GetEnrichment
  <2>2. /\ enrichment' \in [Securities -> Entry] /\ uses' \in Nat
        /\ \A r \in Securities \ {s} : enrichment'[r] = enrichment[r]
        /\ \/ /\ enrichment'[s] = [entry EXCEPT !.turn = uses + 1] /\ uses' = uses + 1
              /\ used' = [used EXCEPT ![s] = [turn |-> uses + 1, expires |-> used[s].expires]]
           \/ enrichment'[s] = NoEntry /\ used' = used
        /\ \E j, data : LookedUp(t, j, data)
    BY <1>5, GetEnrichmentKind
  <2>3. entry \in Entry /\ entry.data \in 0..MaxTime /\ entry.data <= clock
    BY DEF TypeOK, CachesFit, Entry
  <2>4. job' \in [Threads -> Job] /\ JobsFit'
    BY <2>1, <2>2, JobsStayFit DEF JobTo, LookedUp
  <2>5. CachesFit'
    <3>1. enrichment'[s] = NoEntry \/ enrichment'[s].data = entry.data
      BY <2>2, <2>3 DEF Entry
    <3>2. enrichment'[s].data <= clock
      BY <1>now, <2>3, <3>1 DEF NoEntry
    <3> QED
      BY <2>1, <2>2, <3>2 DEF CachesFit
  <2>6. used' \in [Securities -> [turn : Nat, expires : Nat]]
    <3>1. used \in [Securities -> [turn : Nat, expires : Nat]] /\ uses + 1 \in Nat
      BY DEF TypeOK
    <3>2. [turn |-> uses + 1, expires |-> used[s].expires] \in [turn : Nat, expires : Nat]
      BY <3>1
    <3> QED
      BY <2>2, <3>1, <3>2
  <2> QED
    BY <2>1, <2>2, <2>4, <2>5, <2>6 DEF TypeOK, records
<1>6. ASSUME NEW t \in Threads, Call(t)
      PROVE  TypeOK' /\ JobsFit' /\ CachesFit'
  <2>1. UNCHANGED <<records, caches, clock, requests, history>>
    BY <1>6 DEF Call
  <2>2. job' \in [Threads -> Job] /\ JobsFit'
    BY <1>6, <2>1, CallKind, JobsStayFit DEF JobTo, Stores
  <2> QED
    BY <2>1, <2>2 DEF TypeOK, CachesFit, records, caches, history
<1>7. ASSUME NEW t \in Threads, NEW s \in Securities, SetEnrichment(t, s)
      PROVE  TypeOK' /\ JobsFit' /\ CachesFit'
  <2>0. PICK d, put : d = job[t].read /\ put = Stored(enrichment, s, d)
    OBVIOUS
  <2>1. UNCHANGED <<records, contexts, clock, requests, receipts, served>>
    BY <1>7 DEF SetEnrichment
  <2>2. /\ d \in 0..MaxTime /\ d <= clock /\ put \in [Securities -> Entry]
        /\ enrichment' \in [Securities -> Entry] /\ uses' = uses + 1
        /\ \A r \in Securities : enrichment'[r] \in {put[r], NoEntry}
        /\ used' = [used EXCEPT ![s] = [turn |-> uses + 1, expires |-> clock + CacheTtl]]
        /\ \E j, data : Stores(t, j, d, data)
    BY <1>7, <2>0, SetEnrichmentKind
  <2>3. job' \in [Threads -> Job] /\ JobsFit'
    BY <2>1, <2>2, JobsStayFit DEF JobTo, Stores
  <2>4. \A r \in Securities : put[r].data <= clock
    BY <2>0, <2>2 DEF Stored, NewEntry, CachesFit, TypeOK
  <2>5. CachesFit'
    BY <1>now, <2>1, <2>2, <2>4 DEF CachesFit, NoEntry
  <2>6. used' \in [Securities -> [turn : Nat, expires : Nat]] /\ uses' \in Nat
    BY <1>now, <2>2, TimesAssumption DEF TypeOK
  <2> QED
    BY <2>1, <2>2, <2>3, <2>5, <2>6 DEF TypeOK, records
<1>8. ASSUME NEW t \in Threads, SetContext(t)
      PROVE  TypeOK' /\ JobsFit' /\ CachesFit'
  <2>1. UNCHANGED <<records, enrichment, clock, requests, receipts, used>>
    BY <1>8 DEF SetContext
  <2>2. /\ contexts' \in [Contexts -> Entry] /\ uses' \in Nat /\ served' \in Nat
        /\ \A c \in Contexts : \/ contexts'[c] \in {contexts[c], NoEntry}
                               \/ contexts'[c].data = job[t].data
        /\ JobEnds(t) /\ job[t].data <= clock
    BY <1>8, SetContextKind
  <2>3. JobsFit'
    BY <2>1, <2>2, InitialValuesTyped, JobsStayFit DEF JobEnds
  <2>4. CachesFit'
    BY <1>now, <2>1, <2>2 DEF CachesFit, NoEntry
  <2> QED
    BY <2>1, <2>2, <2>3, <2>4 DEF TypeOK, records, JobEnds, JobTo
<1>9. ASSUME NEW t \in Threads, Fail(t)
      PROVE  TypeOK' /\ JobsFit' /\ CachesFit'
  <2>1. JobEnds(t) /\ UNCHANGED <<records, caches, clock, requests, history>>
    BY <1>9, EndMoves DEF Fail, TypeOK
  <2>2. JobsFit'
    BY <2>1, InitialValuesTyped, JobsStayFit DEF JobEnds
  <2> QED
    BY <2>1, <2>2 DEF TypeOK, CachesFit, records, caches, history, JobEnds, JobTo
<1>10. CASE Tick
  <2>1. clock' = clock + 1 /\ clock' \in 0..MaxTime
        /\ UNCHANGED <<records, caches, job, requests, history>>
    BY <1>10, <1>now, BoundsAssumption DEF Tick
  <2>2. /\ \A t \in Threads : job[t].at \in Nat /\ job[t].data \in Nat /\ job[t].read \in Nat
        /\ \A c \in Contexts : contexts[c].data \in Nat
        /\ \A s \in Securities : enrichment[s].data \in Nat
    BY BoundsAssumption DEF TypeOK, Job, Entry
  <2>3. JobsFit'
    BY <1>now, <2>1, <2>2 DEF JobsFit, JobFits
  <2>4. CachesFit'
    BY <1>now, <2>1, <2>2 DEF CachesFit, caches
  <2> QED
    BY <2>1, <2>3, <2>4 DEF TypeOK, records, caches, history
<1>11. CASE Restart
  <2>1. JobFits(Idle)'
    BY <1>now, <1>11 DEF Restart, JobFits, Idle, Resolving, Open
  <2>2. JobsFit' /\ CachesFit'
    BY <1>now, <1>11, <2>1 DEF Restart, JobsFit, JobFits, CachesFit, NoEntry
  <2>3. <<>> \in Seq([key : Keys, at : 0..MaxTime, accepted : BOOLEAN])
    OBVIOUS
  <2>4. NoUse \in [turn : Nat, expires : Nat]
    BY DEF NoUse
  <2> QED
    BY <1>11, <2>2, <2>3, <2>4, InitialValuesTyped DEF Restart, TypeOK
<1>12. CASE UNCHANGED vars
  BY <1>12 DEF vars, records, caches, history, TypeOK, JobsFit, JobFits, CachesFit
<1> QED
  BY <1>1, <1>2, <1>3, <1>4, <1>5, <1>6, <1>7, <1>8, <1>9, <1>10, <1>11, <1>12, Zenon DEF Next

\* The ledger, the caches and the requests keep their shape, and nothing a request
\* or a cache holds is of the future.
LEMMA Typed == Spec => [](TypeOK /\ JobsFit /\ CachesFit)
<1>1. Init => TypeOK /\ JobsFit /\ CachesFit
  <2> SUFFICES ASSUME Init PROVE TypeOK /\ JobsFit /\ CachesFit
    OBVIOUS
  <2>1. JobFits(Idle) /\ CachesFit
    BY DEF Init, JobFits, Idle, Resolving, Open, CachesFit, NoEntry
  <2>2. JobsFit
    BY <2>1 DEF Init, JobsFit
  <2>3. <<>> \in Seq([key : Keys, at : 0..MaxTime, accepted : BOOLEAN])
    OBVIOUS
  <2>4. NoUse \in [turn : Nat, expires : Nat]
    BY DEF NoUse
  <2> QED
    BY <2>1, <2>2, <2>3, <2>4, InitialValuesTyped, BoundsAssumption DEF Init, TypeOK
<1> QED
  BY <1>1, StepTyped, PTL DEF Spec

\* Every variable keeps its shape, whatever the threads do.
THEOREM TypeCorrect == Spec => []TypeOK
  BY Typed, PTL

-----------------------------------------------------------------------------
(* The age of what is served.                                              *)

Timed == {"context"} \cup Open

\* The lookups, and a call with the work after it, have begun no longer ago than
\* MaxCall, and what was found has aged by a lifetime and the calls before.
RequestIsRecent(j) ==
  /\ j.pc \in Timed => clock <= j.at + MaxCall
  /\ j.pc = "lookup" => j.at + 1 <= j.data + MaxCall + CacheTtl
  /\ j.pc \in {"call", "received"} => j.at + 1 <= j.data + 2 * MaxCall + CacheTtl
  /\ j.pc = "received" => j.at <= j.read
  /\ j.pc = "taxonomy" => j.at + 1 <= j.data + 3 * MaxCall + CacheTtl

EntryIsRecent(s) == enrichment[s].expires <= enrichment[s].data + MaxCall + CacheTtl

ContextIsRecent(c) ==
  contexts[c].expires + 1 <= contexts[c].data + 4 * MaxCall + 2 * CacheTtl

DataIsRecent ==
  /\ \A t \in Threads : RequestIsRecent(job[t])
  /\ \A s \in Securities : EntryIsRecent(s)
  /\ \A c \in Contexts : ContextIsRecent(c)
  /\ served <= 2 * (CacheTtl - 1) + 5 * MaxCall

\* The other requests stay recent while one moves.
LEMMA RequestsStayRecent ==
  ASSUME TypeOK, DataIsRecent, clock' = clock, NEW t \in Threads, NEW j,
         JobTo(t, j), RequestIsRecent(j)
  PROVE  \A u \in Threads : RequestIsRecent(job[u])'
<1>1. \A u \in Threads : RequestIsRecent(job'[u])
  BY DEF DataIsRecent, JobTo
<1> QED
  BY <1>1 DEF RequestIsRecent

LEMMA StepServesRecent ==
  ASSUME TypeOK, JobsFit, CachesFit, CacheTtl > 0, DataIsRecent, [Next]_vars
  PROVE  DataIsRecent'
<1>now. clock \in Nat /\ CacheTtl \in Nat /\ MaxCall \in Nat /\ clock <= MaxTime /\ MaxTime \in Nat
  BY BoundsAssumption, TimesAssumption DEF TypeOK
<1>idle. RequestIsRecent(Idle) /\ NoEntry.expires = 0 /\ NoEntry.data = 0
  BY DEF RequestIsRecent, Idle, Timed, Open, NoEntry
<1>jobs. \A t \in Threads : /\ job[t].at \in Nat /\ job[t].data \in Nat /\ job[t].read \in Nat
                            /\ job[t].at <= clock /\ RequestIsRecent(job[t])
  BY BoundsAssumption DEF TypeOK, Job, JobsFit, JobFits, DataIsRecent
<1>1. ASSUME NEW t \in Threads, StartIntake(t) \/ StartResolve(t)
      PROVE  DataIsRecent'
  <2>1. UNCHANGED <<records, caches, clock, history>>
    BY <1>1 DEF StartIntake, StartResolve
  <2>2. /\ job'[t].pc \in {"intake", "context"} /\ job'[t].at = clock
        /\ job' \in [Threads -> Job]
        /\ \A u \in Threads \ {t} : job'[u] = job[u]
    BY <1>1, StartKind
  <2>3. RequestIsRecent(job'[t])
    BY <1>now, <2>2 DEF RequestIsRecent, Timed, Open
  <2>4. \A u \in Threads : RequestIsRecent(job[u])'
    BY <2>1, <2>2, <2>3, RequestsStayRecent DEF JobTo
  <2> QED
    BY <2>1, <2>4 DEF DataIsRecent, EntryIsRecent, ContextIsRecent, caches, history
<1>2. ASSUME NEW t \in Threads, JobEnds(t), clock' = clock
      PROVE  \A u \in Threads : RequestIsRecent(job[u])'
  BY <1>2, <1>idle, RequestsStayRecent DEF JobEnds
<1>3. ASSUME NEW t \in Threads, Record(t) \/ Fail(t)
      PROVE  DataIsRecent'
  <2>1. UNCHANGED <<caches, clock, served>> /\ JobEnds(t)
    BY <1>3, EndMoves DEF Record, Fail, history, TypeOK
  <2> QED
    BY <1>2, <2>1 DEF DataIsRecent, EntryIsRecent, ContextIsRecent, caches
<1>4. ASSUME NEW t \in Threads, GetContext(t)
      PROVE  DataIsRecent'
  <2>0. PICK k, entry : k = job[t].key /\ entry = contexts[k]
    OBVIOUS
  <2>1. clock' = clock /\ enrichment' = enrichment /\ job[t].pc = "context"
    BY <1>4 DEF GetContext
  <2>2. /\ k \in Contexts
        /\ \A c \in Contexts : \/ contexts'[c] = NoEntry
                               \/ /\ contexts'[c].data = contexts[c].data
                                  /\ contexts'[c].expires = contexts[c].expires
        /\ \/ JobEnds(t) /\ entry.expires > job[t].at /\ served' = clock - entry.data
           \/ (\E j \in Job : JobTo(t, j) /\ j.pc = "source") /\ served' = served
    BY <1>4, <2>0, GetContextKind
  <2>3. \A c \in Contexts : ContextIsRecent(c)'
    BY <1>now, <1>idle, <2>2 DEF DataIsRecent, ContextIsRecent
  <2>4. ASSUME NEW j \in Job, JobTo(t, j), j.pc = "source"
        PROVE  \A u \in Threads : RequestIsRecent(job[u])'
    <3>1. RequestIsRecent(j)
      BY <2>4 DEF RequestIsRecent, Timed, Open
    <3> QED
      BY <2>1, <2>4, <3>1, RequestsStayRecent
  <2>5. \A u \in Threads : RequestIsRecent(job[u])'
    BY <1>2, <2>1, <2>2, <2>4
  <2>6. served' <= 2 * (CacheTtl - 1) + 5 * MaxCall
    <3>1. CASE entry.expires > job[t].at /\ served' = clock - entry.data
      <4>1. entry.expires \in Nat /\ entry.data \in Nat
        BY <2>0, <2>2, BoundsAssumption DEF TypeOK, Entry
      <4>2. entry.expires + 1 <= entry.data + 4 * MaxCall + 2 * CacheTtl
        BY <2>0, <2>2 DEF DataIsRecent, ContextIsRecent
      <4>3. clock <= job[t].at + MaxCall /\ job[t].at \in Nat
        BY <1>jobs, <2>1 DEF RequestIsRecent, Timed
      <4> QED
        BY <1>now, <3>1, <4>1, <4>2, <4>3
    <3> QED
      BY <2>2, <3>1 DEF DataIsRecent
  <2> QED
    BY <2>1, <2>3, <2>5, <2>6 DEF DataIsRecent, EntryIsRecent
<1>5. ASSUME NEW t \in Threads, FetchSource(t)
      PROVE  DataIsRecent'
  <2>1. UNCHANGED <<caches, clock, history>>
    BY <1>5 DEF FetchSource
  <2>2. PICK j \in Job : JobTo(t, j) /\ j.pc = "lookup" /\ j.at = clock /\ j.data = MaxTime
    BY <1>5, FetchSourceKind
  <2>3. RequestIsRecent(j)
    BY <1>now, <2>2 DEF RequestIsRecent
  <2>4. \A u \in Threads : RequestIsRecent(job[u])'
    BY <2>1, <2>2, <2>3, RequestsStayRecent
  <2> QED
    BY <2>1, <2>4 DEF DataIsRecent, EntryIsRecent, ContextIsRecent, caches, history
<1>6. ASSUME NEW t \in Threads, NEW s \in Securities, GetEnrichment(t, s)
      PROVE  DataIsRecent'
  <2>0. PICK entry : entry = enrichment[s]
    OBVIOUS
  <2>1. UNCHANGED <<contexts, clock, served>>
    BY <1>6 DEF GetEnrichment
  <2>2. /\ job[t].pc = "lookup"
        /\ \A r \in Securities \ {s} : enrichment'[r] = enrichment[r]
        /\ \/ /\ entry.expires > job[t].at
              /\ enrichment'[s] = [entry EXCEPT !.turn = uses + 1]
              /\ \E j : LookedUp(t, j, Oldest(job[t].data, entry.data))
           \/ enrichment'[s] = NoEntry /\ \E j : LookedUp(t, j, job[t].data)
    BY <1>6, <2>0, GetEnrichmentKind
  <2>3. /\ entry \in Entry /\ entry.expires \in Nat /\ entry.data \in Nat
        /\ entry.expires <= entry.data + MaxCall + CacheTtl
    BY <2>0, BoundsAssumption DEF TypeOK, Entry, DataIsRecent, EntryIsRecent
  <2>4. EntryIsRecent(s)'
    <3>1. \/ enrichment'[s] = NoEntry
          \/ enrichment'[s].expires = entry.expires /\ enrichment'[s].data = entry.data
      BY <2>2, <2>3 DEF Entry
    <3> QED
      BY <1>now, <1>idle, <2>3, <3>1 DEF EntryIsRecent
  <2>5. \A r \in Securities : EntryIsRecent(r)'
    BY <2>2, <2>4 DEF DataIsRecent, EntryIsRecent
  <2>6. /\ clock <= job[t].at + MaxCall
        /\ job[t].at + 1 <= job[t].data + MaxCall + CacheTtl
        /\ job[t].at \in Nat /\ job[t].data \in Nat
    BY <1>jobs, <2>2 DEF RequestIsRecent, Timed, Open
  <2>7. PICK j, data : /\ LookedUp(t, j, data) /\ data \in Nat
                       /\ job[t].at + 1 <= data + MaxCall + CacheTtl
    BY <1>now, <2>2, <2>3, <2>6 DEF Oldest
  <2>8. RequestIsRecent(j)
    BY <1>now, <2>6, <2>7 DEF LookedUp, RequestIsRecent
  <2>9. \A u \in Threads : RequestIsRecent(job[u])'
    BY <2>1, <2>7, <2>8, RequestsStayRecent DEF LookedUp
  <2> QED
    BY <2>1, <2>5, <2>9 DEF DataIsRecent, ContextIsRecent
<1>7. ASSUME NEW t \in Threads, NEW j, NEW read \in Nat, NEW data \in Nat,
             clock' = clock, Stores(t, j, read, data), job[t].pc \in {"call", "received"},
             job[t].at <= read, job[t].at + 1 <= data + 2 * MaxCall + CacheTtl
      PROVE  \A u \in Threads : RequestIsRecent(job[u])'
  <2>1. clock <= job[t].at + MaxCall /\ job[t].at \in Nat
    BY <1>7, <1>jobs DEF RequestIsRecent, Timed, Open
  <2>2. RequestIsRecent(j)
    BY <1>now, <1>7, <2>1 DEF Stores, RequestIsRecent
  <2> QED
    BY <1>7, <2>2, RequestsStayRecent DEF Stores
<1>8. ASSUME NEW t \in Threads, Call(t)
      PROVE  DataIsRecent'
  <2>0. PICK data : data = Oldest(job[t].data, clock)
    OBVIOUS
  <2>1. job[t].pc = "call" /\ UNCHANGED <<records, caches, clock, requests, history>>
    BY <1>8 DEF Call
  <2>2. PICK j : Stores(t, j, clock, data)
    BY <1>8, <2>0, CallKind
  <2>3. /\ job[t].at <= clock /\ data \in Nat
        /\ job[t].at + 1 <= data + 2 * MaxCall + CacheTtl
    BY <1>now, <1>jobs, <2>0, <2>1 DEF RequestIsRecent, Oldest
  <2>4. \A u \in Threads : RequestIsRecent(job[u])'
    BY <1>now, <1>7, <2>1, <2>2, <2>3
  <2> QED
    BY <2>1, <2>4 DEF DataIsRecent, EntryIsRecent, ContextIsRecent, caches, history
<1>9. ASSUME NEW t \in Threads, NEW s \in Securities, SetEnrichment(t, s)
      PROVE  DataIsRecent'
  <2>0. PICK d, put : d = job[t].read /\ put = Stored(enrichment, s, d)
    OBVIOUS
  <2>1. UNCHANGED <<contexts, clock, served>>
    BY <1>9 DEF SetEnrichment
  <2>2. /\ job[t].pc = "received"
        /\ \A r \in Securities : enrichment'[r] \in {put[r], NoEntry}
        /\ \E j : Stores(t, j, d, job[t].data)
    BY <1>9, <2>0, SetEnrichmentKind
  <2>3. /\ job[t].at \in Nat /\ d \in Nat /\ job[t].at <= d /\ clock <= job[t].at + MaxCall
        /\ job[t].at + 1 <= job[t].data + 2 * MaxCall + CacheTtl /\ job[t].data \in Nat
    BY <1>jobs, <2>0, <2>2 DEF RequestIsRecent, Timed, Open
  <2>4. \A r \in Securities : put[r] \in {enrichment[r], NewEntry(d)}
    BY <2>0 DEF Stored, TypeOK
  <2>5. NewEntry(d).expires = clock + CacheTtl /\ NewEntry(d).data = d
    BY DEF NewEntry
  <2>6. \A r \in Securities : EntryIsRecent(r)'
    BY <1>now, <1>idle, <2>2, <2>3, <2>4, <2>5 DEF DataIsRecent, EntryIsRecent
  <2>7. \A u \in Threads : RequestIsRecent(job[u])'
    BY <1>7, <2>1, <2>2, <2>3
  <2> QED
    BY <2>1, <2>6, <2>7 DEF DataIsRecent, ContextIsRecent
<1>10. ASSUME NEW t \in Threads, SetContext(t)
       PROVE  DataIsRecent'
  <2> DEFINE j == job[t]
  <2>1. UNCHANGED <<enrichment, clock>> /\ j.pc = "taxonomy"
    BY <1>10 DEF SetContext
  <2>2. /\ \A c \in Contexts :
             \/ contexts'[c] \in {contexts[c], NoEntry}
             \/ contexts'[c].data = j.data /\ contexts'[c].expires = clock + CacheTtl
        /\ JobEnds(t) /\ served' = clock - j.data
    BY <1>10, SetContextKind
  <2>3. /\ j.at \in Nat /\ j.data \in Nat /\ clock <= j.at + MaxCall
        /\ j.at + 1 <= j.data + 3 * MaxCall + CacheTtl
    BY <1>jobs, <2>1 DEF RequestIsRecent, Timed, Open
  <2>4. /\ clock + CacheTtl + 1 <= j.data + 4 * MaxCall + 2 * CacheTtl
        /\ clock - j.data <= 2 * (CacheTtl - 1) + 5 * MaxCall
    BY <1>now, <2>3
  <2> HIDE DEF j
  <2>5. \A c \in Contexts : ContextIsRecent(c)'
    BY <1>now, <1>idle, <2>2, <2>4 DEF DataIsRecent, ContextIsRecent
  <2> QED
    BY <1>2, <2>1, <2>2, <2>4, <2>5 DEF DataIsRecent, EntryIsRecent
<1>11. CASE Tick
  <2>1. /\ clock' = clock + 1 /\ \A t \in Threads : ~Overdue(t)
        /\ UNCHANGED <<records, caches, job, requests, history>>
    BY <1>11 DEF Tick
  <2>2. ASSUME NEW t \in Threads PROVE RequestIsRecent(job[t])'
    BY <1>now, <1>jobs, <2>1 DEF RequestIsRecent, Overdue, Timed, Open
  <2> QED
    BY <2>1, <2>2 DEF DataIsRecent, EntryIsRecent, ContextIsRecent, caches, history
<1>12. CASE Restart
  <2>1. /\ \A t \in Threads : job'[t] = Idle
        /\ \A s \in Securities : enrichment'[s] = NoEntry
        /\ \A c \in Contexts : contexts'[c] = NoEntry
        /\ served' = served /\ clock' = clock
    BY <1>12 DEF Restart
  <2>2. \A t \in Threads : RequestIsRecent(job[t])'
    BY <1>idle, <2>1 DEF RequestIsRecent
  <2>3. \A s \in Securities : EntryIsRecent(s)'
    BY <1>now, <1>idle, <2>1 DEF EntryIsRecent
  <2>4. \A c \in Contexts : ContextIsRecent(c)'
    BY <1>now, <1>idle, <2>1 DEF ContextIsRecent
  <2> QED
    BY <2>1, <2>2, <2>3, <2>4 DEF DataIsRecent
<1>13. CASE UNCHANGED vars
  BY <1>13 DEF vars, caches, history, DataIsRecent, RequestIsRecent, EntryIsRecent,
               ContextIsRecent
<1> QED
  BY <1>1, <1>3, <1>4, <1>5, <1>6, <1>8, <1>9, <1>10, <1>11, <1>12, <1>13, Zenon DEF Next

\* What is served is no older than two lifetimes and five calls: the record was read in
\* the first and stored, found by lookups, kept through a call for what was missing and
\* one for the taxonomy, and found again in the context, whatever hits, slow calls and
\* restarts came between.
THEOREM ServedDataAlwaysRecent == Spec => []ServedDataIsRecent
<1> DEFINE Inv == CacheTtl > 0 => DataIsRecent
<1>1. Init => Inv
  <2> SUFFICES ASSUME Init, CacheTtl > 0 PROVE DataIsRecent
    OBVIOUS
  <2>1. CacheTtl \in Nat /\ MaxCall \in Nat
    BY TimesAssumption
  <2>2. /\ \A t \in Threads : job[t] = Idle
        /\ \A s \in Securities : enrichment[s] = NoEntry
        /\ \A c \in Contexts : contexts[c] = NoEntry
        /\ served = 0
    BY DEF Init
  <2>3. NoEntry.expires = 0 /\ NoEntry.data = 0 /\ RequestIsRecent(Idle)
    BY DEF NoEntry, RequestIsRecent, Idle, Timed, Open
  <2>4. \A t \in Threads : RequestIsRecent(job[t])
    BY <2>2, <2>3
  <2> QED
    BY <2>1, <2>2, <2>3, <2>4 DEF DataIsRecent, EntryIsRecent, ContextIsRecent
<1>2. TypeOK /\ JobsFit /\ CachesFit /\ Inv /\ [Next]_vars => Inv'
  <2> SUFFICES ASSUME TypeOK, JobsFit, CachesFit, CacheTtl > 0, DataIsRecent, [Next]_vars
               PROVE  DataIsRecent'
    BY Zenon
  <2> QED
    BY StepServesRecent
<1>3. Inv => ServedDataIsRecent
  BY DEF DataIsRecent, ServedDataIsRecent
<1> HIDE DEF Inv
<1> QED
  BY <1>1, <1>2, <1>3, Typed, PTL DEF Spec

-----------------------------------------------------------------------------
(* What a cache keeps.                                                     *)

\* A cached record is as it was last used, and of the unexpired ones the last used
\* are cached.
UseIsKept(s) ==
  /\ used[s].turn <= uses
  /\ enrichment[s].turn # 0 =>
       enrichment[s].turn = used[s].turn /\ enrichment[s].expires = used[s].expires
  /\ enrichment[s].turn = 0 => enrichment[s].expires = 0
  /\ used[s].expires > clock /\ Cardinality(After(used, s)) < MaxSize
       => enrichment[s].turn # 0

UsesAreKept == \A s \in Securities : UseIsKept(s)

\* Fewer come after an entry of a map than after that of another in which its turn is
\* the same and those of the others are no earlier.
LEMMA FewerAfter ==
  ASSUME NEW K, IsFiniteSet(K), NEW D, NEW E, NEW map \in [K -> D], NEW other \in [K -> E],
         \A k \in K : map[k].turn \in Nat /\ other[k].turn \in Nat,
         NEW r \in K, map[r].turn >= other[r].turn,
         \A k \in K \ {r} : map[k].turn <= other[k].turn
  PROVE  /\ Cardinality(After(map, r)) \in Nat /\ Cardinality(After(other, r)) \in Nat
         /\ Cardinality(After(map, r)) <= Cardinality(After(other, r))
<1>1. After(map, r) \subseteq After(other, r) /\ After(other, r) \subseteq K
  BY DEF After
<1>2. IsFiniteSet(After(other, r))
  BY <1>1, FS_Subset
<1> QED
  BY <1>1, <1>2, FS_Subset, FS_CardinalityType

LEMMA StepKeepsUses ==
  ASSUME TypeOK, JobsFit, CachesFit, UsesAreKept, [Next]_vars
  PROVE  UsesAreKept'
<1>now. clock \in Nat /\ uses \in Nat /\ MaxSize \in Nat \ {0}
  BY BoundsAssumption, SizesAssumption DEF TypeOK
<1>types. /\ enrichment \in [Securities -> Entry]
          /\ used \in [Securities -> [turn : Nat, expires : Nat]]
          /\ \A s \in Securities :
               /\ enrichment[s] \in Entry /\ enrichment[s].turn \in Nat
               /\ enrichment[s].expires \in Nat
               /\ used[s].turn \in Nat /\ used[s].expires \in Nat
  BY DEF TypeOK, Entry
<1>none. NoEntry.turn = 0 /\ NoEntry.expires = 0
  BY DEF NoEntry
<1>1. CASE UNCHANGED <<enrichment, used, uses, clock>>
  BY <1>1 DEF UsesAreKept, UseIsKept, After
<1>2. ASSUME NEW t \in Threads, GetContext(t) \/ SetContext(t)
      PROVE  UsesAreKept'
  <2>1. UNCHANGED <<enrichment, used, clock>> /\ (uses' = uses \/ uses' = uses + 1)
    BY <1>2 DEF GetContext, SetContext
  <2>2. ASSUME NEW s \in Securities PROVE UseIsKept(s)'
    <3>1. UseIsKept(s) /\ used[s].turn \in Nat
      BY <1>types DEF UsesAreKept
    <3>2. used[s].turn <= uses'
      BY <1>now, <2>1, <3>1 DEF UseIsKept
    <3>3. After(used, s)' = After(used, s)
      BY <2>1 DEF After
    <3> QED
      BY <2>1, <3>1, <3>2, <3>3 DEF UseIsKept
  <2> QED
    BY <2>2 DEF UsesAreKept
<1>3. ASSUME NEW t \in Threads, NEW s \in Securities, GetEnrichment(t, s)
      PROVE  UsesAreKept'
  <2> DEFINE entry == enrichment[s]
  <2>1. clock' = clock
    BY <1>3 DEF GetEnrichment
  <2>2. /\ \A r \in Securities \ {s} : enrichment'[r] = enrichment[r]
        /\ \/ /\ entry.expires > job[t].at
              /\ enrichment'[s] = [entry EXCEPT !.turn = uses + 1] /\ uses' = uses + 1
              /\ used' = [used EXCEPT ![s] = [turn |-> uses + 1, expires |-> used[s].expires]]
           \/ /\ entry.expires <= clock /\ enrichment'[s] = NoEntry
              /\ used' = used /\ uses' = uses
    BY <1>3, GetEnrichmentKind
  <2>3. CASE /\ entry.expires > job[t].at
             /\ enrichment'[s] = [entry EXCEPT !.turn = uses + 1] /\ uses' = uses + 1
             /\ used' = [used EXCEPT ![s] = [turn |-> uses + 1, expires |-> used[s].expires]]
    <3>1. /\ enrichment'[s].turn = uses + 1 /\ enrichment'[s].expires = entry.expires
          /\ uses' = uses + 1 /\ used'[s].turn = uses + 1
          /\ used'[s].expires = used[s].expires
          /\ used' \in [Securities -> [turn : Nat, expires : Nat]]
          /\ \A r \in Securities \ {s} : used'[r] = used[r]
      BY <1>now, <1>types, <2>2, <2>3 DEF Entry
    <3>2. entry.turn # 0 /\ entry.expires = used[s].expires
      <4>1. entry.expires # 0
        BY <1>types, <2>3 DEF TypeOK, Job
      <4> QED
        BY <4>1 DEF UsesAreKept, UseIsKept
    <3>3. UseIsKept(s)'
      BY <1>now, <3>1, <3>2 DEF UseIsKept
    <3>4. ASSUME NEW r \in Securities \ {s}
          PROVE  UseIsKept(r)'
      <4>1. /\ Cardinality(After(used, r)) \in Nat /\ Cardinality(After(used', r)) \in Nat
            /\ Cardinality(After(used, r)) <= Cardinality(After(used', r))
        <5>1. /\ \A k \in Securities : used[k].turn \in Nat /\ used'[k].turn \in Nat
              /\ used[r].turn >= used'[r].turn
              /\ \A k \in Securities \ {r} : used[k].turn <= used'[k].turn
          BY <1>now, <1>types, <3>1 DEF UsesAreKept, UseIsKept
        <5> HIDE DEF entry
        <5> QED
          BY <1>types, <3>1, <5>1, KeysAssumption, FewerAfter
      <4>2. Cardinality(After(used, r))' = Cardinality(After(used', r))
        BY DEF After
      <4>3. UseIsKept(r)
        BY DEF UsesAreKept
      <4>4. ASSUME used[r].expires > clock, Cardinality(After(used', r)) < MaxSize
            PROVE  enrichment[r].turn # 0
        <5>1. Cardinality(After(used, r)) < MaxSize
          BY <1>now, <4>1, <4>4
        <5> QED
          BY <4>3, <4>4, <5>1 DEF UseIsKept
      <4> QED
        BY <1>now, <1>types, <2>1, <2>2, <3>1, <4>2, <4>3, <4>4 DEF UseIsKept
    <3> QED
      BY <3>3, <3>4 DEF UsesAreKept
  <2>4. CASE /\ entry.expires <= clock /\ enrichment'[s] = NoEntry
             /\ used' = used /\ uses' = uses
    <3>1. enrichment[s].turn # 0 => used[s].expires <= clock
      BY <2>4 DEF UsesAreKept, UseIsKept
    <3>2. UseIsKept(s)'
      <4>1. used[s].expires > clock /\ Cardinality(After(used, s)) < MaxSize => FALSE
        BY <1>now, <1>types, <3>1 DEF UsesAreKept, UseIsKept
      <4> QED
        BY <1>none, <2>1, <2>4, <4>1 DEF UsesAreKept, UseIsKept, After
    <3>3. ASSUME NEW r \in Securities \ {s} PROVE UseIsKept(r)'
      BY <2>1, <2>2, <2>4 DEF UsesAreKept, UseIsKept, After
    <3> QED
      BY <3>2, <3>3 DEF UsesAreKept
  <2> QED
    BY <2>2, <2>3, <2>4
<1>4. ASSUME NEW t \in Threads, NEW s \in Securities, SetEnrichment(t, s)
      PROVE  UsesAreKept'
  <2>1. PICK put : put = Stored(enrichment, s, job[t].read)
    OBVIOUS
  <2>2. /\ clock' = clock /\ uses' = uses + 1
        /\ put \in [Securities -> Entry]
        /\ \A r \in Securities : enrichment'[r] \in {put[r], NoEntry}
        /\ \A r \in Securities : Cardinality(After(put, r)) < MaxSize => enrichment'[r] = put[r]
        /\ used' = [used EXCEPT ![s] = [turn |-> uses + 1, expires |-> clock + CacheTtl]]
    BY <1>4, <2>1, SetEnrichmentKind DEF SetEnrichment
  <2>3. /\ put[s].turn = uses + 1 /\ put[s].expires = clock + CacheTtl
        /\ \A r \in Securities \ {s} : put[r] = enrichment[r]
    BY <1>types, <2>1, <2>2 DEF Stored, NewEntry
  <2>4. /\ used'[s].turn = uses + 1 /\ used'[s].expires = clock + CacheTtl
        /\ \A r \in Securities \ {s} : used'[r] = used[r]
        /\ used' \in [Securities -> [turn : Nat, expires : Nat]]
    BY <1>now, <1>types, <2>2, TimesAssumption
  <2>5. \A r \in Securities :
          /\ put[r].turn \in Nat /\ used'[r].turn \in Nat /\ put[r].turn <= used'[r].turn
          /\ used'[r].turn <= uses + 1
    BY <1>now, <1>types, <2>3, <2>4 DEF UsesAreKept, UseIsKept
  <2>6. ASSUME NEW r \in Securities PROVE UseIsKept(r)'
    <3>1. put[r].turn # 0 => put[r].turn = used'[r].turn /\ put[r].expires = used'[r].expires
      BY <1>now, <2>3, <2>4 DEF UsesAreKept, UseIsKept
    <3>2. put[r].turn = 0 => put[r].expires = 0
      BY <1>now, <2>3, <2>4 DEF UsesAreKept, UseIsKept
    <3>3. ASSUME used'[r].expires > clock, Cardinality(After(used', r)) < MaxSize
          PROVE  put[r].turn # 0
      <4>1. CASE r = s
        BY <1>now, <2>3, <4>1
      <4>2. CASE r # s
        <5>1. Cardinality(After(used, r)) <= Cardinality(After(used', r))
              /\ Cardinality(After(used, r)) \in Nat /\ Cardinality(After(used', r)) \in Nat
          <6>1. /\ \A k \in Securities : used[k].turn \in Nat /\ used'[k].turn \in Nat
                /\ used[r].turn >= used'[r].turn
                /\ \A k \in Securities \ {r} : used[k].turn <= used'[k].turn
            BY <1>now, <1>types, <2>4, <4>2 DEF UsesAreKept, UseIsKept
          <6> QED
            BY <1>types, <2>4, <6>1, KeysAssumption, FewerAfter
        <5> QED
          BY <1>now, <2>3, <2>4, <3>3, <4>2, <5>1 DEF UsesAreKept, UseIsKept
      <4> QED
        BY <4>1, <4>2
    <3>4. ASSUME put[r].turn = used'[r].turn, Cardinality(After(used', r)) < MaxSize
          PROVE  enrichment'[r] = put[r]
      <4>1. /\ Cardinality(After(put, r)) <= Cardinality(After(used', r))
            /\ Cardinality(After(put, r)) \in Nat /\ Cardinality(After(used', r)) \in Nat
        <5>1. /\ \A k \in Securities : put[k].turn \in Nat /\ used'[k].turn \in Nat
              /\ put[r].turn >= used'[r].turn
              /\ \A k \in Securities \ {r} : put[k].turn <= used'[k].turn
          BY <2>5, <3>4
        <5>2. put \in [Securities -> Entry]
          BY <2>2
        <5> QED
          BY <2>4, <5>1, <5>2, KeysAssumption, FewerAfter
      <4> QED
        BY <1>now, <2>2, <3>4, <4>1
    <3>5. Cardinality(After(used, r))' = Cardinality(After(used', r))
      BY DEF After
    <3> QED
      BY <1>none, <2>2, <2>5, <3>1, <3>2, <3>3, <3>4, <3>5 DEF UseIsKept
  <2> QED
    BY <2>6 DEF UsesAreKept
<1>5. CASE Tick
  <2>1. clock' = clock + 1 /\ UNCHANGED <<enrichment, used, uses>>
    BY <1>5 DEF Tick, caches, history
  <2>2. ASSUME NEW s \in Securities PROVE UseIsKept(s)'
    <3>1. UseIsKept(s) /\ (used[s].expires > clock + 1 => used[s].expires > clock)
      BY <1>now, <1>types DEF UsesAreKept
    <3>2. After(used, s)' = After(used, s)
      BY <2>1 DEF After
    <3> QED
      BY <2>1, <3>1, <3>2 DEF UseIsKept
  <2> QED
    BY <2>2 DEF UsesAreKept
<1>6. CASE Restart
  <2>1. /\ clock' = clock /\ uses' = 0
        /\ \A s \in Securities : enrichment'[s] = NoEntry /\ used'[s] = NoUse
    BY <1>6 DEF Restart
  <2> QED
    BY <1>now, <1>none, <2>1 DEF UsesAreKept, UseIsKept, NoUse
<1>7. ASSUME NEW t \in Threads,
             \/ StartIntake(t) \/ StartResolve(t) \/ Record(t)
             \/ FetchSource(t) \/ Call(t) \/ Fail(t)
      PROVE  UNCHANGED <<enrichment, used, uses, clock>>
  BY <1>7 DEF StartIntake, StartResolve, Record, FetchSource, Call, Fail, caches, history
<1>8. UNCHANGED vars => UNCHANGED <<enrichment, used, uses, clock>>
  BY DEF vars, caches, history
<1> QED
  BY <1>1, <1>2, <1>3, <1>4, <1>5, <1>6, <1>7, <1>8, Zenon DEF Next

\* However the threads' lookups and stores interleave, a store drops an expired
\* record or the least recently used one.
THEOREM RecentlyUsedAlwaysStays == Spec => []RecentlyUsedStays
<1>1. Init => UsesAreKept
  <2> SUFFICES ASSUME Init PROVE UsesAreKept
    OBVIOUS
  <2>1. /\ clock = 0 /\ uses = 0
        /\ \A s \in Securities : enrichment[s] = NoEntry /\ used[s] = NoUse
    BY DEF Init
  <2> QED
    BY <2>1 DEF UsesAreKept, UseIsKept, NoUse, NoEntry
<1>2. UsesAreKept => RecentlyUsedStays
  BY DEF UsesAreKept, UseIsKept, RecentlyUsedStays
<1> QED
  BY <1>1, <1>2, Typed, StepKeepsUses, PTL DEF Spec

-----------------------------------------------------------------------------
(* What the ledger keeps.                                                  *)

\* The intakes accepted after the i-th request, up to the n-th.
AcceptedAfter(log, i, n) == {m \in (i + 1)..n : log[m].accepted}

\* A record is that of an accepted request, in its turn.
RecordIsOfReceipt(k) ==
  ledger[k].turn # 0 =>
    /\ ledger[k].turn \in DOMAIN receipts
    /\ receipts[ledger[k].turn].accepted
    /\ receipts[ledger[k].turn].key = k
    /\ ledger[k].expires = receipts[ledger[k].turn].at + ReplayTtl

\* An accepted request that no later one has outlived, and that few accepted ones
\* follow, is in the ledger.
ReceiptIsKept(i) ==
  /\ receipts[i].accepted
  /\ \A m \in (i + 1)..Len(receipts) : receipts[m].at < receipts[i].at + ReplayTtl
  /\ Cardinality(AcceptedAfter(receipts, i, Len(receipts))) < MaxRecords
  => ledger[receipts[i].key].turn = i

LedgerIsOfReceipts ==
  /\ intakes = Len(receipts)
  /\ \A k \in Keys : RecordIsOfReceipt(k)
  /\ \A i \in DOMAIN receipts : ReceiptIsKept(i)

\* What is counted is finite.
LEMMA AcceptedCounted ==
  ASSUME NEW log, NEW i \in Nat, NEW n \in Nat
  PROVE  /\ IsFiniteSet(AcceptedAfter(log, i, n))
         /\ Cardinality(AcceptedAfter(log, i, n)) \in Nat
<1>1. IsFiniteSet((i + 1)..n) /\ AcceptedAfter(log, i, n) \subseteq (i + 1)..n
  BY FS_Interval DEF AcceptedAfter
<1> QED
  BY <1>1, FS_Subset, FS_CardinalityType

\* Every record of the map is that of an accepted request among the first n.
RecordsAreOf(map, log, n) ==
  \A l \in Keys : map[l].turn # 0 =>
    map[l].turn \in 1..n /\ log[map[l].turn].accepted /\ log[map[l].turn].key = l

\* As many records at most come after one of the ledger as intakes were accepted
\* after its request.
LEMMA FewerRecordsAfter ==
  ASSUME NEW map \in [Keys -> Intake], NEW log, NEW n \in Nat, NEW k \in Keys,
         RecordsAreOf(map, log, n)
  PROVE  /\ Cardinality(After(map, k)) \in Nat
         /\ Cardinality(After(map, k)) <= Cardinality(AcceptedAfter(log, map[k].turn, n))
<1> DEFINE S == After(map, k)
           T == AcceptedAfter(log, map[k].turn, n)
           f == [l \in S |-> map[l].turn]
<1>1. \A l \in Keys : map[l].turn \in Nat
  BY DEF Intake
<1>2. S \subseteq Keys /\ \A l \in S : map[l].turn > map[k].turn
  BY DEF After
<1>3. IsFiniteSet(T)
  BY <1>1, AcceptedCounted
<1>4. \A l \in S : map[l].turn \in T
  BY <1>1, <1>2 DEF AcceptedAfter, RecordsAreOf
<1>5. \A l, m \in S : map[l].turn = map[m].turn => l = m
  BY <1>1, <1>2 DEF RecordsAreOf
<1>6. f \in Injection(S, T)
  BY <1>4, <1>5 DEF Injection, IsInjective
<1>7. Cardinality(S) <= Cardinality(T)
  BY <1>3, <1>6, FS_Injection
<1>8. Cardinality(S) \in Nat
  BY <1>2, KeysAssumption, FS_Subset, FS_CardinalityType
<1> QED
  BY <1>7, <1>8

\* The j-th request is accepted under the key of the i-th, and the forgetting that
\* explains it.
AcceptedAgain(log, i, j) ==
  i < j /\ log[i].accepted /\ log[j].accepted /\ log[i].key = log[j].key

Forgotten(log, i, j) ==
  \/ \E m \in (i + 1)..j : log[m].at >= log[i].at + ReplayTtl
  \/ Cardinality(AcceptedAfter(log, i, j - 1)) >= MaxRecords

\* An intake records its request, and keeps of the others what it should.
LEMMA RecordKeeps ==
  ASSUME TypeOK, JobsFit, LedgerIsOfReceipts, ForgetsByAgeOrNumber,
         NEW t \in Threads, Record(t)
  PROVE  LedgerIsOfReceipts' /\ ForgetsByAgeOrNumber'
<1>0. PICK k, now, kept, put, accepted :
        /\ k = job[t].key /\ now = job[t].at
        /\ kept = purge_expired(now) /\ put = Inserted(job[t])
        /\ accepted = (kept[k].turn = 0)
  OBVIOUS
<1> DEFINE n == Len(receipts) + 1
           log == receipts'
<1>1. /\ k \in Keys /\ now \in 0..MaxTime /\ accepted \in BOOLEAN
      /\ kept \in [Keys -> Intake] /\ put \in [Keys -> Intake]
      /\ ~accepted => ledger' = kept
      /\ accepted =>
           \A l \in Keys :
             /\ ledger'[l] \in {put[l], NoRecord}
             /\ Cardinality(After(put, l)) < MaxRecords => ledger'[l] = put[l]
      /\ ledger' \in [Keys -> Intake]
      /\ intakes' = intakes + 1
      /\ receipts' = Append(receipts, [key |-> k, at |-> now, accepted |-> accepted])
  BY <1>0, RecordKind
<1>2. /\ receipts \in Seq([key : Keys, at : 0..MaxTime, accepted : BOOLEAN])
      /\ ledger \in [Keys -> Intake] /\ intakes = n - 1
      /\ MaxRecords \in Nat \ {0} /\ ReplayTtl \in Nat \ {0}
  BY SizesAssumption, TimesAssumption DEF TypeOK, LedgerIsOfReceipts
<1>3. /\ n \in Nat \ {0} /\ Len(log) = n /\ DOMAIN receipts = 1..(n - 1) /\ DOMAIN log = 1..n
      /\ log[n].key = k /\ log[n].at = now /\ (log[n].accepted <=> accepted)
      /\ \A i \in 1..(n - 1) : log[i] = receipts[i]
  BY <1>1, <1>2
<1>4. \A i \in 1..(n - 1) : receipts[i].key \in Keys /\ receipts[i].at \in 0..MaxTime
  <2>1. \A i \in DOMAIN receipts :
          receipts[i] \in [key : Keys, at : 0..MaxTime, accepted : BOOLEAN]
    <3>1. PICK R : R = [key : Keys, at : 0..MaxTime, accepted : BOOLEAN]
      OBVIOUS
    <3>2. receipts \in Seq(R)
      BY <1>2, <3>1
    <3>3. \A i \in DOMAIN receipts : receipts[i] \in R
      BY <3>2
    <3> QED
      BY <3>1, <3>3
  <2> QED
    BY <1>3, <2>1
<1>5. \A l \in Keys : /\ ledger[l].expires > now => kept[l] = ledger[l]
                      /\ kept[l] \in {ledger[l], NoRecord}
  BY <1>0 DEF purge_expired
<1>6. /\ \A l \in Keys \ {k} : put[l] = kept[l]
      /\ put[k].turn = n /\ put[k].expires = now + ReplayTtl
  BY <1>0, <1>1, <1>2 DEF Inserted, NewRecord
<1>7. NoRecord.turn = 0
  BY DEF NoRecord
<1>8. \A l \in Keys : ledger[l].turn \in Nat /\ kept[l].turn \in Nat /\ put[l].turn \in Nat
  BY <1>1, <1>2 DEF Intake
<1>again. accepted <=> kept[k].turn = 0
  BY <1>0
<1> HIDE DEF n, log
\* What was to be kept of the past, and is not outlived by this request, is kept.
<1>9. ASSUME NEW i \in 1..(n - 1), receipts[i].accepted,
             \A m \in (i + 1)..n : log[m].at < log[i].at + ReplayTtl,
             Cardinality(AcceptedAfter(receipts, i, n - 1)) < MaxRecords
      PROVE  kept[receipts[i].key].turn = i
  <2>1. \A m \in (i + 1)..(n - 1) : receipts[m].at < receipts[i].at + ReplayTtl
    BY <1>3, <1>9
  <2>2. now < receipts[i].at + ReplayTtl
    BY <1>3, <1>9
  <2>3. Len(receipts) = n - 1 /\ i \in DOMAIN receipts
    BY <1>3 DEF n
  <2>4. ledger[receipts[i].key].turn = i
    BY <1>9, <2>1, <2>3 DEF LedgerIsOfReceipts, ReceiptIsKept
  <2>5. ledger[receipts[i].key].expires = receipts[i].at + ReplayTtl
    BY <1>4, <2>4 DEF LedgerIsOfReceipts, RecordIsOfReceipt
  <2> QED
    BY <1>1, <1>4, <1>5, <2>2, <2>4, <2>5
<1>10. ASSUME NEW i \in 1..(n - 1)
       PROVE  AcceptedAfter(log, i, n - 1) = AcceptedAfter(receipts, i, n - 1)
  BY <1>3 DEF AcceptedAfter
<1>11. ForgetsByAgeOrNumber'
  <2>1. \A i, j \in 1..(n - 1) : AcceptedAgain(receipts, i, j) => Forgotten(receipts, i, j)
    BY <1>3 DEF ForgetsByAgeOrNumber, AcceptedAgain, Forgotten, AcceptedAfter
  <2>2. ASSUME NEW i \in 1..n, NEW j \in 1..n, AcceptedAgain(log, i, j)
        PROVE  Forgotten(log, i, j)
    <3>1. i < j /\ i \in 1..(n - 1) /\ log[i] = receipts[i]
      BY <1>3, <2>2 DEF AcceptedAgain
    <3>2. CASE j # n
      <4>1. j \in 1..(n - 1) /\ log[j] = receipts[j]
        BY <1>3, <3>2
      <4>2. \A m \in (i + 1)..j : log[m] = receipts[m]
        BY <1>3, <3>1, <4>1
      <4>3. AcceptedAfter(log, i, j - 1) = AcceptedAfter(receipts, i, j - 1)
        BY <3>1, <4>1, <4>2 DEF AcceptedAfter
      <4>4. Forgotten(receipts, i, j)
        BY <2>1, <2>2, <3>1, <4>1 DEF AcceptedAgain
      <4> QED
        BY <3>1, <4>2, <4>3, <4>4 DEF Forgotten
    <3>3. CASE j = n
      <4>1. receipts[i].accepted /\ receipts[i].key = k /\ accepted
        BY <1>3, <2>2, <3>1, <3>3 DEF AcceptedAgain
      <4>2. kept[k].turn # i
        BY <1>again, <3>1, <4>1
      <4>3. ASSUME ~Forgotten(log, i, n)
            PROVE  FALSE
        <5>1. \A m \in (i + 1)..n : log[m].at \in Nat /\ log[i].at \in Nat
          BY <1>1, <1>3, <1>4, <3>1, BoundsAssumption
        <5>2. Cardinality(AcceptedAfter(receipts, i, n - 1)) \in Nat
          BY <1>3, <3>1, AcceptedCounted
        <5>3. \A m \in (i + 1)..n : log[m].at < log[i].at + ReplayTtl
          BY <1>2, <4>3, <5>1 DEF Forgotten
        <5>4. Cardinality(AcceptedAfter(receipts, i, n - 1)) < MaxRecords
          BY <1>2, <1>10, <3>1, <4>3, <5>2 DEF Forgotten
        <5> QED
          BY <1>9, <3>1, <4>1, <4>2, <5>3, <5>4
      <4> QED
        BY <3>3, <4>3
    <3> QED
      BY <3>2, <3>3
  <2> QED
    BY <1>3, <2>2 DEF ForgetsByAgeOrNumber, AcceptedAgain, Forgotten, AcceptedAfter, log
<1>12. ASSUME NEW l \in Keys, \/ ledger'[l] = kept[l]
                              \/ accepted /\ ledger'[l] = put[l]
                              \/ ledger'[l] = NoRecord
       PROVE  RecordIsOfReceipt(l)'
  <2>1. CASE ledger'[l].turn # 0 /\ ledger'[l] = ledger[l]
    <3>1. /\ ledger[l].turn \in DOMAIN receipts /\ receipts[ledger[l].turn].accepted
          /\ receipts[ledger[l].turn].key = l
          /\ ledger[l].expires = receipts[ledger[l].turn].at + ReplayTtl
      BY <2>1 DEF LedgerIsOfReceipts, RecordIsOfReceipt
    <3>2. log[ledger[l].turn] = receipts[ledger[l].turn] /\ ledger[l].turn \in DOMAIN log
      BY <1>3, <3>1
    <3> QED
      BY <2>1, <3>1, <3>2 DEF RecordIsOfReceipt, log
  <2>2. CASE l = k /\ accepted /\ ledger'[l] = put[l]
    <3>1. n \in DOMAIN log
      BY <1>3
    <3> QED
      BY <1>3, <1>6, <2>2, <3>1 DEF RecordIsOfReceipt, log
  <2>3. CASE ledger'[l].turn = 0
    BY <2>3 DEF RecordIsOfReceipt
  <2> QED
    BY <1>5, <1>6, <1>7, <1>12, <2>1, <2>2, <2>3
<1>13. \A l \in Keys : RecordIsOfReceipt(l)'
  BY <1>1, <1>12
<1>14. ASSUME NEW i \in 1..n, log[i].accepted,
              \A m \in (i + 1)..n : log[m].at < log[i].at + ReplayTtl,
              Cardinality(AcceptedAfter(log, i, n)) < MaxRecords
       PROVE  ledger'[log[i].key].turn = i
  <2>1. CASE ~accepted
    <3>1. i \in 1..(n - 1) /\ log[i] = receipts[i]
      BY <1>3, <1>14, <2>1
    <3>2. AcceptedAfter(log, i, n) = AcceptedAfter(receipts, i, n - 1)
      BY <1>3, <2>1, <3>1 DEF AcceptedAfter
    <3> QED
      BY <1>1, <1>9, <1>14, <2>1, <3>1, <3>2
  <2>2. CASE accepted
    <3>1. put[log[i].key].turn = i /\ log[i].key \in Keys
      <4>1. CASE i = n
        BY <1>1, <1>3, <1>6, <4>1
      <4>2. CASE i # n
        <5>1. i \in 1..(n - 1) /\ log[i] = receipts[i]
          BY <1>3, <4>2
        <5>2. AcceptedAfter(receipts, i, n - 1) \subseteq AcceptedAfter(log, i, n)
          BY <1>3, <5>1 DEF AcceptedAfter
        <5>3. /\ Cardinality(AcceptedAfter(receipts, i, n - 1)) \in Nat
              /\ Cardinality(AcceptedAfter(log, i, n)) \in Nat
              /\ Cardinality(AcceptedAfter(receipts, i, n - 1))
                   <= Cardinality(AcceptedAfter(log, i, n))
          BY <1>3, <5>1, <5>2, AcceptedCounted, FS_Subset
        <5>4. kept[receipts[i].key].turn = i
          BY <1>2, <1>9, <1>14, <5>1, <5>3
        <5>5. receipts[i].key # k
          BY <1>again, <2>2, <5>1, <5>4
        <5> QED
          BY <1>4, <1>6, <5>1, <5>4, <5>5
      <4> QED
        BY <4>1, <4>2
    <3>2. RecordsAreOf(put, log, n)
      <4>1. ASSUME NEW l \in Keys \ {k}, put[l].turn # 0
            PROVE  put[l].turn \in 1..n /\ log[put[l].turn].accepted /\ log[put[l].turn].key = l
        <5>1. put[l] = ledger[l]
          BY <1>5, <1>6, <1>7, <4>1
        <5>2. /\ ledger[l].turn \in 1..(n - 1) /\ receipts[ledger[l].turn].accepted
              /\ receipts[ledger[l].turn].key = l
          BY <1>3, <4>1, <5>1 DEF LedgerIsOfReceipts, RecordIsOfReceipt
        <5> QED
          BY <1>3, <5>1, <5>2
      <4> QED
        BY <1>3, <1>6, <2>2, <4>1 DEF RecordsAreOf
    <3>3. /\ Cardinality(After(put, log[i].key)) \in Nat
          /\ Cardinality(After(put, log[i].key)) <= Cardinality(AcceptedAfter(log, i, n))
      BY <1>1, <1>3, <3>1, <3>2, FewerRecordsAfter
    <3>4. Cardinality(AcceptedAfter(log, i, n)) \in Nat
      BY <1>3, AcceptedCounted
    <3> QED
      BY <1>1, <1>2, <1>14, <2>2, <3>1, <3>3, <3>4
  <2> QED
    BY <2>1, <2>2
<1>15. \A i \in DOMAIN log : ReceiptIsKept(i)'
  BY <1>3, <1>14 DEF ReceiptIsKept, log
<1>16. intakes' = Len(receipts')
  BY <1>1, <1>2, <1>3 DEF log
<1> QED
  BY <1>11, <1>13, <1>15, <1>16 DEF LedgerIsOfReceipts, log

\* A process accepts an intake again only when the first has been outlived by some
\* request since, or MaxRecords others were accepted.
THEOREM ForgettingIsExplained == Spec => []ForgetsByAgeOrNumber
<1> DEFINE Inv == LedgerIsOfReceipts /\ ForgetsByAgeOrNumber
<1>1. ASSUME receipts = <<>>, intakes = 0, \A k \in Keys : ledger[k] = NoRecord
      PROVE  Inv
  BY <1>1 DEF LedgerIsOfReceipts, RecordIsOfReceipt, NoRecord, ForgetsByAgeOrNumber
<1>2. Init => Inv
  BY <1>1 DEF Init
<1>3. TypeOK /\ JobsFit /\ CachesFit /\ Inv /\ [Next]_vars => Inv'
  <2> SUFFICES ASSUME TypeOK, JobsFit, CachesFit, Inv, [Next]_vars
               PROVE  Inv'
    OBVIOUS
  <2>1. CASE UNCHANGED <<records, receipts>>
    BY <2>1 DEF records, LedgerIsOfReceipts, RecordIsOfReceipt, ReceiptIsKept, ForgetsByAgeOrNumber
  <2>2. ASSUME NEW t \in Threads, Record(t)
        PROVE  Inv'
    BY <2>2, RecordKeeps
  <2>3. CASE Restart
    <3>1. receipts' = <<>> /\ intakes' = 0 /\ \A k \in Keys : ledger'[k] = NoRecord
      BY <2>3 DEF Restart
    <3> QED
      BY <3>1 DEF LedgerIsOfReceipts, RecordIsOfReceipt, NoRecord, ForgetsByAgeOrNumber
  <2>4. ASSUME NEW t \in Threads,
               \/ StartIntake(t) \/ StartResolve(t) \/ GetContext(t) \/ FetchSource(t)
               \/ \E s \in Securities : GetEnrichment(t, s) \/ SetEnrichment(t, s)
               \/ Call(t) \/ SetContext(t) \/ Fail(t)
        PROVE  UNCHANGED <<records, receipts>>
    BY <2>4 DEF StartIntake, StartResolve, GetContext, FetchSource, GetEnrichment, Call, SetEnrichment,
                SetContext, Fail, history
  <2>5. Tick \/ UNCHANGED vars => UNCHANGED <<records, receipts>>
    BY DEF Tick, vars, history
  <2> HIDE DEF Inv
  <2> QED
    BY <2>1, <2>2, <2>3, <2>4, <2>5, Zenon DEF Next
<1>4. Inv => ForgetsByAgeOrNumber
  OBVIOUS
<1> HIDE DEF Inv
<1> QED
  BY <1>2, <1>3, <1>4, Typed, PTL DEF Spec
=============================================================================
