------------------------- MODULE PolicyCatalogProofs -------------------------
(***************************************************************************)
(* Theorems about PolicyCatalog, for any number of threads, versions,      *)
(* actors and keys, and whatever the bounds.                               *)
(*                                                                         *)
(* What is proved of the stored log and states is proved of every copy as  *)
(* well, torn or stale: a save makes a whole copy the stored state.        *)
(***************************************************************************)
EXTENDS PolicyCatalog, SequenceTheorems, TLAPS

States == [Versions -> ActivationStates]
Logs == [Versions -> Seq(Event)]
KeyTables == [Keys -> KeyRow \cup {None}]

-----------------------------------------------------------------------------
(* The inductive invariant, of a state given by its parts.                 *)

Prefix(a, b) == \A i \in DOMAIN a : i \in DOMAIN b /\ b[i] = a[i]

Grows(old, new) == \A v \in Versions : Prefix(old[v], new[v])

\* The activation at i follows a validation, the last of which is somebody else's
\* where the pack asks for it.
FourEyes(events, i) ==
  \E j \in DOMAIN events :
    /\ j < i /\ events[j].type = "VALIDATED"
    /\ \A k \in DOMAIN events : k < i /\ events[k].type = "VALIDATED" => k <= j
    /\ MakerChecker => events[j].actor # events[i].actor

AllChecked(lg) ==
  \A v \in Versions : \A i \in DOMAIN lg[v] :
    lg[v][i].type = "ACTIVATED" => FourEyes(lg[v], i)

\* The pack came with version b in another state than DRAFT.
Explained(b, st, lg) ==
  \A v \in Versions : v # b /\ st[v] # "DRAFT" => HasActivation(lg[v])

After(st, r) == IF r.type = "ACTIVATED" THEN Activated(st, r.version) ELSE st

Built == {"loaded", "counted"}
Complete == {"keys", "loaded", "counted"}

\* A copy without an event of its own: if it is still that of the stored log, and
\* nobody overtook it, its states are the stored ones.
Current(j, st, lg) ==
  /\ Grows(j.copy.log, lg)
  /\ ~j.overtaken /\ Grows(lg, j.copy.log) => j.copy.states = st

\* A copy with the event of its request at the end of the log of one version.
Ahead(j, st, lg) ==
  LET v == j.request.version
      n == Len(j.copy.log[v]) IN
  /\ n \in DOMAIN j.copy.log[v]
  /\ j.copy.log[v][n] = EventOf(j.request)
  /\ \A u \in Versions : \A i \in DOMAIN j.copy.log[u] :
       u # v \/ i # n => i \in DOMAIN lg[u] /\ lg[u][i] = j.copy.log[u][i]
  /\ ~j.overtaken /\ Grows(lg, j.copy.log) /\ n \notin DOMAIN lg[v]
       => j.copy.states = After(st, j.request)

JobSound(j, b, st, lg) ==
  /\ j.pc = "events" =>
       Explained(b, j.copy.states, lg) /\ (~j.overtaken => j.copy.states = st)
  /\ j.pc \in Complete => Explained(b, j.copy.states, j.copy.log) /\ AllChecked(j.copy.log)
  /\ j.pc = "keys" => Current(j, st, lg)
  /\ j.pc \in Built => Current(j, st, lg) \/ Ahead(j, st, lg)
  /\ j.pc = "counted" /\ ~j.overtaken /\ 1 \in Versions => Len(lg[1]) <= Len(j.copy.log[1])

JobTyped(j) ==
  /\ j \in Job
  /\ j.pc # "idle" => j.request # None

\* A request is one of those started, and no event of it is stored before it ends.
TimesSound(jobs, lg, n) ==
  /\ \A v \in Versions : \A i \in DOMAIN lg[v] : lg[v][i].at <= n
  /\ \A t \in Threads : jobs[t].pc # "idle" =>
       /\ jobs[t].request.at <= n
       /\ \A v \in Versions : \A i \in DOMAIN lg[v] : lg[v][i].at # jobs[t].request.at
       /\ \A u \in Threads : u # t /\ jobs[u].pc # "idle" =>
            jobs[u].request.at # jobs[t].request.at

Inv(b) ==
  /\ TypeOK
  /\ AllChecked(log)
  /\ Explained(b, states, log)
  /\ TimesSound(job, log, requests)
  /\ \A t \in Threads : JobSound(job[t], b, states, log)

IInv == \E b \in Versions : Inv(b)

-----------------------------------------------------------------------------
(* Lemmas about logs.                                                      *)

LEMMA SeqDomain ==
  ASSUME NEW a \in Seq(Event)
  PROVE  Len(a) \in Nat /\ DOMAIN a = 1..Len(a) /\ \A i \in DOMAIN a : a[i] \in Event
  BY LenProperties, ElementOfSeq

LEMMA AppendAddsOne ==
  ASSUME NEW a \in Seq(Event), NEW e \in Event
  PROVE  /\ Append(a, e) \in Seq(Event) /\ Len(Append(a, e)) = Len(a) + 1
         /\ DOMAIN Append(a, e) = 1..(Len(a) + 1)
         /\ Append(a, e)[Len(a) + 1] = e
         /\ \A i \in 1..Len(a) : Append(a, e)[i] = a[i]
<1>1. /\ Append(a, e) \in Seq(Event) /\ Len(Append(a, e)) = Len(a) + 1
      /\ Append(a, e)[Len(a) + 1] = e
      /\ \A i \in 1..Len(a) : Append(a, e)[i] = a[i]
  BY AppendProperties
<1> QED
  BY <1>1, SeqDomain

LEMMA GrowsThrough ==
  ASSUME NEW a, NEW b, NEW c, Grows(a, b), Grows(b, c)
  PROVE  Grows(a, c)
  BY DEF Grows, Prefix

LEMMA ActivationStays ==
  ASSUME NEW b, NEW st, NEW l, NEW m, Grows(l, m), Explained(b, st, l)
  PROVE  Explained(b, st, m)
<1> SUFFICES ASSUME NEW v \in Versions, v # b, st[v] # "DRAFT"
             PROVE  HasActivation(m[v])
  BY DEF Explained
<1>1. PICK i \in DOMAIN l[v] : l[v][i].type = "ACTIVATED"
  BY DEF Explained, HasActivation
<1> QED
  BY <1>1 DEF Grows, Prefix, HasActivation

LEMMA FourEyesIsTheCheck ==
  ASSUME NEW events \in Seq(Event), NEW i \in DOMAIN events, FourEyes(events, i)
  PROVE  \E j \in latest_validation(SubSeq(events, 1, i - 1)) :
           MakerChecker => events[j].actor # events[i].actor
<1> DEFINE front == SubSeq(events, 1, i - 1)
<1>1. /\ Len(events) \in Nat /\ DOMAIN events = 1..Len(events) /\ i \in 1..Len(events)
  BY SeqDomain
<1>2. /\ front \in Seq(Event) /\ Len(front) = i - 1
      /\ \A k \in 1..(i - 1) : front[k] = events[k]
  BY <1>1, SubSeqProperties
<1>3. DOMAIN front = 1..(i - 1)
  BY <1>2, SeqDomain
<1> HIDE DEF front
<1>4. PICK j \in DOMAIN events :
        /\ j < i /\ events[j].type = "VALIDATED"
        /\ \A k \in DOMAIN events : k < i /\ events[k].type = "VALIDATED" => k <= j
        /\ MakerChecker => events[j].actor # events[i].actor
  BY DEF FourEyes
<1>5. j \in DOMAIN front /\ front[j].type = "VALIDATED"
  BY <1>1, <1>2, <1>3, <1>4
<1>6. ASSUME NEW k \in DOMAIN front, front[k].type = "VALIDATED"
      PROVE  k <= j
  BY <1>1, <1>2, <1>3, <1>4, <1>6
<1>7. j \in latest_validation(front)
  BY <1>5, <1>6 DEF latest_validation
<1> QED
  BY <1>4, <1>7 DEF front

\* The check made before an activation is appended.
LEMMA AppendedIsChecked ==
  ASSUME NEW events \in Seq(Event), NEW e \in Event,
         NEW i \in latest_validation(events), MakerChecker => events[i].actor # e.actor
  PROVE  FourEyes(Append(events, e), Len(events) + 1)
<1> DEFINE new == Append(events, e)
           n == Len(events)
<1>1. n \in Nat /\ DOMAIN events = 1..n
  BY SeqDomain
<1>2. new[n + 1] = e /\ \A k \in 1..n : new[k] = events[k]
  BY AppendAddsOne
<1>3. DOMAIN new = 1..(n + 1)
  BY AppendAddsOne
<1>4. /\ i \in DOMAIN events /\ events[i].type = "VALIDATED"
      /\ \A k \in DOMAIN events : events[k].type = "VALIDATED" => k <= i
  BY DEF latest_validation
<1> HIDE DEF new
<1>5. i \in DOMAIN new /\ i < n + 1 /\ new[i] = events[i]
  BY <1>1, <1>2, <1>3, <1>4
<1>6. ASSUME NEW k \in DOMAIN new, k < n + 1, new[k].type = "VALIDATED"
      PROVE  k <= i
  BY <1>1, <1>2, <1>3, <1>4, <1>6
<1>7. FourEyes(new, n + 1)
  BY <1>2, <1>4, <1>5, <1>6 DEF FourEyes
<1> QED
  BY <1>7 DEF new

\* An activation checked in a log is checked in the log with one event more.
LEMMA CheckedStaysChecked ==
  ASSUME NEW events \in Seq(Event), NEW e \in Event, NEW i \in DOMAIN events,
         FourEyes(events, i)
  PROVE  FourEyes(Append(events, e), i)
<1> DEFINE new == Append(events, e)
           n == Len(events)
<1>1. n \in Nat /\ DOMAIN events = 1..n
  BY SeqDomain
<1>2. \A k \in 1..n : new[k] = events[k]
  BY AppendAddsOne
<1>3. DOMAIN new = 1..(n + 1)
  BY AppendAddsOne
<1> HIDE DEF new
<1>4. PICK j \in DOMAIN events :
        /\ j < i /\ events[j].type = "VALIDATED"
        /\ \A k \in DOMAIN events : k < i /\ events[k].type = "VALIDATED" => k <= j
        /\ MakerChecker => events[j].actor # events[i].actor
  BY DEF FourEyes
<1>5. ASSUME NEW k \in DOMAIN new, k < i, new[k].type = "VALIDATED"
      PROVE  k <= j
  BY <1>1, <1>2, <1>3, <1>4, <1>5
<1>6. j \in DOMAIN new /\ new[j] = events[j] /\ new[i] = events[i]
  BY <1>1, <1>2, <1>3
<1>7. FourEyes(new, i)
  BY <1>4, <1>5, <1>6 DEF FourEyes
<1> QED
  BY <1>7 DEF new

-----------------------------------------------------------------------------
(* The change of a copy.                                                   *)

LEMMA EventTyped ==
  ASSUME NEW r \in Request
  PROVE  EventOf(r) \in Event
  BY DEF EventOf, Event, Request

LEMMA KeyTyped ==
  ASSUME NEW r \in Request, NEW i \in Nat
  PROVE  KeyRowOf(r, i) \in KeyRow
  BY DEF KeyRowOf, KeyRow, Request

LEMMA ActivatedTyped ==
  ASSUME NEW st \in States, NEW v \in Versions
  PROVE  /\ Activated(st, v) \in States
         /\ \A u \in Versions : u # v /\ Activated(st, v)[u] # "DRAFT" => st[u] # "DRAFT"
<1>1. \A u \in Versions : st[u] \in ActivationStates
  BY DEF States
<1>2. Activated(st, v) \in States
  BY <1>1 DEF Activated, States, ActivationStates
<1> QED
  BY <1>2 DEF Activated

\* What the states and the log of a copy become under a command.
CommandedLog(copy, r) == [copy.log EXCEPT ![r.version] = Append(@, EventOf(r))]

LEMMA CommandedParts ==
  ASSUME NEW copy \in Stores, NEW r \in Request
  PROVE  /\ Commanded(copy, r) \in Stores
         /\ Commanded(copy, r).states = After(copy.states, r)
         /\ Commanded(copy, r).log = CommandedLog(copy, r)
<1> DEFINE v == r.version
           ks == [copy.keys EXCEPT ![r.key] = KeyRowOf(r, Len(copy.log[v]) + 1)]
<1>1. v \in Versions /\ r.key \in Keys
  BY DEF Request
<1>2. copy.states \in States /\ copy.log \in Logs /\ copy.keys \in KeyTables
  BY DEF Stores, States, Logs, KeyTables
<1>3. copy.log[v] \in Seq(Event) /\ Len(copy.log[v]) \in Nat
  BY <1>1, <1>2, SeqDomain DEF Logs
<1>4. After(copy.states, r) \in States
  BY <1>1, <1>2, ActivatedTyped DEF After
<1>5. Append(copy.log[v], EventOf(r)) \in Seq(Event)
  BY <1>3, EventTyped, AppendProperties
<1>6. CommandedLog(copy, r) \in Logs
  BY <1>2, <1>5 DEF CommandedLog, Logs
<1>7. ks \in KeyTables
  <2>1. KeyRowOf(r, Len(copy.log[v]) + 1) \in KeyRow
    BY <1>3, KeyTyped
  <2> QED
    BY <1>2, <2>1 DEF KeyTables
<1> HIDE DEF ks
<1>8. Commanded(copy, r)
        = [states |-> After(copy.states, r), log |-> CommandedLog(copy, r), keys |-> ks]
  BY DEF Commanded, After, CommandedLog, ks
<1> QED
  BY <1>4, <1>6, <1>7, <1>8 DEF Stores, States, Logs, KeyTables

LEMMA CommandedIsSound ==
  ASSUME NEW b, NEW copy \in Stores, NEW r \in Request, MayCommand(copy, r),
         Explained(b, copy.states, copy.log), AllChecked(copy.log)
  PROVE  /\ Explained(b, After(copy.states, r), CommandedLog(copy, r))
         /\ AllChecked(CommandedLog(copy, r))
<1> DEFINE v == r.version
           old == copy.log[v]
           events == Append(old, EventOf(r))
           new == CommandedLog(copy, r)
<1>1. v \in Versions /\ copy.states \in States /\ copy.log \in Logs
  BY DEF Request, Stores, States, Logs
<1>2. old \in Seq(Event) /\ Len(old) \in Nat /\ DOMAIN old = 1..Len(old)
  BY <1>1, SeqDomain DEF Logs
<1>3. EventOf(r) \in Event /\ EventOf(r).type = r.type /\ EventOf(r).actor = r.actor
  BY EventTyped DEF EventOf
<1>4. /\ events[Len(old) + 1] = EventOf(r)
      /\ \A i \in 1..Len(old) : events[i] = old[i]
  BY <1>2, <1>3, AppendAddsOne
<1>5. DOMAIN events = 1..(Len(old) + 1)
  BY <1>2, <1>3, AppendAddsOne
<1>6. new[v] = events /\ \A u \in Versions : u # v => new[u] = copy.log[u]
  BY <1>1 DEF CommandedLog, Logs
<1>7. ASSUME r.type = "ACTIVATED"
      PROVE  FourEyes(events, Len(old) + 1)
  BY <1>2, <1>3, <1>7, AppendedIsChecked DEF MayCommand
<1>8. ASSUME NEW i \in DOMAIN old, FourEyes(old, i)
      PROVE  FourEyes(events, i)
  BY <1>2, <1>3, <1>8, CheckedStaysChecked
<1> HIDE DEF events, new
<1>9. ASSUME NEW i \in DOMAIN events, events[i].type = "ACTIVATED"
      PROVE  FourEyes(events, i)
  <2>1. CASE i = Len(old) + 1
    BY <1>3, <1>4, <1>7, <1>9, <2>1
  <2>2. CASE i \in DOMAIN old
    <3>1. old[i].type = "ACTIVATED"
      BY <1>2, <1>4, <1>9, <2>2
    <3> QED
      BY <1>1, <1>8, <2>2, <3>1 DEF AllChecked
  <2> QED
    BY <1>2, <1>5, <2>1, <2>2
<1>10. AllChecked(new)
  BY <1>6, <1>9 DEF AllChecked
<1>11. ASSUME NEW u \in Versions, u # b, After(copy.states, r)[u] # "DRAFT"
       PROVE  HasActivation(new[u])
  <2>1. CASE copy.states[u] # "DRAFT"
    <3>1. PICK i \in DOMAIN copy.log[u] : copy.log[u][i].type = "ACTIVATED"
      BY <1>11, <2>1 DEF Explained, HasActivation
    <3>2. i \in DOMAIN new[u] /\ new[u][i] = copy.log[u][i]
      <4>1. CASE u = v
        <5>1. i \in DOMAIN old
          BY <4>1
        <5>2. i \in DOMAIN events /\ events[i] = old[i]
          BY <1>2, <1>4, <1>5, <5>1
        <5> QED
          BY <1>6, <4>1, <5>2
      <4> QED
        BY <1>6, <4>1
    <3> QED
      BY <3>1, <3>2 DEF HasActivation
  <2>2. CASE copy.states[u] = "DRAFT"
    <3>1. u = v /\ r.type = "ACTIVATED"
      BY <1>1, <1>11, <2>2, ActivatedTyped DEF After
    <3>2. Len(old) + 1 \in DOMAIN new[v] /\ new[v][Len(old) + 1].type = "ACTIVATED"
      BY <1>2, <1>3, <1>4, <1>5, <1>6, <3>1
    <3> QED
      BY <3>1, <3>2 DEF HasActivation
  <2> QED
    BY <2>1, <2>2
<1> QED
  BY <1>10, <1>11 DEF Explained, new

\* A copy on which a command has been carried out is ahead of the log by its event.
LEMMA CommandedIsAhead ==
  ASSUME NEW j \in Job, j.request \in Request, NEW loaded \in Stores, NEW st, NEW lg,
         loaded.states = j.copy.states, loaded.log = j.copy.log, Current(j, st, lg),
         NEW k, k.copy = Commanded(loaded, j.request), k.request = j.request,
         k.overtaken = j.overtaken
  PROVE  Ahead(k, st, lg)
<1> DEFINE r == j.request
           v == r.version
           old == j.copy.log[v]
           events == Append(old, EventOf(r))
           n == Len(old) + 1
<1>1. v \in Versions /\ loaded.log \in Logs
  BY DEF Request, Stores, Logs
<1>2. old \in Seq(Event) /\ Len(old) \in Nat /\ DOMAIN old = 1..Len(old)
  BY <1>1, SeqDomain DEF Logs
<1>3. /\ Len(events) = n /\ events[n] = EventOf(r)
      /\ \A i \in 1..Len(old) : events[i] = old[i]
  BY <1>2, EventTyped, AppendAddsOne
<1>4. DOMAIN events = 1..n
  BY <1>2, EventTyped, AppendAddsOne
<1>5. /\ k.copy.states = After(j.copy.states, r)
      /\ k.copy.log[v] = events
      /\ \A u \in Versions : u # v => k.copy.log[u] = j.copy.log[u]
  <2>1. k.copy.states = After(loaded.states, r) /\ k.copy.log = CommandedLog(loaded, r)
    BY CommandedParts
  <2> QED
    BY <1>1, <2>1 DEF CommandedLog, Logs
<1> HIDE DEF events
<1>6. Grows(j.copy.log, lg)
  BY DEF Current
<1>7. ASSUME NEW u \in Versions, NEW i \in DOMAIN k.copy.log[u], u # v \/ i # n
      PROVE  i \in DOMAIN lg[u] /\ lg[u][i] = k.copy.log[u][i]
  <2>1. i \in DOMAIN j.copy.log[u] /\ k.copy.log[u][i] = j.copy.log[u][i]
    <3>1. CASE u = v
      <4>1. i \in DOMAIN events /\ i # n
        BY <1>5, <1>7, <3>1
      <4>2. i \in DOMAIN old /\ events[i] = old[i]
        BY <1>2, <1>3, <1>4, <4>1
      <4> QED
        BY <1>5, <3>1, <4>2
    <3> QED
      BY <1>5, <3>1
  <2> QED
    BY <1>6, <2>1 DEF Grows, Prefix
<1>8. ASSUME ~k.overtaken, Grows(lg, k.copy.log), n \notin DOMAIN lg[v]
      PROVE  k.copy.states = After(st, r)
  <2>1. Grows(lg, j.copy.log)
    <3> SUFFICES ASSUME NEW u \in Versions, NEW i \in DOMAIN lg[u]
                 PROVE  i \in DOMAIN j.copy.log[u] /\ j.copy.log[u][i] = lg[u][i]
      BY DEF Grows, Prefix
    <3>1. i \in DOMAIN k.copy.log[u] /\ k.copy.log[u][i] = lg[u][i] /\ (u # v \/ i # n)
      BY <1>8 DEF Grows, Prefix
    <3>2. CASE u = v
      <4>1. i \in DOMAIN events /\ i # n /\ events[i] = lg[u][i]
        BY <1>5, <3>1, <3>2
      <4>2. i \in DOMAIN old /\ events[i] = old[i]
        BY <1>2, <1>3, <1>4, <4>1
      <4> QED
        BY <3>2, <4>1, <4>2
    <3> QED
      BY <1>5, <3>1, <3>2
  <2> QED
    BY <1>5, <1>8, <2>1 DEF Current
<1>9. n \in DOMAIN k.copy.log[v] /\ k.copy.log[v][n] = EventOf(r) /\ n = Len(k.copy.log[v])
  BY <1>2, <1>3, <1>4, <1>5
<1> QED
  BY <1>7, <1>8, <1>9 DEF Ahead

-----------------------------------------------------------------------------
(* Lemmas about the threads.                                               *)

LEMMA IdleTyped ==
  JobTyped(Idle) /\ Idle.pc = "idle"
<1>1. <<>> \in Seq(Event)
  OBVIOUS
<1>2. [states |-> Drafts, log |-> NoEvents, keys |-> NoKeys] \in Stores
  BY <1>1 DEF Drafts, NoEvents, NoKeys, Stores, ActivationStates
<1> QED
  BY <1>2 DEF Idle, Job, JobTyped

\* A job between requests, or before its load, is bound to nothing.
LEMMA UnloadedIsSound ==
  ASSUME NEW j, j.pc \in {"idle", "load"}, NEW b, NEW st, NEW lg
  PROVE  JobSound(j, b, st, lg)
  BY DEF JobSound, Complete, Built

LEMMA JobAt ==
  ASSUME TypeOK, NEW t \in Threads
  PROVE  JobTyped(job[t]) /\ (job[t].pc # "idle" => job[t].request \in Request)
<1>1. JobTyped(job[t])
  BY DEF TypeOK, JobTyped
<1> QED
  BY <1>1 DEF JobTyped, Job

\* A step of a thread at work on its copy alone.
LEMMA OneJobMoves ==
  ASSUME NEW b, Inv(b), NEW t \in Threads, job[t].pc # "idle",
         job' = [job EXCEPT ![t] = job'[t]], JobTyped(job'[t]),
         job'[t].pc # "idle" => job'[t].request = job[t].request,
         JobSound(job'[t], b, states, log),
         UNCHANGED <<states, log, keys, requests>>
  PROVE  Inv(b)'
<1>1. \A u \in Threads : u # t => job'[u] = job[u]
  BY DEF Inv, TypeOK
<1>2. TypeOK'
  <2>1. job' \in [Threads -> Job]
    BY DEF JobTyped, Inv, TypeOK
  <2> QED
    BY <1>1, <2>1 DEF JobTyped, Inv, TypeOK
<1>3. \A u \in Threads : JobSound(job'[u], b, states, log)
  BY <1>1 DEF Inv
<1>4. TimesSound(job', log, requests)
  BY <1>1 DEF TimesSound, Inv
<1> QED
  BY <1>2, <1>3, <1>4 DEF Inv

-----------------------------------------------------------------------------
(* The invariant is inductive.                                             *)

THEOREM InitSound == Init => IInv
<1> SUFFICES ASSUME Init
             PROVE  IInv
  OBVIOUS
<1>1. PICK b \in Versions, s \in {"DRAFT", "ACTIVE"} : states = [Drafts EXCEPT ![b] = s]
  BY DEF Init
<1>2. /\ log = NoEvents /\ keys = NoKeys /\ job = [t \in Threads |-> Idle] /\ requests = 0
  BY DEF Init
<1>3. <<>> \in Seq(Event)
  OBVIOUS
<1>4. TypeOK
  BY <1>1, <1>2, <1>3, IdleTyped
  DEF TypeOK, NoEvents, NoKeys, Drafts, ActivationStates, JobTyped
<1>5. AllChecked(log)
  BY <1>2 DEF AllChecked, NoEvents
<1>6. Explained(b, states, log)
  BY <1>1 DEF Explained, Drafts
<1>7. TimesSound(job, log, requests)
  BY <1>2, IdleTyped DEF TimesSound, NoEvents
<1>8. \A t \in Threads : JobSound(job[t], b, states, log)
  <2>1. JobSound(Idle, b, states, log)
    BY IdleTyped, UnloadedIsSound
  <2> QED
    BY <1>2, <2>1
<1> QED
  BY <1>4, <1>5, <1>6, <1>7, <1>8 DEF IInv, Inv

LEMMA StartSound ==
  ASSUME NEW b, Inv(b), NEW t \in Threads, Start(t)
  PROVE  Inv(b)'
<1>1. PICK type \in Types, v \in Versions, a \in Actors, k \in Keys :
        job' = [job EXCEPT ![t] = [Idle EXCEPT !.pc = "load",
                 !.request = [type |-> type, version |-> v, actor |-> a, key |-> k,
                              at |-> requests + 1]]]
  BY DEF Start
<1> DEFINE r == [type |-> type, version |-> v, actor |-> a, key |-> k, at |-> requests + 1]
           j == [Idle EXCEPT !.pc = "load", !.request = r]
<1>2. job'[t] = j /\ \A u \in Threads : u # t => job'[u] = job[u]
  BY <1>1 DEF Inv, TypeOK
<1>3. /\ requests \in Nat /\ requests + 1 \in Nat /\ requests' = requests + 1
      /\ UNCHANGED <<states, log, keys>>
  BY DEF Start, Inv, TypeOK
<1>4. r \in Request /\ r.at = requests + 1
  BY <1>3 DEF Request
<1>5. r # None
  BY <1>4, RequestAssumption
<1>6. job' \in [Threads -> Job] <=> j \in Job
  BY <1>1, <1>2 DEF Inv, TypeOK
<1> HIDE DEF r
<1>7. JobTyped(j) /\ j.pc = "load" /\ j.request = r
  BY <1>4, <1>5, IdleTyped DEF JobTyped, Job, Idle
<1> HIDE DEF j
<1>8. TypeOK'
  BY <1>2, <1>3, <1>6, <1>7 DEF JobTyped, Inv, TypeOK
<1>9. TimesSound(job', log, requests')
  <2>1. \A u \in Threads : u # t /\ job[u].pc # "idle" => job[u].request.at \in Nat
    BY JobAt DEF Inv, Request
  <2>2. \A w \in Versions : \A i \in DOMAIN log[w] : log[w][i].at \in Nat
    <3>1. \A w \in Versions : \A i \in DOMAIN log[w] : log[w][i] \in Event
      BY SeqDomain DEF Inv, TypeOK
    <3> QED
      BY <3>1 DEF Event
  <2>3. TimesSound(job, log, requests)
    BY DEF Inv
  <2>4. \A w \in Versions : \A i \in DOMAIN log[w] :
          log[w][i].at <= requests' /\ log[w][i].at # r.at
    BY <1>3, <1>4, <2>2, <2>3 DEF TimesSound
  <2>5. \A u \in Threads : u # t /\ job[u].pc # "idle" =>
          job[u].request.at <= requests' /\ job[u].request.at # r.at
    BY <1>3, <1>4, <2>1, <2>3 DEF TimesSound
  <2>6. r.at <= requests'
    BY <1>3, <1>4
  <2> QED
    BY <1>2, <1>7, <2>3, <2>4, <2>5, <2>6 DEF TimesSound
<1>10. \A u \in Threads : JobSound(job'[u], b, states, log)
  BY <1>2, <1>7, UnloadedIsSound DEF Inv
<1> QED
  BY <1>3, <1>8, <1>9, <1>10 DEF Inv

LEMMA FailSound ==
  ASSUME NEW b, Inv(b), NEW t \in Threads, Fail(t)
  PROVE  Inv(b)'
<1>1. /\ job'[t] = Idle /\ job' = [job EXCEPT ![t] = job'[t]] /\ job[t].pc # "idle"
      /\ UNCHANGED <<states, log, keys, requests>>
  BY DEF Fail, Inv, TypeOK
<1>2. JobSound(job'[t], b, states, log)
  BY <1>1, IdleTyped, UnloadedIsSound
<1> QED
  BY <1>1, <1>2, IdleTyped, OneJobMoves

LEMMA LoadDefinitionsSound ==
  ASSUME NEW b, Inv(b), NEW t \in Threads, LoadDefinitions(t)
  PROVE  Inv(b)'
<1> DEFINE j == job[t]
           copy == [j.copy EXCEPT !.states = states]
           new == [j EXCEPT !.pc = "events", !.copy = copy]
<1>1. /\ j.pc = "load" /\ UNCHANGED <<states, log, keys, requests>>
      /\ job' = [job EXCEPT ![t].pc = "events", ![t].copy.states = states]
  BY DEF LoadDefinitions
<1>2. j \in Job /\ j.request # None /\ states \in States
  BY <1>1, JobAt DEF Inv, JobTyped, TypeOK, States
<1>3. job'[t] = new /\ job' = [job EXCEPT ![t] = job'[t]]
  BY <1>1 DEF Inv, TypeOK
<1>4. Explained(b, states, log)
  BY DEF Inv
<1> HIDE DEF j
<1>5. copy \in Stores /\ copy.states = states
  BY <1>2 DEF Job, Stores, States
<1> HIDE DEF copy
<1>6. new \in Job /\ new.pc = "events" /\ new.request = j.request /\ new.copy = copy
  BY <1>2, <1>5 DEF Job
<1> HIDE DEF new
<1>7. JobTyped(new)
  BY <1>2, <1>6 DEF JobTyped
<1>8. JobSound(new, b, states, log)
  BY <1>4, <1>5, <1>6 DEF JobSound, Complete, Built
<1> QED
  BY <1>1, <1>3, <1>6, <1>7, <1>8, OneJobMoves DEF j

LEMMA LoadEventsSound ==
  ASSUME NEW b, Inv(b), NEW t \in Threads, LoadEvents(t)
  PROVE  Inv(b)'
<1> DEFINE j == job[t]
           copy == [j.copy EXCEPT !.log = log]
           new == [j EXCEPT !.pc = "keys", !.copy = copy]
<1>1. /\ j.pc = "events" /\ UNCHANGED <<states, log, keys, requests>>
      /\ job' = [job EXCEPT ![t].pc = "keys", ![t].copy.log = log]
  BY DEF LoadEvents
<1>2. j \in Job /\ j.request # None /\ log \in Logs
  BY <1>1, JobAt DEF Inv, JobTyped, TypeOK, Logs
<1>3. job'[t] = new /\ job' = [job EXCEPT ![t] = job'[t]]
  BY <1>1 DEF Inv, TypeOK
<1>4. JobSound(j, b, states, log) /\ AllChecked(log)
  BY DEF Inv
<1> HIDE DEF j
<1>5. copy \in Stores /\ copy.states = j.copy.states /\ copy.log = log
  BY <1>2 DEF Job, Stores, Logs
<1> HIDE DEF copy
<1>6. /\ new \in Job /\ new.pc = "keys" /\ new.request = j.request /\ new.copy = copy
      /\ new.overtaken = j.overtaken
  BY <1>2, <1>5 DEF Job
<1> HIDE DEF new
<1>7. JobTyped(new)
  BY <1>2, <1>6 DEF JobTyped
<1>8. Current(new, states, log)
  BY <1>1, <1>4, <1>5, <1>6 DEF Current, Grows, Prefix, JobSound
<1>9. JobSound(new, b, states, log)
  BY <1>1, <1>4, <1>5, <1>6, <1>8 DEF JobSound, Complete, Built
<1> QED
  BY <1>1, <1>3, <1>6, <1>7, <1>9, OneJobMoves DEF j

LEMMA LoadKeysSound ==
  ASSUME NEW b, Inv(b), NEW t \in Threads, LoadKeys(t)
  PROVE  Inv(b)'
<1> DEFINE j == job[t]
           r == j.request
           loaded == [j.copy EXCEPT !.keys = keys]
           copy == IF Replays(loaded, r) THEN loaded ELSE Commanded(loaded, r)
           new == [j EXCEPT !.pc = "loaded", !.copy = copy]
<1>1. /\ j.pc = "keys" /\ UNCHANGED <<states, log, keys, requests>>
      /\ job' = [job EXCEPT ![t].pc = "loaded", ![t].copy = copy]
      /\ Replays(loaded, r) \/ MayCommand(loaded, r)
  BY DEF LoadKeys
<1>2. j \in Job /\ r # None /\ r \in Request /\ keys \in KeyTables
  BY <1>1, JobAt DEF Inv, JobTyped, TypeOK, KeyTables
<1>3. JobSound(j, b, states, log)
  BY DEF Inv
<1>4. job'[t] = new /\ job' = [job EXCEPT ![t] = job'[t]]
  BY <1>1 DEF Inv, TypeOK
<1> HIDE DEF j
<1>5. loaded \in Stores /\ loaded.states = j.copy.states /\ loaded.log = j.copy.log
  BY <1>2 DEF Job, Stores, KeyTables
<1>6. /\ Explained(b, loaded.states, loaded.log) /\ AllChecked(loaded.log)
      /\ Current(j, states, log)
  BY <1>1, <1>3, <1>5 DEF JobSound, Complete
<1> HIDE DEF loaded
<1>7. /\ copy \in Stores
      /\ Explained(b, copy.states, copy.log) /\ AllChecked(copy.log)
      /\ copy = loaded \/ copy = Commanded(loaded, r)
  <2>1. CASE Replays(loaded, r)
    BY <1>5, <1>6, <2>1
  <2>2. CASE ~Replays(loaded, r)
    BY <1>1, <1>2, <1>5, <1>6, <2>2, CommandedParts, CommandedIsSound
  <2> QED
    BY <2>1, <2>2
<1> HIDE DEF copy
<1>8. /\ new \in Job /\ new.pc = "loaded" /\ new.request = r /\ new.copy = copy
      /\ new.overtaken = j.overtaken
  BY <1>2, <1>7 DEF Job
<1> HIDE DEF new
<1>9. JobTyped(new)
  BY <1>2, <1>8 DEF JobTyped
<1>10. Current(new, states, log) \/ Ahead(new, states, log)
  <2>1. CASE copy = loaded
    BY <1>5, <1>6, <1>8, <2>1 DEF Current
  <2>2. CASE copy = Commanded(loaded, r)
    BY <1>2, <1>5, <1>6, <1>8, <2>2, CommandedIsAhead
  <2> QED
    BY <1>7, <2>1, <2>2
<1>11. JobSound(new, b, states, log)
  BY <1>7, <1>8, <1>10 DEF JobSound, Complete, Built
<1> QED
  BY <1>1, <1>4, <1>8, <1>9, <1>11, OneJobMoves DEF j

LEMMA CountEventsSound ==
  ASSUME NEW b, Inv(b), NEW t \in Threads, CountEvents(t)
  PROVE  Inv(b)'
<1> DEFINE j == job[t]
           new == [j EXCEPT !.pc = "counted"]
<1>1. /\ j.pc = "loaded" /\ UNCHANGED <<states, log, keys, requests>>
      /\ job' = [job EXCEPT ![t].pc = "counted"] /\ Len(log[1]) <= Len(j.copy.log[1])
  BY DEF CountEvents, CountAllows
<1>2. j \in Job /\ j.request # None
  BY <1>1, JobAt DEF Inv, JobTyped
<1>3. JobSound(j, b, states, log)
  BY DEF Inv
<1>4. job'[t] = new /\ job' = [job EXCEPT ![t] = job'[t]]
  BY <1>1 DEF Inv, TypeOK
<1> HIDE DEF j
<1>5. /\ new \in Job /\ new.pc = "counted" /\ new.request = j.request /\ new.copy = j.copy
      /\ new.overtaken = j.overtaken
  BY <1>2 DEF Job
<1> HIDE DEF new
<1>6. JobTyped(new)
  BY <1>2, <1>5 DEF JobTyped
<1>7. Current(new, states, log) \/ Ahead(new, states, log)
  BY <1>1, <1>3, <1>5 DEF JobSound, Built, Current, Ahead
<1>8. JobSound(new, b, states, log)
  BY <1>1, <1>3, <1>5, <1>7 DEF JobSound, Complete, Built
<1> QED
  BY <1>1, <1>4, <1>5, <1>6, <1>8, OneJobMoves DEF j

\* What a save writes: of each version the stored log or that of the copy.
LEMMA SaveGrows ==
  ASSUME NEW b, Inv(b), NEW t \in Threads, Save(t)
  PROVE  /\ log' \in Logs
         /\ Grows(log, log') /\ Grows(job[t].copy.log, log')
         /\ \A v \in Versions :
              log'[v] = IF Len(job[t].copy.log[v]) > Len(log[v]) THEN job[t].copy.log[v]
                                                                 ELSE log[v]
<1> DEFINE copy == job[t].copy
<1>1. /\ \A v \in Versions : \A i \in DOMAIN copy.log[v] \cap DOMAIN log[v] :
            copy.log[v][i] = log[v][i]
      /\ log' = [v \in Versions |-> IF Len(copy.log[v]) > Len(log[v]) THEN copy.log[v]
                                                                       ELSE log[v]]
  BY DEF Save, StoreEvents
<1>2. copy.log \in Logs /\ log \in Logs
  BY JobAt DEF Inv, TypeOK, JobTyped, Job, Stores, Logs
<1> HIDE DEF copy
<1>3. ASSUME NEW v \in Versions
      PROVE  Prefix(log[v], log'[v]) /\ Prefix(copy.log[v], log'[v])
  <2>1. /\ Len(log[v]) \in Nat /\ DOMAIN log[v] = 1..Len(log[v])
        /\ Len(copy.log[v]) \in Nat /\ DOMAIN copy.log[v] = 1..Len(copy.log[v])
    BY <1>2, SeqDomain DEF Logs
  <2>2. CASE Len(copy.log[v]) > Len(log[v])
    BY <1>1, <2>1, <2>2 DEF Prefix
  <2>3. CASE ~(Len(copy.log[v]) > Len(log[v]))
    BY <1>1, <2>1, <2>3 DEF Prefix
  <2> QED
    BY <2>2, <2>3
<1>4. log' \in Logs
  BY <1>1, <1>2 DEF Logs
<1> QED
  BY <1>1, <1>3, <1>4 DEF Grows, copy

\* The save of a copy that nobody overtook is an atomic command or changes nothing.
LEMMA SaveIsAtomic ==
  ASSUME NEW b, Inv(b), NEW t \in Threads, Save(t), ~job[t].overtaken
  PROVE  \/ states' = states
         \/ states' = After(states, job[t].request) /\ ~Grows(log', log)
<1> DEFINE j == job[t]
           copy == j.copy
           r == j.request
<1>1. /\ j.pc = "counted" /\ states' = copy.states
      /\ \A v \in 2..Last : Len(log[v]) <= Len(copy.log[v])
      /\ \A v \in Versions : \A i \in DOMAIN copy.log[v] \cap DOMAIN log[v] :
            copy.log[v][i] = log[v][i]
  BY DEF Save, DefinitionsAreStored, CountAllows, StoreEvents
<1>2. JobSound(j, b, states, log)
  BY DEF Inv
<1>3. copy.log \in Logs /\ log \in Logs /\ r \in Request
  BY <1>1, JobAt DEF Inv, TypeOK, JobTyped, Job, Stores, Logs
<1>4. TimesSound(job, log, requests)
  BY DEF Inv
<1>5. \A v \in Versions : log'[v] = IF Len(copy.log[v]) > Len(log[v]) THEN copy.log[v]
                                                                       ELSE log[v]
  BY SaveGrows
<1> HIDE DEF copy
<1>6. \A v \in Versions : Len(log[v]) <= Len(copy.log[v])
  <2>1. 1 \in Versions => Len(log[1]) <= Len(copy.log[1])
    BY <1>1, <1>2 DEF JobSound, copy
  <2>2. \A v \in Versions : v = 1 \/ v \in 2..Last
    BY BoundsAssumption DEF Versions
  <2> QED
    BY <1>1, <2>1, <2>2
<1>7. ASSUME NEW v \in Versions
      PROVE  /\ Len(log[v]) \in Nat /\ DOMAIN log[v] = 1..Len(log[v])
             /\ Len(copy.log[v]) \in Nat /\ DOMAIN copy.log[v] = 1..Len(copy.log[v])
  BY <1>3, SeqDomain DEF Logs
<1>8. Grows(log, copy.log)
  <2> SUFFICES ASSUME NEW v \in Versions, NEW i \in DOMAIN log[v]
               PROVE  i \in DOMAIN copy.log[v] /\ copy.log[v][i] = log[v][i]
    BY DEF Grows, Prefix
  <2>1. i \in DOMAIN copy.log[v]
    BY <1>6, <1>7
  <2> QED
    BY <1>1, <2>1
<1>9. CASE Current(j, states, log)
  BY <1>1, <1>8, <1>9 DEF Current, copy
<1>10. CASE Ahead(j, states, log)
  <2> DEFINE v == r.version
             n == Len(copy.log[v])
  <2>1. v \in Versions
    BY <1>3 DEF Request
  <2>2. n \in DOMAIN copy.log[v] /\ copy.log[v][n] = EventOf(r)
    BY <1>10 DEF Ahead, copy
  <2>3. n \notin DOMAIN log[v]
    <3> SUFFICES ASSUME n \in DOMAIN log[v]
                 PROVE  FALSE
      OBVIOUS
    <3>1. log[v][n].at = r.at
      BY <1>1, <2>1, <2>2 DEF EventOf
    <3>2. log[v][n].at # r.at
      BY <1>1, <1>4, <2>1 DEF TimesSound
    <3> QED
      BY <3>1, <3>2
  <2>4. copy.states = After(states, r)
    BY <1>8, <1>10, <2>3 DEF Ahead, copy
  <2>5. n \in DOMAIN log'[v]
    BY <1>5, <1>7, <2>1, <2>2, <2>3
  <2> QED
    BY <1>1, <2>1, <2>3, <2>4, <2>5 DEF Grows, Prefix
<1> QED
  BY <1>1, <1>2, <1>9, <1>10 DEF JobSound, Built

\* What a save leaves of the jobs of the other threads.
LEMMA OvertakenIsSound ==
  ASSUME NEW j, JobTyped(j), NEW saver, saver.overtaken \in BOOLEAN, NEW b, NEW st, NEW now,
         NEW l, NEW m, Grows(l, m), ~saver.overtaken => now = st \/ ~Grows(m, l),
         JobSound(j, b, st, l)
  PROVE  /\ JobTyped(Overtaken(j, saver)) /\ JobSound(Overtaken(j, saver), b, now, m)
         /\ Overtaken(j, saver).pc = j.pc /\ Overtaken(j, saver).request = j.request
<1> DEFINE late == \/ j.overtaken \/ j.pc \in {"events", "counted"}
                   \/ j.pc \in {"keys", "loaded"} /\ saver.overtaken
           new == [j EXCEPT !.overtaken = late]
<1>1. late \in BOOLEAN
  BY DEF JobTyped, Job
<1>2. ~late => /\ ~j.overtaken /\ j.pc \notin {"events", "counted"}
               /\ j.pc \in {"keys", "loaded"} => now = st \/ ~Grows(m, l)
  OBVIOUS
<1>3. Overtaken(j, saver) = new
  BY DEF Overtaken
<1> HIDE DEF late
<1>4. /\ new \in Job /\ new.pc = j.pc /\ new.request = j.request /\ new.copy = j.copy
      /\ new.overtaken = late
  BY <1>1 DEF JobTyped, Job
<1> HIDE DEF new
<1>5. JobTyped(new)
  BY <1>4 DEF JobTyped
<1>6. j.pc = "events" => Explained(b, j.copy.states, m)
  BY ActivationStays DEF JobSound
<1>7. ASSUME j.pc \in Complete, Current(j, st, l)
      PROVE  Current(new, now, m)
  <2>1. Grows(j.copy.log, m)
    BY <1>7, GrowsThrough DEF Current
  <2>2. ASSUME ~late, Grows(m, j.copy.log)
        PROVE  j.copy.states = now
    <3>1. Grows(l, j.copy.log) /\ Grows(m, l)
      BY <1>7, <2>2, GrowsThrough DEF Current
    <3> QED
      BY <1>2, <1>7, <2>2, <3>1 DEF Current, Complete
  <2> QED
    BY <1>4, <2>1, <2>2 DEF Current
<1>8. ASSUME j.pc \in Built, Ahead(j, st, l)
      PROVE  Ahead(new, now, m)
  <2> DEFINE v == j.request.version
             n == Len(j.copy.log[v])
  <2>1. v \in Versions
    BY <1>8 DEF JobTyped, Job, Request, Built
  <2>2. \A u \in Versions : \A i \in DOMAIN j.copy.log[u] :
          u # v \/ i # n => i \in DOMAIN l[u] /\ l[u][i] = j.copy.log[u][i]
    BY <1>8 DEF Ahead
  <2>3. \A u \in Versions : \A i \in DOMAIN j.copy.log[u] :
          u # v \/ i # n => i \in DOMAIN m[u] /\ m[u][i] = j.copy.log[u][i]
    BY <2>2 DEF Grows, Prefix
  <2>4. ASSUME ~late, Grows(m, j.copy.log), n \notin DOMAIN m[v]
        PROVE  j.copy.states = After(now, j.request)
    <3>1. Grows(l, j.copy.log)
      BY <2>4, GrowsThrough
    <3>2. n \notin DOMAIN l[v]
      BY <2>1, <2>4 DEF Grows, Prefix
    <3>3. Grows(m, l)
      <4> SUFFICES ASSUME NEW u \in Versions, NEW i \in DOMAIN m[u]
                   PROVE  i \in DOMAIN l[u] /\ l[u][i] = m[u][i]
        BY DEF Grows, Prefix
      <4>1. i \in DOMAIN j.copy.log[u] /\ j.copy.log[u][i] = m[u][i]
        BY <2>4 DEF Grows, Prefix
      <4> QED
        BY <2>2, <2>4, <4>1
    <3>4. now = st /\ ~j.overtaken
      BY <1>2, <1>8, <2>4, <3>3 DEF Built
    <3> QED
      BY <1>8, <3>1, <3>2, <3>4 DEF Ahead
  <2>5. n \in DOMAIN j.copy.log[v] /\ j.copy.log[v][n] = EventOf(j.request)
    BY <1>8 DEF Ahead
  <2> QED
    BY <1>4, <2>3, <2>4, <2>5 DEF Ahead
<1>9. JobSound(new, b, now, m)
  BY <1>2, <1>4, <1>6, <1>7, <1>8 DEF JobSound, Complete, Built
<1> QED
  BY <1>3, <1>4, <1>5, <1>9

\* No stored event has the time of a request that has not ended.
LEMMA SaveKeepsTimes ==
  ASSUME NEW b, Inv(b), NEW t \in Threads, Save(t),
         \A u \in Threads : job'[u].pc # "idle" =>
            u # t /\ job[u].pc # "idle" /\ job'[u].request = job[u].request
  PROVE  TimesSound(job', log', requests)
<1> DEFINE j == job[t]
           copy == j.copy
           r == j.request
<1>1. TimesSound(job, log, requests)
  BY DEF Inv
<1>2. j.pc = "counted" /\ JobSound(j, b, states, log) /\ r \in Request
  BY JobAt DEF Inv, Save
<1>3. \A v \in Versions : log'[v] = copy.log[v] \/ log'[v] = log[v]
  BY SaveGrows
<1>4. ASSUME NEW v \in Versions, NEW i \in DOMAIN log'[v]
      PROVE  log'[v][i].at = r.at \/ (i \in DOMAIN log[v] /\ log'[v][i] = log[v][i])
  <2>1. CASE log'[v] = log[v]
    BY <1>4, <2>1
  <2>2. CASE log'[v] = copy.log[v]
    <3>1. CASE Current(j, states, log)
      BY <1>4, <2>2, <3>1 DEF Current, Grows, Prefix
    <3>2. CASE Ahead(j, states, log)
      <4>1. v = r.version /\ i = Len(copy.log[v]) => copy.log[v][i] = EventOf(r)
        BY <3>2 DEF Ahead
      <4>2. v # r.version \/ i # Len(copy.log[v])
              => i \in DOMAIN log[v] /\ log[v][i] = copy.log[v][i]
        BY <1>4, <2>2, <3>2 DEF Ahead
      <4> QED
        BY <2>2, <4>1, <4>2 DEF EventOf
    <3> QED
      BY <1>2, <3>1, <3>2 DEF JobSound, Built
  <2> QED
    BY <1>3, <2>1, <2>2
<1>5. ASSUME NEW v \in Versions, NEW i \in DOMAIN log'[v]
      PROVE  /\ log'[v][i].at <= requests
             /\ \A u \in Threads : job'[u].pc # "idle" => log'[v][i].at # job[u].request.at
  BY <1>1, <1>2, <1>4 DEF TimesSound
<1> QED
  BY <1>1, <1>5 DEF TimesSound

LEMMA SaveSound ==
  ASSUME NEW b, Inv(b), NEW t \in Threads, Save(t)
  PROVE  Inv(b)'
<1> DEFINE copy == job[t].copy
<1>1. /\ job[t].pc = "counted" /\ UNCHANGED requests /\ states' = copy.states
      /\ keys' = [k \in Keys |-> IF copy.keys[k] = None THEN keys[k] ELSE copy.keys[k]]
      /\ job' = [u \in Threads |-> IF u = t THEN Idle ELSE Overtaken(job[u], job[t])]
  BY DEF Save, StoreKeys
<1>2. /\ JobTyped(job[t]) /\ copy \in Stores /\ job[t].overtaken \in BOOLEAN
      /\ JobSound(job[t], b, states, log)
  BY JobAt DEF Inv, JobTyped, Job
<1>3. copy.states \in States /\ copy.log \in Logs /\ copy.keys \in KeyTables
  BY <1>2 DEF Stores, States, Logs, KeyTables
<1>4. Explained(b, copy.states, copy.log) /\ AllChecked(copy.log)
  BY <1>1, <1>2 DEF JobSound, Complete
<1>5. /\ log' \in Logs /\ Grows(log, log') /\ Grows(copy.log, log')
      /\ \A v \in Versions : log'[v] = log[v] \/ log'[v] = copy.log[v]
  BY SaveGrows
<1>6. ~job[t].overtaken => states' = states \/ ~Grows(log', log)
  BY SaveIsAtomic
<1> HIDE DEF copy
<1>7. job'[t] = Idle
  BY <1>1
<1>8. ASSUME NEW u \in Threads, u # t
      PROVE  /\ JobTyped(job'[u]) /\ JobSound(job'[u], b, states', log')
             /\ job'[u].pc = job[u].pc /\ job'[u].request = job[u].request
  <2>1. job'[u] = Overtaken(job[u], job[t])
    BY <1>1, <1>8
  <2>2. JobTyped(job[u]) /\ JobSound(job[u], b, states, log)
    BY JobAt DEF Inv
  <2> QED
    BY <1>2, <1>5, <1>6, <2>1, <2>2, OvertakenIsSound
<1>9. JobTyped(job'[t]) /\ JobSound(job'[t], b, states', log')
  BY <1>7, IdleTyped, UnloadedIsSound
<1>10. keys' \in KeyTables
  BY <1>1, <1>3 DEF KeyTables, Inv, TypeOK
<1>11. TypeOK'
  <2>1. \A u \in Threads : JobTyped(job'[u])
    BY <1>8, <1>9
  <2>2. job' \in [Threads -> Job]
    BY <1>1, <2>1 DEF JobTyped
  <2> QED
    BY <1>1, <1>3, <1>5, <1>10, <2>1, <2>2
    DEF TypeOK, Inv, States, Logs, KeyTables, JobTyped
<1>12. AllChecked(log')
  BY <1>4, <1>5 DEF AllChecked, Inv
<1>13. Explained(b, states', log')
  BY <1>1, <1>4, <1>5, ActivationStays
<1>14. TimesSound(job', log', requests')
  <2>1. \A u \in Threads : job'[u].pc # "idle" =>
          u # t /\ job[u].pc # "idle" /\ job'[u].request = job[u].request
    BY <1>7, <1>8, IdleTyped
  <2> QED
    BY <1>1, <2>1, SaveKeepsTimes
<1> QED
  BY <1>8, <1>9, <1>11, <1>12, <1>13, <1>14 DEF Inv

THEOREM StepSound == IInv /\ [Next]_vars => IInv'
<1> SUFFICES ASSUME NEW b \in Versions, Inv(b), [Next]_vars
             PROVE  Inv(b)'
  BY DEF IInv
<1>1. CASE UNCHANGED vars
  BY <1>1 DEF vars, Inv, TypeOK
<1>2. ASSUME NEW t \in Threads,
             Start(t) \/ LoadDefinitions(t) \/ LoadEvents(t) \/ LoadKeys(t)
               \/ CountEvents(t) \/ Save(t) \/ Fail(t)
      PROVE  Inv(b)'
  BY <1>2, StartSound, LoadDefinitionsSound, LoadEventsSound, LoadKeysSound,
     CountEventsSound, SaveSound, FailSound
<1> QED
  BY <1>1, <1>2 DEF Next

THEOREM Invariance == Spec => []IInv
  BY InitSound, StepSound, PTL DEF Spec

-----------------------------------------------------------------------------
(* The theorems.                                                           *)

\* The tables hold rows and every thread a request and a copy, whatever fails.
THEOREM TypeCorrect == Spec => []TypeOK
<1>1. IInv => TypeOK
  BY DEF IInv, Inv
<1> QED
  BY <1>1, Invariance, PTL

\* The check of an activation holds of the log it is stored in: an event is stored
\* at its place in the copy the check was made on, or not at all.
THEOREM ActivationsAreChecked == Spec => []ActivationIsChecked
<1>1. IInv => ActivationIsChecked
  <2> SUFFICES ASSUME IInv, NEW v \in Versions, NEW i \in DOMAIN log[v],
                      log[v][i].type = "ACTIVATED"
               PROVE  \E j \in latest_validation(SubSeq(log[v], 1, i - 1)) :
                        MakerChecker => log[v][j].actor # log[v][i].actor
    BY DEF ActivationIsChecked
  <2>1. log[v] \in Seq(Event) /\ FourEyes(log[v], i)
    BY DEF IInv, Inv, TypeOK, AllChecked
  <2> QED
    BY <2>1, FourEyesIsTheCheck
<1> QED
  BY <1>1, Invariance, PTL

\* States and events are saved together and events are never taken away.
THEOREM StatesStayLogged == Spec => []StatesAreLogged
<1>1. IInv => StatesAreLogged
  BY DEF IInv, Inv, Explained, StatesAreLogged
<1> QED
  BY <1>1, Invariance, PTL

\* A copy that no save overtook has counted every stored event, so what it stores
\* follows from what is stored.
THEOREM CommandsStayAtomic == Spec => CommandsAreAtomic
<1>1. ASSUME IInv, [Next]_vars, NEW t \in Threads,
             job[t].pc = "counted", job'[t].pc = "idle", ~job[t].overtaken, states' # states
      PROVE  /\ job[t].request.type = "ACTIVATED"
             /\ states' = Activated(states, job[t].request.version)
  <2>1. PICK b \in Versions : Inv(b)
    BY <1>1 DEF IInv
  <2>2. PICK u \in Threads : Save(u)
    BY <1>1 DEF Next, vars, Start, LoadDefinitions, LoadEvents, LoadKeys, CountEvents, Fail
  <2>3. u = t
    <3> SUFFICES ASSUME u # t
                 PROVE  FALSE
      OBVIOUS
    <3>1. job'[t] = Overtaken(job[t], job[u])
      BY <2>2 DEF Save
    <3>2. job[t] \in Job
      BY <2>1, JobAt DEF Inv, JobTyped
    <3>3. Overtaken(job[t], job[u]).pc = "counted"
      BY <1>1, <3>2 DEF Overtaken, Job
    <3> QED
      BY <1>1, <3>1, <3>3
  <2>4. states' = After(states, job[t].request)
    BY <1>1, <2>1, <2>2, <2>3, SaveIsAtomic
  <2> QED
    BY <1>1, <2>4 DEF After
<1>2. IInv /\ [Next]_vars =>
        [\A t \in Threads :
           /\ job[t].pc = "counted" /\ job'[t].pc = "idle" /\ ~job[t].overtaken
           /\ states' # states
           => /\ job[t].request.type = "ACTIVATED"
              /\ states' = Activated(states, job[t].request.version)]_vars
  BY <1>1
<1> QED
  BY <1>2, Invariance, PTL DEF Spec, CommandsAreAtomic
=============================================================================
