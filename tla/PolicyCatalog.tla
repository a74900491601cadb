---------------------------- MODULE PolicyCatalog ----------------------------
(***************************************************************************)
(* The versions of one policy pack: validation, activation, supersession.  *)
(*                                                                         *)
(* A command loads the catalog with three SELECTs (definitions, events,    *)
(* keys), changes the copy and saves all of it in one transaction, as in   *)
(* PolicyEvaluations.  Here every command rewrites every definition, in    *)
(* the order of the versions, under a unique index that admits one ACTIVE  *)
(* row per pack at every moment.                                           *)
(*                                                                         *)
(* Abstractions: a version is its place in the order of version names; the *)
(* content of a definition never changes and is valid, so its hash, the    *)
(* diagnostics and the dry run are left out; an empty table loads as the   *)
(* reference packs and is taken to hold them; events are ordered by        *)
(* position, which supposes that clocks follow it.                         *)
(***************************************************************************)
EXTENDS Naturals, Sequences

CONSTANTS
  Threads,       \* request threads
  Last,          \* the versions of the pack are 1..Last
  MakerChecker,  \* maker_checker_required of the pack
  Actors,        \* policy stewards and checkers
  Keys,          \* Idempotency-Key values
  None,          \* an absent value
  MaxRequests    \* bound: requests started

ASSUME NoneAssumption == None \notin Actors \cup Keys
ASSUME MakerCheckerAssumption == MakerChecker \in BOOLEAN
ASSUME BoundsAssumption == Last \in Nat /\ MaxRequests \in Nat

Versions == 1..Last

VARIABLES
  states,     \* activation_state of policy_pack_catalog_versions
  log,        \* policy_pack_catalog_audit_events: ppev_1, ppev_2, ... per version
  keys,       \* policy_pack_catalog_idempotency
  job,        \* per thread: its request and its copy
  requests    \* requests started

vars == <<states, log, keys, job, requests>>

-----------------------------------------------------------------------------
\* Records

ActivationStates == {"DRAFT", "ACTIVE", "SUPERSEDED"}
Types == {"VALIDATED", "ACTIVATED"}

Request == [type : Types, version : Versions, actor : Actors, key : Keys, at : Nat]
Event == [type : Types, actor : Actors, at : Nat]

\* The hash of a request: all of it but the key and the time.
KeyRow == [type : Types, version : Versions, actor : Actors, event : Nat]

Stores == [states : [Versions -> ActivationStates], log : [Versions -> Seq(Event)],
           keys : [Keys -> KeyRow \cup {None}]]

ASSUME RequestAssumption == None \notin Request

Job == [pc : {"idle", "load", "events", "keys", "loaded", "counted"},
        request : Request \cup {None}, copy : Stores, overtaken : BOOLEAN]

Drafts == [v \in Versions |-> "DRAFT"]
NoEvents == [v \in Versions |-> <<>>]
NoKeys == [k \in Keys |-> None]

Idle == [pc |-> "idle", request |-> None,
         copy |-> [states |-> Drafts, log |-> NoEvents, keys |-> NoKeys], overtaken |-> FALSE]

EventOf(r) == [type |-> r.type, actor |-> r.actor, at |-> r.at]
KeyRowOf(r, i) == [type |-> r.type, version |-> r.version, actor |-> r.actor, event |-> i]

-----------------------------------------------------------------------------
(* Faults: the statements of the code with a plausible bug.                *)

\* Event ids from a sequence of the database instead of the position in the copy.
SerialEventIds(copy) ==
  log' = [v \in Versions |->
            log[v] \o SelectSeq(copy.log[v],
                                LAMBDA ev : \A i \in DOMAIN log[v] : log[v][i] # ev)]

\* ON CONFLICT DO NOTHING.
KeepFirstEvent(copy) ==
  log' = [v \in Versions |->
            log[v] \o SubSeq(copy.log[v], Len(log[v]) + 1, Len(copy.log[v]))]

NoCount(copy, v) == TRUE

-----------------------------------------------------------------------------
\* At most one version is ACTIVE, the others are drafts.
Init ==
  /\ states \in {[Drafts EXCEPT ![v] = s] : v \in Versions, s \in {"DRAFT", "ACTIVE"}}
  /\ log = NoEvents
  /\ keys = NoKeys
  /\ job = [t \in Threads |-> Idle]
  /\ requests = 0

Start(t) ==
  /\ job[t].pc = "idle"
  /\ requests < MaxRequests
  /\ requests' = requests + 1
  /\ \E type \in Types, v \in Versions, a \in Actors, k \in Keys :
       job' = [job EXCEPT ![t] = [Idle EXCEPT !.pc = "load",
                 !.request = [type |-> type, version |-> v, actor |-> a, key |-> k,
                              at |-> requests + 1]]]
  /\ UNCHANGED <<states, log, keys>>

LoadDefinitions(t) ==
  /\ job[t].pc = "load"
  /\ job' = [job EXCEPT ![t].pc = "events", ![t].copy.states = states]
  /\ UNCHANGED <<states, log, keys, requests>>

LoadEvents(t) ==
  /\ job[t].pc = "events"
  /\ job' = [job EXCEPT ![t].pc = "keys", ![t].copy.log = log]
  /\ UNCHANGED <<states, log, keys, requests>>

-----------------------------------------------------------------------------
(* The commands, on the copy.                                              *)

Replays(copy, r) ==
  copy.keys[r.key] # None /\ KeyRowOf(r, copy.keys[r.key].event) = copy.keys[r.key]

latest_validation(events) ==
  {i \in DOMAIN events : /\ events[i].type = "VALIDATED"
                         /\ \A j \in DOMAIN events : events[j].type = "VALIDATED" => j <= i}

\* validate asks for nothing more; activate wants another state than ACTIVE, and a
\* validation, by somebody else where the pack demands it.
MayCommand(copy, r) ==
  /\ copy.keys[r.key] = None
  /\ r.type = "ACTIVATED" =>
       /\ copy.states[r.version] # "ACTIVE"
       /\ \E i \in latest_validation(copy.log[r.version]) :
            MakerChecker => copy.log[r.version][i].actor # r.actor

\* The version that was ACTIVE is superseded.
Activated(old, v) ==
  [u \in Versions |-> IF u = v THEN "ACTIVE"
                      ELSE IF old[u] = "ACTIVE" THEN "SUPERSEDED" ELSE old[u]]

Commanded(copy, r) ==
  [states |-> IF r.type = "ACTIVATED" THEN Activated(copy.states, r.version) ELSE copy.states,
   log |-> [copy.log EXCEPT ![r.version] = Append(@, EventOf(r))],
   keys |-> [copy.keys EXCEPT ![r.key] = KeyRowOf(r, Len(copy.log[r.version]) + 1)]]

\* A key that was stored after the events were read names an event the copy lacks,
\* and the load fails.  A replay leaves the copy as it is, which is saved too.
LoadKeys(t) ==
  LET r == job[t].request
      loaded == [job[t].copy EXCEPT !.keys = keys] IN
  /\ job[t].pc = "keys"
  /\ \A k \in Keys : keys[k] # None => keys[k].event \in DOMAIN loaded.log[keys[k].version]
  /\ Replays(loaded, r) \/ MayCommand(loaded, r)
  /\ job' = [job EXCEPT ![t].pc = "loaded",
                        ![t].copy = IF Replays(loaded, r) THEN loaded ELSE Commanded(loaded, r)]
  /\ UNCHANGED <<states, log, keys, requests>>

-----------------------------------------------------------------------------
(* save_snapshot.                                                          *)

CountAllows(copy, v) == Len(log[v]) <= Len(copy.log[v])

\* The upsert of the first definition counts events in the snapshot its statement
\* starts with and then may wait for the row another save holds.
CountEvents(t) ==
  /\ job[t].pc = "loaded"
  /\ CountAllows(job[t].copy, 1)
  /\ job' = [job EXCEPT ![t].pc = "counted"]
  /\ UNCHANGED <<states, log, keys, requests>>

\* One ACTIVE row at every moment: the versions before v are those of the copy
\* when v is written, the ones after it still those of the table.
IndexAllows(copy) ==
  \A v \in Versions : copy.states[v] = "ACTIVE" =>
    /\ \A u \in 1..(v - 1) : copy.states[u] # "ACTIVE"
    /\ \A u \in (v + 1)..Last : states[u] # "ACTIVE"

DefinitionsAreStored(copy) ==
  /\ IndexAllows(copy)
  /\ \A v \in 2..Last : CountAllows(copy, v)

\* An event is inserted at its id or is the one stored there.
StoreEvents(copy) ==
  /\ \A v \in Versions : \A i \in DOMAIN copy.log[v] \cap DOMAIN log[v] :
       copy.log[v][i] = log[v][i]
  /\ log' = [v \in Versions |->
               IF Len(copy.log[v]) > Len(log[v]) THEN copy.log[v] ELSE log[v]]

StoreKeys(copy) ==
  /\ \A k \in Keys : copy.keys[k] # None => keys[k] \in {None, copy.keys[k]}
  /\ keys' = [k \in Keys |-> IF copy.keys[k] = None THEN keys[k] ELSE copy.keys[k]]

\* A commit overtakes the threads in the middle of a load or waiting for the row,
\* which go on with what is older, and passes its own delay on to all copies.
Overtaken(j, saver) ==
  [j EXCEPT !.overtaken = \/ @
                          \/ j.pc \in {"events", "counted"}
                          \/ j.pc \in {"keys", "loaded"} /\ saver.overtaken]

Save(t) ==
  /\ job[t].pc = "counted"
  /\ DefinitionsAreStored(job[t].copy)
  /\ states' = job[t].copy.states
  /\ StoreEvents(job[t].copy)
  /\ StoreKeys(job[t].copy)
  /\ job' = [u \in Threads |-> IF u = t THEN Idle ELSE Overtaken(job[u], job[t])]
  /\ UNCHANGED requests

\* A check or a statement refuses, or the process stops.
Fail(t) ==
  /\ job[t].pc # "idle"
  /\ job' = [job EXCEPT ![t] = Idle]
  /\ UNCHANGED <<states, log, keys, requests>>

Next ==
  \E t \in Threads :
    \/ Start(t) \/ LoadDefinitions(t) \/ LoadEvents(t) \/ LoadKeys(t)
    \/ CountEvents(t) \/ Save(t) \/ Fail(t)

Spec == Init /\ [][Next]_vars

-----------------------------------------------------------------------------
(* Properties.                                                             *)

TypeOK ==
  /\ states \in [Versions -> ActivationStates]
  /\ log \in [Versions -> Seq(Event)]
  /\ keys \in [Keys -> KeyRow \cup {None}]
  /\ job \in [Threads -> Job]
  /\ \A t \in Threads : job[t].pc # "idle" => job[t].request # None
  /\ requests \in Nat

\* Every activation in the log follows a validation, and the last one before it is
\* somebody else's where the pack asks for four eyes, although the check was made
\* on a copy that other validations may have overtaken.
ActivationIsChecked ==
  \A v \in Versions : \A i \in DOMAIN log[v] :
    log[v][i].type = "ACTIVATED" =>
      \E j \in latest_validation(SubSeq(log[v], 1, i - 1)) :
        MakerChecker => log[v][j].actor # log[v][i].actor

HasActivation(events) == \E i \in DOMAIN events : events[i].type = "ACTIVATED"

\* The state of every version but the one the pack came with is explained by an
\* activation in its log, which no stale copy and no lost race takes away.
StatesAreLogged ==
  \A u, v \in Versions :
    states[u] # "DRAFT" /\ states[v] # "DRAFT" /\ u # v
      => HasActivation(log[u]) \/ HasActivation(log[v])

\* The count of events in the upsert makes a command atomic: unless another save
\* came between its SELECTs, or while its first statement waited, or such a save
\* has changed what it read, a save moves the stored states as its command would
\* at that moment, however many commands were saved since it read them.
CommandsAreAtomic ==
  [][\A t \in Threads :
       /\ job[t].pc = "counted" /\ job'[t].pc = "idle" /\ ~job[t].overtaken
       /\ states' # states
       => /\ job[t].request.type = "ACTIVATED"
          /\ states' = Activated(states, job[t].request.version)]_vars

-----------------------------------------------------------------------------
(* Statements that do not hold; the README says where TLC refutes them.    *)

\* An ACTIVE version is replaced only by the command that activates the other one.
\* A torn copy takes an activation back, and a copy read before repeats it.
OnlyActivationReplaces ==
  [][\A u, v \in Versions :
       u # v /\ states[u] = "ACTIVE" /\ states'[v] = "ACTIVE" =>
         \E t \in Threads :
           /\ job[t].pc = "counted" /\ job'[t].pc = "idle"
           /\ job[t].request.type = "ACTIVATED" /\ job[t].request.version = v]_vars

\* RFC-0025: "activated policy versions are immutable"; an ACTIVE version gives way
\* to another one and to nothing else.
ActiveUntilReplaced ==
  [][\A v \in Versions : states[v] = "ACTIVE" /\ states'[v] # "ACTIVE" =>
       \E u \in Versions : states[u] # "ACTIVE" /\ states'[u] = "ACTIVE"]_vars

\* RFC-0025 slice 5: activating another validated version makes it ACTIVE and marks
\* the prior one SUPERSEDED: what a command has done to an up-to-date copy can be
\* saved.
CommandsAreSaved ==
  \A t \in Threads : job[t].pc = "counted" => DefinitionsAreStored(job[t].copy)
=============================================================================
