------------------------------ MODULE CopilotRuns ------------------------------
(***************************************************************************)
(* Advisory copilot runs, their retries and their reviews on Postgres.     *)
(*                                                                         *)
(* A run is identified by the hash of its request.  A keyed request looks  *)
(* its key up twice, before lotus-ai is called and before the draft is     *)
(* stored; a run that failed is refreshed by the same request.  A review   *)
(* reads the run, appends its record and then updates the run.  Every      *)
(* access is a transaction of its own, and every update writes the whole   *)
(* row of a copy read earlier.                                             *)
(*                                                                         *)
(* Abstractions: a request stands for its hash, hence for its run and its  *)
(* creator; an output is the number of the request that drafted it and the *)
(* posture it was drafted with; the reason of a review is fixed, so a      *)
(* review is identified by run, action and reviewer; a key is read with    *)
(* the run it names, as both exist from the same commit on and stay.       *)
(***************************************************************************)
EXTENDS Naturals

CONSTANTS
  Threads,      \* request threads
  Requests,     \* request hashes, which are the ids of the runs
  Actors,       \* advisors and reviewers
  Creator,      \* the advisor that makes a request
  Keys,         \* Idempotency-Key values of requests and of reviews
  None,         \* an absent value
  MaxRequests   \* bound: requests started

ASSUME NoneAssumption == None \notin Requests \cup Keys
ASSUME CreatorAssumption == Creator \in [Requests -> Actors]
ASSUME BoundAssumption == MaxRequests \in Nat

VARIABLES
  runs,      \* advisory_copilot_runs
  keys,      \* advisory_copilot_run_idempotency
  reviews,   \* advisory_copilot_reviews
  job,       \* per thread: its request and the copy it holds
  requests   \* requests started

vars == <<runs, keys, reviews, job, requests>>

-----------------------------------------------------------------------------
\* Records

Drafted == {"REVIEW_REQUIRED", "UNSUPPORTED", "GUARDRAIL_REJECTED", "UNAVAILABLE"}
Verdicts == {"APPROVED_FOR_INTERNAL_USE", "REJECTED", "SUPERSEDED", "EXPIRED"}

Output == [number : Nat, drafted : Drafted]
Run == [posture : Drafted \cup Verdicts, output : Output, key : Keys \cup {None}]
Review == [run : Requests, verdict : Verdicts, actor : Actors, key : Keys]

Job == [pc : {"idle", "lookup", "draft", "persist", "refresh", "save", "insert",
              "review", "append", "update"},
        request : Requests \cup {None}, key : Keys \cup {None}, number : Nat,
        draft : Run \cup {None}, review : Review \cup {None},
        copy : Run \cup {None}, fresh : BOOLEAN]

ASSUME RowsAssumption == None \notin Run \cup Review

Idle == [pc |-> "idle", request |-> None, key |-> None, number |-> 0,
         draft |-> None, review |-> None, copy |-> None, fresh |-> TRUE]

-----------------------------------------------------------------------------
(* Faults: the checks and writes of the code with a plausible bug.         *)

\* UPDATE ... SET review_posture only.
PostureOnly(q, row) == [runs EXCEPT ![q].posture = row.posture]

\* ON CONFLICT DO NOTHING for whatever unique index.
AnyConflict(review) ==
  \E r \in reviews : /\ r.run = review.run
                     /\ \/ r.key = review.key
                        \/ r.verdict = review.verdict /\ r.actor = review.actor

DecidedByVerdict(posture) == posture \in {"APPROVED_FOR_INTERNAL_USE", "REJECTED"}

-----------------------------------------------------------------------------
Init ==
  /\ runs = [q \in Requests |-> None]
  /\ keys = [k \in Keys |-> None]
  /\ reviews = {}
  /\ job = [t \in Threads |-> Idle]
  /\ requests = 0

Step(t, pc) == job' = [job EXCEPT ![t].pc = pc]
End(t) == job' = [job EXCEPT ![t] = Idle]

(***************************************************************************)
(* run_action.                                                             *)
(***************************************************************************)
RunAction(t) ==
  /\ job[t].pc = "idle"
  /\ requests < MaxRequests
  /\ requests' = requests + 1
  /\ \E q \in Requests, k \in Keys \cup {None} :
       job' = [job EXCEPT ![t] = [Idle EXCEPT
                 !.pc = IF k = None THEN "draft" ELSE "lookup",
                 !.request = q, !.key = k, !.number = requests + 1]]
  /\ UNCHANGED <<runs, keys, reviews>>

\* Every UNAVAILABLE draft has a fallback reason, and a guardrail refuses the
\* output: what it refuses beforehand is drafted as UNSUPPORTED here.
can_attempt_refresh(run) == run.posture \in {"UNAVAILABLE", "GUARDRAIL_REJECTED"}

can_refresh(run, posture) ==
  \/ run.posture = "UNAVAILABLE" /\ posture # "UNAVAILABLE"
  \/ run.posture = "GUARDRAIL_REJECTED" /\ posture = "REVIEW_REQUIRED"

\* The key is unused, or its run failed; else the request is answered.
ResolveReplay(t) ==
  LET q == job[t].request
      k == job[t].key IN
  /\ job[t].pc = "lookup"
  /\ IF keys[k] = None \/ (keys[k] = q /\ can_attempt_refresh(runs[q]))
     THEN Step(t, "draft") ELSE End(t)
  /\ UNCHANGED <<runs, keys, reviews, requests>>

\* The call of lotus-ai.
GenerateDraft(t) ==
  /\ job[t].pc = "draft"
  /\ \E p \in Drafted :
       job' = [job EXCEPT ![t].pc = "persist",
                 ![t].draft = [posture |-> p, key |-> job[t].key,
                               output |-> [number |-> job[t].number, drafted |-> p]]]
  /\ UNCHANGED <<runs, keys, reviews, requests>>

\* _existing_run_for_idempotency and the choice of _handle_existing_run.
FindExisting(t) ==
  LET q == job[t].request
      k == job[t].key IN
  /\ job[t].pc = "persist"
  /\ \/ /\ k = None
        /\ Step(t, "insert")
     \/ /\ k # None
        /\ keys[k] = None
        /\ Step(t, "save")
     \/ /\ k # None
        /\ keys[k] # None
        /\ IF keys[k] = q /\ can_refresh(runs[q], job[t].draft.posture)
           THEN job' = [job EXCEPT ![t].pc = "refresh", ![t].copy = runs[q], ![t].fresh = TRUE]
           ELSE End(t)
  /\ UNCHANGED <<runs, keys, reviews, requests>>

\* update_run: the row of the copy replaces what is stored.
WriteRow(q, row) == [runs EXCEPT ![q] = row]

\* Whoever holds a copy of the run holds a stale one from here on.
update_run(t, row) ==
  LET q == job[t].request IN
  /\ runs' = WriteRow(q, row)
  /\ job' = [u \in Threads |-> IF u = t THEN Idle
                               ELSE [job[u] EXCEPT !.fresh = @ /\ job[u].request # q]]

Refresh(t) ==
  /\ job[t].pc = "refresh"
  /\ update_run(t, [job[t].draft EXCEPT !.key = job[t].copy.key])
  /\ UNCHANGED <<keys, reviews, requests>>

\* save_run_with_idempotency looks for the key once more in its transaction.
CheckKey(t) ==
  /\ job[t].pc = "save"
  /\ IF keys[job[t].key] = None THEN Step(t, "insert") ELSE End(t)
  /\ UNCHANGED <<runs, keys, reviews, requests>>

\* Both INSERTs do nothing where a row is there.
InsertRun(t) ==
  LET q == job[t].request
      k == job[t].key IN
  /\ job[t].pc = "insert"
  /\ runs' = [runs EXCEPT ![q] = IF @ = None THEN job[t].draft ELSE @]
  /\ keys' = [j \in Keys |-> IF j = k /\ keys[j] = None THEN q ELSE keys[j]]
  /\ End(t)
  /\ UNCHANGED <<reviews, requests>>

-----------------------------------------------------------------------------
(* record_advisory_copilot_review.                                         *)

\* A reviewer other than the creator; the run is read here.
ReviewRun(t) ==
  /\ job[t].pc = "idle"
  /\ requests < MaxRequests
  /\ requests' = requests + 1
  /\ \E q \in Requests, v \in Verdicts, a \in Actors, k \in Keys :
       /\ runs[q] # None
       /\ a # Creator[q]
       /\ job' = [job EXCEPT ![t] = [Idle EXCEPT
                    !.pc = "review", !.request = q, !.copy = runs[q],
                    !.review = [run |-> q, verdict |-> v, actor |-> a, key |-> k]]]
  /\ UNCHANGED <<runs, keys, reviews>>

is_terminal_review_posture(posture) ==
  posture \in Verdicts \cup {"UNSUPPORTED", "GUARDRAIL_REJECTED", "UNAVAILABLE"}

\* A review under the key is a replay or a conflict.
RequireReviewable(t) ==
  LET used == \E r \in reviews : r.run = job[t].request /\ r.key = job[t].review.key IN
  /\ job[t].pc = "review"
  /\ IF used \/ is_terminal_review_posture(job[t].copy.posture)
     THEN End(t) ELSE Step(t, "append")
  /\ UNCHANGED <<runs, keys, reviews, requests>>

\* ON CONFLICT (review_id) DO NOTHING.
IgnoresReview(review) ==
  \E r \in reviews : /\ r.run = review.run
                     /\ r.verdict = review.verdict
                     /\ r.actor = review.actor

\* The unique index on run and key refuses another review under the key.
AppendReview(t) ==
  LET review == job[t].review IN
  /\ job[t].pc = "append"
  /\ \/ /\ IgnoresReview(review)
        /\ UNCHANGED reviews
        /\ Step(t, "update")
     \/ /\ ~IgnoresReview(review)
        /\ \A r \in reviews : r.run = review.run => r.key # review.key
        /\ reviews' = reviews \cup {review}
        /\ Step(t, "update")
  /\ UNCHANGED <<runs, keys, requests>>

UpdateReviewedRun(t) ==
  /\ job[t].pc = "update"
  /\ update_run(t, [job[t].copy EXCEPT !.posture = job[t].review.verdict])
  /\ UNCHANGED <<keys, reviews, requests>>

-----------------------------------------------------------------------------
\* A statement fails, or the process stops.
Fail(t) ==
  /\ job[t].pc # "idle"
  /\ End(t)
  /\ UNCHANGED <<runs, keys, reviews, requests>>

Next ==
  \E t \in Threads :
    \/ RunAction(t) \/ ResolveReplay(t) \/ GenerateDraft(t) \/ FindExisting(t)
    \/ Refresh(t) \/ CheckKey(t) \/ InsertRun(t)
    \/ ReviewRun(t) \/ RequireReviewable(t) \/ AppendReview(t) \/ UpdateReviewedRun(t)
    \/ Fail(t)

Spec == Init /\ [][Next]_vars

-----------------------------------------------------------------------------
(* Properties.                                                             *)

TypeOK ==
  /\ runs \in [Requests -> Run \cup {None}]
  /\ keys \in [Keys -> Requests \cup {None}]
  /\ reviews \subseteq Review
  /\ job \in [Threads -> Job]
  /\ requests \in Nat

\* A run shows a verdict only over an output that was drafted for review: a late
\* refresh that stores a refused or an empty output under a reviewer's feet is
\* overwritten together with its output, never approved.
VerdictIsOnReviewableOutput ==
  \A q \in Requests :
    runs[q] # None /\ runs[q].posture \in Verdicts
      => runs[q].output.drafted = "REVIEW_REQUIRED"

\* The verdict a run shows is on record, given by someone other than its creator:
\* no crash, race of reviewers or reused key writes one without its review.
VerdictIsOnRecord ==
  \A q \in Requests :
    runs[q] # None /\ runs[q].posture \in Verdicts
      => \E r \in reviews : /\ r.run = q
                            /\ r.verdict = runs[q].posture
                            /\ r.actor # Creator[q]

\* A verdict is replaced, by another or by a new draft, only by a thread whose copy
\* was read before it was written.
VerdictFallsToAStaleCopy ==
  [][\A q \in Requests :
       runs[q] # None /\ runs[q].posture \in Verdicts /\ runs'[q] # runs[q]
         => \E t \in Threads : job'[t] # job[t] /\ job[t].request = q /\ ~job[t].fresh]_vars

-----------------------------------------------------------------------------
(* Statements that do not hold; the README says where TLC refutes them.    *)

\* A key answers for one run: no other run was stored under it.
OneRunPerKey ==
  \A p, q \in Requests :
    runs[p] # None /\ runs[q] # None /\ runs[p].key # None /\ runs[p].key = runs[q].key => p = q

\* A review that is on record and replayed shows its verdict, or a later one.
RecordedReviewTookEffect ==
  \A r \in reviews :
    (\A t \in Threads : job[t].pc # "update") => runs[r.run].posture \in Verdicts
=============================================================================
