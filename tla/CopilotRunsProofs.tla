-------------------------- MODULE CopilotRunsProofs --------------------------
(***************************************************************************)
(* Theorems about CopilotRuns, for any number of threads, requests,        *)
(* reviewers and keys.                                                     *)
(*                                                                         *)
(* A row can be overwritten from a copy read at any time before, so the    *)
(* invariant speaks of every copy as well as of every row: what a thread   *)
(* is about to write is earned by the time it holds it.                    *)
(***************************************************************************)
EXTENDS CopilotRuns, TLAPS

-----------------------------------------------------------------------------
(* The inductive invariant.                                                *)

\* What the fields of a request hold at its stages.
JobTyped(j) ==
  /\ j.pc # "idle" => j.request \in Requests
  /\ j.pc \in {"lookup", "save"} => j.key \in Keys
  /\ j.pc \in {"persist", "refresh", "save", "insert"} => j.draft \in Run
  /\ j.pc \in {"refresh", "review", "append", "update"} => j.copy \in Run
  /\ j.pc \in {"review", "append", "update"} =>
       /\ j.review \in Review
       /\ j.review.run = j.request

\* A row shows the posture its output was drafted with, or a verdict on an output
\* that was drafted for review.
RowSound(row) ==
  row.posture \in Verdicts \/ row.posture = row.output.drafted

VerdictFits(row) == row.posture \in Verdicts => row.output.drafted = "REVIEW_REQUIRED"

\* What a request is about to write: a new draft, or a verdict on a reviewable copy
\* by someone else than the creator of the run.
JobSound(j) ==
  /\ j.pc \in {"persist", "refresh", "save", "insert"} =>
       j.draft.posture = j.draft.output.drafted
  /\ j.pc \in {"refresh", "review", "append", "update"} => RowSound(j.copy)
  /\ j.pc \in {"append", "update"} => j.copy.posture = "REVIEW_REQUIRED"
  /\ j.pc \in {"review", "append", "update"} => j.review.actor # Creator[j.request]
  /\ j.pc = "refresh" => j.copy.posture \notin Verdicts

\* The review that takes effect next is on record.
ReviewOnFile(j) == j.pc = "update" => IgnoresReview(j.review)

\* A fresh copy is the row.
CopyIsFresh(j) ==
  j.pc \in {"refresh", "review", "append", "update"} /\ j.fresh => j.copy = runs[j.request]

Sound(j) == JobTyped(j) /\ JobSound(j) /\ ReviewOnFile(j) /\ CopyIsFresh(j)

JobsSound == \A t \in Threads : Sound(job[t])

RowsSound == \A q \in Requests : runs[q] # None => RowSound(runs[q]) /\ VerdictFits(runs[q])

KeysHaveRuns == \A k \in Keys : keys[k] # None => runs[keys[k]] # None

IInv == TypeOK /\ JobsSound /\ RowsSound /\ KeysHaveRuns /\ VerdictIsOnRecord

-----------------------------------------------------------------------------
(* Lemmas about the building blocks.                                       *)

\* A thread without a request.
LEMMA IdleTyped == Idle \in Job /\ Idle.pc = "idle"
  BY DEF Idle, Job

\* The outcomes of a draft are no verdicts.
LEMMA DraftsAreNoVerdicts == \A p \in Drafted : p \notin Verdicts
  BY DEF Drafted, Verdicts

\* A run that may be refreshed shows no verdict.
LEMMA RefreshableIsNoVerdict ==
  ASSUME NEW row, NEW p, can_refresh(row, p)
  PROVE  row.posture \notin Verdicts
  BY DEF can_refresh, Verdicts

\* A run that may be reviewed waits for its review.
LEMMA ReviewableWaits ==
  ASSUME NEW row \in Run, ~is_terminal_review_posture(row.posture)
  PROVE  row.posture = "REVIEW_REQUIRED"
  BY DEF is_terminal_review_posture, Run, Drafted, Verdicts

\* The records on file stay on file.
LEMMA ReviewsStayOnFile ==
  ASSUME NEW review, reviews \subseteq reviews', IgnoresReview(review)
  PROVE  IgnoresReview(review)'
  BY DEF IgnoresReview

\* A step that moves one request on and stores no run keeps the invariant, where
\* what the request becomes is sound.
LEMMA OneJobMoves ==
  ASSUME IInv, NEW t \in Threads,
         job' = [job EXCEPT ![t] = job'[t]], job'[t] \in Job, Sound(job[t])',
         UNCHANGED <<runs, keys>>,
         reviews \subseteq reviews', reviews' \subseteq Review, requests' \in Nat
  PROVE  IInv'
<1>1. TypeOK'
  <2>1. job' \in [Threads -> Job]
    BY DEF IInv, TypeOK
  <2> QED
    BY <2>1 DEF IInv, TypeOK
<1>2. JobsSound'
  <2> SUFFICES ASSUME NEW u \in Threads, u # t
               PROVE  Sound(job[u])'
    BY DEF JobsSound
  <2>1. job'[u] = job[u] /\ Sound(job[u])
    BY DEF IInv, TypeOK, JobsSound
  <2>2. ReviewOnFile(job[u])'
    BY <2>1, ReviewsStayOnFile DEF Sound, ReviewOnFile, IgnoresReview
  <2> QED
    BY <2>1, <2>2 DEF Sound, JobTyped, JobSound, CopyIsFresh
<1>3. RowsSound' /\ KeysHaveRuns'
  BY DEF IInv, RowsSound, KeysHaveRuns
<1>4. VerdictIsOnRecord'
  BY DEF IInv, VerdictIsOnRecord
<1> QED
  BY <1>1, <1>2, <1>3, <1>4 DEF IInv

\* The end of a request that stored nothing.
LEMMA RequestEnds ==
  ASSUME IInv, NEW t \in Threads, End(t), UNCHANGED <<runs, keys, reviews, requests>>
  PROVE  IInv'
<1>1. job'[t] = Idle /\ job' = [job EXCEPT ![t] = job'[t]]
  BY DEF End, IInv, TypeOK
<1>2. Sound(job[t])'
  BY <1>1, IdleTyped DEF Sound, JobTyped, JobSound, ReviewOnFile, CopyIsFresh
<1> QED
  BY <1>1, <1>2, IdleTyped, OneJobMoves DEF IInv, TypeOK

\* What a request that only goes on to another stage becomes.
LEMMA StageEffect ==
  ASSUME IInv, NEW t \in Threads,
         NEW pc \in {"draft", "insert", "save", "append", "update"}, Step(t, pc)
  PROVE  /\ job' = [job EXCEPT ![t] = job'[t]]
         /\ job'[t] \in Job
         /\ job'[t].pc = pc
         /\ job'[t].request = job[t].request
         /\ job'[t].key = job[t].key
         /\ job'[t].draft = job[t].draft
         /\ job'[t].review = job[t].review
         /\ job'[t].copy = job[t].copy
         /\ job'[t].fresh = job[t].fresh
         /\ JobTyped(job[t]) /\ JobSound(job[t]) /\ ReviewOnFile(job[t]) /\ CopyIsFresh(job[t])
<1>1. job'[t] = [job[t] EXCEPT !.pc = pc] /\ job' = [job EXCEPT ![t] = job'[t]]
  BY DEF Step, IInv, TypeOK
<1>2. job[t] \in Job /\ Sound(job[t])
  BY DEF IInv, TypeOK, JobsSound
<1> QED
  BY <1>1, <1>2 DEF Job, Sound

-----------------------------------------------------------------------------
(* The invariant is inductive.                                             *)

THEOREM InitSound == Init => IInv
<1> SUFFICES ASSUME Init
             PROVE  IInv
  OBVIOUS
<1>1. TypeOK
  BY IdleTyped DEF Init, TypeOK
<1>2. JobsSound
  BY IdleTyped DEF Init, JobsSound, Sound, JobTyped, JobSound, ReviewOnFile, CopyIsFresh
<1>3. RowsSound /\ KeysHaveRuns /\ VerdictIsOnRecord
  BY DEF Init, RowsSound, KeysHaveRuns, VerdictIsOnRecord
<1> QED
  BY <1>1, <1>2, <1>3 DEF IInv

\* The stages of run_action up to the transaction that stores the run.
LEMMA RunActionSound ==
  ASSUME IInv, NEW t \in Threads,
         RunAction(t) \/ ResolveReplay(t) \/ GenerateDraft(t) \/ CheckKey(t)
  PROVE  IInv'
<1>1. CASE RunAction(t)
  <2>1. PICK q \in Requests, k \in Keys \cup {None} :
          job' = [job EXCEPT ![t] = [Idle EXCEPT
                    !.pc = IF k = None THEN "draft" ELSE "lookup",
                    !.request = q, !.key = k, !.number = requests + 1]]
    BY <1>1 DEF RunAction
  <2> DEFINE j == [Idle EXCEPT !.pc = IF k = None THEN "draft" ELSE "lookup",
                               !.request = q, !.key = k, !.number = requests + 1]
  <2>2. requests + 1 \in Nat
    BY DEF IInv, TypeOK
  <2>3. j \in Job /\ j.pc \in {"draft", "lookup"} /\ (j.pc = "lookup" => j.key \in Keys)
        /\ j.request \in Requests
    BY <2>2 DEF Idle, Job
  <2> HIDE DEF j
  <2>4. job'[t] = j /\ job' = [job EXCEPT ![t] = job'[t]]
    BY <2>1 DEF j, IInv, TypeOK
  <2>5. Sound(job[t])'
    BY <2>3, <2>4 DEF Sound, JobTyped, JobSound, ReviewOnFile, CopyIsFresh
  <2>6. requests' \in Nat /\ reviews \subseteq reviews' /\ reviews' \subseteq Review
        /\ UNCHANGED <<runs, keys>>
    BY <1>1, <2>2 DEF RunAction, IInv, TypeOK
  <2> QED
    BY <2>3, <2>4, <2>5, <2>6, OneJobMoves
<1>2. CASE ResolveReplay(t)
  <2>1. CASE Step(t, "draft")
    <3>1. Sound(job[t])'
      BY <1>2, <2>1, StageEffect
      DEF ResolveReplay, Sound, JobTyped, JobSound, ReviewOnFile, CopyIsFresh, Job
    <3> QED
      BY <1>2, <2>1, <3>1, StageEffect, OneJobMoves DEF ResolveReplay, IInv, TypeOK
  <2>2. CASE End(t)
    BY <1>2, <2>2, RequestEnds DEF ResolveReplay
  <2> QED
    BY <1>2, <2>1, <2>2 DEF ResolveReplay
<1>3. CASE GenerateDraft(t)
  <2>1. PICK p \in Drafted :
          job' = [job EXCEPT ![t].pc = "persist",
                    ![t].draft = [posture |-> p, key |-> job[t].key,
                                  output |-> [number |-> job[t].number, drafted |-> p]]]
    BY <1>3 DEF GenerateDraft
  <2>2. job[t] \in Job /\ Sound(job[t]) /\ job[t].pc = "draft"
    BY <1>3 DEF IInv, TypeOK, JobsSound, GenerateDraft
  <2> DEFINE d == [posture |-> p, key |-> job[t].key,
                   output |-> [number |-> job[t].number, drafted |-> p]]
  <2>3. d \in Run /\ d.posture = d.output.drafted
    BY <2>2 DEF Run, Output, Job
  <2>4. job' = [job EXCEPT ![t] = [job[t] EXCEPT !.pc = "persist", !.draft = d]]
    BY <2>1 DEF IInv, TypeOK
  <2> HIDE DEF d
  <2>5. /\ job'[t] = [job[t] EXCEPT !.pc = "persist", !.draft = d]
        /\ job' = [job EXCEPT ![t] = job'[t]]
    BY <2>4 DEF IInv, TypeOK
  <2>6. job'[t] \in Job
    BY <2>2, <2>3, <2>5 DEF Job
  <2>7. Sound(job[t])'
    BY <2>2, <2>3, <2>5 DEF Sound, JobTyped, JobSound, ReviewOnFile, CopyIsFresh, Job
  <2> QED
    BY <1>3, <2>5, <2>6, <2>7, OneJobMoves DEF GenerateDraft, IInv, TypeOK
<1>4. CASE CheckKey(t)
  <2>1. CASE Step(t, "insert")
    <3>1. Sound(job[t])'
      BY <1>4, <2>1, StageEffect
      DEF CheckKey, Sound, JobTyped, JobSound, ReviewOnFile, CopyIsFresh, Job
    <3> QED
      BY <1>4, <2>1, <3>1, StageEffect, OneJobMoves DEF CheckKey, IInv, TypeOK
  <2>2. CASE End(t)
    BY <1>4, <2>2, RequestEnds DEF CheckKey
  <2> QED
    BY <1>4, <2>1, <2>2 DEF CheckKey
<1> QED
  BY <1>1, <1>2, <1>3, <1>4

\* The look at the key before a draft is stored.
LEMMA FindExistingSound ==
  ASSUME IInv, NEW t \in Threads, FindExisting(t)
  PROVE  IInv'
<1> DEFINE q == job[t].request
           k == job[t].key
<1>1. CASE Step(t, "insert")
  <2>1. Sound(job[t])'
    BY <1>1, StageEffect
    DEF FindExisting, Sound, JobTyped, JobSound, ReviewOnFile, CopyIsFresh
  <2> QED
    BY <1>1, <2>1, StageEffect, OneJobMoves DEF FindExisting, IInv, TypeOK
<1>2. CASE k # None /\ Step(t, "save")
  <2>1. job[t].key \in Keys
    BY <1>2 DEF IInv, TypeOK, Job
  <2>2. Sound(job[t])'
    BY <1>2, <2>1, StageEffect
    DEF FindExisting, Sound, JobTyped, JobSound, ReviewOnFile, CopyIsFresh
  <2> QED
    BY <1>2, <2>2, StageEffect, OneJobMoves DEF FindExisting, IInv, TypeOK
<1>3. CASE /\ k # None /\ keys[k] # None /\ keys[k] = q
           /\ can_refresh(runs[q], job[t].draft.posture)
           /\ job' = [job EXCEPT ![t].pc = "refresh", ![t].copy = runs[q], ![t].fresh = TRUE]
  <2>1. job[t] \in Job /\ JobTyped(job[t]) /\ JobSound(job[t]) /\ job[t].pc = "persist"
    BY DEF FindExisting, IInv, TypeOK, JobsSound, Sound
  <2>2. q \in Requests /\ k \in Keys
    BY <1>3, <2>1 DEF JobTyped, Job
  <2>3. runs[q] \in Run /\ RowSound(runs[q])
    BY <1>3, <2>2 DEF IInv, TypeOK, KeysHaveRuns, RowsSound
  <2>4. runs[q].posture \notin Verdicts
    BY <1>3, RefreshableIsNoVerdict
  <2> DEFINE j == [job[t] EXCEPT !.pc = "refresh", !.copy = runs[q], !.fresh = TRUE]
  <2>5. job'[t] = j /\ job' = [job EXCEPT ![t] = job'[t]]
    BY <1>3 DEF IInv, TypeOK
  <2>6. /\ j \in Job /\ j.pc = "refresh" /\ j.copy = runs[q] /\ j.request = q
        /\ j.draft = job[t].draft
    BY <2>1, <2>3 DEF Job
  <2> HIDE DEF j
  <2>7. UNCHANGED runs
    BY DEF FindExisting
  <2>8. Sound(job[t])'
    <3>1. JobTyped(job[t])'
      BY <2>1, <2>2, <2>3, <2>5, <2>6 DEF JobTyped
    <3>2. JobSound(job[t])'
      BY <2>1, <2>3, <2>4, <2>5, <2>6 DEF JobSound
    <3>3. ReviewOnFile(job[t])' /\ CopyIsFresh(job[t])'
      BY <2>5, <2>6, <2>7 DEF ReviewOnFile, CopyIsFresh
    <3> QED
      BY <3>1, <3>2, <3>3 DEF Sound
  <2> QED
    BY <2>5, <2>6, <2>8, OneJobMoves DEF FindExisting, IInv, TypeOK
<1>4. CASE End(t)
  BY <1>4, RequestEnds DEF FindExisting
<1> QED
  BY <1>1, <1>2, <1>3, <1>4 DEF FindExisting

\* The stages of a review up to its update of the run.
LEMMA ReviewSound ==
  ASSUME IInv, NEW t \in Threads, ReviewRun(t) \/ RequireReviewable(t) \/ AppendReview(t)
  PROVE  IInv'
<1>1. CASE ReviewRun(t)
  <2>1. PICK q \in Requests, v \in Verdicts, a \in Actors, k \in Keys :
          /\ runs[q] # None
          /\ a # Creator[q]
          /\ job' = [job EXCEPT ![t] = [Idle EXCEPT
                       !.pc = "review", !.request = q, !.copy = runs[q],
                       !.review = [run |-> q, verdict |-> v, actor |-> a, key |-> k]]]
    BY <1>1 DEF ReviewRun
  <2> DEFINE review == [run |-> q, verdict |-> v, actor |-> a, key |-> k]
             j == [Idle EXCEPT !.pc = "review", !.request = q, !.copy = runs[q],
                               !.review = review]
  <2>2. review \in Review /\ review.run = q /\ review.actor # Creator[q]
    BY <2>1 DEF Review
  <2> HIDE DEF review
  <2>3. runs[q] \in Run /\ RowSound(runs[q])
    BY <2>1 DEF IInv, TypeOK, RowsSound
  <2>4. /\ j \in Job /\ j.pc = "review" /\ j.request = q /\ j.copy = runs[q]
        /\ j.review = review
    BY <2>2, <2>3 DEF Idle, Job
  <2>5. job'[t] = j /\ job' = [job EXCEPT ![t] = job'[t]]
    BY <2>1 DEF review, IInv, TypeOK
  <2> HIDE DEF j
  <2>6. UNCHANGED <<runs, keys, reviews>> /\ requests' \in Nat
    <3>1. requests \in Nat
      BY DEF IInv, TypeOK
    <3>2. UNCHANGED <<runs, keys, reviews>> /\ requests' = requests + 1
      BY <1>1 DEF ReviewRun
    <3> QED
      BY <3>1, <3>2
  <2>7. Sound(job[t])'
    BY <2>2, <2>3, <2>4, <2>5, <2>6
    DEF Sound, JobTyped, JobSound, ReviewOnFile, CopyIsFresh
  <2> QED
    BY <2>4, <2>5, <2>6, <2>7, OneJobMoves DEF IInv, TypeOK
<1>2. CASE RequireReviewable(t)
  <2>1. CASE ~is_terminal_review_posture(job[t].copy.posture) /\ Step(t, "append")
    <3>1. job[t].pc = "review"
      BY <1>2 DEF RequireReviewable
    <3>2. job[t].copy \in Run
      BY <2>1, <3>1, StageEffect DEF JobTyped
    <3>3. job[t].copy.posture = "REVIEW_REQUIRED"
      BY <2>1, <3>2, ReviewableWaits
    <3>4. Sound(job[t])'
      BY <1>2, <2>1, <3>1, <3>3, StageEffect
      DEF RequireReviewable, Sound, JobTyped, JobSound, ReviewOnFile, CopyIsFresh
    <3> QED
      BY <1>2, <2>1, <3>4, StageEffect, OneJobMoves DEF RequireReviewable, IInv, TypeOK
  <2>2. CASE End(t)
    BY <1>2, <2>2, RequestEnds DEF RequireReviewable
  <2> QED
    BY <1>2, <2>1, <2>2 DEF RequireReviewable
<1>3. CASE AppendReview(t)
  <2>1. Step(t, "update") /\ job[t].pc = "append" /\ UNCHANGED <<runs, keys, requests>>
    BY <1>3 DEF AppendReview
  <2>2. job[t].review \in Review
    BY <2>1, StageEffect DEF JobTyped
  <2>3. reviews \subseteq reviews' /\ reviews' \subseteq Review
    BY <1>3, <2>2 DEF AppendReview, IInv, TypeOK
  <2>4. ReviewOnFile(job[t])'
    BY <1>3, <2>1, StageEffect DEF AppendReview, ReviewOnFile, IgnoresReview
  <2>5. Sound(job[t])'
    BY <2>1, <2>4, StageEffect DEF Sound, JobTyped, JobSound, CopyIsFresh
  <2> QED
    BY <2>1, <2>3, <2>5, StageEffect, OneJobMoves DEF IInv, TypeOK
<1> QED
  BY <1>1, <1>2, <1>3

\* A row that may be stored, and the record its verdict rests on.
MayBeStored(q, row) ==
  /\ row \in Run
  /\ RowSound(row)
  /\ VerdictFits(row)
  /\ row.posture \in Verdicts =>
       \E r \in reviews : r.run = q /\ r.verdict = row.posture /\ r.actor # Creator[q]

\* An update of a row keeps the invariant, as every copy that was read before it
\* counts as stale.
LEMMA UpdateSound ==
  ASSUME IInv, NEW t \in Threads, NEW row, MayBeStored(job[t].request, row),
         job[t].request \in Requests, update_run(t, row),
         UNCHANGED <<keys, reviews, requests>>
  PROVE  IInv'
<1> DEFINE q == job[t].request
<1>1. /\ runs \in [Requests -> Run \cup {None}]
      /\ runs' = [runs EXCEPT ![q] = row]
      /\ row \in Run
  BY DEF update_run, WriteRow, IInv, TypeOK, MayBeStored
<1>2. /\ runs' \in [Requests -> Run \cup {None}]
      /\ runs'[q] = row
      /\ \A p \in Requests : p # q => runs'[p] = runs[p]
  BY <1>1
<1>3. job' = [u \in Threads |-> IF u = t THEN Idle
                                ELSE [job[u] EXCEPT !.fresh = @ /\ job[u].request # q]]
  BY DEF update_run
<1>4. \A u \in Threads \ {t} :
        /\ job'[u] = [job[u] EXCEPT !.fresh = job[u].fresh /\ job[u].request # q]
        /\ job'[u] \in Job
  <2> TAKE u \in Threads \ {t}
  <2>1. job[u] \in Job
    BY DEF IInv, TypeOK
  <2> DEFINE f == job[u].fresh /\ job[u].request # q
  <2>2. f \in BOOLEAN
    BY <2>1 DEF Job
  <2>3. job'[u] = [job[u] EXCEPT !.fresh = f]
    BY <1>3
  <2> HIDE DEF f
  <2>4. [job[u] EXCEPT !.fresh = f] \in Job
    BY <2>1, <2>2 DEF Job
  <2> QED
    BY <2>3, <2>4 DEF f
<1>5. TypeOK'
  <2>1. job' \in [Threads -> Job]
    BY <1>3, <1>4, IdleTyped
  <2> QED
    BY <1>2, <2>1 DEF IInv, TypeOK
<1>6. JobsSound'
  <2> SUFFICES ASSUME NEW u \in Threads
               PROVE  Sound(job[u])'
    BY DEF JobsSound
  <2>1. CASE u = t
    BY <1>3, <2>1, IdleTyped DEF Sound, JobTyped, JobSound, ReviewOnFile, CopyIsFresh
  <2>2. CASE u # t
    <3>1. job[u] \in Job /\ Sound(job[u])
      BY DEF IInv, TypeOK, JobsSound
    <3>2. /\ job'[u].pc = job[u].pc
          /\ job'[u].request = job[u].request
          /\ job'[u].key = job[u].key
          /\ job'[u].draft = job[u].draft
          /\ job'[u].review = job[u].review
          /\ job'[u].copy = job[u].copy
          /\ job'[u].fresh => job[u].fresh /\ job[u].request # q
      <4> DEFINE f == job[u].fresh /\ job[u].request # q
      <4>1. job'[u] = [job[u] EXCEPT !.fresh = f]
        BY <1>4, <2>2
      <4>2. f => job[u].fresh /\ job[u].request # q
        OBVIOUS
      <4> HIDE DEF f
      <4> QED
        BY <3>1, <4>1, <4>2 DEF Job
    <3>3. JobTyped(job[u])' /\ JobSound(job[u])'
      BY <3>1, <3>2 DEF Sound, JobTyped, JobSound
    <3>4. ReviewOnFile(job[u])'
      BY <3>1, <3>2 DEF Sound, ReviewOnFile, IgnoresReview
    <3>5. CopyIsFresh(job[u])'
      BY <1>2, <3>1, <3>2 DEF Sound, CopyIsFresh, JobTyped
    <3> QED
      BY <3>3, <3>4, <3>5 DEF Sound
  <2> QED
    BY <2>1, <2>2
<1>7. RowsSound'
  BY <1>2 DEF IInv, RowsSound, MayBeStored
<1>8. KeysHaveRuns'
  BY <1>2, RowsAssumption DEF IInv, TypeOK, KeysHaveRuns, MayBeStored
<1>9. VerdictIsOnRecord'
  BY <1>2 DEF IInv, VerdictIsOnRecord, MayBeStored
<1> QED
  BY <1>5, <1>6, <1>7, <1>8, <1>9 DEF IInv

LEMMA RefreshSound ==
  ASSUME IInv, NEW t \in Threads, Refresh(t)
  PROVE  IInv'
<1> DEFINE row == [job[t].draft EXCEPT !.key = job[t].copy.key]
<1>1. job[t].pc = "refresh" /\ JobTyped(job[t]) /\ JobSound(job[t])
  BY DEF Refresh, IInv, JobsSound, Sound
<1>2. job[t].draft \in Run /\ job[t].copy \in Run /\ job[t].request \in Requests
  BY <1>1 DEF JobTyped
<1>3. /\ row \in Run
      /\ row.posture = job[t].draft.posture
      /\ row.output = job[t].draft.output
  BY <1>2 DEF Run
<1>4. row.posture = row.output.drafted
  BY <1>1, <1>3 DEF JobSound
<1>5. row.posture \notin Verdicts
  BY <1>3, <1>4, DraftsAreNoVerdicts DEF Run, Output
<1> HIDE DEF row
<1>6. MayBeStored(job[t].request, row)
  BY <1>3, <1>4, <1>5 DEF MayBeStored, RowSound, VerdictFits
<1>7. update_run(t, row) /\ UNCHANGED <<keys, reviews, requests>>
  BY DEF Refresh, row
<1> QED
  BY <1>2, <1>6, <1>7, UpdateSound

LEMMA UpdateReviewedRunSound ==
  ASSUME IInv, NEW t \in Threads, UpdateReviewedRun(t)
  PROVE  IInv'
<1> DEFINE row == [job[t].copy EXCEPT !.posture = job[t].review.verdict]
<1>1. /\ job[t].pc = "update" /\ JobTyped(job[t]) /\ JobSound(job[t])
      /\ IgnoresReview(job[t].review)
  BY DEF UpdateReviewedRun, IInv, JobsSound, Sound, ReviewOnFile
<1>2. /\ job[t].copy \in Run /\ job[t].review \in Review
      /\ job[t].request \in Requests /\ job[t].review.run = job[t].request
  BY <1>1 DEF JobTyped
<1>3. job[t].review.verdict \in Verdicts
  BY <1>2 DEF Review
<1>4. /\ row \in Run
      /\ row.posture = job[t].review.verdict
      /\ row.output = job[t].copy.output
  BY <1>2, <1>3 DEF Run
<1>5. row.output.drafted = "REVIEW_REQUIRED"
  <2>1. RowSound(job[t].copy) /\ job[t].copy.posture = "REVIEW_REQUIRED"
    BY <1>1 DEF JobSound
  <2>2. "REVIEW_REQUIRED" \notin Verdicts
    BY DraftsAreNoVerdicts DEF Drafted
  <2> QED
    BY <1>4, <2>1, <2>2 DEF RowSound
<1>6. \E r \in reviews : /\ r.run = job[t].request
                         /\ r.verdict = row.posture
                         /\ r.actor # Creator[job[t].request]
  BY <1>1, <1>2, <1>4 DEF IgnoresReview, JobSound
<1> HIDE DEF row
<1>7. MayBeStored(job[t].request, row)
  BY <1>3, <1>4, <1>5, <1>6 DEF MayBeStored, RowSound, VerdictFits
<1>8. update_run(t, row) /\ UNCHANGED <<keys, reviews, requests>>
  BY DEF UpdateReviewedRun, row
<1> QED
  BY <1>2, <1>7, <1>8, UpdateSound

\* The insertion of a run stores a draft where there is no row, and a key only with
\* its run there.
LEMMA InsertRunSound ==
  ASSUME IInv, NEW t \in Threads, InsertRun(t)
  PROVE  IInv'
<1> DEFINE q == job[t].request
           k == job[t].key
           d == job[t].draft
<1>1. job[t].pc = "insert" /\ job[t] \in Job /\ JobTyped(job[t]) /\ JobSound(job[t])
  BY DEF InsertRun, IInv, TypeOK, JobsSound, Sound
<1>2. q \in Requests /\ d \in Run /\ d.posture = d.output.drafted
  BY <1>1 DEF JobTyped, JobSound
<1>3. d.posture \notin Verdicts
  BY <1>2, DraftsAreNoVerdicts DEF Run, Output
<1>4. /\ runs \in [Requests -> Run \cup {None}]
      /\ runs' = [runs EXCEPT ![q] = IF runs[q] = None THEN d ELSE runs[q]]
  BY DEF InsertRun, IInv, TypeOK
<1>5. /\ runs' \in [Requests -> Run \cup {None}]
      /\ \A p \in Requests : runs[p] # None => runs'[p] = runs[p]
      /\ \A p \in Requests : runs[p] = None => runs'[p] = None \/ runs'[p] = d
      /\ runs'[q] # None
  BY <1>2, <1>4, RowsAssumption
<1>6. keys' = [j \in Keys |-> IF j = k /\ keys[j] = None THEN q ELSE keys[j]]
  BY DEF InsertRun
<1>7. job' = [job EXCEPT ![t] = Idle] /\ UNCHANGED <<reviews, requests>>
  BY DEF InsertRun, End
<1>8. TypeOK'
  <2>1. keys' \in [Keys -> Requests \cup {None}]
    BY <1>2, <1>6 DEF IInv, TypeOK
  <2> QED
    BY <1>5, <1>7, <2>1, IdleTyped DEF IInv, TypeOK
<1>9. JobsSound'
  <2> SUFFICES ASSUME NEW u \in Threads
               PROVE  Sound(job[u])'
    BY DEF JobsSound
  <2>1. CASE u = t
    <3>1. job'[u].pc = "idle"
      BY <1>7, <2>1, IdleTyped DEF IInv, TypeOK
    <3> QED
      BY <3>1 DEF Sound, JobTyped, JobSound, ReviewOnFile, CopyIsFresh
  <2>2. CASE u # t
    <3>1. job'[u] = job[u] /\ Sound(job[u])
      BY <1>7, <2>2 DEF IInv, TypeOK, JobsSound
    <3>2. ReviewOnFile(job[u])'
      BY <1>7, <3>1 DEF Sound, ReviewOnFile, IgnoresReview
    <3>3. CopyIsFresh(job[u])'
      BY <1>5, <3>1, RowsAssumption DEF Sound, CopyIsFresh, JobTyped
    <3> QED
      BY <3>1, <3>2, <3>3 DEF Sound, JobTyped, JobSound
  <2> QED
    BY <2>1, <2>2
<1>10. RowsSound'
  <2> SUFFICES ASSUME NEW p \in Requests, runs'[p] # None
               PROVE  RowSound(runs'[p]) /\ VerdictFits(runs'[p])
    BY DEF RowsSound, RowSound, VerdictFits
  <2>1. CASE runs[p] # None
    BY <1>5, <2>1 DEF IInv, RowsSound
  <2>2. CASE runs[p] = None
    BY <1>2, <1>3, <1>5, <2>2 DEF RowSound, VerdictFits
  <2> QED
    BY <2>1, <2>2
<1>11. KeysHaveRuns'
  BY <1>5, <1>6 DEF IInv, TypeOK, KeysHaveRuns
<1>12. VerdictIsOnRecord'
  <2> SUFFICES ASSUME NEW p \in Requests, runs'[p] # None, runs'[p].posture \in Verdicts
               PROVE  \E r \in reviews : /\ r.run = p
                                         /\ r.verdict = runs'[p].posture
                                         /\ r.actor # Creator[p]
    BY <1>7 DEF VerdictIsOnRecord
  <2>1. runs[p] # None
    BY <1>3, <1>5
  <2> QED
    BY <1>5, <2>1 DEF IInv, VerdictIsOnRecord
<1> QED
  BY <1>8, <1>9, <1>10, <1>11, <1>12 DEF IInv

\* Every step keeps the invariant.
THEOREM StepSound == IInv /\ [Next]_vars => IInv'
<1> SUFFICES ASSUME IInv, [Next]_vars
             PROVE  IInv'
  OBVIOUS
<1>1. CASE UNCHANGED vars
  <2>1. UNCHANGED <<runs, keys, reviews, job, requests>>
    BY <1>1 DEF vars
  <2>2. TypeOK' /\ RowsSound' /\ KeysHaveRuns' /\ VerdictIsOnRecord'
    BY <2>1 DEF IInv, TypeOK, RowsSound, KeysHaveRuns, VerdictIsOnRecord
  <2>3. JobsSound'
    BY <2>1 DEF IInv, JobsSound, Sound, JobTyped, JobSound, ReviewOnFile, CopyIsFresh,
                IgnoresReview
  <2> QED
    BY <2>2, <2>3 DEF IInv
<1>2. ASSUME NEW t \in Threads,
             \/ RunAction(t) \/ ResolveReplay(t) \/ GenerateDraft(t) \/ FindExisting(t)
             \/ Refresh(t) \/ CheckKey(t) \/ InsertRun(t)
             \/ ReviewRun(t) \/ RequireReviewable(t) \/ AppendReview(t)
             \/ UpdateReviewedRun(t) \/ Fail(t)
      PROVE  IInv'
  <2>1. CASE RunAction(t) \/ ResolveReplay(t) \/ GenerateDraft(t) \/ CheckKey(t)
    BY <2>1, RunActionSound
  <2>2. CASE FindExisting(t)
    BY <2>2, FindExistingSound
  <2>3. CASE Refresh(t)
    BY <2>3, RefreshSound
  <2>4. CASE InsertRun(t)
    BY <2>4, InsertRunSound
  <2>5. CASE ReviewRun(t) \/ RequireReviewable(t) \/ AppendReview(t)
    BY <2>5, ReviewSound
  <2>6. CASE UpdateReviewedRun(t)
    BY <2>6, UpdateReviewedRunSound
  <2>7. CASE Fail(t)
    BY <2>7, RequestEnds DEF Fail
  <2> QED
    BY <1>2, <2>1, <2>2, <2>3, <2>4, <2>5, <2>6, <2>7
<1> QED
  BY <1>1, <1>2 DEF Next

THEOREM Invariance == Spec => []IInv
  BY InitSound, StepSound, PTL DEF Spec

-----------------------------------------------------------------------------
(* The theorems.                                                           *)

\* The tables hold rows and every thread a request of its kind, whatever fails.
THEOREM TypeCorrect == Spec => []TypeOK
<1>1. IInv => TypeOK
  BY DEF IInv
<1> QED
  BY <1>1, Invariance, PTL

\* A verdict shows only over an output that was drafted for review: both the row a
\* review read and the row its update writes carry the same output.
THEOREM VerdictsAreOnReviewableOutput == Spec => []VerdictIsOnReviewableOutput
<1>1. IInv => VerdictIsOnReviewableOutput
  BY DEF IInv, RowsSound, VerdictFits, VerdictIsOnReviewableOutput
<1> QED
  BY <1>1, Invariance, PTL

\* Every verdict a run shows is on record, by someone other than its creator.
THEOREM VerdictsAreOnRecord == Spec => []VerdictIsOnRecord
<1>1. IInv => VerdictIsOnRecord
  BY DEF IInv
<1> QED
  BY <1>1, Invariance, PTL

\* Who replaces a verdict holds a copy that was read before it was written: a fresh
\* copy is the row, and neither a refresh nor a review starts from a verdict.
THEOREM VerdictsFallToStaleCopies == Spec => VerdictFallsToAStaleCopy
<1> DEFINE Falls(q) == runs[q] # None /\ runs[q].posture \in Verdicts /\ runs'[q] # runs[q]
           Stale(q) == \E t \in Threads : job'[t] # job[t] /\ job[t].request = q /\ ~job[t].fresh
<1>1. ASSUME IInv, [Next]_vars, NEW q \in Requests, Falls(q)
      PROVE  Stale(q)
  <2>1. ~UNCHANGED vars
    BY <1>1 DEF vars
  <2>2. PICK t \in Threads : Refresh(t) \/ InsertRun(t) \/ UpdateReviewedRun(t)
    BY <1>1, <2>1
    DEF Next, RunAction, ResolveReplay, GenerateDraft, FindExisting, CheckKey, ReviewRun,
        RequireReviewable, AppendReview, Fail
  <2>3. ~InsertRun(t)
    BY <1>1 DEF InsertRun, IInv, TypeOK
  <2>4. job[t].pc \in {"refresh", "update"}
    BY <2>2, <2>3 DEF Refresh, UpdateReviewedRun
  <2>5. job[t].request = q
    BY <1>1, <2>2, <2>3 DEF Refresh, UpdateReviewedRun, update_run, WriteRow, IInv, TypeOK
  <2>6. job[t].copy.posture \notin Verdicts
    <3>1. JobSound(job[t])
      BY <1>1 DEF IInv, JobsSound, Sound
    <3>2. "REVIEW_REQUIRED" \notin Verdicts
      BY DraftsAreNoVerdicts DEF Drafted
    <3> QED
      BY <2>4, <3>1, <3>2 DEF JobSound
  <2>7. ~job[t].fresh
    BY <1>1, <2>4, <2>5, <2>6 DEF IInv, JobsSound, Sound, CopyIsFresh
  <2>8. job'[t] = Idle
    BY <2>2, <2>3 DEF Refresh, UpdateReviewedRun, update_run
  <2> QED
    BY <2>4, <2>5, <2>7, <2>8, IdleTyped
<1>2. IInv /\ [Next]_vars
        => [\A q \in Requests : Falls(q) => Stale(q)]_vars
  BY <1>1
<1> QED
  BY <1>2, Invariance, PTL DEF Spec, VerdictFallsToAStaleCopy
=============================================================================
