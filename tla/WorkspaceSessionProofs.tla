------------------------ MODULE WorkspaceSessionProofs ------------------------
(***************************************************************************)
(* Theorems about WorkspaceSession, for any number of threads, drafts and  *)
(* keys, and whatever the bounds.                                          *)
(*                                                                         *)
(* A save stores a copy read at any time before, so the invariant says of  *)
(* every copy what it says of the session and its saved versions.  What is *)
(* true of a lineage stays true, as the versions of proposals only grow.   *)
(***************************************************************************)
EXTENDS WorkspaceSession, SequenceTheorems, TLAPS

-----------------------------------------------------------------------------
(* The inductive invariant.                                                *)

IsTrue(proposal, version, draft) ==
  /\ proposal \in DOMAIN proposals
  /\ version \in DOMAIN proposals[proposal]
  /\ proposals[proposal][version] = draft

\* The evidence of a piece of work fits its result, and its lineage is true.
WorkSound(w) ==
  /\ IF w.evidence = None THEN w.result = None
     ELSE /\ w.evidence.request = w.result
          /\ w.result # None => w.evidence.draft = w.result
  /\ w.evidence # None /\ w.evidence.handoff # None
       => LET l == w.evidence.handoff IN IsTrue(l.proposal, l.version, l.draft)

SessionSound(s) ==
  /\ WorkSound(s)
  /\ s.link # None => s.link.proposal \in DOMAIN proposals

RowsSound(rows) == \A i \in DOMAIN rows : rows[i].no = i /\ WorkSound(rows[i])

HoldsSession == {"reading", "loaded", "absent", "answered"}
HoldsRows == {"loaded", "absent", "answered"}

\* What a handoff has been answered: a version made from the draft of its copy, and
\* for a linked copy the one after its link.
AnswerSound(j) ==
  /\ IsTrue(j.answer.proposal, j.answer.version, j.session.draft)
  /\ j.session.link # None =>
       /\ j.answer.proposal = j.session.link.proposal
       /\ j.answer.version > j.session.link.version

JobSound(j) ==
  /\ j.pc \in HoldsSession => SessionSound(j.session)
  /\ RowsSound(j.saved)
  /\ j.pc = "absent" => j.session.link = None
  /\ j.pc = "answered" => AnswerSound(j)

\* A fresh copy is what is stored.
CopyIsFresh(j) ==
  j.fresh => /\ j.pc \in HoldsSession => j.session = session
             /\ j.pc \in HoldsRows => j.saved = saved

JobsSound == \A t \in Threads : JobSound(job[t]) /\ CopyIsFresh(job[t])

KeysSound == \A k \in Keys : keys[k] # None => IsTrue(keys[k].proposal, 1, keys[k].draft)

IInv ==
  /\ TypeOK
  /\ SessionSound(session)
  /\ RowsSound(saved)
  /\ JobsSound
  /\ KeysSound

-----------------------------------------------------------------------------
(* Lemmas about the building blocks.                                       *)

\* What TypeOK says of a request.
JobTyped(j) ==
  /\ j \in Job
  /\ j.pc \notin {"idle", "reload"} => j.session # None
  /\ j.pc = "absent" => j.key # None
  /\ j.pc = "answered" => j.answer # None

LEMMA IdleTyped ==
  /\ JobTyped(Idle) /\ Idle.pc = "idle" /\ Idle.saved = <<>>
  /\ JobTyped([Idle EXCEPT !.pc = "reload"])
  /\ [Idle EXCEPT !.pc = "reload"].pc = "reload" /\ [Idle EXCEPT !.pc = "reload"].saved = <<>>
<1>1. <<>> \in Seq(SavedVersion)
  BY EmptySeq
<1> QED
  BY <1>1 DEF Idle, Job, Operations, JobTyped

\* Versions of proposals are added and stay.
Grown ==
  /\ proposals' \in Seq(Seq(Drafts))
  /\ \A p \in DOMAIN proposals :
       /\ p \in DOMAIN proposals'
       /\ \A v \in DOMAIN proposals[p] :
            v \in DOMAIN proposals'[p] /\ proposals'[p][v] = proposals[p][v]

LEMMA UnchangedGrows ==
  ASSUME TypeOK, UNCHANGED proposals
  PROVE  Grown
  BY DEF Grown, TypeOK

LEMMA ProposalGrows ==
  ASSUME proposals \in Seq(Seq(Drafts)), NEW d \in Drafts,
         proposals' = Append(proposals, <<d>>)
  PROVE  /\ Grown
         /\ Len(proposals) + 1 \in Nat
         /\ Len(proposals) + 1 \in DOMAIN proposals'
         /\ 1 \in DOMAIN proposals'[Len(proposals) + 1]
         /\ proposals'[Len(proposals) + 1][1] = d
<1>1. <<d>> \in Seq(Drafts) /\ DOMAIN <<d>> = 1..1 /\ <<d>>[1] = d
  OBVIOUS
<1>2. /\ Len(proposals) \in Nat /\ DOMAIN proposals = 1..Len(proposals)
      /\ proposals' \in Seq(Seq(Drafts))
      /\ Len(proposals') = Len(proposals) + 1
      /\ \A i \in 1..Len(proposals) : proposals'[i] = proposals[i]
      /\ proposals'[Len(proposals) + 1] = <<d>>
  BY <1>1, AppendProperties, LenProperties
<1>3. DOMAIN proposals' = 1..(Len(proposals) + 1)
  BY <1>2, LenProperties
<1> QED
  BY <1>1, <1>2, <1>3 DEF Grown

LEMMA VersionGrows ==
  ASSUME proposals \in Seq(Seq(Drafts)), NEW p \in DOMAIN proposals, NEW d \in Drafts,
         proposals' = [proposals EXCEPT ![p] = Append(@, d)]
  PROVE  /\ Grown
         /\ p \in Nat /\ Len(proposals[p]) + 1 \in Nat
         /\ p \in DOMAIN proposals'
         /\ Len(proposals[p]) + 1 \in DOMAIN proposals'[p]
         /\ proposals'[p][Len(proposals[p]) + 1] = d
<1> DEFINE old == proposals[p]
           new == Append(old, d)
<1>1. Len(proposals) \in Nat /\ DOMAIN proposals = 1..Len(proposals)
  BY LenProperties
<1>2. p \in 1..Len(proposals) /\ old \in Seq(Drafts)
  BY <1>1, ElementOfSeq
<1>3. /\ Len(old) \in Nat /\ DOMAIN old = 1..Len(old)
      /\ new \in Seq(Drafts) /\ Len(new) = Len(old) + 1
      /\ \A i \in 1..Len(old) : new[i] = old[i]
      /\ new[Len(old) + 1] = d
  BY <1>2, AppendProperties, LenProperties
<1>4. DOMAIN new = 1..(Len(old) + 1)
  BY <1>3, LenProperties
<1>5. proposals' = [proposals EXCEPT ![p] = new]
  OBVIOUS
<1> HIDE DEF new
<1>6. proposals' \in Seq(Seq(Drafts))
  BY <1>2, <1>3, <1>5, ExceptSeq
<1>7. /\ DOMAIN proposals' = DOMAIN proposals
      /\ proposals'[p] = new
      /\ \A q \in DOMAIN proposals : q # p => proposals'[q] = proposals[q]
  BY <1>5
<1>8. Grown
  <2> SUFFICES ASSUME NEW q \in DOMAIN proposals
               PROVE  /\ q \in DOMAIN proposals'
                      /\ \A v \in DOMAIN proposals[q] :
                           v \in DOMAIN proposals'[q] /\ proposals'[q][v] = proposals[q][v]
    BY <1>6 DEF Grown
  <2>1. CASE q = p
    BY <1>3, <1>4, <1>7, <2>1
  <2>2. CASE q # p
    BY <1>7, <2>2
  <2> QED
    BY <2>1, <2>2
<1> QED
  BY <1>2, <1>3, <1>4, <1>7, <1>8

\* What is sound stays sound while versions are added.
LEMMA SoundnessStays ==
  ASSUME Grown
  PROVE  /\ \A p, v, d : IsTrue(p, v, d) => IsTrue(p, v, d)'
         /\ \A s : SessionSound(s) => SessionSound(s)'
         /\ \A rows : RowsSound(rows) => RowsSound(rows)'
         /\ \A j : JobSound(j) => JobSound(j)'
<1>1. \A p, v, d : IsTrue(p, v, d) => IsTrue(p, v, d)'
  BY DEF Grown, IsTrue
<1>2. \A w : WorkSound(w) => WorkSound(w)'
  BY <1>1 DEF WorkSound
<1>3. \A s : SessionSound(s) => SessionSound(s)'
  BY <1>2 DEF SessionSound, Grown
<1>4. \A rows : RowsSound(rows) => RowsSound(rows)'
  BY <1>2 DEF RowsSound
<1>5. \A j : JobSound(j) => JobSound(j)'
  BY <1>1, <1>3, <1>4 DEF JobSound, AnswerSound
<1> QED
  BY <1>1, <1>3, <1>4, <1>5

\* A step of one request that saves no session.
LEMMA OneJobMoves ==
  ASSUME IInv, NEW t \in Threads,
         job' = [job EXCEPT ![t] = job'[t]], JobTyped(job'[t]),
         JobSound(job[t])', CopyIsFresh(job[t])',
         Grown, UNCHANGED <<session, saved, requests>>,
         keys' \in [Keys -> [draft : Drafts, proposal : Nat] \cup {None}], KeysSound'
  PROVE  IInv'
<1>1. \A u \in Threads : u # t => job'[u] = job[u]
  BY DEF IInv, TypeOK
<1>2. TypeOK'
  <2>1. job' \in [Threads -> Job]
    BY DEF JobTyped, IInv, TypeOK
  <2> QED
    BY <1>1, <2>1 DEF JobTyped, Grown, IInv, TypeOK
<1>3. SessionSound(session)' /\ RowsSound(saved)'
  BY SoundnessStays DEF IInv
<1>4. JobsSound'
  <2> SUFFICES ASSUME NEW u \in Threads, u # t
               PROVE  JobSound(job[u])' /\ CopyIsFresh(job[u])'
    BY DEF JobsSound
  <2>1. job'[u] = job[u] /\ JobSound(job[u]) /\ CopyIsFresh(job[u])
    BY <1>1 DEF IInv, JobsSound
  <2> QED
    BY <2>1, SoundnessStays DEF CopyIsFresh
<1> QED
  BY <1>2, <1>3, <1>4 DEF IInv

\* The records of the keys stay true while versions are added.
LEMMA KeysStaySound ==
  ASSUME IInv, Grown, UNCHANGED keys
  PROVE  KeysSound' /\ keys' \in [Keys -> [draft : Drafts, proposal : Nat] \cup {None}]
<1>1. \A p, v, d : IsTrue(p, v, d) => IsTrue(p, v, d)'
  BY SoundnessStays
<1>2. KeysSound'
  BY <1>1 DEF IInv, KeysSound
<1> QED
  BY <1>2 DEF IInv, TypeOK

\* A request that ends without a save.
LEMMA RequestEnds ==
  ASSUME IInv, NEW t \in Threads, job' = [job EXCEPT ![t] = Idle],
         UNCHANGED <<session, saved, proposals, keys, requests>>
  PROVE  IInv'
<1>1. job'[t] = Idle /\ job' = [job EXCEPT ![t] = job'[t]]
  BY DEF IInv, TypeOK
<1>2. JobSound(job[t])' /\ CopyIsFresh(job[t])'
  BY <1>1, IdleTyped DEF JobSound, CopyIsFresh, HoldsSession, HoldsRows, RowsSound
<1>3. Grown
  BY UnchangedGrows DEF IInv
<1> QED
  BY <1>1, <1>2, <1>3, IdleTyped, KeysStaySound, OneJobMoves

\* A save stores a sound copy; every other copy is stale from then on.
LEMMA SaveSound ==
  ASSUME IInv, NEW t \in Threads,
         NEW copy \in Session, SessionSound(copy),
         NEW rows \in Seq(SavedVersion), RowsSound(rows),
         NEW next \in {Idle, [Idle EXCEPT !.pc = "reload"]},
         Save(t, copy, rows, next)
  PROVE  IInv'
<1>1. /\ session' = copy /\ saved' = rows
      /\ UNCHANGED <<proposals, keys, requests>>
      /\ job' = [u \in Threads |-> IF u = t THEN next ELSE [job[u] EXCEPT !.fresh = FALSE]]
  BY DEF Save, ReplaceSavedVersions
<1>2. Grown
  BY <1>1, UnchangedGrows DEF IInv
<1>3. \A u \in Threads : u # t =>
        /\ job'[u] \in Job
        /\ job'[u].pc = job[u].pc
        /\ job'[u].key = job[u].key
        /\ job'[u].session = job[u].session
        /\ job'[u].saved = job[u].saved
        /\ job'[u].answer = job[u].answer
        /\ job'[u].fresh = FALSE
  BY <1>1 DEF IInv, TypeOK, Job
<1>4. job'[t] = next /\ JobTyped(next) /\ next.pc \in {"idle", "reload"} /\ next.saved = <<>>
  BY <1>1, IdleTyped
<1>5. TypeOK'
  <2>1. job' \in [Threads -> Job]
    BY <1>1, <1>3, <1>4 DEF JobTyped
  <2>2. ASSUME NEW u \in Threads
        PROVE  JobTyped(job'[u])
    <3>1. CASE u = t
      BY <1>4, <3>1
    <3>2. CASE u # t
      BY <1>3, <3>2 DEF JobTyped, IInv, TypeOK
    <3> QED
      BY <3>1, <3>2
  <2> QED
    BY <1>1, <2>1, <2>2 DEF JobTyped, IInv, TypeOK
<1>6. SessionSound(session)' /\ RowsSound(saved)'
  <2>1. SessionSound(copy)' /\ RowsSound(rows)'
    BY <1>2, SoundnessStays
  <2> QED
    BY <1>1, <2>1 DEF SessionSound, RowsSound, WorkSound, IsTrue
<1>7. JobsSound'
  <2> SUFFICES ASSUME NEW u \in Threads
               PROVE  JobSound(job[u])' /\ CopyIsFresh(job[u])'
    BY DEF JobsSound
  <2>1. CASE u = t
    BY <1>4, <2>1 DEF JobSound, CopyIsFresh, HoldsSession, HoldsRows, RowsSound
  <2>2. CASE u # t
    <3>1. JobSound(job[u])
      BY DEF IInv, JobsSound
    <3>2. SessionSound(job[u].session) => SessionSound(job[u].session)'
      <4>1. \A s : SessionSound(s) => SessionSound(s)'
        BY <1>2, SoundnessStays
      <4> QED
        BY <1>3, <2>2, <4>1
    <3>3. RowsSound(job[u].saved) => RowsSound(job[u].saved)'
      <4>1. \A rs : RowsSound(rs) => RowsSound(rs)'
        BY <1>2, SoundnessStays
      <4> QED
        BY <1>3, <2>2, <4>1
    <3>4. AnswerSound(job[u]) => AnswerSound(job[u])'
      BY <1>1, <1>3, <2>2 DEF AnswerSound, IsTrue
    <3> QED
      BY <1>3, <2>2, <3>1, <3>2, <3>3, <3>4 DEF JobSound, CopyIsFresh
  <2> QED
    BY <2>1, <2>2
<1> QED
  BY <1>1, <1>2, <1>5, <1>6, <1>7, KeysStaySound DEF IInv

-----------------------------------------------------------------------------
(* The invariant is inductive.                                             *)

THEOREM InitSound == Init => IInv
<1> SUFFICES ASSUME Init
             PROVE  IInv
  OBVIOUS
<1>1. PICK d \in Drafts : session = NewSession(d)
  BY DEF Init
<1>2. /\ session \in Session /\ session.evidence = None /\ session.result = None
      /\ session.link = None
  BY <1>1 DEF NewSession, Session
<1>3. TypeOK
  <2>1. saved \in Seq(SavedVersion) /\ proposals \in Seq(Seq(Drafts))
    BY EmptySeq DEF Init
  <2> QED
    BY <1>2, <2>1, IdleTyped DEF Init, TypeOK, JobTyped
<1>4. SessionSound(session)
  BY <1>2 DEF SessionSound, WorkSound
<1>5. RowsSound(saved) /\ KeysSound
  BY DEF Init, RowsSound, KeysSound
<1>6. JobsSound
  BY <1>5, IdleTyped
  DEF Init, JobsSound, JobSound, CopyIsFresh, HoldsSession, HoldsRows
<1> QED
  BY <1>3, <1>4, <1>5, <1>6 DEF IInv

\* The two SELECTs of a read, the first of a request or of its second half.
LEMMA ReadSound ==
  ASSUME IInv, NEW t \in Threads, GetAgain(t) \/ GetSavedVersions(t)
  PROVE  IInv'
<1>0. Grown /\ KeysSound' /\ keys' \in [Keys -> [draft : Drafts, proposal : Nat] \cup {None}]
  BY UnchangedGrows, KeysStaySound DEF IInv, GetAgain, GetSavedVersions
<1>1. CASE GetAgain(t)
  <2> DEFINE j == [Idle EXCEPT !.pc = "reading", !.op = "evaluate", !.session = session]
  <2>1. /\ session \in Session /\ session # None /\ SessionSound(session)
    BY RowsAssumption DEF IInv, TypeOK
  <2>2. /\ JobTyped(j) /\ j.pc = "reading" /\ j.session = session /\ j.saved = <<>>
    BY <2>1, IdleTyped DEF Idle, JobTyped, Job, Operations
  <2> HIDE DEF j
  <2>3. job'[t] = j /\ job' = [job EXCEPT ![t] = job'[t]]
    BY <1>1 DEF GetAgain, j, IInv, TypeOK
  <2>4. UNCHANGED <<session, saved, requests>>
    BY <1>1 DEF GetAgain
  <2>5. SessionSound(session)'
    BY <1>0, <2>1, <2>4, SoundnessStays
  <2>6. JobSound(job[t])' /\ CopyIsFresh(job[t])'
    BY <2>2, <2>3, <2>4, <2>5
    DEF JobSound, CopyIsFresh, HoldsSession, HoldsRows, RowsSound
  <2> QED
    BY <1>0, <2>2, <2>3, <2>4, <2>6, OneJobMoves
<1>2. CASE GetSavedVersions(t)
  <2> DEFINE j == [job[t] EXCEPT !.pc = "loaded", !.saved = saved]
  <2>1. /\ JobTyped(job[t]) /\ JobSound(job[t]) /\ CopyIsFresh(job[t])
        /\ job[t].pc = "reading"
    BY <1>2 DEF IInv, TypeOK, JobTyped, JobsSound, GetSavedVersions
  <2>2. saved \in Seq(SavedVersion) /\ RowsSound(saved)
    BY DEF IInv, TypeOK
  <2>3. /\ JobTyped(j) /\ j.pc = "loaded" /\ j.session = job[t].session /\ j.saved = saved
        /\ j.fresh = job[t].fresh
    BY <2>1, <2>2 DEF JobTyped, Job
  <2> HIDE DEF j
  <2>4. job'[t] = j /\ job' = [job EXCEPT ![t] = job'[t]]
    BY <1>2 DEF GetSavedVersions, j, IInv, TypeOK
  <2>5. UNCHANGED <<session, saved, requests>>
    BY <1>2 DEF GetSavedVersions
  <2>6. SessionSound(job[t].session)'
    <3>1. SessionSound(job[t].session)
      BY <2>1 DEF JobSound, HoldsSession
    <3>2. \A s : SessionSound(s) => SessionSound(s)'
      BY <1>0, SoundnessStays
    <3> QED
      BY <2>3, <2>4, <3>1, <3>2
  <2>7. RowsSound(job[t].saved)'
    <3>1. \A rows : RowsSound(rows) => RowsSound(rows)'
      BY <1>0, SoundnessStays
    <3> QED
      BY <2>2, <2>3, <2>4, <3>1
  <2>8. JobSound(job[t])' /\ CopyIsFresh(job[t])'
    BY <2>1, <2>3, <2>4, <2>5, <2>6, <2>7
    DEF JobSound, CopyIsFresh, HoldsSession, HoldsRows
  <2> QED
    BY <1>0, <2>3, <2>4, <2>5, <2>8, OneJobMoves
<1> QED
  BY <1>1, <1>2

\* The start of a request differs from its second half in the request it counts.
LEMMA GetSound ==
  ASSUME IInv, NEW t \in Threads, Get(t)
  PROVE  IInv'
<1>1. PICK op \in Operations, key \in Keys \cup {None} :
        job' = [job EXCEPT ![t] = [Idle EXCEPT
                  !.pc = "reading", !.op = op, !.key = key, !.session = session]]
  BY DEF Get
<1> DEFINE j == [Idle EXCEPT !.pc = "reading", !.op = op, !.key = key, !.session = session]
<1>2. session \in Session /\ session # None /\ SessionSound(session)
  BY RowsAssumption DEF IInv, TypeOK
<1>3. JobTyped(j) /\ j.pc = "reading" /\ j.session = session /\ j.saved = <<>>
  BY <1>2, IdleTyped DEF Idle, JobTyped, Job
<1> HIDE DEF j
<1>4. job'[t] = j /\ \A u \in Threads : u # t => job'[u] = job[u]
  BY <1>1 DEF j, IInv, TypeOK
<1>5. UNCHANGED <<session, saved, proposals, keys>> /\ requests' = requests + 1
  BY DEF Get
<1>6. Grown
  BY <1>5, UnchangedGrows DEF IInv
<1>7. TypeOK'
  <2>1. job' \in [Threads -> Job] /\ requests' \in Nat
    <3>1. job' = [job EXCEPT ![t] = j] /\ j \in Job /\ job \in [Threads -> Job]
      BY <1>1, <1>3 DEF j, JobTyped, IInv, TypeOK
    <3>2. requests \in Nat
      BY DEF IInv, TypeOK
    <3> QED
      BY <1>5, <3>1, <3>2
  <2>2. \A u \in Threads : JobTyped(job'[u])
    BY <1>3, <1>4 DEF JobTyped, IInv, TypeOK
  <2> QED
    BY <1>5, <2>1, <2>2 DEF JobTyped, IInv, TypeOK
<1>8. SessionSound(session)' /\ RowsSound(saved)'
  BY <1>5, <1>6, SoundnessStays DEF IInv
<1>9. JobsSound'
  <2> SUFFICES ASSUME NEW u \in Threads
               PROVE  JobSound(job[u])' /\ CopyIsFresh(job[u])'
    BY DEF JobsSound
  <2>1. CASE u = t
    BY <1>3, <1>4, <1>5, <1>8, <2>1
    DEF JobSound, CopyIsFresh, HoldsSession, HoldsRows, RowsSound
  <2>2. CASE u # t
    <3>1. job'[u] = job[u] /\ JobSound(job[u]) /\ CopyIsFresh(job[u])
      BY <1>4, <2>2 DEF IInv, JobsSound
    <3> QED
      BY <1>5, <1>6, <3>1, SoundnessStays DEF CopyIsFresh
  <2> QED
    BY <2>1, <2>2
<1> QED
  BY <1>5, <1>6, <1>7, <1>8, <1>9, KeysStaySound DEF IInv

\* What a thread that has read the workspace may save.
LEMMA LoadedCopy ==
  ASSUME IInv, NEW t \in Threads, job[t].pc \in HoldsRows
  PROVE  /\ job[t] \in Job
         /\ job[t].session \in Session /\ SessionSound(job[t].session)
         /\ job[t].saved \in Seq(SavedVersion) /\ RowsSound(job[t].saved)
<1>1. job[t] \in Job /\ job[t].session # None /\ JobSound(job[t])
  BY DEF IInv, TypeOK, JobsSound, HoldsRows
<1> QED
  BY <1>1 DEF Job, JobSound, HoldsSession, HoldsRows

LEMMA EditSound ==
  ASSUME IInv, NEW t \in Threads, SaveDraft(t) \/ SaveEvaluation(t)
  PROVE  IInv'
<1>1. job[t].pc \in HoldsRows
  BY DEF SaveDraft, SaveEvaluation, Loaded, HoldsRows
<1> DEFINE copy == job[t].session
<1>2. /\ copy \in Session /\ SessionSound(copy)
      /\ job[t].saved \in Seq(SavedVersion) /\ RowsSound(job[t].saved)
  BY <1>1, LoadedCopy
<1>3. CASE SaveDraft(t)
  <2>1. PICK d \in Drafts : Save(t, [copy EXCEPT !.draft = d], job[t].saved,
                                 [Idle EXCEPT !.pc = "reload"])
    BY <1>3 DEF SaveDraft
  <2> DEFINE new == [copy EXCEPT !.draft = d]
  <2>2. /\ new \in Session /\ new.result = copy.result /\ new.evidence = copy.evidence
        /\ new.link = copy.link
    BY <1>2 DEF Session
  <2> HIDE DEF new
  <2>3. SessionSound(new)
    BY <1>2, <2>2 DEF SessionSound, WorkSound
  <2> QED
    BY <1>2, <2>1, <2>2, <2>3, SaveSound DEF new
<1>4. CASE SaveEvaluation(t)
  <2> DEFINE e == build_replay_evidence(copy.draft, copy.draft)
  <2>1. copy.draft \in Drafts
    BY <1>2 DEF Session
  <2>2. /\ e \in Evidence /\ e.draft = copy.draft /\ e.request = copy.draft /\ e.handoff = None
    BY <2>1 DEF build_replay_evidence, Evidence
  <2> HIDE DEF e
  <2>3. Evaluated(copy) = [copy EXCEPT !.result = copy.draft, !.evidence = e]
    BY DEF Evaluated, e
  <2>4. /\ Evaluated(copy) \in Session
        /\ Evaluated(copy).result = copy.draft /\ Evaluated(copy).evidence = e
        /\ Evaluated(copy).link = copy.link
    BY <1>2, <2>1, <2>2, <2>3 DEF Session
  <2>5. SessionSound(Evaluated(copy))
    BY <1>2, <2>2, <2>4, RowsAssumption DEF SessionSound, WorkSound
  <2> QED
    BY <1>2, <1>4, <2>4, <2>5, SaveSound DEF SaveEvaluation
<1> QED
  BY <1>3, <1>4

\* A saved version takes the next number of the copy.
LEMMA SavedRowTyped ==
  ASSUME IInv, NEW t \in Threads, job[t].pc \in HoldsRows
  PROVE  build_saved_workspace_version(job[t].session, job[t].saved, <<t, requests>>)
           \in SavedVersion
<1> DEFINE copy == job[t].session
           rows == job[t].saved
<1>1. copy \in Session /\ rows \in Seq(SavedVersion)
  BY LoadedCopy
<1>2. Len(rows) \in Nat
  BY <1>1, LenProperties
<1>3. copy.evidence # None => copy.evidence \in Evidence
  BY <1>1 DEF Session
<1>4. build_replay_evidence(copy.draft, None) \in Evidence
  BY <1>1 DEF Session, Evidence, build_replay_evidence
<1>5. <<t, requests>> \in Threads \X Nat /\ Len(rows) + 1 \in Nat
  BY <1>2 DEF IInv, TypeOK
<1>6. copy.draft \in Drafts /\ copy.result \in Drafts \cup {None}
  BY <1>1 DEF Session
<1> QED
  BY <1>3, <1>4, <1>5, <1>6 DEF SavedVersion, build_saved_workspace_version

LEMMA SaveVersionSound ==
  ASSUME IInv, NEW t \in Threads, SaveVersion(t)
  PROVE  IInv'
<1> DEFINE copy == job[t].session
           rows == job[t].saved
           row == build_saved_workspace_version(copy, rows, <<t, requests>>)
<1>1. /\ job[t].pc \in HoldsRows
      /\ Save(t, copy, Append(rows, row), Idle)
  BY DEF SaveVersion, Loaded, HoldsRows
<1>2. copy \in Session /\ SessionSound(copy) /\ rows \in Seq(SavedVersion) /\ RowsSound(rows)
  BY <1>1, LoadedCopy
<1>3. Len(rows) \in Nat /\ DOMAIN rows = 1..Len(rows)
  BY <1>2, LenProperties
<1> DEFINE e == IF copy.evidence # None THEN copy.evidence
                                        ELSE build_replay_evidence(copy.draft, None)
<1>4. e \in Evidence /\ (copy.evidence # None => e = copy.evidence)
      /\ (copy.evidence = None => e.request = None /\ e.handoff = None)
  BY <1>2 DEF Session, Evidence, build_replay_evidence
<1>5. /\ row.no = Len(rows) + 1 /\ row.result = copy.result /\ row.evidence = e
      /\ row.draft = copy.draft
      /\ row = [id |-> <<t, requests>>, no |-> Len(rows) + 1, draft |-> copy.draft,
                result |-> copy.result, evidence |-> e]
  BY DEF build_saved_workspace_version
<1> HIDE DEF e, row
<1>6. row \in SavedVersion
  BY <1>1, SavedRowTyped DEF row
<1>7. WorkSound(row)
  BY <1>2, <1>4, <1>5, RowsAssumption DEF SessionSound, WorkSound
<1>8. /\ Append(rows, row) \in Seq(SavedVersion)
      /\ DOMAIN Append(rows, row) = 1..(Len(rows) + 1)
      /\ \A i \in 1..Len(rows) : Append(rows, row)[i] = rows[i]
      /\ Append(rows, row)[Len(rows) + 1] = row
  BY <1>2, <1>6, AppendProperties, LenProperties
<1>9. RowsSound(Append(rows, row))
  <2> SUFFICES ASSUME NEW i \in DOMAIN Append(rows, row)
               PROVE  Append(rows, row)[i].no = i /\ WorkSound(Append(rows, row)[i])
    BY DEF RowsSound
  <2>1. CASE i = Len(rows) + 1
    BY <1>5, <1>7, <1>8, <2>1
  <2>2. CASE i # Len(rows) + 1
    BY <1>2, <1>3, <1>8, <2>2 DEF RowsSound
  <2> QED
    BY <2>1, <2>2
<1> QED
  BY <1>1, <1>2, <1>8, <1>9, SaveSound

LEMMA ResumeVersionSound ==
  ASSUME IInv, NEW t \in Threads, ResumeVersion(t)
  PROVE  IInv'
<1> DEFINE copy == job[t].session
           rows == job[t].saved
<1>1. job[t].pc \in HoldsRows
  BY DEF ResumeVersion, Loaded, HoldsRows
<1>2. copy \in Session /\ SessionSound(copy) /\ rows \in Seq(SavedVersion) /\ RowsSound(rows)
  BY <1>1, LoadedCopy
<1>3. PICK i \in DOMAIN rows : Save(t, apply_saved_workspace_version(copy, rows[i]), rows, Idle)
  BY DEF ResumeVersion
<1> DEFINE new == apply_saved_workspace_version(copy, rows[i])
<1>4. rows[i] \in SavedVersion /\ WorkSound(rows[i])
  BY <1>2, ElementOfSeq, LenProperties DEF RowsSound
<1>5. /\ new \in Session /\ new.result = rows[i].result /\ new.evidence = rows[i].evidence
      /\ new.link = copy.link
  BY <1>2, <1>4 DEF apply_saved_workspace_version, Session, SavedVersion
<1> HIDE DEF new
<1>6. SessionSound(new)
  BY <1>2, <1>4, <1>5 DEF SessionSound, WorkSound
<1> QED
  BY <1>2, <1>3, <1>5, <1>6, SaveSound DEF new

\* A handoff takes a true answer.
LEMMA AnswerKeepsSound ==
  ASSUME IInv, NEW t \in Threads, job[t].pc \in HoldsRows,
         NEW p \in Nat, NEW v \in Nat, Answer(t, p, v), Grown,
         p \in DOMAIN proposals', v \in DOMAIN proposals'[p],
         proposals'[p][v] = job[t].session.draft,
         job[t].session.link # None =>
           p = job[t].session.link.proposal /\ v > job[t].session.link.version,
         UNCHANGED <<session, saved, requests>>,
         keys' \in [Keys -> [draft : Drafts, proposal : Nat] \cup {None}], KeysSound'
  PROVE  IInv'
<1> DEFINE a == [proposal |-> p, version |-> v]
           j == [job[t] EXCEPT !.pc = "answered", !.answer = a]
<1>1. /\ JobTyped(job[t]) /\ JobSound(job[t]) /\ CopyIsFresh(job[t])
      /\ job[t].session # None
  BY DEF IInv, TypeOK, JobTyped, JobsSound, HoldsRows
<1>2. a \in Link /\ a # None
  BY RowsAssumption DEF Link
<1>3. /\ j \in Job /\ j.pc = "answered" /\ j.answer = a /\ j.session = job[t].session
      /\ j.saved = job[t].saved /\ j.fresh = job[t].fresh
  BY <1>1, <1>2 DEF JobTyped, Job
<1>4. JobTyped(j)
  BY <1>1, <1>2, <1>3 DEF JobTyped
<1> HIDE DEF j
<1>5. job'[t] = j /\ job' = [job EXCEPT ![t] = job'[t]]
  BY DEF Answer, j, IInv, TypeOK
<1>6. SessionSound(job[t].session)' /\ RowsSound(job[t].saved)'
  <2>1. SessionSound(job[t].session) /\ RowsSound(job[t].saved)
    BY LoadedCopy
  <2>2. /\ \A s : SessionSound(s) => SessionSound(s)'
        /\ \A rows : RowsSound(rows) => RowsSound(rows)'
    BY SoundnessStays
  <2> QED
    BY <1>3, <1>5, <2>1, <2>2
<1>7. AnswerSound(job[t])'
  BY <1>3, <1>5 DEF AnswerSound, IsTrue
<1>8. JobSound(job[t])'
  BY <1>3, <1>5, <1>6, <1>7 DEF JobSound
<1>9. CopyIsFresh(job[t])'
  BY <1>1, <1>3, <1>5 DEF CopyIsFresh, HoldsSession, HoldsRows
<1> QED
  BY <1>4, <1>5, <1>8, <1>9, OneJobMoves

LEMMA LookUpKeySound ==
  ASSUME IInv, NEW t \in Threads, LookUpKey(t)
  PROVE  IInv'
<1> DEFINE copy == job[t].session
           record == keys[job[t].key]
<1>1. /\ job[t].pc = "loaded" /\ copy.link = None /\ job[t].key # None
      /\ UNCHANGED <<session, saved, proposals, keys, requests>>
  BY DEF LookUpKey, Loaded
<1>2. /\ JobTyped(job[t]) /\ JobSound(job[t]) /\ CopyIsFresh(job[t])
  BY DEF IInv, TypeOK, JobTyped, JobsSound
<1>3. job[t].key \in Keys
  BY <1>1, <1>2 DEF JobTyped, Job
<1>4. Grown /\ KeysSound' /\ keys' \in [Keys -> [draft : Drafts, proposal : Nat] \cup {None}]
  BY <1>1, UnchangedGrows, KeysStaySound DEF IInv
<1>5. CASE job' = [job EXCEPT ![t].pc = "absent"]
  <2> DEFINE j == [job[t] EXCEPT !.pc = "absent"]
  <2>1. /\ JobTyped(j) /\ j.pc = "absent" /\ j.session = copy /\ j.saved = job[t].saved
        /\ j.fresh = job[t].fresh
    BY <1>1, <1>2 DEF JobTyped, Job
  <2> HIDE DEF j
  <2>2. job'[t] = j /\ job' = [job EXCEPT ![t] = job'[t]]
    BY <1>5 DEF j, IInv, TypeOK
  <2>3. SessionSound(job[t].session)' /\ RowsSound(job[t].saved)'
    <3>1. SessionSound(copy) /\ RowsSound(job[t].saved)
      BY <1>1, LoadedCopy DEF HoldsRows
    <3>2. /\ \A s : SessionSound(s) => SessionSound(s)'
          /\ \A rows : RowsSound(rows) => RowsSound(rows)'
      BY <1>4, SoundnessStays
    <3> QED
      BY <2>1, <2>2, <3>1, <3>2
  <2>4. JobSound(job[t])' /\ CopyIsFresh(job[t])'
    BY <1>1, <1>2, <2>1, <2>2, <2>3 DEF JobSound, CopyIsFresh, HoldsSession, HoldsRows
  <2> QED
    BY <1>1, <1>4, <2>1, <2>2, <2>4, OneJobMoves
<1>6. CASE SameRequest(record, copy.draft) /\ Answer(t, record.proposal, 1)
  <2>1. record # None /\ record.draft = copy.draft
    BY <1>6 DEF SameRequest
  <2>2. record.proposal \in Nat /\ IsTrue(record.proposal, 1, copy.draft)
    BY <1>3, <2>1 DEF IInv, TypeOK, KeysSound
  <2> QED
    BY <1>1, <1>4, <1>6, <2>2, AnswerKeepsSound DEF IsTrue, HoldsRows
<1> QED
  BY <1>1, <1>5, <1>6 DEF LookUpKey

LEMMA CommitProposalSound ==
  ASSUME IInv, NEW t \in Threads, CommitProposal(t)
  PROVE  IInv'
<1> DEFINE d == job[t].session.draft
           n == Len(proposals) + 1
           record == [draft |-> d, proposal |-> n]
<1>1. /\ job[t].pc = "absent"
      /\ proposals' = Append(proposals, <<d>>)
      /\ keys' = [keys EXCEPT ![job[t].key] = record]
      /\ Answer(t, n, 1)
      /\ UNCHANGED <<session, saved, requests>>
  BY DEF CommitProposal
<1>2. d \in Drafts /\ job[t].session.link = None
  BY <1>1, LoadedCopy DEF HoldsRows, Session, IInv, JobsSound, JobSound
<1>3. /\ Grown /\ n \in Nat /\ n \in DOMAIN proposals'
      /\ 1 \in DOMAIN proposals'[n] /\ proposals'[n][1] = d
  BY <1>1, <1>2, ProposalGrows DEF IInv, TypeOK
<1>4. record \in [draft : Drafts, proposal : Nat]
  BY <1>2, <1>3
<1>5. keys' \in [Keys -> [draft : Drafts, proposal : Nat] \cup {None}]
  BY <1>1, <1>4 DEF IInv, TypeOK
<1>6. KeysSound'
  <2> SUFFICES ASSUME NEW k \in Keys, keys'[k] # None
               PROVE  IsTrue(keys[k].proposal, 1, keys[k].draft)'
    BY DEF KeysSound
  <2>1. CASE k = job[t].key
    <3>1. keys'[k] = record
      BY <1>1, <2>1 DEF IInv, TypeOK
    <3> QED
      BY <1>3, <3>1 DEF IsTrue
  <2>2. CASE k # job[t].key
    <3>1. keys'[k] = keys[k] /\ keys[k] # None
      BY <1>1, <2>2 DEF IInv, TypeOK
    <3>2. IsTrue(keys[k].proposal, 1, keys[k].draft)
      BY <3>1 DEF IInv, KeysSound
    <3>3. \A p, v, e : IsTrue(p, v, e) => IsTrue(p, v, e)'
      BY <1>3, SoundnessStays
    <3> QED
      BY <3>1, <3>2, <3>3
  <2> QED
    BY <2>1, <2>2
<1> HIDE DEF d, n
<1> QED
  BY <1>1, <1>2, <1>3, <1>5, <1>6, AnswerKeepsSound DEF HoldsRows, d

LEMMA CommitVersionSound ==
  ASSUME IInv, NEW t \in Threads, CommitVersion(t)
  PROVE  IInv'
<1> DEFINE copy == job[t].session
           p == copy.link.proposal
           v == copy.link.version
<1>1. /\ job[t].pc \in HoldsRows /\ copy.link # None
      /\ v = Len(proposals[p])
      /\ proposals' = [proposals EXCEPT ![p] = Append(@, copy.draft)]
      /\ Answer(t, p, v + 1)
      /\ UNCHANGED <<session, saved, keys, requests>>
  BY DEF CommitVersion, Loaded, HoldsRows
<1>2. copy.draft \in Drafts /\ copy.link \in Link /\ p \in DOMAIN proposals
  BY <1>1, LoadedCopy DEF Session, SessionSound
<1>3. v \in Nat /\ p \in Nat /\ v + 1 \in Nat /\ v + 1 > v
  BY <1>2 DEF Link
<1>4. /\ Grown /\ p \in DOMAIN proposals'
      /\ v + 1 \in DOMAIN proposals'[p] /\ proposals'[p][v + 1] = copy.draft
  BY <1>1, <1>2, VersionGrows DEF IInv, TypeOK
<1>5. KeysSound' /\ keys' \in [Keys -> [draft : Drafts, proposal : Nat] \cup {None}]
  BY <1>1, <1>4, KeysStaySound
<1> QED
  BY <1>1, <1>3, <1>4, <1>5, AnswerKeepsSound

\* The rows a handoff saves: the matching one takes the lineage.
LinkedRows(t) ==
  LET copy == job[t].session
      rows == job[t].saved IN
  [i \in DOMAIN rows |-> IF i \in find_matching_saved_version(copy, rows)
                         THEN [rows[i] EXCEPT !.evidence.handoff = HandoffLineage(t)]
                         ELSE rows[i]]

LinkedSession(t) ==
  [job[t].session EXCEPT !.link = job[t].answer,
                         !.evidence = IF @ = None THEN None
                                      ELSE [@ EXCEPT !.handoff = HandoffLineage(t)]]

\* Evidence that takes the lineage of a true answer stays sound.
LEMMA LinkedRowsSound ==
  ASSUME IInv, NEW t \in Threads, job[t].pc = "answered"
  PROVE  /\ LinkedSession(t) \in Session /\ SessionSound(LinkedSession(t))
         /\ LinkedSession(t).link = job[t].answer
         /\ LinkedRows(t) \in Seq(SavedVersion) /\ RowsSound(LinkedRows(t))
         /\ DOMAIN LinkedRows(t) = DOMAIN job[t].saved
         /\ \A i \in DOMAIN job[t].saved : LinkedRows(t)[i].id = job[t].saved[i].id
<1> DEFINE copy == job[t].session
           rows == job[t].saved
           lineage == HandoffLineage(t)
<1>1. /\ copy \in Session /\ SessionSound(copy)
      /\ rows \in Seq(SavedVersion) /\ RowsSound(rows)
  BY LoadedCopy DEF HoldsRows
<1>2. AnswerSound(job[t]) /\ job[t].answer \in Link
  BY DEF IInv, TypeOK, Job, JobsSound, JobSound
<1>3. /\ lineage \in Lineage
      /\ IsTrue(lineage.proposal, lineage.version, lineage.draft)
  BY <1>1, <1>2 DEF HandoffLineage, Lineage, Link, Session, AnswerSound
<1> HIDE DEF lineage
<1>4. ASSUME NEW e \in Evidence
      PROVE  /\ [e EXCEPT !.handoff = lineage] \in Evidence
             /\ [e EXCEPT !.handoff = lineage].draft = e.draft
             /\ [e EXCEPT !.handoff = lineage].request = e.request
             /\ [e EXCEPT !.handoff = lineage].handoff = lineage
  BY <1>3 DEF Evidence
<1>5. /\ LinkedSession(t) \in Session /\ SessionSound(LinkedSession(t))
      /\ LinkedSession(t).link = job[t].answer
  <2> DEFINE e == IF copy.evidence = None THEN None
                  ELSE [copy.evidence EXCEPT !.handoff = lineage]
             new == [copy EXCEPT !.link = job[t].answer, !.evidence = e]
  <2>1. LinkedSession(t) = new
    BY <1>1 DEF LinkedSession, Session, lineage
  <2>2. e \in Evidence \cup {None}
    BY <1>1, <1>4 DEF Session
  <2> HIDE DEF e
  <2>3. /\ new \in Session /\ new.link = job[t].answer /\ new.evidence = e
        /\ new.result = copy.result
    BY <1>1, <1>2, <2>2 DEF Session
  <2> HIDE DEF new
  <2>4. WorkSound(new)
    <3>1. CASE copy.evidence = None
      <4>1. e = None /\ copy.result = None
        BY <1>1, <3>1 DEF e, SessionSound, WorkSound
      <4> QED
        BY <2>3, <4>1 DEF WorkSound
    <3>2. CASE copy.evidence # None
      <4>1. copy.evidence \in Evidence
        BY <1>1, <3>2 DEF Session
      <4>2. /\ e # None /\ e.draft = copy.evidence.draft /\ e.request = copy.evidence.request
            /\ e.handoff = lineage
        BY <1>4, <2>2, <3>2, <4>1, RowsAssumption DEF e
      <4>3. /\ copy.evidence.request = copy.result
            /\ copy.result # None => copy.evidence.draft = copy.result
        BY <1>1, <3>2 DEF SessionSound, WorkSound
      <4> QED
        BY <1>3, <2>3, <4>2, <4>3 DEF WorkSound
    <3> QED
      BY <3>1, <3>2
  <2>5. job[t].answer.proposal \in DOMAIN proposals
    BY <1>2 DEF AnswerSound, IsTrue
  <2> QED
    BY <2>1, <2>3, <2>4, <2>5 DEF SessionSound
<1>6. Len(rows) \in Nat /\ DOMAIN rows = 1..Len(rows)
  BY <1>1, LenProperties
<1>7. ASSUME NEW i \in DOMAIN rows
      PROVE  /\ LinkedRows(t)[i] \in SavedVersion
             /\ LinkedRows(t)[i].id = rows[i].id
             /\ LinkedRows(t)[i].no = i /\ WorkSound(LinkedRows(t)[i])
  <2>1. rows[i] \in SavedVersion /\ rows[i].no = i /\ WorkSound(rows[i])
    BY <1>1, <1>6, ElementOfSeq DEF RowsSound
  <2>2. CASE LinkedRows(t)[i] = rows[i]
    BY <2>1, <2>2
  <2>3. CASE LinkedRows(t)[i] = [rows[i] EXCEPT !.evidence.handoff = lineage]
    <3> DEFINE e == [rows[i].evidence EXCEPT !.handoff = lineage]
               new == [rows[i] EXCEPT !.evidence = e]
    <3>1. rows[i].evidence \in Evidence
      BY <2>1 DEF SavedVersion
    <3>2. /\ e \in Evidence /\ e # None /\ e.draft = rows[i].evidence.draft
          /\ e.request = rows[i].evidence.request /\ e.handoff = lineage
      BY <1>4, <3>1, RowsAssumption
    <3> HIDE DEF e
    <3>3. LinkedRows(t)[i] = new
      BY <2>3 DEF e
    <3>4. /\ new \in SavedVersion /\ new.id = rows[i].id /\ new.no = rows[i].no
          /\ new.evidence = e /\ new.result = rows[i].result
      BY <2>1, <3>2 DEF SavedVersion
    <3> HIDE DEF new
    <3>5. WorkSound(new)
      BY <1>3, <2>1, <3>1, <3>2, <3>4, RowsAssumption DEF WorkSound
    <3> QED
      BY <2>1, <3>3, <3>4, <3>5
  <2> QED
    BY <2>2, <2>3 DEF LinkedRows, lineage
<1>8. DOMAIN LinkedRows(t) = DOMAIN rows
  BY DEF LinkedRows
<1>9. LinkedRows(t) \in [1..Len(rows) -> SavedVersion]
  <2>1. LinkedRows(t) = [i \in 1..Len(rows) |-> LinkedRows(t)[i]]
    BY <1>6 DEF LinkedRows
  <2> QED
    BY <1>6, <1>7, <2>1
<1>10. LinkedRows(t) \in Seq(SavedVersion)
  BY <1>6, <1>9, SeqDef
<1> QED
  BY <1>5, <1>7, <1>8, <1>10 DEF RowsSound

LEMMA SaveLinkSound ==
  ASSUME IInv, NEW t \in Threads, SaveLink(t)
  PROVE  IInv'
<1>1. job[t].pc = "answered" /\ Save(t, LinkedSession(t), LinkedRows(t), Idle)
  BY DEF SaveLink, LinkedSession, LinkedRows
<1> QED
  BY <1>1, LinkedRowsSound, SaveSound

LEMMA OtherVersionSound ==
  ASSUME IInv, OtherVersion
  PROVE  IInv'
<1>1. PICK p \in DOMAIN proposals, d \in Drafts :
        proposals' = [proposals EXCEPT ![p] = Append(@, d)]
  BY DEF OtherVersion
<1>2. Grown
  BY <1>1, VersionGrows DEF IInv, TypeOK
<1>3. UNCHANGED <<session, saved, keys, job>> /\ requests' = requests + 1
  BY DEF OtherVersion
<1>4. TypeOK'
  <2>1. requests' \in Nat
    BY <1>3 DEF IInv, TypeOK
  <2> QED
    BY <1>2, <1>3, <2>1 DEF Grown, IInv, TypeOK
<1>5. SessionSound(session)' /\ RowsSound(saved)'
  BY <1>2, <1>3, SoundnessStays DEF IInv
<1>6. JobsSound'
  BY <1>2, <1>3, SoundnessStays DEF IInv, JobsSound, CopyIsFresh
<1> QED
  BY <1>2, <1>3, <1>4, <1>5, <1>6, KeysStaySound DEF IInv

\* Every step keeps the invariant.
THEOREM StepSound == IInv /\ [Next]_vars => IInv'
<1> SUFFICES ASSUME IInv, [Next]_vars
             PROVE  IInv'
  OBVIOUS
<1>1. CASE UNCHANGED vars
  <2>1. UNCHANGED <<session, saved, proposals, keys, job, requests>>
    BY <1>1 DEF vars
  <2>2. Grown
    BY <2>1, UnchangedGrows DEF IInv
  <2>3. TypeOK'
    BY <2>1 DEF IInv, TypeOK
  <2>4. SessionSound(session)' /\ RowsSound(saved)' /\ JobsSound'
    BY <2>1, <2>2, SoundnessStays DEF IInv, JobsSound, CopyIsFresh
  <2> QED
    BY <2>1, <2>2, <2>3, <2>4, KeysStaySound DEF IInv
<1>2. ASSUME NEW t \in Threads,
             \/ Get(t) \/ GetAgain(t) \/ GetSavedVersions(t)
             \/ SaveDraft(t) \/ SaveEvaluation(t) \/ SaveVersion(t) \/ ResumeVersion(t)
             \/ LookUpKey(t) \/ CommitProposal(t) \/ CommitVersion(t) \/ SaveLink(t)
             \/ Fail(t)
      PROVE  IInv'
  <2>1. CASE Get(t)
    BY <2>1, GetSound
  <2>2. CASE GetAgain(t) \/ GetSavedVersions(t)
    BY <2>2, ReadSound
  <2>3. CASE SaveDraft(t) \/ SaveEvaluation(t)
    BY <2>3, EditSound
  <2>4. CASE SaveVersion(t) \/ ResumeVersion(t)
    BY <2>4, SaveVersionSound, ResumeVersionSound
  <2>5. CASE LookUpKey(t)
    BY <2>5, LookUpKeySound
  <2>6. CASE CommitProposal(t) \/ CommitVersion(t)
    BY <2>6, CommitProposalSound, CommitVersionSound
  <2>7. CASE SaveLink(t)
    BY <2>7, SaveLinkSound
  <2>8. CASE Fail(t)
    BY <2>8, RequestEnds DEF Fail
  <2> QED
    BY <1>2, <2>1, <2>2, <2>3, <2>4, <2>5, <2>6, <2>7, <2>8
<1>3. CASE OtherVersion
  BY <1>3, OtherVersionSound
<1> QED
  BY <1>1, <1>2, <1>3 DEF Next

THEOREM Invariance == Spec => []IInv
  BY InitSound, StepSound, PTL DEF Spec

-----------------------------------------------------------------------------
(* The theorems.                                                           *)

\* The stored documents and the copies of the threads are well typed.
THEOREM TypeCorrect == Spec => []TypeOK
<1>1. IInv => TypeOK
  BY DEF IInv
<1> QED
  BY <1>1, Invariance, PTL

\* The saved versions are numbered 1, 2, 3, ...: a copy is numbered that way when it
\* is read, and a save replaces all of them by a copy.
THEOREM VersionsAlwaysNumbered == Spec => []VersionsAreNumbered
<1>1. IInv => VersionsAreNumbered
  BY DEF IInv, RowsSound, VersionsAreNumbered
<1> QED
  BY <1>1, Invariance, PTL

\* Result and evidence are written, saved and resumed together.
THEOREM EvidenceAlwaysFits == Spec => []EvidenceFitsResult
<1>1. IInv => EvidenceFitsResult
  BY DEF IInv, SessionSound, RowsSound, WorkSound, EvidenceFitsResult
<1> QED
  BY <1>1, Invariance, PTL

\* A lineage names a version made from its draft: it is written only after the
\* proposal or version is committed, and versions do not change.
THEOREM LineageAlwaysTrue == Spec => []LineageIsTrue
<1>1. IInv => LineageIsTrue
  <2> SUFFICES ASSUME IInv, NEW l \in Lineages
               PROVE  IsTrue(l.proposal, l.version, l.draft)
    BY DEF LineageIsTrue, IsTrue
  <2>1. PICK w \in {session} \cup {saved[i] : i \in DOMAIN saved} :
          w.evidence # None /\ l = w.evidence.handoff /\ l # None
    BY DEF Lineages
  <2>2. WorkSound(w)
    BY <2>1 DEF IInv, SessionSound, RowsSound
  <2> QED
    BY <2>1, <2>2 DEF WorkSound
<1> QED
  BY <1>1, Invariance, PTL

-----------------------------------------------------------------------------
(* What a save keeps of the copy it was made from.                         *)

\* The link of copy stays or moves on, and no saved version of rows goes missing.
Keeps(copy, rows, newCopy, newRows) ==
  /\ copy.link # None =>
       /\ newCopy.link # None
       /\ newCopy.link.proposal = copy.link.proposal
       /\ ~(newCopy.link.version < copy.link.version)
  /\ \A i \in DOMAIN rows : i \in DOMAIN newRows /\ newRows[i].id = rows[i].id

LEMMA SameLinkKeeps ==
  ASSUME NEW copy \in Session, NEW newCopy, newCopy.link = copy.link, NEW rows, NEW newRows,
         \A i \in DOMAIN rows : i \in DOMAIN newRows /\ newRows[i].id = rows[i].id
  PROVE  Keeps(copy, rows, newCopy, newRows)
<1>1. copy.link # None => ~(copy.link.version < copy.link.version)
  BY DEF Session, Link
<1> QED
  BY <1>1 DEF Keeps

Saves(t) == SaveDraft(t) \/ SaveEvaluation(t) \/ SaveVersion(t) \/ ResumeVersion(t) \/ SaveLink(t)

\* Every save keeps what its thread has read.
LEMMA SaveKeepsItsCopy ==
  ASSUME IInv, NEW t \in Threads, Saves(t)
  PROVE  /\ Keeps(job[t].session, job[t].saved, session', saved')
         /\ job[t].pc \in HoldsRows
         /\ job'[t] \in {Idle, [Idle EXCEPT !.pc = "reload"]}
<1> DEFINE copy == job[t].session
           rows == job[t].saved
<1>1. job[t].pc \in HoldsRows
  BY DEF Saves, SaveDraft, SaveEvaluation, SaveVersion, ResumeVersion, SaveLink, Loaded, HoldsRows
<1>2. copy \in Session /\ rows \in Seq(SavedVersion)
  BY <1>1, LoadedCopy
<1>3. CASE SaveDraft(t) \/ SaveEvaluation(t)
  <2>1. /\ session'.link = copy.link /\ saved' = rows
        /\ job'[t] \in {Idle, [Idle EXCEPT !.pc = "reload"]}
    <3>1. CASE SaveDraft(t)
      BY <1>2, <3>1 DEF SaveDraft, Save, ReplaceSavedVersions, Session
    <3>2. CASE SaveEvaluation(t)
      BY <1>2, <3>2 DEF SaveEvaluation, Evaluated, Save, ReplaceSavedVersions, Session
    <3> QED
      BY <1>3, <3>1, <3>2
  <2> QED
    BY <1>1, <1>2, <2>1, SameLinkKeeps
<1>4. CASE SaveVersion(t)
  <2> DEFINE row == build_saved_workspace_version(copy, rows, <<t, requests>>)
  <2>1. row \in SavedVersion
    BY <1>1, SavedRowTyped
  <2>2. session' = copy /\ saved' = Append(rows, row) /\ job'[t] = Idle
    BY <1>4 DEF SaveVersion, Save, ReplaceSavedVersions
  <2> HIDE DEF row
  <2>3. \A i \in DOMAIN rows : i \in DOMAIN Append(rows, row) /\ Append(rows, row)[i] = rows[i]
    BY <1>2, <2>1, AppendProperties, LenProperties
  <2> QED
    BY <1>1, <1>2, <2>2, <2>3, SameLinkKeeps
<1>5. CASE ResumeVersion(t)
  <2>1. PICK i \in DOMAIN rows : Save(t, apply_saved_workspace_version(copy, rows[i]), rows, Idle)
    BY <1>5 DEF ResumeVersion
  <2>2. session'.link = copy.link /\ saved' = rows /\ job'[t] = Idle
    BY <1>2, <2>1 DEF Save, ReplaceSavedVersions, Session, apply_saved_workspace_version
  <2> QED
    BY <1>1, <1>2, <2>2, SameLinkKeeps
<1>6. CASE SaveLink(t)
  <2>1. job[t].pc = "answered" /\ Save(t, LinkedSession(t), LinkedRows(t), Idle)
    BY <1>6 DEF SaveLink, LinkedSession, LinkedRows
  <2>2. /\ session'.link = job[t].answer
        /\ \A i \in DOMAIN rows : i \in DOMAIN saved' /\ saved'[i].id = rows[i].id
        /\ job'[t] = Idle
    BY <2>1, LinkedRowsSound DEF Save, ReplaceSavedVersions
  <2>3. AnswerSound(job[t]) /\ job[t].answer \in Link
    BY <2>1 DEF IInv, TypeOK, Job, JobsSound, JobSound
  <2>4. copy.link # None =>
          /\ job[t].answer.proposal = copy.link.proposal
          /\ ~(job[t].answer.version < copy.link.version)
    BY <1>2, <2>3 DEF AnswerSound, Session, Link
  <2>5. job[t].answer # None
    BY <2>3, RowsAssumption
  <2> QED
    BY <1>1, <2>2, <2>4, <2>5 DEF Keeps
<1> QED
  BY <1>3, <1>4, <1>5, <1>6 DEF Saves

\* Who takes back a link or a saved version holds a copy read before another save:
\* a fresh copy is what is stored, and a save keeps what its copy holds.
THEOREM LostToStaleCopies == Spec => LostOnlyToAStaleCopy
<1> DEFINE Lost == LinkMovesBack \/ VersionDisappears
           Stale == \E t \in Threads : job'[t] # job[t] /\ ~job[t].fresh /\ job'[t].fresh
<1>1. ASSUME IInv, [Next]_vars, Lost
      PROVE  Stale
  <2>1. ~UNCHANGED <<session, saved>>
    <3>1. Keeps(session, saved, session, saved)
      BY <1>1, SameLinkKeeps DEF IInv, TypeOK
    <3> QED
      BY <1>1, <3>1 DEF Keeps, LinkMovesBack, VersionDisappears
  <2>2. PICK t \in Threads : Saves(t)
    BY <1>1, <2>1
    DEF Next, Saves, vars, Get, GetAgain, GetSavedVersions, LookUpKey, CommitProposal,
        CommitVersion, Fail, OtherVersion
  <2>3. /\ Keeps(job[t].session, job[t].saved, session', saved')
        /\ job[t].pc \in HoldsRows
        /\ job'[t] \in {Idle, [Idle EXCEPT !.pc = "reload"]}
    BY <1>1, <2>2, SaveKeepsItsCopy
  <2>4. ~job[t].fresh
    <3> SUFFICES ASSUME job[t].fresh
                 PROVE  FALSE
      OBVIOUS
    <3>1. job[t].session = session /\ job[t].saved = saved
      BY <1>1, <2>3 DEF IInv, JobsSound, CopyIsFresh, HoldsRows, HoldsSession
    <3> QED
      BY <1>1, <2>3, <3>1 DEF Keeps, LinkMovesBack, VersionDisappears
  <2>5. job'[t].fresh
    BY <2>3 DEF Idle
  <2> QED
    BY <2>4, <2>5
<1>2. IInv /\ [Next]_vars => [Lost => Stale]_vars
  BY <1>1
<1> QED
  BY <1>2, Invariance, PTL DEF Spec, LostOnlyToAStaleCopy
=============================================================================
