---------------------------- MODULE MCProcessMemory ----------------------------
(***************************************************************************)
(* TLC instances of ProcessMemory.                                         *)
(***************************************************************************)
EXTENDS ProcessMemory, TLC

Symmetry ==
  Permutations(Threads) \cup Permutations(Keys) \cup Permutations(Securities)
    \cup Permutations(Contexts)

\* Ledger and caches share no state: in one life of the process only one of them is
\* at work.
Intaking == intakes # 0 \/ \E t \in Threads : job[t].pc = "intake"
Resolving == uses # 0 \/ \E t \in Threads : job[t].pc \notin {"idle", "intake"}
Seen == {s \in Securities : used[s].turn # 0 \/ \E t \in Threads : s \in job[t].todo \cup job[t].missing}

Bounds ==
  /\ ~(Intaking /\ Resolving)
  /\ Resolving => requests <= 3
  /\ Cardinality(Seen) > MaxSize => clock <= 2
=============================================================================
