------------------------- MODULE MCPolicyEvaluations -------------------------
(***************************************************************************)
(* TLC instances of PolicyEvaluations.                                     *)
(***************************************************************************)
EXTENDS PolicyEvaluations, TLC

CONSTANTS g, c  \* an evaluation without legal entity, and the one that repairs it

RepairsOfG == {<<g, c>>}

Symmetry == Permutations(Threads) \cup Permutations(Actors) \cup Permutations(Keys)
=============================================================================
