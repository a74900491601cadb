--------------------------- MODULE MCPolicyCatalog ---------------------------
(***************************************************************************)
(* TLC instances of PolicyCatalog.                                         *)
(***************************************************************************)
EXTENDS PolicyCatalog, TLC

Symmetry == Permutations(Threads) \cup Permutations(Actors) \cup Permutations(Keys)
=============================================================================
