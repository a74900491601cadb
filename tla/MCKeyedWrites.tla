---------------------------- MODULE MCKeyedWrites ----------------------------
(***************************************************************************)
(* TLC instances of KeyedWrites.                                           *)
(***************************************************************************)
EXTENDS KeyedWrites, TLC

Symmetry == Permutations(Threads) \cup Permutations(Targets) \cup Permutations(Keys)
=============================================================================
