-------------------------- MODULE MCWorkspaceSession --------------------------
(***************************************************************************)
(* TLC instances of WorkspaceSession.                                      *)
(***************************************************************************)
EXTENDS WorkspaceSession, TLC

Symmetry == Permutations(Threads) \cup Permutations(Drafts) \cup Permutations(Keys)
=============================================================================
