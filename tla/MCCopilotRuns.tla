---------------------------- MODULE MCCopilotRuns ----------------------------
(***************************************************************************)
(* TLC instances of CopilotRuns.                                           *)
(***************************************************************************)
EXTENDS CopilotRuns, TLC

CONSTANTS a1  \* the advisor whose requests these are

MadeByA1 == [q \in Requests |-> a1]

Symmetry == Permutations(Threads) \cup Permutations(Actors \ {a1}) \cup Permutations(Keys) \cup Permutations(Requests)
=============================================================================
