------------------------- MODULE MCAsyncOperations -------------------------
(***************************************************************************)
(* TLC instances of AsyncOperations; the constants are in the .cfg files.  *)
(***************************************************************************)
EXTENDS AsyncOperations
=============================================================================
