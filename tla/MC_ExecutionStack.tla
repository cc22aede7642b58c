------------------------- MODULE MC_ExecutionStack --------------------------
(***************************************************************************)
(* One thread with calls nested deep enough to cross three segments and to *)
(* come back to C between them, then a second thread sharing the pool.     *)
(***************************************************************************)
EXTENDS ExecutionStack
=============================================================================
