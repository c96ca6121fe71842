--------------------------- MODULE MCExecutionApi ----------------------------
(***************************************************************************)
(* ExecutionApi for TLC: executions are interchangeable.                   *)
(***************************************************************************)
EXTENDS ExecutionApi, TLC

Symmetry == Permutations(Exec)
=============================================================================
