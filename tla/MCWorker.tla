------------------------------ MODULE MCWorker -------------------------------
(***************************************************************************)
(* Worker for TLC: all executions belong to one job, which is where they   *)
(* interact (the breaker, the copy in Redis).  Executions and runners are  *)
(* interchangeable; the runs with a liveness property do not use that.     *)
(***************************************************************************)
EXTENDS Worker, TLC

CONSTANT TheJob

MCJobOf == [e \in Exec |-> TheJob]

Symmetry ==
    {f @@ g : f \in Permutations(Exec), g \in Permutations(Runner)}
=============================================================================
