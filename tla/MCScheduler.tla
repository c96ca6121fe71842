----------------------------- MODULE MCScheduler -----------------------------
(***************************************************************************)
(* Scheduler for TLC.  Ticks, fire-slots and execution ids of equal        *)
(* standing are interchangeable: no action and no property tells them      *)
(* apart.  Slots carry no order here because a tick may see any of them.   *)
(***************************************************************************)
EXTENDS Scheduler, TLC

Symmetry ==
    {f @@ g @@ h : f \in Permutations(Tick), g \in Permutations(Slot),
                   h \in Permutations(ExecId)}
=============================================================================
