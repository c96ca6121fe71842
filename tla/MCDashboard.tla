----------------------------- MODULE MCDashboard -----------------------------
(***************************************************************************)
(* Dashboard for TLC: jobs, drafts and requests are interchangeable.       *)
(***************************************************************************)
EXTENDS Dashboard, TLC

Symmetry ==
    {f @@ g @@ h : f \in Permutations(Job), g \in Permutations(Draft),
                   h \in Permutations(Request)}
=============================================================================
