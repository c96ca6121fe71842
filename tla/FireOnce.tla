------------------------------ MODULE FireOnce -------------------------------
(***************************************************************************)
(* The promise of the scheduler ("exactly one execution per fire-slot",    *)
(* README.md), without tables, locks, queues or processes: an item, that   *)
(* is a (job, fire-slot) pair, is closed once and fired at most once, and  *)
(* only after it was closed.                                               *)
(***************************************************************************)
CONSTANT Item

VARIABLES
    closed,  \* items nobody can claim any more
    fires    \* item -> positions at which it was put on the queue

avars == <<closed, fires>>

AInit ==
    /\ closed = {}
    /\ fires = [k \in Item |-> {}]

\* A claim closes one item; deleting a job closes all of its items.
Close(S) ==
    /\ closed' = closed \cup S
    /\ UNCHANGED fires

Fire(k) ==
    /\ k \in closed
    /\ fires[k] = {}
    /\ \E i \in fires'[k] : fires' = [fires EXCEPT ![k] = {i}]
    /\ UNCHANGED closed

ANext ==
    \/ \E S \in SUBSET Item : Close(S)
    \/ \E k \in Item : Fire(k)

ASpec == AInit /\ [][ANext]_avars
=============================================================================
