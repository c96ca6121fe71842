----------------------------- MODULE CronWindow ------------------------------
(***************************************************************************)
(* Which cron slots the scans see (lib/cron-utils.ts, the loop of          *)
(* scheduler.ts).  A scan looks back over a window and sees only a job's   *)
(* latest slot, so a slot nobody looks at in time is skipped for good.     *)
(*                                                                         *)
(* Time passes in units.  Slots come at any moment, at least Spacing apart *)
(* for one job: all schedules with that property at once.  The leaders are *)
(* the environment: LeaderElection's FailoverBounded is what is assumed of *)
(* them here, and like there its time runs anew from every further loss.   *)
(* With the election switched off all nodes are leaders.                   *)
(***************************************************************************)
EXTENDS Naturals, Sequences, SequencesExt

CONSTANTS
    Node,      \* scheduler replicas
    Job,       \* enabled jobs that are not paused
    Throwing,  \* jobs whose lock Redis refuses to set (a TTL out of its range)
    Scan,      \* SCHEDULER_SCAN_MS
    Slack,     \* the 5000 ms added to it
    Delay,     \* longest time from the start of a scan to a job's turn
    Gap,       \* longest time without a leader after the last loss of one
    Spacing    \* least time between two slots of a job

ASSUME WindowAssumption ==
    /\ Job # {} /\ Throwing \subseteq Job
    /\ Scan \in Nat \ {0} /\ Slack \in Nat /\ Delay \in Nat /\ Gap \in Nat
    /\ Spacing \in Nat \ {0}

VARIABLES
    age,      \* time since the latest slot of each job
    claimed,  \* jobs whose latest slot was claimed
    leaders,  \* nodes that take themselves for the leader
    calm,     \* time since a leader or a process was last lost
    timer,    \* node -> time to its next scan
    ticks     \* node -> its scans in flight: the jobs to come, and their age

vars == <<age, claimed, leaders, calm, timer, ticks>>

windowMs == Scan + Slack

\* The longest time from a loss to the look of the next leader at a job: it is
\* found, its scan begins, and the job's turn comes.
Recovery == Gap + Scan + Delay

\* Ages beyond this are the same to everybody.
Old == IF Spacing > 2 * windowMs THEN Spacing ELSE 2 * windowMs + 1

-----------------------------------------------------------------------------
\* A slot of job j.
SlotComes(j) ==
    /\ age[j] >= Spacing
    /\ age' = [age EXCEPT ![j] = 0]
    /\ claimed' = claimed \ {j}
    /\ UNCHANGED <<leaders, calm, timer, ticks>>

\* Mutant: the slack is added to the interval.
runSeldom(n) ==
    /\ timer[n] = 0
    /\ timer' = [timer EXCEPT ![n] = windowMs]
    /\ ticks' = IF n \in leaders
                THEN [ticks EXCEPT ![n] = Append(@, [left |-> Job, age |-> 0])]
                ELSE ticks
    /\ UNCHANGED <<age, claimed, leaders, calm>>

\* run(): only a leader goes on to tick().  The next run does not wait for it.
run(n) ==
    /\ timer[n] = 0
    /\ timer' = [timer EXCEPT ![n] = Scan]
    /\ ticks' = IF n \in leaders
                THEN [ticks EXCEPT ![n] = Append(@, [left |-> Job, age |-> 0])]
                ELSE ticks
    /\ UNCHANGED <<age, claimed, leaders, calm>>

\* Mutant: the window without the 5000 ms.
dueWithoutSlack(j) == age[j] \in 1..Scan

\* dueFireSlot: prev() is strictly in the past, and must lie in the window.
dueFireSlot(j) == age[j] \in 1..windowMs

\* The turn of job j in the i-th scan of node n; the order of the jobs is the
\* database's.  An exception ends the scan.
Visit(n, i, j) ==
    /\ j \in ticks[n][i].left
    /\ LET throws == j \in Throwing /\ dueFireSlot(j)
           left == IF throws THEN {} ELSE ticks[n][i].left \ {j}
       IN  /\ claimed' = IF dueFireSlot(j) /\ ~throws THEN claimed \cup {j} ELSE claimed
           /\ ticks' = [ticks EXCEPT ![n] = IF left = {} THEN RemoveAt(@, i)
                                            ELSE [@ EXCEPT ![i].left = left]]
    /\ UNCHANGED <<age, leaders, calm, timer>>

\* At any time, also before the last loss has been made good.
Lose(n) ==
    /\ leaders' = leaders \ {n}
    /\ calm' = 0
    /\ UNCHANGED <<age, claimed>>

\* The lease is lost; scans in flight go on.
Depose(n) == n \in leaders /\ Lose(n) /\ UNCHANGED <<timer, ticks>>

\* The process dies, and its scans with it.  A new one scans in its own rhythm.
Die(n) ==
    /\ Lose(n)
    /\ \E t \in 0..Scan : timer' = [timer EXCEPT ![n] = t]
    /\ ticks' = [ticks EXCEPT ![n] = <<>>]

Elect(n) ==
    /\ n \notin leaders
    /\ leaders' = leaders \cup {n}
    /\ UNCHANGED <<age, claimed, calm, timer, ticks>>

Later(k, bound) == IF k < bound THEN k + 1 ELSE bound

\* One unit of time: no scan starts late, no turn comes late, and the election
\* keeps its promise.
Tick ==
    /\ \A n \in Node : timer[n] > 0
    /\ \A n \in Node : \A i \in DOMAIN ticks[n] : ticks[n][i].age < Delay
    /\ leaders = {} => calm < Gap
    /\ age' = [j \in Job |-> Later(age[j], Old)]
    /\ calm' = Later(calm, Recovery + 1)
    /\ timer' = [n \in Node |-> timer[n] - 1]
    /\ ticks' = [n \in Node |-> [i \in DOMAIN ticks[n] |-> [ticks[n][i] EXCEPT !.age = @ + 1]]]
    /\ UNCHANGED <<claimed, leaders>>

-----------------------------------------------------------------------------
Init ==
    /\ age = [j \in Job |-> Old]
    /\ claimed = Job
    /\ leaders \in (SUBSET Node) \ {{}}
    /\ calm = Recovery + 1
    /\ timer \in [Node -> 0..Scan]
    /\ ticks = [n \in Node |-> <<>>]

Next ==
    \/ \E j \in Job : SlotComes(j)
    \/ \E n \in Node :
        \/ run(n) \/ Depose(n) \/ Die(n) \/ Elect(n)
        \/ \E i \in DOMAIN ticks[n], j \in Job : Visit(n, i, j)
    \/ Tick

Spec == Init /\ [][Next]_vars
-----------------------------------------------------------------------------
(***************************************************************************)
(* Properties.                                                             *)
(***************************************************************************)

WindowTypeOK ==
    /\ age \in [Job -> 0..Old]
    /\ claimed \subseteq Job
    /\ leaders \subseteq Node
    /\ calm \in 0..(Recovery + 1) /\ (leaders = {} => calm <= Gap)
    /\ timer \in [Node -> 0..Scan]
    /\ \A n \in Node : \A i \in DOMAIN ticks[n] :
        ticks[n][i].left \in (SUBSET Job) \ {{}} /\ ticks[n][i].age \in 0..Delay

\* No job that throws has been due since the latest slot of j.
Undisturbed(j) == \A p \in Throwing : age[p] > age[j] + windowMs

\* The latest slot of j leaves the window, or the next one takes its place.
Passes(j) == age[j] <= windowMs /\ (age'[j] > windowMs \/ age'[j] < age[j])

\* Without a loss in the time it takes to recover from one, and without a job
\* whose turn throws, every slot is claimed while a scan can still see it,
\* whatever the phases of the replicas, slow scans and changes of leader.
NoSlotSkipped ==
    [][\A j \in Job \ Throwing :
        Passes(j) /\ calm > Recovery /\ Undisturbed(j) => j \in claimed]_vars

\* "exactly once per scheduled slot even when ... a node dies mid-execution"
\* and "automatic failover when the leader dies" (README.md): a slot that is
\* still in the window when the new leader is due is claimed.
EverySlotClaimed == [][\A j \in Job : Passes(j) /\ calm > Gap => j \in claimed]_vars
=============================================================================
