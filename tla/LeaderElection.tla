--------------------------- MODULE LeaderElection ----------------------------
(***************************************************************************)
(* The Redis lease that elects the scanning scheduler (lib/leader.ts).     *)
(*                                                                         *)
(* Time passes in units (Tick); the lease, the heartbeats and the commands *)
(* under way carry timers.  A node sends its commands on one connection,   *)
(* so they are executed and answered in the order they were sent, and a    *)
(* heartbeat does not wait for the answer to the one before.               *)
(***************************************************************************)
EXTENDS Naturals, Sequences

CONSTANTS
    Node,       \* scheduler replicas
    Lease,      \* leaseTtlMs
    Heartbeat,  \* heartbeatMs
    Delay,      \* longest time from sending a command to acting on its answer
    MaxCmds,    \* bound on the commands a node has under way
    Timely,     \* BOOLEAN: Delay is respected and heartbeats are never late
    Errors,     \* BOOLEAN: a command may be answered by an exception
    Nobody,     \* the key is absent
    Ghost       \* the token of a process that is gone

ASSUME LeaseAssumption ==
    /\ Lease \in Nat \ {0} /\ Heartbeat \in Nat \ {0} /\ Delay \in Nat /\ MaxCmds \in Nat
    /\ Nobody \notin Node /\ Ghost \notin Node /\ Nobody # Ghost
    /\ Timely \in BOOLEAN /\ Errors \in BOOLEAN

VARIABLES
    holder,   \* value of cronhive:scheduler:leader
    ttl,      \* time left on that key
    up,       \* nodes whose process runs
    stopped,  \* nodes whose election was stopped
    leader,   \* nodes with leader = true
    timer,    \* node -> time to its next heartbeat
    cmds,     \* node -> its commands under way, oldest first
    caught,   \* history: nodes that stopped while a SET was unanswered, or
              \* had a command fail (kept while Timely)
    vacancy   \* history: for how long nobody has been leading although nodes
              \* were up, none came or went, no command failed
              \* and nothing was late

nodeVars == <<up, stopped, leader, timer, cmds>>
vars == <<holder, ttl, nodeVars, caught, vacancy>>

Op == {"renew", "set", "release"}

\* A command waits for Redis ("sent"), then for its node to see the result.
Cmd == [op : Op, phase : {"sent", "yes", "no"}, age : 0..Delay]

\* Nodes that take part in the election.
Active == up \ stopped

\* Nodes whose run() goes on to tick(): isLeader(), and not shutting down.
Scanning == leader \cap Active

-----------------------------------------------------------------------------
Send(n, op) ==
    cmds' = [cmds EXCEPT ![n] = Append(@, [op |-> op, phase |-> "sent", age |-> 0])]

\* The heartbeat: renew as a leader, try to acquire as a follower.
campaign(n) ==
    /\ n \in Active
    /\ timer[n] = 0
    /\ Len(cmds[n]) < MaxCmds
    /\ timer' = [timer EXCEPT ![n] = Heartbeat]
    /\ Send(n, IF n \in leader THEN "renew" ELSE "set")
    /\ UNCHANGED <<holder, ttl, up, stopped, leader, caught, vacancy>>

\* Mutant: PEXPIRE without comparing the token.
RenewBlindly(n) ==
    /\ holder # Nobody
    /\ ttl' = Lease
    /\ UNCHANGED holder

\* Mutant: the lease is extended by more than leaseTtlMs.
RenewTooLong(n) ==
    /\ holder = n
    /\ ttl' = 2 * Lease
    /\ UNCHANGED holder

\* RENEW_SCRIPT finds its own token.
RenewLease(n) ==
    /\ holder = n
    /\ ttl' = Lease
    /\ UNCHANGED holder

\* Mutant: SET without NX.
AcquireAlways(n) ==
    /\ holder' = n
    /\ ttl' = Lease

\* Mutant: SET NX without PX.
AcquireForever(n) ==
    /\ holder = Nobody
    /\ holder' = n
    /\ UNCHANGED ttl

\* SET key token PX ttl NX finds no key.
AcquireLease(n) ==
    /\ holder = Nobody
    /\ holder' = n
    /\ ttl' = Lease

\* RELEASE_SCRIPT finds its own token.
ReleaseLease(n) ==
    /\ holder = n
    /\ holder' = Nobody
    /\ ttl' = 0

Applies(n, op) ==
    \/ op = "renew" /\ RenewLease(n)
    \/ op = "set" /\ AcquireLease(n)
    \/ op = "release" /\ ReleaseLease(n)

\* Whether the command finds the key as it needs it.
Matches(n, op) == IF op = "set" THEN holder = Nobody ELSE holder = n

\* A SET of node n is unanswered.
Asks(n) == \E i \in DOMAIN cmds[n] : cmds[n][i].op = "set"

\* Redis executes the next command of node n.
Execute(n) ==
    \E i \in DOMAIN cmds[n] :
        /\ cmds[n][i].phase = "sent"
        /\ \A k \in 1..(i - 1) : cmds[n][k].phase # "sent"
        /\ \/ /\ Applies(n, cmds[n][i].op)
              /\ cmds' = [cmds EXCEPT ![n][i].phase = "yes"]
           \/ /\ ~Matches(n, cmds[n][i].op)
              /\ cmds' = [cmds EXCEPT ![n][i].phase = "no"]
              /\ UNCHANGED <<holder, ttl>>
        /\ UNCHANGED <<up, stopped, leader, timer, caught, vacancy>>

\* setLeader
setLeader(n, val) == leader' = IF val THEN leader \cup {n} ELSE leader \ {n}

\* Mutant: an answer to a renewal is not looked at.
HandleReplyTrusting(n, c) ==
    \/ c.op = "renew" /\ UNCHANGED leader
    \/ c.op = "set" /\ IF c.phase = "yes" THEN setLeader(n, TRUE) ELSE UNCHANGED leader
    \/ c.op = "release" /\ setLeader(n, FALSE)

\* What the continuation of an await does with the answer.
HandleReply(n, c) ==
    \/ c.op = "renew" /\ IF c.phase = "no" THEN setLeader(n, FALSE) ELSE UNCHANGED leader
    \/ c.op = "set" /\ IF c.phase = "yes" THEN setLeader(n, TRUE) ELSE UNCHANGED leader
    \/ c.op = "release" /\ setLeader(n, FALSE)

\* Nobody is left to hear an answer to a process that is gone.
Reply(n) ==
    /\ cmds[n] # <<>>
    /\ Head(cmds[n]).phase # "sent"
    /\ IF n \in up THEN HandleReply(n, Head(cmds[n])) ELSE UNCHANGED leader
    /\ cmds' = [cmds EXCEPT ![n] = Tail(@)]
    /\ UNCHANGED <<holder, ttl, up, stopped, timer, caught, vacancy>>

\* The await throws, whether or not Redis has executed the command.
ErrorReply(n) ==
    /\ Errors
    /\ n \in up /\ cmds[n] # <<>>
    /\ setLeader(n, FALSE)
    /\ cmds' = [cmds EXCEPT ![n] = Tail(@)]
    /\ caught' = caught \cup {n}
    /\ vacancy' = 0
    /\ UNCHANGED <<holder, ttl, up, stopped, timer>>

\* Mutant: only the flag is cleared.
stopKeepsLease(n) ==
    /\ n \in Active
    /\ stopped' = stopped \cup {n}
    /\ setLeader(n, FALSE)
    /\ caught' = IF Timely /\ n \notin leader /\ Asks(n) THEN caught \cup {n} ELSE caught
    /\ vacancy' = 0
    /\ UNCHANGED <<holder, ttl, up, timer, cmds>>

\* stop(): no more heartbeats; a leader releases the key.
stop(n) ==
    /\ n \in Active
    /\ stopped' = stopped \cup {n}
    /\ IF n \in leader THEN Send(n, "release") ELSE UNCHANGED cmds
    /\ caught' = IF Timely /\ n \notin leader /\ Asks(n) THEN caught \cup {n} ELSE caught
    /\ vacancy' = 0
    /\ UNCHANGED <<holder, ttl, up, leader, timer>>

\* The process exits or dies.  Its first commands may have left it already:
\* Redis will execute them, with the token of a process that is gone.
Exit(n) ==
    /\ n \in up
    /\ up' = up \ {n}
    /\ leader' = leader \ {n}
    /\ \E k \in 0..Len(cmds[n]) : cmds' = [cmds EXCEPT ![n] = SubSeq(@, 1, k)]
    /\ caught' = caught \ {n}
    /\ vacancy' = 0
    /\ UNCHANGED <<holder, ttl, stopped, timer>>

\* A new process: a new token, and a first campaign at once.  (It takes a name
\* whose last process has no command under way.)
Start(n) ==
    /\ n \notin up /\ cmds[n] = <<>>
    /\ holder' = IF holder = n THEN Ghost ELSE holder
    /\ up' = up \cup {n}
    /\ stopped' = stopped \ {n}
    /\ timer' = [timer EXCEPT ![n] = 0]
    /\ vacancy' = 0
    /\ UNCHANGED <<ttl, leader, cmds, caught>>

\* Nothing that is due now is left for later.
OnTime ==
    /\ \A n \in Active : timer[n] > 0
    /\ \A n \in Node : \A i \in DOMAIN cmds[n] : cmds[n][i].age < Delay

Down(k) == IF k = 0 THEN 0 ELSE k - 1

\* The gap leader.ts announces: a lease, which a last SET under way may begin
\* late, then a heartbeat and its command, and the lead is taken again.
Gap == Delay + Lease + Heartbeat + Delay

\* One unit of time.  The key disappears when its time is up.
Tick ==
    /\ Timely => OnTime
    /\ ttl' = Down(ttl)
    /\ holder' = IF ttl <= 1 THEN Nobody ELSE holder
    /\ timer' = [n \in Node |-> Down(timer[n])]
    /\ cmds' = [n \in Node |->
                  [i \in DOMAIN cmds[n] |->
                    [cmds[n][i] EXCEPT !.age = IF @ < Delay THEN @ + 1 ELSE @]]]
    /\ vacancy' = IF Scanning # {} \/ Active = {} \/ ~Timely THEN 0
                  ELSE IF vacancy <= Gap THEN vacancy + 1 ELSE vacancy
    /\ UNCHANGED <<up, stopped, leader, caught>>

-----------------------------------------------------------------------------
Init ==
    /\ holder = Nobody /\ ttl = 0
    /\ up = {} /\ stopped = {} /\ leader = {}
    /\ timer = [n \in Node |-> 0]
    /\ cmds = [n \in Node |-> <<>>]
    /\ caught = {} /\ vacancy = 0

Next ==
    \/ \E n \in Node :
        \/ campaign(n) \/ Execute(n) \/ Reply(n) \/ ErrorReply(n)
        \/ stop(n) \/ Exit(n) \/ Start(n)
    \/ Tick

Spec == Init /\ [][Next]_vars

\* Time passes, live nodes run their timers and continuations, Redis answers;
\* nobody has to fail, to stop or to start.
Fairness ==
    /\ WF_vars(Tick)
    /\ \A n \in Node : WF_vars(campaign(n) \/ Execute(n) \/ Reply(n))

FairSpec == Spec /\ Fairness
-----------------------------------------------------------------------------
(***************************************************************************)
(* Properties.                                                             *)
(***************************************************************************)

LeaseTypeOK ==
    /\ holder \in Node \cup {Nobody, Ghost}
    /\ ttl \in 0..Lease /\ (ttl = 0 <=> holder = Nobody)
    /\ up \subseteq Node /\ stopped \subseteq Node /\ leader \subseteq up
    /\ caught \subseteq up
    /\ timer \in [Node -> 0..Heartbeat]
    /\ cmds \in [Node -> Seq(Cmd)]
    /\ vacancy \in 0..(Gap + 1)

\* "True only while this instance currently holds leadership" (leader.ts): a
\* scanning node has the lease, as long as two delays and a heartbeat fit in
\* it and nothing is late.
LeaderHoldsLease == \A n \in Scanning : holder = n

\* "lost it (e.g. we were partitioned)" (leader.ts): however late things are,
\* a node that goes on scanning without the lease finds out.
LostLeadIsNoticed ==
    \A n \in Node :
        (n \in Scanning /\ holder # n) ~> (n \notin Scanning \/ holder = n)

\* "Prevents a partitioned old leader from clobbering a newly elected one"
\* (leader.ts), late commands included: only a command of the holder extends
\* or removes a lease that has time left.
OnlyHolderTouchesLease ==
    [][holder # Nobody /\ (ttl' > ttl \/ (ttl > 1 /\ holder' = Nobody)) =>
        /\ \E m \in Node : holder = m /\ cmds'[m] # cmds[m]
        /\ \A n \in Node : n # holder => cmds'[n] = cmds[n]]_vars

\* "automatic failover with a bounded gap" (leader.ts): after a node stops or
\* dies or an exception costs it the lead, some node leads within a lease, a
\* heartbeat and two commands.
FailoverBounded == vacancy <= Gap

\* "Stop campaigning and relinquish leadership if held" (leader.ts): once its
\* last answers are in, a stopped node neither leads nor holds the lease,
\* unless a SET was unanswered when it stopped or a command of it failed.
StopRelinquishes ==
    \A n \in (up \cap stopped) \ caught :
        cmds[n] = <<>> => n \notin leader /\ holder # n
=============================================================================
