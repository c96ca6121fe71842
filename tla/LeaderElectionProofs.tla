------------------------ MODULE LeaderElectionProofs -------------------------
(***************************************************************************)
(* Machine-checked proofs about LeaderElection, for any number of replicas *)
(* and every lease, heartbeat and delay that fit together.                 *)
(***************************************************************************)
EXTENDS LeaderElection, TLAPS

-----------------------------------------------------------------------------
(***************************************************************************)
(* Queues of commands.                                                     *)
(***************************************************************************)

\* t is s after a command was sent,
Sent(s, t, op) ==
    /\ t \in Seq(Cmd) /\ Len(t) = Len(s) + 1 /\ Len(s) \in Nat
    /\ DOMAIN t = 1..Len(t) /\ DOMAIN s = 1..Len(s)
    /\ \A i \in DOMAIN s : i \in DOMAIN t /\ t[i] = s[i]
    /\ \A i \in DOMAIN t : i \in DOMAIN s \/ i = Len(s) + 1
    /\ t[Len(s) + 1].op = op /\ t[Len(s) + 1].phase = "sent" /\ t[Len(s) + 1].age = 0

\* after the oldest one was answered,
Answered(s, t) ==
    /\ t \in Seq(Cmd) /\ Len(t) = Len(s) - 1 /\ Len(s) \in Nat \ {0}
    /\ DOMAIN t = 1..Len(t) /\ DOMAIN s = 1..Len(s)
    /\ \A i \in DOMAIN t : i + 1 \in DOMAIN s /\ t[i] = s[i + 1]
    /\ \A i \in DOMAIN s : i # 1 => i - 1 \in DOMAIN t /\ t[i - 1] = s[i]
    /\ Head(s) = s[1] /\ 1 \in DOMAIN s /\ Head(s) \in Cmd

\* after the process died that had not yet sent the last ones,
Cut(s, t) ==
    /\ t \in Seq(Cmd) /\ DOMAIN t = 1..Len(t) /\ DOMAIN s = 1..Len(s)
    /\ Len(t) \in 0..Len(s)
    /\ \A i \in DOMAIN t : i \in DOMAIN s /\ t[i] = s[i]

\* after Redis executed command i,
Executed(s, t, i, p) ==
    /\ t \in Seq(Cmd) /\ Len(t) = Len(s)
    /\ DOMAIN t = DOMAIN s /\ DOMAIN s = 1..Len(s)
    /\ \A k \in DOMAIN s : k # i => t[k] = s[k]
    /\ t[i].op = s[i].op /\ t[i].age = s[i].age /\ t[i].phase = p

\* after a unit of time.
Older(a) == IF a < Delay THEN a + 1 ELSE a

Aged(s, t) ==
    /\ t \in Seq(Cmd) /\ Len(t) = Len(s)
    /\ DOMAIN t = DOMAIN s /\ DOMAIN s = 1..Len(s)
    /\ \A i \in DOMAIN s :
        t[i].op = s[i].op /\ t[i].phase = s[i].phase /\ t[i].age = Older(s[i].age)

\* Sending a command puts it, new, behind the others.
LEMMA AppendFacts ==
    ASSUME NEW s \in Seq(Cmd), NEW op \in Op, NEW t,
           t = Append(s, [op |-> op, phase |-> "sent", age |-> 0])
    PROVE  Sent(s, t, op)
<1> DEFINE c == [op |-> op, phase |-> "sent", age |-> 0]
<1>1. c \in Cmd /\ c.op = op /\ c.phase = "sent" /\ c.age = 0
  BY LeaseAssumption DEF Cmd
<1> HIDE DEF c
<1>2. t = Append(s, c)
  BY DEF c
<1> QED
  BY <1>1, <1>2 DEF Sent

\* Answering the oldest command removes it and moves the others up.
LEMMA TailFacts ==
    ASSUME NEW s \in Seq(Cmd), s # <<>>, NEW t, t = Tail(s)
    PROVE  Answered(s, t)
  BY DEF Answered

\* When a process dies, what had left it is a prefix of its commands.
LEMMA PrefixFacts ==
    ASSUME NEW s \in Seq(Cmd), NEW k \in 0..Len(s), NEW t, t = SubSeq(s, 1, k)
    PROVE  Cut(s, t)
  BY DEF Cut

\* Executing a command changes its phase and nothing else.
LEMMA PhaseFacts ==
    ASSUME NEW s \in Seq(Cmd), NEW i \in DOMAIN s, NEW p \in {"sent", "yes", "no"}, NEW t,
           t = [s EXCEPT ![i].phase = p]
    PROVE  Executed(s, t, i, p)
<1> DEFINE c == [s[i] EXCEPT !.phase = p]
<1>0. s[i] \in Cmd
  OBVIOUS
<1>1. c \in Cmd /\ c.op = s[i].op /\ c.age = s[i].age /\ c.phase = p
  BY <1>0 DEF Cmd
<1> HIDE DEF c
<1>2. t = [s EXCEPT ![i] = c]
  BY DEF c
<1> QED
  BY <1>1, <1>2 DEF Executed

\* A unit of time makes every command older, up to Delay.
LEMMA AgeFacts ==
    ASSUME NEW s \in Seq(Cmd), NEW t,
           t = [i \in DOMAIN s |-> [s[i] EXCEPT !.age = IF @ < Delay THEN @ + 1 ELSE @]]
    PROVE  Aged(s, t)
<1>1. \A i \in DOMAIN s : /\ t[i] = [s[i] EXCEPT !.age = Older(s[i].age)]
                          /\ s[i] \in Cmd
  BY DEF Older
<1>2. \A i \in DOMAIN s : /\ t[i] \in Cmd /\ t[i].op = s[i].op /\ t[i].phase = s[i].phase
                          /\ t[i].age = Older(s[i].age)
  <2> TAKE i \in DOMAIN s
  <2>1. s[i].age \in 0..Delay /\ Older(s[i].age) \in 0..Delay
    BY <1>1, LeaseAssumption DEF Cmd, Older
  <2> QED
    BY <1>1, <2>1 DEF Cmd
<1>3. t \in [1..Len(s) -> Cmd] /\ DOMAIN s = 1..Len(s) /\ Len(s) \in Nat
  <2>1. t = [i \in DOMAIN s |-> t[i]]
    OBVIOUS
  <2>2. DOMAIN s = 1..Len(s) /\ Len(s) \in Nat
    OBVIOUS
  <2> QED
    BY <1>2, <2>1, <2>2
<1>4. t \in Seq(Cmd) /\ Len(t) = Len(s)
  BY <1>3
<1> QED
  BY <1>2, <1>3, <1>4 DEF Aged

\* What a command is.
LEMMA CmdFacts ==
    ASSUME NEW s \in Seq(Cmd), NEW i \in DOMAIN s
    PROVE  /\ s[i].op \in Op /\ s[i].phase \in {"sent", "yes", "no"}
           /\ s[i].age \in 0..Delay /\ s[i].age \in Nat
<1>1. s[i] \in Cmd
  OBVIOUS
<1> QED
  BY <1>1, LeaseAssumption DEF Cmd

-----------------------------------------------------------------------------
(***************************************************************************)
(* The steps, as the invariants see them.                                  *)
(***************************************************************************)

Queues == cmds \in [Node -> Seq(Cmd)]

\* Nothing of the other nodes' commands changes.
Alone(n) == cmds' \in [Node -> Seq(Cmd)] /\ \A m \in Node \ {n} : cmds'[m] = cmds[m]

\* A node that sends changes its own queue only, by the new command.
LEMMA SendFacts ==
    ASSUME Queues, NEW n \in Node, NEW op \in Op, Send(n, op)
    PROVE  Alone(n) /\ Sent(cmds[n], cmds'[n], op)
<1> DEFINE t == Append(cmds[n], [op |-> op, phase |-> "sent", age |-> 0])
<1>1. Sent(cmds[n], t, op)
  BY AppendFacts DEF Queues
<1>2. t \in Seq(Cmd)
  BY <1>1 DEF Sent
<1>3. cmds' = [cmds EXCEPT ![n] = t]
  BY DEF Send
<1> HIDE DEF t
<1> QED
  BY <1>1, <1>2, <1>3 DEF Queues, Alone

\* A node that takes an answer changes its own queue only, by the oldest command.
LEMMA PopFacts ==
    ASSUME Queues, NEW n \in Node, cmds[n] # <<>>, cmds' = [cmds EXCEPT ![n] = Tail(@)]
    PROVE  Alone(n) /\ Answered(cmds[n], cmds'[n])
<1>1. Answered(cmds[n], Tail(cmds[n]))
  BY TailFacts DEF Queues
<1>2. Tail(cmds[n]) \in Seq(Cmd)
  BY <1>1 DEF Answered
<1> QED
  BY <1>1, <1>2 DEF Queues, Alone

\* A process that ends changes its own queue only, and keeps a prefix.
LEMMA CutFacts ==
    ASSUME Queues, NEW n \in Node, NEW k \in 0..Len(cmds[n]),
           cmds' = [cmds EXCEPT ![n] = SubSeq(@, 1, k)]
    PROVE  Alone(n) /\ Cut(cmds[n], cmds'[n])
<1>1. Cut(cmds[n], SubSeq(cmds[n], 1, k))
  BY PrefixFacts DEF Queues
<1>2. SubSeq(cmds[n], 1, k) \in Seq(Cmd)
  BY <1>1 DEF Cut
<1> QED
  BY <1>1, <1>2 DEF Queues, Alone

\* The execution of a command of a node changes the phase of that command only.
LEMMA ExecFacts ==
    ASSUME Queues, NEW n \in Node, NEW i \in DOMAIN cmds[n], NEW p \in {"yes", "no"},
           cmds' = [cmds EXCEPT ![n][i].phase = p]
    PROVE  Alone(n) /\ Executed(cmds[n], cmds'[n], i, p)
<1> DEFINE t == [cmds[n] EXCEPT ![i].phase = p]
<1>1. Executed(cmds[n], t, i, p)
  BY PhaseFacts DEF Queues
<1>2. t \in Seq(Cmd)
  BY <1>1 DEF Executed
<1>3. cmds' = [cmds EXCEPT ![n] = t]
  OBVIOUS
<1> HIDE DEF t
<1> QED
  BY <1>1, <1>2, <1>3 DEF Queues, Alone

\* Redis executes command i of node n, and it succeeds or not.
Does(n, i, p) ==
    /\ i \in DOMAIN cmds[n] /\ cmds[n][i].phase = "sent"
    /\ \A k \in 1..(i - 1) : cmds[n][k].phase # "sent"
    /\ Alone(n) /\ Executed(cmds[n], cmds'[n], i, p)
    /\ UNCHANGED <<up, stopped, leader, timer, caught, vacancy>>
    /\ \/ p = "no" /\ ~Matches(n, cmds[n][i].op) /\ UNCHANGED <<holder, ttl>>
       \/ /\ p = "yes"
          /\ \/ cmds[n][i].op = "renew" /\ holder = n /\ holder' = n /\ ttl' = Lease
             \/ cmds[n][i].op = "set" /\ holder = Nobody /\ holder' = n /\ ttl' = Lease
             \/ cmds[n][i].op = "release" /\ holder = n /\ holder' = Nobody /\ ttl' = 0

\* Whatever Redis executes for a node is one of its commands, with one of two outcomes.
LEMMA ExecuteFacts ==
    ASSUME Queues, NEW n \in Node, Execute(n)
    PROVE  \E i \in DOMAIN cmds[n], p \in {"yes", "no"} : Does(n, i, p)
<1>1. PICK i \in DOMAIN cmds[n] :
        /\ cmds[n][i].phase = "sent"
        /\ \A k \in 1..(i - 1) : cmds[n][k].phase # "sent"
        /\ \/ /\ Applies(n, cmds[n][i].op)
              /\ cmds' = [cmds EXCEPT ![n][i].phase = "yes"]
           \/ /\ ~Matches(n, cmds[n][i].op)
              /\ cmds' = [cmds EXCEPT ![n][i].phase = "no"]
              /\ UNCHANGED <<holder, ttl>>
        /\ UNCHANGED <<up, stopped, leader, timer, caught, vacancy>>
  BY DEF Execute
<1>2. CASE Applies(n, cmds[n][i].op) /\ cmds' = [cmds EXCEPT ![n][i].phase = "yes"]
  <2>1. Alone(n) /\ Executed(cmds[n], cmds'[n], i, "yes")
    BY <1>2, ExecFacts
  <2>2. \/ cmds[n][i].op = "renew" /\ holder = n /\ holder' = n /\ ttl' = Lease
        \/ cmds[n][i].op = "set" /\ holder = Nobody /\ holder' = n /\ ttl' = Lease
        \/ cmds[n][i].op = "release" /\ holder = n /\ holder' = Nobody /\ ttl' = 0
    BY <1>2 DEF Applies, RenewLease, AcquireLease, ReleaseLease
  <2> QED
    BY <1>1, <2>1, <2>2 DEF Does
<1>3. CASE /\ ~Matches(n, cmds[n][i].op) /\ UNCHANGED <<holder, ttl>>
           /\ cmds' = [cmds EXCEPT ![n][i].phase = "no"]
  <2>1. Alone(n) /\ Executed(cmds[n], cmds'[n], i, "no")
    BY <1>3, ExecFacts
  <2> QED
    BY <1>1, <1>3, <2>1 DEF Does
<1> QED
  BY <1>1, <1>2, <1>3

\* A tick ages the commands of every node.
LEMMA TickFacts ==
    ASSUME Queues, Tick
    PROVE  cmds' \in [Node -> Seq(Cmd)] /\ \A n \in Node : Aged(cmds[n], cmds'[n])
<1>1. ASSUME NEW n \in Node PROVE Aged(cmds[n], cmds'[n])
  <2>1. cmds[n] \in Seq(Cmd)
    BY DEF Queues
  <2>2. cmds'[n] = [i \in DOMAIN cmds[n] |->
                      [cmds[n][i] EXCEPT !.age = IF @ < Delay THEN @ + 1 ELSE @]]
    BY DEF Tick
  <2> QED
    BY <2>1, <2>2, AgeFacts
<1>2. \A n \in Node : cmds'[n] \in Seq(Cmd)
  BY <1>1 DEF Aged
<1>3. cmds' = [n \in Node |-> cmds'[n]]
  BY DEF Tick
<1> QED
  BY <1>1, <1>2, <1>3

-----------------------------------------------------------------------------
(***************************************************************************)
(* Types, and who touches the lease.                                       *)
(***************************************************************************)

\* Before the first heartbeat everything is well typed.
LEMMA LeaseTypeInit == Init => LeaseTypeOK
  BY LeaseAssumption DEF Init, LeaseTypeOK, Gap

\* Every heartbeat, command, continuation and tick keeps the types.
LEMMA LeaseTypeStep == LeaseTypeOK /\ [Next]_vars => LeaseTypeOK'
<1> SUFFICES ASSUME LeaseTypeOK, [Next]_vars PROVE LeaseTypeOK'
  OBVIOUS
<1> USE LeaseAssumption
<1>0. Queues /\ Gap \in Nat
  BY DEF LeaseTypeOK, Queues, Gap
<1>1. ASSUME NEW n \in Node, campaign(n) PROVE LeaseTypeOK'
  <2>1. cmds' \in [Node -> Seq(Cmd)]
    BY <1>0, <1>1, SendFacts DEF campaign, Alone, Op
  <2>2. timer' \in [Node -> 0..Heartbeat]
    BY <1>1 DEF campaign, LeaseTypeOK
  <2>3. UNCHANGED <<holder, ttl, up, stopped, leader, caught, vacancy>>
    BY <1>1 DEF campaign
  <2> QED
    BY <1>0, <2>1, <2>2, <2>3 DEF LeaseTypeOK
<1>2. ASSUME NEW n \in Node, Execute(n) PROVE LeaseTypeOK'
  <2>1. PICK i \in DOMAIN cmds[n], p \in {"yes", "no"} : Does(n, i, p)
    BY <1>0, <1>2, ExecuteFacts
  <2> QED
    BY <2>1 DEF Does, Alone, LeaseTypeOK
<1>3. ASSUME NEW n \in Node, Reply(n) PROVE LeaseTypeOK'
  <2>1. cmds' \in [Node -> Seq(Cmd)]
    BY <1>0, <1>3, PopFacts DEF Reply, Alone
  <2>2. leader' \subseteq up
    BY <1>3 DEF Reply, HandleReply, setLeader, LeaseTypeOK
  <2> QED
    BY <1>3, <2>1, <2>2 DEF Reply, LeaseTypeOK
<1>4. ASSUME NEW n \in Node, ErrorReply(n) PROVE LeaseTypeOK'
  <2>1. cmds' \in [Node -> Seq(Cmd)]
    BY <1>0, <1>4, PopFacts DEF ErrorReply, Alone
  <2> QED
    BY <1>0, <1>4, <2>1 DEF ErrorReply, setLeader, LeaseTypeOK
<1>5. ASSUME NEW n \in Node, stop(n) PROVE LeaseTypeOK'
  <2>1. cmds' \in [Node -> Seq(Cmd)]
    BY <1>0, <1>5, SendFacts DEF stop, Alone, Op, LeaseTypeOK
  <2> QED
    BY <1>0, <1>5, <2>1 DEF stop, Active, LeaseTypeOK
<1>6. ASSUME NEW n \in Node, Exit(n) PROVE LeaseTypeOK'
  <2>1. cmds' \in [Node -> Seq(Cmd)]
    BY <1>0, <1>6, CutFacts DEF Exit, Alone
  <2> QED
    BY <1>0, <1>6, <2>1 DEF Exit, LeaseTypeOK
<1>7. ASSUME NEW n \in Node, Start(n) PROVE LeaseTypeOK'
  BY <1>0, <1>7 DEF Start, LeaseTypeOK
<1>8. CASE Tick
  <2>1. cmds' \in [Node -> Seq(Cmd)]
    BY <1>0, <1>8, TickFacts
  <2>2. ttl' \in 0..Lease /\ (ttl' = 0 <=> holder' = Nobody)
    BY <1>8 DEF Tick, Down, LeaseTypeOK
  <2>3. timer' \in [Node -> 0..Heartbeat]
    BY <1>8 DEF Tick, Down, LeaseTypeOK
  <2>4. vacancy' \in 0..(Gap + 1)
    BY <1>0, <1>8 DEF Tick, LeaseTypeOK
  <2> QED
    BY <1>8, <2>1, <2>2, <2>3, <2>4 DEF Tick, LeaseTypeOK
<1>9. CASE UNCHANGED vars
  BY <1>9 DEF vars, nodeVars, LeaseTypeOK, Gap
<1> QED
  BY <1>1, <1>2, <1>3, <1>4, <1>5, <1>6, <1>7, <1>8, <1>9 DEF Next

\* lib/leader.ts: the key and its time belong together, and only nodes that run
\* consider themselves leaders.
THEOREM LeaseTypeCorrect == Spec => []LeaseTypeOK
  BY LeaseTypeInit, LeaseTypeStep, PTL DEF Spec

\* "Prevents a partitioned old leader from clobbering a newly elected one"
\* (leader.ts): RENEW_SCRIPT and RELEASE_SCRIPT compare tokens, so however late
\* a command arrives it touches only the lease of the node that sent it.
THEOREM LeaseIsTheHolders == Spec => OnlyHolderTouchesLease
<1> DEFINE Touches == holder # Nobody /\ (ttl' > ttl \/ (ttl > 1 /\ holder' = Nobody)) =>
                        /\ \E m \in Node : holder = m /\ cmds'[m] # cmds[m]
                        /\ \A n \in Node : n # holder => cmds'[n] = cmds[n]
<1>1. LeaseTypeOK /\ [Next]_vars => [Touches]_vars
  <2> SUFFICES ASSUME LeaseTypeOK, Next, holder # Nobody,
                      ttl' > ttl \/ (ttl > 1 /\ holder' = Nobody)
               PROVE  /\ \E m \in Node : holder = m /\ cmds'[m] # cmds[m]
                      /\ \A n \in Node : n # holder => cmds'[n] = cmds[n]
    OBVIOUS
  <2>0. Queues /\ ttl \in Nat
    BY LeaseAssumption DEF LeaseTypeOK, Queues
  <2>1. ~Tick
    BY <2>0 DEF Tick, Down
  <2>2. ASSUME NEW n \in Node, campaign(n) \/ Reply(n) \/ ErrorReply(n) \/ stop(n) \/ Exit(n)
        PROVE  FALSE
    <3>1. UNCHANGED <<holder, ttl>>
      BY <2>2 DEF campaign, Reply, ErrorReply, stop, Exit
    <3> QED
      BY <2>0, <3>1
  <2>3. \A n \in Node : ~Start(n)
    BY <2>0, LeaseAssumption DEF Start
  <2>4. PICK n \in Node : Execute(n)
    BY <2>1, <2>2, <2>3 DEF Next
  <2>5. PICK i \in DOMAIN cmds[n], p \in {"yes", "no"} : Does(n, i, p)
    BY <2>0, <2>4, ExecuteFacts
  <2>6. p = "yes" /\ holder = n
    BY <2>0, <2>5 DEF Does
  <2>7. cmds'[n] # cmds[n] /\ \A m \in Node \ {n} : cmds'[m] = cmds[m]
    BY <2>5, <2>6 DEF Does, Executed, Alone
  <2> QED
    BY <2>6, <2>7
<1> QED
  BY <1>1, LeaseTypeInit, LeaseTypeStep, PTL DEF Spec, OnlyHolderTouchesLease

-----------------------------------------------------------------------------
(***************************************************************************)
(* Why a scanning node has the lease, when nothing is late and two delays  *)
(* and a heartbeat fit in the lease.                                       *)
(***************************************************************************)

\* Two delays and a heartbeat fit in the lease.
Fits == 2 * Delay + Heartbeat < Lease

\* Command i of node n is such a command, in that phase.
Is(n, i, op, phase) == cmds[n][i].op = op /\ cmds[n][i].phase = phase

\* Commands are executed in the order they were sent, and none overtakes.
InOrder(n) ==
    \A i, k \in DOMAIN cmds[n] :
        i < k => /\ cmds[n][i].phase = "sent" => cmds[n][k].phase = "sent"
                 /\ cmds[n][i].age >= cmds[n][k].age

\* A node that campaigns has not released.
NoRelease(n) == \A i \in DOMAIN cmds[n] : cmds[n][i].op # "release"

\* A SET got the lease, and its node has still to hear of it.
WonRecently(n) ==
    \A i \in DOMAIN cmds[n] :
        Is(n, i, "set", "yes") => holder = n /\ ttl + cmds[n][i].age >= Lease

\* A renewal that was refused is one of a node that had lost the lead, and has
\* not won it since.
RefusedLate(n) ==
    \A i \in DOMAIN cmds[n] :
        Is(n, i, "renew", "no") =>
            n \notin leader /\ \A k \in 1..(i - 1) : ~Is(n, k, "set", "yes")

\* A renewal under way reaches Redis while the lease lasts.
RenewalUnderWay(n) ==
    \E i \in DOMAIN cmds[n] : Is(n, i, "renew", "sent") /\ ttl + cmds[n][i].age > Delay

\* The lease outlasts the next renewal, sent or to be sent.
LeadLasts(n) == holder = n /\ (ttl > timer[n] + Delay \/ RenewalUnderWay(n))

NodeInv(n) ==
    /\ InOrder(n)
    /\ n \in Active => NoRelease(n) /\ WonRecently(n) /\ RefusedLate(n)
    /\ n \in Scanning => LeadLasts(n)

LeadInv == \A n \in Node : NodeInv(n)

\* What the steps below need of the types.
LEMMA LeadTypes ==
    ASSUME LeaseTypeOK
    PROVE  /\ Queues /\ ttl \in Nat /\ ttl <= Lease /\ (ttl = 0 <=> holder = Nobody)
           /\ Lease \in Nat /\ Delay \in Nat /\ Heartbeat \in Nat
           /\ \A n \in Node : timer[n] \in Nat /\ timer[n] <= Heartbeat
           /\ \A n \in Node : DOMAIN cmds[n] = 1..Len(cmds[n]) /\ Len(cmds[n]) \in Nat
           /\ \A n \in Node : \A i \in DOMAIN cmds[n] :
                /\ i \in Nat /\ cmds[n][i].age \in Nat /\ cmds[n][i].age <= Delay
                /\ cmds[n][i].op \in Op /\ cmds[n][i].phase \in {"sent", "yes", "no"}
           /\ Scanning \subseteq Active /\ Active \subseteq Node
<1> USE LeaseAssumption
<1>1. \A n \in Node : cmds[n] \in Seq(Cmd)
  BY DEF LeaseTypeOK
<1>2. \A n \in Node : DOMAIN cmds[n] = 1..Len(cmds[n]) /\ Len(cmds[n]) \in Nat
  <2> TAKE n \in Node
  <2>1. \A s \in Seq(Cmd) : DOMAIN s = 1..Len(s) /\ Len(s) \in Nat
    OBVIOUS
  <2> QED
    BY <1>1, <2>1
<1>3. \A n \in Node : \A i \in DOMAIN cmds[n] :
        /\ i \in Nat /\ cmds[n][i].age \in Nat /\ cmds[n][i].age <= Delay
        /\ cmds[n][i].op \in Op /\ cmds[n][i].phase \in {"sent", "yes", "no"}
  BY <1>1, <1>2, CmdFacts
<1>4. \A n \in Node : timer[n] \in Nat /\ timer[n] <= Heartbeat
  BY DEF LeaseTypeOK
<1>5. /\ Queues /\ ttl \in Nat /\ ttl <= Lease /\ (ttl = 0 <=> holder = Nobody)
      /\ Scanning \subseteq Active /\ Active \subseteq Node
  BY DEF LeaseTypeOK, Queues, Scanning, Active
<1> QED
  BY <1>2, <1>3, <1>4, <1>5

\* A step of another node, which may touch a lease that is not m's.
Bystander(m) ==
    /\ cmds'[m] = cmds[m] /\ timer'[m] = timer[m]
    /\ m \in Active' <=> m \in Active
    /\ m \in leader' <=> m \in leader
    /\ m \in stopped' <=> m \in stopped
    /\ m \in caught' <=> m \in caught
    /\ UNCHANGED <<holder, ttl>> \/ (holder # m /\ holder' # m)

\* Every step but Tick is the step of one node and leaves the others standing by.
LEMMA OneNodeSteps ==
    ASSUME LeaseTypeOK, NEW n \in Node, NEW m \in Node \ {n},
           \/ campaign(n) \/ Execute(n) \/ Reply(n) \/ ErrorReply(n)
           \/ stop(n) \/ Exit(n) \/ Start(n)
    PROVE  Bystander(m)
<1>0. Queues /\ timer \in [Node -> 0..Heartbeat]
  BY DEF LeaseTypeOK, Queues
<1>1. CASE campaign(n)
  <2>1. cmds'[m] = cmds[m]
    BY <1>0, <1>1, SendFacts DEF campaign, Alone, Op
  <2> QED
    BY <1>0, <1>1, <2>1 DEF campaign, Bystander, Active
<1>2. CASE Execute(n)
  <2>1. PICK i \in DOMAIN cmds[n], p \in {"yes", "no"} : Does(n, i, p)
    BY <1>0, <1>2, ExecuteFacts
  <2> QED
    BY <2>1, LeaseAssumption DEF Does, Alone, Bystander, Active
<1>3. CASE Reply(n)
  <2>1. cmds'[m] = cmds[m]
    BY <1>0, <1>3, PopFacts DEF Reply, Alone
  <2>2. m \in leader' <=> m \in leader
    BY <1>3 DEF Reply, HandleReply, setLeader
  <2> QED
    BY <1>3, <2>1, <2>2 DEF Reply, Bystander, Active
<1>4. CASE ErrorReply(n)
  <2>1. cmds'[m] = cmds[m]
    BY <1>0, <1>4, PopFacts DEF ErrorReply, Alone
  <2> QED
    BY <1>4, <2>1 DEF ErrorReply, setLeader, Bystander, Active
<1>5. CASE stop(n)
  <2>1. cmds'[m] = cmds[m]
    BY <1>0, <1>5, SendFacts DEF stop, Alone, Op
  <2>2. m \in caught' <=> m \in caught
    BY <1>5 DEF stop
  <2> QED
    BY <1>5, <2>1, <2>2 DEF stop, Bystander, Active
<1>6. CASE Exit(n)
  <2>1. cmds'[m] = cmds[m]
    BY <1>0, <1>6, CutFacts DEF Exit, Alone
  <2> QED
    BY <1>6, <2>1 DEF Exit, Bystander, Active
<1>7. CASE Start(n)
  <2>1. timer'[m] = timer[m]
    BY <1>0, <1>7 DEF Start
  <2> QED
    BY <1>7, <2>1, LeaseAssumption DEF Start, Bystander, Active
<1> QED
  BY <1>1, <1>2, <1>3, <1>4, <1>5, <1>6, <1>7

\* A node that stands by keeps its invariant.
LEMMA LeadBystander ==
    ASSUME NEW m \in Node, NodeInv(m), Bystander(m)
    PROVE  NodeInv(m)'
<1>1. m \in Scanning' => m \in Scanning
  BY DEF Scanning, Bystander
<1>2. InOrder(m)' /\ (NoRelease(m) => NoRelease(m)')
  BY DEF NodeInv, InOrder, NoRelease, Bystander
<1>3. RefusedLate(m) => RefusedLate(m)'
  BY DEF RefusedLate, Is, Bystander
<1>4. WonRecently(m) => WonRecently(m)'
  BY DEF WonRecently, Is, Bystander
<1>5. LeadLasts(m) => LeadLasts(m)'
  BY DEF LeadLasts, RenewalUnderWay, Is, Bystander
<1> QED
  BY <1>1, <1>2, <1>3, <1>4, <1>5 DEF NodeInv, Bystander

\* The heartbeat: the new renewal is the one that will be in time.
LEMMA LeadCampaign ==
    ASSUME LeaseTypeOK, NEW n \in Node, NodeInv(n), campaign(n)
    PROVE  NodeInv(n)'
<1>0. /\ Queues /\ ttl \in Nat /\ Delay \in Nat
      /\ DOMAIN cmds[n] = 1..Len(cmds[n]) /\ Len(cmds[n]) \in Nat
      /\ \A i \in DOMAIN cmds[n] : i \in Nat /\ cmds[n][i].age \in Nat
      /\ Scanning \subseteq Active /\ Active \subseteq Node
  BY LeadTypes
<1>1. PICK op \in {"renew", "set"} : Send(n, op) /\ (n \in leader => op = "renew")
  BY DEF campaign
<1>2. Alone(n) /\ Sent(cmds[n], cmds'[n], op)
  BY <1>0, <1>1, SendFacts DEF Op
<1>3. /\ UNCHANGED <<holder, ttl, up, stopped, leader>> /\ timer[n] = 0 /\ n \in Active
      /\ n \in Active' /\ (n \in Scanning' => n \in Scanning)
  BY DEF campaign, Active, Scanning
<1>K. PICK K \in Nat : K = Len(cmds[n]) + 1
  BY <1>0
<1>4. /\ DOMAIN cmds'[n] = 1..K /\ DOMAIN cmds[n] = 1..(K - 1) /\ K \in Nat \ {0}
      /\ \A i \in DOMAIN cmds[n] : i \in DOMAIN cmds'[n] /\ cmds'[n][i] = cmds[n][i]
      /\ \A i \in DOMAIN cmds'[n] : i \in DOMAIN cmds[n] \/ i = K
      /\ cmds'[n][K].op = op /\ cmds'[n][K].phase = "sent" /\ cmds'[n][K].age = 0
  BY <1>0, <1>2, <1>K DEF Sent
<1>5. InOrder(n)'
  <2> SUFFICES ASSUME NEW i \in DOMAIN cmds'[n], NEW k \in DOMAIN cmds'[n], i < k
               PROVE  /\ cmds'[n][i].phase = "sent" => cmds'[n][k].phase = "sent"
                      /\ cmds'[n][i].age >= cmds'[n][k].age
    BY DEF InOrder
  <2>1. i \in DOMAIN cmds[n] /\ cmds'[n][i] = cmds[n][i] /\ cmds[n][i].age \in Nat
    BY <1>0, <1>4
  <2>2. CASE k = K
    BY <1>4, <2>1, <2>2
  <2>3. CASE k \in DOMAIN cmds[n]
    BY <1>4, <2>1, <2>3 DEF NodeInv, InOrder
  <2> QED
    BY <1>4, <2>2, <2>3
<1>6. NoRelease(n)'
  BY <1>1, <1>3, <1>4 DEF NodeInv, NoRelease
<1>7. WonRecently(n)'
  BY <1>3, <1>4 DEF NodeInv, WonRecently, Is
<1>8. ASSUME n \in Scanning PROVE LeadLasts(n)'
  <2>1. n \in leader /\ holder' = n /\ LeadLasts(n)
    BY <1>3, <1>8 DEF Scanning, NodeInv, LeadLasts
  <2>2. CASE ttl > timer[n] + Delay
    <3>1. K \in DOMAIN cmds'[n] /\ Is(n, K, "renew", "sent")'
      BY <1>1, <1>4, <2>1 DEF Is
    <3>2. ttl' + cmds'[n][K].age > Delay
      BY <1>0, <1>3, <1>4, <2>2
    <3> QED
      BY <2>1, <3>1, <3>2 DEF LeadLasts, RenewalUnderWay
  <2>3. CASE RenewalUnderWay(n)
    BY <1>3, <1>4, <2>1, <2>3 DEF LeadLasts, RenewalUnderWay, Is
  <2> QED
    BY <2>1, <2>2, <2>3 DEF LeadLasts
<1>9. RefusedLate(n)'
  <2> SUFFICES ASSUME NEW i \in DOMAIN cmds'[n], Is(n, i, "renew", "no")'
               PROVE  n \notin leader /\ \A k \in 1..(i - 1) : ~Is(n, k, "set", "yes")'
    BY <1>3 DEF RefusedLate
  <2>1. i \in DOMAIN cmds[n] /\ Is(n, i, "renew", "no")
    BY <1>4 DEF Is
  <2>2. n \notin leader /\ \A k \in 1..(i - 1) : ~Is(n, k, "set", "yes")
    BY <1>3, <2>1 DEF NodeInv, RefusedLate
  <2>3. \A k \in 1..(i - 1) : k \in DOMAIN cmds[n]
    BY <1>4, <2>1
  <2> QED
    BY <1>4, <2>2, <2>3 DEF Is
<1> QED
  BY <1>3, <1>5, <1>6, <1>7, <1>8, <1>9 DEF NodeInv

\* Redis executes a command: a renewal that leads is not refused, and a SET that
\* wins does so with a full lease.
LEMMA LeadExecute ==
    ASSUME Fits, LeaseTypeOK, NEW n \in Node, NodeInv(n),
           NEW i \in DOMAIN cmds[n], NEW p \in {"yes", "no"}, Does(n, i, p)
    PROVE  NodeInv(n)'
<1>0. /\ Queues /\ ttl \in Nat /\ Delay \in Nat /\ Lease \in Nat /\ Heartbeat \in Nat
      /\ ttl = 0 <=> holder = Nobody
      /\ timer[n] \in Nat /\ timer[n] <= Heartbeat
      /\ DOMAIN cmds[n] = 1..Len(cmds[n]) /\ Len(cmds[n]) \in Nat
      /\ \A j \in DOMAIN cmds[n] : /\ j \in Nat /\ cmds[n][j].age \in Nat
                                   /\ cmds[n][j].op \in Op
      /\ Scanning \subseteq Active /\ Active \subseteq Node
  BY LeadTypes
<1>1. /\ DOMAIN cmds'[n] = DOMAIN cmds[n]
      /\ \A j \in DOMAIN cmds[n] : j # i => cmds'[n][j] = cmds[n][j]
      /\ \A j \in DOMAIN cmds[n] : cmds'[n][j].op = cmds[n][j].op /\ cmds'[n][j].age = cmds[n][j].age
      /\ cmds'[n][i].phase = p /\ cmds[n][i].phase = "sent"
      /\ \A k \in 1..(i - 1) : cmds[n][k].phase # "sent"
  BY DEF Does, Executed
<1>2. /\ UNCHANGED <<leader, timer>> /\ Active' = Active /\ Scanning' = Scanning
  BY DEF Does, Active, Scanning
<1>3. \A j \in DOMAIN cmds[n] : j < i => cmds[n][j].phase # "sent"
  BY <1>0, <1>1
<1>4. InOrder(n)'
  <2> SUFFICES ASSUME NEW j \in DOMAIN cmds[n], NEW k \in DOMAIN cmds[n], j < k
               PROVE  /\ cmds'[n][j].phase = "sent" => cmds'[n][k].phase = "sent"
                      /\ cmds'[n][j].age >= cmds'[n][k].age
    BY <1>1 DEF InOrder
  <2>1. /\ cmds[n][j].phase = "sent" => cmds[n][k].phase = "sent"
        /\ cmds[n][j].age >= cmds[n][k].age
    BY DEF NodeInv, InOrder
  <2>2. CASE j = i \/ k = i
    BY <1>1, <1>3, <2>1, <2>2
  <2>3. CASE j # i /\ k # i
    BY <1>1, <2>1, <2>3
  <2> QED
    BY <2>2, <2>3
<1>5. ASSUME n \in Active PROVE NoRelease(n)'
  BY <1>1, <1>5 DEF NodeInv, NoRelease
<1>6. ASSUME n \in Active, holder = n
      PROVE  /\ holder' = n
             /\ ttl' = ttl \/ ttl' = Lease
             /\ cmds[n][i].op # "set" => ttl' = Lease
             /\ cmds[n][i].op = "set" => p = "no" /\ ttl' = ttl
  <2>1. cmds[n][i].op \in {"renew", "set"} /\ holder # Nobody
    BY <1>0, <1>6, LeaseAssumption DEF NodeInv, NoRelease, Op
  <2>2. CASE cmds[n][i].op = "renew"
    BY <1>6, <2>2 DEF Does, Matches
  <2>3. CASE cmds[n][i].op = "set"
    BY <1>6, <2>1, <2>3 DEF Does
  <2> QED
    BY <2>1, <2>2, <2>3
<1>7. ASSUME n \in Active PROVE WonRecently(n)'
  <2> SUFFICES ASSUME NEW j \in DOMAIN cmds[n], Is(n, j, "set", "yes")'
               PROVE  holder' = n /\ ttl' + cmds[n][j].age >= Lease
    BY <1>1 DEF WonRecently
  <2>1. CASE j # i
    <3>1. holder = n /\ ttl + cmds[n][j].age >= Lease
      BY <1>1, <1>7, <2>1 DEF NodeInv, WonRecently, Is
    <3>2. holder' = n /\ (ttl' = ttl \/ ttl' = Lease)
      BY <1>6, <1>7, <3>1
    <3> QED
      BY <1>0, <3>1, <3>2
  <2>2. CASE j = i
    <3>1. holder' = n /\ ttl' = Lease
      BY <1>1, <2>2 DEF Is, Does
    <3> QED
      BY <1>0, <3>1
  <2> QED
    BY <2>1, <2>2
<1>8. ASSUME n \in Scanning PROVE LeadLasts(n)'
  <2>1. n \in Active /\ holder = n /\ LeadLasts(n)
    BY <1>0, <1>8 DEF NodeInv, LeadLasts
  <2>2. CASE cmds[n][i].op # "set"
    <3>1. holder' = n /\ ttl' = Lease
      BY <1>6, <2>1, <2>2
    <3>2. ttl' > timer'[n] + Delay
      BY <1>0, <1>2, <3>1 DEF Fits
    <3> QED
      BY <3>1, <3>2 DEF LeadLasts
  <2>3. CASE cmds[n][i].op = "set"
    <3>1. holder' = n /\ ttl' = ttl
      BY <1>6, <2>1, <2>3
    <3>2. CASE RenewalUnderWay(n)
      <4>1. PICK j \in DOMAIN cmds[n] : Is(n, j, "renew", "sent") /\ ttl + cmds[n][j].age > Delay
        BY <3>2 DEF RenewalUnderWay
      <4>2. j # i
        BY <2>3, <4>1 DEF Is
      <4> QED
        BY <1>1, <3>1, <4>1, <4>2 DEF LeadLasts, RenewalUnderWay, Is
    <3>3. CASE ttl > timer[n] + Delay
      BY <1>2, <3>1, <3>3 DEF LeadLasts
    <3> QED
      BY <2>1, <3>2, <3>3 DEF LeadLasts
  <2> QED
    BY <2>2, <2>3
<1>9. ASSUME n \in Active PROVE RefusedLate(n)'
  <2> SUFFICES ASSUME NEW j \in DOMAIN cmds[n], Is(n, j, "renew", "no")'
               PROVE  n \notin leader /\ \A k \in 1..(j - 1) : ~Is(n, k, "set", "yes")'
    BY <1>1, <1>2 DEF RefusedLate
  <2>0. \A k \in 1..(j - 1) : k \in DOMAIN cmds[n] /\ k < j
    BY <1>0
  <2>1. CASE j # i
    <3>1. Is(n, j, "renew", "no")
      BY <1>1, <2>1 DEF Is
    <3>2. n \notin leader /\ \A k \in 1..(j - 1) : ~Is(n, k, "set", "yes")
      BY <1>9, <3>1 DEF NodeInv, RefusedLate
    <3>3. ~(i < j)
      BY <1>1, <3>1 DEF NodeInv, InOrder, Is
    <3> QED
      BY <1>1, <2>0, <3>2, <3>3 DEF Is
  <2>2. CASE j = i
    <3>1. holder # n
      BY <1>1, <2>2 DEF Is, Does, Matches
    <3>2. n \notin leader
      BY <1>9, <3>1 DEF NodeInv, LeadLasts, Scanning
    <3>3. \A k \in 1..(i - 1) : ~Is(n, k, "set", "yes")
      BY <1>9, <2>0, <2>2, <3>1 DEF NodeInv, WonRecently
    <3> QED
      BY <1>1, <2>0, <2>2, <3>2, <3>3 DEF Is
  <2> QED
    BY <2>1, <2>2
<1> QED
  BY <1>2, <1>4, <1>5, <1>7, <1>8, <1>9 DEF NodeInv

\* The oldest command leaves the queue of a node: what is said of the others stays.
LEMMA LeadShift ==
    ASSUME LeaseTypeOK, NEW n \in Node, NodeInv(n), Answered(cmds[n], cmds'[n]),
           UNCHANGED <<holder, ttl>>
    PROVE  /\ InOrder(n)'
           /\ n \in Active => NoRelease(n)' /\ WonRecently(n)'
           /\ n \in Active => \A i \in DOMAIN cmds'[n] : Is(n, i, "renew", "no")' =>
                /\ n \notin leader /\ ~Is(n, 1, "set", "yes")
                /\ \A k \in 1..(i - 1) : ~Is(n, k, "set", "yes")'
<1>0. /\ DOMAIN cmds[n] = 1..Len(cmds[n]) /\ Len(cmds[n]) \in Nat
      /\ \A i \in DOMAIN cmds'[n] : i + 1 \in DOMAIN cmds[n] /\ cmds'[n][i] = cmds[n][i + 1]
      /\ DOMAIN cmds'[n] = 1..(Len(cmds[n]) - 1)
  BY LeadTypes DEF Answered
<1>1. InOrder(n)'
  <2> SUFFICES ASSUME NEW i \in DOMAIN cmds'[n], NEW k \in DOMAIN cmds'[n], i < k
               PROVE  /\ cmds'[n][i].phase = "sent" => cmds'[n][k].phase = "sent"
                      /\ cmds'[n][i].age >= cmds'[n][k].age
    BY DEF InOrder
  <2>1. i + 1 < k + 1 /\ i + 1 \in DOMAIN cmds[n] /\ k + 1 \in DOMAIN cmds[n]
    BY <1>0
  <2>2. /\ cmds[n][i + 1].phase = "sent" => cmds[n][k + 1].phase = "sent"
        /\ cmds[n][i + 1].age >= cmds[n][k + 1].age
    BY <2>1 DEF NodeInv, InOrder
  <2> QED
    BY <1>0, <2>2
<1>2. ASSUME n \in Active PROVE NoRelease(n)' /\ WonRecently(n)'
  BY <1>0, <1>2 DEF NodeInv, NoRelease, WonRecently, Is
<1>3. ASSUME n \in Active, NEW i \in DOMAIN cmds'[n], Is(n, i, "renew", "no")'
      PROVE  /\ n \notin leader /\ ~Is(n, 1, "set", "yes")
             /\ \A k \in 1..(i - 1) : ~Is(n, k, "set", "yes")'
  <2>1. i + 1 \in DOMAIN cmds[n] /\ Is(n, i + 1, "renew", "no")
    BY <1>0, <1>3 DEF Is
  <2>2. n \notin leader /\ \A k \in 1..((i + 1) - 1) : ~Is(n, k, "set", "yes")
    BY <1>3, <2>1 DEF NodeInv, RefusedLate
  <2>3. 1 \in 1..((i + 1) - 1)
    BY <1>0
  <2>4. \A k \in 1..(i - 1) : k \in DOMAIN cmds'[n] /\ k + 1 \in 1..((i + 1) - 1)
    BY <1>0
  <2>5. \A k \in 1..(i - 1) : cmds'[n][k] = cmds[n][k + 1] /\ ~Is(n, k + 1, "set", "yes")
    BY <1>0, <2>2, <2>4
  <2> QED
    BY <2>2, <2>3, <2>5 DEF Is
<1> QED
  BY <1>1, <1>2, <1>3

\* An answer: a node that hears it won has a lease of which at most a delay is gone.
LEMMA LeadReply ==
    ASSUME Fits, LeaseTypeOK, NEW n \in Node, NodeInv(n), Reply(n)
    PROVE  NodeInv(n)'
<1>0. /\ Queues /\ ttl \in Nat /\ Delay \in Nat /\ Lease \in Nat /\ Heartbeat \in Nat
      /\ timer[n] \in Nat /\ timer[n] <= Heartbeat
      /\ \A j \in DOMAIN cmds[n] : cmds[n][j].age \in Nat /\ cmds[n][j].age <= Delay
      /\ Scanning \subseteq Active
  BY LeadTypes
<1>1. Answered(cmds[n], cmds'[n]) /\ UNCHANGED <<holder, ttl, timer>> /\ Active' = Active
  BY <1>0, PopFacts DEF Reply, Active
<1>2. /\ 1 \in DOMAIN cmds[n] /\ Head(cmds[n]) = cmds[n][1] /\ cmds[n][1].phase # "sent"
      /\ \A j \in DOMAIN cmds[n] : j # 1 =>
            j - 1 \in DOMAIN cmds'[n] /\ cmds'[n][j - 1] = cmds[n][j]
  BY <1>1 DEF Answered, Reply
<1>3. /\ InOrder(n)'
      /\ n \in Active => NoRelease(n)' /\ WonRecently(n)'
      /\ n \in Active => \A i \in DOMAIN cmds'[n] : Is(n, i, "renew", "no")' =>
            /\ n \notin leader /\ ~Is(n, 1, "set", "yes")
            /\ \A k \in 1..(i - 1) : ~Is(n, k, "set", "yes")'
  BY <1>1, LeadShift
<1>4. n \in leader' => n \in leader \/ Is(n, 1, "set", "yes")
  BY <1>2 DEF Reply, HandleReply, setLeader, Is
<1>5. n \in Active => RefusedLate(n)'
  BY <1>3, <1>4 DEF RefusedLate
<1>6. ASSUME n \in Scanning' PROVE LeadLasts(n)'
  <2>1. n \in Active /\ n \in leader'
    BY <1>1, <1>6 DEF Scanning
  <2>2. CASE n \in leader
    <3>1. LeadLasts(n)
      BY <2>1, <2>2 DEF NodeInv, Scanning
    <3>2. CASE RenewalUnderWay(n)
      <4>1. PICK j \in DOMAIN cmds[n] : Is(n, j, "renew", "sent") /\ ttl + cmds[n][j].age > Delay
        BY <3>2 DEF RenewalUnderWay
      <4>2. j - 1 \in DOMAIN cmds'[n] /\ cmds'[n][j - 1] = cmds[n][j]
        BY <1>2, <4>1 DEF Is
      <4> QED
        BY <1>1, <3>1, <4>1, <4>2 DEF LeadLasts, RenewalUnderWay, Is
    <3> QED
      BY <1>1, <3>1, <3>2 DEF LeadLasts
  <2>3. CASE Is(n, 1, "set", "yes")
    <3>1. holder = n /\ ttl + cmds[n][1].age >= Lease
      BY <1>2, <2>1, <2>3 DEF NodeInv, WonRecently
    <3>2. ttl > timer[n] + Delay
      BY <1>0, <1>2, <3>1 DEF Fits
    <3> QED
      BY <1>1, <3>1, <3>2 DEF LeadLasts
  <2> QED
    BY <1>4, <2>1, <2>2, <2>3
<1> QED
  BY <1>1, <1>3, <1>5, <1>6 DEF NodeInv

\* An exception: the node does not lead.
LEMMA LeadError ==
    ASSUME LeaseTypeOK, NEW n \in Node, NodeInv(n), ErrorReply(n)
    PROVE  NodeInv(n)'
<1>1. Answered(cmds[n], cmds'[n]) /\ UNCHANGED <<holder, ttl>> /\ Active' = Active
  BY LeadTypes, PopFacts DEF ErrorReply, Active
<1>2. n \notin leader'
  BY DEF ErrorReply, setLeader
<1>3. /\ InOrder(n)'
      /\ n \in Active => NoRelease(n)' /\ WonRecently(n)'
      /\ n \in Active => \A i \in DOMAIN cmds'[n] : Is(n, i, "renew", "no")' =>
            \A k \in 1..(i - 1) : ~Is(n, k, "set", "yes")'
  BY <1>1, LeadShift
<1> QED
  BY <1>1, <1>2, <1>3 DEF NodeInv, RefusedLate, Scanning

\* A node that stops, dies or starts: it takes no part, or has no commands yet.
LEMMA LeadLifeCycle ==
    ASSUME LeaseTypeOK, NEW n \in Node, NodeInv(n), stop(n) \/ Exit(n) \/ Start(n)
    PROVE  NodeInv(n)'
<1>0. /\ Queues /\ DOMAIN cmds[n] = 1..Len(cmds[n]) /\ Len(cmds[n]) \in Nat
      /\ \A i \in DOMAIN cmds[n] : i \in Nat /\ cmds[n][i].age \in Nat
  BY LeadTypes
<1>1. CASE stop(n)
  <2>1. n \notin Active' /\ n \notin Scanning'
    BY <1>1 DEF stop, Active, Scanning
  <2>2. CASE n \in leader
    <3>1. Sent(cmds[n], cmds'[n], "release")
      BY <1>0, <1>1, <2>2, SendFacts DEF stop, Op
    <3> SUFFICES ASSUME NEW i \in DOMAIN cmds'[n], NEW k \in DOMAIN cmds'[n], i < k
                 PROVE  /\ cmds'[n][i].phase = "sent" => cmds'[n][k].phase = "sent"
                        /\ cmds'[n][i].age >= cmds'[n][k].age
      BY <2>1 DEF NodeInv, InOrder
    <3>2. i \in DOMAIN cmds[n] /\ cmds'[n][i] = cmds[n][i] /\ cmds[n][i].age \in Nat
      BY <1>0, <3>1 DEF Sent
    <3>3. k = Len(cmds[n]) + 1 \/ (k \in DOMAIN cmds[n] /\ cmds'[n][k] = cmds[n][k])
      BY <3>1 DEF Sent
    <3> QED
      BY <3>1, <3>2, <3>3 DEF Sent, NodeInv, InOrder
  <2>3. CASE n \notin leader
    BY <1>1, <2>1, <2>3 DEF stop, NodeInv, InOrder
  <2> QED
    BY <2>2, <2>3
<1>2. CASE Exit(n)
  <2>1. n \notin Active' /\ n \notin Scanning'
    BY <1>2 DEF Exit, Active, Scanning
  <2>2. Cut(cmds[n], cmds'[n])
    BY <1>0, <1>2, CutFacts DEF Exit
  <2> QED
    BY <2>1, <2>2 DEF Cut, NodeInv, InOrder
<1>3. CASE Start(n)
  <2>1. n \notin leader' /\ DOMAIN cmds'[n] = {}
    BY <1>3 DEF Start, LeaseTypeOK
  <2> QED
    BY <2>1 DEF NodeInv, InOrder, NoRelease, WonRecently, RefusedLate, Scanning
<1> QED
  BY <1>1, <1>2, <1>3

\* A unit of time: nothing was due, so what was in time still is.
LEMMA LeadTick ==
    ASSUME Timely, Fits, LeaseTypeOK, NEW n \in Node, NodeInv(n), Tick
    PROVE  NodeInv(n)'
<1>0. /\ Queues /\ ttl \in Nat /\ Delay \in Nat /\ Lease \in Nat /\ Heartbeat \in Nat
      /\ timer[n] \in Nat /\ timer[n] <= Heartbeat
      /\ DOMAIN cmds[n] = 1..Len(cmds[n]) /\ Len(cmds[n]) \in Nat
      /\ \A j \in DOMAIN cmds[n] : j \in Nat /\ cmds[n][j].age \in Nat
      /\ Scanning \subseteq Active
  BY LeadTypes
<1>1. /\ \A j \in DOMAIN cmds[n] : cmds[n][j].age < Delay
      /\ n \in Active => timer[n] > 0
  BY DEF Tick, OnTime
<1>2. /\ DOMAIN cmds'[n] = DOMAIN cmds[n]
      /\ \A j \in DOMAIN cmds[n] : /\ cmds'[n][j].op = cmds[n][j].op
                                   /\ cmds'[n][j].phase = cmds[n][j].phase
                                   /\ cmds'[n][j].age = cmds[n][j].age + 1
  BY <1>0, <1>1, TickFacts DEF Aged, Older
<1>3. Active' = Active /\ Scanning' = Scanning /\ leader' = leader
  BY DEF Tick, Active, Scanning
<1>4. ttl > 1 => ttl' = ttl - 1 /\ holder' = holder
  BY <1>0 DEF Tick, Down
<1>5. timer'[n] = Down(timer[n])
  BY DEF Tick
<1>6. InOrder(n)'
  BY <1>0, <1>2 DEF NodeInv, InOrder
<1>7. ASSUME n \in Active PROVE NoRelease(n)' /\ RefusedLate(n)'
  <2>1. NoRelease(n)'
    BY <1>2, <1>7 DEF NodeInv, NoRelease
  <2>2. \A i \in DOMAIN cmds[n] : \A k \in 1..(i - 1) : k \in DOMAIN cmds[n]
    BY <1>0
  <2> QED
    BY <1>2, <1>3, <1>7, <2>1, <2>2 DEF NodeInv, RefusedLate, Is
<1>8. ASSUME n \in Active PROVE WonRecently(n)'
  <2> SUFFICES ASSUME NEW j \in DOMAIN cmds[n], Is(n, j, "set", "yes")
               PROVE  holder' = n /\ ttl' + (cmds[n][j].age + 1) >= Lease
    BY <1>2 DEF WonRecently, Is
  <2>1. holder = n /\ ttl + cmds[n][j].age >= Lease
    BY <1>8 DEF NodeInv, WonRecently
  <2>2. cmds[n][j].age \in Nat /\ cmds[n][j].age < Delay
    BY <1>0, <1>1
  <2>3. ttl > 1
    BY <1>0, <2>1, <2>2 DEF Fits
  <2> QED
    BY <1>0, <1>4, <2>1, <2>2, <2>3
<1>9. ASSUME n \in Scanning PROVE LeadLasts(n)'
  <2>1. n \in Active /\ LeadLasts(n)
    BY <1>0, <1>9 DEF NodeInv
  <2>2. CASE RenewalUnderWay(n)
    <3>1. PICK j \in DOMAIN cmds[n] : Is(n, j, "renew", "sent") /\ ttl + cmds[n][j].age > Delay
      BY <2>2 DEF RenewalUnderWay
    <3>2. cmds[n][j].age \in Nat /\ cmds[n][j].age < Delay
      BY <1>0, <1>1
    <3>3. ttl > 1 /\ (ttl - 1) + (cmds[n][j].age + 1) > Delay
      BY <1>0, <3>1, <3>2
    <3> QED
      BY <1>2, <1>4, <2>1, <3>1, <3>3 DEF LeadLasts, RenewalUnderWay, Is
  <2>3. CASE ttl > timer[n] + Delay
    <3>1. ttl > 1 /\ ttl - 1 > Down(timer[n]) + Delay
      BY <1>0, <1>1, <2>1, <2>3 DEF Down
    <3> QED
      BY <1>4, <1>5, <2>1, <3>1 DEF LeadLasts
  <2> QED
    BY <2>1, <2>2, <2>3 DEF LeadLasts
<1> QED
  BY <1>3, <1>6, <1>7, <1>8, <1>9 DEF NodeInv

\* Nobody runs and nothing is under way.
LEMMA LeadInit == Init => LeadInv
<1> SUFFICES ASSUME Init, NEW n \in Node PROVE NodeInv(n)
  BY DEF LeadInv
<1>1. DOMAIN cmds[n] = {} /\ n \notin Active /\ n \notin Scanning
  <2>1. cmds[n] = <<>> /\ up = {}
    BY DEF Init
  <2> QED
    BY <2>1 DEF Active, Scanning
<1> QED
  BY <1>1 DEF NodeInv, InOrder

\* Every step keeps the invariant of every node.
LEMMA LeadStep ==
    ASSUME Timely, Fits
    PROVE  LeaseTypeOK /\ LeadInv /\ [Next]_vars => LeadInv'
<1> SUFFICES ASSUME LeaseTypeOK, LeadInv, [Next]_vars, NEW m \in Node PROVE NodeInv(m)'
  BY DEF LeadInv
<1>1. NodeInv(m)
  BY DEF LeadInv
<1>2. CASE Tick
  BY <1>1, <1>2, LeadTick
<1>3. CASE UNCHANGED vars
  BY <1>1, <1>3 DEF vars, nodeVars, NodeInv, InOrder, NoRelease, WonRecently, RefusedLate,
                    LeadLasts, RenewalUnderWay, Is, Scanning, Active
<1>4. ASSUME NEW n \in Node,
             \/ campaign(n) \/ Execute(n) \/ Reply(n) \/ ErrorReply(n)
             \/ stop(n) \/ Exit(n) \/ Start(n)
      PROVE  NodeInv(m)'
  <2>1. CASE m # n
    <3>1. Bystander(m)
      BY <1>4, <2>1, OneNodeSteps
    <3> QED
      BY <1>1, <3>1, LeadBystander
  <2>2. CASE m = n
    <3>1. CASE Execute(n)
      <4>1. PICK i \in DOMAIN cmds[n], p \in {"yes", "no"} : Does(n, i, p)
        BY <3>1, LeadTypes, ExecuteFacts
      <4> QED
        BY <1>1, <2>2, <4>1, LeadExecute
    <3>2. CASE campaign(n)
      BY <1>1, <2>2, <3>2, LeadCampaign
    <3>3. CASE Reply(n)
      BY <1>1, <2>2, <3>3, LeadReply
    <3>4. CASE ErrorReply(n)
      BY <1>1, <2>2, <3>4, LeadError
    <3>5. CASE stop(n) \/ Exit(n) \/ Start(n)
      BY <1>1, <2>2, <3>5, LeadLifeCycle
    <3> QED
      BY <1>4, <3>1, <3>2, <3>3, <3>4, <3>5
  <2> QED
    BY <2>1, <2>2
<1> QED
  BY <1>2, <1>3, <1>4 DEF Next

\* "True only while this instance currently holds leadership" (leader.ts): for
\* any number of replicas that fail, restart and stop, a node that scans has the
\* lease, so no two nodes scan at once, if nothing is late and two delays and a
\* heartbeat fit in the lease.
THEOREM LeadersHoldTheLease ==
    ASSUME Timely, Fits
    PROVE  Spec => []LeaderHoldsLease
<1>1. LeaseTypeOK /\ LeadInv => LeaderHoldsLease
  BY LeadTypes DEF LeadInv, NodeInv, LeadLasts, LeaderHoldsLease
<1> QED
  BY <1>1, LeaseTypeInit, LeaseTypeStep, LeadInit, LeadStep, PTL DEF Spec

-----------------------------------------------------------------------------
(***************************************************************************)
(* Why a stopped node has given up the lease.                              *)
(***************************************************************************)

\* A node without a failed command that renews leads, and is not refused.
RenewLeads(n) ==
    \A i \in DOMAIN cmds[n] :
        cmds[n][i].op = "renew" => cmds[n][i].phase # "no" /\ n \in leader

\* Such a node has the lease without leading only until it hears of it.
HolderHears(n) ==
    n \notin leader /\ holder = n => \E i \in DOMAIN cmds[n] : Is(n, i, "set", "yes")

\* Its last command releases the lease, or it has none and not the lease.
ReleasesLast(n) ==
    /\ cmds[n] = <<>> => n \notin leader /\ holder # n
    /\ \A k \in DOMAIN cmds[n] : k = Len(cmds[n]) =>
        cmds[n][k].op = "release" /\ (cmds[n][k].phase # "sent" => holder # n)

StopInvOf(n) ==
    /\ n \in Active /\ n \notin caught => RenewLeads(n) /\ HolderHears(n)
    /\ n \in up /\ n \in stopped /\ n \notin caught => ReleasesLast(n)

StopInv == \A n \in Node : StopInvOf(n)

\* A node that stands by keeps its invariant.
LEMMA StopBystander ==
    ASSUME NEW m \in Node, StopInvOf(m), Bystander(m), m \in up' <=> m \in up
    PROVE  StopInvOf(m)'
<1>1. RenewLeads(m) => RenewLeads(m)'
  BY DEF RenewLeads, Bystander
<1>2. HolderHears(m) => HolderHears(m)'
  BY DEF HolderHears, Is, Bystander
<1>3. ReleasesLast(m) => ReleasesLast(m)'
  BY DEF ReleasesLast, Bystander
<1> QED
  BY <1>1, <1>2, <1>3 DEF StopInvOf, Bystander

\* The heartbeat: a renewal is a leader's.
LEMMA StopCampaign ==
    ASSUME LeaseTypeOK, NEW n \in Node, StopInvOf(n), campaign(n)
    PROVE  StopInvOf(n)'
<1>0. Queues
  BY LeadTypes
<1>1. PICK op \in {"renew", "set"} : Send(n, op) /\ (op = "renew" => n \in leader)
  BY DEF campaign
<1>2. Sent(cmds[n], cmds'[n], op)
  BY <1>0, <1>1, SendFacts DEF Op
<1>3. UNCHANGED <<holder, up, stopped, leader, caught>> /\ n \in Active /\ n \notin stopped'
  BY DEF campaign, Active
<1>4. RenewLeads(n) => RenewLeads(n)'
  BY <1>1, <1>2, <1>3 DEF RenewLeads, Sent
<1>5. HolderHears(n) => HolderHears(n)'
  BY <1>2, <1>3 DEF HolderHears, Is, Sent
<1> QED
  BY <1>3, <1>4, <1>5 DEF StopInvOf

\* Redis executes a command: the release frees the lease or finds it gone.
LEMMA StopExecute ==
    ASSUME LeaseTypeOK, NEW n \in Node, NodeInv(n), StopInvOf(n),
           NEW i \in DOMAIN cmds[n], NEW p \in {"yes", "no"}, Does(n, i, p)
    PROVE  StopInvOf(n)'
<1>0. /\ DOMAIN cmds[n] = 1..Len(cmds[n]) /\ Len(cmds[n]) \in Nat
      /\ \A j \in DOMAIN cmds[n] : j \in Nat /\ cmds[n][j].op \in Op
  BY LeadTypes
<1>1. /\ DOMAIN cmds'[n] = DOMAIN cmds[n] /\ Len(cmds'[n]) = Len(cmds[n])
      /\ \A j \in DOMAIN cmds[n] : j # i => cmds'[n][j] = cmds[n][j]
      /\ \A j \in DOMAIN cmds[n] : cmds'[n][j].op = cmds[n][j].op
      /\ cmds'[n][i].phase = p /\ cmds[n][i].phase = "sent"
  BY DEF Does, Executed
<1>2. UNCHANGED <<up, stopped, leader, caught>> /\ Active' = Active
  BY DEF Does, Active
<1>3. ASSUME n \in Active, n \notin caught PROVE RenewLeads(n)' /\ HolderHears(n)'
  <2>1. RenewLeads(n) /\ HolderHears(n)
    BY <1>3 DEF StopInvOf
  <2>2. cmds[n][i].op = "renew" => p = "yes"
    <3> SUFFICES ASSUME cmds[n][i].op = "renew" PROVE p = "yes"
      OBVIOUS
    <3>1. n \in Scanning
      BY <1>3, <2>1 DEF RenewLeads, Scanning
    <3>2. holder = n
      BY <3>1 DEF NodeInv, LeadLasts
    <3> QED
      BY <3>2 DEF Does, Matches
  <2>3. RenewLeads(n)'
    BY <1>1, <1>2, <2>1, <2>2 DEF RenewLeads
  <2>4. ASSUME n \notin leader, holder' = n
        PROVE  \E j \in DOMAIN cmds'[n] : Is(n, j, "set", "yes")'
    <3>1. CASE holder = n
      <4>1. PICK j \in DOMAIN cmds[n] : Is(n, j, "set", "yes")
        BY <2>1, <2>4, <3>1 DEF HolderHears
      <4>2. j # i
        BY <1>1, <4>1 DEF Is
      <4> QED
        BY <1>1, <4>1, <4>2 DEF Is
    <3>2. CASE holder # n
      <4>1. cmds[n][i].op = "set" /\ p = "yes"
        BY <2>4, <3>2, LeaseAssumption DEF Does
      <4> QED
        BY <1>1, <4>1 DEF Is
    <3> QED
      BY <3>1, <3>2
  <2> QED
    BY <1>2, <2>3, <2>4 DEF HolderHears
<1>4. ASSUME n \in up, n \in stopped, n \notin caught PROVE ReleasesLast(n)'
  <2>1. ReleasesLast(n)
    BY <1>4 DEF StopInvOf
  <2>2. cmds'[n] # <<>>
    BY <1>0, <1>1
  <2>3. ASSUME NEW k \in DOMAIN cmds[n], k = Len(cmds[n]), cmds'[n][k].phase # "sent"
        PROVE  holder' # n
    <3>1. cmds[n][k].op = "release"
      BY <2>1, <2>3 DEF ReleasesLast
    <3>2. k = i
      <4> SUFFICES ASSUME k # i PROVE FALSE
        OBVIOUS
      <4>1. i < k /\ cmds[n][k].phase # "sent"
        BY <1>0, <1>1, <2>3
      <4> QED
        BY <1>1, <4>1 DEF NodeInv, InOrder
    <3> QED
      BY <3>1, <3>2, LeaseAssumption DEF Does, Matches
  <2> QED
    BY <1>1, <2>1, <2>2, <2>3 DEF ReleasesLast
<1> QED
  BY <1>2, <1>3, <1>4 DEF StopInvOf

\* An answer: a candidate hears that it won, a stopped node that it released.
LEMMA StopReply ==
    ASSUME LeaseTypeOK, NEW n \in Node, NodeInv(n), StopInvOf(n), Reply(n)
    PROVE  StopInvOf(n)'
<1>0. /\ Queues /\ DOMAIN cmds[n] = 1..Len(cmds[n]) /\ Len(cmds[n]) \in Nat
      /\ \A j \in DOMAIN cmds[n] : /\ j \in Nat /\ cmds[n][j].op \in Op
                                   /\ cmds[n][j].phase \in {"sent", "yes", "no"}
  BY LeadTypes
<1>1. /\ Answered(cmds[n], cmds'[n]) /\ UNCHANGED <<holder, up, stopped, caught>>
      /\ Active' = Active
  BY <1>0, PopFacts DEF Reply, Active
<1>2. /\ 1 \in DOMAIN cmds[n] /\ Head(cmds[n]) = cmds[n][1] /\ cmds[n][1].phase # "sent"
      /\ \A j \in DOMAIN cmds[n] : j # 1 =>
            j - 1 \in DOMAIN cmds'[n] /\ cmds'[n][j - 1] = cmds[n][j]
      /\ \A j \in DOMAIN cmds'[n] : j + 1 \in DOMAIN cmds[n] /\ cmds'[n][j] = cmds[n][j + 1]
      /\ Len(cmds'[n]) = Len(cmds[n]) - 1 /\ DOMAIN cmds'[n] = 1..Len(cmds'[n])
      /\ cmds'[n] \in Seq(Cmd)
  BY <1>1 DEF Answered, Reply
<1>3. ASSUME n \in Active, n \notin caught PROVE RenewLeads(n)' /\ HolderHears(n)'
  <2>1. RenewLeads(n) /\ HolderHears(n) /\ n \in up
    BY <1>3 DEF StopInvOf, Active
  <2>2. cmds[n][1].op # "release" /\ ~Is(n, 1, "renew", "no")
    BY <1>2, <1>3, <2>1 DEF NodeInv, NoRelease, RenewLeads, Is
  <2>3. HandleReply(n, cmds[n][1])
    BY <1>2, <2>1 DEF Reply
  <2>4. n \in leader => n \in leader'
    BY <2>2, <2>3 DEF HandleReply, setLeader, Is
  <2>5. Is(n, 1, "set", "yes") => n \in leader'
    BY <2>3 DEF HandleReply, setLeader, Is
  <2>6. RenewLeads(n)'
    BY <1>2, <2>1, <2>4 DEF RenewLeads
  <2>7. ASSUME n \notin leader', holder' = n
        PROVE  \E j \in DOMAIN cmds'[n] : Is(n, j, "set", "yes")'
    <3>1. PICK j \in DOMAIN cmds[n] : Is(n, j, "set", "yes")
      BY <1>1, <2>1, <2>4, <2>7 DEF HolderHears
    <3>2. j # 1
      BY <2>5, <2>7, <3>1
    <3> QED
      BY <1>2, <3>1, <3>2 DEF Is
  <2> QED
    BY <2>6, <2>7 DEF HolderHears
<1>4. ASSUME n \in up, n \in stopped, n \notin caught PROVE ReleasesLast(n)'
  <2>1. ReleasesLast(n)
    BY <1>4 DEF StopInvOf
  <2>2. ASSUME cmds'[n] = <<>> PROVE n \notin leader' /\ holder' # n
    <3>1. Len(cmds[n]) = 1
      BY <1>0, <1>2, <2>2
    <3>2. cmds[n][1].op = "release" /\ holder # n
      BY <1>2, <2>1, <3>1 DEF ReleasesLast
    <3> QED
      BY <1>1, <1>2, <1>4, <3>2 DEF Reply, HandleReply, setLeader
  <2>3. ASSUME NEW k \in DOMAIN cmds'[n], k = Len(cmds'[n])
        PROVE  cmds'[n][k].op = "release" /\ (cmds'[n][k].phase # "sent" => holder' # n)
    <3>1. k + 1 \in DOMAIN cmds[n] /\ cmds'[n][k] = cmds[n][k + 1]
      BY <1>2
    <3>2. k + 1 = Len(cmds[n])
      BY <1>0, <1>2, <2>3
    <3> QED
      BY <1>1, <2>1, <3>1, <3>2 DEF ReleasesLast
  <2> QED
    BY <2>2, <2>3 DEF ReleasesLast
<1> QED
  BY <1>1, <1>3, <1>4 DEF StopInvOf

\* stop(): a leader sends the release; another node has nothing under way.
LEMMA StopStop ==
    ASSUME Timely, LeaseTypeOK, NEW n \in Node, NodeInv(n), StopInvOf(n), stop(n)
    PROVE  StopInvOf(n)'
<1>0. /\ Queues /\ DOMAIN cmds[n] = 1..Len(cmds[n]) /\ Len(cmds[n]) \in Nat
      /\ \A j \in DOMAIN cmds[n] : cmds[n][j].op \in Op
  BY LeadTypes
<1>1. n \in Active /\ n \notin Active' /\ UNCHANGED <<holder, leader>>
  BY DEF stop, Active
<1> SUFFICES ASSUME n \notin caught' PROVE ReleasesLast(n)'
  BY <1>1 DEF StopInvOf
<1>2. CASE n \in leader
  <2>1. Sent(cmds[n], cmds'[n], "release")
    BY <1>0, <1>2, SendFacts DEF stop, Op
  <2>2. /\ Len(cmds'[n]) = Len(cmds[n]) + 1
        /\ \A k \in DOMAIN cmds'[n] : k = Len(cmds'[n]) =>
                cmds'[n][k].op = "release" /\ cmds'[n][k].phase = "sent"
    BY <2>1 DEF Sent
  <2>3. cmds'[n] # <<>>
    BY <1>0, <2>2
  <2> QED
    BY <2>2, <2>3 DEF ReleasesLast
<1>3. CASE n \notin leader
  <2>1. cmds'[n] = cmds[n] /\ ~Asks(n) /\ n \notin caught
    BY <1>3 DEF stop
  <2>2. RenewLeads(n) /\ HolderHears(n) /\ NoRelease(n)
    BY <1>1, <2>1 DEF StopInvOf, NodeInv
  <2>3. \A j \in DOMAIN cmds[n] : FALSE
    BY <1>0, <1>3, <2>1, <2>2 DEF RenewLeads, NoRelease, Asks, Op
  <2>4. holder # n
    BY <1>3, <2>2, <2>3 DEF HolderHears
  <2> QED
    BY <1>1, <1>3, <2>1, <2>3, <2>4 DEF ReleasesLast
<1> QED
  BY <1>2, <1>3

\* An exception excuses the node; one that is gone promises nothing; a new one
\* has sent nothing and has a token of its own.
LEMMA StopOthers ==
    ASSUME LeaseTypeOK, NEW n \in Node, ErrorReply(n) \/ Exit(n) \/ Start(n)
    PROVE  StopInvOf(n)'
<1>1. CASE ErrorReply(n)
  BY <1>1 DEF ErrorReply, StopInvOf
<1>2. CASE Exit(n)
  BY <1>2 DEF Exit, StopInvOf, Active
<1>3. CASE Start(n)
  <2>1. DOMAIN cmds'[n] = {} /\ holder' # n /\ n \notin stopped'
    BY <1>3, LeaseAssumption DEF Start
  <2> QED
    BY <2>1 DEF StopInvOf, RenewLeads, HolderHears
<1> QED
  BY <1>1, <1>2, <1>3

\* A unit of time changes ages only, or the lease runs out.
LEMMA StopTick ==
    ASSUME LeaseTypeOK, NEW n \in Node, StopInvOf(n), Tick
    PROVE  StopInvOf(n)'
<1>0. Queues
  BY LeadTypes
<1>1. /\ DOMAIN cmds'[n] = DOMAIN cmds[n] /\ Len(cmds'[n]) = Len(cmds[n])
      /\ \A j \in DOMAIN cmds[n] : /\ cmds'[n][j].op = cmds[n][j].op
                                   /\ cmds'[n][j].phase = cmds[n][j].phase
  BY <1>0, TickFacts DEF Aged
<1>2. UNCHANGED <<up, stopped, leader, caught>> /\ Active' = Active
  BY DEF Tick, Active
<1>3. holder' = n => holder = n
  BY LeaseAssumption DEF Tick
<1>4. cmds'[n] = <<>> => cmds[n] = <<>>
  <2>1. cmds[n] \in Seq(Cmd) /\ cmds'[n] \in Seq(Cmd)
    BY <1>0, TickFacts DEF Queues
  <2> QED
    BY <1>1, <2>1
<1>5. RenewLeads(n) => RenewLeads(n)'
  BY <1>1, <1>2 DEF RenewLeads
<1>6. HolderHears(n) => HolderHears(n)'
  BY <1>1, <1>2, <1>3 DEF HolderHears, Is
<1>7. ReleasesLast(n) => ReleasesLast(n)'
  BY <1>1, <1>2, <1>3, <1>4 DEF ReleasesLast
<1> QED
  BY <1>2, <1>5, <1>6, <1>7 DEF StopInvOf

\* Every step keeps what is said of stopped nodes and of those that may stop.
LEMMA StopStep ==
    ASSUME Timely
    PROVE  LeaseTypeOK /\ LeadInv /\ StopInv /\ [Next]_vars => StopInv'
<1> SUFFICES ASSUME LeaseTypeOK, LeadInv, StopInv, [Next]_vars, NEW m \in Node
             PROVE  StopInvOf(m)'
  BY DEF StopInv
<1>1. NodeInv(m) /\ StopInvOf(m)
  BY DEF LeadInv, StopInv
<1>2. CASE Tick
  BY <1>1, <1>2, StopTick
<1>3. CASE UNCHANGED vars
  BY <1>1, <1>3 DEF vars, nodeVars, StopInvOf, RenewLeads, HolderHears, ReleasesLast, Is, Active
<1>4. ASSUME NEW n \in Node,
             \/ campaign(n) \/ Execute(n) \/ Reply(n) \/ ErrorReply(n)
             \/ stop(n) \/ Exit(n) \/ Start(n)
      PROVE  StopInvOf(m)'
  <2>1. CASE m # n
    <3>1. Bystander(m)
      BY <1>4, <2>1, OneNodeSteps
    <3>2. m \in up' <=> m \in up
      BY <1>4, <2>1 DEF campaign, Execute, Reply, ErrorReply, stop, Exit, Start
    <3> QED
      BY <1>1, <3>1, <3>2, StopBystander
  <2>2. CASE m = n
    <3>1. CASE Execute(n)
      <4>1. PICK i \in DOMAIN cmds[n], p \in {"yes", "no"} : Does(n, i, p)
        BY <3>1, LeadTypes, ExecuteFacts
      <4> QED
        BY <1>1, <2>2, <4>1, StopExecute
    <3>2. CASE campaign(n)
      BY <1>1, <2>2, <3>2, StopCampaign
    <3>3. CASE Reply(n)
      BY <1>1, <2>2, <3>3, StopReply
    <3>4. CASE stop(n)
      BY <1>1, <2>2, <3>4, StopStop
    <3>5. CASE ErrorReply(n) \/ Exit(n) \/ Start(n)
      BY <2>2, <3>5, StopOthers
    <3> QED
      BY <1>4, <3>1, <3>2, <3>3, <3>4, <3>5
  <2> QED
    BY <2>1, <2>2
<1> QED
  BY <1>2, <1>3, <1>4 DEF Next

\* "Stop campaigning and relinquish leadership if held" (leader.ts): under the
\* same conditions, once its last answers are in, a stopped node neither leads
\* nor holds the lease, unless a SET was unanswered when it stopped or a command
\* of it failed.
THEOREM StoppedNodesRelinquish ==
    ASSUME Timely, Fits
    PROVE  Spec => []StopRelinquishes
<1>1. Init => StopInv
  BY DEF Init, StopInv, StopInvOf, Active
<1>2. LeaseTypeOK /\ StopInv => StopRelinquishes
  BY DEF LeaseTypeOK, StopInv, StopInvOf, ReleasesLast, StopRelinquishes
<1> QED
  BY <1>1, <1>2, LeaseTypeInit, LeaseTypeStep, LeadInit, LeadStep, StopStep, PTL DEF Spec

-----------------------------------------------------------------------------
(***************************************************************************)
(* Why somebody leads again in time.                                       *)
(***************************************************************************)

\* When the lease is free at the latest, and when every candidate has asked.
Free == Delay + Lease
Asked == Free + Heartbeat

\* Command i of node n is a SET in that phase, sent in time.
InTime(n, i, phase) == Is(n, i, "set", phase) /\ vacancy <= Asked + cmds[n][i].age

\* Somebody has won and has still to hear of it;
Won == \E n \in Active : \E i \in DOMAIN cmds[n] : InTime(n, i, "yes")

\* or the lease is free, and every candidate has asked or will in time;
Candidate(n) ==
    \/ vacancy + timer[n] <= Asked
    \/ \E i \in DOMAIN cmds[n] : InTime(n, i, "sent")

Contested == holder = Nobody /\ \A n \in Active : Candidate(n)

\* or it runs out in time.
RunsOut == holder # Nobody /\ vacancy + ttl <= Free

Recovers == Won \/ Contested \/ RunsOut

\* While nobody leads, only candidates' SETs are younger than the vacancy.
OldCommands ==
    \A n \in Node : \A i \in DOMAIN cmds[n] :
        cmds[n][i].phase = "sent" /\ (n \notin Active \/ cmds[n][i].op # "set") =>
            cmds[n][i].age >= vacancy

VacancyInv ==
    /\ vacancy <= Gap
    /\ Scanning = {} => OldCommands
    /\ Scanning = {} /\ Active # {} => Recovers

\* What the steps below need of the types.
LEMMA VacancyTypes ==
    ASSUME LeaseTypeOK
    PROVE  vacancy \in Nat /\ Gap \in Nat /\ Asked \in Nat /\ Free \in Nat /\ Gap = Asked + Delay
  BY LeaseAssumption DEF LeaseTypeOK, Gap, Asked, Free

\* When the count starts again there is time for everything.
LEMMA VacancyRestart ==
    ASSUME LeaseTypeOK', vacancy' = 0
    PROVE  VacancyInv'
<1> USE LeaseAssumption
<1>1. /\ Gap \in Nat /\ Asked \in Nat /\ Free \in Nat /\ Lease <= Free /\ Heartbeat <= Asked
      /\ Delay \in Nat /\ Lease \in Nat /\ Heartbeat \in Nat
  BY DEF Gap, Asked, Free
<1>2. /\ ttl' \in Nat /\ ttl' <= Lease /\ Active' \subseteq Node
      /\ \A n \in Node : timer'[n] \in Nat /\ timer'[n] <= Heartbeat
  BY DEF LeaseTypeOK, Active
<1>3. \A n \in Node : \A i \in DOMAIN cmds'[n] : cmds'[n][i].age >= 0
  <2> SUFFICES ASSUME NEW n \in Node, NEW i \in DOMAIN cmds'[n] PROVE cmds'[n][i].age >= 0
    OBVIOUS
  <2>1. cmds'[n] \in Seq(Cmd)
    BY DEF LeaseTypeOK
  <2> QED
    BY <2>1, CmdFacts
<1>4. OldCommands'
  BY <1>3 DEF OldCommands
<1>5. RunsOut' \/ Contested'
  <2>1. CASE holder' = Nobody
    BY <1>1, <1>2, <2>1 DEF Contested, Candidate
  <2>2. CASE holder' # Nobody
    <3>1. vacancy' + ttl' <= Free
      <4>1. /\ ttl' \in Nat /\ ttl' <= Lease
            /\ Lease \in Nat /\ Free \in Nat /\ Lease <= Free
        BY <1>1, <1>2
      <4>2. \A a, b, c \in Nat : a <= b /\ b <= c => 0 + a <= c
        OBVIOUS
      <4>3. 0 + ttl' <= Free
        BY <4>1, <4>2
      <4> QED
        BY <4>3
    <3> QED
      BY <2>2, <3>1 DEF RunsOut, Free
  <2> QED
    BY <2>1, <2>2
<1> QED
  BY <1>1, <1>4, <1>5 DEF VacancyInv, Recovers

\* A heartbeat while nobody leads is a candidate's SET.
LEMMA VacancyCampaign ==
    ASSUME LeaseTypeOK, VacancyInv, NEW n \in Node, campaign(n)
    PROVE  VacancyInv'
<1>0. /\ Queues /\ vacancy \in Nat /\ Asked \in Nat
      /\ Active \subseteq Node /\ Len(cmds[n]) \in Nat
  BY LeadTypes, VacancyTypes
<1>1. /\ UNCHANGED <<holder, ttl, vacancy>> /\ Active' = Active /\ Scanning' = Scanning
      /\ n \in Active /\ timer[n] = 0 /\ \A m \in Node \ {n} : timer'[m] = timer[m]
  BY DEF campaign, Active, Scanning, LeaseTypeOK
<1> SUFFICES ASSUME Scanning = {} PROVE OldCommands' /\ Recovers'
  BY <1>1 DEF VacancyInv, Gap
<1>2. Send(n, "set") /\ Active # {}
  BY <1>1 DEF campaign, Scanning
<1>3. Alone(n) /\ Sent(cmds[n], cmds'[n], "set")
  BY <1>0, <1>2, SendFacts DEF Op
<1>K. PICK K \in Nat : K = Len(cmds[n]) + 1
  BY <1>0
<1>4. /\ \A m \in Node \ {n} : cmds'[m] = cmds[m]
      /\ K \in DOMAIN cmds'[n]
      /\ \A m \in Node : \A i \in DOMAIN cmds[m] : i \in DOMAIN cmds'[m] /\ cmds'[m][i] = cmds[m][i]
      /\ \A i \in DOMAIN cmds'[n] : i \in DOMAIN cmds[n] \/ i = K
      /\ cmds'[n][K].op = "set" /\ cmds'[n][K].phase = "sent" /\ cmds'[n][K].age = 0
  BY <1>3, <1>K DEF Alone, Sent
<1>5. OldCommands'
  BY <1>1, <1>4 DEF VacancyInv, OldCommands
<1>6. CASE Won
  BY <1>0, <1>1, <1>4, <1>5, <1>6 DEF Won, InTime, Is, Recovers
<1>7. CASE RunsOut
  BY <1>1, <1>5, <1>7 DEF RunsOut, Recovers
<1>8. CASE Contested
  <2>1. ASSUME NEW m \in Active, m # n PROVE Candidate(m)'
    BY <1>0, <1>1, <1>4, <1>8, <2>1 DEF Contested, Candidate, InTime, Is
  <2>2. Candidate(n)'
    <3>1. CASE vacancy + timer[n] <= Asked
      <4>1. InTime(n, K, "sent")'
        BY <1>0, <1>1, <1>4, <3>1 DEF InTime, Is
      <4> QED
        BY <1>4, <4>1 DEF Candidate
    <3>2. CASE \E i \in DOMAIN cmds[n] : InTime(n, i, "sent")
      BY <1>1, <1>4, <3>2 DEF Candidate, InTime, Is
    <3> QED
      BY <1>1, <1>8, <3>1, <3>2 DEF Contested, Candidate
  <2> QED
    BY <1>1, <1>5, <1>8, <2>1, <2>2 DEF Contested, Recovers
<1> QED
  BY <1>2, <1>5, <1>6, <1>7, <1>8 DEF VacancyInv, Recovers

\* Redis executes a command: the first SET to find the key free wins; a command
\* of a node that is gone is old, so the lease it takes or extends runs out in time.
LEMMA VacancyExecute ==
    ASSUME LeaseTypeOK, LeadInv, VacancyInv, NEW n \in Node,
           NEW i \in DOMAIN cmds[n], NEW p \in {"yes", "no"}, Does(n, i, p)
    PROVE  VacancyInv'
<1>0. /\ Queues /\ vacancy \in Nat /\ Asked \in Nat /\ Free \in Nat /\ Free = Delay + Lease
      /\ Asked = Free + Heartbeat /\ Delay \in Nat /\ Lease \in Nat /\ Heartbeat \in Nat
      /\ ttl \in Nat /\ Active \subseteq Node
      /\ \A m \in Node : timer[m] \in Nat /\ timer[m] <= Heartbeat
      /\ DOMAIN cmds[n] = 1..Len(cmds[n]) /\ Len(cmds[n]) \in Nat
      /\ \A j \in DOMAIN cmds[n] : /\ j \in Nat /\ cmds[n][j].age \in Nat /\ cmds[n][j].age <= Delay
                                   /\ cmds[n][j].op \in Op
  BY LeadTypes, VacancyTypes DEF Asked, Free
<1>1. /\ UNCHANGED <<timer, vacancy>> /\ Active' = Active /\ Scanning' = Scanning
      /\ \A m \in Node : DOMAIN cmds'[m] = DOMAIN cmds[m]
      /\ \A m \in Node : \A j \in DOMAIN cmds[m] :
            \/ cmds'[m][j] = cmds[m][j]
            \/ m = n /\ j = i
      /\ cmds'[n][i].op = cmds[n][i].op /\ cmds'[n][i].age = cmds[n][i].age
      /\ cmds'[n][i].phase = p /\ cmds[n][i].phase = "sent"
      /\ \A k \in 1..(i - 1) : cmds[n][k].phase # "sent"
  BY DEF Does, Executed, Alone, Active, Scanning
<1> SUFFICES ASSUME Scanning = {} PROVE OldCommands' /\ (Active # {} => Recovers')
  BY <1>1 DEF VacancyInv, Gap
<1>2. OldCommands
  BY DEF VacancyInv
<1>3. OldCommands'
  BY <1>1, <1>2 DEF OldCommands
<1> SUFFICES ASSUME Active # {} PROVE Recovers'
  BY <1>3
<1>4. \A m \in Node : \A j \in DOMAIN cmds[m] : ~(m = n /\ j = i) =>
        /\ InTime(m, j, "yes") => InTime(m, j, "yes")'
        /\ InTime(m, j, "sent") => InTime(m, j, "sent")'
  BY <1>1 DEF InTime, Is
<1>5. CASE Won
  <2>0. PICK m \in Active : \E j \in DOMAIN cmds[m] : InTime(m, j, "yes")
    BY <1>5 DEF Won
  <2>1. PICK j \in DOMAIN cmds[m] : InTime(m, j, "yes")
    BY <2>0
  <2>2. ~(m = n /\ j = i)
    BY <1>1, <2>1 DEF InTime, Is
  <2> QED
    BY <1>0, <1>1, <1>4, <2>1, <2>2 DEF Won, Recovers
<1>6. ASSUME p = "yes", cmds[n][i].op = "set" => n \notin Active, holder' = n, ttl' = Lease
      PROVE  RunsOut'
  <2>1. cmds[n][i].age >= vacancy
    BY <1>1, <1>2, <1>6 DEF OldCommands
  <2>2. vacancy' + ttl' <= Free
    BY <1>0, <1>1, <1>6, <2>1
  <2> QED
    BY <1>6, <2>2, LeaseAssumption DEF RunsOut
<1>7. CASE Contested
  <2>0. holder = Nobody /\ \A m \in Active : Candidate(m)
    BY <1>7 DEF Contested
  <2>1. CASE cmds[n][i].op # "set"
    <3>1. holder' = Nobody
      BY <2>0, <2>1, LeaseAssumption DEF Does
    <3>2. ASSUME NEW m \in Active PROVE Candidate(m)'
      <4>1. CASE vacancy + timer[m] <= Asked
        BY <1>1, <4>1 DEF Candidate
      <4>2. ASSUME NEW j \in DOMAIN cmds[m], InTime(m, j, "sent") PROVE Candidate(m)'
        <5>1. ~(m = n /\ j = i)
          BY <2>1, <4>2 DEF InTime, Is
        <5> QED
          BY <1>0, <1>1, <1>4, <4>2, <5>1 DEF Candidate
      <4> QED
        BY <2>0, <4>1, <4>2 DEF Candidate
    <3> QED
      BY <1>1, <3>1, <3>2 DEF Contested, Recovers
  <2>2. CASE cmds[n][i].op = "set"
    <3>1. p = "yes" /\ holder' = n /\ ttl' = Lease
      BY <2>0, <2>2 DEF Does, Matches
    <3>2. CASE n \in Active
      <4>1. vacancy <= Asked + cmds[n][i].age
        <5>1. CASE vacancy + timer[n] <= Asked
          BY <1>0, <5>1
        <5>2. ASSUME NEW j \in DOMAIN cmds[n], InTime(n, j, "sent")
              PROVE  vacancy <= Asked + cmds[n][i].age
          <6>1. ~(j < i)
            BY <1>0, <1>1, <5>2 DEF InTime, Is
          <6>2. cmds[n][i].age >= cmds[n][j].age
            BY <1>0, <6>1 DEF LeadInv, NodeInv, InOrder
          <6> QED
            BY <1>0, <5>2, <6>2 DEF InTime
        <5> QED
          BY <2>0, <3>2, <5>1, <5>2 DEF Candidate
      <4>2. InTime(n, i, "yes")'
        BY <1>1, <2>2, <3>1, <4>1 DEF InTime, Is
      <4> QED
        BY <1>1, <3>2, <4>2 DEF Won, Recovers
    <3>3. CASE n \notin Active
      BY <1>6, <3>1, <3>3 DEF Recovers
    <3> QED
      BY <3>2, <3>3
  <2> QED
    BY <2>1, <2>2
<1>8. CASE RunsOut
  <2>0. holder # Nobody /\ vacancy + ttl <= Free
    BY <1>8 DEF RunsOut
  <2>1. CASE UNCHANGED <<holder, ttl>>
    BY <1>1, <2>0, <2>1 DEF RunsOut, Recovers
  <2>2. CASE p = "yes" /\ cmds[n][i].op = "renew" /\ holder' = n /\ ttl' = Lease
    BY <1>6, <2>2 DEF Recovers
  <2>3. CASE holder' = Nobody
    <3>1. ASSUME NEW m \in Active PROVE vacancy' + timer'[m] <= Asked
      BY <1>0, <1>1, <2>0
    <3> QED
      BY <1>1, <2>3, <3>1 DEF Contested, Candidate, Recovers
  <2> QED
    BY <2>0, <2>1, <2>2, <2>3 DEF Does
<1> QED
  BY <1>5, <1>7, <1>8 DEF VacancyInv, Recovers

\* An answer costs no scanning node its lead, and whoever hears that it won scans.
LEMMA VacancyReply ==
    ASSUME LeaseTypeOK, LeadInv, VacancyInv, NEW n \in Node, Reply(n)
    PROVE  VacancyInv'
<1>0. /\ Queues /\ vacancy \in Nat /\ Active \subseteq Node /\ Active \subseteq up
      /\ \A m \in Node : \A j \in DOMAIN cmds[m] : /\ j \in Nat
                                                   /\ cmds[m][j].op \in Op
  BY LeadTypes, VacancyTypes DEF Active
<1>1. /\ Alone(n) /\ Answered(cmds[n], cmds'[n])
      /\ UNCHANGED <<holder, ttl, timer, vacancy>> /\ Active' = Active
  BY <1>0, PopFacts DEF Reply, Active
<1>2. /\ 1 \in DOMAIN cmds[n] /\ Head(cmds[n]) = cmds[n][1] /\ cmds[n][1].phase # "sent"
      /\ \A m \in Node \ {n} : cmds'[m] = cmds[m]
      /\ \A j \in DOMAIN cmds[n] : j # 1 =>
            j - 1 \in DOMAIN cmds'[n] /\ cmds'[n][j - 1] = cmds[n][j]
      /\ \A j \in DOMAIN cmds'[n] : j + 1 \in DOMAIN cmds[n] /\ cmds'[n][j] = cmds[n][j + 1]
  BY <1>1 DEF Answered, Alone, Reply
<1>3. Scanning \subseteq Scanning'
  <2> SUFFICES ASSUME n \in Scanning PROVE n \in leader'
    BY <1>1 DEF Reply, HandleReply, setLeader, Scanning
  <2>1. n \in Active /\ n \in leader /\ n \in up
    BY <1>0 DEF Scanning
  <2>2. cmds[n][1].op # "release" /\ ~Is(n, 1, "renew", "no")
    BY <1>2, <2>1 DEF LeadInv, NodeInv, NoRelease, RefusedLate
  <2> QED
    BY <1>2, <2>1, <2>2 DEF Reply, HandleReply, setLeader, Is
<1> SUFFICES ASSUME Scanning' = {} PROVE OldCommands' /\ (Active # {} => Recovers')
  BY <1>1 DEF VacancyInv, Gap
<1>4. Scanning = {}
  BY <1>3
<1>5. OldCommands'
  BY <1>1, <1>2, <1>4 DEF VacancyInv, OldCommands
<1>6. ASSUME NEW m \in Node, NEW j \in DOMAIN cmds[m], NEW phase, InTime(m, j, phase),
             ~(m = n /\ j = 1)
      PROVE  \E k \in DOMAIN cmds'[m] : InTime(m, k, phase)'
  <2>1. CASE m # n
    BY <1>1, <1>2, <1>6, <2>1 DEF InTime, Is
  <2>2. CASE m = n
    <3>1. j - 1 \in DOMAIN cmds'[m] /\ cmds'[m][j - 1] = cmds[m][j]
      BY <1>2, <1>6, <2>2
    <3>2. PICK k \in DOMAIN cmds'[m] : k = j - 1
      BY <3>1
    <3> QED
      BY <1>1, <1>6, <3>1, <3>2 DEF InTime, Is
  <2> QED
    BY <2>1, <2>2
<1>7. CASE Won
  <2>0. PICK m \in Active : \E j \in DOMAIN cmds[m] : InTime(m, j, "yes")
    BY <1>7 DEF Won
  <2>1. PICK j \in DOMAIN cmds[m] : InTime(m, j, "yes")
    BY <2>0
  <2>2. ~(m = n /\ j = 1)
    <3> SUFFICES ASSUME m = n, j = 1 PROVE n \in Scanning'
      OBVIOUS
    <3>1. cmds[n][1].op = "set" /\ cmds[n][1].phase = "yes" /\ n \in up
      BY <1>0, <2>1 DEF InTime, Is
    <3> QED
      BY <1>1, <1>2, <2>1, <3>1 DEF Reply, HandleReply, setLeader, Scanning
  <2> QED
    BY <1>0, <1>1, <1>5, <1>6, <2>1, <2>2 DEF Won, Recovers
<1>8. CASE Contested
  <2>1. ASSUME NEW m \in Active PROVE Candidate(m)'
    <3>1. CASE vacancy + timer[m] <= Asked
      BY <1>1, <3>1 DEF Candidate
    <3>2. ASSUME NEW j \in DOMAIN cmds[m], InTime(m, j, "sent") PROVE Candidate(m)'
      <4>1. ~(m = n /\ j = 1)
        BY <1>2, <3>2 DEF InTime, Is
      <4> QED
        BY <1>0, <1>6, <3>2, <4>1 DEF Candidate
    <3> QED
      BY <1>8, <3>1, <3>2 DEF Contested, Candidate
  <2> QED
    BY <1>1, <1>5, <1>8, <2>1 DEF Contested, Recovers
<1>9. CASE RunsOut
  BY <1>1, <1>5, <1>9 DEF RunsOut, Recovers
<1> QED
  BY <1>4, <1>5, <1>7, <1>8, <1>9 DEF VacancyInv, Recovers

\* A unit of time: what is awaited comes a unit nearer.
LEMMA VacancyTick ==
    ASSUME Timely, LeaseTypeOK, LeaseTypeOK', VacancyInv, Tick
    PROVE  VacancyInv'
<1>0. /\ Queues /\ vacancy \in Nat /\ Asked \in Nat /\ Free \in Nat /\ Gap \in Nat
      /\ Gap = Asked + Delay /\ Asked = Free + Heartbeat /\ Delay \in Nat /\ Heartbeat \in Nat
      /\ ttl \in Nat /\ (ttl = 0 <=> holder = Nobody) /\ Active \subseteq Node
      /\ \A m \in Node : timer[m] \in Nat /\ timer[m] <= Heartbeat
      /\ \A m \in Node : \A j \in DOMAIN cmds[m] : cmds[m][j].age \in Nat
  BY LeadTypes, VacancyTypes DEF Asked
<1>1. Active' = Active /\ Scanning' = Scanning
  BY DEF Tick, Active, Scanning
<1>2. CASE Scanning # {} \/ Active = {}
  BY <1>2, VacancyRestart DEF Tick
<1>3. CASE Scanning = {} /\ Active # {}
  <2>1. vacancy' = vacancy + 1 /\ OldCommands /\ Recovers
    BY <1>0, <1>3 DEF Tick, VacancyInv
  <2>2. /\ \A m \in Node : \A j \in DOMAIN cmds[m] : cmds[m][j].age < Delay
        /\ \A m \in Active : timer[m] > 0
    BY DEF Tick, OnTime
  <2>3. /\ \A m \in Node : DOMAIN cmds'[m] = DOMAIN cmds[m]
        /\ \A m \in Node : \A j \in DOMAIN cmds[m] :
            /\ cmds'[m][j].op = cmds[m][j].op
            /\ cmds'[m][j].phase = cmds[m][j].phase
            /\ cmds'[m][j].age = cmds[m][j].age + 1
    BY <1>0, <2>2, TickFacts DEF Aged, Older
  <2>4. \A m \in Active : timer'[m] = timer[m] - 1
    BY <1>0, <2>2 DEF Tick, Down
  <2>5. OldCommands'
    BY <1>0, <1>1, <2>1, <2>3 DEF OldCommands
  <2>6. \A m \in Node : \A j \in DOMAIN cmds[m] :
            /\ InTime(m, j, "yes") => InTime(m, j, "yes")'
            /\ InTime(m, j, "sent") => InTime(m, j, "sent")'
    BY <1>0, <2>1, <2>3 DEF InTime, Is
  <2>7. Recovers'
    <3>1. CASE Won
      BY <1>0, <1>1, <2>3, <2>6, <3>1 DEF Won, Recovers
    <3>2. CASE Contested
      <4>1. holder' = Nobody
        BY <3>2 DEF Contested, Tick
      <4>2. ASSUME NEW m \in Active PROVE Candidate(m)'
        <5>1. CASE vacancy + timer[m] <= Asked
          BY <1>0, <2>1, <2>4, <5>1 DEF Candidate
        <5>2. CASE \E j \in DOMAIN cmds[m] : InTime(m, j, "sent")
          BY <1>0, <2>3, <2>6, <5>2 DEF Candidate
        <5> QED
          BY <3>2, <5>1, <5>2 DEF Contested, Candidate
      <4> QED
        BY <1>1, <4>1, <4>2 DEF Contested, Recovers
    <3>3. CASE RunsOut
      <4>0. holder # Nobody /\ vacancy + ttl <= Free /\ ttl >= 1
        BY <1>0, <3>3 DEF RunsOut
      <4>1. CASE ttl > 1
        <5>1. holder' = holder /\ ttl' = ttl - 1
          BY <1>0, <4>1 DEF Tick, Down
        <5> QED
          BY <1>0, <2>1, <4>0, <5>1 DEF RunsOut, Recovers
      <4>2. CASE ttl = 1
        <5>1. holder' = Nobody
          BY <4>2 DEF Tick
        <5>2. ASSUME NEW m \in Active PROVE vacancy' + timer'[m] <= Asked
          BY <1>0, <2>1, <2>4, <4>0, <4>2
        <5> QED
          BY <1>1, <5>1, <5>2 DEF Contested, Candidate, Recovers
      <4> QED
        BY <1>0, <4>0, <4>1, <4>2
    <3> QED
      BY <2>1, <3>1, <3>2, <3>3 DEF Recovers
  <2>8. vacancy' <= Gap
    <3>1. CASE Won
      BY <1>0, <2>1, <2>2, <3>1 DEF Won, InTime
    <3>2. CASE Contested
      <4>1. PICK m \in Active : Candidate(m) /\ timer[m] > 0
        BY <1>3, <2>2, <3>2 DEF Contested
      <4> QED
        BY <1>0, <2>1, <2>2, <4>1 DEF Candidate, InTime
    <3>3. CASE RunsOut
      <4>1. vacancy + ttl <= Free /\ ttl >= 1
        BY <1>0, <3>3 DEF RunsOut
      <4> QED
        BY <1>0, <2>1, <4>1
    <3> QED
      BY <2>1, <3>1, <3>2, <3>3 DEF Recovers
  <2> QED
    BY <2>5, <2>7, <2>8 DEF VacancyInv, Gap
<1> QED
  BY <1>2, <1>3

\* Every step keeps the recovery under way.
LEMMA VacancyStep ==
    ASSUME Timely
    PROVE  LeaseTypeOK /\ LeadInv /\ VacancyInv /\ [Next]_vars => VacancyInv'
<1> SUFFICES ASSUME LeaseTypeOK, LeadInv, VacancyInv, [Next]_vars PROVE VacancyInv'
  OBVIOUS
<1>1. LeaseTypeOK'
  BY LeaseTypeStep
<1>2. CASE Tick
  BY <1>1, <1>2, VacancyTick
<1>3. CASE UNCHANGED vars
  BY <1>3 DEF vars, nodeVars, VacancyInv, OldCommands, Recovers, Won, Contested, RunsOut,
              Candidate, InTime, Is, Scanning, Active, Gap
<1>4. ASSUME NEW n \in Node, campaign(n) PROVE VacancyInv'
  BY <1>4, VacancyCampaign
<1>5. ASSUME NEW n \in Node, Execute(n) PROVE VacancyInv'
  <2>1. PICK i \in DOMAIN cmds[n], p \in {"yes", "no"} : Does(n, i, p)
    BY <1>5, LeadTypes, ExecuteFacts
  <2> QED
    BY <2>1, VacancyExecute
<1>6. ASSUME NEW n \in Node, Reply(n) PROVE VacancyInv'
  BY <1>6, VacancyReply
<1>7. ASSUME NEW n \in Node, ErrorReply(n) \/ stop(n) \/ Exit(n) \/ Start(n)
      PROVE  VacancyInv'
  <2>1. vacancy' = 0
    BY <1>7 DEF ErrorReply, stop, Exit, Start
  <2> QED
    BY <1>1, <2>1, VacancyRestart
<1> QED
  BY <1>2, <1>3, <1>4, <1>5, <1>6, <1>7 DEF Next

\* "automatic failover with a bounded gap" (leader.ts): under the same conditions,
\* when a leader stops or dies or an exception costs it the lead, some node leads
\* again within a lease, a heartbeat and two commands.
THEOREM FailoverIsBounded ==
    ASSUME Timely, Fits
    PROVE  Spec => []FailoverBounded
<1>1. Init => VacancyInv
  <2> SUFFICES ASSUME Init PROVE VacancyInv
    OBVIOUS
  <2>1. vacancy = 0 /\ Active = {} /\ \A n \in Node : cmds[n] = <<>>
    BY DEF Init, Active
  <2>2. Gap \in Nat
    BY LeaseAssumption DEF Gap
  <2>3. OldCommands
    BY <2>1 DEF OldCommands
  <2> QED
    BY <2>1, <2>2, <2>3 DEF VacancyInv
<1>2. VacancyInv => FailoverBounded
  BY DEF VacancyInv, FailoverBounded
<1> QED
  BY <1>1, <1>2, LeaseTypeInit, LeaseTypeStep, LeadInit, LeadStep, VacancyStep, PTL DEF Spec
=============================================================================
