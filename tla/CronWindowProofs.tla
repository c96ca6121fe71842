--------------------------- MODULE CronWindowProofs ---------------------------
(***************************************************************************)
(* Proofs about CronWindow: its types, and that no slot is skipped.        *)
(***************************************************************************)
EXTENDS CronWindow, TLAPS

ScanRec == [left : SUBSET Job, age : 0..Delay]

\* The scans in flight of each node; none is kept that has no job to come.
ScansOK ==
    /\ ticks \in [Node -> Seq(ScanRec)]
    /\ \A n \in Node : \A i \in DOMAIN ticks[n] : ticks[n][i].left # {}

WindowType ==
    /\ age \in [Job -> 0..Old]
    /\ claimed \subseteq Job
    /\ leaders \subseteq Node
    /\ calm \in 0..(Recovery + 1) /\ (leaders = {} => calm <= Gap)
    /\ timer \in [Node -> 0..Scan]
    /\ ScansOK

-----------------------------------------------------------------------------
(***************************************************************************)
(* Sequences of scans.                                                     *)
(***************************************************************************)

\* The elements of a concatenation.
LEMMA ConcatFacts ==
    ASSUME NEW S, NEW a \in Seq(S), NEW b \in Seq(S)
    PROVE  /\ a \o b \in Seq(S) /\ Len(a \o b) = Len(a) + Len(b)
           /\ \A k \in 1..(Len(a) + Len(b)) :
                (a \o b)[k] = IF k <= Len(a) THEN a[k] ELSE b[k - Len(a)]
  OBVIOUS

\* RemoveAt leaves the elements before i where they are and moves the others
\* up by one.
LEMMA RemoveFacts ==
    ASSUME NEW S, NEW s \in Seq(S), NEW i \in DOMAIN s
    PROVE  /\ RemoveAt(s, i) \in Seq(S)
           /\ Len(RemoveAt(s, i)) = Len(s) - 1
           /\ \A k \in DOMAIN RemoveAt(s, i) :
                RemoveAt(s, i)[k] = IF k < i THEN s[k] ELSE s[k + 1]
<1>1. i \in 1..Len(s) /\ Len(s) \in Nat
  OBVIOUS
<1>2. SubSeq(s, 1, i - 1) \in Seq(S) /\ Len(SubSeq(s, 1, i - 1)) = i - 1
      /\ \A k \in 1..(i - 1) : SubSeq(s, 1, i - 1)[k] = s[k]
  BY <1>1
<1>3. SubSeq(s, i + 1, Len(s)) \in Seq(S) /\ Len(SubSeq(s, i + 1, Len(s))) = Len(s) - i
      /\ \A k \in 1..(Len(s) - i) : SubSeq(s, i + 1, Len(s))[k] = s[i + k]
  BY <1>1
<1> DEFINE a == SubSeq(s, 1, i - 1)
           b == SubSeq(s, i + 1, Len(s))
<1> HIDE DEF a, b
<1>4. /\ a \o b \in Seq(S) /\ Len(a \o b) = Len(a) + Len(b)
      /\ \A k \in 1..(Len(a) + Len(b)) :
            (a \o b)[k] = IF k <= Len(a) THEN a[k] ELSE b[k - Len(a)]
  BY <1>2, <1>3, ConcatFacts DEF a, b
<1>5. /\ Len(a) = i - 1 /\ Len(b) = Len(s) - i
      /\ \A k \in 1..(i - 1) : a[k] = s[k]
      /\ \A k \in 1..(Len(s) - i) : b[k] = s[i + k]
  BY <1>2, <1>3 DEF a, b
<1>6. RemoveAt(s, i) = a \o b
  BY DEF RemoveAt, a, b
<1>7. Len(a \o b) = Len(s) - 1 /\ DOMAIN (a \o b) = 1..(Len(s) - 1)
  BY <1>1, <1>4, <1>5
<1>8. ASSUME NEW k \in 1..(Len(s) - 1)
      PROVE  (a \o b)[k] = IF k < i THEN s[k] ELSE s[k + 1]
  <2>1. CASE k < i
    BY <1>1, <1>4, <1>5, <2>1
  <2>2. CASE ~(k < i)
    <3>1. k - (i - 1) \in 1..(Len(s) - i) /\ i + (k - (i - 1)) = k + 1
      BY <1>1, <2>2
    <3>2. b[k - (i - 1)] = s[k + 1]
      BY <1>5, <3>1
    <3>3. (a \o b)[k] = s[k + 1]
      <4>1. k \in 1..(Len(a) + Len(b)) /\ ~(k <= Len(a))
        BY <1>1, <1>5, <2>2
      <4> QED
        BY <1>4, <1>5, <2>2, <3>2, <4>1
    <3> QED
      BY <2>2, <3>3
  <2> QED
    BY <2>1, <2>2
<1> QED
  BY <1>4, <1>6, <1>7, <1>8

\* A sequence changed in one place is a sequence.
LEMMA ExceptFacts ==
    ASSUME NEW S, NEW s \in Seq(S), NEW i \in DOMAIN s, NEW e \in S
    PROVE  /\ [s EXCEPT ![i] = e] \in Seq(S)
           /\ DOMAIN [s EXCEPT ![i] = e] = DOMAIN s
           /\ \A k \in DOMAIN s : [s EXCEPT ![i] = e][k] = IF k = i THEN e ELSE s[k]
  OBVIOUS

\* Appending keeps the elements and their places.
LEMMA AppendFacts ==
    ASSUME NEW S, NEW s \in Seq(S), NEW e \in S
    PROVE  /\ Append(s, e) \in Seq(S)
           /\ DOMAIN s \subseteq DOMAIN Append(s, e)
           /\ Len(s) + 1 \in DOMAIN Append(s, e) /\ Append(s, e)[Len(s) + 1] = e
           /\ \A k \in DOMAIN s : Append(s, e)[k] = s[k]
           /\ \A k \in DOMAIN Append(s, e) :
                Append(s, e)[k] = e \/ (k \in DOMAIN s /\ Append(s, e)[k] = s[k])
  OBVIOUS

-----------------------------------------------------------------------------
(***************************************************************************)
(* What a step does to the scans in flight.                                *)
(***************************************************************************)

\* The bounds are natural numbers, and nobody waits for nothing.
LEMMA BoundFacts ==
    /\ Scan \in Nat /\ Delay \in Nat /\ Gap \in Nat /\ windowMs \in Nat
    /\ Scan > 0 /\ windowMs = Scan + Slack /\ Slack \in Nat /\ Spacing \in Nat
    /\ Recovery \in Nat /\ Recovery = Gap + Scan + Delay
    /\ Old \in Nat /\ Old > 2 * windowMs - 1 /\ Old > windowMs /\ Old >= Spacing
  BY WindowAssumption DEF windowMs, Recovery, Old

\* A node that runs as a leader starts a scan of all jobs; the others stay.
LEMMA RunFacts ==
    ASSUME WindowType, NEW n \in Node, run(n)
    PROVE  /\ ScansOK'
           /\ \A m \in Node \ {n} : ticks'[m] = ticks[m]
           /\ \A i \in DOMAIN ticks[n] : i \in DOMAIN ticks'[n] /\ ticks'[n][i] = ticks[n][i]
           /\ n \in leaders => \E i \in DOMAIN ticks'[n] :
                ticks'[n][i].left = Job /\ ticks'[n][i].age = 0
<1> DEFINE e == [left |-> Job, age |-> 0]
<1>1. e \in ScanRec /\ e.left = Job /\ e.left # {} /\ e.age = 0
  BY BoundFacts, WindowAssumption DEF ScanRec
<1> HIDE DEF e
<1>2. ticks \in [Node -> Seq(ScanRec)] /\ ticks[n] \in Seq(ScanRec)
  BY DEF WindowType, ScansOK
<1>3. CASE n \in leaders
  <2>1. ticks' = [ticks EXCEPT ![n] = Append(ticks[n], e)]
    BY <1>3 DEF run, e
  <2>2. ticks'[n] = Append(ticks[n], e) /\ \A m \in Node \ {n} : ticks'[m] = ticks[m]
    BY <1>2, <2>1
  <2>3. /\ Append(ticks[n], e) \in Seq(ScanRec)
        /\ Len(ticks[n]) + 1 \in DOMAIN Append(ticks[n], e)
        /\ Append(ticks[n], e)[Len(ticks[n]) + 1] = e
        /\ \A k \in DOMAIN ticks[n] :
             k \in DOMAIN Append(ticks[n], e) /\ Append(ticks[n], e)[k] = ticks[n][k]
        /\ \A k \in DOMAIN Append(ticks[n], e) :
             \/ Append(ticks[n], e)[k] = e
             \/ k \in DOMAIN ticks[n] /\ Append(ticks[n], e)[k] = ticks[n][k]
    BY <1>1, <1>2, AppendFacts
  <2>4. ticks' \in [Node -> Seq(ScanRec)]
    BY <1>2, <2>1, <2>3
  <2>5. ASSUME NEW m \in Node, NEW i \in DOMAIN ticks'[m]
        PROVE  ticks'[m][i].left # {}
    <3>1. \A k \in DOMAIN ticks[m] : ticks[m][k].left # {}
      BY DEF WindowType, ScansOK
    <3>2. CASE m = n
      BY <1>1, <2>2, <2>3, <2>5, <3>1, <3>2
    <3>3. CASE m # n
      BY <2>2, <2>5, <3>1, <3>3
    <3> QED
      BY <3>2, <3>3
  <2>6. \E i \in DOMAIN ticks'[n] : ticks'[n][i].left = Job /\ ticks'[n][i].age = 0
    BY <1>1, <2>2, <2>3
  <2> QED
    BY <2>2, <2>3, <2>4, <2>5, <2>6 DEF ScansOK
<1>4. CASE n \notin leaders
  BY <1>4 DEF run, WindowType, ScansOK
<1> QED
  BY <1>3, <1>4

\* A turn moves the scans of one node, drops none of their jobs but the one
\* whose turn it was, unless that one throws, and leaves their age.
LEMMA VisitFacts ==
    ASSUME WindowType, NEW n \in Node, NEW i \in DOMAIN ticks[n], NEW j \in Job, Visit(n, i, j)
    PROVE  /\ ScansOK'
           /\ \A m \in Node \ {n} : ticks'[m] = ticks[m]
           /\ ~(j \in Throwing /\ dueFireSlot(j)) =>
                \A l \in DOMAIN ticks[n] : \A x \in ticks[n][l].left \ {j} :
                    \E k \in DOMAIN ticks'[n] : /\ x \in ticks'[n][k].left
                                                /\ ticks'[n][k].age = ticks[n][l].age
<1> DEFINE s == ticks[n]
           throws == j \in Throwing /\ dueFireSlot(j)
           new == IF throws THEN {} ELSE ticks[n][i].left \ {j}
<1>1. /\ s \in Seq(ScanRec) /\ i \in DOMAIN s /\ ticks \in [Node -> Seq(ScanRec)]
      /\ \A k \in DOMAIN s : s[k] \in ScanRec /\ s[k].left # {}
  BY DEF WindowType, ScansOK
<1>2. ticks' = [ticks EXCEPT ![n] = IF new = {} THEN RemoveAt(s, i)
                                    ELSE [s EXCEPT ![i].left = new]]
  BY DEF Visit
<1>3. new \subseteq s[i].left /\ s[i].left \subseteq Job
  BY <1>1 DEF ScanRec
<1>4. \A m \in Node \ {n} : ticks'[m] = ticks[m]
  BY <1>1, <1>2
<1>5. CASE new = {}
  <2>1. ticks'[n] = RemoveAt(s, i)
    BY <1>1, <1>2, <1>5
  <2>2. /\ RemoveAt(s, i) \in Seq(ScanRec) /\ Len(RemoveAt(s, i)) = Len(s) - 1
        /\ \A k \in DOMAIN RemoveAt(s, i) :
             RemoveAt(s, i)[k] = IF k < i THEN s[k] ELSE s[k + 1]
    BY <1>1, RemoveFacts
  <2>3. ticks' \in [Node -> Seq(ScanRec)]
    BY <1>1, <1>2, <1>5, <2>2
  <2>4. DOMAIN RemoveAt(s, i) = 1..(Len(s) - 1) /\ DOMAIN s = 1..Len(s) /\ Len(s) \in Nat
    BY <1>1, <2>2
  <2>5. \A k \in DOMAIN ticks'[n] : ticks'[n][k].left # {}
    <3> SUFFICES ASSUME NEW k \in DOMAIN RemoveAt(s, i)
                 PROVE  RemoveAt(s, i)[k].left # {}
      BY <2>1
    <3>1. k \in DOMAIN s /\ k + 1 \in DOMAIN s
      BY <2>4
    <3> QED
      BY <1>1, <2>2, <3>1
  <2>6. ASSUME ~throws, NEW l \in DOMAIN ticks[n], NEW x \in ticks[n][l].left \ {j}
        PROVE  \E k \in DOMAIN ticks'[n] : x \in ticks'[n][k].left /\ ticks'[n][k].age = ticks[n][l].age
    <3>1. l # i
      BY <1>5, <2>6
    <3>2. CASE l < i
      <4>1. l \in DOMAIN RemoveAt(s, i) /\ RemoveAt(s, i)[l] = s[l]
        BY <1>1, <2>2, <2>4, <3>2
      <4> QED
        BY <2>1, <2>6, <4>1
    <3>3. CASE l > i
      <4>1. l - 1 \in DOMAIN RemoveAt(s, i) /\ RemoveAt(s, i)[l - 1] = s[l]
        BY <1>1, <2>2, <2>4, <3>3
      <4> QED
        BY <2>1, <2>6, <4>1
    <3> QED
      BY <1>1, <2>4, <3>1, <3>2, <3>3
  <2> QED
    BY <1>1, <1>4, <2>3, <2>5, <2>6 DEF ScansOK, WindowType
<1>6. CASE new # {}
  <2>1. PICK e : e = [s[i] EXCEPT !.left = new]
    OBVIOUS
  <2>2. e \in ScanRec /\ e.left = new /\ e.age = s[i].age
    BY <1>1, <1>3, <2>1 DEF ScanRec
  <2>3. ticks'[n] = [s EXCEPT ![i] = e] /\ ticks' = [ticks EXCEPT ![n] = [s EXCEPT ![i] = e]]
    BY <1>1, <1>2, <1>6, <2>1
  <2>4. /\ [s EXCEPT ![i] = e] \in Seq(ScanRec)
        /\ DOMAIN [s EXCEPT ![i] = e] = DOMAIN s
        /\ \A k \in DOMAIN s : [s EXCEPT ![i] = e][k] = IF k = i THEN e ELSE s[k]
    BY <1>1, <2>2, ExceptFacts
  <2>5. ticks' \in [Node -> Seq(ScanRec)]
    BY <1>1, <2>3, <2>4
  <2>6. \A k \in DOMAIN ticks'[n] : ticks'[n][k].left # {}
    BY <1>1, <1>6, <2>2, <2>3, <2>4
  <2>7. ASSUME ~throws, NEW l \in DOMAIN ticks[n], NEW x \in ticks[n][l].left \ {j}
        PROVE  \E k \in DOMAIN ticks'[n] : x \in ticks'[n][k].left /\ ticks'[n][k].age = ticks[n][l].age
    <3>1. l \in DOMAIN ticks'[n] /\ ticks'[n][l] = IF l = i THEN e ELSE s[l]
      BY <2>3, <2>4
    <3>2. x \in ticks'[n][l].left /\ ticks'[n][l].age = ticks[n][l].age
      BY <2>2, <2>7, <3>1
    <3> QED
      BY <3>1, <3>2
  <2> QED
    BY <1>1, <1>4, <2>5, <2>6, <2>7 DEF ScansOK, WindowType
<1> QED
  BY <1>5, <1>6

\* Time ages the scans and shortens the timers; nothing is overdue before.
LEMMA TickFacts ==
    ASSUME WindowType, Tick
    PROVE  /\ ScansOK'
           /\ \A n \in Node :
                /\ timer[n] > 0 /\ timer'[n] = timer[n] - 1
                /\ DOMAIN ticks'[n] = DOMAIN ticks[n]
                /\ \A i \in DOMAIN ticks[n] :
                    /\ ticks[n][i].age \in Nat /\ ticks[n][i].age < Delay
                    /\ ticks'[n][i].age = ticks[n][i].age + 1
                    /\ ticks'[n][i].left = ticks[n][i].left
<1>1. \A n \in Node :
        /\ timer[n] > 0 /\ timer'[n] = timer[n] - 1
        /\ \A i \in DOMAIN ticks[n] : ticks[n][i].age < Delay
        /\ ticks'[n] = [i \in DOMAIN ticks[n] |-> [ticks[n][i] EXCEPT !.age = @ + 1]]
  BY DEF Tick, WindowType
<1>2. ASSUME NEW n \in Node, NEW i \in DOMAIN ticks[n]
      PROVE  /\ ticks[n][i].age \in Nat
             /\ ticks'[n][i] \in ScanRec
             /\ ticks'[n][i].age = ticks[n][i].age + 1
             /\ ticks'[n][i].left = ticks[n][i].left
  <2>1. PICK old \in ScanRec : old = ticks[n][i]
    BY DEF WindowType, ScansOK
  <2>2. PICK e : e = [old EXCEPT !.age = @ + 1]
    OBVIOUS
  <2>3. old.age \in Nat /\ old.age < Delay
    <3>1. ticks[n][i].age < Delay
      BY <1>1
    <3>2. old.age \in 0..Delay
      BY DEF ScanRec
    <3> QED
      BY <2>1, <3>1, <3>2, BoundFacts
  <2>4. e \in ScanRec /\ e.age = old.age + 1 /\ e.left = old.left
    BY <2>2, <2>3, BoundFacts DEF ScanRec
  <2>5. ticks'[n][i] = e
    BY <1>1, <2>1, <2>2
  <2> QED
    BY <2>1, <2>3, <2>4, <2>5
<1>3. ASSUME NEW n \in Node
      PROVE  DOMAIN ticks'[n] = DOMAIN ticks[n] /\ ticks'[n] \in Seq(ScanRec)
  <2>1. ticks[n] \in Seq(ScanRec)
    BY DEF WindowType, ScansOK
  <2>2. DOMAIN ticks[n] = 1..Len(ticks[n]) /\ Len(ticks[n]) \in Nat
    BY <2>1
  <2>3. DOMAIN ticks'[n] = DOMAIN ticks[n] /\ ticks'[n] \in [1..Len(ticks[n]) -> ScanRec]
    BY <1>1, <1>2, <2>2
  <2> QED
    BY <2>2, <2>3
<1>4. ticks' \in [Node -> Seq(ScanRec)]
  BY <1>3 DEF Tick
<1> QED
  BY <1>1, <1>2, <1>3, <1>4 DEF ScansOK, WindowType

-----------------------------------------------------------------------------
(***************************************************************************)
(* Types.                                                                  *)
(***************************************************************************)

\* Initially the types are right.
LEMMA WindowTypeInit == Init => WindowType
<1> SUFFICES ASSUME Init PROVE WindowType
  OBVIOUS
<1>1. <<>> \in Seq(ScanRec) /\ DOMAIN <<>> = {}
  OBVIOUS
<1>2. ScansOK
  BY <1>1 DEF Init, ScansOK
<1> QED
  BY <1>2, BoundFacts DEF Init, WindowType

\* Every step keeps them.
LEMMA WindowTypeStep == WindowType /\ [Next]_vars => WindowType'
<1> SUFFICES ASSUME WindowType, [Next]_vars PROVE WindowType'
  OBVIOUS
<1> USE BoundFacts
<1>1. ASSUME NEW j \in Job, SlotComes(j) PROVE WindowType'
  BY <1>1 DEF SlotComes, WindowType, ScansOK
<1>2. ASSUME NEW n \in Node, run(n) PROVE WindowType'
  <2>1. ScansOK'
    BY <1>2, RunFacts
  <2> QED
    BY <1>2, <2>1 DEF run, WindowType
<1>3. ASSUME NEW n \in Node, Depose(n) PROVE WindowType'
  <2>1. ScansOK'
    BY <1>3 DEF Depose, WindowType, ScansOK
  <2> QED
    BY <1>3, <2>1 DEF Depose, Lose, WindowType
<1>4. ASSUME NEW n \in Node, Die(n) PROVE WindowType'
  <2>1. <<>> \in Seq(ScanRec) /\ DOMAIN <<>> = {}
    OBVIOUS
  <2>2. ScansOK'
    BY <1>4, <2>1 DEF Die, WindowType, ScansOK
  <2> QED
    BY <1>4, <2>2 DEF Die, Lose, WindowType
<1>5. ASSUME NEW n \in Node, Elect(n) PROVE WindowType'
  BY <1>5 DEF Elect, WindowType, ScansOK
<1>6. ASSUME NEW n \in Node, NEW i \in DOMAIN ticks[n], NEW j \in Job, Visit(n, i, j)
      PROVE  WindowType'
  <2>1. ScansOK'
    BY <1>6, VisitFacts
  <2> QED
    BY <1>6, <2>1 DEF Visit, WindowType
<1>7. ASSUME Tick PROVE WindowType'
  <2>1. ScansOK' /\ \A n \in Node : timer[n] > 0
    BY <1>7, TickFacts
  <2>2. age' \in [Job -> 0..Old]
    BY <1>7 DEF Tick, Later, WindowType
  <2>3. calm' \in 0..(Recovery + 1) /\ (leaders' = {} => calm' <= Gap)
    BY <1>7 DEF Tick, Later, WindowType
  <2>4. timer' \in [Node -> 0..Scan]
    BY <1>7, <2>1 DEF Tick, WindowType
  <2> QED
    BY <1>7, <2>1, <2>2, <2>3, <2>4 DEF Tick, WindowType
<1>8. CASE UNCHANGED vars
  BY <1>8 DEF vars, WindowType, ScansOK
<1> QED
  BY <1>1, <1>2, <1>3, <1>4, <1>5, <1>6, <1>7, <1>8 DEF Next

\* WindowTypeOK in every reachable state: in particular no scan outlives its
\* last job, and none grows older than the delay.
THEOREM WindowTypeCorrect == Spec => []WindowTypeOK
<1>1. WindowType => WindowTypeOK
  <2> SUFFICES ASSUME WindowType,
                      NEW n \in Node, NEW i \in DOMAIN ticks[n]
               PROVE  ticks[n][i].left \in (SUBSET Job) \ {{}} /\ ticks[n][i].age \in 0..Delay
    BY DEF WindowType, WindowTypeOK
  <2>1. PICK e \in ScanRec : e = ticks[n][i]
    BY DEF WindowType, ScansOK
  <2>2. ticks[n][i].left # {}
    BY DEF WindowType, ScansOK
  <2>3. e.left \in SUBSET Job /\ e.age \in 0..Delay
    BY DEF ScanRec
  <2> QED
    BY <2>1, <2>2, <2>3
<1> QED
  BY <1>1, WindowTypeInit, WindowTypeStep, PTL DEF Spec

-----------------------------------------------------------------------------
(***************************************************************************)
(* No slot is skipped.                                                     *)
(***************************************************************************)

\* What is a old now is looked at by node n before it is b + Delay old: the
\* node's next scan begins by b, or one that began by then has j to come.
Coming(n, j, a, b) ==
    \/ a + timer[n] <= b
    \/ \E i \in DOMAIN ticks[n] : j \in ticks[n][i].left /\ a <= b + ticks[n][i].age

\* Who will look at the slot of j: a leader there was all along, within one
\* scan; or the leader found after a loss, within the gap and one scan.
InTime(j) ==
    leaders # {} =>
        \E n \in leaders : Coming(n, j, age[j], Scan) \/ Coming(n, j, calm, Gap + Scan)

\* Every slot that is still unclaimed is going to be looked at.
WaitsInTime ==
    \A j \in Job \ Throwing :
        j \notin claimed /\ Undisturbed(j) /\ age[j] <= windowMs => InTime(j)

WindowInv == WindowType /\ WaitsInTime

\* A leader's start of a scan, and the turn of another job that does not throw,
\* put off nothing.
LEMMA ComingStays ==
    ASSUME WindowType, NEW n \in Node, n \in leaders, NEW j \in Job,
           NEW a \in Nat, NEW b \in Nat, Coming(n, j, a, b),
           NEW m \in Node,
           \/ run(m)
           \/ \E i \in DOMAIN ticks[m], k \in Job \ {j} :
                Visit(m, i, k) /\ ~(k \in Throwing /\ dueFireSlot(k))
    PROVE  \/ a + timer'[n] <= b
           \/ \E i \in DOMAIN ticks'[n] : j \in ticks'[n][i].left /\ a <= b + ticks'[n][i].age
<1>1. CASE run(m)
  <2>1. /\ \A x \in Node \ {m} : ticks'[x] = ticks[x] /\ timer'[x] = timer[x]
        /\ \A i \in DOMAIN ticks[m] : i \in DOMAIN ticks'[m] /\ ticks'[m][i] = ticks[m][i]
        /\ m \in leaders => \E i \in DOMAIN ticks'[m] :
             ticks'[m][i].left = Job /\ ticks'[m][i].age = 0
    BY <1>1, RunFacts DEF run, WindowType
  <2>2. CASE n # m
    BY <2>1, <2>2 DEF Coming
  <2>3. CASE n = m /\ a + timer[n] <= b
    <3>1. timer[m] = 0
      BY <1>1 DEF run
    <3>2. PICK i \in DOMAIN ticks'[m] : ticks'[m][i].left = Job /\ ticks'[m][i].age = 0
      BY <2>1, <2>3
    <3>3. a <= b + ticks'[m][i].age
      BY <2>3, <3>1, <3>2
    <3> QED
      BY <2>3, <3>2, <3>3
  <2>4. CASE n = m /\ ~(a + timer[n] <= b)
    BY <2>1, <2>4 DEF Coming
  <2> QED
    BY <2>2, <2>3, <2>4
<1>2. ASSUME NEW i \in DOMAIN ticks[m], NEW k \in Job \ {j}, Visit(m, i, k),
             ~(k \in Throwing /\ dueFireSlot(k))
      PROVE  \/ a + timer'[n] <= b
             \/ \E l \in DOMAIN ticks'[n] : j \in ticks'[n][l].left /\ a <= b + ticks'[n][l].age
  <2>1. /\ \A x \in Node \ {m} : ticks'[x] = ticks[x]
        /\ \A l \in DOMAIN ticks[m] : \A x \in ticks[m][l].left \ {k} :
             \E h \in DOMAIN ticks'[m] : x \in ticks'[m][h].left /\ ticks'[m][h].age = ticks[m][l].age
    BY <1>2, VisitFacts
  <2>2. timer' = timer
    BY <1>2 DEF Visit
  <2>3. CASE a + timer[n] <= b
    BY <2>2, <2>3
  <2>4. CASE ~(a + timer[n] <= b)
    <3>1. PICK l \in DOMAIN ticks[n] : j \in ticks[n][l].left /\ a <= b + ticks[n][l].age
      BY <2>4 DEF Coming
    <3>2. CASE n # m
      BY <2>1, <3>1, <3>2
    <3>3. CASE n = m
      <4>1. PICK h \in DOMAIN ticks'[n] : j \in ticks'[n][h].left /\ ticks'[n][h].age = ticks[n][l].age
        BY <1>2, <2>1, <3>1, <3>3
      <4> QED
        BY <3>1, <4>1
    <3> QED
      BY <3>2, <3>3
  <2> QED
    BY <2>3, <2>4
<1> QED
  BY <1>1, <1>2

\* A unit of time brings every look one unit nearer, so none is overdue.
LEMMA ComingTick ==
    ASSUME WindowType, NEW n \in Node, NEW j \in Job, NEW a \in Nat, NEW b \in Nat,
           Coming(n, j, a, b), Tick
    PROVE  /\ a < b + Delay \/ a < b
           /\ \/ (a + 1) + timer'[n] <= b
              \/ \E i \in DOMAIN ticks'[n] :
                    j \in ticks'[n][i].left /\ a + 1 <= b + ticks'[n][i].age
<1>1. /\ timer[n] > 0 /\ timer'[n] = timer[n] - 1
      /\ DOMAIN ticks'[n] = DOMAIN ticks[n]
      /\ \A i \in DOMAIN ticks[n] :
          /\ ticks[n][i].age \in Nat /\ ticks[n][i].age < Delay
          /\ ticks'[n][i].age = ticks[n][i].age + 1
          /\ ticks'[n][i].left = ticks[n][i].left
  BY TickFacts
<1>2. timer[n] \in Nat /\ Delay \in Nat
  BY BoundFacts DEF WindowType
<1>3. CASE a + timer[n] <= b
  BY <1>1, <1>2, <1>3
<1>4. CASE \E i \in DOMAIN ticks[n] : j \in ticks[n][i].left /\ a <= b + ticks[n][i].age
  <2>1. PICK i \in DOMAIN ticks[n] : j \in ticks[n][i].left /\ a <= b + ticks[n][i].age
    BY <1>4
  <2>2. a < b + Delay /\ a + 1 <= b + ticks'[n][i].age
    BY <1>1, <1>2, <2>1
  <2> QED
    BY <1>1, <2>1, <2>2
<1> QED
  BY <1>3, <1>4 DEF Coming

\* Every unclaimed slot keeps somebody who will look at it in time.
LEMMA WaitsStep ==
    ASSUME WindowInv, [Next]_vars
    PROVE  WaitsInTime'
<1> SUFFICES ASSUME NEW j \in Job \ Throwing,
                    j \notin claimed', Undisturbed(j)', age'[j] <= windowMs
             PROVE  InTime(j)'
  BY DEF WaitsInTime
<1>0. WindowType /\ WindowType'
  BY WindowTypeStep DEF WindowInv
<1>1. /\ age[j] \in Nat /\ age[j] <= Old /\ calm \in Nat /\ calm <= Recovery + 1
      /\ leaders = {} => calm <= Gap
      /\ leaders \subseteq Node
      /\ \A n \in Node : timer[n] \in Nat /\ timer[n] <= Scan
      /\ Gap + Scan \in Nat
  BY <1>0, BoundFacts DEF WindowType
<1>2. ASSUME j \notin claimed, Undisturbed(j), age[j] <= windowMs PROVE InTime(j)
  BY <1>2 DEF WindowInv, WaitsInTime
<1>3. ASSUME age'[j] = 0 PROVE InTime(j)'
  <2> SUFFICES ASSUME NEW n \in leaders' PROVE Coming(n, j, age[j], Scan)'
    BY DEF InTime
  <2>1. timer'[n] \in Nat /\ timer'[n] <= Scan
    BY <1>0, BoundFacts DEF WindowType
  <2> QED
    BY <1>3, <2>1, BoundFacts DEF Coming
<1>4. ASSUME NEW p \in Job, SlotComes(p) PROVE InTime(j)'
  <2>1. CASE p = j
    BY <1>0, <1>3, <1>4, <2>1 DEF SlotComes, WindowType
  <2>2. CASE p # j
    <3>1. age'[j] = age[j] /\ claimed' = claimed \ {p}
      BY <1>0, <1>4, <2>2 DEF SlotComes, WindowType
    <3>2. \A q \in Throwing : age'[q] = IF q = p THEN 0 ELSE age[q]
      BY <1>0, <1>4, WindowAssumption DEF SlotComes, WindowType
    <3>3. p \notin Throwing
      BY <1>1, <3>1, <3>2, BoundFacts DEF Undisturbed
    <3>4. Undisturbed(j)
      BY <3>1, <3>2, <3>3 DEF Undisturbed
    <3>5. InTime(j)
      BY <1>2, <2>2, <3>1, <3>4
    <3> QED
      BY <1>4, <3>1, <3>5 DEF SlotComes, InTime, Coming
  <2> QED
    BY <2>1, <2>2
<1>5. ASSUME age' = age, claimed' = claimed PROVE InTime(j)
  BY <1>2, <1>5 DEF Undisturbed
\* A step of a scan, for which nobody is put off.
<1>6. ASSUME InTime(j), UNCHANGED <<age, leaders, calm>>,
             \A n \in leaders : \A a, b \in Nat :
                Coming(n, j, a, b) =>
                    \/ a + timer'[n] <= b
                    \/ \E i \in DOMAIN ticks'[n] : /\ j \in ticks'[n][i].left
                                                   /\ a <= b + ticks'[n][i].age
      PROVE  InTime(j)'
  <2> SUFFICES ASSUME leaders # {} PROVE InTime(j)'
    BY <1>6 DEF InTime
  <2>1. PICK n \in leaders : Coming(n, j, age[j], Scan) \/ Coming(n, j, calm, Gap + Scan)
    BY <1>6 DEF InTime
  <2>2. CASE Coming(n, j, age[j], Scan)
    <3>1. Coming(n, j, age[j], Scan)'
      BY <1>1, <1>6, <2>2, BoundFacts DEF Coming
    <3> QED
      BY <1>6, <3>1 DEF InTime
  <2>3. CASE Coming(n, j, calm, Gap + Scan)
    <3>1. Coming(n, j, calm, Gap + Scan)'
      BY <1>1, <1>6, <2>3 DEF Coming
    <3> QED
      BY <1>6, <3>1 DEF InTime
  <2> QED
    BY <2>1, <2>2, <2>3
<1>7. ASSUME NEW m \in Node, run(m) PROVE InTime(j)'
  <2>1. UNCHANGED <<age, claimed, leaders, calm>>
    BY <1>7 DEF run
  <2>2. \A n \in leaders : \A a, b \in Nat :
            Coming(n, j, a, b) =>
                \/ a + timer'[n] <= b
                \/ \E i \in DOMAIN ticks'[n] : j \in ticks'[n][i].left /\ a <= b + ticks'[n][i].age
    BY <1>0, <1>1, <1>7, ComingStays
  <2> QED
    BY <1>5, <1>6, <2>1, <2>2
<1>8. ASSUME NEW m \in Node, NEW i \in DOMAIN ticks[m], NEW k \in Job, Visit(m, i, k)
      PROVE  InTime(j)'
  <2>1. UNCHANGED <<age, leaders, calm>>
    BY <1>8 DEF Visit
  <2>2. CASE age[j] = 0
    BY <1>3, <2>1, <2>2
  <2>3. CASE age[j] # 0
    <3>1. k # j
      <4>1. dueFireSlot(j)
        BY <1>1, <2>1, <2>3, BoundFacts DEF dueFireSlot
      <4> QED
        BY <1>8, <4>1 DEF Visit
    <3>2. j \notin claimed /\ Undisturbed(j)
      BY <1>8, <2>1 DEF Visit, Undisturbed
    <3>3. ~(k \in Throwing /\ dueFireSlot(k))
      <4> SUFFICES ASSUME k \in Throwing PROVE ~dueFireSlot(k)
        OBVIOUS
      <4>1. age[k] > age[j] + windowMs /\ age[k] \in Nat
        BY <1>0, <3>2, BoundFacts DEF Undisturbed, WindowType
      <4> QED
        BY <1>1, <4>1, BoundFacts DEF dueFireSlot
    <3>4. \A n \in leaders : \A a, b \in Nat :
            Coming(n, j, a, b) =>
                \/ a + timer'[n] <= b
                \/ \E h \in DOMAIN ticks'[n] : j \in ticks'[n][h].left /\ a <= b + ticks'[n][h].age
      BY <1>0, <1>1, <1>8, <3>1, <3>3, ComingStays
    <3>5. InTime(j)
      BY <1>2, <2>1, <3>2
    <3> QED
      BY <1>6, <2>1, <3>4, <3>5
  <2> QED
    BY <2>2, <2>3
\* A loss and an election: the leaders there are then scan within Scan.
<1>9. ASSUME calm' <= Gap PROVE InTime(j)'
  <2> SUFFICES ASSUME NEW n \in leaders' PROVE Coming(n, j, calm, Gap + Scan)'
    BY DEF InTime
  <2>1. calm' \in Nat /\ timer'[n] \in Nat /\ timer'[n] <= Scan
    BY <1>0, BoundFacts DEF WindowType
  <2> QED
    BY <1>9, <2>1, BoundFacts DEF Coming
<1>10. ASSUME NEW m \in Node, Depose(m) \/ Die(m) PROVE InTime(j)'
  BY <1>9, <1>10, BoundFacts DEF Depose, Die, Lose
<1>11. ASSUME NEW m \in Node, Elect(m) PROVE InTime(j)'
  <2>1. leaders' = leaders \cup {m} /\ UNCHANGED <<age, claimed, calm, timer, ticks>>
    BY <1>11 DEF Elect
  <2>2. CASE leaders = {}
    BY <1>1, <1>9, <2>1, <2>2
  <2>3. CASE leaders # {}
    BY <1>5, <2>1, <2>3 DEF InTime, Coming
  <2> QED
    BY <2>2, <2>3
<1>12. ASSUME Tick PROVE InTime(j)'
  <2>1. /\ age'[j] = age[j] + 1 /\ age[j] + 1 <= windowMs
        /\ \A q \in Throwing : age'[q] <= age[q] + 1 /\ age[q] \in Nat /\ age'[q] \in Nat
        /\ calm' <= calm + 1 /\ calm' \in Nat
        /\ UNCHANGED <<claimed, leaders>>
    BY <1>0, <1>1, <1>12, BoundFacts, WindowAssumption DEF Tick, Later, WindowType
  <2>2. Undisturbed(j)
    BY <1>1, <2>1, BoundFacts DEF Undisturbed
  <2>3. InTime(j)
    BY <1>1, <1>2, <2>1, <2>2, BoundFacts
  <2> SUFFICES ASSUME leaders # {} PROVE InTime(j)'
    BY <2>1 DEF InTime
  <2>4. PICK n \in leaders : Coming(n, j, age[j], Scan) \/ Coming(n, j, calm, Gap + Scan)
    BY <2>3 DEF InTime
  <2>5. n \in Node
    BY <1>1
  <2>6. CASE Coming(n, j, age[j], Scan)
    <3>0. \/ (age[j] + 1) + timer'[n] <= Scan
          \/ \E i \in DOMAIN ticks'[n] :
                j \in ticks'[n][i].left /\ age[j] + 1 <= Scan + ticks'[n][i].age
      BY <1>0, <1>1, <1>12, <2>5, <2>6, ComingTick, BoundFacts
    <3>1. Coming(n, j, age[j], Scan)'
      BY <2>1, <3>0 DEF Coming
    <3> QED
      BY <2>1, <3>1 DEF InTime
  <2>7. CASE Coming(n, j, calm, Gap + Scan)
    <3>1. \/ (calm + 1) + timer'[n] <= Gap + Scan
          \/ \E i \in DOMAIN ticks'[n] :
                j \in ticks'[n][i].left /\ calm + 1 <= (Gap + Scan) + ticks'[n][i].age
      BY <1>0, <1>1, <1>12, <2>5, <2>7, ComingTick
    <3>2. /\ timer'[n] \in Nat
          /\ \A i \in DOMAIN ticks'[n] : ticks'[n][i].age \in Nat
      BY <1>0, <1>12, <2>5, TickFacts, BoundFacts DEF WindowType
    <3>3. Coming(n, j, calm, Gap + Scan)'
      BY <1>1, <2>1, <3>1, <3>2, BoundFacts DEF Coming
    <3> QED
      BY <2>1, <3>3 DEF InTime
  <2> QED
    BY <2>4, <2>6, <2>7
<1>13. CASE UNCHANGED vars
  <2>1. InTime(j)
    BY <1>5, <1>13 DEF vars
  <2> QED
    BY <1>13, <2>1 DEF vars, InTime, Coming
<1> QED
  BY <1>4, <1>7, <1>8, <1>10, <1>11, <1>12, <1>13 DEF Next

\* The look at a slot comes before its age or the calm exceeds the bound by Delay.
LEMMA ComingBound ==
    ASSUME WindowType, NEW n \in Node, NEW j \in Job, NEW a \in Nat, NEW b \in Nat,
           Coming(n, j, a, b)
    PROVE  a <= b + Delay
<1>1. CASE a + timer[n] <= b
  BY <1>1, BoundFacts DEF WindowType
<1>2. CASE \E i \in DOMAIN ticks[n] : j \in ticks[n][i].left /\ a <= b + ticks[n][i].age
  <2>1. PICK i \in DOMAIN ticks[n] : a <= b + ticks[n][i].age
    BY <1>2
  <2>2. ticks[n][i] \in ScanRec
    BY DEF WindowType, ScansOK
  <2>3. ticks[n][i].age \in 0..Delay
    BY <2>2 DEF ScanRec
  <2> QED
    BY <2>1, <2>3, BoundFacts
<1> QED
  BY <1>1, <1>2 DEF Coming

\* A slot that leaves the window, or is replaced, has been claimed.
LEMMA NoneSkippedStep ==
    ASSUME Delay <= Slack, Scan + Delay < Spacing, WindowInv, Next,
           NEW j \in Job \ Throwing, Passes(j), calm > Recovery, Undisturbed(j)
    PROVE  j \in claimed
<1> SUFFICES ASSUME j \notin claimed PROVE FALSE
  OBVIOUS
<1>1. /\ age[j] \in Nat /\ age[j] <= windowMs /\ calm \in Nat
      /\ leaders = {} => calm <= Gap
      /\ leaders \subseteq Node /\ WindowType
      /\ Gap + Scan \in Nat
  BY BoundFacts DEF WindowInv, WindowType, Passes
<1>2. age' # age
  BY <1>1, BoundFacts DEF Passes
<1>3. PICK n \in leaders : Coming(n, j, age[j], Scan)
  <2>1. leaders # {} /\ InTime(j)
    BY <1>1, BoundFacts DEF WindowInv, WaitsInTime
  <2>2. \A n \in leaders : ~Coming(n, j, calm, Gap + Scan)
    <3> SUFFICES ASSUME NEW n \in leaders, Coming(n, j, calm, Gap + Scan) PROVE FALSE
      OBVIOUS
    <3>1. calm <= (Gap + Scan) + Delay
      BY <1>1, ComingBound
    <3> QED
      BY <1>1, <3>1, BoundFacts
  <2> QED
    BY <2>1, <2>2 DEF InTime
<1>4. n \in Node
  BY <1>1
<1>5. ASSUME NEW p \in Job, SlotComes(p) PROVE FALSE
  <2>1. p = j
    BY <1>1, <1>5, BoundFacts DEF SlotComes, WindowType, Passes
  <2>2. age[j] >= Spacing
    BY <1>5, <2>1 DEF SlotComes
  <2>3. age[j] <= Scan + Delay
    BY <1>1, <1>3, <1>4, ComingBound, BoundFacts
  <2> QED
    BY <1>1, <2>2, <2>3, BoundFacts
<1>6. ASSUME Tick PROVE FALSE
  <2>1. age[j] = windowMs
    <3>1. age'[j] = age[j] + 1
      BY <1>1, <1>6, BoundFacts DEF Tick, Later
    <3> QED
      BY <1>1, <3>1, BoundFacts DEF Passes
  <2>2. age[j] < Scan + Delay \/ age[j] < Scan
    BY <1>1, <1>3, <1>4, <1>6, ComingTick, BoundFacts
  <2> QED
    BY <2>1, <2>2, BoundFacts
<1> QED
  BY <1>2, <1>5, <1>6 DEF Next, run, Visit, Depose, Die, Lose, Elect

\* "prevents drift misses" (cron-utils.ts), for any number of replicas and jobs
\* and any intervals: if a turn is delayed by no more than the slack, and the
\* slots of a job are further apart than a scan and that delay, then no slot of
\* it is skipped but after a loss of a leader that is not yet recovered from,
\* or with a job that throws.
THEOREM NoSlotIsSkipped ==
    ASSUME Delay <= Slack, Scan + Delay < Spacing
    PROVE  Spec => NoSlotSkipped
<1>1. Init => WindowInv
  <2>1. Init => WaitsInTime
    BY DEF Init, WaitsInTime
  <2> QED
    BY <2>1, WindowTypeInit DEF WindowInv
<1>2. WindowInv /\ [Next]_vars => WindowInv'
  BY WindowTypeStep, WaitsStep DEF WindowInv
<1>3. WindowInv /\ [Next]_vars =>
        [\A j \in Job \ Throwing :
            Passes(j) /\ calm > Recovery /\ Undisturbed(j) => j \in claimed]_vars
  BY NoneSkippedStep
<1> QED
  BY <1>1, <1>2, <1>3, PTL DEF Spec, NoSlotSkipped
=============================================================================
