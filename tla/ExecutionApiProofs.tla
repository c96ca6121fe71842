-------------------------- MODULE ExecutionApiProofs --------------------------
(***************************************************************************)
(* Proofs about ExecutionApi: the lock's TTL covers all attempts, the      *)
(* counts add up, and paging misses nothing.                               *)
(***************************************************************************)
EXTENDS ExecutionApi, FiniteSetTheorems, WellFoundedInduction, TLAPS

-----------------------------------------------------------------------------
(***************************************************************************)
(* Arithmetic.  What needs induction is proved by taking the least number  *)
(* for which it fails.                                                     *)
(***************************************************************************)

\* A nonempty set of natural numbers has a least element.
LEMMA LeastNumber ==
    ASSUME NEW T \in SUBSET Nat, T # {}
    PROVE  \E x \in T : \A y \in T : x <= y
<1> DEFINE R == {ss \in Nat \X Nat : ss[1] < ss[2]}
<1>1. IsWellFoundedOn(R, Nat)
  BY NatLessThanWellFounded DEF OpToRel
<1>2. PICK x \in T : \A y \in T : ~(<<y, x>> \in R)
  BY <1>1, WFMin
<1>3. ASSUME NEW y \in T PROVE x <= y
  <2>1. <<y, x>> \in Nat \X Nat /\ <<y, x>>[1] = y /\ <<y, x>>[2] = x
    OBVIOUS
  <2> QED
    BY <1>2, <2>1
<1> QED
  BY <1>3

\* Induction for a set of natural numbers.
LEMMA Induction ==
    ASSUME NEW P \in SUBSET Nat, 0 \in P, \A n \in P : n + 1 \in P
    PROVE  P = Nat
<1> SUFFICES ASSUME Nat \ P # {} PROVE FALSE
  OBVIOUS
<1>1. PICK x \in Nat \ P : \A y \in Nat \ P : x <= y
  BY LeastNumber
<1>2. x # 0 /\ x - 1 \in Nat /\ (x - 1) + 1 = x
  OBVIOUS
<1>3. x - 1 \in P
  BY <1>1, <1>2
<1> QED
  BY <1>2, <1>3

\* Powers of two are natural numbers and grow: they count subsets.
LEMMA PowerFacts ==
    ASSUME NEW m \in Nat, NEW n \in Nat, m <= n
    PROVE  2^m \in Nat /\ 2^n \in Nat /\ 2^m <= 2^n
<1>1. \A k \in Nat : IsFiniteSet(1..k) /\ Cardinality(1..k) = k
  BY FS_Interval
<1>2. \A k \in Nat : IsFiniteSet(SUBSET (1..k)) /\ Cardinality(SUBSET (1..k)) = 2^k
  BY <1>1, FS_SUBSET
<1>3. SUBSET (1..m) \subseteq SUBSET (1..n)
  OBVIOUS
<1>4. Cardinality(SUBSET (1..m)) \in Nat /\ Cardinality(SUBSET (1..n)) \in Nat
  BY <1>2, FS_CardinalityType
<1>5. Cardinality(SUBSET (1..m)) <= Cardinality(SUBSET (1..n))
  BY <1>2, <1>3, FS_Subset
<1> QED
  BY <1>2, <1>4, <1>5

\* The sums of a sequence of numbers are a function.
LEMMA RunningSum ==
    ASSUME NEW D \in [Nat -> Nat]
    PROVE  \E F \in [Nat -> Nat] : F[0] = 0 /\ \A n \in Nat : F[n + 1] = F[n] + D[n]
<1> DEFINE Sums(g, n) == g[0] = 0 /\ \A k \in 0..n : k < n => g[k + 1] = g[k] + D[k]
           A == {n \in Nat : \E g \in [Nat -> Nat] : Sums(g, n)}
<1>1. A = Nat
  <2>1. 0 \in A
    <3>1. Sums([k \in Nat |-> 0], 0)
      OBVIOUS
    <3> QED
      BY <3>1
  <2>2. ASSUME NEW n \in A PROVE n + 1 \in A
    <3>1. PICK g \in [Nat -> Nat] : Sums(g, n)
      OBVIOUS
    <3> DEFINE h == [k \in Nat |-> IF k = n + 1 THEN g[n] + D[n] ELSE g[k]]
    <3>2. h \in [Nat -> Nat]
      OBVIOUS
    <3>3. Sums(h, n + 1)
      <4>1. h[0] = 0
        BY <3>1
      <4>2. ASSUME NEW k \in 0..(n + 1), k < n + 1 PROVE h[k + 1] = h[k] + D[k]
        <5>1. k \in Nat /\ k \in 0..n /\ k # n + 1
          BY <4>2
        <5>2. h[k] = g[k]
          BY <5>1
        <5>3. CASE k = n
          BY <5>1, <5>2, <5>3
        <5>4. CASE k # n
          <6>1. k < n /\ k + 1 # n + 1
            BY <5>1, <5>4
          <6>2. h[k + 1] = g[k + 1]
            BY <5>1, <6>1
          <6> QED
            BY <3>1, <5>1, <5>2, <6>1, <6>2
        <5> QED
          BY <5>3, <5>4
      <4> QED
        BY <4>1, <4>2
    <3>4. n + 1 \in Nat
      OBVIOUS
    <3> HIDE DEF h, Sums
    <3> QED
      BY <3>2, <3>3, <3>4
  <2> QED
    BY <2>1, <2>2, Induction
<1>2. ASSUME NEW g \in [Nat -> Nat], NEW h \in [Nat -> Nat], NEW n \in Nat, NEW m \in Nat,
             n <= m, Sums(g, n), Sums(h, m)
      PROVE  g[n] = h[n]
  <2> DEFINE E == {k \in Nat : k <= n => g[k] = h[k]}
  <2>1. 0 \in E
    BY <1>2
  <2>2. ASSUME NEW k \in E PROVE k + 1 \in E
    BY <1>2, <2>2
  <2>3. E = Nat
    BY <2>1, <2>2, Induction
  <2> QED
    BY <2>3
<1> DEFINE G(n) == CHOOSE g \in [Nat -> Nat] : Sums(g, n)
           F == [n \in Nat |-> G(n)[n]]
<1>3. \A n \in Nat : G(n) \in [Nat -> Nat] /\ Sums(G(n), n)
  BY <1>1
<1> HIDE DEF G
<1>4. F \in [Nat -> Nat] /\ F[0] = 0
  BY <1>3
<1>5. ASSUME NEW n \in Nat PROVE F[n + 1] = F[n] + D[n]
  <2>1. G(n + 1)[n + 1] = G(n + 1)[n] + D[n]
    <3>1. n \in 0..(n + 1) /\ n < n + 1 /\ Sums(G(n + 1), n + 1)
      BY <1>3
    <3> QED
      BY <3>1
  <2>2. G(n)[n] = G(n + 1)[n]
    <3>1. n + 1 \in Nat /\ n <= n + 1
      OBVIOUS
    <3> HIDE DEF Sums
    <3> QED
      BY <1>2, <1>3, <3>1
  <2> QED
    BY <2>1, <2>2
<1> QED
  BY <1>4, <1>5

\* The loop of lib/lock-ttl.ts: its sums, that they grow, and the delays.
LEMMA BackoffFacts ==
    /\ backoffSum \in [Nat -> Nat]
    /\ backoffSum[0] = 0
    /\ \A n \in Nat : backoffSum[n + 1] = backoffSum[n] + backoffDelay(n + 1)
    /\ \A m, n \in Nat : m <= n => backoffSum[m] <= backoffSum[n]
    /\ \A m, n \in Nat \ {0} : m <= n =>
        backoffDelay(m) \in Nat /\ backoffDelay(n) \in Nat /\ backoffDelay(m) <= backoffDelay(n)
<1> DEFINE D == [n \in Nat |-> backoffMs * 2^n]
<1>1. \A n \in Nat : 2^n \in Nat
  BY PowerFacts
<1>2. D \in [Nat -> Nat]
  BY <1>1, ApiAssumption
<1>3. PICK F \in [Nat -> Nat] : F[0] = 0 /\ \A n \in Nat : F[n + 1] = F[n] + D[n]
  BY <1>2, RunningSum
<1>4. \A n \in Nat : F[n] = IF n = 0 THEN 0 ELSE F[n - 1] + backoffMs * 2^(n - 1)
  <2> SUFFICES ASSUME NEW n \in Nat, n # 0 PROVE F[n] = F[n - 1] + backoffMs * 2^(n - 1)
    BY <1>3
  <2>1. n - 1 \in Nat /\ (n - 1) + 1 = n
    OBVIOUS
  <2> QED
    BY <1>3, <2>1
<1> DEFINE B(f) == [n \in Nat |-> IF n = 0 THEN 0 ELSE f[n - 1] + backoffMs * 2^(n - 1)]
<1>5. F = B(F)
  BY <1>4
<1>6. backoffSum = CHOOSE f : f = B(f)
  BY DEF backoffSum
<1>7. backoffSum = B(backoffSum)
  BY <1>5, <1>6
<1>8. /\ backoffSum[0] = 0
      /\ \A n \in Nat : backoffSum[n + 1] = backoffSum[n] + D[n]
      /\ DOMAIN backoffSum = Nat
  <2>1. ASSUME NEW n \in Nat PROVE backoffSum[n + 1] = backoffSum[n] + D[n]
    <3>1. n + 1 \in Nat /\ n + 1 # 0 /\ (n + 1) - 1 = n
      OBVIOUS
    <3> QED
      BY <1>7, <3>1
  <2> QED
    BY <1>7, <2>1
<1> DEFINE P == {n \in Nat : backoffSum[n] \in Nat}
<1>9. P = Nat
  <2>1. 0 \in P
    BY <1>8
  <2>2. ASSUME NEW n \in P PROVE n + 1 \in P
    BY <1>2, <1>8
  <2> QED
    BY <2>1, <2>2, Induction
<1>10. backoffSum \in [Nat -> Nat]
  BY <1>7, <1>9
<1>11. ASSUME NEW m \in Nat, NEW n \in Nat, m <= n PROVE backoffSum[m] <= backoffSum[n]
  <2> DEFINE Q == {k \in Nat : backoffSum[m] <= backoffSum[m + k]}
  <2>1. 0 \in Q
    BY <1>10
  <2>2. ASSUME NEW k \in Q PROVE k + 1 \in Q
    <3>1. m + k \in Nat /\ m + (k + 1) = (m + k) + 1
      OBVIOUS
    <3>2. backoffSum[(m + k) + 1] = backoffSum[m + k] + D[m + k] /\ D[m + k] \in Nat
      BY <1>2, <1>8, <3>1
    <3>3. backoffSum[m] \in Nat /\ backoffSum[m + k] \in Nat
      BY <1>10, <3>1
    <3> QED
      BY <3>1, <3>2, <3>3
  <2>3. Q = Nat
    BY <2>1, <2>2, Induction
  <2>4. n - m \in Nat /\ m + (n - m) = n
    BY <1>11
  <2> QED
    BY <2>3, <2>4
<1>12. ASSUME NEW n \in Nat PROVE D[n] = backoffDelay(n + 1)
  <2>1. (n + 1) - 1 = n
    OBVIOUS
  <2> QED
    BY <2>1 DEF backoffDelay
<1>13. ASSUME NEW m \in Nat \ {0}, NEW n \in Nat \ {0}, m <= n
       PROVE  /\ backoffDelay(m) \in Nat /\ backoffDelay(n) \in Nat
              /\ backoffDelay(m) <= backoffDelay(n)
  <2>1. 2^(m - 1) \in Nat /\ 2^(n - 1) \in Nat /\ 2^(m - 1) <= 2^(n - 1)
    <3>1. m - 1 \in Nat /\ n - 1 \in Nat /\ m - 1 <= n - 1
      BY <1>13
    <3> QED
      BY <3>1, PowerFacts
  <2>2. \A b, x, y \in Nat : x <= y => b * x \in Nat /\ b * y \in Nat /\ b * x <= b * y
    OBVIOUS
  <2> QED
    BY <2>1, <2>2, ApiAssumption DEF backoffDelay
<1> QED
  BY <1>8, <1>10, <1>11, <1>12, <1>13

-----------------------------------------------------------------------------
(***************************************************************************)
(* The invariants.                                                         *)
(***************************************************************************)

ReaderRec ==
    [at : {"none", "job", "both", "items", "total", "answer", "end", "404"}, page : Nat,
     wanted : SUBSET Exec, got : SUBSET Exec, total : Nat, torn : BOOLEAN]

ApiType ==
    /\ exists \in BOOLEAN
    /\ lock \in 0..(Second * computeJobLockTtlSeconds)
    /\ rows \in Seq(Exec) /\ IsInjective(rows)
    /\ status \in [Exec -> {"NONE", "PENDING", "RUNNING", "SUCCESS", "FAILED", "DEAD"}]
    /\ phase \in [Exec -> {"none", "ready", "running", "delayed", "over", "skipped"}]
    /\ try \in [Exec -> Nat] /\ left \in [Exec -> Nat]
    /\ manual \subseteq Exec
    /\ waited \in [Exec -> 0..Buffer]
    /\ reader \in ReaderRec

\* How far an execution has come: the attempts it has begun and the time that
\* is left of what it is doing.
Stage(e) ==
    /\ phase[e] = "none" => try[e] = 0 /\ left[e] = 0 /\ waited[e] = 0 /\ e \notin manual
    /\ phase[e] = "ready" => try[e] <= maxRetries /\ left[e] = 0
    /\ phase[e] = "running" => try[e] \in 1..(maxRetries + 1) /\ left[e] <= timeoutMs
    /\ phase[e] = "delayed" => try[e] \in 1..maxRetries /\ left[e] <= backoffDelay(maxRetries)
    /\ phase[e] = "over" => try[e] <= maxRetries + 1 /\ left[e] = 0
    /\ phase[e] = "skipped" => try[e] <= maxRetries + 1 /\ left[e] = 0

\* Only executions that were created have a row or are wanted by a reader.
Created == \A e \in ToSet(rows) \cup reader.wanted : phase[e] # "none"

\* While the job is there, what is over has ended well or is dead, and what
\* waits for an attempt, or has been skipped, has not started or has failed.
Settled ==
    exists => \A e \in Exec :
        /\ phase[e] = "over" => status[e] \in {"SUCCESS", "DEAD"}
        /\ phase[e] \in {"ready", "delayed", "skipped"} => status[e] \in {"PENDING", "FAILED"}

\* The time execution e still takes if nothing keeps it waiting: the rest of
\* the present attempt or backoff, the attempts to come and their backoffs.
Rest(e) ==
    (maxRetries + 1 - try[e]) * timeoutMs + left[e] + backoffSum[maxRetries]
      - backoffSum[IF phase[e] = "running" THEN try[e] - 1 ELSE try[e]]

\* The lock outlives every manual execution that has not used up the buffer.
LockCovers ==
    \A e \in manual : ~Over(e) /\ waited[e] < Buffer => Rest(e) + (Buffer - waited[e]) <= lock

\* What was wanted and lies on the first n pages has been seen.
Seen(n) ==
    \A i \in DOMAIN rows : i <= n * limit /\ rows[i] \in reader.wanted => rows[i] \in reader.got

Reading ==
    /\ exists => reader.wanted \subseteq ToSet(rows)
    /\ reader.at \in {"job", "both", "items"} => reader.page > 0 /\ Seen(reader.page - 1)
    /\ reader.at \in {"total", "answer"} => reader.page > 0 /\ Seen(reader.page)
    /\ reader.at = "items" /\ exists /\ ~reader.torn => reader.total = Len(rows)
    /\ reader.at = "answer" /\ exists /\ ~reader.torn /\ reader.total <= reader.page * limit =>
        reader.wanted \subseteq reader.got
    /\ PagingMissesNothing

ApiInv ==
    /\ ApiType /\ (\A e \in Exec : Stage(e)) /\ Created /\ Settled
    /\ LockCovers /\ OneManualRun /\ Reading

-----------------------------------------------------------------------------
(***************************************************************************)
(* Operators.                                                              *)
(***************************************************************************)

\* Rounding up.
LEMMA CeilFacts ==
    ASSUME NEW a \in Nat, NEW b \in Nat \ {0}
    PROVE  CeilDiv(a, b) \in Nat /\ b * CeilDiv(a, b) >= a
  BY DEF CeilDiv

\* The larger of two numbers.
LEMMA MaxFacts ==
    ASSUME NEW a \in Nat, NEW b \in Nat
    PROVE  Max({a, b}) \in {a, b} /\ Max({a, b}) >= a /\ Max({a, b}) >= b
<1>1. \E x \in {a, b} : \A y \in {a, b} : x >= y
  <2>1. CASE a >= b
    BY <2>1
  <2>2. CASE b >= a
    BY <2>2
  <2> QED
    BY <2>1, <2>2
<1>2. Max({a, b}) \in {a, b} /\ \A y \in {a, b} : Max({a, b}) >= y
  BY <1>1 DEF Max
<1> QED
  BY <1>2

\* The smaller of two numbers.
LEMMA MinFacts ==
    ASSUME NEW a \in Nat, NEW b \in Nat
    PROVE  Min({a, b}) = IF a <= b THEN a ELSE b
<1>1. \E x \in {a, b} : \A y \in {a, b} : x <= y
  <2>1. CASE a <= b
    BY <2>1
  <2>2. CASE b <= a
    BY <2>2
  <2> QED
    BY <2>1, <2>2
<1>2. Min({a, b}) \in {a, b} /\ \A y \in {a, b} : Min({a, b}) <= y
  BY <1>1 DEF Min
<1> QED
  BY <1>2

\* computeJobLockTtlSeconds covers what its comment says.
LEMMA TtlFacts ==
    /\ computeJobLockTtlSeconds \in Nat /\ Second * computeJobLockTtlSeconds \in Nat
    /\ Second * computeJobLockTtlSeconds
         >= (maxRetries + 1) * timeoutMs + backoffSum[maxRetries] + Buffer
<1> DEFINE ms == timeoutMs * (maxRetries + 1) + backoffSum[maxRetries] + Buffer
<1>1. ms \in Nat /\ ms = (maxRetries + 1) * timeoutMs + backoffSum[maxRetries] + Buffer
  <2>1. timeoutMs * (maxRetries + 1) = (maxRetries + 1) * timeoutMs
        /\ timeoutMs * (maxRetries + 1) \in Nat
    BY ApiAssumption
  <2>2. backoffSum[maxRetries] \in Nat /\ Buffer \in Nat
    BY BackoffFacts, ApiAssumption
  <2> QED
    BY <2>1, <2>2
<1>2. computeJobLockTtlSeconds = Max({1, CeilDiv(ms, Second)})
  BY DEF computeJobLockTtlSeconds
<1> HIDE DEF ms
<1>3. CeilDiv(ms, Second) \in Nat /\ Second * CeilDiv(ms, Second) >= ms
  BY <1>1, CeilFacts, ApiAssumption
<1>4. computeJobLockTtlSeconds \in Nat /\ computeJobLockTtlSeconds >= CeilDiv(ms, Second)
  BY <1>2, <1>3, MaxFacts
<1>5. \A a, b, c \in Nat : b >= c => a * b \in Nat /\ a * c \in Nat /\ a * b >= a * c
  OBVIOUS
<1>6. /\ Second * computeJobLockTtlSeconds \in Nat /\ Second * CeilDiv(ms, Second) \in Nat
      /\ Second * computeJobLockTtlSeconds >= Second * CeilDiv(ms, Second)
  BY <1>3, <1>4, <1>5, ApiAssumption
<1>7. Second * computeJobLockTtlSeconds >= ms
  BY <1>1, <1>3, <1>6
<1> QED
  BY <1>1, <1>4, <1>6, <1>7

\* The elements of a concatenation.
LEMMA ConcatFacts ==
    ASSUME NEW S, NEW a \in Seq(S), NEW b \in Seq(S)
    PROVE  /\ a \o b \in Seq(S) /\ Len(a \o b) = Len(a) + Len(b)
           /\ \A k \in 1..(Len(a) + Len(b)) :
                (a \o b)[k] = IF k <= Len(a) THEN a[k] ELSE b[k - Len(a)]
  OBVIOUS

\* InsertAt leaves the elements before i where they are and moves the others
\* down by one.
LEMMA InsertFacts ==
    ASSUME NEW S, NEW s \in Seq(S), NEW e \in S, NEW i \in 1..(Len(s) + 1)
    PROVE  /\ InsertAt(s, i, e) \in Seq(S)
           /\ Len(InsertAt(s, i, e)) = Len(s) + 1
           /\ \A k \in 1..(Len(s) + 1) :
                InsertAt(s, i, e)[k] = IF k < i THEN s[k] ELSE IF k = i THEN e ELSE s[k - 1]
<1> DEFINE a == SubSeq(s, 1, i - 1)
           b == SubSeq(s, i, Len(s))
<1>1. Len(s) \in Nat
  OBVIOUS
<1>2. a \in Seq(S) /\ Len(a) = i - 1 /\ \A k \in 1..(i - 1) : a[k] = s[k]
  BY <1>1
<1>3. b \in Seq(S) /\ Len(b) = Len(s) - i + 1 /\ \A k \in 1..(Len(s) - i + 1) : b[k] = s[i + k - 1]
  <2>1. CASE i <= Len(s)
    BY <1>1, <2>1
  <2>2. CASE i = Len(s) + 1
    BY <1>1, <2>2
  <2> QED
    BY <1>1, <2>1, <2>2
<1>4. InsertAt(s, i, e) = (a \o <<e>>) \o b
  BY DEF InsertAt
<1> HIDE DEF a, b
<1>5. <<e>> \in Seq(S) /\ Len(<<e>>) = 1 /\ <<e>>[1] = e
  OBVIOUS
<1> DEFINE c == a \o <<e>>
<1>6. c \in Seq(S) /\ Len(c) = i /\ c[i] = e /\ \A k \in 1..(i - 1) : c[k] = s[k]
  <2>1. /\ c \in Seq(S) /\ Len(c) = Len(a) + 1
        /\ \A k \in 1..(Len(a) + 1) : c[k] = IF k <= Len(a) THEN a[k] ELSE <<e>>[k - Len(a)]
    BY <1>2, <1>5, ConcatFacts
  <2> HIDE DEF c
  <2>2. i \in 1..(Len(a) + 1) /\ ~(i <= Len(a)) /\ i - Len(a) = 1
    BY <1>1, <1>2
  <2>3. c[i] = e
    BY <1>5, <2>1, <2>2
  <2> QED
    BY <1>1, <1>2, <2>1, <2>3
<1> HIDE DEF c
<1>7. /\ c \o b \in Seq(S) /\ Len(c \o b) = Len(c) + Len(b)
      /\ \A k \in 1..(Len(c) + Len(b)) : (c \o b)[k] = IF k <= Len(c) THEN c[k] ELSE b[k - Len(c)]
  BY <1>3, <1>6, ConcatFacts
<1>8. Len(c) + Len(b) = Len(s) + 1
  BY <1>1, <1>3, <1>6
<1>9. ASSUME NEW k \in 1..(Len(s) + 1)
      PROVE  (c \o b)[k] = IF k < i THEN s[k] ELSE IF k = i THEN e ELSE s[k - 1]
  <2>1. (c \o b)[k] = IF k <= i THEN c[k] ELSE b[k - i]
    BY <1>6, <1>7, <1>8
  <2>2. CASE k <= i
    BY <1>6, <2>1, <2>2
  <2>3. CASE k > i
    <3>1. k - i \in 1..(Len(s) - i + 1) /\ i + (k - i) - 1 = k - 1
      BY <1>1, <2>3
    <3>2. b[k - i] = s[k - 1]
      BY <1>3, <3>1
    <3> QED
      BY <2>1, <2>3, <3>2
  <2>4. k <= i \/ k > i
    BY <1>1
  <2> QED
    BY <2>2, <2>3, <2>4
<1> QED
  BY <1>4, <1>7, <1>8, <1>9 DEF c

-----------------------------------------------------------------------------
(***************************************************************************)
(* What the steps do.                                                      *)
(***************************************************************************)

\* The fields of a record that only the reader's steps change.
SameBut(r, q, fields) ==
    /\ "at" \in fields \/ r.at = q.at
    /\ "page" \in fields \/ r.page = q.page
    /\ "wanted" \in fields \/ r.wanted = q.wanted
    /\ "got" \in fields \/ r.got = q.got
    /\ "total" \in fields \/ r.total = q.total
    /\ "torn" \in fields \/ r.torn = q.torn

\* A new row somewhere in the list; the reader only learns that it is torn.
LEMMA CreateFacts ==
    ASSUME ApiType, Created, NEW e \in Exec, createExecution(e)
    PROVE  /\ exists /\ phase[e] = "none" /\ e \notin ToSet(rows)
           /\ UNCHANGED <<exists, try, left, waited>>
           /\ rows' \in Seq(Exec) /\ IsInjective(rows') /\ Len(rows') = Len(rows) + 1
           /\ ToSet(rows') = ToSet(rows) \cup {e}
           /\ \A k \in DOMAIN rows' :
                \/ rows'[k] = e
                \/ k \in DOMAIN rows /\ rows'[k] = rows[k]
                \/ k - 1 \in DOMAIN rows /\ rows'[k] = rows[k - 1]
           /\ reader' \in ReaderRec /\ SameBut(reader', reader, {"torn"})
           /\ reader'.torn = (reader.torn \/ reader.at = "items")
<1>1. rows \in Seq(Exec) /\ IsInjective(rows) /\ Len(rows) \in Nat /\ DOMAIN rows = 1..Len(rows)
  BY DEF ApiType
<1>2. e \notin ToSet(rows)
  BY DEF createExecution, Created
<1>3. PICK i \in 1..(Len(rows) + 1) : rows' = InsertAt(rows, i, e)
  BY DEF createExecution
<1>4. /\ rows' \in Seq(Exec) /\ Len(rows') = Len(rows) + 1 /\ DOMAIN rows' = 1..(Len(rows) + 1)
      /\ \A k \in 1..(Len(rows) + 1) :
           rows'[k] = IF k < i THEN rows[k] ELSE IF k = i THEN e ELSE rows[k - 1]
  <2>1. /\ InsertAt(rows, i, e) \in Seq(Exec) /\ Len(InsertAt(rows, i, e)) = Len(rows) + 1
        /\ \A k \in 1..(Len(rows) + 1) :
             InsertAt(rows, i, e)[k]
               = IF k < i THEN rows[k] ELSE IF k = i THEN e ELSE rows[k - 1]
    BY <1>1, InsertFacts
  <2>2. DOMAIN rows' = 1..Len(rows')
    BY <1>3, <2>1
  <2> QED
    BY <1>3, <2>1, <2>2
<1>5. \A k \in 1..Len(rows) : rows[k] # e
  BY <1>1, <1>2 DEF ToSet
<1>6. IsInjective(rows')
  <2> SUFFICES ASSUME NEW k \in 1..(Len(rows) + 1), NEW l \in 1..(Len(rows) + 1),
                      rows'[k] = rows'[l], k < l
               PROVE  FALSE
    BY <1>1, <1>4 DEF IsInjective
  <2>1. CASE k < i
    <3>1. k \in 1..Len(rows) /\ rows'[k] = rows[k]
      BY <1>1, <1>4, <2>1
    <3>2. CASE l < i
      <4>1. l \in 1..Len(rows) /\ rows'[l] = rows[l] /\ k # l
        BY <1>1, <1>4, <3>2
      <4> QED
        BY <1>1, <3>1, <4>1 DEF IsInjective
    <3>3. CASE l = i
      <4>1. rows'[l] = e
        BY <1>4, <3>3
      <4> QED
        BY <1>5, <3>1, <4>1
    <3>4. CASE l > i
      <4>1. l - 1 \in 1..Len(rows) /\ rows'[l] = rows[l - 1] /\ k # l - 1
        BY <1>1, <1>4, <2>1, <3>4
      <4> QED
        BY <1>1, <3>1, <4>1 DEF IsInjective
    <3> QED
      BY <1>1, <3>2, <3>3, <3>4
  <2>2. CASE k = i
    <3>1. l - 1 \in 1..Len(rows) /\ rows'[l] = rows[l - 1] /\ rows'[k] = e
      BY <1>1, <1>4, <2>2
    <3> QED
      BY <1>5, <3>1
  <2>3. CASE k > i
    <3>1. l - 1 \in 1..Len(rows) /\ rows'[l] = rows[l - 1]
      BY <1>1, <1>4, <2>3
    <3>2. k - 1 \in 1..Len(rows) /\ rows'[k] = rows[k - 1] /\ k - 1 # l - 1
      BY <1>1, <1>4, <2>3
    <3> QED
      BY <1>1, <3>1, <3>2 DEF IsInjective
  <2> QED
    BY <1>1, <2>1, <2>2, <2>3
<1>7. ASSUME NEW k \in DOMAIN rows'
      PROVE  \/ rows'[k] = e
             \/ k \in DOMAIN rows /\ rows'[k] = rows[k]
             \/ k - 1 \in DOMAIN rows /\ rows'[k] = rows[k - 1]
  BY <1>1, <1>4
<1>8. ToSet(rows') = ToSet(rows) \cup {e}
  <2>1. ToSet(rows') \subseteq ToSet(rows) \cup {e}
    BY <1>7 DEF ToSet
  <2>2. e \in ToSet(rows')
    BY <1>4 DEF ToSet
  <2>3. ASSUME NEW k \in DOMAIN rows PROVE rows[k] \in ToSet(rows')
    <3>1. CASE k < i
      <4>1. k \in DOMAIN rows' /\ rows'[k] = rows[k]
        BY <1>1, <1>4, <3>1
      <4> QED
        BY <4>1 DEF ToSet
    <3>2. CASE k >= i
      <4>1. k + 1 \in 1..(Len(rows) + 1) /\ ~(k + 1 < i) /\ k + 1 # i /\ (k + 1) - 1 = k
        BY <1>1, <3>2
      <4>2. k + 1 \in DOMAIN rows' /\ rows'[k + 1] = rows[k]
        BY <1>4, <4>1
      <4> QED
        BY <4>2 DEF ToSet
    <3> QED
      BY <1>1, <3>1, <3>2
  <2> QED
    BY <2>1, <2>2, <2>3 DEF ToSet
<1>9. PICK r : r = [reader EXCEPT !.torn = @ \/ reader.at = "items"]
  OBVIOUS
<1>10. r \in ReaderRec /\ SameBut(r, reader, {"torn"}) /\ r.torn = (reader.torn \/ reader.at = "items")
  BY <1>9 DEF ApiType, ReaderRec, SameBut
<1>11. reader' = r
  BY <1>9 DEF createExecution
<1> QED
  BY <1>2, <1>4, <1>6, <1>7, <1>8, <1>10, <1>11 DEF createExecution

\* The elements of a part of a sequence.
LEMMA SliceFacts ==
    ASSUME NEW S, NEW s \in Seq(S), NEW a \in Nat, NEW b \in Nat, a < b, b <= Len(s)
    PROVE  /\ DOMAIN SubSeq(s, a + 1, b) = 1..(b - a)
           /\ \A k \in 1..(b - a) : SubSeq(s, a + 1, b)[k] = s[a + k]
<1>1. Len(s) \in Nat /\ a + 1 \in 1..Len(s) /\ b \in 1..Len(s)
  OBVIOUS
<1>2. SubSeq(s, a + 1, b) \in Seq(S) /\ Len(SubSeq(s, a + 1, b)) = b - a
  BY <1>1
<1>3. ASSUME NEW k \in 1..(b - a) PROVE SubSeq(s, a + 1, b)[k] = s[a + k]
  BY <1>1
<1> QED
  BY <1>2, <1>3

\* A page holds the rows at its places.
LEMMA PageFacts ==
    ASSUME rows \in Seq(Exec), NEW p \in Nat \ {0}
    PROVE  /\ ToSet(pageItems(p)) \subseteq ToSet(rows)
           /\ \A i \in DOMAIN rows :
                i > (p - 1) * limit /\ i <= p * limit => rows[i] \in ToSet(pageItems(p))
           /\ (p - 1) * limit \in Nat /\ p * limit = (p - 1) * limit + limit
<1>1. (p - 1) * limit \in Nat /\ p * limit = (p - 1) * limit + limit
  <2>1. \A a, b \in Nat : a * b \in Nat /\ (a + 1) * b = a * b + b
    OBVIOUS
  <2>2. p - 1 \in Nat /\ (p - 1) + 1 = p /\ limit \in Nat
    BY ApiAssumption
  <2> QED
    BY <2>1, <2>2
<1>2. PICK skip \in Nat : skip = (p - 1) * limit
  BY <1>1
<1>3. Len(rows) \in Nat /\ limit \in Nat /\ limit > 0 /\ DOMAIN rows = 1..Len(rows)
  BY ApiAssumption
<1>4. PICK end \in Nat : end = Min({skip + limit, Len(rows)})
  BY <1>2, <1>3, MinFacts
<1>5. /\ end <= Len(rows) /\ end <= skip + limit
      /\ end = skip + limit \/ end = Len(rows)
  <2>1. \A a, b \in Nat : Min({a, b}) <= a /\ Min({a, b}) <= b /\ Min({a, b}) \in {a, b}
    BY MinFacts
  <2>2. skip + limit \in Nat
    BY <1>3
  <2> QED
    BY <1>3, <1>4, <2>1, <2>2
<1>6. pageItems(p) = SubSeq(rows, skip + 1, end)
  BY <1>2, <1>4 DEF pageItems
<1> DEFINE Page == /\ ToSet(pageItems(p)) \subseteq ToSet(rows)
                   /\ \A i \in DOMAIN rows :
                        i > skip /\ i <= skip + limit => rows[i] \in ToSet(pageItems(p))
<1>7. ASSUME skip < end PROVE Page
  <2>1. /\ DOMAIN SubSeq(rows, skip + 1, end) = 1..(end - skip)
        /\ \A k \in 1..(end - skip) : SubSeq(rows, skip + 1, end)[k] = rows[skip + k]
    <3>1. end <= Len(rows)
      BY <1>3, <1>5
    <3> QED
      BY <1>5, <1>7, <3>1, SliceFacts
  <2>2. ASSUME NEW k \in 1..(end - skip) PROVE rows[skip + k] \in ToSet(rows)
    <3>1. \A n, a, b \in Nat : \A x \in 1..(b - a) : b <= n => a + x \in 1..n
      OBVIOUS
    <3>2. skip + k \in DOMAIN rows
      BY <1>3, <1>5, <3>1
    <3> QED
      BY <3>2 DEF ToSet
  <2>3. ASSUME NEW i \in DOMAIN rows, i > skip, i <= skip + limit
        PROVE  rows[i] \in ToSet(pageItems(p))
    <3>1. i - skip \in 1..(end - skip) /\ skip + (i - skip) = i
      <4>1. \A n, a, b, l \in Nat : \A x \in 1..n :
              x > a /\ x <= a + l /\ (b = a + l \/ b = n) => x - a \in 1..(b - a) /\ a + (x - a) = x
        OBVIOUS
      <4>2. i \in 1..Len(rows) /\ i > skip /\ i <= skip + limit
        BY <1>3, <2>3
      <4>3. end = skip + limit \/ end = Len(rows)
        BY <1>5
      <4>4. Len(rows) \in Nat /\ limit \in Nat
        BY <1>3
      <4> QED
        BY <4>1, <4>2, <4>3, <4>4
    <3> QED
      BY <1>6, <2>1, <3>1 DEF ToSet
  <2>4. \A k \in DOMAIN pageItems(p) : pageItems(p)[k] \in ToSet(rows)
    BY <1>6, <2>1, <2>2
  <2>5. ToSet(pageItems(p)) \subseteq ToSet(rows)
    BY <2>4 DEF ToSet
  <2> QED
    BY <2>3, <2>5
<1>8. ASSUME ~(skip < end) PROVE Page
  <2>1. DOMAIN SubSeq(rows, skip + 1, end) = {}
    BY <1>8
  <2>2. \A i \in DOMAIN rows : ~(i > skip)
    <3>1. \A n, a, b, l \in Nat : \A x \in 1..n :
            l > 0 /\ ~(a < b) /\ (b = a + l \/ b = n) => ~(x > a)
      OBVIOUS
    <3> QED
      BY <1>3, <1>5, <1>8, <3>1
  <2>3. ToSet(pageItems(p)) = {}
    BY <1>6, <2>1 DEF ToSet
  <2> QED
    BY <2>2, <2>3
<1>9. Page
  BY <1>7, <1>8
<1> QED
  BY <1>1, <1>2, <1>9

\* The fields the reader's steps change.
LEMMA ReaderFacts ==
    ASSUME ApiType
    PROVE  /\ OpenList => /\ reader' \in ReaderRec /\ SameBut(reader', reader, {"at", "page", "wanted"})
                          /\ reader = Away
                          /\ reader'.at = "job" /\ reader'.page = 1 /\ reader'.wanted = ToSet(rows)
           /\ FindJob => /\ reader' \in ReaderRec /\ SameBut(reader', reader, {"at"})
                         /\ reader.at = "job" /\ reader'.at \in {"both", "404"}
           /\ QueryItems /\ reader.page > 0 =>
                            /\ reader' \in ReaderRec /\ SameBut(reader', reader, {"at", "got"})
                            /\ \/ reader.at = "both" /\ reader'.at = "total"
                               \/ reader.at = "items" /\ reader'.at = "answer"
                            /\ reader'.got = reader.got \cup ToSet(pageItems(reader.page))
           /\ QueryTotal => /\ reader' \in ReaderRec /\ SameBut(reader', reader, {"at", "total"})
                            /\ \/ reader.at = "both" /\ reader'.at = "items"
                               \/ reader.at = "total" /\ reader'.at = "answer"
                            /\ reader'.total = Len(rows)
           /\ NextPage => /\ reader' \in ReaderRec /\ SameBut(reader', reader, {"at", "page", "total"})
                          /\ reader.at = "answer"
                          /\ \/ reader'.at = "job" /\ reader'.page = reader.page + 1
                             \/ /\ reader'.at = "end" /\ reader'.page = reader.page
                                /\ ~(reader.page < totalPages(reader.total))
           /\ CloseList => reader' = Away /\ reader' \in ReaderRec
<1>1. /\ reader \in ReaderRec /\ rows \in Seq(Exec) /\ Len(rows) \in Nat
      /\ ToSet(rows) \subseteq Exec
  BY DEF ApiType, ToSet
<1>2. ASSUME OpenList
      PROVE  /\ reader' \in ReaderRec /\ SameBut(reader', reader, {"at", "page", "wanted"})
             /\ reader'.at = "job" /\ reader'.page = 1 /\ reader'.wanted = ToSet(rows)
  BY <1>1, <1>2 DEF OpenList, ReaderRec, SameBut
<1>3. ASSUME FindJob
      PROVE  /\ reader' \in ReaderRec /\ SameBut(reader', reader, {"at"})
             /\ reader.at = "job" /\ reader'.at \in {"both", "404"}
  BY <1>1, <1>3 DEF FindJob, ReaderRec, SameBut
<1>4. ASSUME QueryItems, reader.page > 0
      PROVE  /\ reader' \in ReaderRec /\ SameBut(reader', reader, {"at", "got"})
             /\ \/ reader.at = "both" /\ reader'.at = "total"
                \/ reader.at = "items" /\ reader'.at = "answer"
             /\ reader'.got = reader.got \cup ToSet(pageItems(reader.page))
  <2>1. reader.page \in Nat \ {0}
    BY <1>1, <1>4 DEF ReaderRec
  <2>2. ToSet(pageItems(reader.page)) \subseteq Exec
    BY <1>1, <2>1, PageFacts
  <2> QED
    BY <1>1, <1>4, <2>2 DEF QueryItems, ReaderRec, SameBut
<1>5. ASSUME QueryTotal
      PROVE  /\ reader' \in ReaderRec /\ SameBut(reader', reader, {"at", "total"})
             /\ \/ reader.at = "both" /\ reader'.at = "items"
                \/ reader.at = "total" /\ reader'.at = "answer"
             /\ reader'.total = Len(rows)
  BY <1>1, <1>5 DEF QueryTotal, ReaderRec, SameBut
<1>6. ASSUME NextPage
      PROVE  /\ reader' \in ReaderRec /\ SameBut(reader', reader, {"at", "page", "total"})
             /\ reader.at = "answer"
             /\ \/ reader'.at = "job" /\ reader'.page = reader.page + 1
                \/ /\ reader'.at = "end" /\ reader'.page = reader.page
                   /\ ~(reader.page < totalPages(reader.total))
  <2>1. CASE reader.page < totalPages(reader.total)
    <3>1. PICK n \in Nat : n = reader.page + 1
      BY <1>1 DEF ReaderRec
    <3>2. reader' = [reader EXCEPT !.at = "job", !.page = n, !.total = 0]
      BY <1>6, <2>1, <3>1 DEF NextPage
    <3>3. 0 \in Nat
      OBVIOUS
    <3>4. /\ reader' \in ReaderRec /\ SameBut(reader', reader, {"at", "page", "total"})
          /\ reader'.at = "job" /\ reader'.page = n
      BY <1>1, <3>2, <3>3 DEF ReaderRec, SameBut
    <3> QED
      BY <1>6, <3>1, <3>4 DEF NextPage
  <2>2. CASE ~(reader.page < totalPages(reader.total))
    BY <1>1, <1>6, <2>2 DEF NextPage, ReaderRec, SameBut
  <2> QED
    BY <2>1, <2>2
<1>7. ASSUME CloseList PROVE reader' = Away /\ reader' \in ReaderRec
  BY <1>7 DEF CloseList, Away, ReaderRec
<1> QED
  BY <1>2, <1>3, <1>4, <1>5, <1>6, <1>7 DEF OpenList

\* The empty list.
LEMMA NoRows == <<>> \in Seq(Exec) /\ IsInjective(<<>>) /\ ToSet(<<>>) = {} /\ Len(<<>>) = 0
<1>1. <<>> \in Seq(Exec) /\ DOMAIN <<>> = {} /\ Len(<<>>) = 0
  OBVIOUS
<1> QED
  BY <1>1 DEF IsInjective, ToSet

\* The invariant holds initially.
LEMMA ApiInit == Init => ApiInv
<1> SUFFICES ASSUME Init PROVE ApiInv
  OBVIOUS
<1>1. reader = Away /\ Away \in ReaderRec /\ Away.wanted = {} /\ Away.at = "none"
  BY DEF Init, Away, ReaderRec
<1>2. ApiType
  <2>1. 0 \in 0..(Second * computeJobLockTtlSeconds) /\ 0 \in 0..Buffer
    BY TtlFacts, ApiAssumption
  <2> QED
    BY <1>1, <2>1, NoRows DEF Init, ApiType
<1>3. (\A e \in Exec : Stage(e)) /\ Settled /\ LockCovers /\ OneManualRun
  BY DEF Init, Stage, Settled, LockCovers, OneManualRun
<1>4. Created /\ Reading
  BY <1>1, NoRows DEF Init, Created, Reading, PagingMissesNothing
<1> QED
  BY <1>2, <1>3, <1>4 DEF ApiInv

\* An attempt ends the execution, or there is a retry ahead of it.
LEMMA EndFacts ==
    ASSUME ApiType, NEW e \in Exec, Stage(e), AttemptEnds(e)
    PROVE  /\ status' \in [Exec -> {"NONE", "PENDING", "RUNNING", "SUCCESS", "FAILED", "DEAD"}]
           /\ phase' \in [Exec -> {"none", "ready", "running", "delayed", "over", "skipped"}]
           /\ left' \in [Exec -> Nat]
           /\ \A f \in Exec \ {e} :
                status'[f] = status[f] /\ phase'[f] = phase[f] /\ left'[f] = left[f]
           /\ \/ phase'[e] = "over" /\ left'[e] = 0 /\ status'[e] \in {"SUCCESS", "DEAD"}
              \/ /\ phase'[e] = "delayed" /\ try[e] <= maxRetries
                 /\ left'[e] = backoffDelay(try[e]) /\ status'[e] = "FAILED"
<1>1. /\ status \in [Exec -> {"NONE", "PENDING", "RUNNING", "SUCCESS", "FAILED", "DEAD"}]
      /\ phase \in [Exec -> {"none", "ready", "running", "delayed", "over", "skipped"}]
      /\ left \in [Exec -> Nat] /\ try[e] \in Nat /\ try[e] > 0
  BY ApiAssumption DEF ApiType, Stage, AttemptEnds
<1>2. ASSUME NEW s \in {"SUCCESS", "DEAD"}, Ends(e, s)
      PROVE  /\ status' \in [Exec -> {"NONE", "PENDING", "RUNNING", "SUCCESS", "FAILED", "DEAD"}]
             /\ phase' \in [Exec -> {"none", "ready", "running", "delayed", "over", "skipped"}]
             /\ left' \in [Exec -> Nat]
             /\ \A f \in Exec \ {e} :
                  status'[f] = status[f] /\ phase'[f] = phase[f] /\ left'[f] = left[f]
             /\ phase'[e] = "over" /\ left'[e] = 0 /\ status'[e] \in {"SUCCESS", "DEAD"}
  BY <1>1, <1>2 DEF Ends
<1>3. CASE Fail(e) /\ try[e] <= maxRetries
  <2>1. backoffDelay(try[e]) \in Nat
    <3>1. try[e] \in Nat \ {0} /\ try[e] <= try[e]
      BY <1>1
    <3> QED
      BY <3>1, BackoffFacts
  <2>2. /\ status' = [status EXCEPT ![e] = "FAILED"]
        /\ phase' = [phase EXCEPT ![e] = "delayed"]
        /\ left' = [left EXCEPT ![e] = backoffDelay(try[e])]
    BY <1>1, <1>3, ApiAssumption DEF Fail
  <2> QED
    BY <1>1, <1>3, <2>1, <2>2
<1>4. CASE Fail(e) /\ ~(try[e] <= maxRetries)
  <2>1. Ends(e, "DEAD")
    BY <1>1, <1>4, ApiAssumption DEF Fail
  <2> QED
    BY <1>2, <2>1
<1> QED
  BY <1>2, <1>3, <1>4 DEF AttemptEnds

\* Every step keeps the types.
LEMMA ApiTypeStep == ApiInv /\ [Next]_vars => ApiType'
<1> SUFFICES ASSUME ApiInv, [Next]_vars PROVE ApiType'
  OBVIOUS
<1>1. ApiType /\ Created /\ \A e \in Exec : Stage(e)
  BY DEF ApiInv
<1> USE DEF ApiType
<1>2. ASSUME NEW e \in Exec, trigger(e) PROVE ApiType'
  <2>1. /\ UNCHANGED <<exists, try, left, waited>>
        /\ rows' \in Seq(Exec) /\ IsInjective(rows') /\ reader' \in ReaderRec
    BY <1>1, <1>2, CreateFacts DEF trigger
  <2>2. lock' \in 0..(Second * computeJobLockTtlSeconds)
    BY <1>2, TtlFacts DEF trigger
  <2> QED
    BY <1>1, <1>2, <2>1, <2>2 DEF trigger
<1>3. ASSUME NEW e \in Exec, NEW s \in {"SUCCESS", "DEAD", "PENDING", "FAILED"}, Schedule(e, s) PROVE ApiType'
  <2>1. /\ UNCHANGED <<exists, try, left, waited>>
        /\ rows' \in Seq(Exec) /\ IsInjective(rows') /\ reader' \in ReaderRec
    BY <1>1, <1>3, CreateFacts DEF Schedule
  <2> QED
    BY <1>1, <1>3, <2>1 DEF Schedule
<1>4. ASSUME NEW e \in Exec, Attempt(e) PROVE ApiType'
  <2>1. try' \in [Exec -> Nat] /\ left' \in [Exec -> Nat]
    BY <1>1, <1>4, ApiAssumption DEF Attempt
  <2> QED
    BY <1>1, <1>4, <2>1 DEF Attempt
<1>5. ASSUME NEW e \in Exec, AttemptEnds(e) PROVE ApiType'
  <2>1. /\ status' \in [Exec -> {"NONE", "PENDING", "RUNNING", "SUCCESS", "FAILED", "DEAD"}]
        /\ phase' \in [Exec -> {"none", "ready", "running", "delayed", "over", "skipped"}]
        /\ left' \in [Exec -> Nat]
    BY <1>1, <1>5, EndFacts
  <2> QED
    BY <1>1, <1>5, <2>1 DEF AttemptEnds
<1>6. ASSUME NEW e \in Exec, Promote(e) \/ AttemptSkipped(e) PROVE ApiType'
  BY <1>1, <1>6 DEF Promote, AttemptSkipped
<1>7. ASSUME deleteJob PROVE ApiType'
  BY <1>1, <1>7, NoRows DEF deleteJob
<1>8. ASSUME Tick PROVE ApiType'
  <2>1. lock' \in 0..(Second * computeJobLockTtlSeconds)
    BY <1>1, <1>8, TtlFacts DEF Tick
  <2>2. left' \in [Exec -> Nat]
    BY <1>1, <1>8 DEF Tick
  <2>3. waited' \in [Exec -> 0..Buffer]
    BY <1>1, <1>8, ApiAssumption DEF Tick
  <2> QED
    BY <1>1, <1>8, <2>1, <2>2, <2>3 DEF Tick
<1>9. ASSUME ReaderStep PROVE ApiType'
  <2>1. UNCHANGED <<exists, lock, rows, status, phase, try, left, manual, waited>>
    BY <1>9 DEF ReaderStep, OpenList, FindJob, QueryItems, QueryTotal, NextPage, CloseList, runVars
  <2>2. QueryItems => reader.page > 0
    BY DEF QueryItems, ApiInv, Reading
  <2>3. reader' \in ReaderRec
    BY <1>1, <1>9, <2>2, ReaderFacts DEF ReaderStep
  <2> QED
    BY <1>1, <2>1, <2>3
<1>10. CASE UNCHANGED vars
  BY <1>1, <1>10 DEF vars, runVars
<1> QED
  BY <1>2, <1>3, <1>4, <1>5, <1>6, <1>7, <1>8, <1>9, <1>10 DEF Next

\* Every step moves an execution on from stage to stage.
LEMMA StageStep ==
    ASSUME ApiInv, [Next]_vars, NEW f \in Exec
    PROVE  Stage(f)'
<1>1. ApiType /\ Created /\ Stage(f)
  BY DEF ApiInv
<1>2. /\ phase \in [Exec -> {"none", "ready", "running", "delayed", "over", "skipped"}]
      /\ try \in [Exec -> Nat] /\ left \in [Exec -> Nat] /\ maxRetries \in Nat /\ timeoutMs \in Nat
  BY <1>1, ApiAssumption DEF ApiType
<1>3. ASSUME NEW e \in Exec, trigger(e) PROVE Stage(f)'
  <2>1. UNCHANGED <<try, left, waited>> /\ phase[e] = "none"
    BY <1>3 DEF trigger, createExecution
  <2> QED
    BY <1>1, <1>2, <1>3, <2>1 DEF trigger, Stage
<1>4. ASSUME NEW e \in Exec, NEW s \in {"SUCCESS", "DEAD", "PENDING", "FAILED"}, Schedule(e, s) PROVE Stage(f)'
  <2>1. UNCHANGED <<try, left, waited>> /\ phase[e] = "none"
    BY <1>4 DEF Schedule, createExecution
  <2> QED
    BY <1>1, <1>2, <1>4, <2>1 DEF Schedule, Stage
<1>5. ASSUME NEW e \in Exec, Attempt(e) PROVE Stage(f)'
  <2>1. /\ phase[e] = "ready" /\ UNCHANGED <<waited, manual>>
        /\ phase'[f] = IF f = e THEN "running" ELSE phase[f]
        /\ try'[f] = IF f = e THEN try[f] + 1 ELSE try[f]
        /\ left'[f] = IF f = e THEN timeoutMs ELSE left[f]
    BY <1>2, <1>5 DEF Attempt
  <2>2. CASE f = e
    BY <1>1, <1>2, <2>1, <2>2 DEF Stage
  <2>3. CASE f # e
    BY <1>1, <2>1, <2>3 DEF Stage
  <2> QED
    BY <2>2, <2>3
<1>6. ASSUME NEW e \in Exec, AttemptEnds(e) PROVE Stage(f)'
  <2>1. Stage(e) /\ phase[e] = "running" /\ UNCHANGED <<try, waited, manual>>
    BY <1>6 DEF ApiInv, AttemptEnds
  <2>2. CASE f = e
    <3>1. try[e] \in Nat /\ try[e] > 0 /\ try[e] <= maxRetries + 1
      BY <1>2, <2>1 DEF Stage
    <3>2. CASE phase'[e] = "over" /\ left'[e] = 0
      BY <2>1, <2>2, <3>1, <3>2 DEF Stage
    <3>3. CASE phase'[e] = "delayed" /\ try[e] <= maxRetries /\ left'[e] = backoffDelay(try[e])
      <4>1. try[e] \in Nat \ {0} /\ maxRetries \in Nat \ {0}
        BY <1>2, <3>1, <3>3
      <4>2. backoffDelay(try[e]) <= backoffDelay(maxRetries)
        BY <3>3, <4>1, BackoffFacts
      <4> QED
        BY <1>2, <2>1, <2>2, <3>1, <3>3, <4>2 DEF Stage
    <3> QED
      BY <1>1, <1>6, <2>1, <3>2, <3>3, EndFacts
  <2>3. CASE f # e
    <3>1. phase'[f] = phase[f] /\ left'[f] = left[f]
      BY <1>1, <1>6, <2>1, <2>3, EndFacts
    <3> QED
      BY <1>1, <2>1, <3>1 DEF Stage
  <2> QED
    BY <2>2, <2>3
<1>7. ASSUME NEW e \in Exec, Promote(e) PROVE Stage(f)'
  <2>1. /\ phase[e] = "delayed" /\ left[e] = 0 /\ UNCHANGED <<try, left, waited, manual>>
        /\ phase'[f] = IF f = e THEN "ready" ELSE phase[f]
    BY <1>2, <1>7 DEF Promote
  <2> QED
    BY <1>1, <1>2, <2>1 DEF Stage
<1>11. ASSUME NEW e \in Exec, AttemptSkipped(e) PROVE Stage(f)'
  <2>1. /\ phase[e] = "ready" /\ UNCHANGED <<try, left, waited, manual>>
        /\ phase'[f] = IF f = e THEN "skipped" ELSE phase[f]
    BY <1>2, <1>11 DEF AttemptSkipped
  <2> QED
    BY <1>1, <1>2, <2>1 DEF Stage
<1>8. ASSUME deleteJob PROVE Stage(f)'
  <2>1. /\ left'[f] = 0 /\ UNCHANGED <<try, waited, manual>>
        /\ phase'[f] = IF Over(f) THEN phase[f] ELSE "over"
    BY <1>2, <1>8 DEF deleteJob
  <2>2. try[f] <= maxRetries + 1
    BY <1>1, <1>2 DEF Stage
  <2> QED
    BY <1>1, <1>2, <2>1, <2>2 DEF Stage, Over
<1>9. ASSUME Tick PROVE Stage(f)'
  <2>1. /\ UNCHANGED <<phase, try, manual>>
        /\ left'[f] = IF left[f] = 0 THEN 0 ELSE left[f] - 1
        /\ phase[f] = "none" => waited'[f] = waited[f]
    BY <1>2, <1>9 DEF Tick, ApiType
  <2>2. phase[f] = "delayed" => backoffDelay(maxRetries) \in Nat
    <3> SUFFICES ASSUME phase[f] = "delayed" PROVE backoffDelay(maxRetries) \in Nat
      OBVIOUS
    <3>1. maxRetries \in Nat \ {0} /\ maxRetries <= maxRetries
      BY <1>1, <1>2 DEF Stage
    <3> QED
      BY <3>1, BackoffFacts
  <2> QED
    BY <1>1, <1>2, <2>1, <2>2 DEF Stage
<1>10. ASSUME ReaderStep \/ UNCHANGED vars PROVE Stage(f)'
  <2>1. UNCHANGED <<phase, try, left, manual, waited>>
    BY <1>10 DEF vars, ReaderStep, OpenList, FindJob, QueryItems, QueryTotal, NextPage, CloseList,
                 runVars
  <2> QED
    BY <1>1, <2>1 DEF Stage
<1> QED
  BY <1>3, <1>4, <1>5, <1>6, <1>7, <1>8, <1>9, <1>10, <1>11 DEF Next

\* What is created stays so, and only what is created gets a row.
LEMMA CreatedStep == ApiInv /\ [Next]_vars => Created'
<1> SUFFICES ASSUME ApiInv, [Next]_vars PROVE Created'
  OBVIOUS
<1>1. /\ ApiType /\ Created /\ phase \in [Exec -> {"none", "ready", "running", "delayed", "over", "skipped"}]
      /\ ToSet(rows) \subseteq Exec /\ reader.wanted \subseteq Exec
  BY DEF ApiInv, ApiType, ReaderRec, ToSet
<1>2. ASSUME NEW e \in Exec, createExecution(e), phase'[e] # "none",
             \A f \in Exec \ {e} : phase'[f] = phase[f]
      PROVE  Created'
  <2>1. ToSet(rows') = ToSet(rows) \cup {e} /\ reader'.wanted = reader.wanted
    BY <1>1, <1>2, CreateFacts DEF SameBut
  <2> QED
    BY <1>1, <1>2, <2>1 DEF Created
<1>3. ASSUME NEW e \in Exec, trigger(e) PROVE Created'
  BY <1>1, <1>2, <1>3 DEF trigger
<1>4. ASSUME NEW e \in Exec, NEW s \in {"SUCCESS", "DEAD", "PENDING", "FAILED"}, Schedule(e, s) PROVE Created'
  BY <1>1, <1>2, <1>4 DEF Schedule
<1>5. ASSUME UNCHANGED <<rows, reader>>, \A f \in Exec : phase[f] # "none" => phase'[f] # "none"
      PROVE  Created'
  BY <1>1, <1>5 DEF Created
<1>6. ASSUME NEW e \in Exec, Attempt(e) \/ AttemptSkipped(e) \/ Promote(e) PROVE Created'
  BY <1>1, <1>5, <1>6 DEF Attempt, AttemptSkipped, Promote
<1>7. ASSUME NEW e \in Exec, AttemptEnds(e) PROVE Created'
  <2>1. Stage(e) /\ UNCHANGED <<rows, reader>>
    BY <1>7 DEF AttemptEnds, ApiInv
  <2>2. \A f \in Exec : phase[f] # "none" => phase'[f] # "none"
    BY <1>1, <1>7, <2>1, EndFacts
  <2> QED
    BY <1>5, <2>1, <2>2
<1>8. ASSUME deleteJob PROVE Created'
  <2>1. /\ ToSet(rows') = {} /\ reader' = reader
        /\ \A f \in Exec : phase[f] # "none" => phase'[f] # "none"
    BY <1>1, <1>8, NoRows DEF deleteJob, Over
  <2> QED
    BY <1>1, <2>1 DEF Created
<1>9. ASSUME Tick \/ UNCHANGED vars PROVE Created'
  BY <1>5, <1>9 DEF Tick, vars, runVars
<1>10. ASSUME ReaderStep PROVE Created'
  <2>1. UNCHANGED <<rows, phase>>
    BY <1>10 DEF ReaderStep, OpenList, FindJob, QueryItems, QueryTotal, NextPage, CloseList, runVars
  <2>2. QueryItems => reader.page > 0
    BY DEF QueryItems, ApiInv, Reading
  <2>3. Away.wanted = {}
    BY DEF Away
  <2>4. reader'.wanted \in {reader.wanted, ToSet(rows), {}}
    BY <1>1, <1>10, <2>2, <2>3, ReaderFacts DEF ReaderStep, SameBut
  <2> QED
    BY <1>1, <2>1, <2>4 DEF Created
<1> QED
  BY <1>3, <1>4, <1>6, <1>7, <1>8, <1>9, <1>10 DEF Next

\* An execution is over only with its final status, and waits only without one.
LEMMA SettledStep == ApiInv /\ [Next]_vars => Settled'
<1> SUFFICES ASSUME ApiInv, [Next]_vars, exists', NEW f \in Exec
             PROVE  /\ phase'[f] = "over" => status'[f] \in {"SUCCESS", "DEAD"}
                    /\ phase'[f] \in {"ready", "delayed", "skipped"} =>
                        status'[f] \in {"PENDING", "FAILED"}
  BY DEF Settled
<1> DEFINE Goal == /\ phase'[f] = "over" => status'[f] \in {"SUCCESS", "DEAD"}
                   /\ phase'[f] \in {"ready", "delayed", "skipped"} =>
                        status'[f] \in {"PENDING", "FAILED"}
<1>1. /\ ApiType /\ Settled
      /\ status \in [Exec -> {"NONE", "PENDING", "RUNNING", "SUCCESS", "FAILED", "DEAD"}]
      /\ phase \in [Exec -> {"none", "ready", "running", "delayed", "over", "skipped"}]
  BY DEF ApiInv, ApiType
<1>2. ASSUME NEW e \in Exec, trigger(e) PROVE Goal
  BY <1>1, <1>2 DEF trigger, createExecution, Settled
<1>3. ASSUME NEW e \in Exec, NEW s \in {"SUCCESS", "DEAD", "PENDING", "FAILED"}, Schedule(e, s)
      PROVE  Goal
  BY <1>1, <1>3 DEF Schedule, createExecution, Settled
<1>4. ASSUME NEW e \in Exec, Attempt(e) \/ AttemptSkipped(e) \/ Promote(e) PROVE Goal
  BY <1>1, <1>4 DEF Attempt, AttemptSkipped, Promote, Settled
<1>5. ASSUME NEW e \in Exec, AttemptEnds(e) PROVE Goal
  <2>1. Stage(e) /\ exists
    BY <1>5 DEF AttemptEnds, ApiInv
  <2>2. CASE f = e
    BY <1>1, <1>5, <2>1, <2>2, EndFacts
  <2>3. CASE f # e
    <3>1. status'[f] = status[f] /\ phase'[f] = phase[f]
      BY <1>1, <1>5, <2>1, <2>3, EndFacts
    <3> QED
      BY <1>1, <2>1, <3>1 DEF Settled
  <2> QED
    BY <2>2, <2>3
<1>6. ~deleteJob
  BY DEF deleteJob
<1>7. ASSUME UNCHANGED <<exists, status, phase>> PROVE Goal
  BY <1>1, <1>7 DEF Settled
<1>8. ASSUME ReaderStep PROVE UNCHANGED <<exists, status, phase>>
  BY <1>8 DEF ReaderStep, OpenList, FindJob, QueryItems, QueryTotal, NextPage, CloseList, runVars
<1> QED
  BY <1>2, <1>3, <1>4, <1>5, <1>6, <1>7, <1>8 DEF Next, Tick, vars, runVars

-----------------------------------------------------------------------------
(***************************************************************************)
(* The manual lock.                                                        *)
(***************************************************************************)

\* What an execution still takes is no less than what is left of its attempt or
\* backoff.
LEMMA RestFacts ==
    ASSUME ApiType, NEW e \in Exec, Stage(e), ~Over(e)
    PROVE  Rest(e) \in Nat /\ Rest(e) >= left[e]
<1> DEFINE i == IF phase[e] = "running" THEN try[e] - 1 ELSE try[e]
<1>1. /\ maxRetries \in Nat /\ timeoutMs \in Nat /\ left[e] \in Nat /\ try[e] \in Nat
      /\ phase[e] \in {"ready", "running", "delayed"}
  BY ApiAssumption DEF ApiType, Over
<1>2. maxRetries + 1 - try[e] \in Nat /\ i \in Nat /\ i <= maxRetries
  BY <1>1 DEF Stage
<1>3. (maxRetries + 1 - try[e]) * timeoutMs \in Nat
  <2>1. \A a, b \in Nat : a * b \in Nat
    OBVIOUS
  <2> QED
    BY <1>1, <1>2, <2>1
<1>4. backoffSum[i] \in Nat /\ backoffSum[maxRetries] \in Nat /\ backoffSum[i] <= backoffSum[maxRetries]
  BY <1>1, <1>2, BackoffFacts
<1>5. Rest(e) = (maxRetries + 1 - try[e]) * timeoutMs + left[e] + backoffSum[maxRetries] - backoffSum[i]
  BY DEF Rest
<1> HIDE DEF i
<1>6. \A a, b, c, d \in Nat : d <= c => a + b + c - d \in Nat /\ a + b + c - d >= b
  OBVIOUS
<1> QED
  BY <1>1, <1>3, <1>4, <1>5, <1>6

\* The lock keeps covering what it covers.
LEMMA LockCoversStep ==
    ASSUME ApiInv, [Next]_vars
    PROVE  LockCovers'
<1> SUFFICES ASSUME NEW f \in manual', ~Over(f)', waited'[f] < Buffer
             PROVE  Rest(f)' + (Buffer - waited'[f]) <= lock'
  BY DEF LockCovers
<1> DEFINE Goal == Rest(f)' + (Buffer - waited'[f]) <= lock'
<1>1. /\ ApiType /\ Created
      /\ phase \in [Exec -> {"none", "ready", "running", "delayed", "over", "skipped"}]
      /\ try \in [Exec -> Nat] /\ left \in [Exec -> Nat] /\ waited \in [Exec -> 0..Buffer]
      /\ manual \subseteq Exec /\ lock \in Nat
      /\ maxRetries \in Nat /\ timeoutMs \in Nat /\ Buffer \in Nat
  BY TtlFacts, ApiAssumption DEF ApiInv, ApiType
<1>2. ASSUME f \in manual, ~Over(f), waited[f] < Buffer
      PROVE  /\ Stage(f) /\ Rest(f) \in Nat /\ Rest(f) >= left[f]
             /\ Rest(f) + (Buffer - waited[f]) <= lock
  <2>1. Stage(f)
    BY <1>1, <1>2 DEF ApiInv
  <2> QED
    BY <1>1, <1>2, <2>1, RestFacts DEF ApiInv, LockCovers
<1>3. ASSUME UNCHANGED <<lock, manual, waited>>, phase'[f] = phase[f], try'[f] = try[f], left'[f] = left[f]
      PROVE  Goal
  <2>1. Rest(f)' = Rest(f) /\ ~Over(f)
    BY <1>3 DEF Rest, Over
  <2> QED
    BY <1>2, <1>3, <2>1
<1>4. ASSUME NEW e \in Exec, trigger(e) PROVE Goal
  <2>1. /\ lock = 0 /\ lock' = Second * computeJobLockTtlSeconds
        /\ phase[e] = "none" /\ UNCHANGED <<try, left, waited>>
        /\ phase' = [phase EXCEPT ![e] = "ready"] /\ manual' = manual \cup {e}
    BY <1>4 DEF trigger, createExecution
  <2>2. CASE f = e
    <3>1. try'[f] = 0 /\ left'[f] = 0 /\ waited'[f] = 0 /\ phase'[f] = "ready"
      BY <1>1, <2>1, <2>2 DEF ApiInv, Stage
    <3>2. Rest(f)' = (maxRetries + 1 - 0) * timeoutMs + 0 + backoffSum[maxRetries] - backoffSum[0]
      BY <3>1 DEF Rest
    <3>3. backoffSum[0] = 0 /\ backoffSum[maxRetries] \in Nat
      BY <1>1, BackoffFacts
    <3>4. (maxRetries + 1) * timeoutMs \in Nat /\ maxRetries + 1 - 0 = maxRetries + 1
      <4>1. \A a, b \in Nat : a * b \in Nat
        OBVIOUS
      <4> QED
        BY <1>1, <4>1
    <3>5. Rest(f)' = (maxRetries + 1) * timeoutMs + backoffSum[maxRetries]
      BY <3>2, <3>3, <3>4
    <3> QED
      BY <1>1, <2>1, <3>1, <3>3, <3>4, <3>5, TtlFacts
  <2>3. CASE f # e
    <3>1. f \in manual /\ ~Over(f) /\ waited[f] < Buffer
      BY <1>1, <2>1, <2>3 DEF Over
    <3>2. waited[f] \in Nat
      BY <1>1, <3>1
    <3> QED
      BY <1>1, <1>2, <2>1, <3>1, <3>2
  <2> QED
    BY <2>2, <2>3
<1>5. ASSUME NEW e \in Exec, NEW s \in {"SUCCESS", "DEAD", "PENDING", "FAILED"}, Schedule(e, s) PROVE Goal
  <2>1. /\ UNCHANGED <<lock, manual, try, left, waited>>
        /\ \E p \in {"over", "skipped"} : phase' = [phase EXCEPT ![e] = p]
    BY <1>5 DEF Schedule, createExecution
  <2>2. f # e
    BY <1>1, <2>1 DEF Over
  <2> QED
    BY <1>1, <1>3, <2>1, <2>2
<1>12. ASSUME NEW e \in Exec, AttemptSkipped(e) PROVE Goal
  <2>1. /\ UNCHANGED <<lock, manual, try, left, waited>>
        /\ phase' = [phase EXCEPT ![e] = "skipped"]
    BY <1>12 DEF AttemptSkipped
  <2>2. f # e
    BY <1>1, <2>1 DEF Over
  <2> QED
    BY <1>1, <1>3, <2>1, <2>2
<1>6. ASSUME NEW e \in Exec, Attempt(e) PROVE Goal
  <2>1. /\ UNCHANGED <<lock, manual, waited>> /\ phase[e] = "ready"
        /\ phase'[f] = IF f = e THEN "running" ELSE phase[f]
        /\ try'[f] = IF f = e THEN try[e] + 1 ELSE try[f]
        /\ left'[f] = IF f = e THEN timeoutMs ELSE left[f]
    BY <1>1, <1>6 DEF Attempt
  <2>2. CASE f = e
    <3>1. f \in manual /\ ~Over(f) /\ waited[f] < Buffer /\ Stage(f)
      BY <1>1, <2>1, <2>2 DEF Over, ApiInv
    <3>2. left[f] = 0 /\ try[f] \in Nat /\ try[f] <= maxRetries /\ phase[f] = "ready"
      BY <1>1, <2>1, <2>2, <3>1 DEF Stage
    <3>3. Rest(f) = (maxRetries + 1 - try[f]) * timeoutMs + 0 + backoffSum[maxRetries] - backoffSum[try[f]]
      BY <3>2 DEF Rest
    <3>4. (try[f] + 1) - 1 = try[f]
      BY <3>2
    <3>5. Rest(f)' = (maxRetries + 1 - (try[f] + 1)) * timeoutMs + timeoutMs
                       + backoffSum[maxRetries] - backoffSum[try[f]]
      BY <2>1, <2>2, <3>4 DEF Rest
    <3>6. PICK k \in Nat : k = maxRetries - try[f]
      BY <1>1, <3>2
    <3>7. maxRetries + 1 - try[f] = k + 1 /\ maxRetries + 1 - (try[f] + 1) = k
      BY <1>1, <3>2, <3>6
    <3>8. (k + 1) * timeoutMs = k * timeoutMs + timeoutMs /\ k * timeoutMs \in Nat
      <4>1. \A a, b \in Nat : a * b \in Nat /\ (a + 1) * b = a * b + b
        OBVIOUS
      <4> QED
        BY <1>1, <4>1
    <3>9. backoffSum[maxRetries] \in Nat /\ backoffSum[try[f]] \in Nat
      BY <1>1, <3>2, BackoffFacts
    <3>10. Rest(f)' = Rest(f)
      <4>1. Rest(f) = (k + 1) * timeoutMs + 0 + backoffSum[maxRetries] - backoffSum[try[f]]
        BY <3>3, <3>7
      <4>2. Rest(f)' = k * timeoutMs + timeoutMs + backoffSum[maxRetries] - backoffSum[try[f]]
        BY <3>5, <3>7
      <4>3. \A a, b, c, d, t \in Nat : a = b + t => a + 0 + c - d = b + t + c - d
        OBVIOUS
      <4>4. (k + 1) * timeoutMs \in Nat
        BY <1>1, <3>8
      <4> QED
        BY <1>1, <3>8, <3>9, <4>1, <4>2, <4>3, <4>4
    <3> QED
      BY <1>2, <2>1, <3>1, <3>10
  <2>3. CASE f # e
    BY <1>3, <2>1, <2>3
  <2> QED
    BY <2>2, <2>3
<1>7. ASSUME NEW e \in Exec, AttemptEnds(e) PROVE Goal
  <2>1. UNCHANGED <<lock, manual, waited, try>> /\ phase[e] = "running" /\ Stage(e)
    BY <1>7 DEF AttemptEnds, ApiInv
  <2>2. CASE f = e
    <3>1. f \in manual /\ ~Over(f) /\ waited[f] < Buffer
      BY <2>1, <2>2 DEF Over
    <3>2. try[f] \in Nat /\ try[f] > 0 /\ try[f] <= maxRetries + 1 /\ phase[f] = "running"
      BY <1>1, <2>1, <2>2 DEF Stage
    <3>3. phase'[f] = "delayed" /\ try[f] <= maxRetries /\ left'[f] = backoffDelay(try[f])
      BY <1>1, <1>7, <2>1, <2>2, EndFacts DEF Over
    <3>4. PICK p \in Nat : p = (maxRetries + 1 - try[f]) * timeoutMs
      <4>1. \A a, b \in Nat : a * b \in Nat
        OBVIOUS
      <4>2. maxRetries + 1 - try[f] \in Nat
        BY <1>1, <3>2
      <4> QED
        BY <1>1, <4>1, <4>2
    <3>5. Rest(f) = p + left[f] + backoffSum[maxRetries] - backoffSum[try[f] - 1]
      BY <3>2, <3>4 DEF Rest
    <3>6. Rest(f)' = p + backoffDelay(try[f]) + backoffSum[maxRetries] - backoffSum[try[f]]
      BY <2>1, <3>3, <3>4 DEF Rest
    <3>7. try[f] - 1 \in Nat /\ (try[f] - 1) + 1 = try[f]
      BY <3>2
    <3>8. /\ backoffSum[try[f]] = backoffSum[try[f] - 1] + backoffDelay(try[f])
          /\ backoffSum[try[f] - 1] \in Nat /\ backoffSum[maxRetries] \in Nat
      BY <1>1, <3>7, BackoffFacts
    <3>9. backoffDelay(try[f]) \in Nat
      <4>1. try[f] \in Nat \ {0} /\ try[f] <= try[f]
        BY <3>2
      <4> QED
        BY <4>1, BackoffFacts
    <3>10. left[f] \in Nat
      BY <1>1, <2>2
    <3>11. Rest(f)' <= Rest(f) /\ Rest(f)' \in Int
      BY <3>4, <3>5, <3>6, <3>8, <3>9, <3>10
    <3>12. waited[f] \in Nat /\ waited'[f] = waited[f]
      BY <1>1, <2>1, <2>2
    <3> QED
      BY <1>1, <1>2, <2>1, <3>1, <3>11, <3>12
  <2>3. CASE f # e
    <3>1. f \in Exec /\ phase'[f] = phase[f] /\ left'[f] = left[f]
      BY <1>1, <1>7, <2>1, <2>3, EndFacts
    <3> QED
      BY <1>3, <2>1, <3>1
  <2> QED
    BY <2>2, <2>3
<1>8. ASSUME NEW e \in Exec, Promote(e) PROVE Goal
  <2>1. /\ UNCHANGED <<lock, manual, waited, try, left>> /\ phase[e] = "delayed"
        /\ phase'[f] = IF f = e THEN "ready" ELSE phase[f]
    BY <1>1, <1>8 DEF Promote
  <2>2. CASE f = e
    <3>1. Rest(f)' = Rest(f) /\ ~Over(f)
      BY <2>1, <2>2 DEF Rest, Over
    <3> QED
      BY <1>2, <2>1, <3>1
  <2>3. CASE f # e
    BY <1>3, <2>1, <2>3
  <2> QED
    BY <2>2, <2>3
<1>9. ~deleteJob
  BY <1>1 DEF deleteJob, Over
<1>10. ASSUME Tick PROVE Goal
  <2>1. UNCHANGED <<manual, phase, try>> /\ lock' = IF lock = 0 THEN 0 ELSE lock - 1
    BY <1>10 DEF Tick
  <2>2. /\ f \in manual /\ f \in Exec /\ ~Over(f)
        /\ left'[f] = (IF left[f] = 0 THEN 0 ELSE left[f] - 1)
        /\ waited'[f] = IF phase[f] = "ready" /\ waited[f] < Buffer THEN waited[f] + 1 ELSE waited[f]
    BY <1>1, <1>10, <2>1 DEF Tick, Over
  <2>3. waited[f] \in Nat /\ waited[f] < Buffer /\ left[f] \in Nat
    BY <1>1, <2>2
  <2>4. Rest(f) \in Nat /\ Rest(f) >= left[f] /\ Rest(f) + (Buffer - waited[f]) <= lock /\ Stage(f)
    BY <1>2, <2>2, <2>3
  <2>5. lock > 0 /\ lock' = lock - 1
    BY <1>1, <2>1, <2>3, <2>4
  <2>6. CASE phase[f] = "ready"
    <3>1. left[f] = 0 /\ left'[f] = 0 /\ waited'[f] = waited[f] + 1
      BY <2>2, <2>3, <2>4, <2>6 DEF Stage
    <3>2. Rest(f)' = Rest(f)
      BY <2>1, <3>1 DEF Rest
    <3> QED
      BY <1>1, <2>3, <2>4, <2>5, <3>1, <3>2
  <2>7. CASE phase[f] # "ready"
    <3>1. phase[f] \in {"running", "delayed"}
      BY <1>1, <2>2, <2>7 DEF Over
    <3>2. left[f] > 0 /\ left'[f] = left[f] - 1 /\ waited'[f] = waited[f]
      BY <1>10, <2>2, <2>3, <2>7, <3>1 DEF Tick
    <3>3. Rest(f)' = Rest(f) - 1
      <4> DEFINE i == IF phase[f] = "running" THEN try[f] - 1 ELSE try[f]
      <4>1. PICK p \in Nat : p = (maxRetries + 1 - try[f]) * timeoutMs
        <5>1. \A a, b \in Nat : a * b \in Nat
          OBVIOUS
        <5>2. maxRetries + 1 - try[f] \in Nat
          BY <1>1, <2>2, <2>4, <3>1 DEF Stage
        <5> QED
          BY <1>1, <5>1, <5>2
      <4>2. i \in Nat
        BY <1>1, <2>2, <2>4, <3>1 DEF Stage
      <4>3. backoffSum[i] \in Nat /\ backoffSum[maxRetries] \in Nat
        BY <1>1, <4>2, BackoffFacts
      <4>4. /\ Rest(f) = p + left[f] + backoffSum[maxRetries] - backoffSum[i]
            /\ Rest(f)' = p + left'[f] + backoffSum[maxRetries] - backoffSum[i]
        BY <2>1, <4>1 DEF Rest
      <4> HIDE DEF i
      <4> QED
        BY <2>3, <3>2, <4>3, <4>4
    <3> QED
      BY <1>1, <2>3, <2>4, <2>5, <3>2, <3>3
  <2> QED
    BY <2>6, <2>7
<1>11. ASSUME ReaderStep \/ UNCHANGED vars PROVE Goal
  <2>1. UNCHANGED <<lock, phase, try, left, manual, waited>>
    BY <1>11 DEF vars, ReaderStep, OpenList, FindJob, QueryItems, QueryTotal, NextPage, CloseList,
                 runVars
  <2> QED
    BY <1>3, <2>1
<1> QED
  BY <1>4, <1>5, <1>6, <1>7, <1>8, <1>9, <1>10, <1>11, <1>12 DEF Next

\* A trigger gets the lock only when what is under way has used up the buffer.
LEMMA ManualStep == ApiInv /\ [Next]_vars => OneManualRun'
<1> SUFFICES ASSUME ApiInv, [Next]_vars,
                    NEW f \in manual', NEW g \in manual', f # g, ~Over(f)', ~Over(g)'
             PROVE  Buffer <= Max({waited'[f], waited'[g]})
  BY DEF OneManualRun
<1>1. /\ ApiType /\ ApiType'
      /\ phase \in [Exec -> {"none", "ready", "running", "delayed", "over", "skipped"}]
      /\ waited \in [Exec -> 0..Buffer] /\ waited' \in [Exec -> 0..Buffer]
      /\ manual \subseteq Exec /\ manual' \subseteq Exec /\ lock \in Nat /\ Buffer \in Nat
  <2>1. ApiType /\ ApiType'
    BY ApiTypeStep DEF ApiInv
  <2>2. waited' \in [Exec -> 0..Buffer] /\ manual' \subseteq Exec
    BY <2>1 DEF ApiType
  <2>3. lock \in Nat /\ Buffer \in Nat
    BY <2>1, TtlFacts, ApiAssumption DEF ApiType
  <2> QED
    BY <2>1, <2>2, <2>3 DEF ApiType
<1>2. waited'[f] \in Nat /\ waited'[g] \in Nat /\ f \in Exec /\ g \in Exec
  BY <1>1
<1>3. ASSUME Buffer <= waited'[f] \/ Buffer <= waited'[g]
      PROVE  Buffer <= Max({waited'[f], waited'[g]})
  <2>1. \A a, b \in Nat : Max({a, b}) \in Nat /\ Max({a, b}) >= a /\ Max({a, b}) >= b
    BY MaxFacts
  <2> QED
    BY <1>1, <1>2, <1>3, <2>1
<1>4. ASSUME f \in manual, g \in manual, ~Over(f), ~Over(g),
             waited'[f] >= waited[f], waited'[g] >= waited[g]
      PROVE  Buffer <= waited'[f] \/ Buffer <= waited'[g]
  <2>1. Buffer <= Max({waited[f], waited[g]})
    BY <1>4 DEF ApiInv, OneManualRun
  <2>2. waited[f] \in Nat /\ waited[g] \in Nat
    BY <1>1, <1>2
  <2>3. Max({waited[f], waited[g]}) \in {waited[f], waited[g]}
    BY <2>2, MaxFacts
  <2> QED
    BY <1>1, <1>2, <1>4, <2>1, <2>2, <2>3
<1>5. ASSUME NEW e \in Exec, trigger(e) PROVE Buffer <= waited'[f] \/ Buffer <= waited'[g]
  <2>1. /\ lock = 0 /\ waited' = waited
        /\ phase' = [phase EXCEPT ![e] = "ready"] /\ manual' = manual \cup {e}
    BY <1>5 DEF trigger, createExecution
  <2>2. ASSUME NEW h \in manual, ~Over(h) PROVE waited[h] >= Buffer
    <3>1. Stage(h) /\ waited[h] \in Nat /\ h \in Exec
      BY <1>1 DEF ApiInv
    <3>2. Rest(h) \in Nat
      BY <1>1, <2>2, <3>1, RestFacts
    <3>3. waited[h] < Buffer => Rest(h) + (Buffer - waited[h]) <= lock
      BY <2>2 DEF ApiInv, LockCovers
    <3> QED
      BY <1>1, <2>1, <3>1, <3>2, <3>3
  <2>3. \A h \in Exec : h # e => phase'[h] = phase[h]
    BY <1>1, <2>1
  <2>4. (f \in manual /\ ~Over(f)) \/ (g \in manual /\ ~Over(g))
    BY <1>2, <2>1, <2>3 DEF Over
  <2> QED
    BY <1>2, <2>1, <2>2, <2>4
<1>6. ASSUME manual' = manual,
             \A h \in Exec : waited'[h] >= waited[h] /\ (Over(h) => phase'[h] \in {"none", "over", "skipped"})
      PROVE  Buffer <= waited'[f] \/ Buffer <= waited'[g]
  BY <1>2, <1>4, <1>6 DEF Over
<1>7. \A h \in Exec : waited[h] \in Nat /\ waited[h] >= waited[h]
  BY <1>1
<1>8. ASSUME NEW e \in Exec, NEW s \in {"SUCCESS", "DEAD", "PENDING", "FAILED"}, Schedule(e, s)
      PROVE  Buffer <= waited'[f] \/ Buffer <= waited'[g]
  BY <1>1, <1>6, <1>7, <1>8 DEF Schedule, createExecution, Over
<1>9. ASSUME NEW e \in Exec, Attempt(e) \/ AttemptSkipped(e) \/ Promote(e)
      PROVE  Buffer <= waited'[f] \/ Buffer <= waited'[g]
  BY <1>1, <1>6, <1>7, <1>9 DEF Attempt, AttemptSkipped, Promote, Over
<1>10. ASSUME NEW e \in Exec, AttemptEnds(e)
       PROVE  Buffer <= waited'[f] \/ Buffer <= waited'[g]
  <2>1. Stage(e) /\ phase[e] = "running" /\ UNCHANGED <<manual, waited>>
    BY <1>10 DEF AttemptEnds, ApiInv
  <2>2. \A h \in Exec : Over(h) => phase'[h] \in {"none", "over", "skipped"}
    BY <1>1, <1>10, <2>1, EndFacts DEF Over
  <2> QED
    BY <1>6, <1>7, <2>1, <2>2
<1>11. ASSUME deleteJob PROVE Buffer <= waited'[f] \/ Buffer <= waited'[g]
  BY <1>1, <1>6, <1>7, <1>11 DEF deleteJob, Over
<1>12. ASSUME Tick PROVE Buffer <= waited'[f] \/ Buffer <= waited'[g]
  <2>1. UNCHANGED <<manual, phase>> /\ \A h \in Exec : waited'[h] >= waited[h]
    BY <1>1, <1>7, <1>12 DEF Tick
  <2> QED
    BY <1>6, <2>1 DEF Over
<1>13. ASSUME ReaderStep \/ UNCHANGED vars PROVE Buffer <= waited'[f] \/ Buffer <= waited'[g]
  <2>1. UNCHANGED <<manual, phase, waited>>
    BY <1>13 DEF vars, ReaderStep, OpenList, FindJob, QueryItems, QueryTotal, NextPage, CloseList,
                 runVars
  <2> QED
    BY <1>6, <1>7, <2>1 DEF Over
<1> QED
  BY <1>3, <1>5, <1>8, <1>9, <1>10, <1>11, <1>12, <1>13 DEF Next

-----------------------------------------------------------------------------
(***************************************************************************)
(* The reader.                                                             *)
(***************************************************************************)

\* A row that comes moves nothing that was wanted back to a page that was read.
LEMMA ReadingCreate ==
    ASSUME ApiInv, NEW e \in Exec, createExecution(e)
    PROVE  Reading'
<1>1. ApiType /\ Created /\ Reading /\ limit \in Nat /\ reader \in ReaderRec
  BY ApiAssumption DEF ApiInv, ApiType
<1>2. /\ exists /\ exists' /\ phase[e] = "none" /\ e \notin ToSet(rows)
      /\ ToSet(rows') = ToSet(rows) \cup {e}
      /\ \A k \in DOMAIN rows' :
           \/ rows'[k] = e
           \/ k \in DOMAIN rows /\ rows'[k] = rows[k]
           \/ k - 1 \in DOMAIN rows /\ rows'[k] = rows[k - 1]
      /\ rows \in Seq(Exec) /\ rows' \in Seq(Exec)
      /\ SameBut(reader', reader, {"torn"})
      /\ reader'.torn = (reader.torn \/ reader.at = "items")
  BY <1>1, CreateFacts DEF ApiType
<1>3. /\ reader'.at = reader.at /\ reader'.page = reader.page /\ reader'.wanted = reader.wanted
      /\ reader'.got = reader.got /\ reader'.total = reader.total
  BY <1>2 DEF SameBut
<1>4. e \notin reader.wanted
  BY <1>1, <1>2 DEF Created
<1>5. ASSUME NEW n \in Nat, Seen(n),
             NEW k \in DOMAIN rows', k <= n * limit, rows'[k] \in reader.wanted
      PROVE  rows'[k] \in reader.got
  <2>1. n * limit \in Nat /\ k \in Nat
    <3>1. \A a, b \in Nat : a * b \in Nat
      OBVIOUS
    <3> QED
      BY <1>1, <1>2, <3>1
  <2>2. rows'[k] # e
    BY <1>4, <1>5
  <2>3. CASE k \in DOMAIN rows /\ rows'[k] = rows[k]
    BY <1>5, <2>3 DEF Seen
  <2>4. CASE k - 1 \in DOMAIN rows /\ rows'[k] = rows[k - 1]
    <3>1. k - 1 <= n * limit
      BY <1>5, <2>1
    <3> QED
      BY <1>5, <2>4, <3>1 DEF Seen
  <2> QED
    BY <1>2, <2>2, <2>3, <2>4
<1>6. reader.page \in Nat
  BY <1>1 DEF ReaderRec
<1>7. ASSUME reader.at \in {"job", "both", "items"}
      PROVE  reader'.page > 0 /\ Seen(reader.page - 1)'
  <2>1. reader.page > 0 /\ Seen(reader.page - 1)
    BY <1>1, <1>7 DEF Reading
  <2>2. reader.page - 1 \in Nat
    BY <1>6, <2>1
  <2> QED
    BY <1>3, <1>5, <2>1, <2>2 DEF Seen
<1>8. ASSUME reader.at \in {"total", "answer"}
      PROVE  reader'.page > 0 /\ Seen(reader.page)'
  <2>1. reader.page > 0 /\ Seen(reader.page)
    BY <1>1, <1>8 DEF Reading
  <2> QED
    BY <1>3, <1>5, <1>6, <2>1 DEF Seen
<1>9. reader.wanted \subseteq ToSet(rows')
  BY <1>1, <1>2 DEF Reading
<1>10. ~(reader'.at = "items" /\ ~reader'.torn)
  BY <1>2, <1>3
<1>11. ASSUME reader.at = "answer", ~reader'.torn, reader.total <= reader.page * limit
       PROVE  reader.wanted \subseteq reader.got
  BY <1>1, <1>2, <1>11 DEF Reading
<1>12. PagingMissesNothing'
  BY <1>1, <1>2, <1>3 DEF Reading, PagingMissesNothing
<1> QED
  BY <1>3, <1>7, <1>8, <1>9, <1>10, <1>11, <1>12 DEF Reading

\* The reader's own steps.
LEMMA ReadingRead ==
    ASSUME ApiInv, ReaderStep
    PROVE  Reading'
<1>1. /\ ApiType /\ Reading /\ limit \in Nat \ {0} /\ reader \in ReaderRec
      /\ rows \in Seq(Exec) /\ Len(rows) \in Nat /\ DOMAIN rows = 1..Len(rows)
      /\ reader.page \in Nat /\ reader.total \in Nat
  BY ApiAssumption DEF ApiInv, ApiType, ReaderRec
<1>2. UNCHANGED <<exists, rows>>
  BY DEF ReaderStep, OpenList, FindJob, QueryItems, QueryTotal, NextPage, CloseList
<1>3. \A a, b \in Nat : a * b \in Nat
  OBVIOUS
<1>4. CASE OpenList
  <2>1. reader'.at = "job" /\ reader'.page = 1 /\ reader'.wanted = ToSet(rows)
    BY <1>1, <1>4, ReaderFacts
  <2>2. Seen(reader.page - 1)'
    <3>1. \A i \in DOMAIN rows : ~(i <= (1 - 1) * limit)
      BY <1>1
    <3> QED
      BY <1>2, <2>1, <3>1 DEF Seen
  <2> QED
    BY <1>2, <2>1, <2>2 DEF Reading, PagingMissesNothing
<1>5. CASE FindJob
  <2>1. /\ reader.at = "job" /\ reader'.at \in {"both", "404"}
        /\ reader'.page = reader.page /\ reader'.wanted = reader.wanted /\ reader'.got = reader.got
    BY <1>1, <1>5, ReaderFacts DEF SameBut
  <2>2. reader.page > 0 /\ Seen(reader.page - 1)
    BY <1>1, <2>1 DEF Reading
  <2>3. reader'.page > 0 /\ Seen(reader.page - 1)'
    BY <1>2, <2>1, <2>2 DEF Seen
  <2> QED
    BY <1>1, <1>2, <2>1, <2>3 DEF Reading, PagingMissesNothing
<1>6. CASE QueryItems
  <2>1. reader.page > 0 /\ Seen(reader.page - 1)
    BY <1>1, <1>6 DEF QueryItems, Reading
  <2>2. /\ \/ reader.at = "both" /\ reader'.at = "total"
           \/ reader.at = "items" /\ reader'.at = "answer"
        /\ reader'.got = reader.got \cup ToSet(pageItems(reader.page))
        /\ reader'.page = reader.page /\ reader'.wanted = reader.wanted
        /\ reader'.total = reader.total /\ reader'.torn = reader.torn
    BY <1>1, <1>6, <2>1, ReaderFacts DEF SameBut
  <2>3. PICK p \in Nat \ {0} : p = reader.page
    BY <1>1, <2>1
  <2>4. ASSUME NEW i \in DOMAIN rows, i <= p * limit, rows[i] \in reader.wanted
        PROVE  rows[i] \in reader'.got
    <3>1. CASE i <= (p - 1) * limit
      BY <2>1, <2>2, <2>3, <2>4, <3>1 DEF Seen
    <3>2. CASE ~(i <= (p - 1) * limit)
      <4>1. i > (p - 1) * limit
        <5>1. (p - 1) * limit \in Nat /\ i \in Nat
          BY <1>1, PageFacts
        <5> QED
          BY <3>2, <5>1
      <4>2. rows[i] \in ToSet(pageItems(p))
        BY <1>1, <2>4, <4>1, PageFacts
      <4> QED
        BY <2>2, <2>3, <4>2
    <3> QED
      BY <3>1, <3>2
  <2>5. reader'.page > 0 /\ Seen(reader.page)'
    BY <1>2, <2>1, <2>2, <2>3, <2>4 DEF Seen
  <2>6. exists => reader.wanted \subseteq ToSet(rows)
    BY <1>1 DEF Reading
  <2>7. ASSUME reader'.at = "answer", exists, ~reader.torn, reader.total <= p * limit
        PROVE  reader.wanted \subseteq reader'.got
    <3>1. reader.total = Len(rows)
      BY <1>1, <2>2, <2>7 DEF Reading
    <3>2. p * limit \in Nat
      BY <1>1, <1>3
    <3>3. \A i \in DOMAIN rows : i <= p * limit
      BY <1>1, <2>7, <3>1, <3>2
    <3> QED
      BY <2>4, <2>6, <2>7, <3>3 DEF ToSet
  <2> QED
    BY <1>2, <2>2, <2>3, <2>5, <2>6, <2>7 DEF Reading, PagingMissesNothing
<1>7. CASE QueryTotal
  <2>1. /\ \/ reader.at = "both" /\ reader'.at = "items"
           \/ reader.at = "total" /\ reader'.at = "answer"
        /\ reader'.total = Len(rows)
        /\ reader'.page = reader.page /\ reader'.wanted = reader.wanted
        /\ reader'.got = reader.got /\ reader'.torn = reader.torn
    BY <1>1, <1>7, ReaderFacts DEF SameBut
  <2>2. exists => reader.wanted \subseteq ToSet(rows)
    BY <1>1 DEF Reading
  <2>3. CASE reader.at = "both" /\ reader'.at = "items"
    <3>1. reader.page > 0 /\ Seen(reader.page - 1)
      BY <1>1, <2>3 DEF Reading
    <3>2. reader'.page > 0 /\ Seen(reader.page - 1)'
      BY <1>2, <2>1, <3>1 DEF Seen
    <3> QED
      BY <1>2, <2>1, <2>2, <2>3, <3>2 DEF Reading, PagingMissesNothing
  <2>4. CASE reader.at = "total" /\ reader'.at = "answer"
    <3>1. reader.page > 0 /\ Seen(reader.page)
      BY <1>1, <2>4 DEF Reading
    <3>2. reader'.page > 0 /\ Seen(reader.page)'
      BY <1>2, <2>1, <3>1 DEF Seen
    <3>3. ASSUME exists, Len(rows) <= reader.page * limit
          PROVE  reader.wanted \subseteq reader.got
      <4>1. reader.page * limit \in Nat
        BY <1>1, <1>3
      <4>2. \A i \in DOMAIN rows : i <= reader.page * limit
        BY <1>1, <3>3, <4>1
      <4> QED
        BY <2>2, <3>1, <3>3, <4>2 DEF Seen, ToSet
    <3> QED
      BY <1>2, <2>1, <2>2, <2>4, <3>2, <3>3 DEF Reading, PagingMissesNothing
  <2> QED
    BY <2>1, <2>3, <2>4
<1>8. CASE NextPage
  <2>1. /\ reader.at = "answer"
        /\ \/ reader'.at = "job" /\ reader'.page = reader.page + 1
           \/ /\ reader'.at = "end" /\ reader'.page = reader.page
              /\ ~(reader.page < totalPages(reader.total))
        /\ reader'.wanted = reader.wanted /\ reader'.got = reader.got /\ reader'.torn = reader.torn
    BY <1>1, <1>8, ReaderFacts DEF SameBut
  <2>2. (exists => reader.wanted \subseteq ToSet(rows)) /\ reader.page > 0 /\ Seen(reader.page)
    BY <1>1, <2>1 DEF Reading
  <2>3. CASE reader'.at = "job" /\ reader'.page = reader.page + 1
    <3>1. (reader.page + 1) - 1 = reader.page /\ reader.page + 1 > 0
      BY <1>1
    <3>2. reader'.page > 0 /\ Seen(reader.page - 1)'
      BY <1>2, <2>1, <2>2, <2>3, <3>1 DEF Seen
    <3> QED
      BY <1>2, <2>1, <2>2, <2>3, <3>2 DEF Reading, PagingMissesNothing
  <2>4. CASE reader'.at = "end" /\ ~(reader.page < totalPages(reader.total))
    <3>1. reader.total <= reader.page * limit
      <4>1. /\ CeilDiv(reader.total, limit) \in Nat
            /\ limit * CeilDiv(reader.total, limit) >= reader.total
        BY <1>1, CeilFacts
      <4>2. CeilDiv(reader.total, limit) <= reader.page
        BY <1>1, <2>4, <4>1 DEF totalPages
      <4>3. \A a, b, c \in Nat : b <= c => a * b \in Nat /\ c * a \in Nat /\ a * b <= c * a
        OBVIOUS
      <4>4. /\ limit * CeilDiv(reader.total, limit) \in Nat /\ reader.page * limit \in Nat
            /\ limit * CeilDiv(reader.total, limit) <= reader.page * limit
        BY <1>1, <4>1, <4>2, <4>3
      <4> QED
        BY <1>1, <4>1, <4>4
    <3>2. exists /\ ~reader.torn => reader.wanted \subseteq reader.got
      BY <1>1, <2>1, <3>1 DEF Reading
    <3> QED
      BY <1>2, <2>1, <2>2, <2>4, <3>2 DEF Reading, PagingMissesNothing
  <2> QED
    BY <2>1, <2>3, <2>4
<1>9. CASE CloseList
  <2>1. reader'.at = "none" /\ reader'.wanted = {}
    BY <1>1, <1>9, ReaderFacts DEF Away
  <2> QED
    BY <2>1 DEF Reading, PagingMissesNothing
<1> QED
  BY <1>4, <1>5, <1>6, <1>7, <1>8, <1>9 DEF ReaderStep

\* Every step keeps what the reader relies on.
LEMMA ReadingStep == ApiInv /\ [Next]_vars => Reading'
<1> SUFFICES ASSUME ApiInv, [Next]_vars PROVE Reading'
  OBVIOUS
<1>1. ASSUME NEW e \in Exec, createExecution(e) PROVE Reading'
  BY <1>1, ReadingCreate
<1>2. ASSUME deleteJob PROVE Reading'
  <2>1. exists' = FALSE /\ rows' = <<>> /\ reader' = reader /\ DOMAIN rows' = {}
    BY <1>2 DEF deleteJob
  <2>2. Reading
    BY DEF ApiInv
  <2> QED
    BY <2>1, <2>2 DEF Reading, Seen, PagingMissesNothing
<1>3. ASSUME UNCHANGED <<exists, rows, reader>> PROVE Reading'
  BY <1>3 DEF ApiInv, Reading, Seen, PagingMissesNothing
<1>4. ASSUME ReaderStep PROVE Reading'
  BY <1>4, ReadingRead
<1> QED
  BY <1>1, <1>2, <1>3, <1>4
     DEF Next, trigger, Schedule, Attempt, AttemptSkipped, AttemptEnds, Promote, Tick, vars

-----------------------------------------------------------------------------
(***************************************************************************)
(* The theorems.                                                           *)
(***************************************************************************)

\* The invariant holds in every reachable state.
LEMMA ApiInvariant == Spec => []ApiInv
<1>1. ApiInv /\ [Next]_vars => ApiInv'
  <2> SUFFICES ASSUME ApiInv, [Next]_vars PROVE ApiInv'
    OBVIOUS
  <2>1. \A e \in Exec : Stage(e)'
    BY StageStep
  <2> QED
    BY <2>1, ApiTypeStep, CreatedStep, SettledStep, LockCoversStep, ManualStep, ReadingStep DEF ApiInv
<1> QED
  BY <1>1, ApiInit, PTL DEF Spec

\* ApiTypeOK in every reachable state: in particular no execution begins more
\* attempts than its retries allow, and no backoff is longer than the last one.
THEOREM ApiTypeCorrect == Spec => []ApiTypeOK
<1>1. ApiInv => ApiTypeOK
  <2> SUFFICES ASSUME ApiInv PROVE ApiTypeOK
    OBVIOUS
  <2>1. ApiType /\ \A e \in Exec : Stage(e)
    BY DEF ApiInv
  <2>2. try \in [Exec -> 0..(maxRetries + 1)]
    <3>1. ASSUME NEW e \in Exec PROVE try[e] \in 0..(maxRetries + 1)
      <4>1. Stage(e) /\ try[e] \in Nat /\ phase[e] \in {"none", "ready", "running", "delayed", "over", "skipped"}
        BY <2>1 DEF ApiType
      <4> QED
        BY <4>1, ApiAssumption DEF Stage
    <3> QED
      BY <2>1, <3>1 DEF ApiType
  <2>3. ASSUME NEW e \in Exec
        PROVE  left[e] <= (IF phase[e] = "running" THEN timeoutMs
                           ELSE IF phase[e] = "delayed" THEN backoffDelay(maxRetries) ELSE 0)
    <3>1. Stage(e) /\ phase[e] \in {"none", "ready", "running", "delayed", "over", "skipped"}
      BY <2>1 DEF ApiType
    <3> QED
      BY <3>1 DEF Stage
  <2>4. /\ ToSet(rows) \subseteq Exec
        /\ reader.wanted \subseteq Exec /\ reader.got \subseteq Exec
    BY <2>1 DEF ApiType, ToSet, ReaderRec
  <2> QED
    BY <2>1, <2>2, <2>3, <2>4 DEF ApiType, ApiTypeOK
<1> QED
  BY <1>1, ApiInvariant, PTL

\* "Worst-case wall time for all attempts" (lock-ttl.ts): whatever the timeout,
\* the retries, the backoff and the buffer, the lock of a manual trigger keeps a
\* second execution out until the first is over or has waited for workers as
\* long as the buffer.
THEOREM OneManualRunAtATime == Spec => []OneManualRun
<1>1. ApiInv => OneManualRun
  BY DEF ApiInv
<1> QED
  BY <1>1, ApiInvariant, PTL

\* listExecutions: for every page size and every number of executions, whoever
\* follows totalPages has seen all that was there at the beginning, unless a
\* row came between a count and its page.
THEOREM PagingIsComplete == Spec => []PagingMissesNothing
<1>1. ApiInv => PagingMissesNothing
  BY DEF ApiInv, Reading
<1> QED
  BY <1>1, ApiInvariant, PTL

\* getJobStats: once all executions have ended, each is counted once, as a
\* success or as dead; the exceptions are those skipped because the job was
\* disabled, which are counted as failed or not at all.
THEOREM StatsAreExact == Spec => []StatsAddUp
<1>1. ApiInv => StatsAddUp
  <2> DEFINE All == ToSet(rows)
             S == {e \in All : status[e] \in {"SUCCESS"}}
             D == {e \in All : status[e] \in {"DEAD"}}
             K == {e \in All : phase[e] = "skipped"}
             P == {e \in K : status[e] = "PENDING"}
             C == {e \in All : status[e] \in {"SUCCESS", "FAILED", "DEAD"}}
  <2> SUFFICES ASSUME ApiInv, exists, \A e \in Exec : Over(e)
               PROVE  /\ Cardinality(S) + Cardinality(D) + Cardinality(K) = Len(rows)
                      /\ Cardinality(C) = Len(rows) - Cardinality(P)
    BY DEF StatsAddUp, successCount, deadCount, totalRuns, Counted
  <2>1. /\ rows \in Seq(Exec) /\ IsInjective(rows)
        /\ Len(rows) \in Nat /\ DOMAIN rows = 1..Len(rows)
    BY DEF ApiInv, ApiType
  <2>2. IsFiniteSet(All) /\ Cardinality(All) = Len(rows)
    <3>1. rows \in Bijection(1..Len(rows), All)
      BY <2>1 DEF Bijection, Injection, Surjection, IsInjective, ToSet
    <3>2. ExistsBijection(1..Len(rows), All)
      BY <3>1 DEF ExistsBijection
    <3> QED
      BY <2>1, <3>2, FS_NatBijection, FS_CountingElements
  <2>3. ASSUME NEW e \in All
        PROVE  \/ phase[e] = "over" /\ status[e] \in {"SUCCESS", "DEAD"}
               \/ phase[e] = "skipped" /\ status[e] \in {"PENDING", "FAILED"}
    <3>1. e \in Exec /\ phase[e] # "none"
      BY <2>1 DEF ApiInv, Created, ToSet
    <3> QED
      BY <3>1 DEF ApiInv, Settled, Over
  <2>4. ASSUME NEW A \in SUBSET All, NEW B \in SUBSET All, A \cap B = {}
        PROVE  /\ Cardinality(A) \in Nat /\ Cardinality(B) \in Nat
               /\ Cardinality(A \cup B) = Cardinality(A) + Cardinality(B)
    <3>1. IsFiniteSet(A) /\ IsFiniteSet(B)
      BY <2>2, FS_Subset
    <3>2. Cardinality(A) \in Nat /\ Cardinality(B) \in Nat /\ Cardinality({}) = 0
      BY <3>1, FS_CardinalityType, FS_EmptySet
    <3>3. Cardinality(A \cup B) = Cardinality(A) + Cardinality(B) - Cardinality(A \cap B)
      BY <3>1, FS_Union
    <3>4. Cardinality(A \cap B) = 0
      BY <2>4, <3>2
    <3> QED
      BY <3>2, <3>3, <3>4
  <2>5. /\ S \in SUBSET All /\ D \in SUBSET All /\ K \in SUBSET All
        /\ C \in SUBSET All /\ P \in SUBSET All
    OBVIOUS
  <2>6. /\ S \cap D = {} /\ (S \cup D) \cap K = {} /\ (S \cup D) \cup K = All
        /\ C \cap P = {} /\ C \cup P = All
    BY <2>3
  <2> HIDE DEF All, S, D, K, P, C
  <2>7. Cardinality(S) + Cardinality(D) + Cardinality(K) = Len(rows)
    <3>1. S \cup D \in SUBSET All
      BY <2>5
    <3>2. Cardinality(S \cup D) = Cardinality(S) + Cardinality(D)
      BY <2>4, <2>5, <2>6
    <3>3. Cardinality((S \cup D) \cup K) = Cardinality(S \cup D) + Cardinality(K)
      BY <2>4, <2>5, <2>6, <3>1
    <3> QED
      BY <2>2, <2>6, <3>2, <3>3
  <2>8. Cardinality(C) = Len(rows) - Cardinality(P)
    <3>1. /\ Cardinality(C) \in Nat /\ Cardinality(P) \in Nat
          /\ Cardinality(C \cup P) = Cardinality(C) + Cardinality(P)
      BY <2>4, <2>5, <2>6
    <3>2. Cardinality(C) + Cardinality(P) = Len(rows)
      BY <2>2, <2>6, <3>1
    <3> QED
      BY <3>1, <3>2
  <2> QED
    BY <2>7, <2>8
<1> QED
  BY <1>1, ApiInvariant, PTL
=============================================================================
