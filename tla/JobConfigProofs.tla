--------------------------- MODULE JobConfigProofs ---------------------------
(***************************************************************************)
(* Machine-checked proofs about JobConfig, for every set of jobs, contents *)
(* and requests, whether or not requests may die.                          *)
(***************************************************************************)
EXTENDS JobConfig, TLAPS

\* The claim is made for all jobs but X: the circuit breaker of the worker
\* writes rows without a word to Redis (WorkerProofs).
CopyIsRowBut(X) ==
    \A j \in Job \ X : ~InFlight(j) /\ j \notin raced => cache[j] \in {None, db[j]}

\* What makes it inductive: the copy a request has still to SET is the row,
\* unless another request on the job came between.
OwedIsRowBut(X) ==
    \A w \in Writer :
        owesSet[w] # None /\ owesSet[w].job \notin raced \cup X =>
            owesSet[w].config = db[owesSet[w].job]

ConfigInv(X) == ConfigTypeOK /\ OwedIsRowBut(X) /\ CopyIsRowBut(X)

-----------------------------------------------------------------------------
\* What a row or a copy is, as the provers need it.
LEMMA CopyFacts ==
    ASSUME NEW x \in Copy \cup {None}, x # None
    PROVE  x.job \in Job /\ x.config \in Config
  BY DEF Copy

\* The cached copy of a row is a copy of that job and of that configuration.
LEMMA CopyOfType ==
    ASSUME NEW j \in Job, NEW c \in Config
    PROVE  /\ CopyOf(j, c) \in Copy /\ CopyOf(j, c) # None
           /\ CopyOf(j, c).job = j /\ CopyOf(j, c).config = c
  BY ConfigAssumption DEF CopyOf, Copy

\* The rows after bulkSetEnabled.
LEMMA BulkRows ==
    ASSUME db \in [Job -> Config \cup {None}], NEW S \in SUBSET Job, NEW b \in BOOLEAN,
           db' = [j \in Job |-> IF j \in S /\ db[j] # None
                                THEN [db[j] EXCEPT !.enabled = b] ELSE db[j]]
    PROVE  /\ db' \in [Job -> Config \cup {None}]
           /\ \A j \in Job : db[j] = None => db'[j] = None
           /\ \A j \in Job \ S : db'[j] = db[j]
  BY DEF Config

\* The step every writing request begins with, seen from the stores.
LEMMA BeginType ==
    ASSUME ConfigTypeOK, NEW w \in Writer, NEW S \in SUBSET Job,
           NEW del \in SUBSET Job, NEW copy \in Copy \cup {None}, Begin(w, S, del, copy)
    PROVE  /\ owesDel' \in [Writer -> SUBSET Job]
           /\ owesSet' \in [Writer -> Copy \cup {None}]
           /\ raced' \subseteq Job
  BY DEF ConfigTypeOK, Begin

\* The initial state, and every step of the API and of Redis, has the types.
LEMMA ConfigTypeInit == ConfigInit => ConfigTypeOK
  BY DEF ConfigInit, ConfigTypeOK

\* Every step of a request, and every expiry, keeps the types.
LEMMA ConfigTypeStep == ConfigTypeOK /\ [ConfigNext]_configVars => ConfigTypeOK'
<1> SUFFICES ASSUME ConfigTypeOK, [ConfigNext]_configVars PROVE ConfigTypeOK'
  OBVIOUS
<1>1. ASSUME NEW w \in Writer, NEW j \in Job, NEW c \in Config,
             createJob(w, j, c) \/ updateJob(w, j, c)
      PROVE  ConfigTypeOK'
  <2>1. \E del \in SUBSET Job : Begin(w, {j}, del, CopyOf(j, c))
    BY <1>1 DEF createJob, updateJob
  <2>2. /\ owesDel' \in [Writer -> SUBSET Job]
        /\ owesSet' \in [Writer -> Copy \cup {None}]
        /\ raced' \subseteq Job
    BY <2>1, BeginType, CopyOfType
  <2>3. db' = [db EXCEPT ![j] = c] /\ j \notin retired /\ UNCHANGED <<retired, cache>>
    BY <1>1 DEF createJob, updateJob, ConfigTypeOK
  <2> QED
    BY <2>2, <2>3 DEF ConfigTypeOK
<1>2. ASSUME NEW w \in Writer, NEW j \in Job, deleteJob(w, j) PROVE ConfigTypeOK'
  <2>1. /\ owesDel' \in [Writer -> SUBSET Job]
        /\ owesSet' \in [Writer -> Copy \cup {None}]
        /\ raced' \subseteq Job
    BY <1>2, BeginType DEF deleteJob
  <2> QED
    BY <1>2, <2>1 DEF ConfigTypeOK, deleteJob
<1>3. ASSUME NEW w \in Writer, NEW S \in (SUBSET Job) \ {{}}, NEW b \in BOOLEAN,
             bulkSetEnabled(w, S, b)
      PROVE  ConfigTypeOK'
  <2>1. /\ owesDel' \in [Writer -> SUBSET Job]
        /\ owesSet' \in [Writer -> Copy \cup {None}]
        /\ raced' \subseteq Job
    BY <1>3, BeginType DEF bulkSetEnabled
  <2>2. /\ db' \in [Job -> Config \cup {None}]
        /\ \A j \in Job : db[j] = None => db'[j] = None
    BY <1>3, BulkRows DEF bulkSetEnabled, ConfigTypeOK
  <2> QED
    BY <1>3, <2>1, <2>2 DEF ConfigTypeOK, bulkSetEnabled
<1>4. ASSUME NEW w \in Writer, NEW j \in Job, invalidateJobConfig(w, j) PROVE ConfigTypeOK'
  BY <1>4 DEF ConfigTypeOK, invalidateJobConfig
<1>5. ASSUME NEW w \in Writer, cacheJobConfig(w) PROVE ConfigTypeOK'
  <2>1. owesSet[w].job \in Job /\ owesSet[w].config \in Config
    BY <1>5, CopyFacts DEF ConfigTypeOK, cacheJobConfig
  <2> QED
    BY <1>5, <2>1 DEF ConfigTypeOK, cacheJobConfig
<1>6. ASSUME NEW w \in Writer, RequestDies(w) PROVE ConfigTypeOK'
  <2>1. owesSet[w] # None => owesSet[w].job \in Job
    BY CopyFacts DEF ConfigTypeOK
  <2> QED
    BY <1>6, <2>1 DEF ConfigTypeOK, RequestDies
<1>7. ASSUME NEW j \in Job, ExpireCache(j) PROVE ConfigTypeOK'
  BY <1>7 DEF ConfigTypeOK, ExpireCache
<1>8. CASE UNCHANGED configVars
  BY <1>8 DEF ConfigTypeOK, configVars
<1> QED
  BY <1>1, <1>2, <1>3, <1>4, <1>5, <1>6, <1>7, <1>8 DEF ConfigNext, RedisStep

\* The type invariant of the job table, its copy and the requests under way.
THEOREM ConfigTypeCorrect == ConfigSpec => []ConfigTypeOK
  BY ConfigTypeInit, ConfigTypeStep, PTL DEF ConfigSpec

-----------------------------------------------------------------------------
\* A request that writes the jobs S and owes Redis something for each of them:
\* requests on S that were under way have raced with it, and until it is over
\* nothing is claimed about S.
LEMMA WriteStep ==
    ASSUME NEW X, ConfigInv(X), NEW w \in Writer, NEW S \in SUBSET Job, NEW del \in SUBSET S,
           NEW copy \in Copy \cup {None}, Begin(w, S, del, copy), UNCHANGED cache,
           \A j \in Job \ S : db'[j] = db[j],
           \A j \in S : j \in del \/ (copy # None /\ copy.job = j),
           copy # None => copy.job \in S /\ copy.config = db'[copy.job]
    PROVE  OwedIsRowBut(X)' /\ CopyIsRowBut(X)'
<1>1. /\ \A v \in Writer : owesDel'[v] = IF v = w THEN del ELSE owesDel[v]
      /\ \A v \in Writer : owesSet'[v] = IF v = w THEN copy ELSE owesSet[v]
      /\ raced' = (raced \ S) \cup {j \in S : InFlight(j)}
      /\ owesDel[w] = {} /\ owesSet[w] = None
  BY DEF Begin, Busy, ConfigInv, ConfigTypeOK
<1>2. \A v \in Writer : owesSet[v] # None => owesSet[v].job \in Job
  BY CopyFacts DEF ConfigInv, ConfigTypeOK
<1>3. OwedIsRowBut(X)'
  <2> SUFFICES ASSUME NEW v \in Writer, owesSet'[v] # None, owesSet'[v].job \notin raced' \cup X
               PROVE  owesSet'[v].config = db'[owesSet'[v].job]
    BY DEF OwedIsRowBut
  <2>1. CASE v = w
    BY <1>1, <2>1
  <2>2. CASE v # w
    <3>1. owesSet'[v] = owesSet[v] /\ owesSet[v] # None
      BY <1>1, <2>2
    <3>2. InFlight(owesSet[v].job)
      BY <3>1 DEF InFlight
    <3>3. owesSet[v].job \in Job \ S /\ owesSet[v].job \notin raced \cup X
      BY <1>1, <1>2, <3>1, <3>2
    <3> QED
      BY <3>1, <3>3 DEF ConfigInv, OwedIsRowBut
  <2> QED
    BY <2>1, <2>2
<1>4. CopyIsRowBut(X)'
  <2> SUFFICES ASSUME NEW j \in Job \ X, ~InFlight(j)', j \notin raced'
               PROVE  cache[j] \in {None, db'[j]}
    BY DEF CopyIsRowBut
  <2>1. j \notin S
    BY <1>1 DEF InFlight
  <2>2. ~InFlight(j)
    BY <1>1 DEF InFlight
  <2> QED
    BY <1>1, <2>1, <2>2 DEF ConfigInv, CopyIsRowBut
<1> QED
  BY <1>3, <1>4

\* Every step keeps the invariant about copies and the requests that still owe Redis a write.
LEMMA ConfigInvStep ==
    ASSUME NEW X, ConfigInv(X), [ConfigNext]_configVars
    PROVE  ConfigInv(X)'
<1> SUFFICES OwedIsRowBut(X)' /\ CopyIsRowBut(X)'
  BY ConfigTypeStep DEF ConfigInv
<1> ConfigTypeOK /\ OwedIsRowBut(X) /\ CopyIsRowBut(X)
  BY DEF ConfigInv
<1>0. \A v \in Writer : owesSet[v] # None => owesSet[v].job \in Job
  BY CopyFacts DEF ConfigTypeOK
<1>1. ASSUME NEW w \in Writer, NEW j \in Job, NEW c \in Config,
             createJob(w, j, c) \/ updateJob(w, j, c)
      PROVE  OwedIsRowBut(X)' /\ CopyIsRowBut(X)'
  <2>1. PICK del \in SUBSET {j} : Begin(w, {j}, del, CopyOf(j, c))
    BY <1>1 DEF createJob, updateJob
  <2>2. db' = [db EXCEPT ![j] = c] /\ UNCHANGED cache
    BY <1>1 DEF createJob, updateJob
  <2>3. /\ \A k \in Job \ {j} : db'[k] = db[k]
        /\ db'[j] = c
    BY <2>2 DEF ConfigTypeOK
  <2> QED
    BY <2>1, <2>2, <2>3, WriteStep, CopyOfType
<1>2. ASSUME NEW w \in Writer, NEW j \in Job, deleteJob(w, j)
      PROVE  OwedIsRowBut(X)' /\ CopyIsRowBut(X)'
  <2>1. \A k \in Job \ {j} : db'[k] = db[k]
    BY <1>2 DEF deleteJob, ConfigTypeOK
  <2> QED
    BY <1>2, <2>1, WriteStep DEF deleteJob
<1>3. ASSUME NEW w \in Writer, NEW S \in (SUBSET Job) \ {{}}, NEW b \in BOOLEAN,
             bulkSetEnabled(w, S, b)
      PROVE  OwedIsRowBut(X)' /\ CopyIsRowBut(X)'
  <2>1. \A k \in Job \ S : db'[k] = db[k]
    BY <1>3, BulkRows DEF bulkSetEnabled, ConfigTypeOK
  <2> QED
    BY <1>3, <2>1, WriteStep DEF bulkSetEnabled
<1>4. ASSUME NEW w \in Writer, NEW j \in Job, invalidateJobConfig(w, j)
      PROVE  OwedIsRowBut(X)' /\ CopyIsRowBut(X)'
  <2>1. OwedIsRowBut(X)'
    BY <1>4 DEF invalidateJobConfig, OwedIsRowBut
  <2>2. /\ cache'[j] = None /\ \A k \in Job \ {j} : cache'[k] = cache[k]
        /\ \A v \in Writer : owesDel[v] \subseteq owesDel'[v] \cup {j}
        /\ UNCHANGED <<db, raced, owesSet>>
    BY <1>4 DEF invalidateJobConfig, ConfigTypeOK
  <2>3. \A k \in Job \ {j} : InFlight(k) => InFlight(k)'
    BY <2>2 DEF InFlight
  <2>4. CopyIsRowBut(X)'
    BY <2>2, <2>3 DEF CopyIsRowBut
  <2> QED
    BY <2>1, <2>4
<1>5. ASSUME NEW w \in Writer, cacheJobConfig(w)
      PROVE  OwedIsRowBut(X)' /\ CopyIsRowBut(X)'
  <2> DEFINE j == owesSet[w].job
  <2>1. /\ owesSet[w] # None /\ j \in Job
        /\ \A v \in Writer : owesSet'[v] = IF v = w THEN None ELSE owesSet[v]
        /\ cache'[j] = owesSet[w].config /\ \A k \in Job \ {j} : cache'[k] = cache[k]
        /\ UNCHANGED <<db, raced, owesDel>>
    BY <1>0, <1>5 DEF cacheJobConfig, ConfigTypeOK
  <2>2. OwedIsRowBut(X)'
    BY <2>1 DEF OwedIsRowBut
  <2>3. \A k \in Job \ {j} : InFlight(k) => InFlight(k)'
    BY <2>1 DEF InFlight
  <2>4. j \notin raced \cup X => cache'[j] = db[j]
    BY <2>1 DEF OwedIsRowBut
  <2>5. CopyIsRowBut(X)'
    BY <2>1, <2>3, <2>4 DEF CopyIsRowBut
  <2> QED
    BY <2>2, <2>5
<1>6. ASSUME NEW w \in Writer, RequestDies(w)
      PROVE  OwedIsRowBut(X)' /\ CopyIsRowBut(X)'
  <2>1. /\ \A v \in Writer : v # w => owesSet'[v] = owesSet[v] /\ owesDel'[v] = owesDel[v]
        /\ owesSet'[w] = None
        /\ raced \subseteq raced' /\ owesDel[w] \subseteq raced'
        /\ owesSet[w] # None => owesSet[w].job \in raced'
        /\ UNCHANGED <<db, cache>>
    BY <1>6 DEF RequestDies, ConfigTypeOK
  <2>2. OwedIsRowBut(X)'
    BY <2>1 DEF OwedIsRowBut
  <2>3. \A k \in Job : InFlight(k) => InFlight(k)' \/ k \in raced'
    BY <2>1 DEF InFlight
  <2>4. CopyIsRowBut(X)'
    BY <2>1, <2>3 DEF CopyIsRowBut
  <2> QED
    BY <2>2, <2>4
<1>7. ASSUME NEW j \in Job, ExpireCache(j)
      PROVE  OwedIsRowBut(X)' /\ CopyIsRowBut(X)'
  <2>1. /\ cache'[j] = None /\ \A k \in Job \ {j} : cache'[k] = cache[k]
        /\ UNCHANGED <<db, owesDel, owesSet>>
        /\ \A k \in Job : k \in raced => k \in raced' \/ (k = j /\ ~InFlight(k))
    BY <1>7 DEF ExpireCache, ConfigTypeOK
  <2>2. \A k \in Job : InFlight(k)' <=> InFlight(k)
    BY <2>1 DEF InFlight
  <2>3. \A v \in Writer : owesSet[v] # None => InFlight(owesSet[v].job)
    BY DEF InFlight
  <2>4. OwedIsRowBut(X)'
    BY <1>0, <2>1, <2>3 DEF OwedIsRowBut
  <2>5. CopyIsRowBut(X)'
    BY <2>1, <2>2 DEF CopyIsRowBut
  <2> QED
    BY <2>4, <2>5
<1>8. CASE UNCHANGED configVars
  BY <1>8 DEF configVars, OwedIsRowBut, CopyIsRowBut, InFlight
<1> QED
  BY <1>1, <1>2, <1>3, <1>4, <1>5, <1>6, <1>7, <1>8 DEF ConfigNext, RedisStep

\* job.service.ts: for any number of requests, overlapping and dying anywhere,
\* the copy the worker reads is the row or absent once the requests on the job
\* are over, unless two of them overlapped or one was cut short.
THEOREM CopyIsRow == ConfigSpec => []StaleOnlyAfterRace
<1>1. ConfigInit => ConfigInv({})
  BY ConfigTypeInit DEF ConfigInit, ConfigInv, OwedIsRowBut, CopyIsRowBut
<1>2. ConfigInv({}) => StaleOnlyAfterRace
  BY DEF ConfigInv, CopyIsRowBut, StaleOnlyAfterRace
<1>3. ConfigInv({}) /\ [ConfigNext]_configVars => ConfigInv({})'
  BY ConfigInvStep
<1> QED
  BY <1>1, <1>2, <1>3, PTL DEF ConfigSpec
=============================================================================
