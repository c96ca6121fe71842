-------------------------- MODULE WorkerCalmProofs ---------------------------
(***************************************************************************)
(* Machine-checked proofs about Worker when no lock is lost and no call of *)
(* a runner throws: what an execution's row then says about its attempts.  *)
(* API requests may still overlap, die, disable and delete.                *)
(***************************************************************************)
EXTENDS WorkerProofs

\* The job of e has been deleted, and its executions with it.
Gone(e) == JobOf[e] \in retired

\* The row of an execution stays for as long as its job is not deleted.
RowStays == \A e \in Exec : status[e] # "NONE" /\ ~Gone(e) => db[JobOf[e]] # None

\* A runner has its execution for itself, in the attempt that is due.
Owned ==
    \A w \in Runner :
        rpc[w] # "idle" => owner[rex[w]] = w /\ rtry[w] = made[rex[w]] + 1

\* Where a runner is once the callback of its attempt was sent.
After == {"success", "reset", "failed", "dead", "dlq", "count", "open", "announce", "throw"}

\* Every attempt before the one that is due has sent its callback.
CallsExact ==
    /\ \A w \in Runner :
        rpc[w] # "idle" /\ ~Gone(rex[w]) =>
            calls[rex[w]] = IF rpc[w] \in After THEN made[rex[w]] + 1 ELSE made[rex[w]]
    /\ \A e \in Exec :
        bull[e] \in {"none", "wait", "delayed"} /\ ~Gone(e) => calls[e] = made[e]

\* Who fails has attempts left, unless it is because the job was deleted.
FailsEarly ==
    /\ \A w \in Runner :
        rpc[w] = "failed" \/ (rpc[w] = "throw" /\ ~Gone(rex[w])) => rtry[w] < MaxAttempts
    /\ \A e \in Exec : bull[e] = "failed" => Gone(e)

\* DEAD is written by the last attempt, and nothing is called after it.
DeadIsLast ==
    /\ \A w \in Runner :
        /\ rpc[w] \in {"dlq", "count", "open"} => status[rex[w]] = "DEAD"
        /\ rpc[w] # "idle" /\ status[rex[w]] = "DEAD" =>
            rpc[w] \in {"dlq", "count", "open", "announce", "throw"}
    /\ \A e \in Exec : status[e] = "DEAD" =>
        /\ bull[e] \notin {"none", "wait", "delayed"}
        /\ calls[e] = MaxAttempts /\ made[e] + 1 >= MaxAttempts

\* SUCCESS is the runner's last word too, unless the job is deleted.
SuccessIsLast ==
    \A e \in Exec : status[e] = "SUCCESS" /\ ~Gone(e) =>
        /\ bull[e] \notin {"none", "wait", "delayed"}
        /\ \A w \in Runner : rex[w] = e => rpc[w] \in {"reset", "announce"}

\* A DEAD execution has its one dead letter, or a runner about to add it.
LettersExact ==
    \A e \in Exec :
        dlq[e] = IF status[e] = "DEAD" /\ \A w \in Runner : ~(rex[w] = e /\ rpc[w] = "dlq")
                 THEN 1 ELSE 0

CalmParts ==
    /\ RowStays /\ Owned /\ CallsExact /\ FailsEarly /\ DeadIsLast /\ SuccessIsLast
    /\ LettersExact

CalmInv == TypeInv /\ AttemptsBounded /\ LastAttempts /\ CalmParts

-----------------------------------------------------------------------------
(***************************************************************************)
(* The steps without faults.                                               *)
(***************************************************************************)

\* The status a runner at l leaves behind.
Outcome(l, s) ==
    IF l = "run" THEN "RUNNING" ELSE IF l = "success" THEN "SUCCESS"
    ELSE IF l = "failed" THEN "FAILED" ELSE IF l = "dead" THEN "DEAD" ELSE s

\* Runner w goes on: it throws only after a failed attempt that is not the
\* last, or because the row is gone.
Writes(w) ==
    /\ \A e \in Exec : status'[e] = IF e = rex[w] /\ ~Gone(e)
                                    THEN Outcome(rpc[w], status[e]) ELSE status[e]
    /\ rpc'[w] = "throw" => rpc[w] = "failed" \/ (Gone(rex[w]) /\ rpc[w] # "dlq")
    /\ Gone(rex[w]) => rpc'[w] \notin {"call", "reset", "dlq"}
    /\ rpc'[w] = "failed" => rtry[w] < MaxAttempts

\* For the execution of a busy runner there is a row unless its job is gone.
LEMMA RowOrGone ==
    ASSUME TypeInv, RowStays, NEW w \in Runner, rpc[w] # "idle",
           bull[rex[w]] = "active"
    PROVE  /\ rex[w] \in Exec /\ JobOf[rex[w]] \in Job
           /\ RowExists(rex[w]) <=> ~Gone(rex[w])
           /\ db[JobOf[rex[w]]] = None <=> Gone(rex[w])
<1>1. rex[w] \in Exec /\ JobOf[rex[w]] \in Job
  BY BusyRunner DEF TypeInv
<1>2. status[rex[w]] # "NONE"
  BY <1>1 DEF TypeInv, QueuedOnce
<1>3. Gone(rex[w]) => db[JobOf[rex[w]]] = None
  BY <1>1 DEF Gone, TypeInv, WorkerTypeOK, ConfigTypeOK
<1> QED
  BY <1>1, <1>2, <1>3 DEF RowStays, RowExists

\* What a step of a runner in mid-attempt writes, when no call fails.
LEMMA WriteFacts ==
    ASSUME ~CallsFail, TypeInv, RowStays, Owned, NEW w \in Runner,
           RunnerStep(w) \/ StepThrows(w), ~Complete(w), ~FailAttempt(w)
    PROVE  Writes(w)
<1>0. ~StepThrows(w)
  BY DEF StepThrows
<1>1. rpc[w] \notin {"idle", "done", "throw"}
  BY <1>0, MoveFacts DEF Moves
<1>2. rex[w] \in Exec
  BY <1>1, BusyRunner DEF TypeInv
<1>3. /\ RowExists(rex[w]) <=> ~Gone(rex[w])
      /\ db[JobOf[rex[w]]] = None <=> Gone(rex[w])
  BY <1>1, <1>2, RowOrGone, WorkerAssumption DEF Owned, TypeInv, WorkerTypeOK
<1> USE DEF TypeInv, WorkerTypeOK
<1>4. CASE LookupCache(w) \/ LookupDb(w) \/ FindExecution(w)
  <2>1. rpc[w] \in {"cache", "db", "row"} /\ UNCHANGED status
    BY <1>4 DEF LookupCache, LookupDb, FindExecution, Reads, At, queueVars
  <2>2. rpc'[w] \in {"db", "row", "run", "done"}
    BY <1>4 DEF LookupCache, LookupDb, FindExecution, Goto
  <2> QED
    BY <2>1, <2>2 DEF Writes, Outcome
<1>5. ASSUME NEW l \in {"run", "success", "failed", "dead"}, NEW m \in Pc,
             NEW s \in {"RUNNING", "SUCCESS", "FAILED", "DEAD"},
             At(w, l), SetStatus(w, s, m), s = Outcome(l, "NONE"), m # "failed",
             m = "throw" => l = "failed"
      PROVE  Writes(w)
  <2>1. CASE Gone(rex[w])
    <3>1. UNCHANGED status /\ rpc'[w] = "throw" /\ rpc[w] # "dlq"
      BY <1>3, <1>5, <2>1 DEF SetStatus, Goto, At
    <3> QED
      BY <2>1, <3>1 DEF Writes
  <2>2. CASE ~Gone(rex[w])
    <3>1. status' = [status EXCEPT ![rex[w]] = s] /\ rpc'[w] = m /\ rpc[w] = l
      BY <1>3, <1>5, <2>2 DEF SetStatus, Goto, At
    <3>2. s = Outcome(l, status[rex[w]])
      BY <1>5 DEF Outcome
    <3> QED
      BY <1>2, <1>5, <2>2, <3>1, <3>2 DEF Writes
  <2> QED
    BY <2>1, <2>2
<1>6. CASE MarkRunning(w) \/ RecordSuccess(w) \/ RecordFailed(w) \/ RecordDead(w)
  BY <1>5, <1>6 DEF MarkRunning, RecordSuccess, RecordFailed, RecordDead, Outcome, Pc
<1>7. ASSUME NEW ok \in BOOLEAN, InvokeCallback(w, ok) PROVE Writes(w)
  <2>1. /\ rpc[w] = "call" /\ UNCHANGED status
        /\ rpc'[w] \in {"success", "dead", "failed"}
        /\ rpc'[w] = "failed" => ~isFinalAttempt(w)
    BY <1>7 DEF InvokeCallback, At, Goto
  <2>2. ~isFinalAttempt(w) => rtry[w] < MaxAttempts
    BY WorkerAssumption DEF isFinalAttempt
  <2> QED
    BY <2>1, <2>2 DEF Writes, Outcome
<1>8. CASE resetDeadStreak(w) \/ CountDead(w) \/ OpenCircuit(w)
  <2>1. /\ rpc[w] \in {"reset", "count", "open"} /\ UNCHANGED status
        /\ rpc'[w] \in {"open", "announce", "throw"}
        /\ rpc'[w] = "throw" => db[JobOf[rex[w]]] = None
    BY <1>8 DEF resetDeadStreak, CountDead, OpenCircuit, At, Goto
  <2> QED
    BY <1>3, <2>1 DEF Writes, Outcome
<1>9. CASE DeadLetterAdd(w)
  <2>1. rpc[w] = "dlq" /\ UNCHANGED status /\ rpc'[w] = "count"
    BY <1>9 DEF DeadLetterAdd, At, Goto
  <2> QED
    BY <2>1 DEF Writes, Outcome
<1> QED
  BY <1>0, <1>4, <1>6, <1>7, <1>8, <1>9 DEF RunnerStep

\* What is not a step of a runner in its attempt.
LEMMA OtherSteps ==
    ASSUME ~LocksLost, TypeInv, [Next]_vars,
           ~\E w \in Runner : RunnerStep(w) \/ StepThrows(w)
    PROVE  Outside \/ \E w \in Runner, e \in Exec : PickUp(w, e)
<1>1. ASSUME ConfigNext, UNCHANGED <<queueVars, runnerVars>> PROVE Outside
  BY <1>1 DEF Outside, queueVars, runnerVars
<1>2. ASSUME NEW e \in Exec, Enqueue(e) \/ Promote(e) PROVE Outside
  BY <1>2 DEF Enqueue, Promote, Outside, runnerVars, configVars, TypeInv, WorkerTypeOK, QueuedOnce
<1>3. ASSUME UNCHANGED vars PROVE Outside
  BY <1>3 DEF vars, queueVars, runnerVars, Outside
<1> QED
  BY <1>1, <1>2, <1>3 DEF Next, Deliver, LoseLock, RunnerDies

\* Every step is one of these.
LEMMA CalmKinds ==
    ASSUME ~CallsFail, ~LocksLost, CalmInv, [Next]_vars
    PROVE  \/ Outside
           \/ \E w \in Runner, e \in Exec : PickUp(w, e)
           \/ \E w \in Runner :
                Complete(w) \/ FailAttempt(w) \/ (Moves(w) /\ Learns(w) /\ Writes(w))
<1>1. ASSUME NEW w \in Runner, RunnerStep(w) \/ StepThrows(w)
      PROVE  (Moves(w) /\ Learns(w) /\ Writes(w)) \/ Complete(w) \/ FailAttempt(w)
  BY <1>1, MoveFacts, LearnFacts, WriteFacts DEF CalmInv, CalmParts
<1> QED
  BY <1>1, OtherSteps DEF CalmInv

-----------------------------------------------------------------------------
(***************************************************************************)
(* The invariant.                                                          *)
(***************************************************************************)

\* A job row disappears only when its id is retired.
LEMMA RowsStay ==
    ASSUME ConfigTypeOK, [ConfigNext]_configVars, NEW j \in Job, db[j] # None
    PROVE  db'[j] # None \/ j \in retired'
<1> USE ConfigAssumption DEF ConfigTypeOK
<1>1. ASSUME NEW w \in Writer, NEW k \in Job, NEW c \in Config,
             createJob(w, k, c) \/ updateJob(w, k, c)
      PROVE  db'[j] # None
  BY <1>1 DEF createJob, updateJob
<1>2. ASSUME NEW w \in Writer, NEW k \in Job, deleteJob(w, k)
      PROVE  db'[j] # None \/ j \in retired'
  BY <1>2 DEF deleteJob
<1>3. ASSUME NEW w \in Writer, NEW S \in (SUBSET Job) \ {{}}, NEW b \in BOOLEAN,
             bulkSetEnabled(w, S, b)
      PROVE  db'[j] # None
  <2>1. [db[j] EXCEPT !.enabled = b] \in Config
    BY <1>3 DEF Config
  <2>2. db'[j] = [db[j] EXCEPT !.enabled = b] \/ db'[j] = db[j]
    BY <1>3 DEF bulkSetEnabled
  <2> QED
    BY <2>1, <2>2
<1>4. ASSUME \/ \E w \in Writer : RedisStep(w) \/ RequestDies(w)
             \/ \E k \in Job : ExpireCache(k)
             \/ UNCHANGED configVars
      PROVE  db'[j] # None
  BY <1>4 DEF RedisStep, invalidateJobConfig, cacheJobConfig, RequestDies, ExpireCache, configVars
<1> QED
  BY <1>1, <1>2, <1>3, <1>4 DEF ConfigNext

\* The invariant holds before the first delivery.
LEMMA CalmInit == Init => CalmInv
<1> SUFFICES ASSUME Init PROVE CalmInv
  OBVIOUS
<1>1. TypeInv
  BY WorkerTypeInit
<1>2. AttemptsBounded /\ LastAttempts
  BY WorkerAssumption DEF Init, AttemptsBounded, LastAttempts
<1>3. RowStays /\ Owned /\ CallsExact
  BY DEF Init, RowStays, Owned, CallsExact
<1>4. FailsEarly /\ DeadIsLast /\ SuccessIsLast /\ LettersExact
  BY DEF Init, FailsEarly, DeadIsLast, SuccessIsLast, LettersExact
<1> QED
  BY <1>1, <1>2, <1>3, <1>4 DEF CalmInv, CalmParts

\* The API, the producers and the backoff timer keep the invariant.
LEMMA CalmOutside ==
    ASSUME CalmInv, Outside
    PROVE  CalmParts'
<1> USE WorkerAssumption DEF CalmInv, CalmParts, TypeInv, WorkerTypeOK
<1>1. /\ UNCHANGED <<rpc, rex, rtry, owner, made, stalls, calls, dlq>>
      /\ \A e \in Exec : bull'[e] = bull[e] \/ (bull[e] \in {"none", "delayed"} /\ bull'[e] = "wait")
      /\ \A e \in Exec : \/ status'[e] = status[e]
                         \/ status[e] = "NONE" /\ status'[e] = "PENDING" /\ db'[JobOf[e]] # None
  BY DEF Outside
<1>2. \A e \in Exec : Gone(e) => Gone(e)'
  BY RetiredGrows DEF Outside, Gone
<1>3. \A w \in Runner : rpc[w] # "idle" => rex[w] \in Exec
  BY BusyRunner
<1>4. RowStays'
  <2>1. \A e \in Exec : db[JobOf[e]] # None => db'[JobOf[e]] # None \/ Gone(e)'
    BY RowsStay DEF Outside, Gone
  <2> QED
    BY <1>1, <1>2, <2>1 DEF RowStays
<1>5. Owned'
  BY <1>1 DEF Owned
<1>6. CallsExact'
  BY <1>1, <1>2, <1>3 DEF CallsExact, Gone
<1>7. FailsEarly'
  BY <1>1, <1>2, <1>3 DEF FailsEarly, Gone
<1>8. DeadIsLast'
  BY <1>1, <1>3 DEF DeadIsLast
<1>9. SuccessIsLast'
  BY <1>1, <1>2 DEF SuccessIsLast
<1>10. LettersExact'
  BY <1>1 DEF LettersExact
<1> QED
  BY <1>4, <1>5, <1>6, <1>7, <1>8, <1>9, <1>10

\* A runner that takes a waiting execution keeps the invariant.
LEMMA CalmPickUp ==
    ASSUME CalmInv, NEW w \in Runner, NEW f \in Exec, PickUp(w, f)
    PROVE  CalmParts'
<1> USE WorkerAssumption DEF CalmInv, CalmParts, TypeInv, WorkerTypeOK
<1>1. /\ \A v \in Runner \ {w} : rpc'[v] = rpc[v] /\ rex'[v] = rex[v] /\ rtry'[v] = rtry[v]
      /\ rpc[w] = "idle" /\ rpc'[w] = "cache" /\ rex'[w] = f /\ rtry'[w] = made[f] + 1
      /\ \A e \in Exec : bull'[e] = IF e = f THEN "active" ELSE bull[e]
      /\ \A e \in Exec : owner'[e] = IF e = f THEN w ELSE owner[e]
      /\ bull[f] = "wait" /\ rex[w] = None
      /\ UNCHANGED <<db, retired, status, made, dlq, calls>>
  BY DEF PickUp, configVars
\* Nobody else works on f.
<1>2. \A v \in Runner : rpc[v] # "idle" => rex[v] \in Exec /\ rex[v] # f
  BY <1>1 DEF Owned
<1>3. RowStays' /\ Owned'
  BY <1>1, <1>2 DEF RowStays, Owned, Gone
<1>4. CallsExact'
  BY <1>1, <1>2 DEF CallsExact, Gone, After
<1>5. FailsEarly'
  BY <1>1, <1>2 DEF FailsEarly, Gone
<1>6. DeadIsLast'
  BY <1>1, <1>2 DEF DeadIsLast
<1>7. SuccessIsLast'
  BY <1>1, <1>2 DEF SuccessIsLast, Gone
<1>8. LettersExact'
  BY <1>1, <1>2 DEF LettersExact, DeadIsLast
<1> QED
  BY <1>3, <1>4, <1>5, <1>6, <1>7, <1>8

\* A runner that is done with its execution leaves it to BullMQ.
LEMMA CalmLeave ==
    ASSUME CalmInv, NEW w \in Runner, Complete(w) \/ FailAttempt(w)
    PROVE  CalmParts'
<1> USE WorkerAssumption DEF CalmInv, CalmParts, TypeInv, WorkerTypeOK
<1> DEFINE f == rex[w]
<1>0. rpc[w] \in {"done", "announce", "throw"} /\ f \in Exec /\ owner[f] = w /\ bull[f] = "active"
  BY BusyRunner DEF Complete, FailAttempt, Owned
<1>1. /\ \A v \in Runner \ {w} : rpc'[v] = rpc[v] /\ rex'[v] = rex[v] /\ rtry'[v] = rtry[v]
      /\ rpc'[w] = "idle" /\ rex'[w] = None
      /\ UNCHANGED <<db, retired, status, dlq, calls>>
  BY DEF Complete, FailAttempt, GoIdle, configVars
<1>2. /\ \A e \in Exec \ {f} : bull'[e] = bull[e] /\ made'[e] = made[e] /\ owner'[e] = owner[e]
      /\ \/ rpc[w] # "throw" /\ bull'[f] = "completed" /\ made'[f] = made[f]
         \/ /\ rpc[w] = "throw" /\ made'[f] = made[f] + 1
            /\ bull'[f] = IF made[f] + 1 < MaxAttempts THEN "delayed" ELSE "failed"
  <2>1. CASE Complete(w)
    BY <1>0, <2>1 DEF Complete
  <2>2. CASE FailAttempt(w)
    <3>1. /\ made' = [made EXCEPT ![f] = @ + 1]
          /\ bull' = [bull EXCEPT ![f] = IF made[f] + 1 < MaxAttempts THEN "delayed" ELSE "failed"]
          /\ owner' = [owner EXCEPT ![f] = None]
      BY <1>0, <2>2 DEF FailAttempt
    <3> QED
      BY <1>0, <2>2, <3>1 DEF FailAttempt
  <2> QED
    BY <2>1, <2>2
\* Nobody else works on it.
<1>3. \A v \in Runner \ {w} : rpc[v] # "idle" => rex[v] \in Exec /\ rex[v] # f
  BY <1>0 DEF Owned
<1>4. RowStays'
  BY <1>1 DEF RowStays, Gone
<1>5. Owned'
  BY <1>1, <1>2, <1>3 DEF Owned
<1>6. CallsExact'
  <2>1. \A v \in Runner : rpc'[v] # "idle" /\ ~Gone(rex'[v]) =>
            calls[rex'[v]] = IF rpc'[v] \in After THEN made'[rex'[v]] + 1 ELSE made'[rex'[v]]
    BY <1>1, <1>2, <1>3 DEF CallsExact
  <2>2. \A e \in Exec :
            bull'[e] \in {"none", "wait", "delayed"} /\ ~Gone(e) => calls[e] = made'[e]
    BY <1>0, <1>1, <1>2 DEF CallsExact, After
  <2> QED
    BY <1>1, <2>1, <2>2 DEF CallsExact, Gone
<1>7. FailsEarly'
  <2>1. \A v \in Runner : rpc'[v] = "failed" \/ (rpc'[v] = "throw" /\ ~Gone(rex'[v])) =>
            rtry'[v] < MaxAttempts
    BY <1>1 DEF FailsEarly
  <2>2. bull'[f] = "failed" => Gone(f)
    BY <1>0, <1>2 DEF FailsEarly, Owned
  <2>3. \A e \in Exec : bull'[e] = "failed" => Gone(e)
    BY <1>2, <2>2 DEF FailsEarly
  <2> QED
    BY <1>1, <2>1, <2>3 DEF FailsEarly, Gone
<1>8. DeadIsLast'
  <2>1. \A v \in Runner :
        /\ rpc'[v] \in {"dlq", "count", "open"} => status[rex'[v]] = "DEAD"
        /\ rpc'[v] # "idle" /\ status[rex'[v]] = "DEAD" =>
            rpc'[v] \in {"dlq", "count", "open", "announce", "throw"}
    BY <1>1, <1>3 DEF DeadIsLast
  <2>2. \A e \in Exec : status[e] = "DEAD" =>
        /\ bull'[e] \notin {"none", "wait", "delayed"}
        /\ calls[e] = MaxAttempts /\ made'[e] + 1 >= MaxAttempts
    BY <1>0, <1>2 DEF DeadIsLast
  <2> QED
    BY <1>1, <2>1, <2>2 DEF DeadIsLast
<1>9. SuccessIsLast'
  <2> SUFFICES ASSUME NEW e \in Exec, status[e] = "SUCCESS", ~Gone(e)
               PROVE  /\ bull'[e] \notin {"none", "wait", "delayed"}
                      /\ \A v \in Runner : rex'[v] = e => rpc'[v] \in {"reset", "announce"}
    BY <1>1 DEF SuccessIsLast, Gone
  <2>1. bull'[e] \notin {"none", "wait", "delayed"}
    BY <1>0, <1>2 DEF SuccessIsLast
  <2>2. \A v \in Runner : rex'[v] = e => rpc'[v] \in {"reset", "announce"}
    BY <1>1 DEF SuccessIsLast
  <2> QED
    BY <2>1, <2>2
<1>10. LettersExact'
  <2>1. \A e \in Exec, v \in Runner :
            (rex'[v] = e /\ rpc'[v] = "dlq") <=> (rex[v] = e /\ rpc[v] = "dlq")
    BY <1>0, <1>1
  <2> QED
    BY <1>1, <2>1 DEF LettersExact
<1> QED
  BY <1>4, <1>5, <1>6, <1>7, <1>8, <1>9, <1>10

\* A runner goes on.
LEMMA CalmMove ==
    ASSUME CalmInv, NEW w \in Runner, Moves(w), Learns(w), Writes(w)
    PROVE  CalmParts'
<1> USE WorkerAssumption DEF CalmInv, CalmParts, TypeInv, WorkerTypeOK
<1> DEFINE f == rex[w]
           l == rpc[w]
           m == rpc'[w]
<1>0. f \in Exec /\ owner[f] = w /\ bull[f] = "active" /\ rtry[w] = made[f] + 1
  BY DEF Moves, Owned
<1>1. /\ l # "idle" /\ m # "idle" /\ l \notin {"done", "throw"} /\ Follows(l, m)
      /\ \A v \in Runner \ {w} : rpc'[v] = rpc[v]
      /\ UNCHANGED <<rex, rtry, bull, owner, made, retired>>
  BY DEF Moves, Learns
<1>2. \A e \in Exec :
        /\ calls'[e] = IF e = f /\ l = "call" /\ m # "throw" THEN calls[e] + 1 ELSE calls[e]
        /\ dlq'[e] = IF e = f /\ l = "dlq" /\ m # "throw" THEN dlq[e] + 1 ELSE dlq[e]
  BY DEF Moves
<1>3. /\ \A e \in Exec : status'[e] = IF e = f /\ ~Gone(e) THEN Outcome(l, status[e]) ELSE status[e]
      /\ m = "throw" => l = "failed" \/ (Gone(f) /\ l # "dlq")
      /\ Gone(f) => m \notin {"call", "reset", "dlq"}
      /\ m = "failed" => rtry[w] < MaxAttempts
  BY DEF Writes
\* Nobody else works on f.
<1>4. \A v \in Runner \ {w} : rpc[v] # "idle" => rex[v] \in Exec /\ rex[v] # f
  BY <1>0 DEF Owned
\* A runner in its last attempt was not yet about to fail.
<1>5. /\ l \in {"dead", "dlq"} => rtry[w] = MaxAttempts
      /\ made[f] < MaxAttempts
  <2>1. made[f] \in Nat /\ made[f] < MaxAttempts
    BY <1>0 DEF AttemptsBounded
  <2>2. l \in {"dead", "dlq"} => rtry[w] >= MaxAttempts
    BY <1>0 DEF LastAttempts
  <2> QED
    BY <1>0, <2>1, <2>2
<1> HIDE DEF f, l, m
<1>6. RowStays'
  <2>1. \A e \in Exec : db[JobOf[e]] # None => db'[JobOf[e]] # None
    BY DEF Learns
  <2>2. \A e \in Exec : status'[e] # "NONE" /\ ~Gone(e) => status[e] # "NONE"
    BY <1>0, <1>3 DEF QueuedOnce
  <2> QED
    BY <1>1, <2>1, <2>2 DEF RowStays, Gone
<1>7. Owned'
  BY <1>1, <1>0 DEF Owned, l, m
<1>8. CallsExact'
  <2>1. ~Gone(f) => calls'[f] = IF m \in After THEN made[f] + 1 ELSE made[f]
    <3>1. ~Gone(f) => calls[f] = IF l \in After THEN made[f] + 1 ELSE made[f]
      BY <1>1 DEF CallsExact, f, l
    <3>2. ~Gone(f) /\ l = "call" => m \in After /\ m # "throw" /\ l \notin After
      BY <1>1, <1>3 DEF Follows, After
    <3>3. ~Gone(f) /\ l # "call" => (l \in After <=> m \in After)
      BY <1>1, <1>3 DEF Follows, After
    <3> QED
      BY <1>0, <1>2, <3>1, <3>2, <3>3
  <2>2. \A v \in Runner \ {w} : rpc[v] # "idle" /\ ~Gone(rex[v]) =>
            calls'[rex[v]] = IF rpc[v] \in After THEN made[rex[v]] + 1 ELSE made[rex[v]]
    BY <1>2, <1>4 DEF CallsExact
  <2>3. \A e \in Exec :
            bull[e] \in {"none", "wait", "delayed"} /\ ~Gone(e) => calls'[e] = made[e]
    BY <1>0, <1>2 DEF CallsExact
  <2> QED
    BY <1>1, <2>1, <2>2, <2>3 DEF CallsExact, Gone, f, m
<1>9. FailsEarly'
  <2>1. m = "failed" \/ (m = "throw" /\ ~Gone(f)) => rtry[w] < MaxAttempts
    BY <1>3 DEF FailsEarly, l
  <2> QED
    BY <1>1, <2>1 DEF FailsEarly, Gone, f, m
<1>10. DeadIsLast'
  <2>1. status'[f] = "DEAD" <=> (status[f] = "DEAD" \/ (l = "dead" /\ ~Gone(f)))
    BY <1>0, <1>1, <1>3 DEF Outcome, DeadIsLast, f, l
  <2>2. /\ m \in {"dlq", "count", "open"} => status'[f] = "DEAD"
        /\ status'[f] = "DEAD" => m \in {"dlq", "count", "open", "announce", "throw"}
    <3>1. m \in {"dlq", "count", "open"} =>
              (l = "dead" /\ m = "dlq" /\ ~Gone(f)) \/ l \in {"dlq", "count"}
      BY <1>1, <1>3 DEF Follows
    <3>2. l \in {"dlq", "count", "open"} => status[f] = "DEAD"
      BY DEF DeadIsLast, f, l
    <3>3. status[f] = "DEAD" => l \in {"dlq", "count", "open", "announce"}
      BY <1>1 DEF DeadIsLast, f, l
    <3>4. l \in {"dead", "dlq", "count", "open", "announce"} =>
              m \in {"dlq", "count", "open", "announce", "throw"}
      BY <1>1 DEF Follows
    <3> QED
      BY <2>1, <3>1, <3>2, <3>3, <3>4
  <2>3. \A e \in Exec \ {f} : status'[e] = status[e] /\ calls'[e] = calls[e]
    BY <1>2, <1>3
  <2>4. status'[f] = "DEAD" => calls'[f] = MaxAttempts /\ made[f] + 1 >= MaxAttempts
    <3>1. CASE status[f] = "DEAD"
      <4>1. l # "call" /\ calls[f] = MaxAttempts /\ made[f] + 1 >= MaxAttempts
        BY <1>0, <1>1, <3>1 DEF DeadIsLast, f, l
      <4> QED
        BY <1>0, <1>2, <4>1
    <3>2. CASE l = "dead" /\ ~Gone(f)
      <4>1. calls[f] = made[f] + 1
        BY <1>1, <3>2 DEF CallsExact, After, f, l
      <4> QED
        BY <1>0, <1>2, <1>5, <3>2, <4>1
    <3> QED
      BY <2>1, <3>1, <3>2
  <2>5. \A v \in Runner \ {w} :
        /\ rpc[v] \in {"dlq", "count", "open"} => status'[rex[v]] = "DEAD"
        /\ rpc[v] # "idle" /\ status'[rex[v]] = "DEAD" =>
            rpc[v] \in {"dlq", "count", "open", "announce", "throw"}
    BY <1>4, <2>3 DEF DeadIsLast
  <2>6. \A v \in Runner :
        /\ rpc'[v] \in {"dlq", "count", "open"} => status'[rex'[v]] = "DEAD"
        /\ rpc'[v] # "idle" /\ status'[rex'[v]] = "DEAD" =>
            rpc'[v] \in {"dlq", "count", "open", "announce", "throw"}
    BY <1>1, <2>2, <2>5 DEF f, m
  <2>7. \A e \in Exec : status'[e] = "DEAD" =>
        /\ bull'[e] \notin {"none", "wait", "delayed"}
        /\ calls'[e] = MaxAttempts /\ made'[e] + 1 >= MaxAttempts
    BY <1>0, <1>1, <2>3, <2>4 DEF DeadIsLast
  <2> QED
    BY <2>6, <2>7 DEF DeadIsLast
<1>11. SuccessIsLast'
  <2> SUFFICES ASSUME NEW e \in Exec, status'[e] = "SUCCESS", ~Gone(e)
               PROVE  /\ bull[e] \notin {"none", "wait", "delayed"}
                      /\ \A v \in Runner : rex[v] = e => rpc'[v] \in {"reset", "announce"}
    BY <1>1 DEF SuccessIsLast, Gone
  <2>1. CASE e # f
    <3>1. status[e] = "SUCCESS" /\ rex[w] # e
      BY <1>3, <2>1 DEF f
    <3> QED
      BY <1>1, <3>1 DEF SuccessIsLast
  <2>2. CASE e = f
    <3>1. status[f] = "SUCCESS" => l \in {"reset", "announce"}
      BY <2>2 DEF SuccessIsLast, f, l
    <3>2. l \in {"success", "reset", "announce"}
      BY <1>3, <2>2, <3>1 DEF Outcome
    <3>3. m \in {"reset", "announce"}
      BY <1>1, <1>3, <2>2, <3>2 DEF Follows
    <3>4. \A v \in Runner : rex[v] = e => v = w
      BY <1>4, <2>2, <1>0
    <3> QED
      BY <1>0, <2>2, <3>3, <3>4 DEF m
  <2> QED
    BY <2>1, <2>2
<1>12. LettersExact'
  <2>0. \A e \in Exec \ {f}, v \in Runner :
            (rex'[v] = e /\ rpc'[v] = "dlq") <=> (rex[v] = e /\ rpc[v] = "dlq")
    BY <1>1 DEF f
  <2>1. \A e \in Exec \ {f} : dlq'[e] = dlq[e] /\ status'[e] = status[e]
    BY <1>2, <1>3
  <2>2. \A e \in Exec \ {f} :
            dlq'[e] = IF status'[e] = "DEAD" /\ \A v \in Runner : ~(rex'[v] = e /\ rpc'[v] = "dlq")
                      THEN 1 ELSE 0
    BY <2>0, <2>1 DEF LettersExact
  <2>3. /\ (\A v \in Runner : ~(rex[v] = f /\ rpc[v] = "dlq")) <=> l # "dlq"
        /\ (\A v \in Runner : ~(rex'[v] = f /\ rpc'[v] = "dlq")) <=> m # "dlq"
    BY <1>1, <1>4 DEF f, l, m
  <2>4. dlq[f] = IF status[f] = "DEAD" /\ l # "dlq" THEN 1 ELSE 0
    BY <1>0, <2>3 DEF LettersExact
  <2>5. dlq'[f] = IF status'[f] = "DEAD" /\ m # "dlq" THEN 1 ELSE 0
    <3>1. CASE l = "dead"
      <4>1. status[f] # "DEAD" /\ dlq[f] = 0 /\ dlq'[f] = 0
        BY <1>0, <1>1, <1>2, <2>4, <3>1 DEF DeadIsLast, f, l
      <4>2. status'[f] = "DEAD" => m = "dlq"
        BY <1>0, <1>1, <1>3, <3>1, <4>1 DEF Follows
      <4> QED
        BY <4>1, <4>2
    <3>2. CASE l = "dlq"
      <4>1. dlq[f] = 0 /\ status[f] = "DEAD" /\ status'[f] = "DEAD"
        BY <1>0, <1>3, <2>4, <3>2 DEF DeadIsLast, Outcome, f, l
      <4>2. m # "dlq" /\ m # "throw"
        BY <1>1, <1>3, <3>2 DEF Follows
      <4> QED
        BY <1>0, <1>2, <3>2, <4>1, <4>2
    <3>3. CASE l \notin {"dead", "dlq"}
      <4>1. dlq'[f] = dlq[f] /\ m # "dlq"
        BY <1>0, <1>1, <1>2, <3>3 DEF Follows
      <4>2. status'[f] = "DEAD" <=> status[f] = "DEAD"
        BY <1>0, <1>1, <1>3, <3>3 DEF Outcome, DeadIsLast, f, l
      <4> QED
        BY <2>4, <3>3, <4>1, <4>2
    <3> QED
      BY <3>1, <3>2, <3>3
  <2> QED
    BY <2>2, <2>3, <2>5 DEF LettersExact
<1> QED
  BY <1>6, <1>7, <1>8, <1>9, <1>10, <1>11, <1>12

\* Every step keeps the invariant when no call fails and no lock is lost.
LEMMA CalmStep ==
    ASSUME ~CallsFail, ~LocksLost, CalmInv, [Next]_vars
    PROVE  CalmInv'
<1>1. TypeInv' /\ AttemptsBounded' /\ LastAttempts'
  BY WorkerTypeStep, AttemptsStep, LastAttemptsStep DEF CalmInv
<1>2. CalmParts'
  BY CalmKinds, CalmOutside, CalmPickUp, CalmLeave, CalmMove
<1> QED
  BY <1>1, <1>2 DEF CalmInv

-----------------------------------------------------------------------------
(***************************************************************************)
(* The circuit breaker.                                                    *)
(***************************************************************************)

\* A runner has recorded a SUCCESS of job j and not yet reset its streak.
Resetting(j) == \E w \in Runner : rpc[w] = "reset" /\ JobOf[rex[w]] = j

\* The streak holds every execution once, after its death was counted, and
\* consecutiveDeadCount does not exceed it unless a reset is still to come.
StreakCounted ==
    \A j \in Job :
        /\ IsFiniteSet(streak[j])
        /\ j \in retired \/ Resetting(j) \/ dead[j] <= Cardinality(streak[j])
        /\ \A e \in streak[j] :
            /\ status[e] = "DEAD"
            /\ \A w \in Runner : rex[w] = e => rpc[w] \notin {"dlq", "count"}

\* What a runner's step does to the count of its job and to the streak.
Tallies(w) ==
    LET j == JobOf[rex[w]]
    IN  /\ \A k \in Job \ {j} : dead'[k] = dead[k] /\ streak'[k] = streak[k]
        /\ \/ /\ dead'[j] = dead[j] /\ streak'[j] = streak[j]
              /\ rpc'[w] \notin {"reset", "open"}
              /\ rpc[w] = "reset" => j \in retired
           \/ /\ dead'[j] = dead[j] /\ streak'[j] = {}
              /\ rpc'[w] = "reset"
           \/ /\ dead'[j] = 0 /\ streak'[j] = streak[j]
              /\ rpc'[w] = "announce"
           \/ /\ dead'[j] = dead[j] + 1 /\ streak'[j] = streak[j] \cup {rex[w]}
              /\ rpc[w] = "count" /\ rpc'[w] \in {"open", "announce"}
              /\ rpc'[w] = "open" => dead[j] + 1 >= Threshold /\ j \notin retired

\* Every step of a runner tallies so, when no call fails.
LEMMA TallyFacts ==
    ASSUME ~CallsFail, CalmInv, NEW w \in Runner,
           RunnerStep(w) \/ StepThrows(w), ~Complete(w), ~FailAttempt(w)
    PROVE  Tallies(w)
<1> USE DEF CalmInv, CalmParts, TypeInv, WorkerTypeOK
<1> DEFINE j == JobOf[rex[w]]
<1>0. ~StepThrows(w)
  BY DEF StepThrows
<1>1. rpc[w] \notin {"idle", "done", "throw"} /\ rex[w] \in Exec /\ j \in Job
  BY <1>0, MoveFacts, WorkerAssumption DEF Moves
<1>2. /\ RowExists(rex[w]) <=> ~Gone(rex[w])
      /\ db[j] = None <=> Gone(rex[w])
  BY <1>1, RowOrGone, WorkerAssumption DEF Owned
<1>3. ASSUME UNCHANGED <<dead, streak>>, rpc[w] # "reset", rpc'[w] \notin {"reset", "open"}
      PROVE  Tallies(w)
  BY <1>3 DEF Tallies
<1>4. CASE LookupCache(w) \/ LookupDb(w) \/ FindExecution(w)
  <2>1. rpc[w] \in {"cache", "db", "row"} /\ UNCHANGED <<dead, streak>>
    BY <1>4 DEF LookupCache, LookupDb, FindExecution, Reads, At, queueVars
  <2>2. rpc'[w] \in {"db", "row", "run", "done"}
    BY <1>4 DEF LookupCache, LookupDb, FindExecution, Goto
  <2> QED
    BY <1>3, <2>1, <2>2
<1>5. CASE MarkRunning(w) \/ RecordFailed(w) \/ RecordDead(w)
  <2>1. rpc[w] \in {"run", "failed", "dead"} /\ UNCHANGED <<dead, streak>>
    BY <1>5 DEF MarkRunning, RecordFailed, RecordDead, SetStatus, At
  <2>2. rpc'[w] \in {"call", "throw", "dlq"}
    BY <1>5 DEF MarkRunning, RecordFailed, RecordDead, SetStatus, Goto
  <2> QED
    BY <1>3, <2>1, <2>2
<1>6. CASE RecordSuccess(w)
  <2>0. rpc[w] = "success" /\ UNCHANGED dead
    BY <1>6 DEF RecordSuccess, SetStatus, At
  <2>1. CASE RowExists(rex[w])
    <3>1. streak' = [streak EXCEPT ![j] = {}] /\ rpc'[w] = "reset"
      BY <1>6, <2>1 DEF RecordSuccess, SetStatus, Goto
    <3> QED
      BY <1>1, <2>0, <3>1 DEF Tallies
  <2>2. CASE ~RowExists(rex[w])
    BY <1>3, <1>6, <2>0, <2>2 DEF RecordSuccess, SetStatus, Goto
  <2> QED
    BY <2>1, <2>2
<1>7. ASSUME NEW ok \in BOOLEAN, InvokeCallback(w, ok) PROVE Tallies(w)
  <2>1. rpc[w] = "call" /\ UNCHANGED <<dead, streak>> /\ rpc'[w] \in {"success", "dead", "failed"}
    BY <1>7 DEF InvokeCallback, At, Goto
  <2> QED
    BY <1>3, <2>1
<1>8. CASE resetDeadStreak(w)
  <2>0. rpc[w] = "reset" /\ UNCHANGED streak
    BY <1>8 DEF resetDeadStreak, At
  <2>1. CASE db[j] # None
    <3>1. dead' = [dead EXCEPT ![j] = 0] /\ rpc'[w] = "announce"
      BY <1>8, <2>1 DEF resetDeadStreak, Goto
    <3> QED
      BY <1>1, <2>0, <3>1 DEF Tallies
  <2>2. CASE db[j] = None
    <3>1. UNCHANGED dead /\ rpc'[w] = "throw" /\ j \in retired
      BY <1>2, <1>8, <2>2 DEF resetDeadStreak, Goto, Gone
    <3> QED
      BY <2>0, <3>1 DEF Tallies
  <2> QED
    BY <2>1, <2>2
<1>9. CASE DeadLetterAdd(w)
  <2>1. rpc[w] = "dlq" /\ UNCHANGED <<dead, streak>> /\ rpc'[w] = "count"
    BY <1>9 DEF DeadLetterAdd, At, Goto
  <2> QED
    BY <1>3, <2>1
<1>10. CASE CountDead(w)
  <2>0. rpc[w] = "count"
    BY <1>10 DEF CountDead, At
  <2>1. CASE db[j] # None
    <3>1. /\ dead' = [dead EXCEPT ![j] = @ + 1]
          /\ streak' = [streak EXCEPT ![j] = @ \cup {rex[w]}]
          /\ Goto(w, IF dead[j] + 1 >= Threshold THEN "open" ELSE "announce")
      BY <1>10, <2>1 DEF CountDead
    <3>2. j \notin retired
      BY <1>2, <2>1 DEF Gone
    <3>3. rpc'[w] \in {"open", "announce"} /\ (rpc'[w] = "open" => dead[j] + 1 >= Threshold)
      BY <3>1 DEF Goto
    <3> QED
      BY <1>1, <2>0, <3>1, <3>2, <3>3 DEF Tallies
  <2>2. CASE db[j] = None
    BY <1>3, <1>10, <2>0, <2>2 DEF CountDead, Goto
  <2> QED
    BY <2>1, <2>2
<1>11. CASE OpenCircuit(w)
  <2>1. rpc[w] = "open" /\ UNCHANGED <<dead, streak>> /\ rpc'[w] \in {"announce", "throw"}
    BY <1>11 DEF OpenCircuit, At, Goto
  <2> QED
    BY <1>3, <2>1
<1> QED
  BY <1>0, <1>4, <1>5, <1>6, <1>7, <1>8, <1>9, <1>10, <1>11 DEF RunnerStep

\* A status that says SUCCESS or DEAD is not written again.
StatusKept == \A e \in Exec : status[e] \in {"SUCCESS", "DEAD"} => status'[e] = status[e]

\* The runner that recorded the outcome does not write it over.
LEMMA StatusKeptByMoves ==
    ASSUME CalmInv, NEW w \in Runner, Moves(w), Writes(w)
    PROVE  StatusKept
<1> SUFFICES ASSUME NEW e \in Exec, status[e] \in {"SUCCESS", "DEAD"}
             PROVE  status'[e] = status[e]
  BY DEF StatusKept
<1>1. CASE e # rex[w] \/ Gone(e)
  BY <1>1 DEF Writes
<1>2. CASE e = rex[w] /\ ~Gone(e)
  <2>1. rpc[w] \in {"reset", "announce", "dlq", "count", "open", "throw"}
    BY <1>2 DEF Moves, CalmInv, CalmParts, DeadIsLast, SuccessIsLast
  <2> QED
    BY <1>2, <2>1 DEF Writes, Outcome
<1> QED
  BY <1>1, <1>2

\* Every step without faults keeps what is settled.
LEMMA StatusKeptStep ==
    ASSUME ~CallsFail, ~LocksLost, CalmInv, [Next]_vars
    PROVE  StatusKept
<1>1. CASE Outside
  BY <1>1 DEF Outside, StatusKept
<1>2. ASSUME NEW w \in Runner, NEW e \in Exec, PickUp(w, e) PROVE StatusKept
  BY <1>2 DEF PickUp, StatusKept
<1>3. ASSUME NEW w \in Runner, Complete(w) \/ FailAttempt(w) PROVE StatusKept
  BY <1>3 DEF Complete, FailAttempt, StatusKept
<1> QED
  BY <1>1, <1>2, <1>3, StatusKeptByMoves, CalmKinds

\* The step of a runner keeps the streak counted.
LEMMA StreakMove ==
    ASSUME CalmInv, StreakCounted, NEW w \in Runner, Moves(w), Learns(w), Writes(w), Tallies(w)
    PROVE  StreakCounted'
<1> USE WorkerAssumption DEF CalmInv, CalmParts, TypeInv, WorkerTypeOK
<1> DEFINE j == JobOf[rex[w]]
<1>1. /\ rex[w] \in Exec /\ j \in Job /\ rpc[w] # "idle" /\ Follows(rpc[w], rpc'[w])
      /\ \A v \in Runner \ {w} : rpc'[v] = rpc[v]
      /\ UNCHANGED <<rex, retired>>
  BY DEF Moves, Learns
<1>2. /\ \A k \in Job \ {j} : dead'[k] = dead[k] /\ streak'[k] = streak[k]
      /\ \/ /\ dead'[j] = dead[j] /\ streak'[j] = streak[j]
            /\ rpc'[w] \notin {"reset", "open"}
            /\ rpc[w] = "reset" => j \in retired
         \/ /\ dead'[j] = dead[j] /\ streak'[j] = {}
            /\ rpc'[w] = "reset"
         \/ /\ dead'[j] = 0 /\ streak'[j] = streak[j]
            /\ rpc'[w] = "announce"
         \/ /\ dead'[j] = dead[j] + 1 /\ streak'[j] = streak[j] \cup {rex[w]}
            /\ rpc[w] = "count" /\ rpc'[w] \in {"open", "announce"}
  BY DEF Tallies
<1>3. StatusKept
  BY StatusKeptByMoves
\* Nobody else works on the execution of w, and it was not counted before.
<1>4. /\ \A v \in Runner \ {w} : rex[v] # rex[w]
      /\ rpc[w] = "count" => rex[w] \notin streak[j] /\ status[rex[w]] = "DEAD"
  BY <1>1 DEF Owned, StreakCounted, DeadIsLast
<1>5. \A k \in Job : IsFiniteSet(streak[k]) /\ Cardinality(streak[k]) \in Nat
  BY FS_CardinalityType DEF StreakCounted
<1> HIDE DEF j
<1> SUFFICES ASSUME NEW k \in Job
             PROVE  /\ IsFiniteSet(streak'[k])
                    /\ k \in retired' \/ Resetting(k)' \/ dead'[k] <= Cardinality(streak'[k])
                    /\ \A e \in streak'[k] :
                        /\ status'[e] = "DEAD"
                        /\ \A v \in Runner : rex'[v] = e => rpc'[v] \notin {"dlq", "count"}
  BY DEF StreakCounted
<1>6. ASSUME NEW e \in Exec, e \in streak[k]
      PROVE  /\ status'[e] = "DEAD"
             /\ \A v \in Runner : rex'[v] = e => rpc'[v] \notin {"dlq", "count"}
  <2>1. status[e] = "DEAD" /\ \A v \in Runner : rex[v] = e => rpc[v] \notin {"dlq", "count"}
    BY <1>6 DEF StreakCounted
  <2>2. rex[w] = e => rpc[w] \in {"open", "announce", "throw"}
    BY <1>1, <2>1 DEF DeadIsLast
  <2>3. rex[w] = e => rpc'[w] \notin {"dlq", "count"}
    BY <1>1, <2>2 DEF Follows
  <2> QED
    BY <1>1, <1>3, <2>1, <2>3 DEF StatusKept
<1>7. streak[k] \subseteq Exec
  OBVIOUS
<1>8. CASE k # j
  <2>1. Resetting(k) => Resetting(k)'
    BY <1>1, <1>8 DEF Resetting, j
  <2> QED
    BY <1>1, <1>2, <1>5, <1>6, <1>7, <1>8, <2>1 DEF StreakCounted
<1>9. CASE k = j
  <2>1. Resetting(k) => Resetting(k)' \/ rpc[w] = "reset"
    BY <1>1 DEF Resetting
  <2>2. CASE /\ dead'[j] = dead[j] /\ streak'[j] = streak[j]
             /\ rpc[w] = "reset" => j \in retired
    BY <1>1, <1>5, <1>6, <1>7, <1>9, <2>1, <2>2 DEF StreakCounted
  <2>3. CASE streak'[j] = {} /\ rpc'[w] = "reset"
    <3>1. Resetting(k)'
      BY <1>1, <1>9, <2>3 DEF Resetting, j
    <3> QED
      BY <1>9, <2>3, <3>1, FS_EmptySet
  <2>4. CASE dead'[j] = 0 /\ streak'[j] = streak[j]
    BY <1>5, <1>6, <1>7, <1>9, <2>4
  <2>5. CASE /\ dead'[j] = dead[j] + 1 /\ streak'[j] = streak[j] \cup {rex[w]}
             /\ rpc[w] = "count" /\ rpc'[w] \in {"open", "announce"}
    <3>1. /\ IsFiniteSet(streak'[j])
          /\ Cardinality(streak'[j]) = Cardinality(streak[j]) + 1
      BY <1>4, <1>5, <1>9, <2>5, FS_AddElement
    <3>2. k \in retired' \/ Resetting(k)' \/ dead'[k] <= Cardinality(streak'[k])
      BY <1>1, <1>5, <1>9, <2>1, <2>5, <3>1 DEF StreakCounted
    <3>3. /\ status'[rex[w]] = "DEAD"
          /\ \A v \in Runner : rex'[v] = rex[w] => rpc'[v] \notin {"dlq", "count"}
      BY <1>1, <1>3, <1>4, <2>5 DEF StatusKept
    <3> QED
      BY <1>6, <1>7, <1>9, <2>5, <3>1, <3>2, <3>3
  <2> QED
    BY <1>2, <2>2, <2>3, <2>4, <2>5
<1> QED
  BY <1>8, <1>9

\* Only its own step takes a runner on.
LEMMA OnlyItMoves ==
    ASSUME ~LocksLost, TypeInv, [Next]_vars, NEW w \in Runner,
           rpc[w] # "idle", rpc'[w] # rpc[w]
    PROVE  RunnerStep(w) \/ StepThrows(w)
<1> USE DEF TypeInv, WorkerTypeOK
<1>1. ASSUME NEW v \in Runner, RunnerStep(v) \/ StepThrows(v) PROVE v = w
  <2>1. CASE Complete(v) \/ FailAttempt(v)
    BY <2>1 DEF Complete, FailAttempt, GoIdle
  <2>2. CASE ~Complete(v) /\ ~FailAttempt(v)
    BY <1>1, <2>2, MoveFacts DEF Moves
  <2> QED
    BY <2>1, <2>2
<1>2. ~Outside
  BY DEF Outside
<1>3. \A v \in Runner, e \in Exec : ~PickUp(v, e)
  BY DEF PickUp
<1> QED
  BY <1>1, <1>2, <1>3, OtherSteps

\* So does every step when no call fails and no lock is lost.
LEMMA StreakStep ==
    ASSUME ~CallsFail, ~LocksLost, CalmInv, StreakCounted, [Next]_vars
    PROVE  StreakCounted'
<1> USE DEF CalmInv, TypeInv, WorkerTypeOK
<1>0. StatusKept
  BY StatusKeptStep
\* Steps that no runner takes but to begin or end an attempt.
<1>1. ASSUME UNCHANGED <<dead, streak>>, retired \subseteq retired',
             \A v \in Runner : /\ rpc[v] = "reset" => rpc'[v] = "reset" /\ rex'[v] = rex[v]
                               /\ rpc'[v] \in {"dlq", "count"} => rpc'[v] = rpc[v] /\ rex'[v] = rex[v]
      PROVE  StreakCounted'
  <2>1. \A k \in Job : Resetting(k) => Resetting(k)'
    BY <1>1 DEF Resetting
  <2> QED
    BY <1>0, <1>1, <2>1 DEF StreakCounted, StatusKept
<1>2. CASE Outside
  BY <1>1, <1>2, RetiredGrows DEF Outside
<1>3. ASSUME NEW w \in Runner, NEW e \in Exec, PickUp(w, e) PROVE StreakCounted'
  BY <1>1, <1>3 DEF PickUp, configVars
<1>4. ASSUME NEW w \in Runner, Complete(w) \/ FailAttempt(w) PROVE StreakCounted'
  <2>1. /\ UNCHANGED <<dead, streak, retired>> /\ GoIdle(w)
        /\ rpc[w] \in {"done", "announce", "throw"}
    BY <1>4 DEF Complete, FailAttempt, configVars
  <2> QED
    BY <1>1, <2>1 DEF GoIdle
<1>5. ASSUME NEW w \in Runner, RunnerStep(w) \/ StepThrows(w), ~Complete(w), ~FailAttempt(w)
      PROVE  StreakCounted'
  BY <1>5, MoveFacts, LearnFacts, WriteFacts, TallyFacts, StreakMove DEF CalmParts
<1>6. CASE ~\E w \in Runner : RunnerStep(w) \/ StepThrows(w)
  <2>1. \A w \in Runner : ~Complete(w) /\ ~FailAttempt(w)
    BY <1>6 DEF RunnerStep
  <2> QED
    BY <1>2, <1>3, <1>6, <2>1, OtherSteps
<1> QED
  BY <1>4, <1>5, <1>6

\* "Auto-disable a job after N consecutive DEAD executions" (README.md), for
\* any number of executions, runners and requests: without faults the breaker
\* opens over Threshold different executions, no SUCCESS between their counts
\* but one whose reset it overtakes.
THEOREM BreakerOpensHonestly ==
    ASSUME ~CallsFail, ~LocksLost
    PROVE  Spec => BreakerHonest
<1> DEFINE Opens(w) == rpc[w] = "count" /\ rpc'[w] = "open"
           Enough(w) == \/ Cardinality(streak'[JobOf[rex[w]]]) >= Threshold
                        \/ \E v \in Runner : rpc[v] = "reset" /\ JobOf[rex[v]] = JobOf[rex[w]]
           Honest == \A w \in Runner : Opens(w) => Enough(w)
<1>1. CalmInv /\ StreakCounted /\ [Next]_vars => Honest
  <2> SUFFICES ASSUME CalmInv, StreakCounted, [Next]_vars, NEW w \in Runner, Opens(w)
               PROVE  Enough(w)
    OBVIOUS
  <2> USE WorkerAssumption DEF CalmInv, CalmParts, TypeInv, WorkerTypeOK
  <2> DEFINE j == JobOf[rex[w]]
  <2>1. /\ RunnerStep(w) \/ StepThrows(w)
        /\ ~Complete(w) /\ ~FailAttempt(w)
    BY OnlyItMoves DEF Complete, FailAttempt
  <2>2. Tallies(w) /\ rex[w] \in Exec /\ j \in Job
    BY <2>1, TallyFacts, MoveFacts DEF Moves
  <2>3. /\ streak'[j] = streak[j] \cup {rex[w]} /\ dead[j] + 1 >= Threshold
        /\ j \notin retired
    BY <2>2 DEF Tallies
  <2>4. rex[w] \notin streak[j] /\ IsFiniteSet(streak[j])
    BY <2>2 DEF StreakCounted
  <2>5. /\ Cardinality(streak'[j]) = Cardinality(streak[j]) + 1
        /\ Cardinality(streak[j]) \in Nat
    <3> HIDE DEF j, CalmInv, CalmParts, TypeInv, WorkerTypeOK
    <3> QED
      BY <2>3, <2>4, FS_AddElement, FS_CardinalityType
  <2>6. Resetting(j) \/ dead[j] <= Cardinality(streak[j])
    BY <2>2, <2>3 DEF StreakCounted
  <2>7. CASE Resetting(j)
    BY <2>7 DEF Resetting
  <2>8. CASE dead[j] <= Cardinality(streak[j])
    BY <2>2, <2>3, <2>5, <2>8
  <2> QED
    BY <2>6, <2>7, <2>8
<1>2. Init => StreakCounted
  <2> SUFFICES ASSUME Init, NEW j \in Job
               PROVE  /\ IsFiniteSet(streak[j]) /\ dead[j] <= Cardinality(streak[j])
                      /\ streak[j] = {}
    BY DEF StreakCounted
  <2>1. streak[j] = {} /\ dead[j] = 0
    BY DEF Init
  <2>2. IsFiniteSet(streak[j]) /\ Cardinality(streak[j]) = 0
    BY <2>1, FS_EmptySet
  <2> QED
    BY <2>1, <2>2
<1>3. CalmInv /\ StreakCounted /\ [Next]_vars => CalmInv' /\ StreakCounted'
  BY CalmStep, StreakStep
<1>4. CalmInv /\ StreakCounted /\ [Next]_vars => [Honest]_vars
  BY <1>1
<1> QED
  BY <1>2, <1>3, <1>4, CalmInit, PTL DEF Spec, BreakerHonest

-----------------------------------------------------------------------------
(***************************************************************************)
(* What it says.                                                           *)
(***************************************************************************)

\* retry-dlq.test.ts, "The callback was attempted exactly `attempts` times",
\* for any number of executions, runners, attempts and API requests.
THEOREM DeadMeansAllAttempts ==
    ASSUME ~CallsFail, ~LocksLost
    PROVE  Spec => []DeadAfterAllAttempts
<1>1. CalmInv => DeadAfterAllAttempts
  BY DEF CalmInv, CalmParts, DeadIsLast, DeadAfterAllAttempts
<1>2. CalmInv /\ [Next]_vars => CalmInv'
  BY CalmStep
<1> QED
  BY <1>1, <1>2, CalmInit, PTL DEF Spec

\* deadLetter: one dead letter for each DEAD execution, no other, and it is on
\* the queue before BullMQ hears that the attempt is over.
THEOREM DeadMeansOneLetter ==
    ASSUME ~CallsFail, ~LocksLost
    PROVE  Spec => []DeadLetteredOnce
<1>1. CalmInv => DeadLetteredOnce
  <2> SUFFICES ASSUME CalmInv, NEW e \in Exec
               PROVE  /\ dlq[e] <= 1
                      /\ dlq[e] = 1 => status[e] = "DEAD"
                      /\ status[e] = "DEAD" /\ bull[e] = "completed" => dlq[e] = 1
    BY DEF DeadLetteredOnce
  <2>1. dlq[e] = IF status[e] = "DEAD" /\ \A w \in Runner : ~(rex[w] = e /\ rpc[w] = "dlq")
                 THEN 1 ELSE 0
    BY DEF CalmInv, CalmParts, LettersExact
  <2>2. bull[e] = "completed" => \A w \in Runner : ~(rex[w] = e /\ rpc[w] = "dlq")
    BY WorkerAssumption DEF CalmInv, CalmParts, Owned, TypeInv, WorkerTypeOK
  <2> QED
    BY <2>1, <2>2
<1>2. CalmInv /\ [Next]_vars => CalmInv'
  BY CalmStep
<1> QED
  BY <1>1, <1>2, CalmInit, PTL DEF Spec

\* "dead-letters on exhaustion" (README.md): BullMQ gives up on an execution
\* only when its job was deleted; otherwise the last attempt dead-letters it
\* and resolves.
THEOREM NothingGivenUpSilently ==
    ASSUME ~CallsFail, ~LocksLost
    PROVE  Spec => []ExhaustedIsDeadLettered
<1>1. CalmInv => ExhaustedIsDeadLettered
  BY WorkerAssumption
     DEF CalmInv, CalmParts, FailsEarly, Gone, TypeInv, WorkerTypeOK, ConfigTypeOK,
         ExhaustedIsDeadLettered
<1>2. CalmInv /\ [Next]_vars => CalmInv'
  BY CalmStep
<1> QED
  BY <1>1, <1>2, CalmInit, PTL DEF Spec

\* A row that says SUCCESS or DEAD is never written again, by any runner.
THEOREM SettledIsFinal ==
    ASSUME ~CallsFail, ~LocksLost
    PROVE  Spec => SettledStays
<1> DEFINE Stays == \A e \in Exec : status[e] \in {"SUCCESS", "DEAD"} => status'[e] = status[e]
<1>1. CalmInv /\ [Next]_vars => [Stays]_vars
  BY StatusKeptStep DEF StatusKept
<1>2. CalmInv /\ [Next]_vars => CalmInv'
  BY CalmStep
<1> QED
  BY <1>1, <1>2, CalmInit, PTL DEF Spec, SettledStays
=============================================================================
