---------------------------- MODULE WorkerProofs -----------------------------
(***************************************************************************)
(* Machine-checked proofs about Worker with every fault: any number of     *)
(* jobs, executions, runners and requests, any attempts and thresholds.    *)
(***************************************************************************)
EXTENDS Worker, JobConfigProofs, FiniteSetTheorems, TLAPS

\* A BullMQ job and its row are made together.
QueuedOnce == \A e \in Exec : status[e] = "NONE" <=> bull[e] = "none"

TypeInv == WorkerTypeOK /\ QueuedOnce

-----------------------------------------------------------------------------
(***************************************************************************)
(* Types.                                                                  *)
(***************************************************************************)

\* The initial state is well typed.
LEMMA WorkerTypeInit == Init => TypeInv
<1> SUFFICES ASSUME Init PROVE TypeInv
  OBVIOUS
<1>1. ConfigTypeOK
  BY ConfigTypeInit DEF Init
<1> QED
  BY <1>1, WorkerAssumption DEF Init, TypeInv, WorkerTypeOK, QueuedOnce, Pc

\* A busy runner has an execution, and that has a job.
LEMMA BusyRunner ==
    ASSUME WorkerTypeOK, NEW w \in Runner, rpc[w] # "idle"
    PROVE  rex[w] \in Exec /\ JobOf[rex[w]] \in Job
  BY WorkerAssumption DEF WorkerTypeOK

\* Opening the breaker on a configuration gives a configuration.
LEMMA DisabledType ==
    ASSUME NEW c \in Config
    PROVE  [c EXCEPT !.enabled = FALSE] \in Config
  BY DEF Config

\* The runner goes on to another place, and nothing else of it changes.
LEMMA MoveType ==
    ASSUME TypeInv, NEW w \in Runner, rpc[w] # "idle",
           NEW l \in Pc \ {"idle"}, Goto(w, l), UNCHANGED <<rex, rtry>>
    PROVE  /\ rpc' \in [Runner -> Pc]
           /\ rex' \in [Runner -> Exec \cup {None}]
           /\ rtry' \in [Runner -> Nat]
           /\ \A v \in Runner : rpc'[v] # "idle" <=> rex'[v] # None
  BY DEF TypeInv, WorkerTypeOK, Goto

\* A runner that ends its attempt goes idle and has no execution any more.
LEMMA GoIdleType ==
    ASSUME TypeInv, NEW w \in Runner, GoIdle(w)
    PROVE  /\ rpc' \in [Runner -> Pc]
           /\ rex' \in [Runner -> Exec \cup {None}]
           /\ rtry' \in [Runner -> Nat]
           /\ barred' \in [Runner -> {"no", "disabled", "deleted"}]
           /\ \A v \in Runner : rpc'[v] # "idle" <=> rex'[v] # None
  BY WorkerAssumption DEF TypeInv, WorkerTypeOK, GoIdle, Pc

\* What a runner learns when it reads the job is one of three values.
LEMMA ReadsType ==
    ASSUME TypeInv, NEW w \in Runner, NEW l, Reads(w, l)
    PROVE  barred' \in [Runner -> {"no", "disabled", "deleted"}]
<1>1. \A j : Objection(j) \in {"no", "disabled", "deleted"}
  BY DEF Objection
<1> QED
  BY <1>1 DEF TypeInv, WorkerTypeOK, Reads

\* A status update keeps the types.
LEMMA SetStatusType ==
    ASSUME TypeInv, NEW w \in Runner, NEW l \in Pc \ {"idle"}, At(w, l), l # "idle",
           NEW s \in {"RUNNING", "SUCCESS", "FAILED", "DEAD"},
           NEW next \in Pc \ {"idle"}, SetStatus(w, s, next)
    PROVE  TypeInv'
<1>1. rpc[w] # "idle" /\ UNCHANGED <<rex, rtry, barred>>
  BY DEF At
<1>2. \E m \in Pc \ {"idle"} : Goto(w, m)
  BY DEF SetStatus, Pc
<1>3. /\ rpc' \in [Runner -> Pc]
      /\ rex' \in [Runner -> Exec \cup {None}]
      /\ rtry' \in [Runner -> Nat]
      /\ \A v \in Runner : rpc'[v] # "idle" <=> rex'[v] # None
  BY <1>1, <1>2, MoveType
<1>4. /\ status' \in [Exec -> {"NONE", "PENDING", "RUNNING", "SUCCESS", "FAILED", "DEAD"}]
      /\ \A e \in Exec : status'[e] = "NONE" <=> status[e] = "NONE"
  BY <1>1, BusyRunner DEF SetStatus, RowExists, TypeInv, WorkerTypeOK
<1>5. streak' \in [Job -> SUBSET Exec]
  BY <1>1 DEF SetStatus, TypeInv, WorkerTypeOK
<1>6. ConfigTypeOK' /\ UNCHANGED <<bull, owner, made, stalls, dlq, dead, tripped, calls>>
  BY DEF SetStatus, configVars, ConfigTypeOK, TypeInv, WorkerTypeOK
<1> QED
  BY <1>1, <1>3, <1>4, <1>5, <1>6 DEF TypeInv, WorkerTypeOK, QueuedOnce

\* Every step of a runner, of BullMQ and of the API keeps the types.
LEMMA WorkerTypeStep == TypeInv /\ [Next]_vars => TypeInv'
<1> SUFFICES ASSUME TypeInv, [Next]_vars PROVE TypeInv'
  OBVIOUS
<1> USE WorkerAssumption
<1>0. UNCHANGED configVars => ConfigTypeOK'
  BY DEF configVars, ConfigTypeOK, TypeInv, WorkerTypeOK
<1>1. ASSUME ConfigNext, UNCHANGED <<queueVars, runnerVars>> PROVE TypeInv'
  <2>1. ConfigTypeOK'
    BY <1>1, ConfigTypeStep DEF TypeInv, WorkerTypeOK
  <2> QED
    BY <1>1, <2>1 DEF TypeInv, WorkerTypeOK, QueuedOnce, queueVars, runnerVars
<1>2. ASSUME NEW e \in Exec, Enqueue(e) PROVE TypeInv'
  BY <1>0, <1>2 DEF Enqueue, TypeInv, WorkerTypeOK, QueuedOnce, runnerVars
<1>3. ASSUME NEW e \in Exec, Promote(e) PROVE TypeInv'
  BY <1>0, <1>3 DEF Promote, TypeInv, WorkerTypeOK, QueuedOnce, runnerVars
<1>4. ASSUME NEW e \in Exec, LoseLock(e) PROVE TypeInv'
  BY <1>0, <1>4 DEF LoseLock, TypeInv, WorkerTypeOK, QueuedOnce, runnerVars
<1>5. ASSUME NEW w \in Runner, NEW e \in Exec, PickUp(w, e) PROVE TypeInv'
  BY <1>0, <1>5 DEF PickUp, TypeInv, WorkerTypeOK, QueuedOnce, Pc
<1>6. ASSUME NEW w \in Runner, RunnerDies(w) PROVE TypeInv'
  BY <1>0, <1>6, GoIdleType DEF RunnerDies, TypeInv, WorkerTypeOK, QueuedOnce, queueVars
<1>7. ASSUME NEW w \in Runner, LookupCache(w) \/ LookupDb(w) PROVE TypeInv'
  <2>1. /\ rpc[w] # "idle" /\ UNCHANGED <<rex, rtry, configVars, queueVars>>
        /\ \E l \in Pc \ {"idle"} : Goto(w, l)
        /\ barred' \in [Runner -> {"no", "disabled", "deleted"}]
    BY <1>7, ReadsType DEF LookupCache, LookupDb, Reads, Pc
  <2>2. /\ rpc' \in [Runner -> Pc]
        /\ rex' \in [Runner -> Exec \cup {None}]
        /\ rtry' \in [Runner -> Nat]
        /\ \A v \in Runner : rpc'[v] # "idle" <=> rex'[v] # None
    BY <2>1, MoveType
  <2> QED
    BY <1>0, <2>1, <2>2 DEF TypeInv, WorkerTypeOK, QueuedOnce, queueVars
<1>8. ASSUME NEW w \in Runner,
             MarkRunning(w) \/ RecordSuccess(w) \/ RecordFailed(w) \/ RecordDead(w)
      PROVE  TypeInv'
  BY <1>8, SetStatusType DEF MarkRunning, RecordSuccess, RecordFailed, RecordDead, Pc
<1>9. ASSUME NEW w \in Runner,
             \/ FindExecution(w) \/ (\E ok \in BOOLEAN : InvokeCallback(w, ok))
             \/ resetDeadStreak(w) \/ DeadLetterAdd(w) \/ CountDead(w) \/ OpenCircuit(w)
             \/ StepThrows(w)
      PROVE  TypeInv'
  <2>1. /\ rpc[w] # "idle" /\ UNCHANGED <<rex, rtry, barred>>
        /\ \E l \in Pc \ {"idle"} : Goto(w, l)
    BY <1>9 DEF FindExecution, InvokeCallback, resetDeadStreak, DeadLetterAdd, CountDead,
                OpenCircuit, StepThrows, At, Pc
  <2>2. /\ rpc' \in [Runner -> Pc]
        /\ rex' \in [Runner -> Exec \cup {None}]
        /\ rtry' \in [Runner -> Nat]
        /\ \A v \in Runner : rpc'[v] # "idle" <=> rex'[v] # None
    BY <2>1, MoveType
  <2>3. rex[w] \in Exec /\ JobOf[rex[w]] \in Job
    BY <2>1, BusyRunner DEF TypeInv
  <2>4. /\ UNCHANGED <<status, bull, owner, made, stalls>>
        /\ dlq' \in [Exec -> Nat] /\ calls' \in [Exec -> Nat] /\ dead' \in [Job -> Nat]
        /\ tripped' \subseteq Job /\ streak' \in [Job -> SUBSET Exec]
    BY <1>9, <2>3 DEF FindExecution, InvokeCallback, resetDeadStreak, DeadLetterAdd, CountDead,
                OpenCircuit, StepThrows, queueVars, TypeInv, WorkerTypeOK
  <2>5. ConfigTypeOK'
    <3>1. CASE UNCHANGED configVars
      BY <1>0, <3>1
    <3>2. CASE OpenCircuit(w) /\ db[JobOf[rex[w]]] # None
      <4> DEFINE j == JobOf[rex[w]]
      <4>1. /\ db' = [db EXCEPT ![j] = [db[j] EXCEPT !.enabled = FALSE]]
            /\ UNCHANGED <<retired, cache, owesDel, owesSet, raced>>
        BY <3>2 DEF OpenCircuit
      <4>2. [db[j] EXCEPT !.enabled = FALSE] \in Config
        BY <2>3, <3>2, DisabledType DEF TypeInv, WorkerTypeOK, ConfigTypeOK
      <4> QED
        BY <2>3, <3>2, <4>1, <4>2 DEF TypeInv, WorkerTypeOK, ConfigTypeOK
    <3> QED
      BY <1>9, <3>1, <3>2 DEF FindExecution, InvokeCallback, resetDeadStreak, DeadLetterAdd,
                CountDead, OpenCircuit, StepThrows, configVars
  <2> QED
    BY <2>1, <2>2, <2>4, <2>5 DEF TypeInv, WorkerTypeOK, QueuedOnce
<1>10. ASSUME NEW w \in Runner, Complete(w) PROVE TypeInv'
  <2>1. rex[w] \in Exec /\ GoIdle(w)
    BY <1>10, BusyRunner DEF Complete, TypeInv
  <2>2. /\ rpc' \in [Runner -> Pc]
        /\ rex' \in [Runner -> Exec \cup {None}]
        /\ rtry' \in [Runner -> Nat]
        /\ barred' \in [Runner -> {"no", "disabled", "deleted"}]
        /\ \A v \in Runner : rpc'[v] # "idle" <=> rex'[v] # None
    BY <2>1, GoIdleType
  <2>3. /\ bull' \in [Exec -> {"none", "wait", "active", "delayed", "completed", "failed"}]
        /\ owner' \in [Exec -> Runner \cup {None}]
        /\ \A e \in Exec : bull'[e] = "active" <=> owner'[e] # None
        /\ \A e \in Exec : bull'[e] = "none" <=> bull[e] = "none"
    BY <1>10, <2>1 DEF Complete, TypeInv, WorkerTypeOK
  <2> QED
    BY <1>0, <1>10, <2>2, <2>3 DEF Complete, TypeInv, WorkerTypeOK, QueuedOnce
<1>11. ASSUME NEW w \in Runner, FailAttempt(w) PROVE TypeInv'
  <2>1. rex[w] \in Exec /\ GoIdle(w)
    BY <1>11, BusyRunner DEF FailAttempt, TypeInv
  <2>2. /\ rpc' \in [Runner -> Pc]
        /\ rex' \in [Runner -> Exec \cup {None}]
        /\ rtry' \in [Runner -> Nat]
        /\ barred' \in [Runner -> {"no", "disabled", "deleted"}]
        /\ \A v \in Runner : rpc'[v] # "idle" <=> rex'[v] # None
    BY <2>1, GoIdleType
  <2>3. /\ bull' \in [Exec -> {"none", "wait", "active", "delayed", "completed", "failed"}]
        /\ owner' \in [Exec -> Runner \cup {None}]
        /\ made' \in [Exec -> Nat]
        /\ \A e \in Exec : bull'[e] = "active" <=> owner'[e] # None
        /\ \A e \in Exec : bull'[e] = "none" <=> bull[e] = "none"
    <3>1. CASE owner[rex[w]] = w
      <4>1. /\ made' = [made EXCEPT ![rex[w]] = @ + 1]
            /\ owner' = [owner EXCEPT ![rex[w]] = None]
            /\ \E b \in {"delayed", "failed"} : bull' = [bull EXCEPT ![rex[w]] = b]
        BY <1>11, <3>1 DEF FailAttempt
      <4> QED
        BY <2>1, <3>1, <4>1 DEF TypeInv, WorkerTypeOK
    <3>2. CASE owner[rex[w]] # w
      BY <1>11, <3>2 DEF FailAttempt, TypeInv, WorkerTypeOK
    <3> QED
      BY <3>1, <3>2
  <2> QED
    BY <1>0, <1>11, <2>2, <2>3 DEF FailAttempt, TypeInv, WorkerTypeOK, QueuedOnce
<1>12. CASE UNCHANGED vars
  BY <1>0, <1>12 DEF vars, queueVars, runnerVars, TypeInv, WorkerTypeOK, QueuedOnce
<1> QED
  BY <1>1, <1>2, <1>3, <1>4, <1>5, <1>6, <1>7, <1>8, <1>9, <1>10, <1>11, <1>12
     DEF Next, Deliver, RunnerStep

\* processExecutionJob, one await at a time beside the API and BullMQ, keeps the
\* types: a busy runner has an execution and an active BullMQ job an owner.
THEOREM WorkerTypeCorrect == Spec => []WorkerTypeOK
<1>1. TypeInv => WorkerTypeOK
  BY DEF TypeInv
<1> QED
  BY <1>1, WorkerTypeInit, WorkerTypeStep, PTL DEF Spec

-----------------------------------------------------------------------------
(***************************************************************************)
(* The steps, as the counting invariants see them.                         *)
(***************************************************************************)

\* Where a runner may go from l, other than back to idle.
Follows(l, m) ==
    \/ m = "throw"
    \/ l = "cache" /\ m \in {"db", "row", "done"}
    \/ l = "db" /\ m \in {"row", "done"}
    \/ l = "row" /\ m \in {"run", "done"}
    \/ l = "run" /\ m = "call"
    \/ l = "call" /\ m \in {"success", "failed", "dead"}
    \/ l = "success" /\ m = "reset"
    \/ l = "reset" /\ m = "announce"
    \/ l = "dead" /\ m = "dlq"
    \/ l = "dlq" /\ m = "count"
    \/ l = "count" /\ m \in {"open", "announce"}
    \/ l = "open" /\ m = "announce"

\* Runner w goes on from one await to the next.
Moves(w) ==
    /\ rpc[w] # "idle" /\ rex[w] \in Exec /\ rpc'[w] \in Pc \ {"idle"}
    /\ \A v \in Runner \ {w} : rpc'[v] = rpc[v]
    /\ Follows(rpc[w], rpc'[w])
    /\ rpc[w] \notin {"done", "throw"}
    /\ UNCHANGED <<rex, rtry, bull, owner, made, stalls>>
    /\ \A e \in Exec :
        /\ calls'[e] = IF e = rex[w] /\ rpc[w] = "call" /\ rpc'[w] # "throw"
                       THEN calls[e] + 1 ELSE calls[e]
        /\ dlq'[e] = IF e = rex[w] /\ rpc[w] = "dlq" /\ rpc'[w] # "throw"
                     THEN dlq[e] + 1 ELSE dlq[e]
    /\ rpc'[w] = "dead" => rtry[w] >= MaxAttempts

\* What runner w learns of its job while it does, and what it does to it.
Learns(w) ==
    /\ \A v \in Runner \ {w} : barred'[v] = barred[v]
    /\ \/ barred'[w] = barred[w] /\ rpc'[w] # "row"
       \/ LET j == JobOf[rex[w]]
          IN  /\ barred'[w] = Objection(j) /\ rpc[w] \in {"cache", "db"}
              /\ rpc[w] = "cache" /\ rpc'[w] = "row" => cache[j] # None /\ cache[j].enabled
              /\ rpc[w] = "db" /\ rpc'[w] = "row" => db[j] # None /\ db[j].enabled
    /\ rpc'[w] = "call" => db[JobOf[rex[w]]] # None
    /\ UNCHANGED <<retired, cache, owesDel, owesSet, raced>>
    /\ tripped \subseteq tripped'
    /\ \A j \in Job \ tripped' : db'[j] = db[j]
    /\ \A j \in Job : db[j] # None => db'[j] # None

\* A step of BullMQ, the scheduler or the API that no runner takes part in and
\* that begins no attempt.
Outside ==
    /\ UNCHANGED <<rpc, rex, rtry, owner, made, stalls, calls, dlq, dead, tripped, streak, barred>>
    /\ [ConfigNext]_configVars
    /\ \A e \in Exec : bull'[e] = bull[e] \/ (bull[e] \in {"none", "delayed"} /\ bull'[e] = "wait")
    /\ \A e \in Exec : \/ status'[e] = status[e]
                       \/ status[e] = "NONE" /\ status'[e] = "PENDING" /\ db'[JobOf[e]] # None

\* What a step of a runner in mid-attempt does to its own place and to BullMQ.
LEMMA MoveFacts ==
    ASSUME TypeInv, NEW w \in Runner,
           RunnerStep(w) \/ StepThrows(w), ~Complete(w), ~FailAttempt(w)
    PROVE  Moves(w)
<1> USE DEF TypeInv, WorkerTypeOK
<1>1. CASE LookupCache(w)
  <2>1. rpc[w] = "cache" /\ \E m \in {"db", "row", "done"} : Goto(w, m)
    BY <1>1 DEF LookupCache, Reads
  <2> QED
    BY <1>1, <2>1 DEF LookupCache, Reads, Goto, Moves, Follows, queueVars, Pc
<1>2. CASE LookupDb(w)
  <2>1. rpc[w] = "db" /\ \E m \in {"row", "done"} : Goto(w, m)
    BY <1>2 DEF LookupDb, Reads
  <2> QED
    BY <1>2, <2>1 DEF LookupDb, Reads, Goto, Moves, Follows, queueVars, Pc
<1>3. CASE FindExecution(w)
  <2>1. rpc[w] = "row" /\ \E m \in {"run", "done"} : Goto(w, m)
    BY <1>3 DEF FindExecution, At
  <2> QED
    BY <1>3, <2>1 DEF FindExecution, At, Goto, Moves, Follows, queueVars, Pc
<1>4. ASSUME NEW l \in {"run", "success", "failed", "dead"}, NEW s, NEW m \in Pc \ {"idle"},
             At(w, l), SetStatus(w, s, m), m = "throw" \/ Follows(l, m), m # "dead"
      PROVE  Moves(w)
  <2>1. rpc[w] = l /\ \E x \in {m, "throw"} : Goto(w, x)
    BY <1>4 DEF At, SetStatus
  <2> QED
    BY <1>4, <2>1 DEF SetStatus, At, Goto, Moves, Follows, Pc
<1>5. CASE MarkRunning(w) \/ RecordSuccess(w) \/ RecordFailed(w) \/ RecordDead(w)
  BY <1>4, <1>5 DEF MarkRunning, RecordSuccess, RecordFailed, RecordDead, Follows, Pc
<1>6. ASSUME NEW ok \in BOOLEAN, InvokeCallback(w, ok) PROVE Moves(w)
  <2>1. /\ rpc[w] = "call"
        /\ \E m \in {"success", "failed", "dead"} : Goto(w, m) /\ (m = "dead" => rtry[w] >= MaxAttempts)
    BY <1>6 DEF InvokeCallback, At, isFinalAttempt
  <2> QED
    BY <1>6, <2>1 DEF InvokeCallback, At, Goto, Moves, Follows, Pc
<1>7. CASE resetDeadStreak(w)
  <2>1. rpc[w] = "reset" /\ \E m \in {"announce", "throw"} : Goto(w, m)
    BY <1>7 DEF resetDeadStreak, At
  <2> QED
    BY <1>7, <2>1 DEF resetDeadStreak, At, Goto, Moves, Follows, Pc
<1>8. CASE DeadLetterAdd(w)
  BY <1>8 DEF DeadLetterAdd, At, Goto, Moves, Follows, Pc
<1>9. CASE CountDead(w)
  <2>1. rpc[w] = "count" /\ \E m \in {"open", "announce", "throw"} : Goto(w, m)
    BY <1>9 DEF CountDead, At
  <2> QED
    BY <1>9, <2>1 DEF CountDead, At, Goto, Moves, Follows, Pc
<1>10. CASE OpenCircuit(w)
  <2>1. rpc[w] = "open" /\ \E m \in {"announce", "throw"} : Goto(w, m)
    BY <1>10 DEF OpenCircuit, At
  <2> QED
    BY <1>10, <2>1 DEF OpenCircuit, At, Goto, Moves, Follows, Pc
<1>11. CASE StepThrows(w)
  BY <1>11 DEF StepThrows, Goto, Moves, Follows, queueVars, Pc
<1> QED
  BY <1>1, <1>2, <1>3, <1>5, <1>6, <1>7, <1>8, <1>9, <1>10, <1>11 DEF RunnerStep

\* What a step of a runner in mid-attempt does to its knowledge of the job.
LEMMA LearnFacts ==
    ASSUME TypeInv, NEW w \in Runner,
           RunnerStep(w) \/ StepThrows(w), ~Complete(w), ~FailAttempt(w)
    PROVE  Learns(w)
<1> USE DEF TypeInv, WorkerTypeOK
<1>1. CASE LookupCache(w)
  <2>1. /\ barred' = [barred EXCEPT ![w] = Objection(JobOf[rex[w]])] /\ rpc[w] = "cache"
        /\ UNCHANGED <<configVars, queueVars>>
    BY <1>1 DEF LookupCache, Reads
  <2>2. rpc'[w] \in {"db", "done"} \/ (rpc'[w] = "row" /\ cache[JobOf[rex[w]]] # None
                                                    /\ cache[JobOf[rex[w]]].enabled)
    BY <1>1 DEF LookupCache, Goto
  <2> QED
    BY <2>1, <2>2 DEF Learns, configVars, queueVars
<1>2. CASE LookupDb(w)
  <2>1. /\ barred' = [barred EXCEPT ![w] = Objection(JobOf[rex[w]])] /\ rpc[w] = "db"
        /\ UNCHANGED <<configVars, queueVars>>
    BY <1>2 DEF LookupDb, Reads
  <2>2. rpc'[w] = "done" \/ (rpc'[w] = "row" /\ db[JobOf[rex[w]]] # None
                                             /\ db[JobOf[rex[w]]].enabled)
    BY <1>2 DEF LookupDb, Goto
  <2> QED
    BY <2>1, <2>2 DEF Learns, configVars, queueVars
<1>3. CASE MarkRunning(w)
  <2>1. /\ UNCHANGED <<configVars, tripped, barred>>
        /\ rpc'[w] \in {"call", "throw"}
        /\ rpc'[w] = "call" => db[JobOf[rex[w]]] # None
    BY <1>3 DEF MarkRunning, SetStatus, Goto, At, RowExists
  <2> QED
    BY <2>1 DEF Learns, configVars
<1>4. ASSUME UNCHANGED <<configVars, tripped, barred>>, rpc'[w] \notin {"row", "call"}
      PROVE  Learns(w)
  BY <1>4 DEF Learns, configVars
<1>5. CASE \/ FindExecution(w) \/ RecordSuccess(w) \/ RecordFailed(w) \/ RecordDead(w)
           \/ (\E ok \in BOOLEAN : InvokeCallback(w, ok))
           \/ resetDeadStreak(w) \/ DeadLetterAdd(w) \/ CountDead(w) \/ StepThrows(w)
  <2>1. UNCHANGED <<configVars, tripped, barred>>
    BY <1>5 DEF FindExecution, RecordSuccess, RecordFailed, RecordDead, InvokeCallback,
                resetDeadStreak, DeadLetterAdd, CountDead, StepThrows, SetStatus, At, queueVars
  <2>2. \E l \in Pc \ {"row", "call"} : Goto(w, l)
    BY <1>5 DEF FindExecution, RecordSuccess, RecordFailed, RecordDead, InvokeCallback,
                resetDeadStreak, DeadLetterAdd, CountDead, StepThrows, SetStatus, Pc
  <2>3. rpc'[w] \notin {"row", "call"}
    BY <2>2 DEF Goto, Pc
  <2> QED
    BY <1>4, <2>1, <2>3
<1>6. CASE OpenCircuit(w)
  <2>1. rex[w] \in Exec /\ JobOf[rex[w]] \in Job /\ UNCHANGED barred
    BY <1>6, BusyRunner DEF OpenCircuit, At
  <2>2. CASE db[JobOf[rex[w]]] # None
    <3>1. /\ db' = [db EXCEPT ![JobOf[rex[w]]].enabled = FALSE]
          /\ tripped' = tripped \cup {JobOf[rex[w]]}
          /\ rpc'[w] = "announce"
      BY <1>6, <2>2 DEF OpenCircuit, Goto
    <3>2. \A j \in Job \ tripped' : db'[j] = db[j]
      BY <3>1 DEF ConfigTypeOK
    <3>3. \A j \in Job : db[j] # None => db'[j] # None
      BY <2>1, <2>2, <3>1, DisabledType, ConfigAssumption DEF ConfigTypeOK
    <3> QED
      BY <1>6, <2>1, <3>1, <3>2, <3>3 DEF OpenCircuit, Learns
  <2>3. CASE db[JobOf[rex[w]]] = None
    BY <1>4, <1>6, <2>1, <2>3 DEF OpenCircuit, Goto, configVars
  <2> QED
    BY <2>2, <2>3
<1> QED
  BY <1>1, <1>2, <1>3, <1>5, <1>6 DEF RunnerStep

\* Every step is one of these.
LEMMA StepKinds ==
    ASSUME TypeInv, [Next]_vars
    PROVE  \/ Outside
           \/ \E w \in Runner, e \in Exec : PickUp(w, e)
           \/ \E e \in Exec : LoseLock(e)
           \/ \E w \in Runner :
                RunnerDies(w) \/ Complete(w) \/ FailAttempt(w) \/ (Moves(w) /\ Learns(w))
<1>1. ASSUME ConfigNext, UNCHANGED <<queueVars, runnerVars>> PROVE Outside
  BY <1>1 DEF Outside, queueVars, runnerVars
<1>2. ASSUME NEW e \in Exec, Enqueue(e) \/ Promote(e) PROVE Outside
  BY <1>2 DEF Enqueue, Promote, Outside, runnerVars, configVars, TypeInv, WorkerTypeOK, QueuedOnce
<1>3. ASSUME UNCHANGED vars PROVE Outside
  BY <1>3 DEF vars, queueVars, runnerVars, Outside
<1>4. ASSUME NEW w \in Runner, RunnerStep(w) \/ StepThrows(w)
      PROVE  (Moves(w) /\ Learns(w)) \/ Complete(w) \/ FailAttempt(w)
  BY <1>4, MoveFacts, LearnFacts
<1> QED
  BY <1>1, <1>2, <1>3, <1>4 DEF Next, Deliver

-----------------------------------------------------------------------------
(***************************************************************************)
(* Callbacks.                                                              *)
(***************************************************************************)

\* BullMQ begins no attempt beyond the last.
AttemptsBounded ==
    \A e \in Exec : made[e] <= MaxAttempts /\ (bull[e] # "failed" => made[e] < MaxAttempts)

\* An attempt that is neither counted by made nor by stalls.
Open(e) == IF bull[e] \in {"active", "completed"} THEN 1 ELSE 0

\* Runners on e that have their callback ahead of them.
Uncalled(e) ==
    {w \in Runner : rex[w] = e /\ rpc[w] \in {"cache", "db", "row", "run", "call"}}

\* Every callback sent or to come is one of an attempt of its own.
CallsCounted ==
    \A e \in Exec :
        /\ IsFiniteSet(Uncalled(e))
        /\ calls[e] + Cardinality(Uncalled(e)) <= made[e] + stalls[e] + Open(e)

\* Every step keeps the bound on the attempts BullMQ makes.
LEMMA AttemptsStep ==
    ASSUME TypeInv, AttemptsBounded, [Next]_vars
    PROVE  AttemptsBounded'
<1> USE WorkerAssumption DEF TypeInv, WorkerTypeOK, AttemptsBounded
<1>1. CASE Outside
  BY <1>1 DEF Outside
<1>2. ASSUME NEW w \in Runner, NEW e \in Exec, PickUp(w, e) PROVE AttemptsBounded'
  BY <1>2 DEF PickUp
<1>3. ASSUME NEW e \in Exec, LoseLock(e) PROVE AttemptsBounded'
  BY <1>3 DEF LoseLock
<1>4. ASSUME NEW w \in Runner, RunnerDies(w) \/ Moves(w) PROVE AttemptsBounded'
  BY <1>4 DEF RunnerDies, Moves, queueVars
<1>5. ASSUME NEW w \in Runner, Complete(w) PROVE AttemptsBounded'
  <2>1. rex[w] \in Exec
    BY <1>5, BusyRunner DEF Complete
  <2> QED
    BY <1>5, <2>1 DEF Complete
<1>6. ASSUME NEW w \in Runner, FailAttempt(w) PROVE AttemptsBounded'
  <2>1. rex[w] \in Exec
    BY <1>6, BusyRunner DEF FailAttempt
  <2>2. CASE owner[rex[w]] = w
    BY <1>6, <2>1, <2>2 DEF FailAttempt
  <2>3. CASE owner[rex[w]] # w
    BY <1>6, <2>3 DEF FailAttempt
  <2> QED
    BY <2>2, <2>3
<1> QED
  BY <1>1, <1>2, <1>3, <1>4, <1>5, <1>6, StepKinds

\* A step that adds no runner to Uncalled(e), sends no callback for e and takes
\* nothing from the attempts of e.
LEMMA CallsKept ==
    ASSUME TypeInv, TypeInv', CallsCounted, NEW e \in Exec,
           Uncalled(e)' \subseteq Uncalled(e), calls'[e] = calls[e],
           made'[e] + stalls'[e] + Open(e)' >= made[e] + stalls[e] + Open(e)
    PROVE  /\ IsFiniteSet(Uncalled(e)')
           /\ calls'[e] + Cardinality(Uncalled(e)') <= made'[e] + stalls'[e] + Open(e)'
<1>1. /\ IsFiniteSet(Uncalled(e)') /\ IsFiniteSet(Uncalled(e))
      /\ Cardinality(Uncalled(e)') <= Cardinality(Uncalled(e))
      /\ Cardinality(Uncalled(e)') \in Nat /\ Cardinality(Uncalled(e)) \in Nat
  BY FS_Subset, FS_CardinalityType DEF CallsCounted
<1>2. /\ calls[e] \in Nat /\ made[e] \in Nat /\ stalls[e] \in Nat /\ Open(e) \in Nat
      /\ made'[e] \in Nat /\ stalls'[e] \in Nat /\ Open(e)' \in Nat
  BY DEF TypeInv, WorkerTypeOK, Open
<1>3. calls[e] + Cardinality(Uncalled(e)) <= made[e] + stalls[e] + Open(e)
  BY DEF CallsCounted
<1> QED
  BY <1>1, <1>2, <1>3

\* Every step keeps the callbacks within the attempts begun.
LEMMA CallsStep ==
    ASSUME TypeInv, CallsCounted, [Next]_vars
    PROVE  CallsCounted'
<1> TypeInv'
  BY WorkerTypeStep
<1> SUFFICES ASSUME NEW e \in Exec
             PROVE  /\ IsFiniteSet(Uncalled(e)')
                    /\ calls'[e] + Cardinality(Uncalled(e)') <= made'[e] + stalls'[e] + Open(e)'
  BY DEF CallsCounted
<1> DEFINE Goal == /\ IsFiniteSet(Uncalled(e)')
                   /\ calls'[e] + Cardinality(Uncalled(e)') <= made'[e] + stalls'[e] + Open(e)'
<1>0. /\ calls[e] \in Nat /\ made[e] \in Nat /\ stalls[e] \in Nat /\ Open(e) \in Nat
      /\ Cardinality(Uncalled(e)) \in Nat
      /\ IsFiniteSet(Uncalled(e))
      /\ calls[e] + Cardinality(Uncalled(e)) <= made[e] + stalls[e] + Open(e)
  BY FS_CardinalityType DEF TypeInv, WorkerTypeOK, Open, CallsCounted
<1>1. ASSUME Outside PROVE Goal
  <2>1. UNCHANGED Uncalled(e) /\ UNCHANGED Open(e)
    BY <1>1 DEF Outside, Uncalled, Open
  <2> QED
    BY <1>0, <1>1, <2>1 DEF Outside
<1>2. ASSUME NEW w \in Runner, NEW f \in Exec, PickUp(w, f) PROVE Goal
  <2>1. CASE f # e
    <3>1. /\ Uncalled(e)' \subseteq Uncalled(e) /\ calls'[e] = calls[e]
          /\ made'[e] + stalls'[e] + Open(e)' = made[e] + stalls[e] + Open(e)
      BY <1>2, <2>1 DEF PickUp, Uncalled, Open, TypeInv, WorkerTypeOK
    <3> QED
      BY <1>0, <3>1, CallsKept
  <2>2. CASE f = e
    <3>1. /\ Uncalled(e)' = Uncalled(e) \cup {w} /\ w \notin Uncalled(e)
          /\ Open(e) = 0 /\ Open(e)' = 1
          /\ UNCHANGED <<calls, made, stalls>>
      BY <1>2, <2>2 DEF PickUp, Uncalled, Open, TypeInv, WorkerTypeOK
    <3>2. /\ IsFiniteSet(Uncalled(e)')
          /\ Cardinality(Uncalled(e)') = Cardinality(Uncalled(e)) + 1
      BY <1>0, <3>1, FS_AddElement
    <3> HIDE DEF Uncalled, Open
    <3> QED
      BY <1>0, <3>1, <3>2
  <2> QED
    BY <2>1, <2>2
<1>3. ASSUME NEW f \in Exec, LoseLock(f) PROVE Goal
  <2>1. Uncalled(e)' \subseteq Uncalled(e) /\ calls'[e] = calls[e]
    BY <1>3 DEF LoseLock, Uncalled, runnerVars
  <2>2. made'[e] + stalls'[e] + Open(e)' >= made[e] + stalls[e] + Open(e)
    BY <1>3, <1>0 DEF LoseLock, Open, TypeInv, WorkerTypeOK
  <2> QED
    BY <2>1, <2>2, CallsKept
<1>4. ASSUME NEW w \in Runner, RunnerDies(w) PROVE Goal
  <2>1. Uncalled(e)' \subseteq Uncalled(e) /\ UNCHANGED <<calls, made, stalls, bull>>
    BY <1>4 DEF RunnerDies, GoIdle, Uncalled, queueVars, TypeInv, WorkerTypeOK
  <2>2. UNCHANGED Open(e)
    BY <2>1 DEF Open
  <2> QED
    BY <1>0, <2>1, <2>2, CallsKept
<1>5. ASSUME NEW w \in Runner, Complete(w) PROVE Goal
  <2>1. Uncalled(e)' \subseteq Uncalled(e) /\ UNCHANGED <<calls, made, stalls>> /\ rex[w] \in Exec
    BY <1>5, BusyRunner DEF Complete, GoIdle, Uncalled, TypeInv, WorkerTypeOK
  <2>2. Open(e)' >= Open(e)
    BY <1>5, <2>1 DEF Complete, Open, TypeInv, WorkerTypeOK
  <2>3. Open(e)' \in Nat
    BY DEF Open
  <2> QED
    BY <1>0, <2>1, <2>2, <2>3, CallsKept
<1>6. ASSUME NEW w \in Runner, FailAttempt(w) PROVE Goal
  <2>1. Uncalled(e)' \subseteq Uncalled(e) /\ UNCHANGED <<calls, stalls>> /\ rex[w] \in Exec
    BY <1>6, BusyRunner DEF FailAttempt, GoIdle, Uncalled, TypeInv, WorkerTypeOK
  <2>2. made'[e] + Open(e)' >= made[e] + Open(e)
    <3>1. CASE owner[rex[w]] = w /\ e = rex[w]
      BY <1>0, <1>6, <2>1, <3>1 DEF FailAttempt, Open, TypeInv, WorkerTypeOK
    <3>2. CASE owner[rex[w]] # w \/ e # rex[w]
      <4>1. made'[e] = made[e] /\ bull'[e] = bull[e]
        BY <1>6, <2>1, <3>2 DEF FailAttempt, TypeInv, WorkerTypeOK
      <4> QED
        BY <1>0, <4>1 DEF Open
    <3> QED
      BY <3>1, <3>2
  <2>3. Open(e)' \in Nat /\ made'[e] \in Nat
    BY DEF Open, TypeInv, WorkerTypeOK
  <2> QED
    BY <1>0, <2>1, <2>2, <2>3, CallsKept
<1>7. ASSUME NEW w \in Runner, Moves(w) PROVE Goal
  <2>1. Uncalled(e)' \subseteq Uncalled(e) /\ UNCHANGED <<made, stalls>> /\ UNCHANGED Open(e)
    BY <1>7 DEF Moves, Follows, Uncalled, Open
  <2>2. CASE calls'[e] = calls[e]
    BY <1>0, <2>1, <2>2, CallsKept
  <2>3. CASE calls'[e] # calls[e]
    <3>1. /\ e = rex[w] /\ rpc[w] = "call" /\ rpc'[w] \in {"success", "failed", "dead"}
          /\ calls'[e] = calls[e] + 1
      BY <1>7, <2>3 DEF Moves, Follows
    <3>2. w \in Uncalled(e) /\ Uncalled(e)' = Uncalled(e) \ {w}
      BY <1>7, <3>1 DEF Moves, Uncalled
    <3>3. /\ IsFiniteSet(Uncalled(e)')
          /\ Cardinality(Uncalled(e)') = Cardinality(Uncalled(e)) - 1
      BY <1>0, <3>2, FS_RemoveElement
    <3> QED
      BY <1>0, <2>1, <3>1, <3>3
  <2> QED
    BY <2>2, <2>3
<1> HIDE DEF Goal
<1>8. Goal
  BY <1>1, <1>2, <1>3, <1>4, <1>5, <1>6, <1>7, StepKinds
<1> QED
  BY <1>8 DEF Goal

\* "callback retried exactly `attempts` times" (README.md), as an upper bound
\* under every fault: runners that die or lose their lock and go on, calls that
\* throw at any await.
THEOREM CallbacksBounded == Spec => []CallbackBudget
<1>1. Init => AttemptsBounded /\ CallsCounted
  <2>1. Init => AttemptsBounded
    BY WorkerAssumption DEF Init, AttemptsBounded
  <2>2. ASSUME Init, NEW e \in Exec
        PROVE  /\ IsFiniteSet(Uncalled(e))
               /\ calls[e] + Cardinality(Uncalled(e)) <= made[e] + stalls[e] + Open(e)
    <3>1. Uncalled(e) = {}
      BY <2>2 DEF Init, Uncalled
    <3> QED
      BY <2>2, <3>1, FS_EmptySet DEF Init, Open
  <2> QED
    BY <2>1, <2>2 DEF CallsCounted
<1>2. TypeInv /\ AttemptsBounded /\ CallsCounted => CallbackBudget
  <2> SUFFICES ASSUME TypeInv, AttemptsBounded, CallsCounted, NEW e \in Exec
               PROVE  calls[e] <= MaxAttempts + stalls[e]
    BY DEF CallbackBudget
  <2>1. /\ calls[e] \in Nat /\ made[e] \in Nat /\ stalls[e] \in Nat
        /\ Cardinality(Uncalled(e)) \in Nat
        /\ calls[e] + Cardinality(Uncalled(e)) <= made[e] + stalls[e] + Open(e)
    BY FS_CardinalityType DEF TypeInv, WorkerTypeOK, CallsCounted
  <2>2. Open(e) \in {0, 1} /\ made[e] + Open(e) <= MaxAttempts
    BY <2>1, WorkerAssumption DEF Open, AttemptsBounded
  <2> QED
    BY <2>1, <2>2, WorkerAssumption
<1>3. TypeInv /\ AttemptsBounded /\ CallsCounted /\ [Next]_vars
        => (TypeInv /\ AttemptsBounded /\ CallsCounted)'
  BY WorkerTypeStep, AttemptsStep, CallsStep
<1> QED
  BY <1>1, <1>2, <1>3, WorkerTypeInit, PTL DEF Spec

-----------------------------------------------------------------------------
(***************************************************************************)
(* Dead letters.                                                           *)
(***************************************************************************)

\* Runners in the last attempt of e that may still put it on the queue.
Final(e) ==
    {w \in Runner : /\ rex[w] = e /\ rtry[w] >= MaxAttempts
                    /\ rpc[w] \in {"cache", "db", "row", "run", "call", "dead", "dlq"}}

\* The attempt of e that is under way, or done and the last.
Last(e) == IF bull[e] \in {"active", "completed"} \/ made[e] >= MaxAttempts THEN 1 ELSE 0

\* A runner's number is at most that of the attempt that is due, and it is the
\* last one of whoever dead-letters.
LastAttempts ==
    /\ \A w \in Runner :
        /\ rpc[w] # "idle" => rtry[w] <= made[rex[w]] + 1
        /\ rpc[w] \in {"dead", "dlq"} => rtry[w] >= MaxAttempts
    /\ \A e \in Exec : dlq[e] > 0 => made[e] + 1 >= MaxAttempts

\* Every dead letter there is or may come is one of a last attempt.
LettersCounted ==
    \A e \in Exec :
        /\ IsFiniteSet(Final(e))
        /\ dlq[e] + Cardinality(Final(e)) <= stalls[e] + Last(e)

\* Every step keeps the numbers of the attempts, and dead letters to last attempts.
LEMMA LastAttemptsStep ==
    ASSUME TypeInv, LastAttempts, [Next]_vars
    PROVE  LastAttempts'
<1> USE DEF TypeInv, WorkerTypeOK, LastAttempts
<1>0. \A v \in Runner : rpc[v] # "idle" => rex[v] \in Exec
  OBVIOUS
<1>1. CASE Outside
  BY <1>1 DEF Outside
<1>2. ASSUME NEW w \in Runner, NEW e \in Exec, PickUp(w, e) PROVE LastAttempts'
  <2>1. /\ \A v \in Runner \ {w} : rpc'[v] = rpc[v] /\ rex'[v] = rex[v] /\ rtry'[v] = rtry[v]
        /\ rpc'[w] = "cache" /\ rex'[w] = e /\ rtry'[w] = made[e] + 1
        /\ UNCHANGED <<made, dlq>>
    BY <1>2 DEF PickUp
  <2> QED
    BY <1>0, <2>1
<1>3. ASSUME NEW e \in Exec, LoseLock(e) PROVE LastAttempts'
  BY <1>3 DEF LoseLock, runnerVars
<1>4. ASSUME NEW w \in Runner, GoIdle(w), UNCHANGED dlq, \A e \in Exec : made'[e] >= made[e],
             made' \in [Exec -> Nat]
      PROVE  LastAttempts'
  <2>1. /\ \A v \in Runner \ {w} : rpc'[v] = rpc[v] /\ rex'[v] = rex[v] /\ rtry'[v] = rtry[v]
        /\ rpc'[w] = "idle"
    BY <1>4 DEF GoIdle
  <2> QED
    BY <1>0, <1>4, <2>1, WorkerAssumption
<1>5. ASSUME NEW w \in Runner, RunnerDies(w) \/ Complete(w) PROVE LastAttempts'
  BY <1>4, <1>5 DEF RunnerDies, Complete, queueVars
<1>6. ASSUME NEW w \in Runner, FailAttempt(w) PROVE LastAttempts'
  <2>1. rex[w] \in Exec
    BY <1>6 DEF FailAttempt
  <2>2. made' \in [Exec -> Nat] /\ \A e \in Exec : made'[e] >= made[e]
    BY <1>6, <2>1 DEF FailAttempt
  <2> QED
    BY <1>4, <1>6, <2>2 DEF FailAttempt
<1>7. ASSUME NEW w \in Runner, Moves(w) PROVE LastAttempts'
  <2>1. /\ rpc[w] # "idle" /\ rex[w] \in Exec
        /\ \A v \in Runner \ {w} : rpc'[v] = rpc[v]
        /\ UNCHANGED <<rex, rtry, made>>
        /\ rpc'[w] = "dead" => rtry[w] >= MaxAttempts
        /\ rpc'[w] = "dlq" => rpc[w] = "dead"
        /\ \A e \in Exec : dlq'[e] = dlq[e] \/ (e = rex[w] /\ rpc[w] = "dlq")
    BY <1>7 DEF Moves, Follows
  <2>2. \A v \in Runner : rpc'[v] # "idle" => rpc[v] # "idle"
    BY <2>1
  <2>3. \A v \in Runner : rpc'[v] \in {"dead", "dlq"} => rtry[v] >= MaxAttempts
    BY <2>1
  <2>4. \A e \in Exec : dlq'[e] > 0 => made[e] + 1 >= MaxAttempts
    BY <2>1, WorkerAssumption
  <2> QED
    BY <2>1, <2>2, <2>3, <2>4
<1> QED
  BY <1>1, <1>2, <1>3, <1>5, <1>6, <1>7, StepKinds

\* A step that adds no runner to Final(e) and no dead letter to e, and takes
\* nothing from its last attempts.
LEMMA LettersKept ==
    ASSUME TypeInv, TypeInv', LettersCounted, NEW e \in Exec,
           Final(e)' \subseteq Final(e), dlq'[e] = dlq[e],
           stalls'[e] + Last(e)' >= stalls[e] + Last(e)
    PROVE  /\ IsFiniteSet(Final(e)')
           /\ dlq'[e] + Cardinality(Final(e)') <= stalls'[e] + Last(e)'
<1>1. /\ IsFiniteSet(Final(e)') /\ IsFiniteSet(Final(e))
      /\ Cardinality(Final(e)') <= Cardinality(Final(e))
      /\ Cardinality(Final(e)') \in Nat /\ Cardinality(Final(e)) \in Nat
  BY FS_Subset, FS_CardinalityType DEF LettersCounted
<1>2. /\ dlq[e] \in Nat /\ stalls[e] \in Nat /\ Last(e) \in Nat
      /\ stalls'[e] \in Nat /\ Last(e)' \in Nat
  BY DEF TypeInv, WorkerTypeOK, Last
<1>3. dlq[e] + Cardinality(Final(e)) <= stalls[e] + Last(e)
  BY DEF LettersCounted
<1> QED
  BY <1>1, <1>2, <1>3

\* Every step keeps the dead letters within the last attempts begun.
LEMMA LettersStep ==
    ASSUME TypeInv, AttemptsBounded, LastAttempts, LettersCounted, [Next]_vars
    PROVE  LettersCounted'
<1> TypeInv'
  BY WorkerTypeStep
<1> DEFINE Goal(e) == /\ IsFiniteSet(Final(e)')
                      /\ dlq'[e] + Cardinality(Final(e)') <= stalls'[e] + Last(e)'
<1> SUFFICES ASSUME NEW e \in Exec PROVE Goal(e)
  BY DEF LettersCounted
<1>0. /\ dlq[e] \in Nat /\ made[e] \in Nat /\ stalls[e] \in Nat /\ Last(e) \in Nat
      /\ Cardinality(Final(e)) \in Nat
      /\ IsFiniteSet(Final(e))
      /\ dlq[e] + Cardinality(Final(e)) <= stalls[e] + Last(e)
  BY FS_CardinalityType DEF TypeInv, WorkerTypeOK, Last, LettersCounted
<1>1. ASSUME Outside PROVE Goal(e)
  <2>1. UNCHANGED Final(e) /\ UNCHANGED Last(e)
    BY <1>1 DEF Outside, Final, Last
  <2> QED
    BY <1>0, <1>1, <2>1 DEF Outside
<1>2. ASSUME NEW w \in Runner, NEW f \in Exec, PickUp(w, f) PROVE Goal(e)
  <2>0. /\ \A v \in Runner \ {w} : rpc'[v] = rpc[v] /\ rex'[v] = rex[v] /\ rtry'[v] = rtry[v]
        /\ rpc[w] = "idle" /\ rpc'[w] = "cache" /\ rex'[w] = f /\ rtry'[w] = made[f] + 1
        /\ UNCHANGED <<made, dlq, stalls>>
        /\ \A g \in Exec : bull'[g] = IF g = f THEN "active" ELSE bull[g]
        /\ bull[f] = "wait"
    BY <1>2 DEF PickUp, TypeInv, WorkerTypeOK
  <2>1. CASE f # e \/ made[e] + 1 < MaxAttempts
    <3>1. Final(e)' \subseteq Final(e)
      BY <1>0, <2>0, <2>1, WorkerAssumption DEF Final
    <3>2. Last(e)' >= Last(e)
      BY <2>0 DEF Last
    <3>3. Last(e)' \in Nat
      BY DEF Last
    <3> QED
      BY <1>0, <2>0, <3>1, <3>2, <3>3, LettersKept
  <2>2. CASE f = e /\ made[e] + 1 >= MaxAttempts
    <3>1. Final(e)' = Final(e) \cup {w} /\ w \notin Final(e)
      BY <2>0, <2>2 DEF Final
    <3>2. Last(e) = 0 /\ Last(e)' = 1
      BY <1>0, <2>0, <2>2, WorkerAssumption DEF Last, AttemptsBounded
    <3>3. /\ IsFiniteSet(Final(e)')
          /\ Cardinality(Final(e)') = Cardinality(Final(e)) + 1
      BY <1>0, <3>1, FS_AddElement
    <3> QED
      BY <1>0, <2>0, <3>2, <3>3
  <2> QED
    BY <1>0, <2>1, <2>2, WorkerAssumption
<1>3. ASSUME NEW f \in Exec, LoseLock(f) PROVE Goal(e)
  <2>1. Final(e)' \subseteq Final(e) /\ dlq'[e] = dlq[e]
    BY <1>3 DEF LoseLock, Final, runnerVars
  <2>2. stalls'[e] + Last(e)' >= stalls[e] + Last(e)
    BY <1>3, <1>0 DEF LoseLock, Last, TypeInv, WorkerTypeOK
  <2> QED
    BY <2>1, <2>2, LettersKept
<1>4. ASSUME NEW w \in Runner, GoIdle(w), UNCHANGED <<dlq, stalls>>, Last(e)' >= Last(e)
      PROVE  Goal(e)
  <2>1. Final(e)' \subseteq Final(e)
    BY <1>4 DEF GoIdle, Final, TypeInv, WorkerTypeOK
  <2>2. Last(e)' \in Nat
    BY DEF Last
  <2> QED
    BY <1>0, <1>4, <2>1, <2>2, LettersKept
<1>5. ASSUME NEW w \in Runner, RunnerDies(w) PROVE Goal(e)
  <2>1. Last(e)' >= Last(e)
    BY <1>5 DEF RunnerDies, queueVars, Last
  <2> QED
    BY <1>4, <1>5, <2>1 DEF RunnerDies, queueVars
<1>6. ASSUME NEW w \in Runner, Complete(w) PROVE Goal(e)
  <2>1. rex[w] \in Exec
    BY <1>6, BusyRunner DEF Complete, TypeInv
  <2>2. Last(e)' >= Last(e)
    BY <1>6, <2>1 DEF Complete, Last, TypeInv, WorkerTypeOK
  <2> QED
    BY <1>4, <1>6, <2>2 DEF Complete
<1>7. ASSUME NEW w \in Runner, FailAttempt(w) PROVE Goal(e)
  <2>1. rex[w] \in Exec
    BY <1>7, BusyRunner DEF FailAttempt, TypeInv
  <2>2. CASE owner[rex[w]] # w \/ e # rex[w] \/ made[e] + 1 >= MaxAttempts
    <3>1. \/ made'[e] = made[e] /\ bull'[e] = bull[e]
          \/ made'[e] = made[e] + 1 /\ made[e] + 1 >= MaxAttempts
      BY <1>7, <2>1, <2>2 DEF FailAttempt, TypeInv, WorkerTypeOK
    <3>2. Last(e)' >= Last(e)
      BY <1>0, <3>1, WorkerAssumption DEF Last
    <3> QED
      BY <1>4, <1>7, <3>2 DEF FailAttempt
  <2>3. CASE e = rex[w] /\ made[e] + 1 < MaxAttempts
    <3>1. dlq[e] = 0
      BY <1>0, <2>3, WorkerAssumption DEF LastAttempts
    <3>2. \A v \in Runner : rex[v] = e /\ rpc[v] # "idle" => rtry[v] < MaxAttempts
      BY <1>0, <2>3, WorkerAssumption DEF LastAttempts, TypeInv, WorkerTypeOK
    <3>3. Final(e) = {}
      <4>1. \A v \in Runner : rtry[v] \in Nat /\ (rex[v] = e => rpc[v] # "idle")
        BY WorkerAssumption DEF TypeInv, WorkerTypeOK
      <4> QED
        BY <3>2, <4>1, WorkerAssumption DEF Final
    <3>4. Final(e)' = {}
      BY <1>7, <3>3 DEF FailAttempt, GoIdle, Final, TypeInv, WorkerTypeOK
    <3>5. dlq'[e] = 0 /\ stalls'[e] \in Nat /\ Last(e)' \in Nat
      BY <1>0, <1>7, <3>1 DEF FailAttempt, Last
    <3> QED
      BY <3>4, <3>5, FS_EmptySet
  <2> QED
    BY <1>0, <2>2, <2>3, WorkerAssumption
<1>8. ASSUME NEW w \in Runner, Moves(w) PROVE Goal(e)
  <2>1. /\ rpc[w] # "idle" /\ \A v \in Runner \ {w} : rpc'[v] = rpc[v]
        /\ UNCHANGED <<rex, rtry, made, stalls, bull>>
    BY <1>8 DEF Moves
  <2>2. Final(e)' \subseteq Final(e)
    BY <1>8, <2>1 DEF Moves, Follows, Final
  <2>3. UNCHANGED Last(e)
    BY <2>1 DEF Last
  <2>4. CASE dlq'[e] = dlq[e]
    BY <1>0, <2>1, <2>2, <2>3, <2>4, LettersKept
  <2>5. CASE dlq'[e] # dlq[e]
    <3>1. e = rex[w] /\ rpc[w] = "dlq" /\ rpc'[w] = "count" /\ dlq'[e] = dlq[e] + 1
      BY <1>8, <2>5 DEF Moves, Follows
    <3>2. w \in Final(e)
      BY <3>1 DEF LastAttempts, Final
    <3>3. Final(e)' = Final(e) \ {w}
      BY <2>1, <3>1 DEF Final
    <3>4. /\ IsFiniteSet(Final(e)')
          /\ Cardinality(Final(e)') = Cardinality(Final(e)) - 1
      BY <1>0, <3>2, <3>3, FS_RemoveElement
    <3> QED
      BY <1>0, <2>1, <2>3, <3>1, <3>4
  <2> QED
    BY <2>4, <2>5
<1> HIDE DEF Goal
<1> QED
  BY <1>1, <1>2, <1>3, <1>5, <1>6, <1>7, <1>8, StepKinds

\* deadLetter: a retried or doubled last attempt dead-letters again, but never
\* more often than locks were lost, whatever else fails.
THEOREM DeadLettersBounded == Spec => []DeadLetterBudget
<1>1. Init => AttemptsBounded /\ LastAttempts
  BY WorkerAssumption DEF Init, AttemptsBounded, LastAttempts
<1>2. Init => LettersCounted
  <2> SUFFICES ASSUME Init, NEW e \in Exec
               PROVE  /\ IsFiniteSet(Final(e))
                      /\ dlq[e] + Cardinality(Final(e)) <= stalls[e] + Last(e)
    BY DEF LettersCounted
  <2>1. Final(e) = {}
    BY DEF Init, Final
  <2> QED
    BY <2>1, FS_EmptySet, WorkerAssumption DEF Init, Last
<1>3. TypeInv /\ LettersCounted => DeadLetterBudget
  <2> SUFFICES ASSUME TypeInv, LettersCounted, NEW e \in Exec
               PROVE  dlq[e] <= 1 + stalls[e]
    BY DEF DeadLetterBudget
  <2>1. /\ dlq[e] \in Nat /\ stalls[e] \in Nat /\ Last(e) \in {0, 1}
        /\ Cardinality(Final(e)) \in Nat
        /\ dlq[e] + Cardinality(Final(e)) <= stalls[e] + Last(e)
    BY FS_CardinalityType DEF TypeInv, WorkerTypeOK, LettersCounted, Last
  <2> QED
    BY <2>1
<1>4. TypeInv /\ AttemptsBounded /\ LastAttempts /\ LettersCounted /\ [Next]_vars
        => (TypeInv /\ AttemptsBounded /\ LastAttempts /\ LettersCounted)'
  BY WorkerTypeStep, AttemptsStep, LastAttemptsStep, LettersStep
<1> QED
  BY <1>1, <1>2, <1>3, <1>4, WorkerTypeInit, PTL DEF Spec

-----------------------------------------------------------------------------
(***************************************************************************)
(* What an attempt knows of its job.                                       *)
(***************************************************************************)

\* An attempt that met the deletion of its job finds no row to run.
DeletedKnown ==
    \A w \in Runner :
        /\ barred[w] = "deleted" => rpc[w] # "idle" /\ JobOf[rex[w]] \in retired
        /\ rpc[w] = "call" => barred[w] # "deleted"

\* An attempt that met the disabled row goes no further, unless it was the
\* breaker that disabled it and the copy was not told.
DisabledKnown ==
    /\ ConfigInv(tripped)
    /\ \A w \in Runner :
        rpc[w] \in {"row", "run", "call"} /\ barred[w] = "disabled" => JobOf[rex[w]] \in tripped

\* Only a job its breaker has disabled is called although it was found disabled.
CalledOnlyIfTripped ==
    \A w \in Runner : rpc[w] = "call" /\ barred[w] = "disabled" => JobOf[rex[w]] \in tripped

\* An id is never used again.
LEMMA RetiredGrows == [ConfigNext]_configVars => retired \subseteq retired'
  BY DEF ConfigNext, RedisStep, createJob, updateJob, deleteJob, bulkSetEnabled,
         invalidateJobConfig, cacheJobConfig, RequestDies, ExpireCache, configVars

\* Every step keeps it true that a runner about to call has not met the deletion of its job.
LEMMA DeletedStep ==
    ASSUME TypeInv, DeletedKnown, [Next]_vars
    PROVE  DeletedKnown'
<1> USE DEF TypeInv, WorkerTypeOK, DeletedKnown
<1>1. CASE Outside
  BY <1>1, RetiredGrows DEF Outside
<1>2. ASSUME NEW w \in Runner, NEW e \in Exec, PickUp(w, e) PROVE DeletedKnown'
  BY <1>2 DEF PickUp, configVars
<1>3. ASSUME NEW e \in Exec, LoseLock(e) PROVE DeletedKnown'
  BY <1>3 DEF LoseLock, configVars, runnerVars
<1>4. ASSUME NEW w \in Runner, RunnerDies(w) \/ Complete(w) \/ FailAttempt(w)
      PROVE  DeletedKnown'
  <2>1. GoIdle(w) /\ UNCHANGED retired
    BY <1>4 DEF RunnerDies, Complete, FailAttempt, configVars
  <2> QED
    BY <2>1 DEF GoIdle
<1>5. ASSUME NEW w \in Runner, Moves(w), Learns(w) PROVE DeletedKnown'
  <2>1. /\ \A v \in Runner \ {w} : rpc'[v] = rpc[v] /\ barred'[v] = barred[v]
        /\ rpc'[w] # "idle" /\ UNCHANGED <<rex, retired>>
        /\ rex[w] \in Exec /\ JobOf[rex[w]] \in Job
        /\ rpc'[w] = "call" => rpc[w] = "run"
    BY <1>5, BusyRunner DEF Moves, Learns, Follows
  <2>2. barred'[w] = "deleted" => JobOf[rex[w]] \in retired
    BY <1>5 DEF Learns, Objection
  <2>3. rpc'[w] = "call" => barred'[w] # "deleted"
    BY <1>5, <2>1, <2>2 DEF Learns, ConfigTypeOK
  <2> QED
    BY <2>1, <2>2, <2>3
<1> QED
  BY <1>1, <1>2, <1>3, <1>4, <1>5, StepKinds

\* The lookups of worker.ts: with every fault, overlapping and interrupted
\* requests included, an attempt that looks its job up after the deletion
\* sends no callback.
THEOREM DeletedNeverCalled == Spec => []DeletedJobNotCalled
<1>1. Init => DeletedKnown
  BY DEF Init, DeletedKnown
<1>2. DeletedKnown => DeletedJobNotCalled
  BY DEF DeletedKnown, DeletedJobNotCalled
<1>3. TypeInv /\ DeletedKnown /\ [Next]_vars => (TypeInv /\ DeletedKnown)'
  BY WorkerTypeStep, DeletedStep
<1> QED
  BY <1>1, <1>2, <1>3, WorkerTypeInit, PTL DEF Spec

\* ConfigInv of JobConfigProofs, with the breaker writing rows beside the API.
LEMMA ConfigInvInWorker ==
    ASSUME TypeInv, ConfigInv(tripped), [Next]_vars
    PROVE  ConfigInv(tripped)'
<1> ConfigTypeOK'
  BY WorkerTypeStep DEF TypeInv, WorkerTypeOK
<1>1. CASE Outside
  <2>1. ASSUME NEW X, X = tripped PROVE ConfigInv(X)'
    BY <1>1, <2>1, ConfigInvStep DEF Outside
  <2>2. tripped' = tripped
    BY <1>1 DEF Outside
  <2>3. OwedIsRowBut(tripped)' /\ CopyIsRowBut(tripped)'
    BY <2>1, <2>2 DEF ConfigInv, OwedIsRowBut, CopyIsRowBut
  <2> QED
    BY <2>3 DEF ConfigInv
<1>2. ASSUME UNCHANGED <<configVars, tripped>> PROVE ConfigInv(tripped)'
  <2>1. OwedIsRowBut(tripped)' /\ CopyIsRowBut(tripped)'
    BY <1>2 DEF configVars, ConfigInv, OwedIsRowBut, CopyIsRowBut, InFlight
  <2> QED
    BY <2>1 DEF ConfigInv
<1>3. ASSUME NEW w \in Runner, Learns(w) PROVE ConfigInv(tripped)'
  <2>1. /\ UNCHANGED <<cache, owesDel, owesSet, raced>>
        /\ tripped \subseteq tripped'
        /\ \A j \in Job \ tripped' : db'[j] = db[j]
    BY <1>3 DEF Learns
  <2>2. \A v \in Writer : owesSet[v] # None => owesSet[v].job \in Job
    BY CopyFacts DEF ConfigInv, ConfigTypeOK
  <2>3. OwedIsRowBut(tripped)'
    BY <2>1, <2>2 DEF ConfigInv, OwedIsRowBut
  <2>4. \A j \in Job : InFlight(j)' <=> InFlight(j)
    BY <2>1 DEF InFlight
  <2>5. CopyIsRowBut(tripped)'
    BY <2>1, <2>4 DEF ConfigInv, CopyIsRowBut
  <2> QED
    BY <2>3, <2>5 DEF ConfigInv
<1>4. ASSUME NEW w \in Runner, NEW e \in Exec, PickUp(w, e) PROVE ConfigInv(tripped)'
  BY <1>2, <1>4 DEF PickUp
<1>5. ASSUME NEW e \in Exec, LoseLock(e) PROVE ConfigInv(tripped)'
  BY <1>2, <1>5 DEF LoseLock
<1>6. ASSUME NEW w \in Runner, RunnerDies(w) \/ Complete(w) \/ FailAttempt(w)
      PROVE  ConfigInv(tripped)'
  BY <1>2, <1>6 DEF RunnerDies, Complete, FailAttempt, queueVars
<1> QED
  BY <1>1, <1>3, <1>4, <1>5, <1>6, StepKinds

\* Every step keeps it true that only a tripped job is called although it was read as disabled.
LEMMA DisabledStep ==
    ASSUME TypeInv, DisabledKnown, [Next]_vars
    PROVE  DisabledKnown'
<1> USE DEF TypeInv, WorkerTypeOK
<1> DEFINE Known == \A w \in Runner :
        rpc[w] \in {"row", "run", "call"} /\ barred[w] = "disabled" => JobOf[rex[w]] \in tripped
<1> Known
  BY DEF DisabledKnown
<1> SUFFICES Known'
  BY ConfigInvInWorker DEF DisabledKnown
<1>1. CASE Outside
  BY <1>1 DEF Outside
<1>2. ASSUME NEW w \in Runner, NEW e \in Exec, PickUp(w, e) PROVE Known'
  BY <1>2 DEF PickUp
<1>3. ASSUME NEW e \in Exec, LoseLock(e) PROVE Known'
  BY <1>3 DEF LoseLock, runnerVars
<1>4. ASSUME NEW w \in Runner, RunnerDies(w) \/ Complete(w) \/ FailAttempt(w) PROVE Known'
  <2>1. GoIdle(w) /\ UNCHANGED tripped
    BY <1>4 DEF RunnerDies, Complete, FailAttempt, queueVars
  <2> QED
    BY <2>1 DEF GoIdle
<1>5. ASSUME NEW w \in Runner, Moves(w), Learns(w) PROVE Known'
  <2> DEFINE j == JobOf[rex[w]]
  <2>1. /\ \A v \in Runner \ {w} : rpc'[v] = rpc[v] /\ barred'[v] = barred[v]
        /\ UNCHANGED rex /\ tripped \subseteq tripped'
        /\ rex[w] \in Exec /\ j \in Job
    BY <1>5, BusyRunner DEF Moves, Learns
  <2>2. ASSUME rpc'[w] \in {"row", "run", "call"}, barred'[w] = "disabled"
        PROVE  j \in tripped
    <3>1. CASE rpc'[w] # "row"
      BY <1>5, <2>2, <3>1 DEF Moves, Follows, Learns
    <3>2. CASE rpc'[w] = "row"
      <4>1. /\ Objection(j) = "disabled"
            /\ \/ rpc[w] = "cache" /\ cache[j] # None /\ cache[j].enabled
               \/ rpc[w] = "db" /\ db[j] # None /\ db[j].enabled
        BY <1>5, <2>2, <3>2 DEF Learns
      <4>2. ~db[j].enabled /\ ~InFlight(j) /\ j \notin raced
        BY <4>1 DEF Objection
      <4>3. cache[j] # None /\ cache[j].enabled
        BY <4>1, <4>2
      <4> QED
        BY <2>1, <4>2, <4>3 DEF DisabledKnown, ConfigInv, CopyIsRowBut
    <3> QED
      BY <3>1, <3>2
  <2> QED
    BY <2>1, <2>2
<1> QED
  BY <1>1, <1>2, <1>3, <1>4, <1>5, StepKinds

\* The lookups of worker.ts: with every fault, an attempt that looks its job up
\* after it was disabled sends no callback, once the request that disabled it is
\* over; a job its breaker has disabled is the only exception, and there is none
\* before a breaker opens (run worker_breaker_cache shows the exception).
THEOREM DisabledNeverCalled ==
    Spec => [](CalledOnlyIfTripped /\ (tripped = {} => DisabledJobNotCalled))
<1>1. Init => DisabledKnown
  <2>1. ConfigInit => ConfigInv({})
    BY ConfigTypeInit DEF ConfigInit, ConfigInv, OwedIsRowBut, CopyIsRowBut
  <2> QED
    BY <2>1 DEF Init, DisabledKnown
<1>2. DisabledKnown => CalledOnlyIfTripped /\ (tripped = {} => DisabledJobNotCalled)
  BY DEF DisabledKnown, CalledOnlyIfTripped, DisabledJobNotCalled
<1>3. TypeInv /\ DisabledKnown /\ [Next]_vars => (TypeInv /\ DisabledKnown)'
  BY WorkerTypeStep, DisabledStep
<1> QED
  BY <1>1, <1>2, <1>3, WorkerTypeInit, PTL DEF Spec
=============================================================================
