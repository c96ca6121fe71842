------------------------------- MODULE Worker --------------------------------
(***************************************************************************)
(* The life of a queued Execution: BullMQ hands it to a runner, which      *)
(* looks the job up, calls back and records the outcome (src/worker.ts),   *)
(* one await at a time, beside the API requests of JobConfig.              *)
(*                                                                         *)
(* BullMQ is external.  A runner holds a lock on the BullMQ job it works   *)
(* on; when the lock is lost (the process died, its event loop was stuck)  *)
(* the job is given to another runner, and the first one, if it lives,     *)
(* goes on unaware: its last word to BullMQ is then refused.               *)
(***************************************************************************)
EXTENDS JobConfig, FiniteSets

CONSTANTS
    Exec,         \* execution ids
    JobOf,        \* the job of each execution
    Runner,       \* concurrent processor slots, over all worker processes
    MaxAttempts,  \* opts.attempts = maxRetries + 1
    Threshold,    \* CIRCUIT_BREAKER_CONSECUTIVE_DEAD
    MaxStalls,    \* BullMQ's maxStalledCount
    CallsFail,    \* BOOLEAN: database and Redis calls of a runner may throw
    LocksLost     \* BOOLEAN: runners may die and BullMQ locks may be lost

ASSUME WorkerAssumption ==
    /\ JobOf \in [Exec -> Job]
    /\ MaxAttempts \in Nat \ {0} /\ Threshold \in Nat \ {0} /\ MaxStalls \in Nat
    /\ None \notin Exec \cup Runner
    /\ CallsFail \in BOOLEAN /\ LocksLost \in BOOLEAN

VARIABLES
    status,   \* Execution.status, "NONE" before the insert
    bull,     \* state of the BullMQ job of the execution
    owner,    \* the runner whose BullMQ lock it is, or None
    made,     \* attemptsMade
    stalls,   \* BullMQ's stalled counter
    dlq,      \* entries the execution has on the dead-letter queue
    dead,     \* Job.consecutiveDeadCount
    tripped,  \* jobs the circuit breaker has disabled
    rpc,      \* where each runner is
    rex,      \* the execution a runner works on
    rtry,     \* attemptNumber, as the runner read it
    calls,    \* history: callbacks sent for each execution
    streak,   \* history: executions of a job whose death was counted since
              \* the last SUCCESS was recorded
    barred    \* history: why this attempt must not call the job: it was
              \* "deleted" or "disabled" when it was looked up, else "no"

queueVars == <<status, bull, owner, made, stalls, dlq, dead, tripped, streak, calls>>
runnerVars == <<rpc, rex, rtry, barred>>
vars == <<configVars, queueVars, runnerVars>>

\* Mutant: deleting a job leaves its executions.
RowOutlivesJob(e) == status[e] # "NONE"

\* The Execution row is there (it goes with its job: onDelete: Cascade).
RowExists(e) == status[e] # "NONE" /\ db[JobOf[e]] # None

-----------------------------------------------------------------------------
(***************************************************************************)
(* BullMQ and the scheduler, as the worker sees them.                      *)
(***************************************************************************)

\* The scheduler or the API has inserted the row and added the BullMQ job.
\* The insert needs the job; that the job is enabled was checked before, and
\* may have changed since (Scheduler).
Enqueue(e) ==
    /\ status[e] = "NONE"
    /\ db[JobOf[e]] # None
    /\ status' = [status EXCEPT ![e] = "PENDING"]
    /\ bull' = [bull EXCEPT ![e] = "wait"]
    /\ UNCHANGED <<configVars, owner, made, stalls, dlq, dead, tripped, streak, calls, runnerVars>>

PickUp(w, e) ==
    /\ rpc[w] = "idle"
    /\ bull[e] = "wait"
    /\ bull' = [bull EXCEPT ![e] = "active"]
    /\ owner' = [owner EXCEPT ![e] = w]
    /\ rpc' = [rpc EXCEPT ![w] = "cache"]
    /\ rex' = [rex EXCEPT ![w] = e]
    /\ rtry' = [rtry EXCEPT ![w] = made[e] + 1]
    /\ UNCHANGED <<configVars, status, made, stalls, dlq, dead, tripped, streak, calls, barred>>

\* The backoff has elapsed.
Promote(e) ==
    /\ bull[e] = "delayed"
    /\ bull' = [bull EXCEPT ![e] = "wait"]
    /\ UNCHANGED <<configVars, status, owner, made, stalls, dlq, dead, tripped, streak, calls, runnerVars>>

\* The lock was not renewed in time: another run, or none if too often.
LoseLock(e) ==
    /\ LocksLost
    /\ bull[e] = "active"
    /\ bull' = [bull EXCEPT ![e] = IF stalls[e] < MaxStalls THEN "wait" ELSE "failed"]
    /\ owner' = [owner EXCEPT ![e] = None]
    /\ stalls' = [stalls EXCEPT ![e] = @ + 1]
    /\ UNCHANGED <<configVars, status, made, dlq, dead, tripped, streak, calls, runnerVars>>

\* Runner w has nothing to do, and remembers nothing.
GoIdle(w) ==
    /\ rpc' = [rpc EXCEPT ![w] = "idle"]
    /\ rex' = [rex EXCEPT ![w] = None]
    /\ rtry' = [rtry EXCEPT ![w] = 0]
    /\ barred' = [barred EXCEPT ![w] = "no"]

RunnerDies(w) ==
    /\ LocksLost
    /\ rpc[w] # "idle"
    /\ GoIdle(w)
    /\ UNCHANGED <<configVars, queueVars>>

-----------------------------------------------------------------------------
(***************************************************************************)
(* processExecutionJob.                                                    *)
(***************************************************************************)

Goto(w, l) == rpc' = [rpc EXCEPT ![w] = l]

\* Runner w is at l, and keeps what it remembers.
At(w, l) ==
    /\ rpc[w] = l
    /\ UNCHANGED <<rex, rtry, barred>>

\* What a reader of the job table would object to at this moment.
Objection(j) ==
    IF j \in retired THEN "deleted"
    ELSE IF ~db[j].enabled /\ ~InFlight(j) /\ j \notin raced THEN "disabled"
    ELSE "no"

\* Runner w is at l and reads the job, from one store or the other.
Reads(w, l) ==
    /\ rpc[w] = l
    /\ barred' = [barred EXCEPT ![w] = Objection(JobOf[rex[w]])]
    /\ UNCHANGED <<rex, rtry>>

\* A database update of the execution row, which throws if the row is gone.
SetStatus(w, s, next) ==
    /\ IF RowExists(rex[w])
       THEN /\ status' = [status EXCEPT ![rex[w]] = s]
            /\ streak' = IF s = "SUCCESS" THEN [streak EXCEPT ![JobOf[rex[w]]] = {}]
                                          ELSE streak
            /\ Goto(w, next)
       ELSE UNCHANGED <<status, streak>> /\ Goto(w, "throw")
    /\ UNCHANGED <<configVars, bull, owner, made, stalls, dlq, dead, tripped, calls>>

\* getCachedJob; on a miss, on to PostgreSQL.
LookupCache(w) ==
    /\ Reads(w, "cache")
    /\ LET c == cache[JobOf[rex[w]]]
       IN  Goto(w, IF c = None THEN "db" ELSE IF c.enabled THEN "row" ELSE "done")
    /\ UNCHANGED <<configVars, queueVars>>

LookupDb(w) ==
    /\ Reads(w, "db")
    /\ LET c == db[JobOf[rex[w]]]
       IN  Goto(w, IF c = None THEN "done" ELSE IF c.enabled THEN "row" ELSE "done")
    /\ UNCHANGED <<configVars, queueVars>>

FindExecution(w) ==
    /\ At(w, "row")
    /\ Goto(w, IF RowExists(rex[w]) THEN "run" ELSE "done")
    /\ UNCHANGED <<configVars, queueVars>>

MarkRunning(w) == At(w, "run") /\ SetStatus(w, "RUNNING", "call")

\* Mutant: attemptsMade taken for the number of this attempt plus one.
isFinalAttemptEarly(w) == rtry[w] + 1 >= MaxAttempts

\* Mutant: > for >=.
isFinalAttemptLate(w) == rtry[w] > MaxAttempts

isFinalAttempt(w) == rtry[w] >= MaxAttempts

\* Mutant: a retry loop of the worker's own beside BullMQ's.
InvokeInLoop(w, ok) ==
    /\ At(w, "call")
    /\ calls' = [calls EXCEPT ![rex[w]] = @ + 1]
    /\ Goto(w, IF ok THEN "success" ELSE IF isFinalAttempt(w) THEN "dead" ELSE "call")
    /\ UNCHANGED <<configVars, status, bull, owner, made, stalls, dlq, dead, tripped, streak>>

\* invokeCallback: a 2xx answer, or an HTTP error, a timeout, a network error.
InvokeCallback(w, ok) ==
    /\ At(w, "call")
    /\ calls' = [calls EXCEPT ![rex[w]] = @ + 1]
    /\ Goto(w, IF ok THEN "success" ELSE IF isFinalAttempt(w) THEN "dead" ELSE "failed")
    /\ UNCHANGED <<configVars, status, bull, owner, made, stalls, dlq, dead, tripped, streak>>

\* Mutant: no return after the success branch.
RecordSuccessFallsThrough(w) == At(w, "success") /\ SetStatus(w, "SUCCESS", "failed")

RecordSuccess(w) == At(w, "success") /\ SetStatus(w, "SUCCESS", "reset")

\* Mutant: { decrement: 1 } for 0.
DecrementStreak(w) ==
    /\ At(w, "reset")
    /\ dead' = [dead EXCEPT ![JobOf[rex[w]]] = @ - 1]
    /\ Goto(w, "announce")
    /\ UNCHANGED <<configVars, status, bull, owner, made, stalls, dlq, tripped, streak, calls>>

\* Mutant: consecutiveDeadCount is not set to 0.
ResetForgotten(w) ==
    /\ At(w, "reset")
    /\ Goto(w, "announce")
    /\ UNCHANGED <<configVars, queueVars>>

\* A database update of the job row, which throws if the job is gone.
resetDeadStreak(w) ==
    /\ At(w, "reset")
    /\ IF db[JobOf[rex[w]]] # None
       THEN dead' = [dead EXCEPT ![JobOf[rex[w]]] = 0] /\ Goto(w, "announce")
       ELSE UNCHANGED dead /\ Goto(w, "throw")
    /\ UNCHANGED <<configVars, status, bull, owner, made, stalls, dlq, tripped, streak, calls>>

\* Mutant: a failed attempt that is not the last is not thrown to BullMQ.
SwallowFailure(w) == At(w, "failed") /\ SetStatus(w, "FAILED", "done")

RecordFailed(w) == At(w, "failed") /\ SetStatus(w, "FAILED", "throw")

\* Mutant: the breaker without the dead-letter queue.
RecordDeadOnly(w) == At(w, "dead") /\ SetStatus(w, "DEAD", "count")

\* deadLetter: the status, then the dead-letter queue, then the breaker.
RecordDead(w) == At(w, "dead") /\ SetStatus(w, "DEAD", "dlq")

DeadLetterAdd(w) ==
    /\ At(w, "dlq")
    /\ dlq' = [dlq EXCEPT ![rex[w]] = @ + 1]
    /\ Goto(w, "count")
    /\ UNCHANGED <<configVars, status, bull, owner, made, stalls, dead, tripped, streak, calls>>

\* Mutant: the count is compared with one less than the threshold.
CountDeadEarly(w) ==
    /\ At(w, "count")
    /\ LET j == JobOf[rex[w]]
       IN  IF db[j] # None
           THEN /\ dead' = [dead EXCEPT ![j] = @ + 1]
                /\ streak' = [streak EXCEPT ![j] = @ \cup {rex[w]}]
                /\ Goto(w, IF dead[j] + 1 >= Threshold - 1 THEN "open" ELSE "announce")
           ELSE UNCHANGED <<dead, streak>> /\ Goto(w, "throw")
    /\ UNCHANGED <<configVars, status, bull, owner, made, stalls, dlq, tripped, calls>>

\* applyCircuitBreaker, the atomic increment: the new count decides.
CountDead(w) ==
    /\ At(w, "count")
    /\ LET j == JobOf[rex[w]]
       IN  IF db[j] # None
           THEN /\ dead' = [dead EXCEPT ![j] = @ + 1]
                /\ streak' = [streak EXCEPT ![j] = @ \cup {rex[w]}]
                /\ Goto(w, IF dead[j] + 1 >= Threshold THEN "open" ELSE "announce")
           ELSE UNCHANGED <<dead, streak>> /\ Goto(w, "throw")
    /\ UNCHANGED <<configVars, status, bull, owner, made, stalls, dlq, tripped, calls>>

\* applyCircuitBreaker, the second update.  The copy in Redis is not touched.
OpenCircuit(w) ==
    /\ At(w, "open")
    /\ LET j == JobOf[rex[w]]
       IN  IF db[j] # None
           THEN /\ db' = [db EXCEPT ![j].enabled = FALSE]
                /\ tripped' = tripped \cup {j}
                /\ Goto(w, "announce")
           ELSE UNCHANGED <<db, tripped>> /\ Goto(w, "throw")
    /\ UNCHANGED <<retired, cache, owesDel, owesSet, raced,
                   status, bull, owner, made, stalls, dlq, dead, streak, calls>>

\* The processor resolves: BullMQ completes the job if the lock still stands.
Complete(w) ==
    /\ rpc[w] \in {"done", "announce"}
    /\ GoIdle(w)
    /\ IF owner[rex[w]] = w
       THEN /\ bull' = [bull EXCEPT ![rex[w]] = "completed"]
            /\ owner' = [owner EXCEPT ![rex[w]] = None]
       ELSE UNCHANGED <<bull, owner>>
    /\ UNCHANGED <<configVars, status, made, stalls, dlq, dead, tripped, streak, calls>>

\* The processor rejects: BullMQ counts the attempt and retries or gives up.
FailAttempt(w) ==
    /\ rpc[w] = "throw"
    /\ GoIdle(w)
    /\ LET e == rex[w]
       IN  IF owner[e] = w
           THEN /\ made' = [made EXCEPT ![e] = @ + 1]
                /\ bull' = [bull EXCEPT ![e] = IF made[e] + 1 < MaxAttempts
                                               THEN "delayed" ELSE "failed"]
                /\ owner' = [owner EXCEPT ![e] = None]
           ELSE UNCHANGED <<made, bull, owner>>
    /\ UNCHANGED <<configVars, status, stalls, dlq, dead, tripped, streak, calls>>

\* An await rejects: a query, the dead-letter add, or a publishEvent (the one
\* before the callback at "call", the ones at the end at "announce").
StepThrows(w) ==
    /\ CallsFail
    /\ rpc[w] \notin {"idle", "done", "throw"}
    /\ Goto(w, "throw")
    /\ UNCHANGED <<configVars, queueVars, rex, rtry, barred>>

-----------------------------------------------------------------------------
Init ==
    /\ ConfigInit
    /\ status = [e \in Exec |-> "NONE"]
    /\ bull = [e \in Exec |-> "none"]
    /\ owner = [e \in Exec |-> None]
    /\ made = [e \in Exec |-> 0]
    /\ stalls = [e \in Exec |-> 0]
    /\ dlq = [e \in Exec |-> 0]
    /\ dead = [j \in Job |-> 0]
    /\ tripped = {}
    /\ streak = [j \in Job |-> {}]
    /\ rpc = [w \in Runner |-> "idle"]
    /\ rex = [w \in Runner |-> None]
    /\ rtry = [w \in Runner |-> 0]
    /\ calls = [e \in Exec |-> 0]
    /\ barred = [w \in Runner |-> "no"]

RunnerStep(w) ==
    \/ LookupCache(w) \/ LookupDb(w) \/ FindExecution(w) \/ MarkRunning(w)
    \/ \E ok \in BOOLEAN : InvokeCallback(w, ok)
    \/ RecordSuccess(w) \/ resetDeadStreak(w) \/ RecordFailed(w)
    \/ RecordDead(w) \/ DeadLetterAdd(w) \/ CountDead(w) \/ OpenCircuit(w)
    \/ Complete(w) \/ FailAttempt(w)

Deliver == \E w \in Runner, e \in Exec : PickUp(w, e)

Next ==
    \/ ConfigNext /\ UNCHANGED <<queueVars, runnerVars>>
    \/ \E e \in Exec : Enqueue(e) \/ Promote(e) \/ LoseLock(e)
    \/ Deliver
    \/ \E w \in Runner : RunnerStep(w) \/ StepThrows(w) \/ RunnerDies(w)

Spec == Init /\ [][Next]_vars

\* BullMQ delivers and promotes, live processes run their continuations; users,
\* the scheduler and faults are under no obligation.
Fairness ==
    /\ WF_vars(Deliver)
    /\ \A e \in Exec : WF_vars(Promote(e))
    /\ \A w \in Runner : WF_vars(RunnerStep(w))
    /\ \A w \in Writer : WF_vars(RedisStep(w) /\ UNCHANGED <<queueVars, runnerVars>>)

FairSpec == Spec /\ Fairness
-----------------------------------------------------------------------------
(***************************************************************************)
(* Properties.                                                             *)
(***************************************************************************)

Pc == {"idle", "cache", "db", "row", "run", "call", "success", "reset", "failed",
       "dead", "dlq", "count", "open", "announce", "done", "throw"}

\* Every variable has its type, a busy runner has an execution, and an
\* active BullMQ job has an owner.
WorkerTypeOK ==
    /\ ConfigTypeOK
    /\ status \in [Exec -> {"NONE", "PENDING", "RUNNING", "SUCCESS", "FAILED", "DEAD"}]
    /\ bull \in [Exec -> {"none", "wait", "active", "delayed", "completed", "failed"}]
    /\ owner \in [Exec -> Runner \cup {None}]
    /\ made \in [Exec -> Nat] /\ stalls \in [Exec -> Nat] /\ dlq \in [Exec -> Nat]
    /\ calls \in [Exec -> Nat]
    /\ dead \in [Job -> Nat]
    /\ tripped \subseteq Job
    /\ streak \in [Job -> SUBSET Exec]
    /\ rpc \in [Runner -> Pc]
    /\ rex \in [Runner -> Exec \cup {None}]
    /\ rtry \in [Runner -> Nat]
    /\ barred \in [Runner -> {"no", "disabled", "deleted"}]
    /\ \A w \in Runner : rpc[w] # "idle" <=> rex[w] # None
    /\ \A e \in Exec : bull[e] = "active" <=> owner[e] # None

\* "callback retried exactly `attempts` times" (README.md): lost locks and
\* failing calls included, an execution is called back at most once per
\* attempt, plus once per lock its runners lost.
CallbackBudget == \A e \in Exec : calls[e] <= MaxAttempts + stalls[e]

\* An attempt that looks its job up after a deletion never calls back, even
\* when a racing request has left the deleted job in the cache.
DeletedJobNotCalled == \A w \in Runner : rpc[w] = "call" => barred[w] # "deleted"

\* An attempt that looks its job up after it was disabled, by whomever, never
\* calls back, once the request that disabled it is over.
DisabledJobNotCalled == \A w \in Runner : rpc[w] = "call" => barred[w] # "disabled"

\* deadLetter: without faults an execution is dead-lettered at most once, only
\* once it is DEAD, and always before its BullMQ job completes.
DeadLetteredOnce ==
    \A e \in Exec :
        /\ dlq[e] <= 1
        /\ dlq[e] = 1 => status[e] = "DEAD"
        /\ status[e] = "DEAD" /\ bull[e] = "completed" => dlq[e] = 1

\* deadLetter, run again after a lost lock or a death in its middle: an
\* execution has at most one dead letter, plus one per lock its runners lost.
DeadLetterBudget == \A e \in Exec : dlq[e] <= 1 + stalls[e]

\* "Auto-disable a job after N consecutive DEAD executions" (README.md): the
\* breaker opens over that many different executions whose deaths were counted
\* with no SUCCESS recorded since, or overtakes the reset of a SUCCESS.
BreakerHonest ==
    [][\A w \in Runner :
        rpc[w] = "count" /\ rpc'[w] = "open" =>
            \/ Cardinality(streak'[JobOf[rex[w]]]) >= Threshold
            \/ \E v \in Runner : rpc[v] = "reset" /\ JobOf[rex[v]] = JobOf[rex[w]]]_vars

\* retry-dlq.test.ts, "The callback was attempted exactly `attempts` times":
\* without faults an execution is DEAD only after all of its attempts.
DeadAfterAllAttempts ==
    \A e \in Exec : status[e] = "DEAD" => calls[e] = MaxAttempts

\* Without faults SUCCESS and DEAD are final.
SettledStays ==
    [][\A e \in Exec : status[e] \in {"SUCCESS", "DEAD"} => status'[e] = status[e]]_vars

Enabled(j) == db[j] # None /\ db[j].enabled

Settled(e) == status[e] \in {"SUCCESS", "DEAD"}

\* "at-least-once delivery" (README.md): without faults a queued execution
\* ends in SUCCESS or DEAD, unless its job is disabled or deleted or an API
\* request on its job is under way meanwhile.
Settles ==
    \A e \in Exec :
        bull[e] = "wait" ~>
            (Settled(e) \/ ~Enabled(JobOf[e]) \/ InFlight(JobOf[e]))

\* "The worker records each attempt and dead-letters on exhaustion"
\* (README.md): without faults, what BullMQ has given up on is on the
\* dead-letter queue, unless its job was deleted.
ExhaustedIsDeadLettered ==
    \A e \in Exec :
        bull[e] = "failed" => dlq[e] > 0 \/ db[JobOf[e]] = None
=============================================================================
