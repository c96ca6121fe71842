---------------------------- MODULE ExecutionApi -----------------------------
(***************************************************************************)
(* The executions of one job in time: manual triggers and the lock that is *)
(* to keep them apart (routes/jobs.router.ts, lib/lock-ttl.ts), the        *)
(* attempts and backoffs BullMQ makes of them (lib/queues.ts), and what    *)
(* the API tells of them meanwhile (services/execution.service.ts).        *)
(*                                                                         *)
(* Time passes in units (the milliseconds of the code), Second of them to  *)
(* a second.  What can fail in a trigger or an attempt is left to          *)
(* Scheduler and Worker.  The job may be disabled and enabled again at any *)
(* time, so that any trigger may find it enabled and any attempt disabled. *)
(***************************************************************************)
EXTENDS Naturals, Sequences, SequencesExt, FiniteSets, FiniteSetsExt

CONSTANTS
    Exec,        \* execution ids
    timeoutMs,   \* callbackTimeoutMs of the job
    maxRetries,
    backoffMs,
    Buffer,      \* LOCK_BUFFER_MS
    Second,      \* units in a second
    limit        \* entries on a page

ASSUME ApiAssumption ==
    /\ timeoutMs \in Nat \ {0} /\ maxRetries \in Nat /\ backoffMs \in Nat \ {0} /\ Buffer \in Nat
    /\ Second \in Nat \ {0} /\ limit \in Nat \ {0}

VARIABLES
    exists,     \* the job is there
    lock,       \* time left on lock:job:<id>:manual
    rows,       \* its executions, by triggeredAt, newest first; no two share
                \* a millisecond
    status,     \* Execution.status
    phase,      \* what BullMQ does with the execution
    try,        \* attempts begun
    left,       \* time left of the attempt or of the backoff
    manual,     \* executions that were triggered manually
    waited,     \* history: time a manual execution was ready and not running
    reader      \* a client that reads the list page by page

Away == [at |-> "none", page |-> 0, wanted |-> {}, got |-> {}, total |-> 0, torn |-> FALSE]

runVars == <<status, phase, try, left>>
vars == <<exists, lock, rows, runVars, manual, waited, reader>>

-----------------------------------------------------------------------------
(***************************************************************************)
(* lib/lock-ttl.ts, lib/queues.ts.                                         *)
(***************************************************************************)

CeilDiv(a, b) == (a + b - 1) \div b

\* The delay of BullMQ's exponential backoff after the n-th attempt.
backoffDelay(n) == backoffMs * 2^(n - 1)

\* What n rounds of the loop over the retries add up.
backoffSum[n \in Nat] == IF n = 0 THEN 0 ELSE backoffSum[n - 1] + backoffMs * 2^(n - 1)

\* Mutant: the buffer is left out.
ttlWithoutBuffer ==
    Max({1, CeilDiv(timeoutMs * (maxRetries + 1) + backoffSum[maxRetries], Second)})

\* "Worst-case wall time for all attempts [...] + buffer, in seconds".
computeJobLockTtlSeconds ==
    LET ms == timeoutMs * (maxRetries + 1) + backoffSum[maxRetries] + Buffer
    IN  Max({1, CeilDiv(ms, Second)})

-----------------------------------------------------------------------------
(***************************************************************************)
(* Executions.                                                             *)
(***************************************************************************)

Over(e) == phase[e] \in {"none", "over", "skipped"}

\* A row at its place by triggeredAt, which the clock of the process that
\* inserts it decides.
createExecution(e) ==
    /\ exists /\ phase[e] = "none"
    /\ \E i \in 1..(Len(rows) + 1) : rows' = InsertAt(rows, i, e)
    /\ reader' = [reader EXCEPT !.torn = @ \/ reader.at = "items"]
    /\ UNCHANGED <<exists, try, left, waited>>

\* POST /:id/trigger.  The lock is left to its TTL.
trigger(e) ==
    /\ lock = 0
    /\ lock' = Second * computeJobLockTtlSeconds
    /\ createExecution(e)
    /\ status' = [status EXCEPT ![e] = "PENDING"]
    /\ phase' = [phase EXCEPT ![e] = "ready"]
    /\ manual' = manual \cup {e}

\* The scheduler has claimed a slot.  Nothing here depends on how the run goes:
\* it is over in the same step, or skipped before its first or a later attempt.
Schedule(e, s) ==
    /\ createExecution(e)
    /\ status' = [status EXCEPT ![e] = s]
    /\ phase' = [phase EXCEPT ![e] = IF s \in {"SUCCESS", "DEAD"} THEN "over" ELSE "skipped"]
    /\ UNCHANGED <<lock, manual>>

\* A worker takes the execution and finds the job disabled: BullMQ completes
\* it, the row stays as it is.
AttemptSkipped(e) ==
    /\ phase[e] = "ready"
    /\ phase' = [phase EXCEPT ![e] = "skipped"]
    /\ UNCHANGED <<exists, lock, rows, status, try, left, manual, waited, reader>>

\* A worker takes the execution and finds the job enabled.
Attempt(e) ==
    /\ phase[e] = "ready"
    /\ status' = [status EXCEPT ![e] = "RUNNING"]
    /\ phase' = [phase EXCEPT ![e] = "running"]
    /\ try' = [try EXCEPT ![e] = @ + 1]
    /\ left' = [left EXCEPT ![e] = timeoutMs]
    /\ UNCHANGED <<exists, lock, rows, manual, waited, reader>>

Ends(e, s) ==
    /\ status' = [status EXCEPT ![e] = s]
    /\ phase' = [phase EXCEPT ![e] = "over"]
    /\ left' = [left EXCEPT ![e] = 0]

\* Mutant: the last attempt is recorded like the others.
FailLikeAnyOther(e) ==
    IF try[e] > maxRetries
    THEN Ends(e, "FAILED")
    ELSE /\ status' = [status EXCEPT ![e] = "FAILED"]
         /\ phase' = [phase EXCEPT ![e] = "delayed"]
         /\ left' = [left EXCEPT ![e] = backoffDelay(try[e])]

\* Mutant: the exponent counts this attempt too.
FailDelaysLonger(e) ==
    IF try[e] > maxRetries
    THEN Ends(e, "DEAD")
    ELSE /\ status' = [status EXCEPT ![e] = "FAILED"]
         /\ phase' = [phase EXCEPT ![e] = "delayed"]
         /\ left' = [left EXCEPT ![e] = backoffDelay(try[e] + 1)]

\* The callback failed or timed out: a retry after the backoff, or the end.
Fail(e) ==
    IF try[e] > maxRetries
    THEN Ends(e, "DEAD")
    ELSE /\ status' = [status EXCEPT ![e] = "FAILED"]
         /\ phase' = [phase EXCEPT ![e] = "delayed"]
         /\ left' = [left EXCEPT ![e] = backoffDelay(try[e])]

AttemptEnds(e) ==
    /\ phase[e] = "running"
    /\ Ends(e, "SUCCESS") \/ Fail(e)
    /\ UNCHANGED <<exists, lock, rows, try, manual, waited, reader>>

Promote(e) ==
    /\ phase[e] = "delayed" /\ left[e] = 0
    /\ phase' = [phase EXCEPT ![e] = "ready"]
    /\ UNCHANGED <<exists, lock, rows, status, try, left, manual, waited, reader>>

\* DELETE /:id: the rows go, and what is queued comes to nothing.
deleteJob ==
    /\ exists
    /\ exists' = FALSE
    /\ rows' = <<>>
    /\ phase' = [e \in Exec |-> IF Over(e) THEN phase[e] ELSE "over"]
    /\ left' = [e \in Exec |-> 0]
    /\ UNCHANGED <<lock, status, try, manual, waited, reader>>

\* One unit of time.  No attempt outlives its timeout, no backoff its delay.
\* What a reader sees does not depend on the clock, which stops for it.
Tick ==
    /\ reader = Away
    /\ \A e \in Exec : phase[e] \in {"running", "delayed"} => left[e] > 0
    /\ lock' = IF lock = 0 THEN 0 ELSE lock - 1
    /\ left' = [e \in Exec |-> IF left[e] = 0 THEN 0 ELSE left[e] - 1]
    /\ waited' = [e \in Exec |-> IF e \in manual /\ phase[e] = "ready" /\ waited[e] < Buffer
                                 THEN waited[e] + 1 ELSE waited[e]]
    /\ UNCHANGED <<exists, rows, status, phase, try, manual, reader>>

-----------------------------------------------------------------------------
(***************************************************************************)
(* GET /:id/executions, read page by page.                                 *)
(***************************************************************************)

\* The first request; wanted are the executions there are by now.
OpenList ==
    /\ reader = Away
    /\ reader' = [reader EXCEPT !.at = "job", !.page = 1, !.wanted = ToSet(rows)]
    /\ UNCHANGED <<exists, lock, rows, runVars, manual, waited>>

\* getJobById: on, or 404.
FindJob ==
    /\ reader.at = "job"
    /\ reader' = [reader EXCEPT !.at = IF exists THEN "both" ELSE "404"]
    /\ UNCHANGED <<exists, lock, rows, runVars, manual, waited>>

\* Mutant: pages counted from zero.
pageFromZero(page) ==
    SubSeq(rows, page * limit + 1, Min({page * limit + limit, Len(rows)}))

\* findMany: skip, take.
pageItems(page) ==
    LET skip == (page - 1) * limit
    IN  SubSeq(rows, skip + 1, Min({skip + limit, Len(rows)}))

\* Promise.all: the two queries of listExecutions, in either order.
QueryItems ==
    /\ reader.at \in {"both", "items"}
    /\ reader' = [reader EXCEPT !.at = IF @ = "both" THEN "total" ELSE "answer",
                                !.got = @ \cup ToSet(pageItems(reader.page))]
    /\ UNCHANGED <<exists, lock, rows, runVars, manual, waited>>

QueryTotal ==
    /\ reader.at \in {"both", "total"}
    /\ reader' = [reader EXCEPT !.at = IF @ = "both" THEN "items" ELSE "answer",
                                !.total = Len(rows)]
    /\ UNCHANGED <<exists, lock, rows, runVars, manual, waited>>

\* Mutant: Math.floor for Math.ceil.
totalPagesFloor(total) == total \div limit

totalPages(total) == CeilDiv(total, limit)

\* The answer: another request if it announces another page.
NextPage ==
    /\ reader.at = "answer"
    /\ reader' = IF reader.page < totalPages(reader.total)
                 THEN [reader EXCEPT !.at = "job", !.page = @ + 1, !.total = 0]
                 ELSE [reader EXCEPT !.at = "end"]
    /\ UNCHANGED <<exists, lock, rows, runVars, manual, waited>>

CloseList ==
    /\ reader.at \in {"end", "404"}
    /\ reader' = Away
    /\ UNCHANGED <<exists, lock, rows, runVars, manual, waited>>

ReaderStep == OpenList \/ FindJob \/ QueryItems \/ QueryTotal \/ NextPage \/ CloseList

-----------------------------------------------------------------------------
Init ==
    /\ exists = TRUE
    /\ lock = 0
    /\ rows = <<>>
    /\ status = [e \in Exec |-> "NONE"]
    /\ phase = [e \in Exec |-> "none"]
    /\ try = [e \in Exec |-> 0]
    /\ left = [e \in Exec |-> 0]
    /\ manual = {}
    /\ waited = [e \in Exec |-> 0]
    /\ reader = Away

Next ==
    \/ \E e \in Exec : trigger(e) \/ Attempt(e) \/ AttemptSkipped(e) \/ AttemptEnds(e) \/ Promote(e)
    \/ \E e \in Exec, s \in {"SUCCESS", "DEAD", "PENDING", "FAILED"} : Schedule(e, s)
    \/ deleteJob
    \/ Tick
    \/ ReaderStep

Spec == Init /\ [][Next]_vars

-----------------------------------------------------------------------------
(***************************************************************************)
(* GET /:id/stats: getJobStats over the whole life of the job.             *)
(***************************************************************************)

\* finishedAt, which the query also asks for, is set with each of the statuses
\* it counts and cleared with RUNNING, so that no row is left out for it.
Counted(statuses) == Cardinality({e \in ToSet(rows) : status[e] \in statuses})
successCount == Counted({"SUCCESS"})
failedCount == Counted({"FAILED"})
deadCount == Counted({"DEAD"})
totalRuns == Counted({"SUCCESS", "FAILED", "DEAD"})

-----------------------------------------------------------------------------
(***************************************************************************)
(* Properties.                                                             *)
(***************************************************************************)

ApiTypeOK ==
    /\ exists \in BOOLEAN
    /\ lock \in 0..(Second * computeJobLockTtlSeconds)
    /\ ToSet(rows) \subseteq Exec /\ IsInjective(rows)
    /\ status \in [Exec -> {"NONE", "PENDING", "RUNNING", "SUCCESS", "FAILED", "DEAD"}]
    /\ phase \in [Exec -> {"none", "ready", "running", "delayed", "over", "skipped"}]
    /\ try \in [Exec -> 0..(maxRetries + 1)]
    /\ \A e \in Exec :
        left[e] <= (IF phase[e] = "running" THEN timeoutMs
                    ELSE IF phase[e] = "delayed" THEN backoffDelay(maxRetries) ELSE 0)
    /\ manual \subseteq Exec
    /\ waited \in [Exec -> 0..Buffer]
    /\ reader.wanted \subseteq Exec /\ reader.got \subseteq Exec

\* "job may already be running" (jobs.router.ts): all attempts, timeouts and
\* backoffs included, at most one manual execution of a job is under way,
\* unless one waited for workers as long as the buffer.
OneManualRun ==
    \A e, f \in manual :
        e # f /\ ~Over(e) /\ ~Over(f) =>
            Buffer <= Max({waited[e], waited[f]})

\* listExecutions: whoever follows totalPages sees every execution there was
\* when it began, however many are inserted meanwhile and in whatever order
\* the two queries run, unless a row came between a count and its page.
PagingMissesNothing ==
    reader.at = "end" /\ ~reader.torn /\ exists => reader.wanted \subseteq reader.got

\* getJobStats counts FAILED executions, which have a retry ahead of them: once
\* all have ended, every one is a success or dead and the counts add up, but for
\* those that were skipped because the job was disabled.  These stay PENDING,
\* and are not counted, or FAILED for good.
StatsAddUp ==
    exists /\ (\A e \in Exec : Over(e)) =>
        LET skipped == {e \in ToSet(rows) : phase[e] = "skipped"}
        IN  /\ successCount + deadCount + Cardinality(skipped) = Len(rows)
            /\ totalRuns = Len(rows) - Cardinality({e \in skipped : status[e] = "PENDING"})
=============================================================================
