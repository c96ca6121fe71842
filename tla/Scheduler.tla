------------------------------ MODULE Scheduler ------------------------------
(***************************************************************************)
(* How an Execution comes to be queued: the scan tick of every scheduler   *)
(* replica (src/scheduler.ts) and the manual trigger of the API            *)
(* (src/routes/jobs.router.ts), both of which take a Redis lock, insert an *)
(* Execution row and add a BullMQ job, one await at a time.                *)
(*                                                                         *)
(* Every await is an interleaving point, so every await is an action.  The *)
(* clock is left out: a tick may resolve a job to ANY fire-slot or to none *)
(* (dueFireSlot read on a node with arbitrary skew), and ANY replica may   *)
(* start a tick (leader election on, off, or with two leaders).  What is   *)
(* shown here therefore depends on neither.                                *)
(***************************************************************************)
EXTENDS Naturals, Sequences

CONSTANTS
    Job,      \* job ids (cuid: an id is never given to a second job)
    Slot,     \* cron fire-slots
    Tick,     \* scans in flight, over all replicas; ticks of a replica may overlap
    Request,  \* POST /jobs/:id/trigger requests in flight
    ExecId,   \* execution ids; the bound on rows created in a run
    Manual,   \* the fireSlot of a manual trigger; scheduledFor is NULL
    None,     \* no value: a missing Redis key, no claim in progress
    CallsFail, \* BOOLEAN: database and queue calls may fail
    Crashes   \* BOOLEAN: processes may die, Redis calls may throw

Claimant == Tick \cup Request

FireSlot == Slot \cup {Manual}

Key == Job \X FireSlot

ASSUME ConstantsAssumption ==
    /\ Tick \cap Request = {}
    /\ Manual \notin Slot
    /\ None \notin Claimant \cup Key \cup ExecId \cup Slot
    /\ CallsFail \in BOOLEAN /\ Crashes \in BOOLEAN

VARIABLES
    jobs,     \* ids of the rows of table Job
    retired,  \* ids of deleted jobs
    enabled,  \* jobs with enabled = true
    paused,   \* jobs with paused = true
    rows,     \* table Execution
    minted,   \* execution ids handed out so far
    lock,     \* Redis: lock:job:<jobId>:<fireSlot> -> owner token, None if absent
    queue,    \* every BullMQ job ever added to the execution queue, in order
    pc,       \* where each claimant is
    todo,     \* jobs a tick has still to visit
    key,      \* the (job, fire-slot) a claimant is working on
    ex        \* the execution id a claimant has just created

jobVars == <<jobs, retired, enabled, paused>>
storeVars == <<rows, minted, lock, queue>>
procVars == <<pc, todo, key, ex>>
vars == <<jobVars, storeVars, procVars>>

-----------------------------------------------------------------------------
(***************************************************************************)
(* Stores.                                                                 *)
(***************************************************************************)

\* The columns of Execution this module needs.
Row == [id : ExecId, jobId : Job, scheduledFor : FireSlot]

\* ExecutionJobData.
Message == [executionId : ExecId, jobId : Job, fireSlot : FireSlot]

\* The lock token.  The code draws a UUID per acquire; a claimant holds at
\* most one lock at a time and forgets its token when it ends, so its own
\* name tells apart every token that can still be compared.
Token(p) == p

\* SET key token EX ttl NX
acquireJobLock(p, k) ==
    /\ lock[k] = None
    /\ lock' = [lock EXCEPT ![k] = Token(p)]

\* Mutant: DEL without comparing the token.
releaseBlindly(p, k) == lock' = [lock EXCEPT ![k] = None]

\* The Lua compare-and-delete.
releaseJobLock(p, k) ==
    lock' = IF lock[k] = Token(p) THEN [lock EXCEPT ![k] = None] ELSE lock

\* Mutant: the schema without the unique index.
NoUniqueIndex(k) == FALSE

\* The unique index on (jobId, scheduledFor); NULLs are distinct.
UniqueViolation(k) ==
    k[2] # Manual /\ \E r \in rows : r.jobId = k[1] /\ r.scheduledFor = k[2]

\* Mutant: scheduledFor is not written (createExecution used for a slot).
InsertWithoutSlot(k, e) ==
    /\ k[1] \in jobs
    /\ e \in ExecId \ minted
    /\ rows' = rows \cup {[id |-> e, jobId |-> k[1], scheduledFor |-> Manual]}
    /\ minted' = minted \cup {e}

\* A fresh PENDING row.  The foreign key to Job and the unique index hold.
InsertExecution(k, e) ==
    /\ k[1] \in jobs
    /\ ~UniqueViolation(k)
    /\ e \in ExecId \ minted
    /\ rows' = rows \cup {[id |-> e, jobId |-> k[1], scheduledFor |-> k[2]]}
    /\ minted' = minted \cup {e}

AddToQueue(p) ==
    queue' = Append(queue, [executionId |-> ex[p], jobId |-> key[p][1],
                            fireSlot |-> key[p][2]])

\* Where a claimant goes when one claim is over and nothing was thrown.
Resume(p) == IF p \in Tick THEN "scan" ELSE "idle"

-----------------------------------------------------------------------------
(***************************************************************************)
(* The scan tick.                                                          *)
(***************************************************************************)

\* run(), then prisma.job.findMany: the snapshot the whole tick works from.
TickStart(t) ==
    /\ pc[t] = "idle"
    /\ pc' = [pc EXCEPT ![t] = "scan"]
    /\ todo' = [todo EXCEPT ![t] = enabled \ paused]
    /\ UNCHANGED <<jobVars, storeVars, key, ex>>

\* dueFireSlot is null, or the slot's lock is held: on to the next job.
SkipJob(t, j) ==
    /\ pc[t] = "scan"
    /\ j \in todo[t]
    /\ todo' = [todo EXCEPT ![t] = @ \ {j}]
    /\ UNCHANGED <<jobVars, storeVars, pc, key, ex>>

\* The job is due at s and the lock on (j, s) was free: on to the insert.
ClaimSlot(t, j, s) ==
    /\ pc[t] = "scan"
    /\ j \in todo[t]
    /\ acquireJobLock(t, <<j, s>>)
    /\ todo' = [todo EXCEPT ![t] = @ \ {j}]
    /\ pc' = [pc EXCEPT ![t] = "create"]
    /\ key' = [key EXCEPT ![t] = <<j, s>>]
    /\ UNCHANGED <<jobVars, rows, minted, queue, ex>>

TickEnd(t) ==
    /\ pc[t] = "scan"
    /\ todo[t] = {}
    /\ pc' = [pc EXCEPT ![t] = "idle"]
    /\ UNCHANGED <<jobVars, storeVars, todo, key, ex>>

-----------------------------------------------------------------------------
(***************************************************************************)
(* The manual trigger, up to the insert.                                   *)
(***************************************************************************)

\* getJobById; a missing or disabled job is answered 404 or 409.  A paused
\* job may be triggered.
TriggerRequest(r, j) ==
    /\ pc[r] = "idle"
    /\ j \in enabled
    /\ pc' = [pc EXCEPT ![r] = "lock"]
    /\ key' = [key EXCEPT ![r] = <<j, Manual>>]
    /\ UNCHANGED <<jobVars, storeVars, todo, ex>>

\* The lock on (job, "manual"); if it is taken the answer is 409.
TriggerLock(r) ==
    /\ pc[r] = "lock"
    /\ \/ /\ acquireJobLock(r, key[r])
          /\ pc' = [pc EXCEPT ![r] = "create"]
          /\ UNCHANGED key
       \/ /\ lock[key[r]] # None
          /\ pc' = [pc EXCEPT ![r] = "idle"]
          /\ key' = [key EXCEPT ![r] = None]
          /\ UNCHANGED lock
    /\ UNCHANGED <<jobVars, rows, minted, queue, todo, ex>>

-----------------------------------------------------------------------------
(***************************************************************************)
(* The part of a claim both share.                                         *)
(***************************************************************************)

\* Mutant: an upsert, which hands the existing row of the slot back.
UpsertExecution(p) ==
    /\ pc[p] = "create"
    /\ \/ \E e \in ExecId : InsertExecution(key[p], e) /\ ex' = [ex EXCEPT ![p] = e]
       \/ /\ UniqueViolation(key[p])
          /\ \E r \in rows :
                /\ r.jobId = key[p][1] /\ r.scheduledFor = key[p][2]
                /\ ex' = [ex EXCEPT ![p] = r.id]
          /\ UNCHANGED <<rows, minted>>
    /\ pc' = [pc EXCEPT ![p] = "add"]
    /\ UNCHANGED <<jobVars, lock, queue, todo, key>>

\* Mutant: the null check the wrong way round, so a fresh row is skipped.
CreateThenSkip(p) ==
    /\ pc[p] = "create"
    /\ \E e \in ExecId : InsertExecution(key[p], e)
    /\ pc' = [pc EXCEPT ![p] = "dup"]
    /\ UNCHANGED <<jobVars, lock, queue, todo, key, ex>>

\* createScheduledExecution or createExecution: the row is inserted; or
\* P2002, null, skip; or the job is gone and the foreign key error is thrown.
CreateExecution(p) ==
    /\ pc[p] = "create"
    /\ \/ \E e \in ExecId :
            /\ InsertExecution(key[p], e)
            /\ ex' = [ex EXCEPT ![p] = e]
            /\ pc' = [pc EXCEPT ![p] = "add"]
       \/ /\ UniqueViolation(key[p])
          /\ pc' = [pc EXCEPT ![p] = "dup"]
          /\ UNCHANGED <<rows, minted, ex>>
       \/ /\ key[p][1] \notin jobs
          /\ pc' = [pc EXCEPT ![p] = "undo"]
          /\ UNCHANGED <<rows, minted, ex>>
    /\ UNCHANGED <<jobVars, lock, queue, todo, key>>

\* The insert is reported as failed (connection lost, database down); it may
\* have been committed all the same.
CreateFails(p) ==
    /\ CallsFail
    /\ pc[p] = "create"
    /\ \/ \E e \in ExecId : InsertExecution(key[p], e)
       \/ UNCHANGED <<rows, minted>>
    /\ pc' = [pc EXCEPT ![p] = "undo"]
    /\ UNCHANGED <<jobVars, lock, queue, todo, key, ex>>

\* queue.add.  The lock is kept; only its TTL removes it.
EnqueueExecution(p) ==
    /\ pc[p] = "add"
    /\ AddToQueue(p)
    /\ pc' = [pc EXCEPT ![p] = Resume(p)]
    /\ key' = [key EXCEPT ![p] = None]
    /\ ex' = [ex EXCEPT ![p] = None]
    /\ UNCHANGED <<jobVars, rows, minted, lock, todo>>

\* queue.add rejects (Redis down, the queue closed by a shutdown); the BullMQ
\* job may have been stored all the same.
EnqueueFails(p) ==
    /\ CallsFail
    /\ pc[p] = "add"
    /\ AddToQueue(p) \/ UNCHANGED queue
    /\ pc' = [pc EXCEPT ![p] = "undo"]
    /\ ex' = [ex EXCEPT ![p] = None]
    /\ UNCHANGED <<jobVars, rows, minted, lock, todo, key>>

\* Mutant: no release in the catch block.
KeepLockOnError(p) ==
    /\ pc[p] \in {"dup", "undo"}
    /\ IF pc[p] = "dup" THEN releaseJobLock(p, key[p]) ELSE UNCHANGED lock
    /\ pc' = [pc EXCEPT ![p] = IF pc[p] = "dup" THEN Resume(p) ELSE "idle"]
    /\ todo' = [todo EXCEPT ![p] = IF pc[p] = "dup" THEN @ ELSE {}]
    /\ key' = [key EXCEPT ![p] = None]
    /\ UNCHANGED <<jobVars, rows, minted, queue, ex>>

\* After P2002 the lock is released and the loop continues; after an
\* exception it is released and the exception ends the tick or the request.
ReleaseClaim(p) ==
    /\ pc[p] \in {"dup", "undo"}
    /\ releaseJobLock(p, key[p])
    /\ pc' = [pc EXCEPT ![p] = IF pc[p] = "dup" THEN Resume(p) ELSE "idle"]
    /\ todo' = [todo EXCEPT ![p] = IF pc[p] = "dup" THEN @ ELSE {}]
    /\ key' = [key EXCEPT ![p] = None]
    /\ UNCHANGED <<jobVars, rows, minted, queue, ex>>

\* The process dies, or exits in shutdown() without waiting for the tick, or
\* a Redis call throws outside the try: whatever was stored stays stored.
Crash(p) ==
    /\ Crashes
    /\ pc[p] # "idle"
    /\ pc' = [pc EXCEPT ![p] = "idle"]
    /\ todo' = [todo EXCEPT ![p] = {}]
    /\ key' = [key EXCEPT ![p] = None]
    /\ ex' = [ex EXCEPT ![p] = None]
    /\ UNCHANGED <<jobVars, storeVars>>

-----------------------------------------------------------------------------
(***************************************************************************)
(* The environment: the lock's TTL, and the API's writes to table Job.     *)
(***************************************************************************)

ExpireLock(k) ==
    /\ lock[k] # None
    /\ lock' = [lock EXCEPT ![k] = None]
    /\ UNCHANGED <<jobVars, rows, minted, queue, procVars>>

\* The two flags of job j after a create or an update.
SetFlags(j, en, pa) ==
    /\ enabled' = IF en THEN enabled \cup {j} ELSE enabled \ {j}
    /\ paused' = IF pa THEN paused \cup {j} ELSE paused \ {j}

CreateJob(j, en, pa) ==
    /\ j \notin jobs \cup retired
    /\ jobs' = jobs \cup {j}
    /\ SetFlags(j, en, pa)
    /\ UNCHANGED <<retired, storeVars, procVars>>

\* updateJob, setPaused, bulkSetEnabled on one id, the circuit breaker.
UpdateJob(j, en, pa) ==
    /\ j \in jobs
    /\ SetFlags(j, en, pa)
    /\ UNCHANGED <<jobs, retired, storeVars, procVars>>

\* Mutant: the executions stay behind.
DeleteWithoutCascade(j) ==
    /\ j \in jobs
    /\ jobs' = jobs \ {j}
    /\ retired' = retired \cup {j}
    /\ SetFlags(j, FALSE, FALSE)
    /\ UNCHANGED <<storeVars, procVars>>

\* The executions go with the job (onDelete: Cascade).
DeleteJob(j) ==
    /\ j \in jobs
    /\ jobs' = jobs \ {j}
    /\ retired' = retired \cup {j}
    /\ SetFlags(j, FALSE, FALSE)
    /\ rows' = {r \in rows : r.jobId # j}
    /\ UNCHANGED <<minted, lock, queue, procVars>>

-----------------------------------------------------------------------------
Init ==
    /\ jobs = {} /\ retired = {} /\ enabled = {} /\ paused = {}
    /\ rows = {} /\ minted = {} /\ queue = <<>>
    /\ lock = [k \in Key |-> None]
    /\ pc = [p \in Claimant |-> "idle"]
    /\ todo = [p \in Claimant |-> {}]
    /\ key = [p \in Claimant |-> None]
    /\ ex = [p \in Claimant |-> None]

\* What claimant p does by itself once it has started.
Proceed(p) ==
    \/ CreateExecution(p)
    \/ EnqueueExecution(p)
    \/ ReleaseClaim(p)

ScanStep(t) ==
    \/ \E j \in Job : SkipJob(t, j) \/ \E s \in Slot : ClaimSlot(t, j, s)
    \/ TickEnd(t)

Fail(p) ==
    \/ CreateFails(p)
    \/ EnqueueFails(p)
    \/ Crash(p)

Environment ==
    \/ \E k \in Key : ExpireLock(k)
    \/ \E j \in Job, en, pa \in BOOLEAN : CreateJob(j, en, pa) \/ UpdateJob(j, en, pa)
    \/ \E j \in Job : DeleteJob(j)

Next ==
    \/ \E t \in Tick : TickStart(t) \/ ScanStep(t)
    \/ \E r \in Request : TriggerLock(r) \/ \E j \in Job : TriggerRequest(r, j)
    \/ \E p \in Claimant : Proceed(p) \/ Fail(p)
    \/ Environment

Spec == Init /\ [][Next]_vars

\* A live process runs its continuations, and setInterval keeps starting
\* ticks; users, TTLs and faults are under no obligation.
Fairness ==
    /\ \A t \in Tick : WF_vars(TickStart(t)) /\ WF_vars(ScanStep(t))
    /\ \A r \in Request : WF_vars(TriggerLock(r))
    /\ \A p \in Claimant : WF_vars(Proceed(p))

FairSpec == Spec /\ Fairness
-----------------------------------------------------------------------------
(***************************************************************************)
(* Properties.                                                             *)
(***************************************************************************)

\* Every variable has its type, the flags belong to existing jobs, and a
\* deleted job has no row left (foreign key with onDelete: Cascade).
TypeOK ==
    /\ jobs \subseteq Job /\ retired \subseteq Job /\ jobs \cap retired = {}
    /\ enabled \subseteq jobs /\ paused \subseteq jobs
    /\ rows \subseteq Row /\ minted \subseteq ExecId
    /\ \A r \in rows : r.id \in minted /\ r.jobId \in jobs
    /\ lock \in [Key -> Claimant \cup {None}]
    /\ queue \in Seq(Message)
    /\ pc \in [Claimant -> {"idle", "scan", "lock", "create", "add", "dup", "undo"}]
    /\ todo \in [Claimant -> SUBSET Job]
    /\ key \in [Claimant -> Key \cup {None}]
    /\ ex \in [Claimant -> ExecId \cup {None}]
    /\ \A p \in Claimant :
        /\ pc[p] \in {"lock", "create", "add", "dup", "undo"} => key[p] \in Key
        /\ pc[p] = "add" => ex[p] \in ExecId
        /\ p \in Tick /\ key[p] # None => key[p][2] # Manual
        /\ p \in Request /\ key[p] # None => key[p][2] = Manual

\* Slot s of job j has an Execution row.
Claimed(j, s) == \E r \in rows : r.jobId = j /\ r.scheduledFor = s

\* Slot s of job j was added to the execution queue.
Fired(j, s) == \E i \in DOMAIN queue : queue[i].jobId = j /\ queue[i].fireSlot = s

\* README.md: a job fires once per scheduled slot, whatever the replicas, the
\* lock expiries, the crashes and the failed calls: no two BullMQ jobs are
\* ever added for one (job, fire-slot).
NoDoubleEnqueue ==
    \A m, n \in DOMAIN queue :
        /\ queue[m].jobId = queue[n].jobId
        /\ queue[m].fireSlot = queue[n].fireSlot
        /\ queue[m].fireSlot # Manual
        => m = n

\* Whatever is queued names an Execution row of its own job and slot, unless
\* the job was deleted meanwhile: the worker finds the row it is told to run.
QueuedHasRow ==
    \A i \in DOMAIN queue :
        \/ queue[i].jobId \in retired
        \/ [id |-> queue[i].executionId, jobId |-> queue[i].jobId,
            scheduledFor |-> queue[i].fireSlot] \in rows

\* createScheduledExecution is "the actual double-fire guarantee": a claimant
\* on its way from the insert to queue.add is the only one to hold its slot,
\* its slot is not on the queue yet, and its row is there unless the job was
\* deleted.  With NoDoubleEnqueue and QueuedHasRow this is inductive.
ClaimExclusive ==
    \A p \in Claimant :
        pc[p] = "add" =>
            /\ \/ key[p][1] \in retired
               \/ [id |-> ex[p], jobId |-> key[p][1],
                   scheduledFor |-> key[p][2]] \in rows
            /\ key[p][2] # Manual =>
                /\ ~Fired(key[p][1], key[p][2])
                /\ \A q \in Claimant : pc[q] = "add" /\ key[q] = key[p] => q = p

\* lib/lock.ts: a holder can only ever delete its OWN lock.  A step of a
\* process that removes a lock is the owner's own release (a TTL expiry moves
\* no process).
OwnLockOnly ==
    [][\A k \in Key :
        lock[k] # None /\ lock'[k] # lock[k] /\ pc' # pc
        => LET p == lock[k]
           IN  key[p] = k /\ pc[p] \in {"dup", "undo"} /\ pc'[p] # pc[p]]_vars

\* scheduler.ts, release in every branch but the successful one: as long as
\* no process dies, a lock outlives its claim only where the claim was queued;
\* a lost race or an insert that met a deleted job leaves nothing locked.
LeftLockIsFired ==
    \A k \in Key : lock[k] # None /\ key[lock[k]] # k => Fired(k[1], k[2])

\* README.md, "at-least-once delivery": a slot whose row was inserted is
\* queued sooner or later (or its job is deleted).
ClaimedSlotFires ==
    \A j \in Job, s \in Slot : Claimed(j, s) ~> (Fired(j, s) \/ j \in retired)

-----------------------------------------------------------------------------
(***************************************************************************)
(* The detailed system implements the promise.                             *)
(***************************************************************************)

Item == Job \X Slot

Closed == {k \in Item : k[1] \in retired \/ Claimed(k[1], k[2])}

Fires == [k \in Item |->
            {i \in DOMAIN queue : queue[i].jobId = k[1] /\ queue[i].fireSlot = k[2]}]

Promise == INSTANCE FireOnce WITH closed <- Closed, fires <- Fires

\* Seen as the set of closed slots and the queue positions of each slot, the
\* scheduler takes only steps of FireOnce.
ImplementsFireOnce == Promise!AInit /\ [][Promise!ANext]_(Promise!avars)
=============================================================================
