--------------------------- MODULE SchedulerProofs ---------------------------
(***************************************************************************)
(* Machine-checked proofs about Scheduler, for every set of jobs, slots,   *)
(* ticks, requests and execution ids, with or without faults.              *)
(***************************************************************************)
EXTENDS Scheduler, TLAPS

\* At most one BullMQ job per slot, and what makes that inductive: a queued
\* slot, or one on its way from the insert to the add, still has its row.
Exactness == NoDoubleEnqueue /\ QueuedHasRow /\ ClaimExclusive

IInv == TypeOK /\ Exactness

-----------------------------------------------------------------------------
\* Every step keeps the types, and the initial state has them.
LEMMA TypeInit == Init => TypeOK
  BY ConstantsAssumption DEF Init, TypeOK, Claimant

\* Every step of a scan, a request, the API or the environment keeps the types.
LEMMA TypeStep == TypeOK /\ [Next]_vars => TypeOK'
<1> SUFFICES ASSUME TypeOK, [Next]_vars PROVE TypeOK'
  OBVIOUS
<1> USE ConstantsAssumption DEF TypeOK, Claimant, Key, FireSlot, jobVars, storeVars, procVars
<1>1. ASSUME NEW t \in Tick, TickStart(t) PROVE TypeOK'
  BY <1>1 DEF TickStart
<1>2. ASSUME NEW t \in Tick, NEW j \in Job, SkipJob(t, j) PROVE TypeOK'
  BY <1>2 DEF SkipJob
<1>3. ASSUME NEW t \in Tick, NEW j \in Job, NEW s \in Slot, ClaimSlot(t, j, s) PROVE TypeOK'
  BY <1>3 DEF ClaimSlot, acquireJobLock, Token
<1>4. ASSUME NEW t \in Tick, TickEnd(t) PROVE TypeOK'
  BY <1>4 DEF TickEnd
<1>5. ASSUME NEW r \in Request, NEW j \in Job, TriggerRequest(r, j) PROVE TypeOK'
  BY <1>5 DEF TriggerRequest
<1>6. ASSUME NEW r \in Request, TriggerLock(r) PROVE TypeOK'
  <2>1. CASE lock[key[r]] = None
    <3>1. /\ key[r] \in Key
          /\ lock' = [lock EXCEPT ![key[r]] = r]
          /\ pc' = [pc EXCEPT ![r] = "create"]
          /\ UNCHANGED <<jobs, retired, enabled, paused, rows, minted, queue, todo, key, ex>>
      BY <1>6, <2>1 DEF TriggerLock, acquireJobLock, Token
    <3> QED
      BY <3>1
  <2>2. CASE lock[key[r]] # None
    BY <1>6, <2>2 DEF TriggerLock, acquireJobLock
  <2> QED
    BY <2>1, <2>2
<1>7. ASSUME NEW p \in Claimant, CreateExecution(p) PROVE TypeOK'
  <2> key[p] \in Key /\ UNCHANGED <<jobVars, lock, queue, todo, key>>
    BY <1>7 DEF CreateExecution
  <2>1. ASSUME NEW e \in ExecId, InsertExecution(key[p], e),
               ex' = [ex EXCEPT ![p] = e], pc' = [pc EXCEPT ![p] = "add"]
        PROVE  TypeOK'
    BY <2>1 DEF InsertExecution, Row
  <2>2. ASSUME NEW v \in {"dup", "undo"}, pc' = [pc EXCEPT ![p] = v],
               UNCHANGED <<rows, minted, ex>>
        PROVE  TypeOK'
    BY <2>2
  <2> HIDE DEF TypeOK, Claimant, Key, FireSlot, jobVars
  <2> QED
    BY <1>7, <2>1, <2>2 DEF CreateExecution
<1>8. ASSUME NEW p \in Claimant, EnqueueExecution(p) PROVE TypeOK'
  BY <1>8 DEF EnqueueExecution, AddToQueue, Message, Resume
<1>9. ASSUME NEW p \in Claimant, ReleaseClaim(p) PROVE TypeOK'
  BY <1>9 DEF ReleaseClaim, releaseJobLock, Token, Resume
<1>10. ASSUME NEW p \in Claimant, CreateFails(p) PROVE TypeOK'
  BY <1>10 DEF CreateFails, InsertExecution, Row
<1>11. ASSUME NEW p \in Claimant, EnqueueFails(p) PROVE TypeOK'
  <2>1. CASE AddToQueue(p)
    BY <1>11, <2>1 DEF EnqueueFails, AddToQueue, Message
  <2>2. CASE UNCHANGED queue
    BY <1>11, <2>2 DEF EnqueueFails
  <2> QED
    BY <1>11, <2>1, <2>2 DEF EnqueueFails
<1>12. ASSUME NEW p \in Claimant, Crash(p) PROVE TypeOK'
  BY <1>12 DEF Crash
<1>13. ASSUME NEW k \in Key, ExpireLock(k) PROVE TypeOK'
  BY <1>13 DEF ExpireLock
<1>14. ASSUME NEW j \in Job, NEW en \in BOOLEAN, NEW pa \in BOOLEAN,
              CreateJob(j, en, pa) \/ UpdateJob(j, en, pa)
       PROVE  TypeOK'
  BY <1>14 DEF CreateJob, UpdateJob, SetFlags
<1>15. ASSUME NEW j \in Job, DeleteJob(j) PROVE TypeOK'
  BY <1>15 DEF DeleteJob, SetFlags
<1>16. CASE UNCHANGED vars
  BY <1>16 DEF vars
<1> HIDE DEF TypeOK, Claimant, Key, FireSlot
<1> QED
  BY <1>1, <1>2, <1>3, <1>4, <1>5, <1>6, <1>7, <1>8, <1>9, <1>10, <1>11, <1>12,
     <1>13, <1>14, <1>15, <1>16
     DEF Next, ScanStep, Proceed, Fail, Environment

\* The type invariant of the scheduler and the trigger API.
THEOREM TypeCorrect == Spec => []TypeOK
  BY TypeInit, TypeStep, PTL DEF Spec

-----------------------------------------------------------------------------
\* A step that leaves the rows, the queue and the deleted jobs alone, and puts
\* nobody between the insert and the add.
Quiet ==
    /\ UNCHANGED <<rows, queue, retired>>
    /\ \A p \in Claimant : pc'[p] = "add" =>
            pc[p] = "add" /\ key'[p] = key[p] /\ ex'[p] = ex[p]

\* A step that neither inserts, adds nor deletes keeps the exactness of claims.
LEMMA QuietStep == Exactness /\ Quiet => Exactness'
  BY DEF Exactness, Quiet, NoDoubleEnqueue, QueuedHasRow, ClaimExclusive, Fired

\* Which steps are quiet: all but an insert, an add and a deletion.
LEMMA QuietActions ==
    ASSUME TypeOK, [Next]_vars
    PROVE  \/ Quiet
           \/ \E p \in Claimant :
                CreateExecution(p) \/ CreateFails(p) \/ EnqueueExecution(p) \/ EnqueueFails(p)
           \/ \E j \in Job : DeleteJob(j)
<1> USE DEF jobVars, storeVars, procVars
<1> pc \in [Claimant -> {"idle", "scan", "lock", "create", "add", "dup", "undo"}]
  BY DEF TypeOK
<1> key \in [Claimant -> Key \cup {None}] /\ Tick \subseteq Claimant /\ Request \subseteq Claimant
  BY DEF TypeOK, Claimant
<1>1. ASSUME NEW t \in Tick, TickStart(t) \/ TickEnd(t) PROVE Quiet
  BY <1>1 DEF TickStart, TickEnd, Quiet
<1>2. ASSUME NEW t \in Tick, NEW j \in Job, SkipJob(t, j) PROVE Quiet
  BY <1>2 DEF SkipJob, Quiet
<1>3. ASSUME NEW t \in Tick, NEW j \in Job, NEW s \in Slot, ClaimSlot(t, j, s) PROVE Quiet
  BY <1>3 DEF ClaimSlot, Quiet
<1>4. ASSUME NEW r \in Request, NEW j \in Job, TriggerRequest(r, j) PROVE Quiet
  BY <1>4 DEF TriggerRequest, Quiet
<1>5. ASSUME NEW r \in Request, TriggerLock(r) PROVE Quiet
  BY <1>5 DEF TriggerLock, Quiet
<1>6. ASSUME NEW p \in Claimant, ReleaseClaim(p) PROVE Quiet
  BY <1>6 DEF ReleaseClaim, Resume, Quiet
<1>7. ASSUME NEW p \in Claimant, Crash(p) PROVE Quiet
  BY <1>7 DEF Crash, Quiet
<1>8. ASSUME NEW k \in Key, ExpireLock(k) PROVE Quiet
  BY <1>8 DEF ExpireLock, Quiet
<1>9. ASSUME NEW j \in Job, NEW en \in BOOLEAN, NEW pa \in BOOLEAN,
             CreateJob(j, en, pa) \/ UpdateJob(j, en, pa)
      PROVE  Quiet
  BY <1>9 DEF CreateJob, UpdateJob, Quiet
<1>10. CASE UNCHANGED vars
  BY <1>10 DEF vars, Quiet
<1> HIDE DEF jobVars, storeVars, procVars
<1> QED
  BY <1>1, <1>2, <1>3, <1>4, <1>5, <1>6, <1>7, <1>8, <1>9, <1>10
     DEF Next, ScanStep, Proceed, Fail, Environment

\* An insert is exclusive: nobody holds the slot and nothing of it is queued,
\* because either would have left a row, and the unique index has none.
LEMMA InsertStep ==
    ASSUME TypeOK, Exactness, NEW p \in Claimant, NEW e \in ExecId,
           pc[p] = "create", InsertExecution(key[p], e), UNCHANGED <<retired, queue, key>>,
           \/ pc' = [pc EXCEPT ![p] = "add"] /\ ex' = [ex EXCEPT ![p] = e]
           \/ pc' = [pc EXCEPT ![p] = "undo"] /\ UNCHANGED ex
    PROVE  Exactness'
<1> DEFINE k == key[p]
           new == [id |-> e, jobId |-> k[1], scheduledFor |-> k[2]]
<1>1. k \in Key /\ k[1] \in Job /\ k[2] \in FireSlot
  BY DEF TypeOK, Key
<1>2. /\ k[1] \notin retired
      /\ k[2] # Manual => \A r \in rows : ~(r.jobId = k[1] /\ r.scheduledFor = k[2])
      /\ rows' = rows \cup {new}
  BY DEF InsertExecution, UniqueViolation, TypeOK
<1>3. k[2] # Manual => ~Fired(k[1], k[2])
  BY <1>2 DEF Exactness, QueuedHasRow, Fired
<1>4. ASSUME NEW q \in Claimant, pc[q] = "add", k[2] # Manual PROVE key[q] # k
  BY <1>2, <1>4 DEF Exactness, ClaimExclusive
<1>5. NoDoubleEnqueue' /\ QueuedHasRow'
  BY <1>2 DEF Exactness, NoDoubleEnqueue, QueuedHasRow
<1>6. ASSUME NEW q \in Claimant, pc'[q] = "add", q # p
      PROVE  /\ pc[q] = "add" /\ ex'[q] = ex[q]
             /\ key[q][2] # Manual => ~Fired(key[q][1], key[q][2])
             /\ \/ key[q][1] \in retired
                \/ [id |-> ex[q], jobId |-> key[q][1], scheduledFor |-> key[q][2]] \in rows
  <2>1. pc[q] = "add" /\ ex'[q] = ex[q]
    BY <1>6 DEF TypeOK
  <2> QED
    BY <2>1 DEF Exactness, ClaimExclusive
<1>7. pc'[p] = "add" => ex'[p] = e
  BY DEF TypeOK
<1>8. ClaimExclusive'
  <2> SUFFICES ASSUME NEW q \in Claimant, pc'[q] = "add"
               PROVE  /\ \/ key[q][1] \in retired
                         \/ [id |-> ex'[q], jobId |-> key[q][1],
                             scheduledFor |-> key[q][2]] \in rows'
                      /\ key[q][2] # Manual =>
                            /\ ~Fired(key[q][1], key[q][2])
                            /\ \A q2 \in Claimant :
                                    pc'[q2] = "add" /\ key[q2] = key[q] => q2 = q
    BY DEF ClaimExclusive, Fired
  <2>1. CASE q = p
    BY <1>2, <1>3, <1>4, <1>6, <1>7, <2>1
  <2>2. CASE q # p
    <3>1. ASSUME NEW q2 \in Claimant, pc'[q2] = "add", key[q2] = key[q], key[q][2] # Manual
          PROVE  q2 = q
      <4>1. CASE q2 = p
        BY <1>4, <1>6, <2>2, <3>1, <4>1
      <4>2. CASE q2 # p
        BY <1>6, <2>2, <3>1, <4>2 DEF Exactness, ClaimExclusive
      <4> QED
        BY <4>1, <4>2
    <3> QED
      BY <1>2, <1>6, <2>2, <3>1
  <2> QED
    BY <2>1, <2>2
<1> QED
  BY <1>5, <1>8 DEF Exactness

\* queue.add: the slot was nobody else's and was not queued; it is now.
LEMMA AddStep ==
    ASSUME TypeOK, Exactness, NEW p \in Claimant, pc[p] = "add", AddToQueue(p),
           UNCHANGED <<retired, rows>>,
           NEW w \in {"scan", "idle", "undo"}, pc' = [pc EXCEPT ![p] = w],
           \A q \in Claimant : q # p => key'[q] = key[q] /\ ex'[q] = ex[q]
    PROVE  Exactness'
<1> DEFINE n == Len(queue) + 1
           m == [executionId |-> ex[p], jobId |-> key[p][1], fireSlot |-> key[p][2]]
<1>1. /\ DOMAIN queue = 1..Len(queue) /\ DOMAIN queue' = 1..n /\ Len(queue) \in Nat
      /\ queue'[n] = m
      /\ \A i \in DOMAIN queue : queue'[i] = queue[i]
  <2>1. queue \in Seq(Message) /\ m \in Message
    BY DEF TypeOK, Message, Key
  <2> QED
    BY <2>1 DEF AddToQueue
<1>2. m.jobId = key[p][1] /\ m.fireSlot = key[p][2] /\ m.executionId = ex[p]
  OBVIOUS
<1>3. m.fireSlot # Manual => ~Fired(m.jobId, m.fireSlot)
  BY <1>2 DEF Exactness, ClaimExclusive
<1>4. NoDoubleEnqueue'
  <2> SUFFICES ASSUME NEW a \in 1..n, NEW b \in 1..n,
                      queue'[a].jobId = queue'[b].jobId,
                      queue'[a].fireSlot = queue'[b].fireSlot,
                      queue'[a].fireSlot # Manual
               PROVE  a = b
    BY <1>1 DEF NoDoubleEnqueue
  <2>1. CASE a \in DOMAIN queue /\ b \in DOMAIN queue
    BY <1>1, <2>1 DEF Exactness, NoDoubleEnqueue
  <2>2. CASE a = n /\ b \in DOMAIN queue
    BY <1>1, <1>3, <2>2 DEF Fired
  <2>3. CASE b = n /\ a \in DOMAIN queue
    BY <1>1, <1>3, <2>3 DEF Fired
  <2> QED
    BY <1>1, <2>1, <2>2, <2>3
<1>5. QueuedHasRow'
  <2> SUFFICES ASSUME NEW i \in 1..n
               PROVE  \/ queue'[i].jobId \in retired
                      \/ [id |-> queue'[i].executionId, jobId |-> queue'[i].jobId,
                          scheduledFor |-> queue'[i].fireSlot] \in rows
    BY <1>1 DEF QueuedHasRow
  <2>1. CASE i = n
    BY <1>1, <1>2, <2>1 DEF Exactness, ClaimExclusive
  <2>2. CASE i \in DOMAIN queue
    BY <1>1, <2>2 DEF Exactness, QueuedHasRow
  <2> QED
    BY <1>1, <2>1, <2>2
<1>6. ClaimExclusive'
  <2> SUFFICES ASSUME NEW q \in Claimant, pc'[q] = "add"
               PROVE  /\ \/ key'[q][1] \in retired
                         \/ [id |-> ex'[q], jobId |-> key'[q][1],
                             scheduledFor |-> key'[q][2]] \in rows
                      /\ key'[q][2] # Manual =>
                            /\ ~Fired(key[q][1], key[q][2])'
                            /\ \A q2 \in Claimant :
                                    pc'[q2] = "add" /\ key'[q2] = key'[q] => q2 = q
    BY DEF ClaimExclusive
  <2>1. \A q2 \in Claimant : pc'[q2] = "add" =>
            q2 # p /\ pc[q2] = "add" /\ key'[q2] = key[q2] /\ ex'[q2] = ex[q2]
    BY DEF TypeOK
  <2>2. ASSUME key[q][2] # Manual PROVE ~Fired(key[q][1], key[q][2])'
    <3>1. ~Fired(key[q][1], key[q][2]) /\ key[q] # key[p]
      BY <2>1, <2>2 DEF Exactness, ClaimExclusive
    <3>2. ~(m.jobId = key[q][1] /\ m.fireSlot = key[q][2])
      BY <1>2, <2>1, <3>1 DEF TypeOK, Key
    <3> QED
      BY <1>1, <2>1, <3>1, <3>2 DEF Fired
  <2> QED
    BY <2>1, <2>2 DEF Exactness, ClaimExclusive
<1> QED
  BY <1>4, <1>5, <1>6 DEF Exactness

\* Deleting a job removes its rows, but only its own, and retires it.
LEMMA DeleteStep ==
    ASSUME TypeOK, Exactness, NEW j \in Job, DeleteJob(j)
    PROVE  Exactness'
<1>1. /\ rows' = {r \in rows : r.jobId # j}
      /\ retired' = retired \cup {j}
      /\ UNCHANGED <<queue, pc, key, ex>>
  BY DEF DeleteJob, procVars
<1> QED
  BY <1>1 DEF Exactness, NoDoubleEnqueue, QueuedHasRow, ClaimExclusive, Fired

\* Every step keeps the exactness of claims: an insert, an add, a delete, or a quiet one.
LEMMA ExactStep == TypeOK /\ Exactness /\ [Next]_vars => Exactness'
<1> SUFFICES ASSUME TypeOK, Exactness, [Next]_vars PROVE Exactness'
  OBVIOUS
<1> USE DEF jobVars
<1>1. ASSUME NEW p \in Claimant, CreateExecution(p) PROVE Exactness'
  <2>1. CASE \E e \in ExecId : /\ InsertExecution(key[p], e)
                               /\ ex' = [ex EXCEPT ![p] = e]
                               /\ pc' = [pc EXCEPT ![p] = "add"]
    BY <1>1, <2>1, InsertStep DEF CreateExecution
  <2>2. CASE UNCHANGED <<rows, ex>> /\ \E v \in {"dup", "undo"} : pc' = [pc EXCEPT ![p] = v]
    <3>1. Quiet
      BY <1>1, <2>2 DEF CreateExecution, Quiet, TypeOK
    <3> QED
      BY <3>1, QuietStep
  <2> QED
    BY <1>1, <2>1, <2>2 DEF CreateExecution
<1>2. ASSUME NEW p \in Claimant, CreateFails(p) PROVE Exactness'
  <2>1. CASE \E e \in ExecId : InsertExecution(key[p], e)
    BY <1>2, <2>1, InsertStep DEF CreateFails
  <2>2. CASE UNCHANGED rows
    <3>1. Quiet
      BY <1>2, <2>2 DEF CreateFails, Quiet, TypeOK
    <3> QED
      BY <3>1, QuietStep
  <2> QED
    BY <1>2, <2>1, <2>2 DEF CreateFails
<1>3. ASSUME NEW p \in Claimant, EnqueueExecution(p) PROVE Exactness'
  <2>1. \A q \in Claimant : q # p => key'[q] = key[q] /\ ex'[q] = ex[q]
    BY <1>3 DEF EnqueueExecution, TypeOK
  <2>2. Resume(p) \in {"scan", "idle", "undo"}
    BY DEF Resume
  <2> QED
    BY <1>3, <2>1, <2>2, AddStep DEF EnqueueExecution
<1>4. ASSUME NEW p \in Claimant, EnqueueFails(p) PROVE Exactness'
  <2>1. \A q \in Claimant : q # p => key'[q] = key[q] /\ ex'[q] = ex[q]
    BY <1>4 DEF EnqueueFails, TypeOK
  <2>2. CASE AddToQueue(p)
    BY <1>4, <2>1, <2>2, AddStep DEF EnqueueFails
  <2>3. CASE UNCHANGED queue
    <3>1. Quiet
      BY <1>4, <2>1, <2>3 DEF EnqueueFails, Quiet, TypeOK
    <3> QED
      BY <3>1, QuietStep
  <2> QED
    BY <1>4, <2>2, <2>3 DEF EnqueueFails
<1> QED
  BY <1>1, <1>2, <1>3, <1>4, QuietActions, QuietStep, DeleteStep

\* The inductive invariant holds in every reachable state.
THEOREM Invariance == Spec => []IInv
<1>1. Init => IInv
  <2>1. Init => Exactness
    BY DEF Init, Exactness, NoDoubleEnqueue, QueuedHasRow, ClaimExclusive
  <2> QED
    BY <2>1, TypeInit DEF IInv
<1>2. IInv /\ [Next]_vars => IInv'
  BY TypeStep, ExactStep DEF IInv
<1> QED
  BY <1>1, <1>2, PTL DEF Spec

\* The scheduler's guarantee: whatever the number of replicas, lock expiries,
\* crashes and failed calls, one slot of one job is queued at most once.
THEOREM FiresAtMostOnce == Spec => []NoDoubleEnqueue
<1>1. IInv => NoDoubleEnqueue
  BY DEF IInv, Exactness
<1> QED
  BY <1>1, Invariance, PTL

\* createScheduledExecution hands a slot to one claimant, for any interleaving.
THEOREM ClaimsAreExclusive == Spec => []ClaimExclusive
<1>1. IInv => ClaimExclusive
  BY DEF IInv, Exactness
<1> QED
  BY <1>1, Invariance, PTL

\* The worker finds the row of every BullMQ job it takes, or the job is gone.
THEOREM QueuedRowsExist == Spec => []QueuedHasRow
<1>1. IInv => QueuedHasRow
  BY DEF IInv, Exactness
<1> QED
  BY <1>1, Invariance, PTL

-----------------------------------------------------------------------------
(***************************************************************************)
(* The refinement.                                                         *)
(***************************************************************************)

\* A step that queues nothing and reopens no slot closes slots, or stutters.
LEMMA CloseStep ==
    ASSUME UNCHANGED queue, Closed \subseteq Closed'
    PROVE  Promise!ANext
<1>1. UNCHANGED Fires
  BY DEF Fires
<1>2. Closed' \in SUBSET Item /\ Closed' = Closed \cup Closed'
  BY DEF Closed
<1> QED
  BY <1>1, <1>2 DEF Promise!ANext, Promise!Close

\* A row is only ever removed together with its job, which closes its slots.
LEMMA ClosedGrows ==
    ASSUME TypeOK, retired \subseteq retired',
           \A r \in rows : r \in rows' \/ r.jobId \in retired'
    PROVE  Closed \subseteq Closed'
  BY DEF Closed, Claimed

\* queue.add of a slot is a Fire step; of a manual trigger, a stutter.
LEMMA FireStep ==
    ASSUME TypeOK, Exactness, NEW p \in Claimant, pc[p] = "add", AddToQueue(p),
           UNCHANGED <<retired, rows>>
    PROVE  [Promise!ANext]_(Promise!avars)
<1> DEFINE n == Len(queue) + 1
           k == key[p]
           m == [executionId |-> ex[p], jobId |-> k[1], fireSlot |-> k[2]]
<1>1. /\ DOMAIN queue = 1..Len(queue) /\ DOMAIN queue' = 1..n /\ Len(queue) \in Nat
      /\ queue'[n] = m
      /\ \A i \in DOMAIN queue : queue'[i] = queue[i]
  <2>1. queue \in Seq(Message) /\ m \in Message
    BY DEF TypeOK, Message, Key
  <2> QED
    BY <2>1 DEF AddToQueue
<1>2. k \in Job \X FireSlot /\ m.jobId = k[1] /\ m.fireSlot = k[2]
  BY DEF TypeOK, Key
<1>3. UNCHANGED Closed
  BY DEF Closed, Claimed
<1>4. \A c \in Item : Fires'[c] = IF c[1] = k[1] /\ c[2] = k[2] THEN Fires[c] \cup {n} ELSE Fires[c]
  <2> SUFFICES ASSUME NEW c \in Item
               PROVE  {i \in 1..n : queue'[i].jobId = c[1] /\ queue'[i].fireSlot = c[2]}
                      = IF c[1] = k[1] /\ c[2] = k[2]
                        THEN {n} \cup
                             {i \in 1..Len(queue) : queue[i].jobId = c[1] /\ queue[i].fireSlot = c[2]}
                        ELSE {i \in 1..Len(queue) : queue[i].jobId = c[1] /\ queue[i].fireSlot = c[2]}
    BY <1>1 DEF Fires
  <2>1. 1..n = (1..Len(queue)) \cup {n} /\ n \notin 1..Len(queue)
    BY <1>1
  <2> HIDE DEF n, m
  <2> QED
    BY <1>1, <1>2, <2>1
<1>5. CASE k[2] = Manual
  <2>1. \A c \in Item : Fires'[c] = Fires[c]
    BY <1>4, <1>5, ConstantsAssumption DEF Item
  <2>2. UNCHANGED Fires
    BY <2>1 DEF Fires
  <2> QED
    BY <1>3, <2>2 DEF Promise!avars
<1>6. CASE k[2] # Manual
  <2>1. k \in Item
    BY <1>2, <1>6 DEF Item, FireSlot
  <2>2. k \in Closed
    BY <2>1 DEF Exactness, ClaimExclusive, Closed, Claimed
  <2>3. Fires[k] = {}
    BY <1>6, <2>1 DEF Exactness, ClaimExclusive, Fired, Fires
  <2>4. Fires' = [Fires EXCEPT ![k] = {n}]
    <3>1. \A c \in Item : c # k => ~(c[1] = k[1] /\ c[2] = k[2])
      BY <1>2 DEF Item
    <3>2. \A c \in Item : Fires'[c] = IF c = k THEN {n} ELSE Fires[c]
      BY <1>4, <2>3, <3>1
    <3>3. /\ Fires = [c \in Item |-> Fires[c]]
          /\ Fires' = [c \in Item |-> Fires'[c]]
      BY DEF Fires
    <3> HIDE DEF n, k
    <3> QED
      BY <2>1, <3>2, <3>3
  <2>5. n \in Fires'[k]
    BY <1>4, <2>1
  <2> QED
    BY <1>3, <2>1, <2>2, <2>3, <2>4, <2>5 DEF Promise!ANext, Promise!Fire
<1> QED
  BY <1>5, <1>6

\* Every step closes slots or fires one as FireOnce allows, or is a stutter there.
LEMMA RefineStep == IInv /\ [Next]_vars => [Promise!ANext]_(Promise!avars)
<1> SUFFICES ASSUME TypeOK, Exactness, [Next]_vars PROVE [Promise!ANext]_(Promise!avars)
  BY DEF IInv
<1> USE DEF jobVars
<1>1. CASE Quiet
  BY <1>1, CloseStep, ClosedGrows DEF Quiet
<1>2. ASSUME NEW p \in Claimant, CreateExecution(p) \/ CreateFails(p)
      PROVE  Promise!ANext
  <2>1. UNCHANGED <<queue, retired>> /\ rows \subseteq rows'
    BY <1>2 DEF CreateExecution, CreateFails, InsertExecution
  <2> QED
    BY <2>1, CloseStep, ClosedGrows
<1>3. ASSUME NEW p \in Claimant, EnqueueExecution(p) PROVE [Promise!ANext]_(Promise!avars)
  BY <1>3, FireStep DEF EnqueueExecution
<1>4. ASSUME NEW p \in Claimant, EnqueueFails(p) PROVE [Promise!ANext]_(Promise!avars)
  <2>1. CASE UNCHANGED queue
    BY <1>4, <2>1, CloseStep, ClosedGrows DEF EnqueueFails
  <2> QED
    BY <1>4, <2>1, FireStep DEF EnqueueFails
<1>5. ASSUME NEW j \in Job, DeleteJob(j) PROVE Promise!ANext
  <2>1. /\ UNCHANGED queue /\ retired \subseteq retired'
        /\ \A r \in rows : r \in rows' \/ r.jobId \in retired'
    BY <1>5 DEF DeleteJob
  <2> QED
    BY <2>1, CloseStep, ClosedGrows
<1> QED
  BY <1>1, <1>2, <1>3, <1>4, <1>5, QuietActions

\* Seen through the refinement mapping, the scheduler only takes steps of the
\* abstract promise: close a slot once, fire a closed slot at most once.
THEOREM Refinement == Spec => ImplementsFireOnce
<1>1. Init => Promise!AInit
  BY DEF Init, Promise!AInit, Closed, Claimed, Fires
<1> QED
  BY <1>1, RefineStep, Invariance, PTL DEF Spec, ImplementsFireOnce

-----------------------------------------------------------------------------
\* lib/lock.ts: a process only ever removes the lock it took itself.
THEOREM ReleasesOwnLockOnly == Spec => OwnLockOnly
<1> DEFINE Own == \A k \in Key :
        lock[k] # None /\ lock'[k] # lock[k] /\ pc' # pc
        => LET p == lock[k]
           IN  key[p] = k /\ pc[p] \in {"dup", "undo"} /\ pc'[p] # pc[p]
<1>1. TypeOK /\ [Next]_vars => [Own]_vars
  <2> SUFFICES ASSUME TypeOK, [Next]_vars, lock' # lock, pc' # pc PROVE Own
    OBVIOUS
  <2> USE DEF jobVars, storeVars, procVars
  <2>1. ASSUME NEW t \in Tick, NEW j \in Job, NEW s \in Slot, ClaimSlot(t, j, s) PROVE Own
    BY <2>1 DEF ClaimSlot, acquireJobLock, TypeOK
  <2>2. ASSUME NEW r \in Request, TriggerLock(r) PROVE Own
    BY <2>2 DEF TriggerLock, acquireJobLock, TypeOK
  <2>3. ASSUME NEW p \in Claimant, ReleaseClaim(p) PROVE Own
    <3>1. pc'[p] \in {"scan", "idle"} /\ pc[p] \in {"dup", "undo"}
      BY <2>3 DEF ReleaseClaim, Resume, TypeOK
    <3>2. ASSUME NEW k \in Key, lock'[k] # lock[k] PROVE k = key[p] /\ lock[k] = p
      BY <2>3, <3>2 DEF ReleaseClaim, releaseJobLock, Token, TypeOK
    <3> QED
      BY <3>1, <3>2
  <2>4. \/ \E t \in Tick, j \in Job, s \in Slot : ClaimSlot(t, j, s)
        \/ \E r \in Request : TriggerLock(r)
        \/ \E p \in Claimant : ReleaseClaim(p)
    BY DEF Next, ScanStep, Proceed, Fail, Environment, vars, TickStart, SkipJob, TickEnd,
           TriggerRequest, CreateExecution, EnqueueExecution, CreateFails, EnqueueFails,
           Crash, ExpireLock, CreateJob, UpdateJob, DeleteJob
  <2> HIDE DEF Own
  <2> QED
    BY <2>1, <2>2, <2>3, <2>4
<1> QED
  BY <1>1, TypeCorrect, PTL DEF Spec, OwnLockOnly

-----------------------------------------------------------------------------
(***************************************************************************)
(* Locks that outlive their claim.                                         *)
(***************************************************************************)

\* Claimant p works under the lock on k.
Holds(p, k) == key[p] = k /\ pc[p] \in {"create", "add", "dup", "undo"}

\* LeftLockIsFired, made inductive: a token is in use until its claim ends, and
\* a request that meets a lock left by its namesake is not the one to use it.
LockIsUsed == \A k \in Key : lock[k] # None => Fired(k[1], k[2]) \/ Holds(lock[k], k)

\* The queue only grows, so what was queued once stays queued.
LEMMA FiredStays ==
    ASSUME TypeOK, [Next]_vars
    PROVE  \A j, s : Fired(j, s) => Fired(j, s)'
<1>1. ASSUME NEW p \in Claimant, AddToQueue(p), pc[p] = "add"
      PROVE  \A j, s : Fired(j, s) => Fired(j, s)'
  <2> DEFINE m == [executionId |-> ex[p], jobId |-> key[p][1], fireSlot |-> key[p][2]]
  <2>1. queue \in Seq(Message) /\ m \in Message
    BY <1>1 DEF TypeOK, Message, Key
  <2>2. DOMAIN queue \subseteq DOMAIN queue' /\ \A i \in DOMAIN queue : queue'[i] = queue[i]
    BY <1>1, <2>1 DEF AddToQueue
  <2> QED
    BY <2>2 DEF Fired
<1>2. CASE UNCHANGED queue
  BY <1>2 DEF Fired
<1>3. \/ UNCHANGED queue
      \/ \E p \in Claimant : AddToQueue(p) /\ pc[p] = "add"
  <2>1. CASE Quiet
    BY <2>1 DEF Quiet
  <2>2. CASE \E p \in Claimant : CreateExecution(p) \/ CreateFails(p)
    BY <2>2 DEF CreateExecution, CreateFails
  <2>3. CASE \E p \in Claimant : EnqueueExecution(p) \/ EnqueueFails(p)
    BY <2>3 DEF EnqueueExecution, EnqueueFails
  <2>4. CASE \E j \in Job : DeleteJob(j)
    BY <2>4 DEF DeleteJob
  <2> QED
    BY <2>1, <2>2, <2>3, <2>4, QuietActions
<1> QED
  BY <1>1, <1>2, <1>3

\* A lock is taken, or given up, or its claimant goes on under it.
LEMMA LockStep ==
    ASSUME ~Crashes, TypeOK, LockIsUsed, [Next]_vars
    PROVE  LockIsUsed'
<1> SUFFICES ASSUME NEW k \in Key, lock'[k] # None
             PROVE  Fired(k[1], k[2])' \/ (Holds(lock[k], k))'
  BY DEF LockIsUsed
<1>0. /\ Fired(k[1], k[2]) => Fired(k[1], k[2])'
      /\ lock[k] \in Claimant \cup {None} /\ Tick \subseteq Claimant /\ Request \subseteq Claimant
  BY FiredStays DEF TypeOK, Claimant
<1>a. CASE Fired(k[1], k[2])
  BY <1>0, <1>a
<1>b. CASE ~Fired(k[1], k[2])
  <2>0. lock[k] # None => Holds(lock[k], k)
    BY <1>b DEF LockIsUsed
  <2>1. ASSUME NEW t \in Tick, TickStart(t) \/ TickEnd(t) \/ \E j \in Job : SkipJob(t, j)
        PROVE  Holds(lock[k], k)'
    BY <1>0, <2>0, <2>1 DEF TickStart, TickEnd, SkipJob, Holds, TypeOK, storeVars
  <2>2. ASSUME NEW t \in Tick, NEW j \in Job, NEW s \in Slot, ClaimSlot(t, j, s)
        PROVE  Holds(lock[k], k)'
    <3>1. <<j, s>> \in Key /\ t \in Claimant
      BY <1>0 DEF Key, FireSlot
    <3>2. CASE k = <<j, s>>
      BY <2>2, <3>1, <3>2 DEF ClaimSlot, acquireJobLock, Token, Holds, TypeOK
    <3>3. CASE k # <<j, s>>
      BY <1>0, <2>0, <2>2, <3>1, <3>3 DEF ClaimSlot, acquireJobLock, Token, Holds, TypeOK
    <3> QED
      BY <3>2, <3>3
  <2>3. ASSUME NEW r \in Request, NEW j \in Job, TriggerRequest(r, j)
        PROVE  Holds(lock[k], k)'
    BY <1>0, <2>0, <2>3 DEF TriggerRequest, Holds, TypeOK, storeVars
  <2>4. ASSUME NEW r \in Request, TriggerLock(r)
        PROVE  Holds(lock[k], k)'
    <3>1. key[r] \in Key /\ pc[r] = "lock" /\ r \in Claimant
      BY <1>0, <2>4 DEF TriggerLock, TypeOK
    <3>2. CASE acquireJobLock(r, key[r]) /\ pc' = [pc EXCEPT ![r] = "create"] /\ UNCHANGED key
      <4>1. CASE k = key[r]
        BY <3>1, <3>2, <4>1 DEF acquireJobLock, Token, Holds, TypeOK
      <4>2. CASE k # key[r]
        BY <1>0, <2>0, <3>1, <3>2, <4>2 DEF acquireJobLock, Token, Holds, TypeOK
      <4> QED
        BY <4>1, <4>2
    <3>3. CASE /\ pc' = [pc EXCEPT ![r] = "idle"]
               /\ key' = [key EXCEPT ![r] = None]
               /\ UNCHANGED lock
      <4>1. lock[k] # r
        BY <2>0, <3>1, <3>3 DEF Holds
      <4> QED
        BY <1>0, <2>0, <3>1, <3>3, <4>1 DEF Holds, TypeOK
    <3> QED
      BY <2>4, <3>2, <3>3 DEF TriggerLock
  <2>5. ASSUME NEW p \in Claimant, CreateExecution(p) \/ CreateFails(p) \/ EnqueueFails(p)
        PROVE  Holds(lock[k], k)'
    <3>1. /\ UNCHANGED <<lock, key>>
          /\ \E v \in {"add", "dup", "undo"} : pc' = [pc EXCEPT ![p] = v]
      BY <2>5 DEF CreateExecution, CreateFails, EnqueueFails
    <3> QED
      BY <1>0, <2>0, <3>1 DEF Holds, TypeOK
  <2>6. ASSUME NEW p \in Claimant, EnqueueExecution(p)
        PROVE  Fired(k[1], k[2])' \/ Holds(lock[k], k)'
    <3> DEFINE m == [executionId |-> ex[p], jobId |-> key[p][1], fireSlot |-> key[p][2]]
    <3>1. queue \in Seq(Message) /\ m \in Message
      BY <2>6 DEF EnqueueExecution, TypeOK, Message, Key
    <3>2. Len(queue) + 1 \in DOMAIN queue' /\ queue'[Len(queue) + 1] = m
      BY <2>6, <3>1 DEF EnqueueExecution, AddToQueue
    <3>3. CASE lock[k] = p
      <4>1. m.jobId = k[1] /\ m.fireSlot = k[2]
        BY <2>0, <2>6, <3>3 DEF Holds, EnqueueExecution, TypeOK
      <4> QED
        BY <3>2, <4>1 DEF Fired
    <3>4. CASE lock[k] # p
      BY <1>0, <2>0, <2>6, <3>4 DEF Holds, EnqueueExecution, TypeOK
    <3> QED
      BY <3>3, <3>4
  <2>7. ASSUME NEW p \in Claimant, ReleaseClaim(p)
        PROVE  Holds(lock[k], k)'
    <3>1. key[p] \in Key
      BY <2>7 DEF ReleaseClaim, TypeOK
    <3>2. lock'[k] = lock[k] /\ lock[k] # p
      BY <2>0, <2>7, <3>1 DEF ReleaseClaim, releaseJobLock, Token, Holds, TypeOK
    <3> QED
      BY <1>0, <2>0, <2>7, <3>2 DEF ReleaseClaim, Holds, TypeOK
  <2>8. ASSUME NEW l \in Key, ExpireLock(l)
        PROVE  Holds(lock[k], k)'
    BY <2>0, <2>8 DEF ExpireLock, procVars, Holds, TypeOK
  <2>9. ASSUME NEW j \in Job, \/ \E en, pa \in BOOLEAN : CreateJob(j, en, pa) \/ UpdateJob(j, en, pa)
                              \/ DeleteJob(j)
        PROVE  Holds(lock[k], k)'
    BY <2>0, <2>9 DEF CreateJob, UpdateJob, DeleteJob, storeVars, procVars, Holds
  <2>10. CASE UNCHANGED vars
    BY <2>0, <2>10 DEF vars, storeVars, procVars, Holds
  <2>11. \A p \in Claimant : ~Crash(p)
    BY DEF Crash
  <2> QED
    BY <2>1, <2>2, <2>3, <2>4, <2>5, <2>6, <2>7, <2>8, <2>9, <2>10, <2>11
       DEF Next, ScanStep, Proceed, Fail, Environment
<1> QED
  BY <1>a, <1>b

\* scheduler.ts, the release in every branch but the successful one: without
\* crashes, but with failing calls and locks that expire, a lock outlives its
\* claim only where the claim was queued.
THEOREM LeftLocksAreFired == ASSUME ~Crashes PROVE Spec => []LeftLockIsFired
<1>1. Init => LockIsUsed
  BY DEF Init, LockIsUsed
<1>2. LockIsUsed => LeftLockIsFired
  BY DEF LockIsUsed, LeftLockIsFired, Holds
<1>3. TypeOK /\ LockIsUsed /\ [Next]_vars => LockIsUsed'
  BY LockStep
<1> QED
  BY <1>1, <1>2, <1>3, TypeCorrect, PTL DEF Spec
=============================================================================
