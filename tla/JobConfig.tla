------------------------------ MODULE JobConfig ------------------------------
(***************************************************************************)
(* The job table and its Redis copy (services/job.service.ts,              *)
(* lib/job-cache.ts).  The API writes PostgreSQL first and then repairs    *)
(* job:config:<id>, one await at a time, so requests on one job interleave *)
(* between the two stores.  The worker trusts the copy.                    *)
(*                                                                         *)
(* After its database write a request owes Redis a set of DELs (all sent   *)
(* at once by bulkSetEnabled) and then, for a create or an update, one SET *)
(* of the row it read back.  A request that owes nothing is over.          *)
(***************************************************************************)
EXTENDS Naturals

CONSTANTS
    Job,           \* job ids; a cuid is never used twice
    Rest,          \* what a job row says besides "enabled": url, timeout, retries
    Writer,        \* API requests in flight
    None,          \* no row, no cached copy, nothing owed
    RequestsFail   \* BOOLEAN: a request may die after its database write

Config == [enabled : BOOLEAN, rest : Rest]

Copy == [job : Job, config : Config]

ASSUME ConfigAssumption ==
    /\ None \notin Config \cup Copy
    /\ RequestsFail \in BOOLEAN

VARIABLES
    db,       \* table Job: id -> row, None if there is none
    retired,  \* ids of deleted jobs
    cache,    \* Redis job:config:<id> -> row, None if absent or expired
    owesDel,  \* request -> keys it has still to DEL
    owesSet,  \* request -> the copy it has still to SET, or None
    raced     \* history: jobs on which requests overlapped or one was cut
              \* short, until one runs alone or, with none under way, the
              \* copy expires

configVars == <<db, retired, cache, owesDel, owesSet, raced>>

-----------------------------------------------------------------------------
\* Request w is between its database write and its last Redis command.
Busy(w) == owesDel[w] # {} \/ owesSet[w] # None

\* Some request has still to DEL or SET the copy of job j.
InFlight(j) ==
    \E w \in Writer : j \in owesDel[w] \/ (owesSet[w] # None /\ owesSet[w].job = j)

\* Request w has written the jobs S, and has Redis commands to send.
Begin(w, S, del, copy) ==
    /\ ~Busy(w)
    /\ owesDel' = [owesDel EXCEPT ![w] = del]
    /\ owesSet' = [owesSet EXCEPT ![w] = copy]
    /\ raced' = (raced \ S) \cup {j \in S : InFlight(j)}

CopyOf(j, c) == [job |-> j, config |-> c]

createJob(w, j, c) ==
    /\ db[j] = None /\ j \notin retired
    /\ db' = [db EXCEPT ![j] = c]
    /\ Begin(w, {j}, {}, CopyOf(j, c))
    /\ UNCHANGED <<retired, cache>>

\* Mutant: only the database is updated.
updateDbOnly(w, j, c) ==
    /\ db[j] # None
    /\ ~Busy(w)
    /\ db' = [db EXCEPT ![j] = c]
    /\ UNCHANGED <<retired, cache, owesDel, owesSet, raced>>

\* updateJob and setPaused.  c is the row PostgreSQL returns; a missing job
\* throws, is caught, and nothing happens.
updateJob(w, j, c) ==
    /\ db[j] # None
    /\ db' = [db EXCEPT ![j] = c]
    /\ Begin(w, {j}, {j}, CopyOf(j, c))
    /\ UNCHANGED <<retired, cache>>

deleteJob(w, j) ==
    /\ db[j] # None
    /\ db' = [db EXCEPT ![j] = None]
    /\ retired' = retired \cup {j}
    /\ Begin(w, {j}, {j}, None)
    /\ UNCHANGED cache

\* Mutant: bulkSetEnabled forgets the cache.
bulkWithoutDel(w, S, b) ==
    /\ ~Busy(w)
    /\ db' = [j \in Job |-> IF j \in S /\ db[j] # None
                            THEN [db[j] EXCEPT !.enabled = b] ELSE db[j]]
    /\ UNCHANGED <<retired, cache, owesDel, owesSet, raced>>

bulkSetEnabled(w, S, b) ==
    /\ db' = [j \in Job |-> IF j \in S /\ db[j] # None
                            THEN [db[j] EXCEPT !.enabled = b] ELSE db[j]]
    /\ Begin(w, S, S, None)
    /\ UNCHANGED <<retired, cache>>

invalidateJobConfig(w, j) ==
    /\ j \in owesDel[w]
    /\ cache' = [cache EXCEPT ![j] = None]
    /\ owesDel' = [owesDel EXCEPT ![w] = @ \ {j}]
    /\ UNCHANGED <<db, retired, owesSet, raced>>

cacheJobConfig(w) ==
    /\ owesDel[w] = {} /\ owesSet[w] # None
    /\ cache' = [cache EXCEPT ![owesSet[w].job] = owesSet[w].config]
    /\ owesSet' = [owesSet EXCEPT ![w] = None]
    /\ UNCHANGED <<db, retired, owesDel, raced>>

\* A Redis command throws (updateJob and deleteJob swallow it) or the API
\* process dies: the rest of the request is not done.
RequestDies(w) ==
    /\ RequestsFail
    /\ Busy(w)
    /\ owesDel' = [owesDel EXCEPT ![w] = {}]
    /\ owesSet' = [owesSet EXCEPT ![w] = None]
    /\ raced' = raced \cup owesDel[w]
                \cup (IF owesSet[w] = None THEN {} ELSE {owesSet[w].job})
    /\ UNCHANGED <<db, retired, cache>>

\* EX 3600.
ExpireCache(j) ==
    /\ cache[j] # None
    /\ cache' = [cache EXCEPT ![j] = None]
    /\ raced' = IF InFlight(j) THEN raced ELSE raced \ {j}
    /\ UNCHANGED <<db, retired, owesDel, owesSet>>

-----------------------------------------------------------------------------
ConfigInit ==
    /\ db = [j \in Job |-> None]
    /\ retired = {}
    /\ cache = [j \in Job |-> None]
    /\ owesDel = [w \in Writer |-> {}]
    /\ owesSet = [w \in Writer |-> None]
    /\ raced = {}

RedisStep(w) == cacheJobConfig(w) \/ \E j \in Job : invalidateJobConfig(w, j)

ConfigNext ==
    \/ \E w \in Writer :
        \/ \E j \in Job, c \in Config : createJob(w, j, c) \/ updateJob(w, j, c)
        \/ \E j \in Job : deleteJob(w, j)
        \/ \E S \in (SUBSET Job) \ {{}}, b \in BOOLEAN : bulkSetEnabled(w, S, b)
        \/ RedisStep(w)
        \/ RequestDies(w)
    \/ \E j \in Job : ExpireCache(j)

ConfigSpec == ConfigInit /\ [][ConfigNext]_configVars
-----------------------------------------------------------------------------
(***************************************************************************)
(* Properties.                                                             *)
(***************************************************************************)

ConfigTypeOK ==
    /\ db \in [Job -> Config \cup {None}]
    /\ retired \subseteq {j \in Job : db[j] = None}
    /\ cache \in [Job -> Config \cup {None}]
    /\ owesDel \in [Writer -> SUBSET Job]
    /\ owesSet \in [Writer -> Copy \cup {None}]
    /\ raced \subseteq Job

\* job.service.ts, write then DEL then SET: once the requests on a job are
\* over, the copy the worker reads is the row or is absent, unless two of
\* them overlapped or one was cut short; and the next request that runs alone
\* repairs what those left behind.
StaleOnlyAfterRace ==
    \A j \in Job : ~InFlight(j) /\ j \notin raced => cache[j] \in {None, db[j]}
=============================================================================
