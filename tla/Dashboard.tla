------------------------------ MODULE Dashboard ------------------------------
(***************************************************************************)
(* The dashboard in one browser (frontend/src): the job table, its buttons *)
(* and the form for a new job, against an API other people use as well.    *)
(*                                                                         *)
(* A request is an asynchronous handler of the page from its first await   *)
(* to its end: a button's call and the reload after it, the form's POST    *)
(* and its reload, or a reload alone.  Requests travel on connections of   *)
(* their own: they are executed and answered in any order, or fail.        *)
(***************************************************************************)
CONSTANTS
    Job,      \* job ids
    Draft,    \* contents of the form
    Request,  \* handlers that may be under way at the same time
    None

\* A row is not there yet, enabled or not, or deleted.  (paused is a second
\* switch, which the page and the routes treat like this one.)
Row == {"new", "on", "off", "gone"}

ASSUME DashboardAssumption == None \notin Job \cup Draft \cup Row

VARIABLES
    rows,     \* the job table of the API
    origin,   \* history: the draft each row was made of
    shown,    \* jobs
    loading,  \* loading
    busy,     \* busyId
    error,    \* whether an error is shown
    open,     \* isModalOpen
    form,     \* the content of the form
    saving,   \* saving
    req,      \* the requests under way
    typed,    \* history: drafts that were typed
    doubted,  \* history: drafts whose POST was executed and its answer lost
    want,     \* history: what the last click on each job asked for.  None: no
              \* claim is made, as somebody else wrote the job, a request on
              \* it failed, or an action on another job began or ended, and
              \* took busyId away, while a request on it was under way
    crossed   \* history: the last load started while another was under way

pageVars == <<shown, loading, busy, error>>
formVars == <<open, form, saving, typed>>
apiVars == <<rows, origin, doubted>>
vars == <<apiVars, pageVars, formVars, req, want, crossed>>

Listed(row) == row \in {"on", "off"}

\* What a list of the jobs tells of them.
View(table) == [j \in Job |-> IF Listed(table[j]) THEN table[j] ELSE None]

Rest == [at |-> "idle", kind |-> "load", job |-> None, val |-> None, ok |-> TRUE]

\* Requests whose load is under way, and requests on job j.
Loading == {r \in Request : req[r].at \in {"fetch", "fetched"}}
On(j) == {r \in Request : req[r].job = j}

\* Jobs other than j that requests other than r are on.
Others(r, j) == {req[q].job : q \in Request \ {r}} \ {j}

NoClaim(jobs) == [j \in Job |-> IF j \in jobs THEN None ELSE want[j]]

-----------------------------------------------------------------------------
(***************************************************************************)
(* The user.                                                               *)
(***************************************************************************)

\* loadJobs up to its await, as the next thing request r does.
loadJobs(r, kind, job) ==
    /\ loading' = TRUE
    /\ crossed' = (Loading # {})
    /\ req' = [req EXCEPT ![r] = [Rest EXCEPT !.at = "fetch", !.kind = kind, !.job = job]]

Refresh(r) ==
    /\ req[r] = Rest
    /\ ~loading
    /\ loadJobs(r, "load", None)
    /\ UNCHANGED <<apiVars, shown, busy, error, formVars, want>>

\* The other position of the switch, as it is shown.
Switched(j) == IF shown[j] = "on" THEN "off" ELSE "on"

\* JobTable has a line for job j, and its buttons are not disabled.
Clickable(j) == ~loading /\ Listed(shown[j]) /\ busy # j

\* What they ask for; a trigger needs an enabled job.
Buttons(j) == {Switched(j), "gone"} \cup (IF shown[j] = "on" THEN {"fire"} ELSE {})

\* handleAction up to its await.
handleAction(r, j, val) ==
    /\ req[r] = Rest
    /\ Clickable(j) /\ val \in Buttons(j)
    /\ busy' = j
    /\ error' = FALSE
    /\ req' = [req EXCEPT ![r] = [Rest EXCEPT !.at = "sent", !.kind = "action",
                                              !.job = j, !.val = val]]
    /\ want' = [NoClaim(Others(r, j)) EXCEPT ![j] =
                  IF @ = None \/ val = "fire" THEN @ ELSE val]
    /\ UNCHANGED <<apiVars, shown, loading, formVars, crossed>>

OpenForm ==
    /\ ~open
    /\ open' = TRUE
    /\ UNCHANGED <<apiVars, pageVars, form, saving, typed, req, want, crossed>>

\* The cross and the background close the form even while it is being saved.
\* It keeps its content.
CloseForm ==
    /\ open
    /\ open' = FALSE
    /\ UNCHANGED <<apiVars, pageVars, form, saving, typed, req, want, crossed>>

Type(d) ==
    /\ open
    /\ d \notin typed
    /\ form' = d
    /\ typed' = typed \cup {d}
    /\ UNCHANGED <<apiVars, pageVars, open, saving, req, want, crossed>>

\* Mutant: the button is not disabled while the form is being saved.
submitAgain(r) ==
    /\ req[r] = Rest
    /\ open /\ form # None
    /\ saving' = TRUE
    /\ req' = [req EXCEPT ![r] = [Rest EXCEPT !.at = "sent", !.kind = "create", !.val = form]]
    /\ UNCHANGED <<apiVars, pageVars, open, form, typed, want, crossed>>

\* handleSubmit up to its await.
handleSubmit(r) ==
    /\ req[r] = Rest
    /\ open /\ form # None /\ ~saving
    /\ saving' = TRUE
    /\ req' = [req EXCEPT ![r] = [Rest EXCEPT !.at = "sent", !.kind = "create", !.val = form]]
    /\ UNCHANGED <<apiVars, pageVars, open, form, typed, want, crossed>>

-----------------------------------------------------------------------------
(***************************************************************************)
(* The API, and its other users.                                           *)
(***************************************************************************)

\* Mutant: the route switches the row over, whatever the body says.
toggleRow(j, val) ==
    /\ Listed(rows[j])
    /\ rows' = [rows EXCEPT ![j] = IF val = "gone" THEN val
                                   ELSE IF @ = "on" THEN "off" ELSE "on"]

\* PUT /:id, POST /:id/pause, POST /:id/resume, DELETE /:id.
setRow(j, val) ==
    /\ Listed(rows[j])
    /\ rows' = [rows EXCEPT ![j] = val]

\* A call is executed; its answer is on its way.
Execute(r) ==
    LET q == req[r] IN
    /\ q.at = "sent"
    /\ \/ /\ q.kind = "action" /\ q.val # "fire"
          /\ setRow(q.job, q.val)
          /\ UNCHANGED <<origin, want>>
       \/ /\ q.val = "fire"
          /\ rows[q.job] = "on"
          /\ UNCHANGED <<rows, origin, want>>
       \/ /\ q.kind = "create"
          /\ \E j \in Job :
               /\ rows[j] = "new"
               /\ rows' = [rows EXCEPT ![j] = "on"]
               /\ origin' = [origin EXCEPT ![j] = q.val]
               /\ want' = [want EXCEPT ![j] = "on"]
    /\ req' = [req EXCEPT ![r].at = "answered",
                          ![r].val = IF q.kind = "create" THEN @ ELSE None]
    /\ UNCHANGED <<doubted, pageVars, formVars, crossed>>

\* A call is refused (400, 404, 409, 429, 500), or does not get through.
Refuse(r) ==
    /\ req[r].at = "sent"
    /\ req' = [req EXCEPT ![r].at = "answered", ![r].val = None, ![r].ok = FALSE]
    /\ want' = NoClaim({req[r].job})
    /\ UNCHANGED <<apiVars, pageVars, formVars, crossed>>

\* The answer to an executed call is lost.
LoseAnswer(r) ==
    /\ req[r].at = "answered" /\ req[r].ok
    /\ req' = [req EXCEPT ![r].val = None, ![r].ok = FALSE]
    /\ want' = NoClaim({req[r].job} \cup
                       {j \in Job : req[r].kind = "create" /\ origin[j] = req[r].val})
    /\ doubted' = IF req[r].kind = "create" THEN doubted \cup {req[r].val} ELSE doubted
    /\ UNCHANGED <<rows, origin, pageVars, formVars, crossed>>

\* GET / answers with the table as it is now, or fails.
listJobs(r) ==
    /\ req[r].at = "fetch"
    /\ \/ req' = [req EXCEPT ![r].at = "fetched", ![r].val = View(rows)]
       \/ req' = [req EXCEPT ![r].at = "fetched", ![r].ok = FALSE]
    /\ UNCHANGED <<apiVars, pageVars, formVars, want, crossed>>

\* Another user, or the circuit breaker.  (Bound: once per job.)
Outsider(j, row) ==
    /\ want[j] # None
    /\ Listed(rows[j]) /\ row \in {"on", "off", "gone"} \ {rows[j]}
    /\ rows' = [rows EXCEPT ![j] = row]
    /\ want' = NoClaim({j})
    /\ UNCHANGED <<origin, doubted, pageVars, formVars, req, crossed>>

-----------------------------------------------------------------------------
(***************************************************************************)
(* The answers.                                                            *)
(***************************************************************************)

\* Mutant: after a button's call the page goes on without a reload.
actionWithoutReload(r) ==
    /\ req' = [req EXCEPT ![r] = Rest]
    /\ busy' = None
    /\ UNCHANGED <<loading, crossed>>

\* handleAction, after its call: the reload.
actionDone(r) ==
    /\ loadJobs(r, "action", req[r].job)
    /\ UNCHANGED busy

\* Mutant: setBusyId(null) at the end of the try block.
actionFailedStaysBusy(r) ==
    /\ error' = TRUE
    /\ req' = [req EXCEPT ![r] = Rest]
    /\ UNCHANGED busy

\* handleAction: catch, finally.
actionFailed(r) ==
    /\ error' = TRUE
    /\ busy' = None
    /\ req' = [req EXCEPT ![r] = Rest]

ActionAnswer(r) ==
    /\ req[r].at = "answered" /\ req[r].kind = "action"
    /\ \/ req[r].ok /\ actionDone(r) /\ UNCHANGED error
       \/ ~req[r].ok /\ actionFailed(r) /\ UNCHANGED <<loading, crossed>>
    /\ want' = IF req[r].ok THEN want ELSE NoClaim(Others(r, req[r].job))
    /\ UNCHANGED <<apiVars, shown, formVars>>

\* handleSubmit: the form is cleared, onSuccess closes it and reloads; or the
\* form shows the error and keeps its content.
SubmitAnswer(r) ==
    /\ req[r].at = "answered" /\ req[r].kind = "create"
    /\ saving' = FALSE
    /\ \/ /\ req[r].ok
          /\ form' = None
          /\ open' = FALSE
          /\ loadJobs(r, "load", None)
       \/ /\ ~req[r].ok
          /\ req' = [req EXCEPT ![r] = Rest]
          /\ UNCHANGED <<form, open, loading, crossed>>
    /\ UNCHANGED <<apiVars, shown, busy, error, typed, want>>

\* Mutant: fetchJobs does not look at res.ok.
showAnything(r) == shown' = req[r].val /\ UNCHANGED error

\* loadJobs: try, catch.
showJobs(r) ==
    IF req[r].ok THEN shown' = req[r].val /\ UNCHANGED error
                 ELSE error' = TRUE /\ UNCHANGED shown

\* loadJobs from its await on, and the end of the handler it belongs to.
LoadAnswer(r) ==
    /\ req[r].at = "fetched"
    /\ showJobs(r)
    /\ loading' = FALSE
    /\ busy' = IF req[r].kind = "load" THEN busy ELSE None
    /\ req' = [req EXCEPT ![r] = Rest]
    /\ want' = IF req[r].kind = "load" THEN want ELSE NoClaim(Others(r, req[r].job))
    /\ UNCHANGED <<apiVars, formVars, crossed>>

-----------------------------------------------------------------------------
\* The page has just been opened: useEffect starts the first load.
Init ==
    /\ rows \in [Job -> {"new", "on"}]
    /\ origin = [j \in Job |-> None]
    /\ shown = [j \in Job |-> None]
    /\ loading = TRUE
    /\ busy = None /\ error = FALSE
    /\ open = FALSE /\ form = None /\ saving = FALSE
    /\ \E r \in Request :
        req = [q \in Request |-> IF q = r THEN [Rest EXCEPT !.at = "fetch"] ELSE Rest]
    /\ typed = {} /\ doubted = {}
    /\ want = rows
    /\ crossed = FALSE

Next ==
    \/ \E r \in Request :
        \/ Refresh(r) \/ handleSubmit(r)
        \/ \E j \in Job : \E val \in Buttons(j) : handleAction(r, j, val)
        \/ Execute(r) \/ Refuse(r) \/ LoseAnswer(r) \/ listJobs(r)
        \/ ActionAnswer(r) \/ SubmitAnswer(r) \/ LoadAnswer(r)
    \/ OpenForm \/ CloseForm
    \/ \E d \in Draft : Type(d)
    \/ \E j \in Job, row \in Row : Outsider(j, row)

Spec == Init /\ [][Next]_vars
-----------------------------------------------------------------------------
(***************************************************************************)
(* Properties.                                                             *)
(***************************************************************************)

DashboardTypeOK ==
    /\ rows \in [Job -> Row] /\ want \in [Job -> Row \cup {None}]
    /\ shown \in [Job -> {"on", "off", None}]
    /\ origin \in [Job -> Draft \cup {None}]
    /\ busy \in Job \cup {None}
    /\ form \in typed \cup {None} /\ typed \subseteq Draft /\ doubted \subseteq typed
    /\ {loading, error, open, saving, crossed} \subseteq BOOLEAN
    /\ \A r \in Request :
        /\ req[r].at \in {"idle", "sent", "answered", "fetch", "fetched"}
        /\ req[r].kind \in {"load", "action", "create"}
        /\ req[r].at = "idle" => req[r] = Rest

\* The finally blocks: whatever fails and in whatever order the answers come,
\* the spinner, a disabled row and a disabled form each wait for an answer.
NothingStuck ==
    /\ loading => Loading # {}
    /\ busy # None => On(busy) # {}
    /\ saving => \E r \in Request : req[r].kind = "create"

\* busyId and the values the buttons send: when no request on a job is left,
\* its row is what the last click on it asked for, whatever list it was clicked
\* in, unless somebody else wrote it, a request on it failed, or an action on
\* another job set or cleared busyId meanwhile (it holds one id only).
LastClickWins ==
    \A j \in Job : On(j) = {} /\ want[j] # None => rows[j] = want[j]

\* handleAction and onSuccess reload after every write: at rest, with no error
\* shown and unless loads overlapped, the table has what the user did last.
TableShowsLastClick ==
    (\A r \in Request : req[r] = Rest) /\ ~error /\ ~crossed =>
        \A j \in Job : want[j] # None => shown[j] = View(want)[j]

\* JobModal: a form makes one job, however often it is closed, opened again,
\* edited or submitted, unless an answer was lost and the user tried again.
NoDuplicateJob ==
    \A j, k \in Job :
        j # k /\ origin[j] = origin[k] /\ origin[j] # None => origin[j] \in doubted
=============================================================================
