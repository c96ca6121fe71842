--------------------------- MODULE DashboardProofs ---------------------------
(***************************************************************************)
(* Machine-checked proofs about Dashboard, for any number of jobs, drafts  *)
(* and requests under way.                                                 *)
(***************************************************************************)
EXTENDS Dashboard, TLAPS

-----------------------------------------------------------------------------
(***************************************************************************)
(* Requests.                                                               *)
(***************************************************************************)

At == {"idle", "sent", "answered", "fetch", "fetched"}
Table == [Job -> {"on", "off", None}]
Val == Draft \cup {"on", "off", "gone", "fire", None} \cup Table

Handler ==
    [at : At, kind : {"load", "action", "create"}, job : Job \cup {None}, val : Val, ok : BOOLEAN]

\* What a request carries at each point of its way.
HandlerOK(r) ==
    /\ req[r].at = "idle" => req[r] = Rest
    /\ req[r].kind = "action" <=> req[r].job # None
    /\ req[r].at \in {"sent", "answered"} => req[r].kind # "load"
    /\ req[r].kind = "create" => req[r].at \in {"sent", "answered"}
    /\ req[r].at \in {"sent", "fetch"} => req[r].ok
    /\ req[r].at = "sent" /\ req[r].kind = "action" => req[r].val \in {"on", "off", "gone", "fire"}
    /\ req[r].kind = "create" /\ req[r].ok => req[r].val \in typed
    /\ req[r].at = "fetched" /\ req[r].ok => req[r].val \in Table

TypeInv ==
    /\ DashboardTypeOK
    /\ req \in [Request -> Handler]
    /\ \A r \in Request : HandlerOK(r)

\* The fields of a request.
Fields(h, at, kind, job, val, ok) ==
    h.at = at /\ h.kind = kind /\ h.job = job /\ h.val = val /\ h.ok = ok

\* Request r goes on to be such a request; the others stay.
Goes(r, at, kind, job, val, ok) ==
    /\ req' \in [Request -> Handler]
    /\ \A q \in Request \ {r} : req'[q] = req[q]
    /\ Fields(req'[r], at, kind, job, val, ok)

\* A request that is replaced.
LEMMA Replaced ==
    ASSUME TypeInv, NEW r \in Request, NEW h \in Handler, req' = [req EXCEPT ![r] = h],
           NEW at, NEW kind, NEW job, NEW val, NEW ok, Fields(h, at, kind, job, val, ok)
    PROVE  Goes(r, at, kind, job, val, ok)
  BY DEF Goes, TypeInv

\* The fields of a request have their types.
LEMMA HandlerFields ==
    ASSUME TypeInv, NEW r \in Request
    PROVE  /\ req[r] \in Handler
           /\ req[r].at \in At /\ req[r].kind \in {"load", "action", "create"}
           /\ req[r].job \in Job \cup {None} /\ req[r].val \in Val /\ req[r].ok \in BOOLEAN
<1>1. req[r] \in Handler
  BY DEF TypeInv
<1> QED
  BY <1>1 DEF Handler

\* loadJobs as the next thing request r does.
LEMMA LoadFacts ==
    ASSUME TypeInv, NEW r \in Request, NEW kind \in {"load", "action"}, NEW job \in Job \cup {None},
           loadJobs(r, kind, job)
    PROVE  Goes(r, "fetch", kind, job, None, TRUE)
<1>1. PICK h : h = [Rest EXCEPT !.at = "fetch", !.kind = kind, !.job = job]
  OBVIOUS
<1>2. h \in Handler
  BY <1>1 DEF Rest, Handler, At, Val
<1>3. Fields(h, "fetch", kind, job, None, TRUE)
  BY <1>1 DEF Rest, Fields
<1>4. req' = [req EXCEPT ![r] = h]
  BY <1>1 DEF loadJobs
<1> QED
  BY <1>2, <1>3, <1>4, Replaced

\* The end of request r.
LEMMA EndFacts ==
    ASSUME TypeInv, NEW r \in Request, req' = [req EXCEPT ![r] = Rest]
    PROVE  Goes(r, "idle", "load", None, None, TRUE) /\ req'[r] = Rest
<1>1. Rest \in Handler
  BY DEF Rest, Handler, At, Val
<1>2. Fields(Rest, "idle", "load", None, None, TRUE)
  BY DEF Rest, Fields
<1> QED
  BY <1>1, <1>2, Replaced DEF TypeInv

\* A button is clicked.
LEMMA ActionFacts ==
    ASSUME TypeInv, NEW r \in Request, NEW j \in Job, NEW val, handleAction(r, j, val)
    PROVE  Goes(r, "sent", "action", j, val, TRUE) /\ val \in {"on", "off", "gone", "fire"}
<1>1. val \in {"on", "off", "gone", "fire"}
  BY DEF handleAction, Buttons, Switched
<1>2. PICK h : h = [Rest EXCEPT !.at = "sent", !.kind = "action", !.job = j, !.val = val]
  OBVIOUS
<1>3. h \in Handler
  BY <1>1, <1>2 DEF Rest, Handler, At, Val
<1>4. Fields(h, "sent", "action", j, val, TRUE)
  BY <1>2 DEF Rest, Fields
<1>5. req' = [req EXCEPT ![r] = h]
  BY <1>2 DEF handleAction
<1> QED
  BY <1>1, <1>3, <1>4, <1>5, Replaced

\* The form is submitted.
LEMMA SubmitFacts ==
    ASSUME TypeInv, NEW r \in Request, handleSubmit(r)
    PROVE  Goes(r, "sent", "create", None, form, TRUE) /\ form \in typed
<1>1. form \in typed /\ form \in Draft
  BY DEF handleSubmit, TypeInv, DashboardTypeOK
<1>2. PICK h : h = [Rest EXCEPT !.at = "sent", !.kind = "create", !.val = form]
  OBVIOUS
<1>3. h \in Handler
  BY <1>1, <1>2 DEF Rest, Handler, At, Val
<1>4. Fields(h, "sent", "create", None, form, TRUE)
  BY <1>2 DEF Rest, Fields
<1>5. req' = [req EXCEPT ![r] = h]
  BY <1>2 DEF handleSubmit
<1> QED
  BY <1>1, <1>3, <1>4, <1>5, Replaced

\* A call is executed: a creation keeps its draft.
LEMMA ExecuteFacts ==
    ASSUME TypeInv, NEW r \in Request, Execute(r)
    PROVE  \E v \in Val : /\ Goes(r, "answered", req[r].kind, req[r].job, v, req[r].ok)
                          /\ req[r].kind = "create" => v = req[r].val
<1>1. PICK v : v = IF req[r].kind = "create" THEN req[r].val ELSE None
  OBVIOUS
<1>2. v \in Val /\ (req[r].kind = "create" => v = req[r].val)
  BY <1>1, HandlerFields DEF Val
<1>3. PICK h : h = [req[r] EXCEPT !.at = "answered", !.val = v]
  OBVIOUS
<1>4. h \in Handler
  BY <1>2, <1>3, HandlerFields DEF Handler, At
<1>5. Fields(h, "answered", req[r].kind, req[r].job, v, req[r].ok)
  BY <1>3, HandlerFields DEF Handler, Fields
<1>6. req' = [req EXCEPT ![r] = h]
  <2>1. req \in [Request -> Handler]
    BY DEF TypeInv
  <2>2. req' = [req EXCEPT ![r].at = "answered", ![r].val = v]
    BY <1>1, <2>1 DEF Execute
  <2> QED
    BY <1>3, <2>1, <2>2
<1> QED
  BY <1>2, <1>4, <1>5, <1>6, Replaced

\* A call is refused, or its answer is lost.
LEMMA FailFacts ==
    ASSUME TypeInv, NEW r \in Request, Refuse(r) \/ LoseAnswer(r)
    PROVE  Goes(r, "answered", req[r].kind, req[r].job, None, FALSE)
<1>0. req \in [Request -> Handler] /\ req[r] \in Handler
  BY DEF TypeInv
<1>1. PICK h : h = [req[r] EXCEPT !.at = "answered", !.val = None, !.ok = FALSE]
  OBVIOUS
<1>2. h \in Handler
  BY <1>0, <1>1 DEF Handler, At, Val
<1>3. Fields(h, "answered", req[r].kind, req[r].job, None, FALSE)
  BY <1>0, <1>1 DEF Handler, Fields
<1>4. CASE Refuse(r)
  <2>1. req' = [req EXCEPT ![r] = h]
    BY <1>0, <1>1, <1>4 DEF Refuse
  <2> QED
    BY <1>2, <1>3, <2>1, Replaced
<1>5. CASE LoseAnswer(r)
  <2>1. PICK g : g = [req[r] EXCEPT !.val = None, !.ok = FALSE]
    OBVIOUS
  <2>2. g \in Handler
    BY <1>0, <2>1 DEF Handler, Val
  <2>3. Fields(g, "answered", req[r].kind, req[r].job, None, FALSE)
    BY <1>0, <1>5, <2>1 DEF Handler, Fields, LoseAnswer
  <2>4. req' = [req EXCEPT ![r] = g]
    BY <1>0, <1>5, <2>1 DEF LoseAnswer
  <2> QED
    BY <2>2, <2>3, <2>4, Replaced
<1> QED
  BY <1>4, <1>5

\* The table as a list tells it.
LEMMA ViewType ==
    ASSUME NEW t \in [Job -> Row]
    PROVE  View(t) \in Table /\ \A j \in Job : View(t)[j] = IF Listed(t[j]) THEN t[j] ELSE None
  BY DEF View, Table, Listed

\* The list is answered, or fails.
LEMMA ListFacts ==
    ASSUME TypeInv, NEW r \in Request, listJobs(r)
    PROVE  \/ Goes(r, "fetched", req[r].kind, req[r].job, View(rows), req[r].ok)
           \/ Goes(r, "fetched", req[r].kind, req[r].job, req[r].val, FALSE)
<1>0. req \in [Request -> Handler] /\ req[r] \in Handler
  BY DEF TypeInv
<1>1. View(rows) \in Val
  BY ViewType DEF TypeInv, DashboardTypeOK, Val
<1>2. CASE req' = [req EXCEPT ![r].at = "fetched", ![r].val = View(rows)]
  <2>1. PICK v : v = View(rows)
    OBVIOUS
  <2>2. PICK h : h = [req[r] EXCEPT !.at = "fetched", !.val = v]
    OBVIOUS
  <2>3. h \in Handler
    BY <1>0, <1>1, <2>1, <2>2 DEF Handler, At
  <2>4. Fields(h, "fetched", req[r].kind, req[r].job, v, req[r].ok)
    BY <1>0, <2>2 DEF Handler, Fields
  <2>5. req' = [req EXCEPT ![r] = h]
    BY <1>0, <1>2, <2>1, <2>2
  <2> QED
    BY <2>1, <2>3, <2>4, <2>5, Replaced
<1>3. CASE req' = [req EXCEPT ![r].at = "fetched", ![r].ok = FALSE]
  <2>1. PICK h : h = [req[r] EXCEPT !.at = "fetched", !.ok = FALSE]
    OBVIOUS
  <2>2. h \in Handler
    BY <1>0, <2>1 DEF Handler, At
  <2>3. Fields(h, "fetched", req[r].kind, req[r].job, req[r].val, FALSE)
    BY <1>0, <2>1 DEF Handler, Fields
  <2>4. req' = [req EXCEPT ![r] = h]
    BY <1>0, <1>3, <2>1
  <2> QED
    BY <2>2, <2>3, <2>4, Replaced
<1> QED
  BY <1>2, <1>3 DEF listJobs
-----------------------------------------------------------------------------
(***************************************************************************)
(* Types.                                                                  *)
(***************************************************************************)

\* Only request r can spoil the invariant of the requests.
LEMMA OthersOK ==
    ASSUME TypeInv, NEW r \in Request, NEW at, NEW kind, NEW job, NEW val, NEW ok,
           Goes(r, at, kind, job, val, ok), typed \subseteq typed', HandlerOK(r)'
    PROVE  req' \in [Request -> Handler] /\ \A q \in Request : HandlerOK(q)'
<1> SUFFICES ASSUME NEW q \in Request, q # r PROVE HandlerOK(q)'
  BY DEF Goes
<1>1. HandlerOK(q) /\ req'[q] = req[q]
  BY DEF TypeInv, Goes
<1> QED
  BY <1>1 DEF HandlerOK

\* The requests decide their own part of DashboardTypeOK.
PageTypeOK ==
    /\ rows \in [Job -> Row] /\ want \in [Job -> Row \cup {None}]
    /\ shown \in Table
    /\ origin \in [Job -> Draft \cup {None}]
    /\ busy \in Job \cup {None}
    /\ form \in typed \cup {None} /\ typed \subseteq Draft /\ doubted \subseteq typed

FlagsOK == {loading, error, open, saving, crossed} \subseteq BOOLEAN

\* The type invariant in parts: the page, the flags and every handler under way.
LEMMA TypeParts ==
    ASSUME PageTypeOK', FlagsOK', req' \in [Request -> Handler], \A q \in Request : HandlerOK(q)'
    PROVE  TypeInv'
<1>1. ASSUME NEW r \in Request
      PROVE  /\ req'[r].at \in {"idle", "sent", "answered", "fetch", "fetched"}
             /\ req'[r].kind \in {"load", "action", "create"}
             /\ req'[r].at = "idle" => req'[r] = Rest
  BY DEF HandlerOK, Handler, At
<1> QED
  BY <1>1 DEF TypeInv, DashboardTypeOK, PageTypeOK, FlagsOK, Table

\* No claim is a claim of the right type.
LEMMA NoClaimType ==
    ASSUME PageTypeOK, NEW jobs
    PROVE  /\ NoClaim(jobs) \in [Job -> Row \cup {None}]
           /\ \A j \in Job : NoClaim(jobs)[j] = IF j \in jobs THEN None ELSE want[j]
  BY DEF PageTypeOK, NoClaim

\* A page just opened is well typed.
LEMMA DashboardTypeInit == Init => TypeInv
<1> SUFFICES ASSUME Init PROVE TypeInv
  OBVIOUS
<1>1. PICK r \in Request :
        req = [q \in Request |-> IF q = r THEN [Rest EXCEPT !.at = "fetch"] ELSE Rest]
  BY DEF Init
<1>2. PICK h : h = [Rest EXCEPT !.at = "fetch"]
  OBVIOUS
<1>3. h \in Handler /\ Fields(h, "fetch", "load", None, None, TRUE)
  BY <1>2 DEF Rest, Handler, At, Val, Fields
<1>4. Rest \in Handler /\ Fields(Rest, "idle", "load", None, None, TRUE)
  BY DEF Rest, Handler, At, Val, Fields
<1>5. req = [q \in Request |-> IF q = r THEN h ELSE Rest]
  BY <1>1, <1>2
<1>6. req \in [Request -> Handler]
  BY <1>3, <1>4, <1>5
<1>7. \A q \in Request : HandlerOK(q)
  BY <1>3, <1>4, <1>5 DEF HandlerOK, Fields
<1>8. /\ \A q \in Request : /\ req[q].at \in {"idle", "sent", "answered", "fetch", "fetched"}
                            /\ req[q].kind \in {"load", "action", "create"}
                            /\ req[q].at = "idle" => req[q] = Rest
  BY <1>3, <1>4, <1>5 DEF Fields
<1> QED
  BY <1>6, <1>7, <1>8 DEF Init, TypeInv, DashboardTypeOK, Row

\* Every handler step, answer and outside write keeps the types.
LEMMA DashboardTypeStep == TypeInv /\ [Next]_vars => TypeInv'
<1> SUFFICES ASSUME TypeInv, [Next]_vars PROVE TypeInv'
  OBVIOUS
<1> USE DashboardAssumption
<1>0. PageTypeOK /\ FlagsOK
  BY DEF TypeInv, DashboardTypeOK, PageTypeOK, FlagsOK, Table
<1>1. ASSUME NEW r \in Request, Refresh(r) PROVE TypeInv'
  <2>1. Goes(r, "fetch", "load", None, None, TRUE)
    BY <1>1, LoadFacts DEF Refresh
  <2>2. HandlerOK(r)' /\ typed' = typed
    BY <1>1, <2>1 DEF Refresh, Goes, Fields, HandlerOK, formVars
  <2>3. req' \in [Request -> Handler] /\ \A q \in Request : HandlerOK(q)'
    BY <2>1, <2>2, OthersOK
  <2>4. PageTypeOK'
    BY <1>0, <1>1 DEF Refresh, apiVars, formVars, PageTypeOK
  <2>5. FlagsOK'
    BY <1>0, <1>1 DEF Refresh, loadJobs, formVars, FlagsOK
  <2> QED
    BY <2>3, <2>4, <2>5, TypeParts
<1>2. ASSUME NEW r \in Request, handleSubmit(r) PROVE TypeInv'
  <2>1. Goes(r, "sent", "create", None, form, TRUE) /\ form \in typed
    BY <1>2, SubmitFacts
  <2>2. HandlerOK(r)' /\ typed' = typed
    BY <1>2, <2>1 DEF handleSubmit, Goes, Fields, HandlerOK
  <2>3. req' \in [Request -> Handler] /\ \A q \in Request : HandlerOK(q)'
    BY <2>1, <2>2, OthersOK
  <2>4. PageTypeOK'
    BY <1>0, <1>2 DEF handleSubmit, apiVars, pageVars, PageTypeOK
  <2>5. FlagsOK'
    BY <1>0, <1>2 DEF handleSubmit, pageVars, FlagsOK
  <2> QED
    BY <2>3, <2>4, <2>5, TypeParts
<1>3. ASSUME NEW r \in Request, NEW j \in Job, NEW val, handleAction(r, j, val) PROVE TypeInv'
  <2>1. Goes(r, "sent", "action", j, val, TRUE) /\ val \in {"on", "off", "gone", "fire"}
    BY <1>3, ActionFacts
  <2>2. HandlerOK(r)' /\ typed' = typed
    BY <1>3, <2>1 DEF handleAction, Goes, Fields, HandlerOK, formVars
  <2>3. req' \in [Request -> Handler] /\ \A q \in Request : HandlerOK(q)'
    BY <2>1, <2>2, OthersOK
  <2>4. PageTypeOK'
    <3>1. NoClaim(Others(r, j)) \in [Job -> Row \cup {None}]
      BY <1>0, NoClaimType
    <3>2. want' \in [Job -> Row \cup {None}]
      BY <1>3, <2>1, <3>1 DEF handleAction, Row
    <3> QED
      BY <1>0, <1>3, <3>2 DEF handleAction, apiVars, formVars, PageTypeOK
  <2>5. FlagsOK'
    BY <1>0, <1>3 DEF handleAction, formVars, FlagsOK
  <2> QED
    BY <2>3, <2>4, <2>5, TypeParts
<1>4. ASSUME NEW r \in Request, Execute(r) PROVE TypeInv'
  <2>0. HandlerOK(r) /\ req[r].at = "sent" /\ req[r].ok = TRUE
    BY <1>4, HandlerFields DEF TypeInv, Execute, HandlerOK
  <2>1. PICK v \in Val : /\ Goes(r, "answered", req[r].kind, req[r].job, v, req[r].ok)
                         /\ req[r].kind = "create" => v = req[r].val
    BY <1>4, ExecuteFacts
  <2>2. HandlerOK(r)' /\ typed' = typed
    BY <1>4, <2>0, <2>1 DEF Execute, Goes, Fields, HandlerOK, formVars
  <2>3. req' \in [Request -> Handler] /\ \A q \in Request : HandlerOK(q)'
    BY <2>1, <2>2, OthersOK
  <2>4. rows' \in [Job -> Row] /\ origin' \in [Job -> Draft \cup {None}]
        /\ want' \in [Job -> Row \cup {None}]
    <3>1. CASE req[r].kind = "action" /\ req[r].val # "fire" /\ setRow(req[r].job, req[r].val)
               /\ UNCHANGED <<origin, want>>
      BY <1>0, <2>0, <3>1 DEF setRow, HandlerOK, PageTypeOK, Row
    <3>2. CASE UNCHANGED <<rows, origin, want>>
      BY <1>0, <3>2 DEF PageTypeOK
    <3>3. ASSUME req[r].kind = "create", NEW j \in Job,
                 rows' = [rows EXCEPT ![j] = "on"], origin' = [origin EXCEPT ![j] = req[r].val],
                 want' = [want EXCEPT ![j] = "on"]
          PROVE  /\ rows' \in [Job -> Row] /\ origin' \in [Job -> Draft \cup {None}]
                 /\ want' \in [Job -> Row \cup {None}]
      <4>1. req[r].val \in Draft
        BY <1>0, <2>0, <3>3 DEF HandlerOK, PageTypeOK
      <4> QED
        BY <1>0, <3>3, <4>1 DEF PageTypeOK, Row
    <3> QED
      BY <1>4, <3>1, <3>2, <3>3 DEF Execute
  <2>5. PageTypeOK' /\ FlagsOK'
    BY <1>0, <1>4, <2>4 DEF Execute, pageVars, formVars, PageTypeOK, FlagsOK
  <2> QED
    BY <2>3, <2>5, TypeParts
<1>5. ASSUME NEW r \in Request, Refuse(r) \/ LoseAnswer(r) PROVE TypeInv'
  <2>0. HandlerOK(r) /\ req[r].at \in {"sent", "answered"}
    BY <1>5 DEF TypeInv, Refuse, LoseAnswer
  <2>1. Goes(r, "answered", req[r].kind, req[r].job, None, FALSE)
    BY <1>5, FailFacts
  <2>2. HandlerOK(r)' /\ typed' = typed
    BY <1>5, <2>0, <2>1 DEF Refuse, LoseAnswer, Goes, Fields, HandlerOK, formVars
  <2>3. req' \in [Request -> Handler] /\ \A q \in Request : HandlerOK(q)'
    BY <2>1, <2>2, OthersOK
  <2>4. want' \in [Job -> Row \cup {None}]
    BY <1>0, <1>5, NoClaimType DEF Refuse, LoseAnswer
  <2>5. doubted' \subseteq typed
    BY <1>0, <1>5, <2>0 DEF Refuse, LoseAnswer, PageTypeOK, apiVars, HandlerOK
  <2>6. /\ UNCHANGED <<rows, origin, shown, loading, busy, error, open, form, saving, typed, crossed>>
    BY <1>5 DEF Refuse, LoseAnswer, apiVars, pageVars, formVars
  <2>7. PageTypeOK' /\ FlagsOK'
    BY <1>0, <2>4, <2>5, <2>6 DEF PageTypeOK, FlagsOK
  <2> QED
    BY <2>3, <2>7, TypeParts
<1>6. ASSUME NEW r \in Request, listJobs(r) PROVE TypeInv'
  <2>0. HandlerOK(r) /\ req[r].at = "fetch" /\ View(rows) \in Table
    BY <1>0, <1>6, ViewType DEF TypeInv, listJobs, PageTypeOK, Table
  <2>1. \/ Goes(r, "fetched", req[r].kind, req[r].job, View(rows), req[r].ok)
        \/ Goes(r, "fetched", req[r].kind, req[r].job, req[r].val, FALSE)
    BY <1>6, ListFacts
  <2>2. HandlerOK(r)' /\ typed' = typed
    BY <1>6, <2>0, <2>1 DEF listJobs, Goes, Fields, HandlerOK, formVars
  <2>3. req' \in [Request -> Handler] /\ \A q \in Request : HandlerOK(q)'
    BY <2>1, <2>2, OthersOK
  <2>4. PageTypeOK' /\ FlagsOK'
    BY <1>0, <1>6 DEF listJobs, apiVars, pageVars, formVars, PageTypeOK, FlagsOK
  <2> QED
    BY <2>3, <2>4, TypeParts
<1>7. ASSUME NEW r \in Request, ActionAnswer(r) PROVE TypeInv'
  <2>0. HandlerOK(r) /\ req[r].job \in Job \cup {None} /\ req[r].kind = "action"
    BY <1>7, HandlerFields DEF TypeInv, ActionAnswer
  <2>1. \/ Goes(r, "fetch", "action", req[r].job, None, TRUE)
        \/ Goes(r, "idle", "load", None, None, TRUE) /\ req'[r] = Rest
    BY <1>7, <2>0, LoadFacts, EndFacts DEF ActionAnswer, actionDone, actionFailed
  <2>2. HandlerOK(r)' /\ typed' = typed
    BY <1>7, <2>0, <2>1 DEF ActionAnswer, Goes, Fields, HandlerOK, formVars
  <2>3. req' \in [Request -> Handler] /\ \A q \in Request : HandlerOK(q)'
    BY <2>1, <2>2, OthersOK
  <2>4. want' \in [Job -> Row \cup {None}]
    BY <1>0, <1>7, NoClaimType DEF ActionAnswer, PageTypeOK
  <2>5. PageTypeOK'
    BY <1>0, <1>7, <2>4 DEF ActionAnswer, actionDone, actionFailed, apiVars, formVars, PageTypeOK
  <2>6. FlagsOK'
    BY <1>0, <1>7 DEF ActionAnswer, actionDone, actionFailed, loadJobs, formVars, FlagsOK
  <2> QED
    BY <2>3, <2>5, <2>6, TypeParts
<1>8. ASSUME NEW r \in Request, SubmitAnswer(r) PROVE TypeInv'
  <2>1. \/ Goes(r, "fetch", "load", None, None, TRUE)
        \/ Goes(r, "idle", "load", None, None, TRUE) /\ req'[r] = Rest
    BY <1>8, LoadFacts, EndFacts DEF SubmitAnswer
  <2>2. HandlerOK(r)' /\ typed' = typed
    BY <1>8, <2>1 DEF SubmitAnswer, Goes, Fields, HandlerOK
  <2>3. req' \in [Request -> Handler] /\ \A q \in Request : HandlerOK(q)'
    BY <2>1, <2>2, OthersOK
  <2>4. PageTypeOK'
    BY <1>0, <1>8 DEF SubmitAnswer, apiVars, PageTypeOK
  <2>5. FlagsOK'
    BY <1>0, <1>8 DEF SubmitAnswer, loadJobs, FlagsOK
  <2> QED
    BY <2>3, <2>4, <2>5, TypeParts
<1>9. ASSUME NEW r \in Request, LoadAnswer(r) PROVE TypeInv'
  <2>0. HandlerOK(r) /\ req[r].at = "fetched"
    BY <1>9 DEF TypeInv, LoadAnswer
  <2>1. Goes(r, "idle", "load", None, None, TRUE) /\ req'[r] = Rest
    BY <1>9, EndFacts DEF LoadAnswer
  <2>2. HandlerOK(r)' /\ typed' = typed
    BY <1>9, <2>1 DEF LoadAnswer, Goes, Fields, HandlerOK, formVars
  <2>3. req' \in [Request -> Handler] /\ \A q \in Request : HandlerOK(q)'
    BY <2>1, <2>2, OthersOK
  <2>4. want' \in [Job -> Row \cup {None}]
    BY <1>0, <1>9, NoClaimType DEF LoadAnswer, PageTypeOK
  <2>5. shown' \in Table
    BY <1>0, <1>9, <2>0 DEF LoadAnswer, showJobs, HandlerOK, PageTypeOK
  <2>6. PageTypeOK'
    BY <1>0, <1>9, <2>4, <2>5 DEF LoadAnswer, apiVars, formVars, PageTypeOK
  <2>7. FlagsOK'
    BY <1>0, <1>9 DEF LoadAnswer, showJobs, formVars, FlagsOK
  <2> QED
    BY <2>3, <2>6, <2>7, TypeParts
<1>10. ASSUME OpenForm \/ CloseForm \/ (\E d \in Draft : Type(d)) PROVE TypeInv'
  <2>1. PageTypeOK' /\ FlagsOK'
    BY <1>0, <1>10 DEF OpenForm, CloseForm, Type, apiVars, pageVars, PageTypeOK, FlagsOK
  <2>2. req' = req /\ typed \subseteq typed'
    BY <1>10 DEF OpenForm, CloseForm, Type
  <2>3. req' \in [Request -> Handler] /\ \A q \in Request : HandlerOK(q)'
    BY <2>2 DEF TypeInv, HandlerOK
  <2> QED
    BY <2>1, <2>3, TypeParts
<1>11. ASSUME NEW j \in Job, NEW row \in Row, Outsider(j, row) PROVE TypeInv'
  <2>1. want' \in [Job -> Row \cup {None}]
    BY <1>0, <1>11, NoClaimType DEF Outsider
  <2>2. PageTypeOK' /\ FlagsOK'
    BY <1>0, <1>11, <2>1 DEF Outsider, pageVars, formVars, PageTypeOK, FlagsOK
  <2>3. req' \in [Request -> Handler] /\ \A q \in Request : HandlerOK(q)'
    BY <1>11 DEF Outsider, formVars, TypeInv, HandlerOK
  <2> QED
    BY <2>2, <2>3, TypeParts
<1>12. CASE UNCHANGED vars
  BY <1>12 DEF vars, apiVars, pageVars, formVars, TypeInv, DashboardTypeOK, HandlerOK
<1> QED
  BY <1>1, <1>2, <1>3, <1>4, <1>5, <1>6, <1>7, <1>8, <1>9, <1>10, <1>11, <1>12 DEF Next

\* frontend/src/app/page.tsx: a list is shown only as a list, the form holds what
\* was typed, and a handler that has ended has left nothing behind.
THEOREM DashboardTypeCorrect == Spec => []DashboardTypeOK
<1>1. TypeInv => DashboardTypeOK
  BY DEF TypeInv
<1> QED
  BY <1>1, DashboardTypeInit, DashboardTypeStep, PTL DEF Spec
-----------------------------------------------------------------------------
(***************************************************************************)
(* The invariants.                                                         *)
(***************************************************************************)

\* One form is saved at a time.
Saves(r) == req[r].kind = "create"

OneSave ==
    \A r \in Request : Saves(r) => saving /\ \A q \in Request : Saves(q) => q = r

\* A job has been made of draft d.
Made(d) == \E j \in Job : origin[j] = d

\* Request r has made a job of its draft, and the page is about to hear of it.
MadeBy(r) == Saves(r) /\ req[r].at = "answered" /\ req[r].ok

\* Jobs are made of drafts; a form whose job is made is about to be cleared, or
\* the answer was lost; and so with a form that is being sent.
DraftsUsedOnce ==
    /\ \A j \in Job : origin[j] \in typed \cup {None}
    /\ form # None /\ Made(form) =>
        form \in doubted \/ \E r \in Request : MadeBy(r) /\ req[r].val = form
    /\ \A r \in Request :
        Saves(r) /\ req[r].at = "sent" /\ Made(req[r].val) => req[r].val \in doubted

\* What is shown, or was asked about, exists or existed.
KnownRows ==
    \A j \in Job : rows[j] = "new" =>
        /\ shown[j] = None
        /\ \A r \in Request : req[r].job # j
        /\ \A r \in Request : req[r].at = "fetched" /\ req[r].ok => req[r].val[j] = None

\* Request r has still to write what the user asked for.
ToWrite(r) == req[r].at = "sent" /\ req[r].val # "fire"

\* While a claim is made on job j, at most one request is on it, busyId keeps
\* others away, and the row is what was asked for, or will be.
ClaimKept(j) ==
    /\ \A r \in Request : req[r].job = j =>
        /\ busy = j
        /\ \A q \in Request : req[q].job = j => q = r
        /\ IF ToWrite(r) THEN req[r].val = want[j] ELSE rows[j] = want[j]
        /\ req[r].at = "answered" => req[r].ok
    /\ (\A r \in Request : req[r].job # j) => rows[j] = want[j]

ClaimsKept == \A j \in Job : want[j] # None => ClaimKept(j)

\* Loads do not overlap.
Loads(r) == req[r].at \in {"fetch", "fetched"}

OneLoad == \A r, q \in Request : Loads(r) /\ Loads(q) => r = q

\* Job j was written by a request that reloads next.
Written(j) ==
    \E r \in Request : /\ req[r].at = "answered" /\ req[r].ok
                       /\ \/ req[r].kind = "action" /\ req[r].job = j
                          \/ Saves(r) /\ req[r].val = origin[j]

\* A button's call ends in a reload or in an error.
Acting == \E r \in Request : req[r].kind = "action" /\ req[r].at \in {"sent", "answered"}

\* What the list tells of job j.
Listing(j) == IF Listed(rows[j]) THEN rows[j] ELSE None

\* What was fetched of job j is what there is, and so is what is shown when
\* nothing is being loaded, unless a reload or an error is to come.
Fresh(j) ==
    /\ \A r \in Request : req[r].at = "fetched" /\ req[r].ok => req[r].val[j] = Listing(j) \/ Written(j)
    /\ (\A r \in Request : ~Loads(r)) => error \/ Acting \/ Written(j) \/ shown[j] = Listing(j)

FreshInv == ~crossed => OneLoad /\ \A j \in Job : want[j] # None => Fresh(j)

\* The spinner, a disabled row and a disabled form each wait for an answer.
AllAwaited ==
    /\ loading => \E r \in Request : Loads(r)
    /\ busy # None => \E r \in Request : req[r].job = busy
    /\ saving => \E r \in Request : Saves(r)

DashInv ==
    AllAwaited /\ OneSave /\ DraftsUsedOnce /\ NoDuplicateJob /\ KnownRows /\ ClaimsKept /\ FreshInv

\* An idle request.
LEMMA IdleFacts == Fields(Rest, "idle", "load", None, None, TRUE)
  BY DEF Rest, Fields

\* A load starts: nothing has been fetched yet, and unless another load is under
\* way it is the only one.
LEMMA LoadFresh ==
    ASSUME TypeInv, NEW r \in Request, NEW kind, NEW job, Goes(r, "fetch", kind, job, None, TRUE),
           crossed' = (Loading # {})
    PROVE  FreshInv'
<1> SUFFICES ASSUME ~crossed' PROVE OneLoad' /\ \A j \in Job : Fresh(j)'
  BY DEF FreshInv
<1>1. \A q \in Request : ~Loads(q)
  BY DEF Loading, Loads
<1>2. Loads(r)' /\ \A q \in Request : Loads(q)' => q = r
  BY <1>1 DEF Loads, Goes, Fields
<1>3. \A q \in Request : req'[q].at # "fetched"
  BY <1>1 DEF Loads, Goes, Fields
<1> QED
  BY <1>2, <1>3 DEF OneLoad, Fresh

\* The refresh button.
LEMMA RefreshKeeps ==
    ASSUME TypeInv, DashInv, NEW r \in Request, Refresh(r)
    PROVE  DashInv'
<1> USE DashboardAssumption
<1>0. AllAwaited /\ OneSave /\ DraftsUsedOnce /\ NoDuplicateJob /\ KnownRows /\ ClaimsKept /\ FreshInv
  BY DEF DashInv
<1>1. Goes(r, "fetch", "load", None, None, TRUE)
  BY LoadFacts DEF Refresh
<1>2. Fields(req[r], "idle", "load", None, None, TRUE)
  BY IdleFacts DEF Refresh
<1>3. UNCHANGED <<rows, origin, doubted, busy, form, saving, typed, want, shown>>
  BY DEF Refresh, apiVars, formVars
<1>4. AllAwaited'
  BY <1>0, <1>1, <1>2, <1>3 DEF Goes, Fields, AllAwaited, Loads, Saves
<1>5. OneSave'
  BY <1>0, <1>1, <1>2, <1>3 DEF Goes, Fields, OneSave, Saves
<1>6. DraftsUsedOnce'
  BY <1>0, <1>1, <1>2, <1>3 DEF Goes, Fields, DraftsUsedOnce, Made, MadeBy, Saves
<1>7. NoDuplicateJob'
  BY <1>0, <1>1, <1>2, <1>3 DEF Goes, Fields, NoDuplicateJob
<1>8. KnownRows'
  BY <1>0, <1>1, <1>2, <1>3 DEF Goes, Fields, KnownRows
<1>9. ClaimsKept'
  BY <1>0, <1>1, <1>2, <1>3 DEF Goes, Fields, ClaimsKept, ClaimKept, ToWrite
<1>10. FreshInv'
  BY <1>1, LoadFresh DEF Refresh, loadJobs
<1> QED
  BY <1>4, <1>5, <1>6, <1>7, <1>8, <1>9, <1>10 DEF DashInv

\* The form is submitted: it is not being saved, so no job was made of its content, or the
\* answer was lost.
LEMMA SubmitKeeps ==
    ASSUME TypeInv, DashInv, NEW r \in Request, handleSubmit(r)
    PROVE  DashInv'
<1> USE DashboardAssumption
<1>0. AllAwaited /\ OneSave /\ DraftsUsedOnce /\ NoDuplicateJob /\ KnownRows /\ ClaimsKept /\ FreshInv
  BY DEF DashInv
<1>1. Goes(r, "sent", "create", None, form, TRUE) /\ form \in typed
  BY SubmitFacts
<1>2. Fields(req[r], "idle", "load", None, None, TRUE)
  BY IdleFacts DEF handleSubmit
<1>3. /\ UNCHANGED <<rows, origin, doubted, busy, form, typed, want, shown, loading, error, crossed>>
      /\ ~saving /\ saving' = TRUE
  BY DEF handleSubmit, apiVars, pageVars
<1>4. AllAwaited'
  BY <1>0, <1>1, <1>2, <1>3 DEF Goes, Fields, AllAwaited, Loads, Saves
<1>5. OneSave'
  BY <1>0, <1>1, <1>2, <1>3 DEF Goes, Fields, OneSave, Saves
<1>6. DraftsUsedOnce'
  <2>1. \A q \in Request : ~Saves(q)
    BY <1>0, <1>3 DEF OneSave
  <2>2. Made(form) => form \in doubted
    BY <1>0, <1>1, <2>1 DEF DraftsUsedOnce, MadeBy, TypeInv, DashboardTypeOK
  <2>3. \A q \in Request \ {r} : ~Saves(q)'
    BY <1>1, <2>1 DEF Saves, Goes
  <2>4. Made(form)' => form' \in doubted'
    BY <1>3, <2>2 DEF Made
  <2>5. req'[r].val = form'
    BY <1>1, <1>3 DEF Goes, Fields
  <2> QED
    BY <1>0, <1>3, <2>3, <2>4, <2>5 DEF DraftsUsedOnce, Made
<1>7. NoDuplicateJob'
  BY <1>0, <1>1, <1>2, <1>3 DEF Goes, Fields, NoDuplicateJob
<1>8. KnownRows'
  BY <1>0, <1>1, <1>2, <1>3 DEF Goes, Fields, KnownRows
<1>9. ClaimsKept'
  BY <1>0, <1>1, <1>2, <1>3 DEF Goes, Fields, ClaimsKept, ClaimKept, ToWrite
<1>10. FreshInv'
  BY <1>0, <1>1, <1>2, <1>3
     DEF Goes, Fields, FreshInv, OneLoad, Fresh, Loads, Written, Acting, Listing, Saves
<1> QED
  BY <1>4, <1>5, <1>6, <1>7, <1>8, <1>9, <1>10 DEF DashInv

\* A button is clicked: no claimed request is on that job, and the others lose their claims.
LEMMA ActionKeeps ==
    ASSUME TypeInv, DashInv, NEW r \in Request, NEW j \in Job, NEW val, handleAction(r, j, val)
    PROVE  DashInv'
<1> USE DashboardAssumption
<1>0. AllAwaited /\ OneSave /\ DraftsUsedOnce /\ NoDuplicateJob /\ KnownRows /\ ClaimsKept /\ FreshInv
  BY DEF DashInv
<1>1. Goes(r, "sent", "action", j, val, TRUE) /\ val \in {"on", "off", "gone", "fire"}
  BY ActionFacts
<1>2. Fields(req[r], "idle", "load", None, None, TRUE)
  BY IdleFacts DEF handleAction
<1>3. /\ UNCHANGED <<rows, origin, doubted, form, typed, shown, loading, saving, crossed>>
      /\ busy # j /\ busy' = j
  BY DEF handleAction, apiVars, formVars, Clickable
<1>4. shown[j] # None /\ rows[j] # "new"
  BY <1>0, DashboardAssumption DEF handleAction, Clickable, Listed, KnownRows, Row
<1>5. /\ \A k \in Job \ {j} : want'[k] = IF \E q \in Request \ {r} : req[q].job = k THEN None ELSE want[k]
      /\ want'[j] = IF want[j] = None \/ val = "fire" THEN want[j] ELSE val
  BY NoClaimType DEF handleAction, Others, TypeInv, DashboardTypeOK, PageTypeOK, Table
<1>6. AllAwaited'
  BY <1>0, <1>1, <1>2, <1>3, <1>4, <1>5 DEF Goes, Fields, AllAwaited, Loads, Saves
<1>7. OneSave'
  BY <1>0, <1>1, <1>2, <1>3, <1>4, <1>5 DEF Goes, Fields, OneSave, Saves
<1>8. DraftsUsedOnce'
  BY <1>0, <1>1, <1>2, <1>3, <1>4, <1>5 DEF Goes, Fields, DraftsUsedOnce, Made, MadeBy, Saves
<1>9. NoDuplicateJob'
  BY <1>0, <1>1, <1>2, <1>3, <1>4, <1>5 DEF Goes, Fields, NoDuplicateJob
<1>10. KnownRows'
  BY <1>0, <1>1, <1>2, <1>3, <1>4, <1>5 DEF Goes, Fields, KnownRows
<1>11. ClaimsKept'
  BY <1>0, <1>1, <1>2, <1>3, <1>4, <1>5 DEF Goes, Fields, ClaimsKept, ClaimKept, ToWrite
<1>12. FreshInv'
  BY <1>0, <1>1, <1>2, <1>3, <1>4, <1>5
     DEF Goes, Fields, FreshInv, OneLoad, Fresh, Loads, Written, Acting, Listing, Saves
<1> QED
  BY <1>6, <1>7, <1>8, <1>9, <1>10, <1>11, <1>12 DEF DashInv

\* A call is refused.
LEMMA RefuseKeeps ==
    ASSUME TypeInv, DashInv, NEW r \in Request, Refuse(r)
    PROVE  DashInv'
<1> USE DashboardAssumption
<1>0. AllAwaited /\ OneSave /\ DraftsUsedOnce /\ NoDuplicateJob /\ KnownRows /\ ClaimsKept /\ FreshInv
  BY DEF DashInv
<1>1. Goes(r, "answered", req[r].kind, req[r].job, None, FALSE) /\ req[r].at = "sent"
  BY FailFacts DEF Refuse
<1>2. UNCHANGED <<rows, origin, doubted, busy, form, typed, shown, loading, saving, error, crossed>>
  BY DEF Refuse, apiVars, pageVars, formVars
<1>3. \A k \in Job :
        want'[k] = IF k = req[r].job THEN None ELSE want[k]
  BY NoClaimType DEF Refuse, TypeInv, DashboardTypeOK, PageTypeOK, Table
<1>4. AllAwaited'
  BY <1>0, <1>1, <1>2, <1>3 DEF Goes, Fields, AllAwaited, Loads, Saves
<1>5. OneSave'
  BY <1>0, <1>1, <1>2, <1>3 DEF Goes, Fields, OneSave, Saves
<1>6. DraftsUsedOnce'
  BY <1>0, <1>1, <1>2, <1>3 DEF Goes, Fields, DraftsUsedOnce, Made, MadeBy, Saves
<1>7. NoDuplicateJob'
  BY <1>0, <1>1, <1>2, <1>3 DEF Goes, Fields, NoDuplicateJob
<1>8. KnownRows'
  BY <1>0, <1>1, <1>2, <1>3 DEF Goes, Fields, KnownRows
<1>9. ClaimsKept'
  BY <1>0, <1>1, <1>2, <1>3 DEF Goes, Fields, ClaimsKept, ClaimKept, ToWrite
<1>10. FreshInv'
  BY <1>0, <1>1, <1>2, <1>3
     DEF Goes, Fields, FreshInv, OneLoad, Fresh, Loads, Written, Acting, Listing, Saves
<1> QED
  BY <1>4, <1>5, <1>6, <1>7, <1>8, <1>9, <1>10 DEF DashInv

\* The answer to an executed call is lost.
LEMMA LoseKeeps ==
    ASSUME TypeInv, DashInv, NEW r \in Request, LoseAnswer(r)
    PROVE  DashInv'
<1> USE DashboardAssumption
<1>0. AllAwaited /\ OneSave /\ DraftsUsedOnce /\ NoDuplicateJob /\ KnownRows /\ ClaimsKept /\ FreshInv
  BY DEF DashInv
<1>1. Goes(r, "answered", req[r].kind, req[r].job, None, FALSE) /\ req[r].at = "answered" /\ req[r].ok
  BY FailFacts DEF LoseAnswer
<1>2. UNCHANGED <<rows, origin, busy, form, typed, shown, loading, saving, error, crossed>>
  BY DEF LoseAnswer, apiVars, pageVars, formVars
<1>3. \A k \in Job :
        want'[k] = IF k = req[r].job \/ (Saves(r) /\ origin[k] = req[r].val) THEN None ELSE want[k]
  BY NoClaimType DEF LoseAnswer, Saves, TypeInv, DashboardTypeOK, PageTypeOK, Table
<1>4. doubted \subseteq doubted' /\ (Saves(r) => req[r].val \in doubted')
  BY DEF LoseAnswer, Saves
<1>5. AllAwaited'
  BY <1>0, <1>1, <1>2, <1>3, <1>4 DEF Goes, Fields, AllAwaited, Loads, Saves
<1>6. OneSave'
  BY <1>0, <1>1, <1>2, <1>3, <1>4 DEF Goes, Fields, OneSave, Saves
<1>7. DraftsUsedOnce'
  BY <1>0, <1>1, <1>2, <1>3, <1>4 DEF Goes, Fields, DraftsUsedOnce, Made, MadeBy, Saves
<1>8. NoDuplicateJob'
  BY <1>0, <1>1, <1>2, <1>3, <1>4 DEF Goes, Fields, NoDuplicateJob
<1>9. KnownRows'
  BY <1>0, <1>1, <1>2, <1>3, <1>4 DEF Goes, Fields, KnownRows
<1>10. ClaimsKept'
  BY <1>0, <1>1, <1>2, <1>3, <1>4 DEF Goes, Fields, ClaimsKept, ClaimKept, ToWrite
<1>11. FreshInv'
  BY <1>0, <1>1, <1>2, <1>3, <1>4
     DEF Goes, Fields, FreshInv, OneLoad, Fresh, Loads, Written, Acting, Listing, Saves
<1> QED
  BY <1>5, <1>6, <1>7, <1>8, <1>9, <1>10, <1>11 DEF DashInv

\* GET / is answered with the table as it is, or fails.
LEMMA ListKeeps ==
    ASSUME TypeInv, DashInv, NEW r \in Request, listJobs(r)
    PROVE  DashInv'
<1> USE DashboardAssumption
<1>0. AllAwaited /\ OneSave /\ DraftsUsedOnce /\ NoDuplicateJob /\ KnownRows /\ ClaimsKept /\ FreshInv
  BY DEF DashInv
<1>1. \/ Goes(r, "fetched", req[r].kind, req[r].job, View(rows), req[r].ok)
      \/ Goes(r, "fetched", req[r].kind, req[r].job, req[r].val, FALSE)
  BY ListFacts
<1>2. req[r].at = "fetch" /\ \A j \in Job : View(rows)[j] = Listing(j)
  BY ViewType DEF listJobs, Listing, TypeInv, DashboardTypeOK
<1>3. UNCHANGED <<rows, origin, doubted, busy, form, typed, want, shown, loading, saving, error, crossed>>
  BY DEF listJobs, apiVars, pageVars, formVars
<1>4. AllAwaited'
  BY <1>0, <1>1, <1>2, <1>3 DEF Goes, Fields, AllAwaited, Loads, Saves
<1>5. OneSave'
  BY <1>0, <1>1, <1>2, <1>3 DEF Goes, Fields, OneSave, Saves
<1>6. DraftsUsedOnce'
  BY <1>0, <1>1, <1>2, <1>3 DEF Goes, Fields, DraftsUsedOnce, Made, MadeBy, Saves
<1>7. NoDuplicateJob'
  BY <1>0, <1>1, <1>2, <1>3 DEF Goes, Fields, NoDuplicateJob
<1>8. KnownRows'
  BY <1>0, <1>1, <1>2, <1>3 DEF Goes, Fields, KnownRows, Listing, Listed
<1>9. ClaimsKept'
  BY <1>0, <1>1, <1>2, <1>3 DEF Goes, Fields, ClaimsKept, ClaimKept, ToWrite
<1>10. FreshInv'
  BY <1>0, <1>1, <1>2, <1>3
     DEF Goes, Fields, FreshInv, OneLoad, Fresh, Loads, Written, Acting, Listing, Saves
<1> QED
  BY <1>4, <1>5, <1>6, <1>7, <1>8, <1>9, <1>10 DEF DashInv

\* A call is executed and its answer is on its way; the page does not change.
Done(r, v) ==
    /\ Goes(r, "answered", req[r].kind, req[r].job, v, req[r].ok) /\ HandlerOK(r)
    /\ req[r].at = "sent" /\ req[r].ok
    /\ UNCHANGED <<doubted, busy, form, typed, shown, loading, saving, error, crossed>>

\* A button's call writes its row.
LEMMA WriteKeeps ==
    ASSUME TypeInv, DashInv, NEW r \in Request, NEW v \in Val, Done(r, v),
           NEW j \in Job, req[r].kind = "action", req[r].job = j, rows[j] # "new",
           rows'[j] = req[r].val, req[r].val \in {"on", "off", "gone"},
           \A k \in Job \ {j} : rows'[k] = rows[k], UNCHANGED <<origin, want>>
    PROVE  DashInv'
<1> USE DashboardAssumption
<1>0. AllAwaited /\ OneSave /\ DraftsUsedOnce /\ NoDuplicateJob /\ KnownRows /\ ClaimsKept /\ FreshInv
  BY DEF DashInv
<1>1. /\ \A q \in Request \ {r} : req'[q] = req[q]
      /\ Fields(req'[r], "answered", "action", j, v, req[r].ok)
      /\ req[r].at = "sent" /\ req[r].ok /\ UNCHANGED <<busy, error, shown, crossed>>
  BY DEF Done, Goes
<1>2. AllAwaited'
  BY <1>0, <1>1 DEF Done, Goes, Fields, AllAwaited, Loads, Saves
<1>3. OneSave'
  BY <1>0, <1>1 DEF Done, Goes, Fields, OneSave, Saves
<1>4. DraftsUsedOnce'
  BY <1>0, <1>1 DEF Done, Goes, Fields, DraftsUsedOnce, Made, MadeBy, Saves
<1>5. NoDuplicateJob'
  BY <1>0, <1>1 DEF Done, Goes, Fields, NoDuplicateJob
<1>6. KnownRows'
  BY <1>0, <1>1 DEF Done, Goes, Fields, KnownRows
<1>7. ClaimsKept'
  <2> SUFFICES ASSUME NEW k \in Job, want[k] # None PROVE ClaimKept(k)'
    BY DEF ClaimsKept
  <2>1. ClaimKept(k)
    BY <1>0 DEF ClaimsKept
  <2>2. CASE k = j
    <3>1. req[r].val = want[j] /\ busy = j /\ \A q \in Request : req[q].job = j => q = r
      BY <1>1, <2>1, <2>2 DEF ClaimKept, ToWrite
    <3>2. ~ToWrite(r)' /\ req'[r].ok /\ \A q \in Request : req'[q].job = j => q = r
      BY <1>1, <3>1 DEF ToWrite, Fields
    <3>3. req'[r].job = j
      BY <1>1 DEF Fields
    <3> QED
      BY <1>1, <2>2, <3>1, <3>2, <3>3 DEF ClaimKept
  <2>3. CASE k # j
    <3>1. \A q \in Request : req'[q].job = k => q # r /\ req'[q] = req[q]
      BY <1>1, <2>3 DEF Fields
    <3>2. (\A q \in Request : req'[q].job # k) => \A q \in Request : req[q].job # k
      BY <1>1, <2>3
    <3> QED
      BY <1>1, <2>1, <2>3, <3>1, <3>2 DEF ClaimKept, ToWrite
  <2> QED
    BY <2>2, <2>3
<1>8. FreshInv'
  <2>1. OneLoad => OneLoad'
    BY <1>1 DEF OneLoad, Loads, Fields
  <2>2. Acting'
    BY <1>1 DEF Acting, Fields
  <2>3. ASSUME NEW k \in Job, Fresh(k) PROVE Fresh(k)'
    <3>1. CASE k = j
      <4>1. Written(k)'
        BY <1>1, <3>1 DEF Written, Fields
      <4> QED
        BY <2>2, <4>1 DEF Fresh
    <3>2. CASE k # j
      <4>1. Written(k) => Written(k)'
        BY <1>1 DEF Written, Saves
      <4>2. Listing(k)' = Listing(k)
        BY <3>2 DEF Listing
      <4> QED
        BY <1>1, <2>2, <2>3, <4>1, <4>2 DEF Fresh, Fields
    <3> QED
      BY <3>1, <3>2
  <2> QED
    BY <1>0, <1>1, <2>1, <2>3 DEF FreshInv
<1> QED
  BY <1>2, <1>3, <1>4, <1>5, <1>6, <1>7, <1>8 DEF DashInv

\* A trigger writes nothing.
LEMMA FireKeeps ==
    ASSUME TypeInv, DashInv, NEW r \in Request, NEW v \in Val, Done(r, v),
           req[r].val = "fire", Saves(r) => v = req[r].val, UNCHANGED <<rows, origin, want>>
    PROVE  DashInv'
<1> USE DashboardAssumption
<1>0. AllAwaited /\ OneSave /\ DraftsUsedOnce /\ NoDuplicateJob /\ KnownRows /\ ClaimsKept /\ FreshInv
  BY DEF DashInv
<1>1. /\ \A q \in Request \ {r} : req'[q] = req[q]
      /\ req'[r].job = req[r].job /\ req'[r].at = "answered" /\ req'[r].ok
      /\ ~ToWrite(r) /\ UNCHANGED busy
  BY DEF Done, Goes, Fields, ToWrite
<1>2. AllAwaited'
  BY <1>0, <1>1 DEF Done, Goes, Fields, AllAwaited, Loads, Saves
<1>3. OneSave'
  BY <1>0, <1>1 DEF Done, Goes, Fields, OneSave, Saves
<1>4. DraftsUsedOnce'
  BY <1>0, <1>1 DEF Done, Goes, Fields, DraftsUsedOnce, Made, MadeBy, Saves
<1>5. NoDuplicateJob'
  BY <1>0, <1>1 DEF Done, Goes, Fields, NoDuplicateJob
<1>6. KnownRows'
  BY <1>0, <1>1 DEF Done, Goes, Fields, KnownRows
<1>7. ClaimsKept'
  <2> SUFFICES ASSUME NEW k \in Job, want[k] # None PROVE ClaimKept(k)'
    BY DEF ClaimsKept
  <2>1. ClaimKept(k)
    BY <1>0 DEF ClaimsKept
  <2>2. \A q \in Request : /\ req'[q].job = req[q].job
                           /\ ToWrite(q)' <=> ToWrite(q)
                           /\ q # r => req'[q] = req[q]
    BY <1>1 DEF ToWrite
  <2> QED
    BY <1>1, <2>1, <2>2 DEF ClaimKept
<1>8. FreshInv'
  BY <1>0, <1>1 DEF Done, Goes, Fields, FreshInv, OneLoad, Fresh, Loads, Written, Acting, Listing, Saves
<1> QED
  BY <1>2, <1>3, <1>4, <1>5, <1>6, <1>7, <1>8 DEF DashInv

\* A job is made of a draft: of one that had no job, or whose answer was lost.
LEMMA CreateKeeps ==
    ASSUME TypeInv, DashInv, NEW r \in Request, NEW v \in Val, Done(r, v),
           NEW j \in Job, Saves(r), req[r].job = None, v = req[r].val, rows[j] = "new",
           rows'[j] = "on", want'[j] = "on", origin'[j] = req[r].val,
           \A k \in Job \ {j} : rows'[k] = rows[k] /\ want'[k] = want[k] /\ origin'[k] = origin[k]
    PROVE  DashInv'
<1> USE DashboardAssumption
<1>0. AllAwaited /\ OneSave /\ DraftsUsedOnce /\ NoDuplicateJob /\ KnownRows /\ ClaimsKept /\ FreshInv
  BY DEF DashInv
<1>1. /\ \A q \in Request \ {r} : req'[q] = req[q]
      /\ Fields(req'[r], "answered", "create", None, req[r].val, req[r].ok)
      /\ req[r].at = "sent" /\ req[r].ok /\ req[r].val \in typed
      /\ UNCHANGED <<doubted, busy, form, typed, shown, error, crossed>>
  BY DEF Done, Goes, Fields, HandlerOK, Saves
<1>2. AllAwaited'
  BY <1>0, <1>1 DEF Done, Goes, Fields, AllAwaited, Loads, Saves
<1>3. OneSave'
  BY <1>0, <1>1 DEF Done, Goes, Fields, OneSave, Saves
<1>4. DraftsUsedOnce'
  <2>1. \A k \in Job : origin'[k] \in typed' \cup {None}
    BY <1>0, <1>1 DEF DraftsUsedOnce
  <2>2. ASSUME form # None, Made(form)', form \notin doubted
        PROVE  \E q \in Request : MadeBy(q)' /\ req'[q].val = form
    <3>1. CASE form = req[r].val
      BY <1>1, <3>1 DEF MadeBy, Saves, Fields
    <3>2. CASE form # req[r].val
      <4>1. Made(form)
        BY <1>1, <2>2, <3>2 DEF Made
      <4>2. PICK q \in Request : MadeBy(q) /\ req[q].val = form
        BY <1>0, <2>2, <4>1 DEF DraftsUsedOnce
      <4>3. q # r
        BY <1>1, <4>2 DEF MadeBy
      <4> QED
        BY <1>1, <4>2, <4>3 DEF MadeBy, Saves
    <3> QED
      BY <3>1, <3>2
  <2>3. \A q \in Request : Saves(q)' => req'[q].at # "sent"
    BY <1>0, <1>1 DEF OneSave, Saves, Fields
  <2> QED
    BY <1>1, <2>1, <2>2, <2>3 DEF DraftsUsedOnce
<1>5. NoDuplicateJob'
  <2>1. \A k \in Job : origin[k] = req[r].val => req[r].val \in doubted
    BY <1>0, <1>1 DEF DraftsUsedOnce, Made
  <2> QED
    BY <1>0, <1>1, <2>1 DEF NoDuplicateJob
<1>6. KnownRows'
  BY <1>0, <1>1 DEF Done, Goes, Fields, KnownRows
<1>7. ClaimsKept'
  <2> SUFFICES ASSUME NEW k \in Job, want'[k] # None PROVE ClaimKept(k)'
    BY DEF ClaimsKept
  <2>0. \A q \in Request : req'[q].job = k => q # r /\ req'[q] = req[q]
    BY <1>1 DEF Fields
  <2>1. CASE k = j
    <3>1. \A q \in Request : req'[q].job # k
      BY <1>0, <2>0, <2>1 DEF KnownRows
    <3> QED
      BY <2>1, <3>1 DEF ClaimKept
  <2>2. CASE k # j
    <3>1. ClaimKept(k)
      BY <1>0, <2>2 DEF ClaimsKept
    <3>2. (\A q \in Request : req'[q].job # k) => \A q \in Request : req[q].job # k
      BY <1>1
    <3> QED
      BY <1>1, <2>0, <2>2, <3>1, <3>2 DEF ClaimKept, ToWrite
  <2> QED
    BY <2>1, <2>2
<1>8. FreshInv'
  <2>1. OneLoad => OneLoad'
    BY <1>1 DEF OneLoad, Loads, Fields
  <2>2. Acting => Acting'
    BY <1>1 DEF Acting, Saves
  <2>3. ASSUME NEW k \in Job, k # j, Fresh(k) PROVE Fresh(k)'
    <3>1. Written(k) => Written(k)'
      BY <1>1, <2>3 DEF Written, Saves
    <3>2. Listing(k)' = Listing(k)
      BY <2>3 DEF Listing
    <3>3. (\A q \in Request : ~Loads(q)') => \A q \in Request : ~Loads(q)
      BY <1>1 DEF Loads
    <3> QED
      BY <1>1, <2>2, <2>3, <3>1, <3>2, <3>3 DEF Fresh, Fields
  <2>4. Written(j)'
    BY <1>1 DEF Written, Saves, Fields
  <2>5. Fresh(j)'
    BY <2>4 DEF Fresh
  <2> QED
    BY <1>0, <1>1, <2>1, <2>3, <2>5 DEF FreshInv
<1> QED
  BY <1>2, <1>3, <1>4, <1>5, <1>6, <1>7, <1>8 DEF DashInv

\* A call is executed.
LEMMA ExecuteKeeps ==
    ASSUME TypeInv, DashInv, NEW r \in Request, Execute(r)
    PROVE  DashInv'
<1>1. PICK v \in Val : /\ Goes(r, "answered", req[r].kind, req[r].job, v, req[r].ok)
                       /\ req[r].kind = "create" => v = req[r].val
  BY ExecuteFacts
<1>2. Done(r, v)
  BY <1>1 DEF Done, Execute, TypeInv, HandlerOK, pageVars, formVars
<1>3. /\ HandlerOK(r) /\ req[r].at = "sent" /\ req[r].job \in Job \cup {None}
      /\ DOMAIN rows = Job /\ DOMAIN want = Job /\ DOMAIN origin = Job
  BY HandlerFields DEF Execute, TypeInv, DashboardTypeOK
<1>4. CASE req[r].kind = "action" /\ req[r].val # "fire" /\ setRow(req[r].job, req[r].val)
           /\ UNCHANGED <<origin, want>>
  <2>1. PICK j \in Job : req[r].job = j
    BY <1>3, <1>4 DEF HandlerOK
  <2>2. /\ rows[j] # "new" /\ rows'[j] = req[r].val /\ req[r].val \in {"on", "off", "gone"}
        /\ \A k \in Job \ {j} : rows'[k] = rows[k]
    BY <1>3, <1>4, <2>1 DEF HandlerOK, setRow, Listed
  <2> QED
    BY <1>2, <1>4, <2>1, <2>2, WriteKeeps
<1>5. CASE req[r].val = "fire" /\ UNCHANGED <<rows, origin, want>>
  BY <1>1, <1>2, <1>5, FireKeeps DEF Saves
<1>6. ASSUME req[r].kind = "create", NEW j \in Job, rows[j] = "new",
             rows' = [rows EXCEPT ![j] = "on"], origin' = [origin EXCEPT ![j] = req[r].val],
             want' = [want EXCEPT ![j] = "on"]
      PROVE  DashInv'
  <2>1. /\ Saves(r) /\ req[r].job = None /\ v = req[r].val
        /\ rows'[j] = "on" /\ want'[j] = "on" /\ origin'[j] = req[r].val
        /\ \A k \in Job \ {j} : rows'[k] = rows[k] /\ want'[k] = want[k] /\ origin'[k] = origin[k]
    BY <1>1, <1>3, <1>6 DEF HandlerOK, Saves
  <2> QED
    BY <1>2, <1>6, <2>1, CreateKeeps
<1> QED
  BY <1>4, <1>5, <1>6 DEF Execute

\* A button's call has succeeded: the reload.
LEMMA ActionReloads ==
    ASSUME TypeInv, DashInv, NEW r \in Request, ActionAnswer(r), req[r].ok
    PROVE  DashInv'
<1> USE DashboardAssumption
<1>0. AllAwaited /\ OneSave /\ DraftsUsedOnce /\ NoDuplicateJob /\ KnownRows /\ ClaimsKept /\ FreshInv
  BY DEF DashInv
<1>1. Goes(r, "fetch", "action", req[r].job, None, TRUE)
  BY LoadFacts, HandlerFields DEF ActionAnswer, actionDone
<1>2. req[r].at = "answered" /\ req[r].kind = "action"
  BY DEF ActionAnswer
<1>3. UNCHANGED <<rows, origin, doubted, busy, form, saving, typed, want, shown>>
  BY DEF ActionAnswer, actionDone, apiVars, formVars
<1>4. AllAwaited'
  BY <1>0, <1>1, <1>2, <1>3 DEF Goes, Fields, AllAwaited, Loads, Saves
<1>5. OneSave'
  BY <1>0, <1>1, <1>2, <1>3 DEF Goes, Fields, OneSave, Saves
<1>6. DraftsUsedOnce'
  BY <1>0, <1>1, <1>2, <1>3 DEF Goes, Fields, DraftsUsedOnce, Made, MadeBy, Saves
<1>7. NoDuplicateJob'
  BY <1>0, <1>1, <1>2, <1>3 DEF Goes, Fields, NoDuplicateJob
<1>8. KnownRows'
  BY <1>0, <1>1, <1>2, <1>3 DEF Goes, Fields, KnownRows
<1>9. ClaimsKept'
  BY <1>0, <1>1, <1>2, <1>3 DEF Goes, Fields, ClaimsKept, ClaimKept, ToWrite
<1>10. FreshInv'
  BY <1>1, LoadFresh DEF ActionAnswer, actionDone, loadJobs
<1> QED
  BY <1>4, <1>5, <1>6, <1>7, <1>8, <1>9, <1>10 DEF DashInv

\* A button's call has failed: busyId is cleared, and the others lose their claims.
LEMMA ActionFails ==
    ASSUME TypeInv, DashInv, NEW r \in Request, ActionAnswer(r), ~req[r].ok
    PROVE  DashInv'
<1> USE DashboardAssumption
<1>0. AllAwaited /\ OneSave /\ DraftsUsedOnce /\ NoDuplicateJob /\ KnownRows /\ ClaimsKept /\ FreshInv
  BY DEF DashInv
<1>1. Goes(r, "idle", "load", None, None, TRUE)
  BY EndFacts DEF ActionAnswer, actionFailed
<1>2. req[r].at = "answered" /\ req[r].kind = "action" /\ busy' = None /\ error' = TRUE
  BY DEF ActionAnswer, actionFailed
<1>3. UNCHANGED <<rows, origin, doubted, form, saving, typed, shown, loading, crossed>>
  BY DEF ActionAnswer, actionFailed, apiVars, formVars
<1>4. \A k \in Job :
        want'[k] = IF k # req[r].job /\ (\E q \in Request \ {r} : req[q].job = k) THEN None ELSE want[k]
  BY NoClaimType DEF ActionAnswer, Others, TypeInv, DashboardTypeOK, PageTypeOK, Table
<1>5. AllAwaited'
  BY <1>0, <1>1, <1>2, <1>3, <1>4 DEF Goes, Fields, AllAwaited, Loads, Saves
<1>6. OneSave'
  BY <1>0, <1>1, <1>2, <1>3, <1>4 DEF Goes, Fields, OneSave, Saves
<1>7. DraftsUsedOnce'
  BY <1>0, <1>1, <1>2, <1>3, <1>4 DEF Goes, Fields, DraftsUsedOnce, Made, MadeBy, Saves
<1>8. NoDuplicateJob'
  BY <1>0, <1>1, <1>2, <1>3, <1>4 DEF Goes, Fields, NoDuplicateJob
<1>9. KnownRows'
  BY <1>0, <1>1, <1>2, <1>3, <1>4 DEF Goes, Fields, KnownRows
<1>10. ClaimsKept'
  BY <1>0, <1>1, <1>2, <1>3, <1>4 DEF Goes, Fields, ClaimsKept, ClaimKept, ToWrite
<1>11. FreshInv'
  BY <1>0, <1>1, <1>2, <1>3, <1>4
     DEF Goes, Fields, FreshInv, OneLoad, Fresh, Loads, Written, Acting, Listing, Saves
<1> QED
  BY <1>5, <1>6, <1>7, <1>8, <1>9, <1>10, <1>11 DEF DashInv

\* The form is saved: it is cleared, and the reload.
LEMMA SaveReloads ==
    ASSUME TypeInv, DashInv, NEW r \in Request, SubmitAnswer(r), req[r].ok
    PROVE  DashInv'
<1> USE DashboardAssumption
<1>0. AllAwaited /\ OneSave /\ DraftsUsedOnce /\ NoDuplicateJob /\ KnownRows /\ ClaimsKept /\ FreshInv
  BY DEF DashInv
<1>1. Goes(r, "fetch", "load", None, None, TRUE)
  BY LoadFacts DEF SubmitAnswer
<1>2. HandlerOK(r) /\ req[r].at = "answered" /\ req[r].kind = "create" /\ saving' = FALSE /\ form' = None
  BY DEF SubmitAnswer, TypeInv
<1>3. UNCHANGED <<rows, origin, doubted, busy, typed, want, shown>>
  BY DEF SubmitAnswer, apiVars
<1>4. AllAwaited'
  BY <1>0, <1>1, <1>2, <1>3 DEF Goes, Fields, HandlerOK, AllAwaited, Loads, Saves
<1>5. OneSave'
  BY <1>0, <1>1, <1>2, <1>3 DEF Goes, Fields, OneSave, Saves
<1>6. DraftsUsedOnce'
  BY <1>0, <1>1, <1>2, <1>3 DEF Goes, Fields, DraftsUsedOnce, Made, MadeBy, Saves
<1>7. NoDuplicateJob'
  BY <1>0, <1>1, <1>2, <1>3 DEF Goes, Fields, NoDuplicateJob
<1>8. KnownRows'
  BY <1>0, <1>1, <1>2, <1>3 DEF Goes, Fields, KnownRows
<1>9. ClaimsKept'
  BY <1>0, <1>1, <1>2, <1>3 DEF Goes, Fields, HandlerOK, ClaimsKept, ClaimKept, ToWrite
<1>10. FreshInv'
  BY <1>1, LoadFresh DEF SubmitAnswer, loadJobs
<1> QED
  BY <1>4, <1>5, <1>6, <1>7, <1>8, <1>9, <1>10 DEF DashInv

\* The form could not be saved: it keeps its content.
LEMMA SaveFails ==
    ASSUME TypeInv, DashInv, NEW r \in Request, SubmitAnswer(r), ~req[r].ok
    PROVE  DashInv'
<1> USE DashboardAssumption
<1>0. AllAwaited /\ OneSave /\ DraftsUsedOnce /\ NoDuplicateJob /\ KnownRows /\ ClaimsKept /\ FreshInv
  BY DEF DashInv
<1>1. Goes(r, "idle", "load", None, None, TRUE)
  BY EndFacts DEF SubmitAnswer
<1>2. HandlerOK(r) /\ req[r].at = "answered" /\ req[r].kind = "create" /\ saving' = FALSE
  BY DEF SubmitAnswer, TypeInv
<1>3. UNCHANGED <<rows, origin, doubted, form, busy, typed, want, shown, loading, error, crossed>>
  BY DEF SubmitAnswer, apiVars
<1>4. AllAwaited'
  BY <1>0, <1>1, <1>2, <1>3 DEF Goes, Fields, HandlerOK, AllAwaited, Loads, Saves
<1>5. OneSave'
  BY <1>0, <1>1, <1>2, <1>3 DEF Goes, Fields, OneSave, Saves
<1>6. DraftsUsedOnce'
  BY <1>0, <1>1, <1>2, <1>3 DEF Goes, Fields, DraftsUsedOnce, Made, MadeBy, Saves
<1>7. NoDuplicateJob'
  BY <1>0, <1>1, <1>2, <1>3 DEF Goes, Fields, NoDuplicateJob
<1>8. KnownRows'
  BY <1>0, <1>1, <1>2, <1>3 DEF Goes, Fields, KnownRows
<1>9. ClaimsKept'
  BY <1>0, <1>1, <1>2, <1>3 DEF Goes, Fields, HandlerOK, ClaimsKept, ClaimKept, ToWrite
<1>10. FreshInv'
  BY <1>0, <1>1, <1>2, <1>3
     DEF Goes, Fields, FreshInv, OneLoad, Fresh, Loads, Written, Acting, Listing, Saves
<1> QED
  BY <1>4, <1>5, <1>6, <1>7, <1>8, <1>9, <1>10 DEF DashInv

\* A load ends, and with it the handler it belongs to.
LEMMA LoadKeeps ==
    ASSUME TypeInv, DashInv, NEW r \in Request, LoadAnswer(r)
    PROVE  DashInv'
<1> USE DashboardAssumption
<1>0. AllAwaited /\ OneSave /\ DraftsUsedOnce /\ NoDuplicateJob /\ KnownRows /\ ClaimsKept /\ FreshInv
  BY DEF DashInv
<1>1. Goes(r, "idle", "load", None, None, TRUE)
  BY EndFacts DEF LoadAnswer
<1>2. HandlerOK(r) /\ req[r].at = "fetched" /\ loading' = FALSE /\ showJobs(r)
  BY DEF LoadAnswer, TypeInv
<1>3. UNCHANGED <<rows, origin, doubted, form, saving, typed, crossed>>
  BY DEF LoadAnswer, apiVars, formVars
<1>4. /\ \/ req[r].kind = "action" /\ busy' = None
         \/ req[r].job = None /\ busy' = busy
      /\ \A k \in Job : want'[k] = IF /\ req[r].kind = "action" /\ k # req[r].job
                                       /\ \E q \in Request \ {r} : req[q].job = k
                                    THEN None ELSE want[k]
  <2>1. \/ req[r].kind = "load" /\ req[r].job = None
        \/ req[r].kind = "action"
    BY <1>2, HandlerFields DEF HandlerOK
  <2>2. PageTypeOK
    BY DEF TypeInv, DashboardTypeOK, PageTypeOK, Table
  <2>3. CASE req[r].kind = "load" /\ req[r].job = None
    BY <2>3 DEF LoadAnswer
  <2>4. CASE req[r].kind = "action"
    <3>1. want' = NoClaim(Others(r, req[r].job)) /\ busy' = None
      BY <2>4 DEF LoadAnswer
    <3>2. \A k \in Job : want'[k] = IF k \in Others(r, req[r].job) THEN None ELSE want[k]
      BY <2>2, <3>1, NoClaimType
    <3>3. \A k \in Job : k \in Others(r, req[r].job) <=>
                            k # req[r].job /\ \E q \in Request \ {r} : req[q].job = k
      BY DEF Others
    <3> QED
      BY <2>4, <3>1, <3>2, <3>3
  <2> QED
    BY <2>1, <2>3, <2>4
<1>5. AllAwaited'
  BY <1>0, <1>1, <1>2, <1>3, <1>4 DEF Goes, Fields, HandlerOK, AllAwaited, Loads, Saves
<1>6. OneSave'
  BY <1>0, <1>1, <1>2, <1>3, <1>4 DEF Goes, Fields, OneSave, Saves
<1>7. DraftsUsedOnce'
  BY <1>0, <1>1, <1>2, <1>3, <1>4 DEF Goes, Fields, DraftsUsedOnce, Made, MadeBy, Saves
<1>8. NoDuplicateJob'
  BY <1>0, <1>1, <1>2, <1>3, <1>4 DEF Goes, Fields, NoDuplicateJob
<1>9. KnownRows'
  BY <1>0, <1>1, <1>2, <1>3 DEF Goes, Fields, KnownRows, showJobs
<1>10. ClaimsKept'
  BY <1>0, <1>1, <1>2, <1>3, <1>4 DEF Goes, Fields, HandlerOK, ClaimsKept, ClaimKept, ToWrite
<1>11. FreshInv'
  BY <1>0, <1>1, <1>2, <1>3, <1>4
     DEF Goes, Fields, showJobs, FreshInv, OneLoad, Fresh, Loads, Written, Acting, Listing,
         Saves
<1> QED
  BY <1>5, <1>6, <1>7, <1>8, <1>9, <1>10, <1>11 DEF DashInv

\* The form is opened, closed or filled in: a draft is typed once.
LEMMA TypingKeeps ==
    ASSUME TypeInv, DashInv, OpenForm \/ CloseForm \/ (\E d \in Draft : Type(d))
    PROVE  DashInv'
<1> USE DashboardAssumption
<1>0. AllAwaited /\ OneSave /\ DraftsUsedOnce /\ NoDuplicateJob /\ KnownRows /\ ClaimsKept /\ FreshInv
  BY DEF DashInv
<1>1. UNCHANGED <<rows, origin, doubted, busy, want, shown, loading, saving, error, req, crossed>>
  BY DEF OpenForm, CloseForm, Type, apiVars, pageVars
<1>2. \/ form' = form /\ typed' = typed
      \/ (form' \notin typed /\ form' \in Draft /\ typed' = typed \cup {form'})
  BY DEF OpenForm, CloseForm, Type
<1>3. AllAwaited'
  BY <1>0, <1>1, <1>2 DEF Goes, Fields, AllAwaited, Loads, Saves
<1>4. OneSave'
  BY <1>0, <1>1, <1>2 DEF Goes, Fields, OneSave, Saves
<1>5. DraftsUsedOnce'
  BY <1>0, <1>1, <1>2 DEF Goes, Fields, DraftsUsedOnce, Made, MadeBy, Saves
<1>6. NoDuplicateJob'
  BY <1>0, <1>1, <1>2 DEF Goes, Fields, NoDuplicateJob
<1>7. KnownRows'
  BY <1>0, <1>1, <1>2 DEF Goes, Fields, KnownRows
<1>8. ClaimsKept'
  BY <1>0, <1>1, <1>2 DEF Goes, Fields, ClaimsKept, ClaimKept, ToWrite
<1>9. FreshInv'
  BY <1>0, <1>1, <1>2
     DEF Goes, Fields, FreshInv, OneLoad, Fresh, Loads, Written, Acting, Listing, Saves
<1> QED
  BY <1>3, <1>4, <1>5, <1>6, <1>7, <1>8, <1>9 DEF DashInv

\* Somebody else writes a job, on which no claim is made from then on.
LEMMA OutsiderKeeps ==
    ASSUME TypeInv, DashInv, NEW j \in Job, NEW row \in Row, Outsider(j, row)
    PROVE  DashInv'
<1> USE DashboardAssumption
<1>0. AllAwaited /\ OneSave /\ DraftsUsedOnce /\ NoDuplicateJob /\ KnownRows /\ ClaimsKept /\ FreshInv
  BY DEF DashInv
<1>1. UNCHANGED <<origin, doubted, busy, form, typed, shown, loading, saving, error, req, crossed>>
  BY DEF Outsider, pageVars, formVars
<1>2. \A k \in Job : want'[k] = IF k = j THEN None ELSE want[k]
  BY NoClaimType DEF Outsider, TypeInv, DashboardTypeOK, PageTypeOK, Table
<1>3. rows[j] # "new" /\ rows'[j] # "new" /\ \A k \in Job \ {j} : rows'[k] = rows[k]
  BY DEF Outsider, Listed, TypeInv, DashboardTypeOK
<1>4. AllAwaited'
  BY <1>0, <1>1, <1>2, <1>3 DEF Goes, Fields, AllAwaited, Loads, Saves
<1>5. OneSave'
  BY <1>0, <1>1, <1>2, <1>3 DEF Goes, Fields, OneSave, Saves
<1>6. DraftsUsedOnce'
  BY <1>0, <1>1, <1>2, <1>3 DEF Goes, Fields, DraftsUsedOnce, Made, MadeBy, Saves
<1>7. NoDuplicateJob'
  BY <1>0, <1>1, <1>2, <1>3 DEF Goes, Fields, NoDuplicateJob
<1>8. KnownRows'
  BY <1>0, <1>1, <1>2, <1>3 DEF Goes, Fields, KnownRows
<1>9. ClaimsKept'
  BY <1>0, <1>1, <1>2, <1>3 DEF Goes, Fields, ClaimsKept, ClaimKept, ToWrite
<1>10. FreshInv'
  BY <1>0, <1>1, <1>2, <1>3
     DEF Goes, Fields, FreshInv, OneLoad, Fresh, Loads, Written, Acting, Listing, Saves
<1> QED
  BY <1>4, <1>5, <1>6, <1>7, <1>8, <1>9, <1>10 DEF DashInv

\* The page has just been opened.
LEMMA DashInit == Init => DashInv
<1> SUFFICES ASSUME Init PROVE DashInv
  OBVIOUS
<1> USE DashboardAssumption
<1>1. PICK r \in Request :
        req = [q \in Request |-> IF q = r THEN [Rest EXCEPT !.at = "fetch"] ELSE Rest]
  BY DEF Init
<1>2. PICK h : h = [Rest EXCEPT !.at = "fetch"]
  OBVIOUS
<1>3. Fields(h, "fetch", "load", None, None, TRUE)
  BY <1>2 DEF Rest, Fields
<1>4. \A q \in Request : req[q] = IF q = r THEN h ELSE Rest
  BY <1>1, <1>2
<1>5. \A q \in Request : /\ req[q].kind = "load" /\ req[q].job = None
                         /\ req[q].at = IF q = r THEN "fetch" ELSE "idle"
  BY <1>3, <1>4, IdleFacts DEF Fields
<1>6. AllAwaited /\ OneSave
  BY <1>5 DEF Init, AllAwaited, OneSave, Loads, Saves
<1>7. DraftsUsedOnce /\ NoDuplicateJob
  BY <1>5 DEF Init, DraftsUsedOnce, NoDuplicateJob, Saves, MadeBy
<1>8. KnownRows /\ ClaimsKept
  BY <1>5 DEF Init, KnownRows, ClaimsKept, ClaimKept
<1>9. FreshInv
  BY <1>5 DEF FreshInv, OneLoad, Fresh, Loads
<1> QED
  BY <1>6, <1>7, <1>8, <1>9 DEF DashInv

\* Every step keeps the invariant.
LEMMA DashStep == TypeInv /\ DashInv /\ [Next]_vars => DashInv'
<1> SUFFICES ASSUME TypeInv, DashInv, [Next]_vars PROVE DashInv'
  OBVIOUS
<1>1. ASSUME NEW r \in Request,
             \/ Refresh(r) \/ handleSubmit(r) \/ Execute(r) \/ Refuse(r) \/ LoseAnswer(r)
             \/ listJobs(r) \/ LoadAnswer(r)
      PROVE  DashInv'
  BY <1>1, RefreshKeeps, SubmitKeeps, ExecuteKeeps, RefuseKeeps, LoseKeeps, ListKeeps, LoadKeeps
<1>2. ASSUME NEW r \in Request, ActionAnswer(r) PROVE DashInv'
  BY <1>2, ActionReloads, ActionFails
<1>3. ASSUME NEW r \in Request, SubmitAnswer(r) PROVE DashInv'
  BY <1>3, SaveReloads, SaveFails
<1>4. ASSUME NEW r \in Request, NEW j \in Job, NEW val, handleAction(r, j, val) PROVE DashInv'
  BY <1>4, ActionKeeps
<1>5. ASSUME OpenForm \/ CloseForm \/ (\E d \in Draft : Type(d)) PROVE DashInv'
  BY <1>5, TypingKeeps
<1>6. ASSUME NEW j \in Job, NEW row \in Row, Outsider(j, row) PROVE DashInv'
  BY <1>6, OutsiderKeeps
<1>7. CASE UNCHANGED vars
  BY <1>7 DEF vars, apiVars, pageVars, formVars, DashInv, AllAwaited, OneSave, DraftsUsedOnce,
              NoDuplicateJob, KnownRows, ClaimsKept, ClaimKept, FreshInv, OneLoad, Fresh, Loads,
              Written, Acting, Listing, Saves, Made, MadeBy, ToWrite
<1> QED
  BY <1>1, <1>2, <1>3, <1>4, <1>5, <1>6, <1>7 DEF Next

\* page.tsx, JobModal.tsx: the finally blocks.  Whatever fails and in whatever
\* order the answers come, the spinner, a disabled row and a disabled form each
\* wait for an answer that is still to come.
THEOREM NothingStaysStuck == Spec => []NothingStuck
<1>1. DashInv => NothingStuck
  <2> SUFFICES ASSUME AllAwaited PROVE NothingStuck
    BY DEF DashInv
  <2>1. loading => Loading # {}
    BY DEF AllAwaited, Loads, Loading
  <2>2. busy # None => On(busy) # {}
    BY DEF AllAwaited, On
  <2>3. saving => \E r \in Request : req[r].kind = "create"
    BY DEF AllAwaited, Saves
  <2> QED
    BY <2>1, <2>2, <2>3 DEF NothingStuck
<1> QED
  BY <1>1, DashboardTypeInit, DashboardTypeStep, DashInit, DashStep, PTL DEF Spec

\* JobModal.tsx: a form makes one job, however often it is closed, opened again,
\* edited or submitted, unless an answer was lost and the user tried again.
THEOREM FormMakesOneJob == Spec => []NoDuplicateJob
<1>1. DashInv => NoDuplicateJob
  BY DEF DashInv
<1> QED
  BY <1>1, DashboardTypeInit, DashboardTypeStep, DashInit, DashStep, PTL DEF Spec

\* page.tsx, busyId: when no request on a job is left its row is what the last
\* click on it asked for, unless somebody else wrote it, a request on it failed,
\* or an action on another job set or cleared busyId meanwhile.
THEOREM ClicksAreHonoured == Spec => []LastClickWins
<1>1. DashInv => LastClickWins
  <2> SUFFICES ASSUME ClaimsKept, NEW j \in Job, On(j) = {}, want[j] # None PROVE rows[j] = want[j]
    BY DEF DashInv, LastClickWins
  <2>1. \A r \in Request : req[r].job # j
    BY DEF On
  <2> QED
    BY <2>1 DEF ClaimsKept, ClaimKept
<1> QED
  BY <1>1, DashboardTypeInit, DashboardTypeStep, DashInit, DashStep, PTL DEF Spec

\* page.tsx, loadJobs after every write: at rest, with no error shown and unless
\* loads overlapped, the table has what the user did last.
THEOREM TableIsCurrent == Spec => []TableShowsLastClick
<1>1. TypeInv /\ DashInv => TableShowsLastClick
  <2> SUFFICES ASSUME TypeInv, DashInv, \A r \in Request : req[r] = Rest, ~error, ~crossed,
                      NEW j \in Job, want[j] # None
               PROVE  shown[j] = View(want)[j]
    BY DEF TableShowsLastClick
  <2>1. \A r \in Request : req[r].at = "idle" /\ req[r].job = None /\ req[r].kind = "load"
    BY IdleFacts DEF Fields
  <2>2. rows[j] = want[j]
    BY <2>1, DashboardAssumption DEF DashInv, ClaimsKept, ClaimKept
  <2>3. Fresh(j) /\ ~Acting /\ ~Written(j) /\ \A r \in Request : ~Loads(r)
    BY <2>1 DEF DashInv, FreshInv, Acting, Written, Loads
  <2>4. shown[j] = Listing(j)
    BY <2>3 DEF Fresh
  <2> QED
    BY <2>2, <2>4 DEF Listing, View
<1> QED
  BY <1>1, DashboardTypeInit, DashboardTypeStep, DashInit, DashStep, PTL DEF Spec
=============================================================================
