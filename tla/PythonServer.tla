---------------------------- MODULE PythonServer ----------------------------
(***************************************************************************)
(* The HTTP server of python/server/app.py over one vault: the CSRF check,  *)
(* the bearer tokens of agents and operators, the routes that change        *)
(* something, and the pool of threads that runs them.  A thread is held     *)
(* from the start of a handler to its end, also while an agent waits for an *)
(* operator and while a write is mirrored, so handlers wait for each other  *)
(* where the code takes no lock.                                            *)
(***************************************************************************)
EXTENDS ShadowWriter, Policy

CONSTANT Purpose         \* the purpose agents give

VARIABLES
  threads,        \* size of the pool that runs handlers and dependencies
  policy,         \* VaultManager.auth.rules
  operatorStore,  \* whether an operator token store is configured
  answer          \* client -> what operators decided on its request

serverVars == <<threads, policy, operatorStore, answer>>
pythonVars == <<shadowVars, serverVars>>

\* The steps at which a handler has its thread.
Running == {"commit", "count", "post", "posted", "verify", "row", "waiting", "woken", "release"}
Busy == {t \in Clients : work[t].step \in Running}
ThreadFree == Cardinality(Busy) < threads

\* A credential is the token it carries and whether it is sent as "Bearer".
Accepts(store, cred) == cred.token = store

\* csrf_middleware: a write passes with a valid token in a Bearer header, or
\* with the cookie and its copy, which a caller with a browser has.
PassesCsrf(cred) ==
  \/ cred.bearer /\ (Accepts("agent", cred) \/ (operatorStore /\ Accepts("operator", cred)))
  \/ cred.cookie

\* require_token and require_operator_token: each route names one of them.
OperatorRoutes == {"approve", "deny"}
RouteStore(op) == IF op \in OperatorRoutes /\ operatorStore THEN "operator" ELSE "agent"

\* A call arrives; its arguments are those the client sent.
Receive(t, op, s, v, cred) ==
  work' = [work EXCEPT ![t] =
             [Idle EXCEPT !.step = IF PassesCsrf(cred) THEN "queued" ELSE "done",
                          !.status = IF PassesCsrf(cred) THEN 0 ELSE 403,
                          !.op = op, !.secret = s, !.value = v]]

\* The dependency (the token, then the row HTTP_API) and the route each need
\* a thread; nothing is kept between the two, so they start in one step.
Starts(t, ops, cred) ==
  /\ work[t].step = "queued" /\ work[t].op \in ops
  /\ ThreadFree
  /\ Accepts(RouteStore(work[t].op), cred)

Refuse(t, cred) ==
  /\ work[t].step = "queued"
  /\ ThreadFree
  /\ IF Accepts(RouteStore(work[t].op), cred) THEN ReturnUnrecorded(t) ELSE Return(t, 401)
  /\ UNCHANGED <<goVars, shadowing, rows, divergent, excused, unsettled, serverVars>>

Permitted(t, action) ==
  evaluate(policy, [agent |-> t, namespace |-> work[t].secret.ns,
                    purpose |-> IF action = "revoke" THEN "*" ELSE Purpose,
                    action |-> action]).allowed

\* POST /v1/secrets and .../revoke: the vault's policy, then the write.
Write(t, cred) ==
  /\ Starts(t, {"set", "revoke"}, cred)
  /\ IF Permitted(t, IF work[t].op = "set" THEN "write" ELSE "revoke")
     THEN Proceed(t, "commit") ELSE Return(t, 403)
  /\ UNCHANGED <<goVars, shadowing, rows, divergent, excused, unsettled, serverVars>>

\* POST .../use: the action and its parameters first, then the lease.
Use(t, cred) ==
  /\ Starts(t, {"use"}, cred)
  /\ \/ \E status \in {400, 404} : Return(t, status) /\ UNCHANGED answer
     \/ IF Permitted(t, "read")
        THEN Proceed(t, "waiting") /\ answer' = [answer EXCEPT ![t] = "none"]
        ELSE Return(t, 403) /\ UNCHANGED answer
  /\ UNCHANGED <<goVars, shadowing, rows, divergent, excused, unsettled, threads, policy, operatorStore>>

\* Mutant of Wake: a wait without a timeout.
WakeOnAnswer(t) ==
  /\ work[t].step = "waiting" /\ answer[t] # "none"
  /\ Proceed(t, "woken")
  /\ UNCHANGED <<goVars, shadowing, rows, divergent, excused, unsettled, serverVars>>

\* event.wait(timeout) returns, with an answer or without.
Wake(t) ==
  /\ work[t].step = "waiting"
  /\ Proceed(t, "woken")
  /\ UNCHANGED <<goVars, shadowing, rows, divergent, excused, unsettled, serverVars>>

Collect(t) ==
  /\ work[t].step = "woken"
  /\ IF answer[t] = "approved" THEN Proceed(t, "release") ELSE Return(t, 403)
  /\ UNCHANGED <<goVars, shadowing, rows, divergent, excused, unsettled, serverVars>>

\* The row is read after the wait; the action may fail with the secret leased.
Release(t) ==
  /\ work[t].step = "release"
  /\ IF rows[work[t].secret] = Absent THEN Return(t, 404)
     ELSE \E status \in {200, 500} : Return(t, status)
  /\ UNCHANGED <<goVars, shadowing, rows, divergent, excused, unsettled, serverVars>>

\* POST /v1/requests/{id}/approve and .../deny, of a request that is listed;
\* an id that is not, or a second factor that is missing, is a 400.
Decide(t, cred) ==
  /\ Starts(t, OperatorRoutes, cred)
  /\ \/ /\ Return(t, 400) /\ UNCHANGED answer
     \/ \E r \in Clients :
          /\ work[r].step \in {"waiting", "woken"}
          /\ answer' = [answer EXCEPT ![r] = IF work[t].op = "approve" THEN "approved" ELSE "denied"]
          /\ Return(t, 200)
  /\ UNCHANGED <<goVars, shadowing, rows, divergent, excused, unsettled, threads, policy, operatorStore>>

ServerStep(t, cred) ==
  \/ Refuse(t, cred) \/ Write(t, cred) \/ Use(t, cred) \/ Decide(t, cred)
  \/ Wake(t) \/ Collect(t) \/ Release(t)

-----------------------------------------------------------------------------
ServerTypeOK ==
  /\ threads \in Nat \ {0}
  /\ operatorStore \in BOOLEAN
  /\ answer \in [Clients -> {"none", "approved", "denied"}]
=============================================================================
