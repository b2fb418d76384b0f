------------------------------ MODULE Gateway ------------------------------
(***************************************************************************)
(* The cutover gateway of go/internal/gateway in front of both servers:     *)
(* each call goes to Go with probability go_percent, else to Python; a call *)
(* whose transport to Go fails is served again by Python.  The gateway      *)
(* cannot tell a request that never arrived from an answer that was lost.   *)
(***************************************************************************)
EXTENDS PythonServer, Integers

CONSTANTS
  Draws,       \* values rand.IntN(100) may give
  Percents,    \* arguments of PUT /__cutover
  Credentials  \* credentials that callers present

VARIABLES
  goPercent,   \* share of the calls that go to Go
  call         \* client -> its call as the gateway sees it

gatewayVars == <<goPercent, call>>

\* rand.IntN always draws a number, and the transport can open a connection.
ASSUME GatewayAssumption ==
  /\ Draws # {} /\ Draws \subseteq Nat /\ Percents \subseteq Int
  /\ Conns # {}

\* `executed`: which servers did what the call asks; `lost`: whose answer was.
NoCall == [step |-> "idle", op |-> "none", secret |-> Absent, value |-> Absent,
           cred |-> Absent, on |-> NoConn, status |-> 0, lost |-> {}, executed |-> {}]

\* Mutant of clamp: no lower bound.
clampAbove(p) == IF p > 100 THEN 100 ELSE p

clamp(p) == IF p > 100 THEN 100 ELSE IF p < 0 THEN 0 ELSE p

GatewayInit(percents) ==
  /\ goPercent \in {clamp(p) : p \in percents}
  /\ call = [t \in Clients |-> NoCall]

SetGoPercent(p) ==
  /\ goPercent' = clamp(p)
  /\ UNCHANGED <<goVars, pythonVars, call>>

Arrive(t, op, s, v, cred) ==
  /\ call[t].step = "idle"
  /\ call' = [call EXCEPT ![t] = [NoCall EXCEPT !.step = "arrived", !.op = op, !.secret = s,
                                                !.value = v, !.cred = cred]]
  /\ UNCHANGED <<goVars, pythonVars, goPercent>>

ToPython(t) ==
  /\ call' = [call EXCEPT ![t].step = "python", ![t].on = NoConn]
  /\ Receive(t, call[t].op, call[t].secret, call[t].value, call[t].cred)

\* What Go is asked to change differs from Python's row from then on.
Differs(t) == excused' = excused \cup {call[t].secret}

ServeHTTP(t) ==
  /\ call[t].step = "arrived"
  /\ \E n \in Draws :
       \/ /\ n < goPercent
          /\ \E c \in FirstFree :
               /\ Connect(c, Request(call[t].op, call[t].secret, call[t].value, call[t].cred.token))
               /\ call' = [call EXCEPT ![t].step = "go", ![t].on = c]
          /\ Differs(t)
          /\ UNCHANGED work
       \/ /\ n >= goPercent
          /\ ToPython(t)
          /\ UNCHANGED <<conn, excused>>
  /\ UNCHANGED <<goStore, goLog, goEpoch, goToken, goRestarts, goMixed, shadowing, rows,
                 divergent, unsettled, serverVars, goPercent>>

Answered(t, status) == [call[t] EXCEPT !.step = "answered", !.status = status, !.on = NoConn]

GoAnswers(t) ==
  /\ call[t].step = "go"
  /\ conn[call[t].on].step = "answered"
  /\ call' = [call EXCEPT ![t] = Answered(t, conn[call[t].on].status)]
  /\ Disconnect(call[t].on)
  /\ UNCHANGED <<goStore, goLog, goEpoch, goToken, goRestarts, goMixed, pythonVars, goPercent>>

\* The ErrorHandler: the connection was refused, reset or cut.  The request
\* goes to Python, with its body unless the first transport used it up, and
\* then Python's own transport fails.
GoFails(t) ==
  /\ call[t].step = "go"
  /\ \/ conn[call[t].on].step = "sent" /\ Disconnect(call[t].on)
     \/ Abandon(call[t].on)
  /\ \/ /\ Receive(t, call[t].op, call[t].secret, call[t].value, call[t].cred)
        /\ call' = [call EXCEPT ![t].step = "python", ![t].on = NoConn, ![t].lost = {"go"}]
     \/ /\ call' = [call EXCEPT ![t] = [Answered(t, 502) EXCEPT !.lost = {"go"}]]
        /\ UNCHANGED work
  /\ UNCHANGED <<goStore, goLog, goEpoch, goToken, goRestarts, goMixed, shadowing, rows,
                 divergent, excused, unsettled, serverVars, goPercent>>

PythonAnswers(t) ==
  /\ call[t].step = "python"
  /\ work[t].step = "done"
  /\ call' = [call EXCEPT ![t] = Answered(t, work[t].status)]
  /\ UNCHANGED <<goVars, pythonVars, goPercent>>

\* Python's transport fails, before the request arrived or after: no
\* ErrorHandler is set, so the caller gets a 502 and the handler goes on.
PythonFails(t) ==
  /\ call[t].step = "python"
  /\ call' = [call EXCEPT ![t] = [Answered(t, 502) EXCEPT !.lost = call[t].lost \cup {"python"}]]
  /\ \/ work[t].step = "queued" /\ work' = [work EXCEPT ![t] = Idle]
     \/ UNCHANGED work
  /\ UNCHANGED <<goVars, shadowing, rows, divergent, excused, unsettled, serverVars, goPercent>>

\* The caller has its answer, and the handler has ended.
Done(t) ==
  /\ call[t].step = "answered" /\ work[t].step \in {"idle", "done"}
  /\ call' = [call EXCEPT ![t] = NoCall]
  /\ work' = [work EXCEPT ![t] = Idle]
  /\ UNCHANGED <<goVars, shadowing, rows, divergent, excused, unsettled, serverVars, goPercent>>

\* Handlers' steps, and what they do for the calls they belong to.
Did(t, server) == call' = [call EXCEPT ![t].executed = @ \cup {server}]

GoStep(c) ==
  /\ Handle(c)
  /\ IF conn[c].step = "sent" /\ conn'[c].step = "audit" /\ \E t \in Clients : call[t].on = c
     THEN Did(CHOOSE t \in Clients : call[t].on = c, "go") ELSE UNCHANGED call
  /\ UNCHANGED <<pythonVars, goPercent>>

\* A handler of Python does what it is asked where it commits a row, leases
\* a secret or records a decision.
Acts(t) ==
  \/ work[t].step = "commit" /\ (work'[t].step = "done" => work'[t].status = 200)
  \/ work[t].step = "release" /\ work'[t].status # 404
  \/ work[t].op \in OperatorRoutes /\ work'[t].status = 200

PythonStep(t) ==
  /\ \/ MirrorStep(t) /\ UNCHANGED serverVars
     \/ ServerStep(t, call[t].cred)
  /\ IF Acts(t) THEN Did(t, "python") ELSE UNCHANGED call
  /\ UNCHANGED <<goPercent>>

GatewayStep(t) == ServeHTTP(t) \/ GoAnswers(t) \/ PythonAnswers(t) \/ Done(t)

-----------------------------------------------------------------------------
Calls == [step : {"idle", "arrived", "go", "python", "answered"},
          op : Operations, secret : Names \cup {Absent},
          value : Values \cup {Absent}, cred : Credentials \cup {Absent},
          on : Conns \cup {NoConn}, lost : SUBSET {"go", "python"},
          status : {0, 200, 400, 401, 403, 404, 500, 502},
          executed : SUBSET {"go", "python"}]

GatewayTypeOK ==
  /\ goPercent \in 0..100
  /\ call \in [Clients -> Calls]

\* What a caller is told is what was done, whichever server and however many
\* mirrors, waits and tries it took: success means that a server did it; after
\* an error, a server did it only if its answer was lost, or it was Python and
\* a row of the log or the count of the DEK's use could not be written behind
\* the deed, or the action failed with the secret leased.  Two servers do it
\* only if Go's answer was lost.
AnswerTrue ==
  \A t \in Clients :
    /\ call[t].executed = {"go", "python"} => "go" \in call[t].lost
    /\ call[t].step = "answered" =>
         /\ call[t].status = 200 => call[t].executed # {}
         /\ call[t].status # 200 =>
              call[t].executed \ call[t].lost \subseteq
                IF work[t].unrecorded \/ (call[t].op = "use" /\ call[t].status = 500) THEN {"python"} ELSE {}
=============================================================================
