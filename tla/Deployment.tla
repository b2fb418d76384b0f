----------------------------- MODULE Deployment -----------------------------
(***************************************************************************)
(* The two servers and their clients together, in the ways the repository   *)
(* runs them: Python with the dual write to Go, the same behind the gateway *)
(* that moves calls to Go ("cutover"), agents and operators on the Python   *)
(* server alone, the terminal UI and other clients on the Go server alone,  *)
(* once with its lists ("dashboard") and once with its timers ("stream"),   *)
(* and a policy engine by itself.                                           *)
(***************************************************************************)
EXTENDS Gateway, Dashboard

CONSTANTS
  Deployments,   \* some of "dual_write", "cutover", "approval", "dashboard",
                 \* "stream", "policy"
  Inputs,        \* deployment -> requests that callers make
  PoolSizes,     \* deployment -> possible numbers of threads of the Python server
  MaxCalls,      \* bound: deployment -> calls made
  Policies,      \* deployment -> policies of the engine
  Agents, Namespaces, Purposes, Actions   \* attributes of requests

VARIABLES
  deployment,
  made           \* history: calls made

vars == <<deployment, made, goVars, pythonVars, gatewayVars, tuiVars>>

\* Requests by whom they reach.  Only those of cutover and of the terminal's
\* deployments reach Go as they are.
ASSUME DeploymentAssumption ==
  /\ \A d \in Deployments : \A rules \in Policies[d] : IsPolicy(rules)
  /\ \A d \in Deployments \cap {"dual_write", "cutover", "approval"} :
       /\ PoolSizes[d] \subseteq Nat \ {0}
       /\ Inputs[d] \subseteq [op : Operations, secret : Names, value : Values \cup {Absent}, cred : Credentials]
       /\ \A i \in Inputs[d] : i.op = "set" => i.value \in Values
  /\ \A d \in Deployments \cap {"dashboard", "stream"} :
       Inputs[d] \subseteq [op : GoOps, secret : Names, value : Values \cup {Absent}, cred : Credentials]
  /\ \A d \in Deployments \cap {"cutover", "dashboard", "stream"} : \A i \in Inputs[d] :
       /\ i.op \in GoOps /\ i.cred.token \in Tokens
       /\ i.op = "set" => i.value \in Values

Served == deployment \in {"dual_write", "cutover", "approval"}
OnTerminal == deployment \in {"dashboard", "stream"}

Init ==
  /\ deployment \in Deployments
  /\ made = 0
  /\ GoInit
  /\ deployment # "stream" => goToken = ShadowToken
  /\ ShadowInit(deployment \in {"dual_write", "cutover"})
  /\ policy \in Policies[deployment]
  /\ operatorStore \in IF deployment = "approval" THEN BOOLEAN ELSE {FALSE}
  /\ threads \in IF Served THEN PoolSizes[deployment] ELSE {1}
  /\ answer = [t \in Clients |-> "none"]
  /\ GatewayInit(IF deployment = "cutover" THEN Percents ELSE {0})
  /\ TuiInit(OnTerminal)

-----------------------------------------------------------------------------
Servers == UNCHANGED <<deployment, made, tuiVars>>

MakeCall ==
  /\ made < MaxCalls[deployment]
  /\ made' = made + 1
  /\ UNCHANGED <<deployment, tuiVars>>

\* Clients are alike: the first idle one makes the next call.
NextCaller ==
  LET idle == {t \in Clients : call[t].step = "idle"}
  IN IF idle = {} THEN {} ELSE {CHOOSE t \in idle : TRUE}

\* A client of the Go server alone.
GoClient(i) ==
  /\ \E c \in FirstFree :
       Connect(c, [Request(i.op, i.secret, i.value, i.cred.token) EXCEPT !.awaited = FALSE])
  /\ UNCHANGED <<goStore, goLog, goEpoch, goToken, goRestarts, goMixed, pythonVars, gatewayVars>>

\* Servers and gateway go on with what they have begun: handlers are
\* goroutines and threads, mirrors end after two seconds, an agent's wait
\* after its timeout.
GoesOn ==
  \/ \E c \in Conns : GoStep(c)
  \/ \E t \in Clients : GatewayStep(t) \/ PythonStep(t)

CallerNext ==
  \/ Served /\ MakeCall
     /\ \E t \in NextCaller, i \in Inputs[deployment] : Arrive(t, i.op, i.secret, i.value, i.cred)
  \/ Served /\ Servers /\ \E t \in Clients :
       GoFails(t) \/ (deployment = "cutover" /\ PythonFails(t))
\* The share is set before the calls: with a draw on each side of 50, later
\* changes of it would allow nothing new.  Nor would a restart of Go behind the
\* gateway, which sees no more of it than of a connection that breaks.
CutoverNext ==
  /\ Servers
  /\ \/ deployment = "cutover" /\ made = 0 /\ \E p \in Percents : SetGoPercent(p)
     \/ deployment = "dual_write" /\ ForgetMirrors /\ UNCHANGED <<serverVars, gatewayVars>>
GoNext ==
  \/ Servers /\ GoesOn
  \/ OnTerminal /\ MakeCall /\ \E i \in Inputs[deployment] : GoClient(i)
TuiNext ==
  /\ OnTerminal /\ TuiStep
  /\ deployment = "dashboard" => UNCHANGED <<clearTimers, auditTicks, running>>
  /\ deployment = "stream" => UNCHANGED <<search, rotations>>
  /\ UNCHANGED <<deployment, made, pythonVars, gatewayVars>>

Next == CallerNext \/ CutoverNext \/ GoNext \/ TuiNext

Spec == Init /\ [][Next]_vars

-----------------------------------------------------------------------------
TypeOK == made \in Nat /\ GoTypeOK /\ ShadowTypeOK /\ ServerTypeOK /\ GatewayTypeOK /\ TuiTypeOK

Requests == [agent : Agents, namespace : Namespaces, purpose : Purposes, action : Actions]

\* The engine decides as its docstring says: a deny overrides every allow,
\* wherever it stands, nothing is allowed without an allow, the rule it names
\* explains the decision, and an exact ttl wins over the less specific.
PolicyMeansReference ==
  deployment = "policy" =>
    /\ \A r \in Requests : DenyOverrides(policy, r) /\ RuleExplains(policy, r)
    /\ \A a \in Agents, c \in Actions : ExactTtlWins(policy, a, c)

\* While a call is under way something that no client does can go on.  Agents
\* hold the threads of a bounded pool while they wait for operators, whose own
\* calls need a thread of the same pool, and writers while they wait for the
\* Go server: they never all wait for each other.
CallsGoOn ==
  (\E t \in Clients : call[t].step # "idle") => ENABLED GoesOn
=============================================================================
