---------------------------- MODULE MCDeployment ----------------------------
\* Constant values for the run of Deployment.
EXTENDS Deployment

CONSTANTS c1, c2, c3, v1, v2

Plain == [ns |-> <<"a">>, name |-> <<"x">>]
Nested == [ns |-> <<"a", "b">>, name |-> <<"x">>]
Other == [ns |-> <<"a">>, name |-> <<"y">>]
MCNames == {Plain, Nested, Other}
MCOrder == << <<"x">>, <<"y">> >>
MCNamespace == <<"a">>
MCNamespaces == {<<"a">>}

Cred(token, bearer) == [token |-> token, bearer |-> bearer, cookie |-> FALSE]
AgentCred == Cred("agent", TRUE)
OperatorCred == Cred("operator", TRUE)
RawCred == Cred("agent", FALSE)
FormCred == [RawCred EXCEPT !.cookie = TRUE]
MCCredentials == {AgentCred, OperatorCred, RawCred, FormCred}

Input(op, s, v, cred) == [op |-> op, secret |-> s, value |-> v, cred |-> cred]
MCDeployments == {"dual_write", "cutover", "approval", "dashboard", "stream", "policy"}
MCMaxCalls == [d \in MCDeployments \ {"policy"} |-> IF d = "approval" THEN 3 ELSE 2]
MCPoolSizes == [dual_write |-> {2}, cutover |-> {1}, approval |-> {1, 2}]
MCPercents == {0 - 1, 50}
MCInputs ==
  [dual_write |-> {Input("set", Plain, v1, AgentCred), Input("set", Plain, v2, AgentCred),
                   Input("set", Other, v2, AgentCred), Input("revoke", Plain, Absent, AgentCred)},
   cutover |-> {Input("set", Plain, v1, AgentCred), Input("revoke", Plain, Absent, AgentCred)},
   approval |-> {Input("set", Plain, v1, AgentCred), Input("use", Plain, Absent, AgentCred),
                 Input("use", Plain, Absent, RawCred), Input("use", Plain, Absent, FormCred),
                 Input("approve", Plain, Absent, OperatorCred), Input("deny", Plain, Absent, AgentCred)},
   dashboard |-> {Input("set", s, v1, AgentCred) : s \in MCNames}
                 \cup {Input("delete", Plain, Absent, AgentCred)},
   stream |-> {Input("set", Plain, v1, AgentCred)}
              \cup {Input(op, Plain, Absent, AgentCred) : op \in {"delete", "use"}}]

\* Rules: an agent by name, by a glob and any; an action by name and any.
MCAgents == {c1, c2, c3}
MCActions == {"read", "write"}
Rule(effect, agent, action, ttl) ==
  [effect |-> effect, ttl |-> ttl,
   pattern |-> [agent |-> agent, action |-> action, namespace |-> Missing, purpose |-> Everything]]
MCRules ==
  {Rule(effect, agent, action, ttl) :
     effect \in {"allow", "deny"}, agent \in {{c1}, {c1, c2}, Missing},
     action \in {{"read"}, Everything}, ttl \in {60}}
  \cup {Rule("alow", {c1}, {"read"}, 60), Rule("allow", Everything, {"read"}, 0), Rule("allow", {c1}, Missing, NoTtl)}
Open == <<Rule("allow", Missing, Everything, NoTtl)>>
Strict == Append(Open, Rule("deny", {c2}, {"read", "write"}, NoTtl))
MCPolicies ==
  [d \in MCDeployments |-> CASE d = "policy" -> UNION {[1..n -> MCRules] : n \in 0..3}
                             [] d = "approval" -> {Open, Strict}
                             [] OTHER -> {Open}]

=============================================================================
