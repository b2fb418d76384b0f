------------------------------- MODULE Policy -------------------------------
(***************************************************************************)
(* The ABAC policy engine of python/auth.py.  A glob pattern is the set of  *)
(* the values it matches; an attribute that a rule does not name is         *)
(* Missing.  A policy is the sequence of its rules.                         *)
(***************************************************************************)
EXTENDS Integers, Sequences, Functions

CONSTANTS Missing, Everything   \* no pattern; the pattern "*"

IsPolicy(rules) == rules \in Seq(Range(rules)) /\ \A i \in DOMAIN rules : rules[i].ttl \in Int

Attributes == {"agent", "namespace", "purpose", "action"}

\* ABACPolicyEngine._matches: fnmatchcase of each attribute, "*" by default.
Matches(rule, request) ==
  \A a \in Attributes :
    \/ rule.pattern[a] \in {Missing, Everything}
    \/ /\ rule.pattern[a] \notin {Missing, Everything}
       /\ request[a] \in rule.pattern[a]

NoRule == [effect |-> "none"]

\* Mutant of Consider: the last rule that matches decides.
ConsiderLast(request, decision, rule) ==
  IF ~Matches(rule, request) \/ rule.effect \notin {"allow", "deny"} THEN decision
  ELSE [done |-> FALSE, allowed |-> rule.effect = "allow", rule |-> rule]

\* One turn of the loop in evaluate; `done` is its early return.
Consider(request, decision, rule) ==
  IF decision.done \/ ~Matches(rule, request) THEN decision
  ELSE CASE rule.effect = "deny"  -> [done |-> TRUE, allowed |-> FALSE, rule |-> rule]
         [] rule.effect = "allow" -> [done |-> FALSE, allowed |-> TRUE, rule |-> rule]
         [] OTHER -> decision

NoDecision == [done |-> FALSE, allowed |-> FALSE, rule |-> NoRule]

evaluate(rules, request) ==
  LET after[i \in 0..Len(rules)] ==
        IF i = 0 THEN NoDecision ELSE Consider(request, after[i - 1], rules[i])
  IN  after[Len(rules)]

\* get_lease_ttl compares patterns as text: only the value itself, "*" and,
\* for the agent, a missing pattern make a candidate.
Candidate(rule, agent, capability) ==
  /\ rule.pattern["action"] \in {{capability}, Everything}
  /\ rule.pattern["agent"] \in {{agent}, Everything, Missing}

\* The key of the sort: an exact agent first, then an exact action.
Rank(rule, agent, capability) ==
  (IF rule.pattern["agent"] = {agent} THEN 0 ELSE 2)
  + (IF rule.pattern["action"] = {capability} THEN 0 ELSE 1)

DefaultTtl == 300
NoTtl == -1    \* a rule without a ttl, or with one that is no number

Candidates(rules, agent, capability) ==
  {i \in DOMAIN rules : Candidate(rules[i], agent, capability)}

\* list.sort is stable: the first of the lowest rank.
Foremost(rules, agent, capability) ==
  CHOOSE i \in Candidates(rules, agent, capability) :
    \A j \in Candidates(rules, agent, capability) :
      LET ri == Rank(rules[i], agent, capability)
          rj == Rank(rules[j], agent, capability)
      IN ri < rj \/ (ri = rj /\ i <= j)

get_lease_ttl(rules, agent, capability) ==
  LET ttl == rules[Foremost(rules, agent, capability)].ttl
  IN IF Candidates(rules, agent, capability) = {} \/ ttl = NoTtl THEN DefaultTtl
     ELSE IF ttl < 1 THEN 1 ELSE ttl

-----------------------------------------------------------------------------
(* What they promise.                                                       *)

Named(rules, effect, request) ==
  {i \in DOMAIN rules : rules[i].effect = effect /\ Matches(rules[i], request)}

\* "Explicit deny ALWAYS takes precedence over allow", whatever the order,
\* and nothing is allowed that no rule allows.
DenyOverrides(rules, request) ==
  evaluate(rules, request).allowed
    <=> Named(rules, "deny", request) = {} /\ Named(rules, "allow", request) # {}

\* The rule a decision names is one that was matched and has its effect, and
\* is the one that explains it: without it the decision may be another.
RuleExplains(rules, request) ==
  LET decision == evaluate(rules, request) IN
  IF decision.rule = NoRule THEN ~decision.allowed
  ELSE /\ Matches(decision.rule, request)
       /\ decision.allowed = (decision.rule.effect = "allow")

\* A ttl that a rule states for exactly this agent and capability holds
\* whatever less specific rules come before it.
ExactTtlWins(rules, agent, capability) ==
  LET exact == {i \in Candidates(rules, agent, capability) : Rank(rules[i], agent, capability) = 0}
  IN \A i \in exact :
       (\A j \in exact : rules[j].ttl = rules[i].ttl) /\ rules[i].ttl > 0
         => get_lease_ttl(rules, agent, capability) = rules[i].ttl
=============================================================================
