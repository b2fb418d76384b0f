------------------------- MODULE ApprovalBrokerProofs -------------------------
(***************************************************************************)
(* Proofs about ApprovalBroker, for any number of agents, requests,         *)
(* versions, restarts and any clock: what an operator answers is what the   *)
(* agent gets, and a flagged request costs a code of its own.               *)
(***************************************************************************)
EXTENDS ApprovalBroker, SequenceTheorems, TLAPS

\* An agent inside lease_secret has a request, and shares it with nobody.
Owners ==
  /\ \A a \in Agents : pc[a] # "idle" => req[a] \in Requests
  /\ \A a, b \in Agents : pc[a] # "idle" /\ pc[b] # "idle" /\ req[a] = req[b] => a = b

\* A request has no outcome before its agent collects one, and is listed no
\* longer afterwards.
Answers ==
  /\ \A a \in Agents : pc[a] \in {"register", "wait", "collect"} => outcome[req[a]] = "none"
  /\ \A a \in Agents : pc[a] \in {"read", "leased"} => outcome[req[a]] = "allow"
  /\ \A id \in pending : outcome[id] = "none"

\* The codes this run of the server accepted are not later than _last_counter,
\* and an approval of a flagged request has one.
Spendings ==
  /\ \A s \in spent : s.run <= restarts /\ (s.run = restarts => s.code <= last)
  /\ \A id \in Requests : needs[id] /\ decision[id] = "allow" => ApprovedByCode(id)

IInv ==
  /\ TypeOK /\ Owners /\ Answers /\ Spendings
  /\ ListedIffWaiting /\ DecisionHonored /\ OneCodeOneApproval

-----------------------------------------------------------------------------
USE ApprovalBrokerAssumption DEF vars, secret, leases, broker, verifier

\* A new request has no decision yet, the others keep theirs.
LEMMA AppendUndecided ==
  ASSUME NEW f \in Seq(Decisions)
  PROVE  /\ Append(f, "none") \in [1..(Len(f) + 1) -> Decisions]
         /\ Append(f, "none")[Len(f) + 1] = "none"
         /\ \A i \in 1..Len(f) : Append(f, "none")[i] = f[i]
<1>1. /\ "none" \in Decisions
  BY DEF Decisions
<1>2. /\ Append(f, "none") \in Seq(Decisions) /\ Len(Append(f, "none")) = Len(f) + 1
      /\ Append(f, "none")[Len(f) + 1] = "none"
      /\ \A i \in 1..Len(f) : Append(f, "none")[i] = f[i]
  BY <1>1, AppendProperties
<1> QED BY <1>2, LenProperties

\* A request of an agent that does not wait is on nobody's list.
LEMMA NotListed ==
  ASSUME IInv, NEW a \in Agents, pc[a] \in {"register", "read", "leased"}
  PROVE  req[a] \notin pending
<1> SUFFICES ASSUME req[a] \in pending PROVE FALSE
  OBVIOUS
<1>1. PICK b \in Agents : pc[b] \in {"wait", "collect"} /\ req[b] = req[a]
  BY DEF IInv, ListedIffWaiting
<1>2. a = b
  BY <1>1 DEF IInv, Owners
<1> QED BY <1>1, <1>2

\* An agent that leaves keeps nothing; the others keep what they have.
LEMMA LeaveTypes ==
  ASSUME TypeOK, NEW a \in Agents, Leave(a)
  PROVE  /\ pc' = [pc EXCEPT ![a] = "idle"] /\ pc'[a] = "idle"
         /\ want' \in [Agents -> Nat] /\ got' \in [Agents -> Nat] /\ req' \in [Agents -> Nat]
         /\ \A b \in Agents : pc'[b] # "idle" => req'[b] = req[b]
BY DEF Leave, TypeOK

THEOREM IInvInit == Init => IInv
<1> SUFFICES ASSUME Init PROVE IInv
  OBVIOUS
<1>1. Requests = {} /\ Window \in Window..MaxClock
  BY DEF Init, Requests
<1>2. \A S : <<>> \in Seq(S) /\ <<>> \in [{} -> S]
  OBVIOUS
<1>3. needs \in Seq(BOOLEAN) /\ decision \in [Requests -> Decisions]
      /\ outcome \in [Requests -> Decisions]
  BY <1>1, <1>2, Zenon DEF Init
<1>4. TypeOK
  BY <1>1, <1>2, <1>3 DEF Init, TypeOK
<1> QED BY <1>1, <1>4 DEF Init, IInv, Owners, Answers, Spendings, ListedIffWaiting,
                          DecisionHonored, OneCodeOneApproval

\* When requests and answers stay, so does what is said of them.
LEMMA IInvStep == IInv /\ [Next]_vars => IInv'
<1> SUFFICES ASSUME IInv, [Next]_vars PROVE IInv'
  OBVIOUS
<1> USE DEF Requests
<1>1. CASE UNCHANGED vars
  BY <1>1 DEF IInv, TypeOK, Owners, Answers, Spendings, ListedIffWaiting, DecisionHonored,
              OneCodeOneApproval, ApprovedByCode
<1>2. CASE SetSecret \/ RevokeSecret
  <2>1. flags' \in Seq(BOOLEAN) /\ revoked' \in BOOLEAN
    <3>1. flags \in Seq(BOOLEAN)
      BY DEF IInv, TypeOK
    <3>2. \A flag \in BOOLEAN : Append(flags, flag) \in Seq(BOOLEAN)
      BY <3>1, AppendProperties, Zenon
    <3> QED BY <1>2, <3>1, <3>2, Zenon DEF SetSecret, RevokeSecret
  <2>2. UNCHANGED <<leases, broker, verifier>>
    BY <1>2 DEF SetSecret, RevokeSecret
  <2> QED BY <2>1, <2>2 DEF IInv, TypeOK, Owners, Answers, Spendings, ListedIffWaiting,
                            DecisionHonored, OneCodeOneApproval, ApprovedByCode
<1>3. CASE Tick
  <2>1. clock' \in Window..MaxClock
    BY <1>3 DEF Tick
  <2>2. UNCHANGED <<secret, leases, broker, last, restarts, spent>>
    BY <1>3 DEF Tick
  <2> QED BY <2>1, <2>2 DEF IInv, TypeOK, Owners, Answers, Spendings, ListedIffWaiting,
                            DecisionHonored, OneCodeOneApproval, ApprovedByCode
<1>4. CASE Restart
  <2>1. /\ pc' = [a \in Agents |-> "idle"] /\ pending' = {} /\ last' = -1
        /\ restarts' = restarts + 1
    BY <1>4 DEF Restart
  <2>2. UNCHANGED <<secret, needs, decision, outcome, clock, spent>>
    BY <1>4 DEF Restart
  <2>3. TypeOK'
    BY <1>4, <2>1, <2>2 DEF Restart, IInv, TypeOK
  <2>4. Spendings'
    BY <2>1, <2>2 DEF IInv, TypeOK, Spendings, ApprovedByCode
  <2> QED BY <2>1, <2>2, <2>3, <2>4 DEF IInv, Owners, Answers, ListedIffWaiting,
                                        DecisionHonored, OneCodeOneApproval
<1>5. ASSUME NEW a \in Agents, Ask(a) PROVE IInv'
  <2> DEFINE n == Len(needs)
  <2>1. n \in Nat /\ Len(needs') = n + 1 /\ needs' \in Seq(BOOLEAN)
        /\ \A i \in 1..n : needs'[i] = needs[i]
    <3>1. Requires2fa \in BOOLEAN
      BY DEF Requires2fa
    <3>2. needs \in Seq(BOOLEAN) /\ needs' = Append(needs, Requires2fa)
      BY <1>5 DEF Ask, IInv, TypeOK
    <3> QED BY <3>1, <3>2, AppendProperties, LenProperties
  <2>2. /\ decision' \in [1..(n + 1) -> Decisions] /\ decision'[n + 1] = "none"
        /\ \A i \in 1..n : decision'[i] = decision[i]
    <3>1. decision \in [1..n -> Decisions] /\ decision' = Append(decision, "none")
      BY <1>5 DEF Ask, IInv, TypeOK
    <3>2. decision \in Seq(Decisions) /\ Len(decision) = n
      BY <2>1, <3>1
    <3> HIDE DEF n
    <3> QED BY <3>1, <3>2, AppendUndecided
  <2>3. /\ outcome' \in [1..(n + 1) -> Decisions] /\ outcome'[n + 1] = "none"
        /\ \A i \in 1..n : outcome'[i] = outcome[i]
    <3>1. outcome \in [1..n -> Decisions] /\ outcome' = Append(outcome, "none")
      BY <1>5 DEF Ask, IInv, TypeOK
    <3>2. outcome \in Seq(Decisions) /\ Len(outcome) = n
      BY <2>1, <3>1
    <3> HIDE DEF n
    <3> QED BY <3>1, <3>2, AppendUndecided
  <2>4. /\ pc[a] = "idle" /\ pc' = [pc EXCEPT ![a] = "register"]
        /\ req' = [req EXCEPT ![a] = n + 1]
        /\ UNCHANGED <<secret, got, pending, verifier>>
    BY <1>5 DEF Ask, NewRequest
  <2>5. want' \in [Agents -> Nat]
    BY <1>5 DEF Ask, IInv, TypeOK, Versions
  <2>6. TypeOK'
    <3>1. pending' \subseteq Requests' /\ spent' \subseteq [id : Requests', code : Codes, run : Nat]
      BY <2>1, <2>4 DEF IInv, TypeOK
    <3>2. /\ pc' \in [Agents -> {"idle", "register", "wait", "collect", "read", "leased"}]
          /\ req' \in [Agents -> Nat]
      BY <2>1, <2>4 DEF IInv, TypeOK
    <3> QED BY <2>1, <2>2, <2>3, <2>4, <2>5, <3>1, <3>2 DEF IInv, TypeOK
  <2>7. Owners'
    BY <2>1, <2>4 DEF IInv, TypeOK, Owners
  <2>8. Answers'
    BY <2>1, <2>3, <2>4 DEF IInv, TypeOK, Owners, Answers
  <2>9. Spendings'
    <3>1. \A i \in Requests' : i = n + 1 \/ i \in 1..n
      BY <2>1
    <3> QED BY <2>1, <2>2, <2>4, <3>1 DEF IInv, Spendings, ApprovedByCode
  <2>10. ListedIffWaiting'
    BY <2>4 DEF IInv, TypeOK, ListedIffWaiting
  <2>11. DecisionHonored' /\ OneCodeOneApproval'
    BY <2>1, <2>2, <2>3, <2>4 DEF IInv, DecisionHonored, OneCodeOneApproval
  <2> QED BY <2>6, <2>7, <2>8, <2>9, <2>10, <2>11 DEF IInv
<1>6. ASSUME NEW a \in Agents, Register(a) \/ Wake(a) PROVE IInv'
  <2>1. /\ pc[a] \in {"register", "wait"} /\ \E s \in {"wait", "collect"} : pc' = [pc EXCEPT ![a] = s]
        /\ pending' = pending \union {req[a]}
        /\ UNCHANGED <<secret, want, req, got, needs, decision, outcome, verifier>>
    BY <1>6 DEF Register, Wake, IInv, ListedIffWaiting
  <2>2. TypeOK'
    BY <2>1 DEF IInv, TypeOK, Owners
  <2>4. Owners'
    BY <2>1 DEF IInv, TypeOK, Owners
  <2>5. Answers'
    BY <2>1 DEF IInv, TypeOK, Answers
  <2>3. ListedIffWaiting'
    BY <2>1 DEF IInv, TypeOK, ListedIffWaiting
  <2> QED BY <2>1, <2>2, <2>3, <2>4, <2>5 DEF IInv, Spendings, DecisionHonored,
                                              OneCodeOneApproval, ApprovedByCode
<1>7. ASSUME NEW a \in Agents, Collect(a) PROVE IInv'
  <2> DEFINE id == req[a]
             answer == IF decision[id] = "allow" THEN "allow" ELSE "deny"
  <2>1. /\ pc[a] = "collect" /\ id \in Requests
        /\ pending' = pending \ {id} /\ outcome' = [outcome EXCEPT ![id] = answer]
        /\ pc' = [pc EXCEPT ![a] = IF answer = "allow" THEN "read" ELSE "idle"]
        /\ UNCHANGED <<secret, needs, decision, verifier>>
    BY <1>7 DEF Collect, Resume, Leave, IInv, Owners
  <2>2. /\ want' \in [Agents -> Nat] /\ got' \in [Agents -> Nat] /\ req' \in [Agents -> Nat]
        /\ \A b \in Agents : pc'[b] # "idle" => req'[b] = req[b]
    BY <1>7, LeaveTypes DEF Collect, Resume, IInv, TypeOK
  <2>3. TypeOK'
    BY <2>1, <2>2 DEF IInv, TypeOK, Decisions
  <2>4. Owners'
    BY <2>1, <2>2 DEF IInv, TypeOK, Owners
  <2>8. \A b \in Agents : pc'[b] # "idle" /\ b # a => pc'[b] = pc[b] /\ req[b] # id
    BY <2>1 DEF IInv, TypeOK, Owners
  <2>9. outcome'[id] = answer /\ \A i \in Requests : i # id => outcome'[i] = outcome[i]
    BY <2>1 DEF IInv, TypeOK
  <2>5. Answers'
    <3>1. \A b \in Agents : b # a /\ pc'[b] # "idle" =>
            /\ req'[b] = req[b] /\ pc'[b] = pc[b] /\ outcome'[req[b]] = outcome[req[b]]
      BY <2>2, <2>8, <2>9 DEF IInv, Owners
    <3>2. pc'[a] \in {"read", "idle"} /\ (pc'[a] = "read" => outcome'[req'[a]] = "allow")
      BY <2>1, <2>2, <2>9 DEF IInv, TypeOK
    <3>3. \A i \in pending' : outcome'[i] = "none"
      BY <2>1, <2>9 DEF IInv, TypeOK, Answers
    <3> QED BY <3>1, <3>2, <3>3 DEF IInv, Answers
  <2>6. ListedIffWaiting'
    <3>1. pc'[a] \in {"read", "idle"} /\ req[a] = id /\ pc[a] = "collect"
      BY <2>1 DEF IInv, TypeOK
    <3>2. \A b \in Agents : b # a => pc'[b] = pc[b]
      BY <2>1 DEF IInv, TypeOK
    <3>3. ASSUME NEW i PROVE i \in pending' <=>
            \E b \in Agents : pc'[b] \in {"wait", "collect"} /\ i = req'[b]
      <4>1. i \in pending <=> \E b \in Agents : pc[b] \in {"wait", "collect"} /\ i = req[b]
        BY DEF IInv, ListedIffWaiting
      <4>2. i \in pending' <=> i \in pending /\ i # id
        BY <2>1
      <4>3. \A b \in Agents : pc'[b] \in {"wait", "collect"} =>
              b # a /\ pc[b] = pc'[b] /\ req'[b] = req[b] /\ req[b] # id
        BY <2>2, <2>8, <3>1
      <4>4. \A b \in Agents : b # a /\ pc[b] \in {"wait", "collect"} =>
              pc'[b] = pc[b] /\ req'[b] = req[b]
        BY <2>2, <3>2
      <4> QED BY <3>1, <4>1, <4>2, <4>3, <4>4
    <3> QED BY <3>3 DEF ListedIffWaiting
  <2>7. DecisionHonored'
    BY <2>1 DEF IInv, TypeOK, DecisionHonored
  <2> QED BY <2>1, <2>3, <2>4, <2>5, <2>6, <2>7 DEF IInv, Spendings, OneCodeOneApproval,
                                                    ApprovedByCode
<1>8. ASSUME NEW a \in Agents, Read(a) \/ EndLease(a) PROVE IInv'
  <2>1. /\ pc[a] \in {"read", "leased"} /\ \E s \in {"leased", "idle"} : pc' = [pc EXCEPT ![a] = s]
        /\ UNCHANGED <<secret, broker, verifier>>
    BY <1>8 DEF Read, EndLease, Leave
  <2>2. /\ want' \in [Agents -> Nat] /\ got' \in [Agents -> Nat] /\ req' \in [Agents -> Nat]
        /\ \A b \in Agents : pc'[b] # "idle" => req'[b] = req[b]
    <3>1. Active \in Nat
      BY LenProperties DEF Active, IInv, TypeOK
    <3>2. CASE Leave(a)
      BY <3>2, LeaveTypes DEF IInv
    <3>3. CASE ~Leave(a)
      BY <1>8, <3>1, <3>3 DEF Read, EndLease, IInv, TypeOK
    <3> QED BY <3>2, <3>3
  <2>5. /\ pc' \in [Agents -> {"idle", "register", "wait", "collect", "read", "leased"}]
        /\ pc'[a] \in {"idle", "leased"}
        /\ \A b \in Agents : b # a => pc'[b] = pc[b]
    BY <2>1 DEF IInv, TypeOK
  <2>3. TypeOK' /\ Owners' /\ Answers'
    <3>1. TypeOK'
      BY <2>1, <2>2, <2>5 DEF IInv, TypeOK
    <3>2. \A b \in Agents : pc'[b] # "idle" => pc[b] # "idle" /\ req'[b] = req[b]
      BY <2>1, <2>2, <2>5
    <3>3. Owners'
      BY <2>1, <3>2 DEF IInv, Owners
    <3>4. Answers'
      BY <2>1, <2>5, <3>2 DEF IInv, Answers
    <3> QED BY <3>1, <3>3, <3>4
  <2>4. ListedIffWaiting'
    <3>1. \A b \in Agents :
            /\ pc'[b] \in {"wait", "collect"} <=> pc[b] \in {"wait", "collect"}
            /\ pc[b] \in {"wait", "collect"} => req'[b] = req[b]
      BY <2>1, <2>2, <2>5
    <3> QED BY <2>1, <3>1 DEF IInv, ListedIffWaiting
  <2> QED BY <2>1, <2>3, <2>4 DEF IInv, Spendings, DecisionHonored, OneCodeOneApproval,
                                  ApprovedByCode
<1>9. ASSUME NEW id \in Requests, Deny(id) PROVE IInv'
  <2>1. /\ id \in pending /\ decision' = [decision EXCEPT ![id] = "deny"]
        /\ UNCHANGED <<secret, leases, needs, pending, outcome, verifier>>
    BY <1>9 DEF Deny
  <2>2. TypeOK' /\ Spendings'
    BY <2>1 DEF IInv, TypeOK, Spendings, ApprovedByCode, Decisions
  <2>3. DecisionHonored'
    BY <2>1 DEF IInv, TypeOK, Answers, DecisionHonored
  <2> QED BY <2>1, <2>2, <2>3 DEF IInv, Owners, Answers, ListedIffWaiting, OneCodeOneApproval
<1>10. ASSUME NEW id \in Requests, NEW code \in Codes \union {NoCode}, Approve(id, code)
       PROVE  IInv'
  <2>1. /\ id \in pending /\ decision' = [decision EXCEPT ![id] = "allow"]
        /\ UNCHANGED <<secret, leases, needs, pending, outcome, clock, restarts>>
    BY <1>10 DEF Approve
  <2>2. DecisionHonored'
    BY <2>1 DEF IInv, TypeOK, Answers, DecisionHonored
  <2>3. CASE needs[id]
    <3> DEFINE s == [id |-> id, code |-> code, run |-> restarts]
    <3>1. code \in Codes /\ code > last /\ last' = code /\ spent' = spent \union {s}
      BY <1>10, <2>3 DEF Approve, Authorised, Accepts
    <3>2. TypeOK'
      BY <2>1, <3>1 DEF IInv, TypeOK, Decisions
    <3>3. Codes \subseteq Int /\ last \in Int /\ restarts \in Nat
      BY DEF IInv, TypeOK, Codes
    <3>4. \A u \in spent : /\ u.run \in Nat /\ u.code \in Int /\ u.run <= restarts
                           /\ u.run = restarts => u.code < code
      <4>1. \A u \in spent : u.run \in Nat /\ u.code \in Int
        BY <3>3 DEF IInv, TypeOK
      <4> QED BY <3>1, <3>3, <4>1 DEF IInv, Spendings
    <3>5. OneCodeOneApproval'
      BY <3>1, <3>3, <3>4 DEF IInv, OneCodeOneApproval
    <3>6. Spendings'
      <4>1. \A u \in spent' : u.run <= restarts /\ (u.run = restarts => u.code <= code)
        BY <3>1, <3>3, <3>4
      <4>2. \A i \in Requests : needs[i] /\ decision'[i] = "allow" => ApprovedByCode(i)'
        <5>1. ASSUME NEW i \in Requests, i # id, needs[i], decision'[i] = "allow"
              PROVE  ApprovedByCode(i)'
          <6>1. decision[i] = "allow"
            BY <2>1, <5>1 DEF IInv, TypeOK
          <6>2. PICK u \in spent : u.id = i
            BY <5>1, <6>1 DEF IInv, Spendings, ApprovedByCode
          <6> QED BY <3>1, <6>2 DEF ApprovedByCode
        <5>2. ApprovedByCode(id)'
          <6>1. s \in spent' /\ s.id = id
            BY <3>1
          <6> QED BY <6>1, Zenon DEF ApprovedByCode
        <5> QED BY <5>1, <5>2
      <4> QED BY <2>1, <3>1, <4>1, <4>2 DEF Spendings
    <3> QED BY <2>1, <2>2, <3>2, <3>5, <3>6 DEF IInv, Owners, Answers, ListedIffWaiting
  <2>4. CASE ~needs[id]
    <3>1. UNCHANGED <<last, spent>>
      BY <1>10, <2>4 DEF Approve
    <3>2. TypeOK' /\ Spendings'
      BY <2>1, <2>4, <3>1 DEF IInv, TypeOK, Spendings, ApprovedByCode, Decisions
    <3> QED BY <2>1, <2>2, <3>1, <3>2 DEF IInv, Owners, Answers, ListedIffWaiting,
                                          OneCodeOneApproval
  <2> QED BY <2>3, <2>4
<1> QED BY <1>1, <1>2, <1>3, <1>4, <1>5, <1>6, <1>7, <1>8, <1>9, <1>10 DEF Next, Lease

LEMMA IInvHolds == Spec => []IInv
BY IInvInit, IInvStep, PTL DEF Spec

-----------------------------------------------------------------------------
(***************************************************************************)
(* Theorems.                                                               *)
(***************************************************************************)

\* Every variable of the broker, the leases and the verifier keeps its type.
THEOREM TypeCorrect == Spec => []TypeOK
BY IInvHolds, PTL DEF IInv

\* The ReplayGuardedVerifier's promise while a server runs: no code approves
\* two requests, however clocks, operators and agents interleave.
THEOREM OneCodeCorrect == Spec => []OneCodeOneApproval
BY IInvHolds, PTL DEF IInv

\* consult returns the answer the operators were told is recorded, or a denial
\* if there is none.
THEOREM HonoredCorrect == Spec => []DecisionHonored
BY IInvHolds, PTL DEF IInv

\* No request is forgotten in _pending, and none that waits is missing.
THEOREM ListedCorrect == Spec => []ListedIffWaiting
BY IInvHolds, PTL DEF IInv

\* A lease whose request asked for a second factor has an approval by a code.
THEOREM FlaggedCorrect == Spec => []FlaggedNeedsCode
<1>1. IInv => FlaggedNeedsCode
  <2> SUFFICES ASSUME IInv, NEW a \in Agents, pc[a] \in {"read", "leased"}, needs[req[a]]
               PROVE  ApprovedByCode(req[a])
    BY DEF FlaggedNeedsCode
  <2>1. req[a] \in Requests /\ outcome[req[a]] = "allow"
    BY DEF IInv, Owners, Answers
  <2>2. decision[req[a]] = "allow"
    BY <2>1 DEF IInv, DecisionHonored
  <2> QED BY <2>1, <2>2 DEF IInv, Spendings
<1> QED BY <1>1, IInvHolds, PTL

-----------------------------------------------------------------------------
(***************************************************************************)
(* Every wait ends.  Weak fairness promises a step only while it is         *)
(* ENABLED, which the provers take as an unknown: Schedulable says of it     *)
(* what these steps need, and the theorem has it as a hypothesis.           *)
(***************************************************************************)

Registering(a) == pc[a] = "register"
Waiting(a)     == pc[a] = "wait"
Collecting(a)  == pc[a] = "collect"
Ended(a)       == pc[a] \in {"idle", "read"}

\* What ENABLED means for these steps: each can be taken whenever the agent has
\* come to it, for it waits for nobody.
GuardsSuffice(a) ==
  /\ Registering(a) => ENABLED <<Register(a)>>_vars
  /\ Waiting(a) => ENABLED <<Wake(a)>>_vars
  /\ Collecting(a) => ENABLED <<Collect(a)>>_vars

Schedulable == \A a \in Agents : GuardsSuffice(a)

Ends(a) == Registering(a) ~> Ended(a)

\* Whatever others do, the agent stays where it is, goes on, or is restarted.
LEMMA ConsultStays ==
  ASSUME NEW a \in Agents, TypeOK, [Next]_vars
  PROVE  /\ Registering(a) => Registering(a)' \/ Waiting(a)' \/ Ended(a)'
         /\ Waiting(a) => Waiting(a)' \/ Collecting(a)' \/ Ended(a)'
         /\ Collecting(a) => Collecting(a)' \/ Ended(a)'
BY DEF TypeOK, Next, Lease, SetSecret, RevokeSecret, Tick, Restart, Ask, Register, Wake, Collect,
       Resume, Leave, Read, EndLease, Deny, Approve, Registering, Waiting, Collecting, Ended

LEMMA ConsultGoes ==
  ASSUME NEW a \in Agents, TypeOK
  PROVE  /\ Registering(a) /\ <<Register(a)>>_vars => Waiting(a)'
         /\ Waiting(a) /\ <<Wake(a)>>_vars => Collecting(a)'
         /\ Collecting(a) /\ <<Collect(a)>>_vars => Ended(a)'
BY DEF TypeOK, Register, Wake, Collect, Resume, Leave, Registering, Waiting, Collecting, Ended

LEMMA Registers ==
  ASSUME NEW a \in Agents
  PROVE  Spec /\ Fair(a) /\ []GuardsSuffice(a) => (Registering(a) ~> Waiting(a) \/ Ended(a))
<1>1. TypeOK /\ Registering(a) /\ [Next]_vars => Registering(a)' \/ Waiting(a)' \/ Ended(a)'
  BY ConsultStays
<1>2. TypeOK /\ Registering(a) /\ <<Register(a)>>_vars => Waiting(a)'
  BY ConsultGoes
<1> QED BY <1>1, <1>2, TypeCorrect, PTL DEF Spec, Fair, GuardsSuffice

LEMMA Wakes ==
  ASSUME NEW a \in Agents
  PROVE  Spec /\ Fair(a) /\ []GuardsSuffice(a) => (Waiting(a) ~> Collecting(a) \/ Ended(a))
<1>1. TypeOK /\ Waiting(a) /\ [Next]_vars => Waiting(a)' \/ Collecting(a)' \/ Ended(a)'
  BY ConsultStays
<1>2. TypeOK /\ Waiting(a) /\ <<Wake(a)>>_vars => Collecting(a)'
  BY ConsultGoes
<1> QED BY <1>1, <1>2, TypeCorrect, PTL DEF Spec, Fair, GuardsSuffice

LEMMA Collects ==
  ASSUME NEW a \in Agents
  PROVE  Spec /\ Fair(a) /\ []GuardsSuffice(a) => (Collecting(a) ~> Ended(a))
<1>1. TypeOK /\ Collecting(a) /\ [Next]_vars => Collecting(a)' \/ Ended(a)'
  BY ConsultStays
<1>2. TypeOK /\ Collecting(a) /\ <<Collect(a)>>_vars => Ended(a)'
  BY ConsultGoes
<1> QED BY <1>1, <1>2, TypeCorrect, PTL DEF Spec, Fair, GuardsSuffice

LEMMA EndsFor ==
  ASSUME NEW a \in Agents
  PROVE  FairSpec /\ []Schedulable => Ends(a)
<1>1. Fairness => Fair(a)
  BY Zenon DEF Fairness
<1>2. Schedulable => GuardsSuffice(a)
  BY Zenon DEF Schedulable
<1> QED BY <1>1, <1>2, Registers, Wakes, Collects, PTL DEF FairSpec, Ends

\* No agent waits for ever on operators that do not answer: every call of
\* consult ends, with a decision or without, or with its server.
THEOREM ConsultCorrect == FairSpec /\ []Schedulable => ConsultEnds
<1>1. (\A a \in Agents : Ends(a)) => ConsultEnds
  BY DEF ConsultEnds, Ends, Registering, Ended
<1>2. ASSUME NEW a \in Agents PROVE FairSpec /\ []Schedulable => Ends(a)
  BY EndsFor
<1> QED BY <1>1, <1>2

=============================================================================
