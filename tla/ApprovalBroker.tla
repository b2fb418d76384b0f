---------------------------- MODULE ApprovalBroker ----------------------------
(***************************************************************************)
(* A human decides which leases of a secret go ahead: VaultManager's        *)
(* lease_secret (python/vault.py) parks each one with the ApprovalBroker    *)
(* (python/approval.py), operators approve or deny it from other threads,   *)
(* and a request for a secret flagged require_2fa is approved with a code   *)
(* that the ReplayGuardedVerifier (python/totp.py) has not accepted before. *)
(*                                                                         *)
(* A lease is modelled from the point where hook, rate limiter, honeytokens *)
(* and policy have let it through.  One secret is enough: requests for      *)
(* different secrets share nothing but the verifier.  The code of a time    *)
(* step is the step's counter (two steps have different codes); other       *)
(* digits are never accepted.                                               *)
(***************************************************************************)
EXTENDS Integers, Sequences

CONSTANTS
  Agents,        \* threads that lease the secret
  HasVerifier,   \* whether the server was given a totp_verifier
  Window,        \* time steps of clock skew the verifier allows
  MaxClock,      \* bound: the last time step
  MaxRequests,   \* bound: leases asked for
  MaxVersions,   \* bound: versions stored
  MaxRestarts    \* bound: restarts of the server

ASSUME ApprovalBrokerAssumption ==
  /\ HasVerifier \in BOOLEAN /\ Window \in Nat
  /\ MaxClock \in Nat /\ MaxClock >= Window
  /\ MaxRequests \in Nat /\ MaxVersions \in Nat /\ MaxRestarts \in Nat

VARIABLES
  flags,      \* version -> its row's require_2fa
  revoked,    \* whether the last version is REVOKED; if not it is ACTIVE
  pc,         \* agent -> the step of lease_secret it takes next
  want,       \* agent -> the version it asks for, 0 for the ACTIVE one
  req,        \* agent -> the id of its request, 0 if it has none
  got,        \* agent -> the version whose plaintext it holds, 0 if none
  needs,      \* request -> ApprovalRequest.require_2fa; ids are 1, 2, ...
  pending,    \* the requests in _pending
  decision,   \* request -> _Pending.decision
  outcome,    \* history: request -> what consult returned, "none" before
  clock,      \* the time step of time.time()
  last,       \* _last_counter
  restarts,
  spent       \* history: who was approved by which code, in which run of the server

secret   == <<flags, revoked>>
leases   == <<pc, want, req, got>>
broker   == <<needs, pending, decision, outcome>>
verifier == <<clock, last, restarts, spent>>
vars     == <<secret, leases, broker, verifier>>

Requests  == 1..Len(needs)
Versions  == 1..Len(flags)
Active    == IF flags = <<>> \/ revoked THEN 0 ELSE Len(flags)
Codes     == 0..(MaxClock + Window)
NoCode    == -1
Decisions == {"none", "allow", "deny"}

TypeOK ==
  /\ flags \in Seq(BOOLEAN) /\ revoked \in BOOLEAN
  /\ pc \in [Agents -> {"idle", "register", "wait", "collect", "read", "leased"}]
  /\ want \in [Agents -> Nat] /\ req \in [Agents -> Nat] /\ got \in [Agents -> Nat]
  /\ needs \in Seq(BOOLEAN)
  /\ pending \subseteq Requests
  /\ decision \in [Requests -> Decisions] /\ outcome \in [Requests -> Decisions]
  /\ clock \in Window..MaxClock /\ last \in Codes \union {-1} /\ restarts \in Nat
  /\ spent \subseteq [id : Requests, code : Codes, run : Nat]

Init ==
  /\ flags = <<>> /\ revoked = FALSE
  /\ pc = [a \in Agents |-> "idle"]
  /\ want = [a \in Agents |-> 0] /\ req = [a \in Agents |-> 0] /\ got = [a \in Agents |-> 0]
  /\ needs = <<>> /\ pending = {} /\ decision = <<>> /\ outcome = <<>>
  /\ clock = Window /\ last = -1 /\ restarts = 0 /\ spent = {}

-----------------------------------------------------------------------------
(***************************************************************************)
(* The secret, as other callers change it.                                 *)
(***************************************************************************)

\* set_secret: a new ACTIVE version, flagged or not.
SetSecret ==
  /\ Len(flags) < MaxVersions
  /\ \E flag \in BOOLEAN : flags' = Append(flags, flag)
  /\ revoked' = FALSE
  /\ UNCHANGED <<leases, broker, verifier>>

\* revoke_secret.
RevokeSecret ==
  /\ Active # 0
  /\ revoked' = TRUE
  /\ UNCHANGED <<flags, leases, broker, verifier>>

-----------------------------------------------------------------------------
(***************************************************************************)
(* The agent's thread.                                                     *)
(***************************************************************************)

\* requires_2fa: the flag of the ACTIVE row, FALSE if there is none.
Requires2fa == Active # 0 /\ flags[Active]

\* Lets go of the request, and of the buffer.
Leave(a) ==
  /\ pc' = [pc EXCEPT ![a] = "idle"]
  /\ want' = [want EXCEPT ![a] = 0]
  /\ req' = [req EXCEPT ![a] = 0]
  /\ got' = [got EXCEPT ![a] = 0]

\* Mutant: ids start from 0.
NewRequestFromZero == Len(needs)

\* request_id: an id of its own for every request (a uuid4).
NewRequest == Len(needs) + 1

\* lease_secret as far as the ApprovalRequest, whose require_2fa is read here.
Ask(a) ==
  /\ pc[a] = "idle" /\ Len(needs) < MaxRequests
  /\ needs' = Append(needs, Requires2fa)
  /\ decision' = Append(decision, "none") /\ outcome' = Append(outcome, "none")
  /\ pc' = [pc EXCEPT ![a] = "register"]
  /\ \E v \in Versions \union {0} : want' = [want EXCEPT ![a] = v]
  /\ req' = [req EXCEPT ![a] = NewRequest]
  /\ UNCHANGED <<secret, got, pending, verifier>>

\* consult enters the request in _pending and waits.
Register(a) ==
  /\ pc[a] = "register"
  /\ pending' = pending \union {req[a]}
  /\ pc' = [pc EXCEPT ![a] = "wait"]
  /\ UNCHANGED <<secret, want, req, got, needs, decision, outcome, verifier>>

\* Mutant: the wait has no timeout.
WakeOnEvent(a) ==
  /\ pc[a] = "wait" /\ decision[req[a]] # "none"
  /\ pc' = [pc EXCEPT ![a] = "collect"]
  /\ UNCHANGED <<secret, want, req, got, broker, verifier>>

\* event.wait returns: a decision was recorded, or the timeout ran out.
Wake(a) ==
  /\ pc[a] = "wait"
  /\ pc' = [pc EXCEPT ![a] = "collect"]
  /\ UNCHANGED <<secret, want, req, got, broker, verifier>>

\* consult returns the decision, and lease_secret goes on or raises.
Resume(a) ==
  IF decision[req[a]] = "allow"
    THEN /\ outcome' = [outcome EXCEPT ![req[a]] = "allow"]
         /\ pc' = [pc EXCEPT ![a] = "read"] /\ UNCHANGED <<want, req, got>>
    ELSE /\ outcome' = [outcome EXCEPT ![req[a]] = "deny"]
         /\ Leave(a)

\* Mutant: a request that timed out is removed, an answered one is not.
CollectPopsUnanswered(a) ==
  /\ pc[a] = "collect"
  /\ pending' = IF decision[req[a]] = "none" THEN pending \ {req[a]} ELSE pending
  /\ Resume(a)
  /\ UNCHANGED <<secret, needs, decision, verifier>>

\* Mutant: the decision is read under the lock, but the request stays listed.
CollectLeavesListed(a) ==
  /\ pc[a] = "collect"
  /\ Resume(a)
  /\ UNCHANGED <<secret, needs, pending, decision, verifier>>

\* Under _lock: the request is removed and its decision read.  None is a denial.
Collect(a) ==
  /\ pc[a] = "collect"
  /\ pending' = pending \ {req[a]}
  /\ Resume(a)
  /\ UNCHANGED <<secret, needs, decision, verifier>>

\* get_secret and decrypt: any version asked for by number, else the ACTIVE one.
Read(a) ==
  /\ pc[a] = "read"
  /\ LET version == IF want[a] # 0 THEN want[a] ELSE Active IN
       IF version # 0
         THEN /\ pc' = [pc EXCEPT ![a] = "leased"]
              /\ got' = [got EXCEPT ![a] = version]
              /\ UNCHANGED <<want, req>>
         ELSE Leave(a)
  /\ UNCHANGED <<secret, broker, verifier>>

\* The with block ends and the buffer is wiped.
EndLease(a) ==
  /\ pc[a] = "leased"
  /\ Leave(a)
  /\ UNCHANGED <<secret, broker, verifier>>

-----------------------------------------------------------------------------
(***************************************************************************)
(* Operators.  An id may come from a list that is out of date; what is      *)
(* refused (ApprovalError) changes nothing.                                 *)
(***************************************************************************)

\* Mutant: a code may be used again.
AcceptsAgain(code) ==
  code \in (clock - Window)..(clock + Window) /\ code >= last

\* ReplayGuardedVerifier: a code of the window, later than the last accepted.
Accepts(code) ==
  code \in (clock - Window)..(clock + Window) /\ code > last

\* Mutant: only a code that was given is checked.
AuthorisedIfGiven(id, code) == needs[id] /\ code # NoCode => HasVerifier /\ Accepts(code)

\* What approve demands before it records the decision.
Authorised(id, code) == needs[id] => HasVerifier /\ code # NoCode /\ Accepts(code)

\* approve, all of it under _lock.
Approve(id, code) ==
  /\ id \in pending /\ Authorised(id, code)
  /\ decision' = [decision EXCEPT ![id] = "allow"]
  /\ IF needs[id] /\ code # NoCode
       THEN /\ last' = code
            /\ spent' = spent \union {[id |-> id, code |-> code, run |-> restarts]}
       ELSE UNCHANGED <<last, spent>>
  /\ UNCHANGED <<secret, leases, needs, pending, outcome, clock, restarts>>

\* deny, all of it under _lock.
Deny(id) ==
  /\ id \in pending
  /\ decision' = [decision EXCEPT ![id] = "deny"]
  /\ UNCHANGED <<secret, leases, needs, pending, outcome, verifier>>

\* time.time() moves to another time step, also when the clock is set back.
Tick ==
  /\ \E step \in Window..MaxClock : step # clock /\ clock' = step
  /\ UNCHANGED <<secret, leases, broker, last, restarts, spent>>

\* The server restarts: threads, _pending and _last_counter are gone.
Restart ==
  /\ restarts < MaxRestarts /\ restarts' = restarts + 1
  /\ pc' = [a \in Agents |-> "idle"] /\ want' = [a \in Agents |-> 0]
  /\ req' = [a \in Agents |-> 0] /\ got' = [a \in Agents |-> 0]
  /\ pending' = {} /\ last' = -1
  /\ UNCHANGED <<secret, needs, decision, outcome, clock, spent>>

-----------------------------------------------------------------------------
Lease(a) == Ask(a) \/ Register(a) \/ Wake(a) \/ Collect(a) \/ Read(a) \/ EndLease(a)

Next ==
  \/ SetSecret \/ RevokeSecret \/ Tick \/ Restart
  \/ \E a \in Agents : Lease(a)
  \/ \E id \in Requests : Deny(id) \/ \E code \in Codes \union {NoCode} : Approve(id, code)

Spec == Init /\ [][Next]_vars

\* An agent's thread is scheduled and its timeout runs out; no operator is
\* obliged to answer.
Fair(a) == WF_vars(Register(a)) /\ WF_vars(Wake(a)) /\ WF_vars(Collect(a))

Fairness == \A a \in Agents : Fair(a)

FairSpec == Spec /\ Fairness
-----------------------------------------------------------------------------
(***************************************************************************)
(* Properties.                                                             *)
(***************************************************************************)

ApprovedByCode(id) == \E s \in spent : s.id = id

\* While a server runs, whatever its clock does and however often operators
\* answer, one code (even one of the skew window) approves one request.
OneCodeOneApproval ==
  \A s, u \in spent : s.code = u.code /\ s.run = u.run => s = u

\* A request that asked for a second factor gets the plaintext only after an
\* operator gave a code for this very request.
FlaggedNeedsCode ==
  \A a \in Agents : pc[a] \in {"read", "leased"} /\ needs[req[a]] => ApprovedByCode(req[a])

\* An answer that an operator was told is recorded is the one the agent got,
\* also when it arrives at the moment of the timeout; no answer is a denial.
DecisionHonored ==
  \A id \in Requests : outcome[id] # "none" =>
    outcome[id] = IF decision[id] = "allow" THEN "allow" ELSE "deny"

\* The operators' list is the requests of the agents that wait, no more, no less.
ListedIffWaiting == pending = {req[a] : a \in {b \in Agents : pc[b] \in {"wait", "collect"}}}

\* No agent waits for ever on operators that do not answer.
ConsultEnds == \A a \in Agents : pc[a] = "register" ~> pc[a] \in {"idle", "read"}

(***************************************************************************)
(* What a document claims and the code does not do.                        *)
(***************************************************************************)

\* Whoever holds the operator token cannot approve the release of a flagged
\* secret without a code (docs/concepts/trust-boundary.md).
FlaggedReleaseHasCode ==
  \A a \in Agents : pc[a] = "leased" /\ flags[got[a]] => ApprovedByCode(req[a])

=============================================================================
