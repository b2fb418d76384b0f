---------------------------- MODULE CapabilityGate ----------------------------
(***************************************************************************)
(* VaultManager.execute_capability (python/vault.py): a call by an agent,   *)
(* with a token signed by the harness (python/token.py), passes a freeze    *)
(* check, the cap on failed verifications, the token's checks, the audit    *)
(* hook (python/hook.py), the registry (python/capabilities.py) and the     *)
(* rate limiter before its handler runs.  Server threads run calls          *)
(* concurrently; an operator freezes and unfreezes the vault at any time.   *)
(*                                                                         *)
(* A request is a member of Requests, presented with one of the Tokens that *)
(* the harness signs, a Forged one, or none (Bypass: bypass_verification).  *)
(* Arguments that execute_capability refuses at once leave no trace and are *)
(* left out.  A token is its claims and expiry, as token_id is the hash of  *)
(* those: two signed with equal claims in one second are one token.  When   *)
(* it was signed does not matter, as nothing looks at that.                 *)
(***************************************************************************)
EXTENDS Integers, FiniteSets

CONSTANTS
  Callers,      \* threads of the server
  Agents,       \* agent ids
  Tokens,       \* what the harness signs: [agent, capability, version, bound, exp]
  Requests,     \* what agents ask: [agent, capability, version, payload, fits]
  Supported,    \* registered capability -> the versions its handler accepts
  Leasing,      \* the capabilities whose handler leases a secret (secrets.use)
  Modes,        \* kinds of hook: "off", "webhook", "two_factor"
  Unbound,      \* the binding of a token with no context_bindings
  Forged,       \* a token that no verifier accepts
  None,         \* the request and the token of a thread between two calls
  Bypass,       \* no token, with bypass_verification
  Switches,     \* "flag", and "file" if the hook has a freeze_file
  MaxRequests,  \* RateLimiter.max_requests of rate_limiter
  MaxFailures,  \* RateLimiter.max_requests of auth_failure_limiter
  Span,         \* window_seconds of both
  MaxCache,     \* TwoFactorHook._max_cache
  MaxClock      \* bound: the last second

ASSUME CapabilityGateAssumption ==
  /\ IsFiniteSet(Callers)
  /\ None \notin Requests /\ None \notin Tokens \cup {Forged, Bypass}
  /\ \A r \in Requests : r.agent \in Agents
  /\ MaxRequests \in Nat \ {0} /\ MaxFailures \in Nat \ {0}
  /\ Span \in Nat \ {0}
  /\ MaxCache \in Nat /\ MaxCache >= 2
  /\ MaxClock \in Nat

VARIABLES
  mode,      \* the kind of hook the vault was given
  freezes,   \* what freezes the vault: AuditHook._frozen, the freeze file
  clock,     \* time.time()
  failures,  \* auth_failure_limiter._windows
  window,    \* rate_limiter._windows
  seen,      \* TwoFactorHook._seen
  pc,        \* caller -> the step of execute_capability it takes next
  request,   \* caller -> its arguments
  token,     \* caller -> the token it presents
  now,       \* caller -> the time it read before it waits for a limiter's lock
  rows,      \* caller -> the kinds of audit row its last call wrote
  ran,       \* history: caller -> whether its last call ran the handler
  halted,    \* history: caller -> frozen since before its hook was consulted
  latest,    \* history: agent -> the latest time rate_limiter was asked at
  onTime,    \* history: agent -> its admissions at the latest time or after
  late,      \* history: agent -> its admissions at an earlier time
  accepted,  \* history: the tokens the two-factor hook accepted
  replayed   \* history: those it accepted more than once

world   == <<mode, freezes, clock>>
limits  == <<failures, window>>
calls   == <<pc, request, token, now, rows, ran>>
history == <<halted, latest, onTime, late, accepted, replayed>>
vars    == <<world, limits, seen, calls, history>>

Seconds == 0..MaxClock
Entries == [at : Seconds, no : Nat]
Steps   == {"idle", "frozen", "count", "verify", "record", "gate",
            "decide", "dispatch", "admit", "run", "lease", "leaseAdmit", "leased"}
Kinds   == {"HOOK_ALLOW", "HOOK_DENY", "CAPABILITY_DENIED",
            "CAPABILITY_EXECUTED", "CAPABILITY_FAILED"}
\* the steps that begin with a limiter's lock
Waits   == {"count", "record", "admit", "leaseAdmit"}
\* the steps up to the last look at the freeze state
Early   == {"frozen", "count", "verify", "record", "gate"}

TypeOK ==
  /\ mode \in Modes /\ freezes \subseteq Switches
  /\ clock \in Seconds
  /\ failures \in [Agents -> SUBSET Entries]
  /\ window \in [Agents -> SUBSET Entries]
  /\ seen \subseteq Tokens
  /\ pc \in [Callers -> Steps]
  /\ request \in [Callers -> Requests \cup {None}]
  /\ token \in [Callers -> Tokens \cup {Forged, Bypass, None}]
  /\ \A c \in Callers : pc[c] = "idle" \/ (request[c] # None /\ token[c] # None)
  /\ now \in [Callers -> Seconds]
  /\ rows \in [Callers -> SUBSET Kinds]
  /\ ran \in [Callers -> BOOLEAN]
  /\ halted \in [Callers -> BOOLEAN]
  /\ latest \in [Agents -> Seconds]
  /\ onTime \in [Agents -> SUBSET Entries]
  /\ late \in [Agents -> SUBSET Entries]
  /\ accepted \subseteq Tokens /\ replayed \subseteq accepted

Init ==
  /\ mode \in Modes /\ freezes \in SUBSET (Switches \ {"flag"})
  /\ clock = 0
  /\ failures = [a \in Agents |-> {}] /\ window = [a \in Agents |-> {}]
  /\ seen = {}
  /\ pc = [c \in Callers |-> "idle"]
  /\ request = [c \in Callers |-> None]
  /\ token = [c \in Callers |-> None]
  /\ now = [c \in Callers |-> 0]
  /\ rows = [c \in Callers |-> {}]
  /\ ran = [c \in Callers |-> FALSE]
  /\ halted = [c \in Callers |-> FALSE]
  /\ latest = [a \in Agents |-> 0]
  /\ onTime = [a \in Agents |-> {}] /\ late = [a \in Agents |-> {}]
  /\ accepted = {} /\ replayed = {}
-----------------------------------------------------------------------------
(* The limiters.  A window is a list of times in the code; here its entries *)
(* are numbered so that equal times stay apart.                             *)

Recent(w, t) == {e \in w : t - e.at < Span}

At(w, t) == {e \in w : e.at = t}

Entry(w, t) == [at |-> t, no |-> Cardinality(At(w, t)) + 1]

\* Mutant: entries hold the time they expire at, but are compared as before.
RecordExpiry(w, t) == w \cup {Entry(w, t + Span)}

Record(w, t) == w \cup {Entry(w, t)}

\* Mutant: off by one.
FullPast(w, max) == Cardinality(w) > max

Full(w, max) == Cardinality(w) >= max

\* RateLimiter.allow for caller c, at the time it read before the lock: the
\* list is pruned in any case; the history keeps what the list forgets.
Allowed(c, a) == ~Full(Recent(window[a], now[c]), MaxRequests)

Note(c, a) ==
  LET t == now[c] IN
  /\ latest' = [latest EXCEPT ![a] = IF t > @ THEN t ELSE @]
  /\ IF Allowed(c, a)
       THEN IF t >= latest[a]
            THEN /\ onTime' = [onTime EXCEPT ![a] = @ \cup {Entry(Recent(window[a], t), t)}]
                 /\ UNCHANGED late
            ELSE late' = [late EXCEPT ![a] = Record(@, t)] /\ UNCHANGED onTime
       ELSE UNCHANGED <<onTime, late>>

Allow(c, a) ==
  /\ window' = [window EXCEPT ![a] =
       IF Allowed(c, a) THEN Record(Recent(@, now[c]), now[c]) ELSE Recent(@, now[c])]
  /\ Note(c, a)
-----------------------------------------------------------------------------
(* Tokens and the freeze state.                                             *)

Frozen == freezes # {}

Verifies(t) == t # Forged /\ clock <= t.exp

Consistent(t, r) ==
  /\ t.agent = r.agent
  /\ t.capability = r.capability
  /\ t.version = r.version
  /\ t.bound \in {Unbound, r.payload}

Known(r) == r.capability \in DOMAIN Supported

Dispatchable(r) == r.version \in Supported[r.capability] /\ r.fits

\* the half of the cache that _accept_token drops: the tokens that expire first
Halves ==
  {h \in SUBSET seen :
     /\ Cardinality(h) = MaxCache \div 2
     /\ \A t \in h, u \in seen \ h : t.exp <= u.exp}

\* Mutant: the eviction begins when one entry is still free.
KeptEarly == IF Cardinality(seen) >= MaxCache - 1 THEN {seen \ h : h \in Halves} ELSE {seen}

Kept == IF Cardinality(seen) >= MaxCache THEN {seen \ h : h \in Halves} ELSE {seen}

\* The next step of a call.  Steps that wait for a limiter's lock have read
\* the time before; with the call its locals end.
Goto(c, step) ==
  /\ pc' = [pc EXCEPT ![c] = step]
  /\ now' = [now EXCEPT ![c] = IF step \in Waits THEN clock ELSE 0]
  /\ request' = [request EXCEPT ![c] = IF step = "idle" THEN None ELSE @]
  /\ token' = [token EXCEPT ![c] = IF step = "idle" THEN None ELSE @]

\* An audit row is written, or the write fails (SQLite's busy_timeout) and
\* the call ends with the error.
Row(c, kind) == rows' = [rows EXCEPT ![c] = @ \cup {kind}]

Log(c, kind, step) ==
  \/ Row(c, kind) /\ Goto(c, step)
  \/ UNCHANGED rows /\ Goto(c, "idle")

Deny(c) == Log(c, "CAPABILITY_DENIED", "idle")
-----------------------------------------------------------------------------
(* execute_capability                                                       *)

Start(c, r, t) ==
  /\ pc[c] = "idle"
  /\ request' = [request EXCEPT ![c] = r]
  /\ token' = [token EXCEPT ![c] = t]
  /\ rows' = [rows EXCEPT ![c] = {}]
  /\ ran' = [ran EXCEPT ![c] = FALSE]
  /\ halted' = [halted EXCEPT ![c] = Frozen]
  /\ pc' = [pc EXCEPT ![c] = "frozen"]
  /\ UNCHANGED <<world, limits, seen, now, latest, onTime, late,
                 accepted, replayed>>

CheckFrozen(c) ==
  /\ pc[c] = "frozen"
  /\ IF Frozen THEN Deny(c)
     ELSE Goto(c, IF token[c] = Bypass THEN "gate" ELSE "count") /\ UNCHANGED rows
  /\ UNCHANGED <<world, limits, seen, ran, history>>

\* Mutant: off by one.
CountFailuresLate(c) ==
  /\ pc[c] = "count"
  /\ LET a == request[c].agent
         w == Recent(failures[a], now[c])
     IN /\ failures' = [failures EXCEPT ![a] = w]
        /\ IF Cardinality(w) > MaxFailures THEN Deny(c)
           ELSE Goto(c, "verify") /\ UNCHANGED rows
  /\ UNCHANGED <<world, window, seen, ran, history>>

CountFailures(c) ==
  /\ pc[c] = "count"
  /\ LET a == request[c].agent
         w == Recent(failures[a], now[c])
     IN /\ failures' = [failures EXCEPT ![a] = w]
        /\ IF Full(w, MaxFailures) THEN Deny(c)
           ELSE Goto(c, "verify") /\ UNCHANGED rows
  /\ UNCHANGED <<world, window, seen, ran, history>>

Verify(c) ==
  /\ pc[c] = "verify"
  /\ \/ /\ ~Verifies(token[c])
        /\ Goto(c, "record")
        /\ UNCHANGED rows
     \/ /\ Verifies(token[c]) /\ ~Consistent(token[c], request[c])
        /\ Deny(c)
     \/ /\ Verifies(token[c]) /\ Consistent(token[c], request[c])
        /\ Goto(c, "gate") /\ UNCHANGED rows
  /\ UNCHANGED <<world, limits, seen, ran, history>>

RecordFailure(c) ==
  /\ pc[c] = "record"
  /\ failures' = [failures EXCEPT ![request[c].agent] = Record(@, now[c])]
  /\ Deny(c)
  /\ UNCHANGED <<world, window, seen, ran, history>>

\* Mutant: the hook relies on execute_capability's own look.
GateOpen(c) ==
  /\ pc[c] = "gate"
  /\ Goto(c, "decide") /\ UNCHANGED rows
  /\ UNCHANGED <<world, limits, seen, ran, history>>

\* The freeze state is looked at twice in a row, by _hook_consult_capability
\* and by pre_op_check; a call passes if neither finds it frozen, so that one
\* look, at the second, stands for both.
Gate(c) ==
  /\ pc[c] = "gate"
  /\ IF Frozen THEN Log(c, "HOOK_DENY", "idle")
     ELSE Goto(c, "decide") /\ UNCHANGED rows
  /\ UNCHANGED <<world, limits, seen, ran, history>>

\* OffHook and LogHook allow; a webhook answers anything or not at all
DecideOpen(c) ==
  /\ pc[c] = "decide" /\ mode # "two_factor"
  /\ \/ Log(c, "HOOK_ALLOW", "dispatch")
     \/ mode = "webhook" /\ Log(c, "HOOK_DENY", "idle")
  /\ UNCHANGED <<world, limits, seen, ran, history>>

\* TwoFactorHook.consult: the token is verified once more, and refused if the
\* cache, of which a half is dropped first when it is full, still has it
DecideTwoFactor(c) ==
  /\ pc[c] = "decide" /\ mode = "two_factor"
  /\ LET t == token[c] IN
     IF t = Bypass \/ ~Verifies(t)
     THEN Log(c, "HOOK_DENY", "idle") /\ UNCHANGED <<seen, accepted, replayed>>
     ELSE \E kept \in Kept :
            IF t \in kept
            THEN /\ seen' = kept
                 /\ Log(c, "HOOK_DENY", "idle")
                 /\ UNCHANGED <<accepted, replayed>>
            ELSE /\ seen' = kept \cup {t}
                 /\ Log(c, "HOOK_ALLOW", "dispatch")
                 /\ accepted' = accepted \cup {t}
                 /\ replayed' = IF t \in accepted THEN replayed \cup {t} ELSE replayed
  /\ UNCHANGED <<world, limits, ran, halted, latest, onTime, late>>

\* registry.get (which raises without a row), supports_version, validate_payload
Dispatch(c) ==
  /\ pc[c] = "dispatch"
  /\ \/ ~Known(request[c]) /\ Goto(c, "idle") /\ UNCHANGED rows
     \/ Known(request[c]) /\ ~Dispatchable(request[c]) /\ Deny(c)
     \/ /\ Known(request[c]) /\ Dispatchable(request[c])
        /\ Goto(c, "admit")
        /\ UNCHANGED rows
  /\ UNCHANGED <<world, limits, seen, ran, history>>

Admit(c) ==
  /\ pc[c] = "admit"
  /\ Allow(c, request[c].agent)
  /\ IF Allowed(c, request[c].agent) THEN Goto(c, "run") /\ UNCHANGED rows ELSE Deny(c)
  /\ UNCHANGED <<world, failures, seen, ran, halted, accepted, replayed>>

Fail(c) == Log(c, "CAPABILITY_FAILED", "idle")

Succeed(c) == Log(c, "CAPABILITY_EXECUTED", "idle")

\* Mutant: success is logged when the handler is called, not when it returns.
RunLogsFirst(c) ==
  /\ pc[c] = "run"
  /\ ran' = [ran EXCEPT ![c] = TRUE]
  /\ IF request[c].capability \in Leasing
       THEN Log(c, "CAPABILITY_EXECUTED", "lease") ELSE Succeed(c)
  /\ UNCHANGED <<world, limits, seen, history>>

Run(c) ==
  /\ pc[c] = "run"
  /\ ran' = [ran EXCEPT ![c] = TRUE]
  /\ \/ /\ request[c].capability \notin Leasing
        /\ Succeed(c)
     \/ /\ request[c].capability \in Leasing
        /\ Goto(c, "lease") /\ UNCHANGED rows
     \/ Fail(c)
  /\ UNCHANGED <<world, limits, seen, history>>

\* lease_secret, called by the handler of secrets.use: its hook is consulted
\* without a token, which a two-factor hook refuses; the secret's name may be
\* missing, a webhook may refuse, and the row that records it may fail
LeaseConsult(c) ==
  /\ pc[c] = "lease"
  /\ \/ /\ ~Frozen /\ mode # "two_factor"
        /\ Goto(c, "leaseAdmit")
        /\ UNCHANGED rows
     \/ Fail(c)
  /\ UNCHANGED <<world, limits, seen, ran, history>>

\* the same bucket as the call it is part of
LeaseAdmit(c) ==
  /\ pc[c] = "leaseAdmit"
  /\ Allow(c, request[c].agent)
  /\ IF Allowed(c, request[c].agent) THEN Goto(c, "leased") /\ UNCHANGED rows ELSE Fail(c)
  /\ UNCHANGED <<world, failures, seen, ran, halted, accepted, replayed>>

\* honeytoken, policy, approval, decryption and the action itself
Leased(c) ==
  /\ pc[c] = "leased"
  /\ Succeed(c) \/ Fail(c)
  /\ UNCHANGED <<world, limits, seen, ran, history>>

-----------------------------------------------------------------------------
(* The operator, the harness and time                                       *)

Freeze(s) ==
  /\ s \notin freezes
  /\ freezes' = freezes \cup {s}
  /\ halted' = [c \in Callers |-> halted[c] \/ pc[c] \in Early]
  /\ UNCHANGED <<mode, clock, limits, seen, calls, latest, onTime, late,
                 accepted, replayed>>

Unfreeze(s) ==
  /\ s \in freezes
  /\ freezes' = freezes \ {s}
  /\ halted' = [c \in Callers |-> halted[c] /\ freezes' # {}]
  /\ UNCHANGED <<mode, clock, limits, seen, calls, latest, onTime, late,
                 accepted, replayed>>

Tick ==
  /\ clock < MaxClock
  /\ clock' = clock + 1
  /\ UNCHANGED <<mode, freezes, limits, seen, calls, history>>

Step(c) ==
  \/ CheckFrozen(c) \/ CountFailures(c) \/ Verify(c) \/ RecordFailure(c)
  \/ Gate(c) \/ DecideOpen(c) \/ DecideTwoFactor(c)
  \/ Dispatch(c) \/ Admit(c) \/ Run(c) \/ LeaseConsult(c) \/ LeaseAdmit(c)
  \/ Leased(c)

Next ==
  \/ \E c \in Callers :
       \/ \E r \in Requests, t \in Tokens \cup {Forged, Bypass} : Start(c, r, t)
       \/ Step(c)
  \/ \E s \in Switches : Freeze(s) \/ Unfreeze(s)
  \/ Tick

Spec == Init /\ [][Next]_vars
-----------------------------------------------------------------------------
(* Properties                                                               *)

(* What a call leaves in the log is what it did: a handler runs only after  *)
(* the hook's consent was written, never in a call logged as denied, and    *)
(* success is claimed only for a handler that ran and was not also logged   *)
(* as failed, although any write may fail (vault.py:654-777).               *)
RowsTellOutcome ==
  \A c \in Callers :
    /\ ran[c] => "HOOK_ALLOW" \in rows[c] /\ "CAPABILITY_DENIED" \notin rows[c]
    /\ "CAPABILITY_EXECUTED" \in rows[c] => ran[c] /\ "CAPABILITY_FAILED" \notin rows[c]

(* The kill switch: a freeze that comes before the hook is consulted, and   *)
(* lasts, keeps the handler from running, by whichever of the two switches  *)
(* it came and whatever the other one does (hook.py:230-252, 274-278).      *)
FreezeStopsHandler == \A c \in Callers : halted[c] => ~ran[c]

(* Failed verifications overshoot their cap by at most the number of calls  *)
(* in flight, as counting and recording are separate (vault.py:538-544).    *)
LockoutOvershoot ==
  \A a \in Agents : Cardinality(failures[a]) <= MaxFailures - 1 + Cardinality(Callers)

InWindow(entries, t) == {e \in entries : t - Span < e.at /\ e.at <= t}

(* No window holds more than max_requests admissions, counting those whose  *)
(* clock reading no other call of the agent had overtaken by the time they  *)
(* got the limiter's lock, whatever the limiter forgot (vault.py:53-60).    *)
OnTimeRate ==
  \A a \in Agents, t \in Seconds :
    Cardinality(InWindow(onTime[a], t)) <= MaxRequests

(* The same of all admissions: "Sliding window rate limiter" (vault.py:45). *)
SlidingWindow ==
  \A a \in Agents, t \in Seconds :
    Cardinality(InWindow(onTime[a], t)) + Cardinality(InWindow(late[a], t)) <= MaxRequests

(* The two-factor hook accepts a token twice only after as many different   *)
(* tokens as its cache holds were accepted, although entries are evicted    *)
(* before the check for a replay; and the cache stays within its bound      *)
(* (hook.py:664-690).                                                       *)
ReplayNeedsEviction ==
  /\ Cardinality(seen) <= MaxCache
  /\ replayed # {} => Cardinality(accepted) >= MaxCache
=============================================================================
