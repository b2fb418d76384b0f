------------------------- MODULE CapabilityGateProofs -------------------------
(***************************************************************************)
(* Proofs about CapabilityGate, for any number of threads, agents, tokens   *)
(* and requests, any caps, window and cache, and any clock.                 *)
(***************************************************************************)
EXTENDS CapabilityGate, FiniteSetTheorems, TLAPS

\* What a call has written and done, by the step it is at.
Progress ==
  \A c \in Callers :
    /\ pc[c] \in Early \cup {"decide"} => rows[c] = {} /\ ~ran[c]
    /\ pc[c] \in {"dispatch", "admit", "run"} => rows[c] = {"HOOK_ALLOW"} /\ ~ran[c]
    /\ pc[c] \in {"lease", "leaseAdmit", "leased"} => rows[c] = {"HOOK_ALLOW"} /\ ran[c]

\* A call that a freeze is to stop is still before the look that sees it.
FreezeAhead ==
  \A c \in Callers : halted[c] => pc[c] = "idle" \/ (pc[c] \in Early /\ Frozen)

\* The calls of an agent that passed the cap and have yet to record a failure.
InFlight(a) == {c \in Callers : pc[c] \in {"verify", "record"} /\ request[c].agent = a}

Throttled ==
  \A a \in Agents :
    /\ IsFiniteSet(failures[a])
    /\ Cardinality(failures[a]) + Cardinality(InFlight(a))
         <= MaxFailures - 1 + Cardinality(Callers)

\* Nothing leaves the cache before it was full.
CacheComplete ==
  /\ IsFiniteSet(accepted) /\ seen \subseteq accepted
  /\ Cardinality(accepted) < MaxCache => seen = accepted

\* The limiter still has every admission it made on time that is in the
\* window of the latest time.
WindowComplete ==
  \A a \in Agents :
    /\ IsFiniteSet(window[a]) /\ IsFiniteSet(onTime[a])
    /\ \A e \in onTime[a] :
         /\ e.at <= latest[a]
         /\ latest[a] - e.at < Span => e \in window[a]

-----------------------------------------------------------------------------
USE CapabilityGateAssumption DEF vars, world, limits, calls, history

\* A call's next step keeps the types of what Goto sets.
LEMMA GotoTypes ==
  ASSUME TypeOK, NEW c \in Callers, NEW step \in Steps, Goto(c, step), pc[c] # "idle"
  PROVE  /\ pc' \in [Callers -> Steps]
         /\ now' \in [Callers -> Seconds]
         /\ request' \in [Callers -> Requests \cup {None}]
         /\ token' \in [Callers -> Tokens \cup {Forged, Bypass, None}]
         /\ \A d \in Callers : pc'[d] = "idle" \/ (request'[d] # None /\ token'[d] # None)
<1>1. 0 \in Seconds
  BY DEF Seconds
<1>2. QED
  BY <1>1 DEF TypeOK, Goto

\* A row is written or not, and the call goes on or ends.
LEMMA LogTypes ==
  ASSUME TypeOK, NEW c \in Callers, NEW kind \in Kinds, NEW step \in Steps,
         Log(c, kind, step)
  PROVE  /\ rows' \in [Callers -> SUBSET Kinds]
         /\ \E s \in {step, "idle"} : Goto(c, s) /\ s \in Steps
BY DEF TypeOK, Log, Row, Steps

\* The entry of an admission or a failure at a known time.
LEMMA EntryType ==
  ASSUME NEW w, IsFiniteSet(w), NEW t \in Seconds
  PROVE  Entry(w, t) \in Entries /\ Entry(w, t).at = t
<1>1. IsFiniteSet(At(w, t))
  BY FS_Subset DEF At
<1>2. Cardinality(At(w, t)) \in Nat
  BY <1>1, FS_CardinalityType
<1>. DEFINE n == Cardinality(At(w, t)) + 1
<1>3. n \in Nat
  BY <1>2
<1>4. Entry(w, t) = [at |-> t, no |-> n]
  BY DEF Entry
<1>. HIDE DEF n
<1>5. QED
  BY <1>3, <1>4 DEF Entries

\* Recording adds one entry, pruning takes some away.
LEMMA RecordGrows ==
  ASSUME NEW w, IsFiniteSet(w), NEW t
  PROVE  /\ IsFiniteSet(Record(w, t))
         /\ Cardinality(Record(w, t)) <= Cardinality(w) + 1
         /\ Cardinality(w) \in Nat /\ Cardinality(Record(w, t)) \in Nat
<1>. DEFINE x == Entry(w, t)
<1>1. Record(w, t) = w \cup {x}
  BY DEF Record
<1>2. Cardinality(w) \in Nat
  BY FS_CardinalityType
<1>. HIDE DEF x
<1>3. /\ IsFiniteSet(w \cup {x})
      /\ Cardinality(w \cup {x}) = IF x \in w THEN Cardinality(w) ELSE Cardinality(w) + 1
  BY FS_AddElement
<1>4. QED
  BY <1>1, <1>2, <1>3

LEMMA RecentShrinks ==
  ASSUME NEW w, IsFiniteSet(w), NEW t
  PROVE  /\ IsFiniteSet(Recent(w, t)) /\ Recent(w, t) \subseteq w
         /\ Cardinality(Recent(w, t)) <= Cardinality(w)
         /\ Cardinality(w) \in Nat /\ Cardinality(Recent(w, t)) \in Nat
BY FS_Subset, FS_CardinalityType DEF Recent

\* The finite sets that the types of entries rest on.
Finite ==
  \A a \in Agents :
    IsFiniteSet(failures[a]) /\ IsFiniteSet(window[a]) /\ IsFiniteSet(onTime[a])
      /\ IsFiniteSet(late[a])

-----------------------------------------------------------------------------
LEMMA TypeInit == Init => TypeOK
BY DEF Init, TypeOK, Seconds, Steps

\* An answer of rate_limiter keeps the types of its window and its history.
LEMMA AllowTypes ==
  ASSUME TypeOK, Finite, NEW c \in Callers, NEW a \in Agents, Allow(c, a)
  PROVE  /\ window' \in [Agents -> SUBSET Entries]
         /\ latest' \in [Agents -> Seconds]
         /\ onTime' \in [Agents -> SUBSET Entries]
         /\ late' \in [Agents -> SUBSET Entries]
<1>. DEFINE w == Recent(window[a], now[c])
<1>1. now[c] \in Seconds
  BY DEF TypeOK
<1>2. IsFiniteSet(w) /\ w \subseteq window[a]
  BY RecentShrinks DEF Finite
<1>3. Entry(w, now[c]) \in Entries /\ Entry(late[a], now[c]) \in Entries
  BY <1>1, <1>2, EntryType DEF Finite
<1>4. w \subseteq Entries
  BY <1>2 DEF TypeOK
<1>. HIDE DEF w
<1>5. window' = [window EXCEPT ![a] = IF Allowed(c, a) THEN w \cup {Entry(w, now[c])} ELSE w]
  BY DEF Allow, Record, w, TypeOK
<1>6. window' \in [Agents -> SUBSET Entries]
  BY <1>3, <1>4, <1>5 DEF TypeOK
<1>7. latest' \in [Agents -> Seconds]
  BY <1>1 DEF Allow, Note, TypeOK
<1>8. \/ onTime' = [onTime EXCEPT ![a] = @ \cup {Entry(w, now[c])}]
      \/ onTime' = onTime
  BY DEF Allow, Note, w
<1>9. \/ late' = [late EXCEPT ![a] = @ \cup {Entry(late[a], now[c])}]
      \/ late' = late
  BY DEF Allow, Note, Record, TypeOK
<1>10. QED
  BY <1>3, <1>6, <1>7, <1>8, <1>9 DEF TypeOK

\* Every set of entries stays finite.
LEMMA FiniteStep ==
  ASSUME TypeOK, Finite, [Next]_vars
  PROVE  Finite'
<1>1. CASE \E c \in Callers : CountFailures(c)
  <2>. PICK c \in Callers : CountFailures(c)
    BY <1>1
  <2>1. /\ UNCHANGED <<window, onTime, late>>
        /\ failures' = [failures EXCEPT ![request[c].agent] =
                          Recent(failures[request[c].agent], now[c])]
    BY DEF CountFailures
  <2>2. \A a \in Agents : IsFiniteSet(Recent(failures[a], now[c]))
    BY RecentShrinks DEF Finite
  <2>3. QED
    BY <2>1, <2>2 DEF Finite, TypeOK
<1>2. CASE \E c \in Callers : RecordFailure(c)
  <2>. PICK c \in Callers : RecordFailure(c)
    BY <1>2
  <2>1. /\ UNCHANGED <<window, onTime, late>>
        /\ failures' = [failures EXCEPT ![request[c].agent] =
                          Record(failures[request[c].agent], now[c])]
    BY DEF RecordFailure
  <2>2. \A a \in Agents : IsFiniteSet(Record(failures[a], now[c]))
    BY RecordGrows DEF Finite
  <2>3. QED
    BY <2>1, <2>2 DEF Finite, TypeOK
<1>3. CASE \E c \in Callers : Admit(c) \/ LeaseAdmit(c)
  <2>. PICK c \in Callers : Admit(c) \/ LeaseAdmit(c)
    BY <1>3
  <2>. DEFINE a == request[c].agent
              w == Recent(window[a], now[c])
  <2>1. /\ UNCHANGED failures
        /\ Allow(c, a)
    BY DEF Admit, LeaseAdmit
  <2>2. a \in Agents
    BY DEF Admit, LeaseAdmit, TypeOK
  <2>3. IsFiniteSet(w)
    BY <2>2, RecentShrinks DEF Finite
  <2>4. IsFiniteSet(Record(w, now[c])) /\ IsFiniteSet(Record(late[a], now[c]))
    BY <2>2, <2>3, RecordGrows DEF Finite
  <2>5. IsFiniteSet(onTime[a] \cup {Entry(w, now[c])})
    BY <2>2, FS_AddElement DEF Finite
  <2>. HIDE DEF w, a
  <2>6. \A b \in Agents : IsFiniteSet(window'[b])
    BY <2>1, <2>2, <2>3, <2>4 DEF Finite, TypeOK, Allow, w, a
  <2>7. \A b \in Agents : IsFiniteSet(onTime'[b]) /\ IsFiniteSet(late'[b])
    BY <2>1, <2>2, <2>4, <2>5 DEF Finite, TypeOK, Allow, Note, w, a
  <2>8. QED
    BY <2>1, <2>6, <2>7 DEF Finite
<1>4. CASE UNCHANGED <<failures, window, onTime, late>>
  BY <1>4 DEF Finite
<1>5. QED
  BY <1>1, <1>2, <1>3, <1>4 DEF Next, Step, Start, CheckFrozen, Verify, Gate,
     DecideOpen, DecideTwoFactor, Dispatch, Run, LeaseConsult, Leased, Freeze,
     Unfreeze, Tick

\* The steps of a call that a lock of a limiter does not guard.
LEMMA TypeStep ==
  ASSUME TypeOK, Finite, [Next]_vars
  PROVE  TypeOK'
<1>1. CASE \E c \in Callers, r \in Requests, t \in Tokens \cup {Forged, Bypass} : Start(c, r, t)
  <2>. PICK c \in Callers, r \in Requests, t \in Tokens \cup {Forged, Bypass} : Start(c, r, t)
    BY <1>1
  <2>1. r # None /\ t # None
    OBVIOUS
  <2>2. pc' \in [Callers -> Steps] /\ Frozen \in BOOLEAN
    BY DEF Start, TypeOK, Steps, Frozen
  <2>3. /\ request' \in [Callers -> Requests \cup {None}]
        /\ token' \in [Callers -> Tokens \cup {Forged, Bypass, None}]
        /\ \A d \in Callers : pc'[d] = "idle" \/ (request'[d] # None /\ token'[d] # None)
    BY <2>1 DEF Start, TypeOK
  <2>4. QED
    BY <2>2, <2>3 DEF Start, TypeOK
<1>2. CASE \E c \in Callers : Step(c)
  <2>. PICK c \in Callers : Step(c)
    BY <1>2
  <2>1. pc[c] # "idle"
    BY DEF Step, CheckFrozen, CountFailures, Verify, RecordFailure, Gate, DecideOpen,
       DecideTwoFactor, Dispatch, Admit, Run, LeaseConsult, LeaseAdmit, Leased
  <2>2. /\ \E s \in Steps : Goto(c, s)
        /\ rows' \in [Callers -> SUBSET Kinds]
    <3>1. /\ \A k \in Kinds : Log(c, k, "idle") =>
               (\E s \in Steps : Goto(c, s)) /\ rows' \in [Callers -> SUBSET Kinds]
          /\ \A k \in Kinds : Log(c, k, "dispatch") =>
               (\E s \in Steps : Goto(c, s)) /\ rows' \in [Callers -> SUBSET Kinds]
      BY LogTypes DEF Steps
    <3>2. Deny(c) \/ Fail(c) \/ Succeed(c) =>
            (\E s \in Steps : Goto(c, s)) /\ rows' \in [Callers -> SUBSET Kinds]
      BY <3>1 DEF Deny, Fail, Succeed, Kinds
    <3>3. rows \in [Callers -> SUBSET Kinds]
      BY DEF TypeOK
    <3>4. \A s \in {"count", "gate", "verify", "record", "decide", "idle", "admit",
                    "run", "lease", "leaseAdmit", "leased"} :
            s \in Steps
      BY DEF Steps
    <3>5. {"HOOK_ALLOW", "HOOK_DENY"} \subseteq Kinds
      BY DEF Kinds
    <3>6. QED
      BY <3>1, <3>2, <3>3, <3>4, <3>5 DEF Step, CheckFrozen, CountFailures, Verify,
         RecordFailure, Gate, DecideOpen, DecideTwoFactor, Dispatch, Admit, Run,
         LeaseConsult, LeaseAdmit, Leased
  <2>3. /\ pc' \in [Callers -> Steps]
        /\ now' \in [Callers -> Seconds]
        /\ request' \in [Callers -> Requests \cup {None}]
        /\ token' \in [Callers -> Tokens \cup {Forged, Bypass, None}]
        /\ \A d \in Callers : pc'[d] = "idle" \/ (request'[d] # None /\ token'[d] # None)
    BY <2>1, <2>2, GotoTypes
  <2>4. UNCHANGED <<mode, freezes, clock, halted>>
    BY DEF Step, CheckFrozen, CountFailures, Verify, RecordFailure, Gate, DecideOpen,
       DecideTwoFactor, Dispatch, Admit, Run, LeaseConsult, LeaseAdmit, Leased
  <2>5. ran' \in [Callers -> BOOLEAN]
    BY DEF TypeOK, Step, CheckFrozen, CountFailures, Verify, RecordFailure, Gate,
       DecideOpen, DecideTwoFactor, Dispatch, Admit, Run, LeaseConsult, LeaseAdmit, Leased
  <2>6. request[c] \in Requests /\ request[c].agent \in Agents
    BY <2>1 DEF TypeOK
  <2>7. failures' \in [Agents -> SUBSET Entries]
    <3>1. CASE CountFailures(c)
      <4>1. Recent(failures[request[c].agent], now[c]) \subseteq Entries
        BY <2>6 DEF Recent, TypeOK
      <4>2. QED
        BY <3>1, <4>1 DEF CountFailures, TypeOK
    <3>2. CASE RecordFailure(c)
      <4>1. Entry(failures[request[c].agent], now[c]) \in Entries
        BY <2>6, EntryType DEF Finite, TypeOK
      <4>2. Record(failures[request[c].agent], now[c]) \subseteq Entries
        BY <2>6, <4>1 DEF Record, TypeOK
      <4>3. QED
        BY <3>2, <4>2 DEF RecordFailure, TypeOK
    <3>3. CASE UNCHANGED failures
      BY <3>3 DEF TypeOK
    <3>4. QED
      BY <3>1, <3>2, <3>3 DEF Step, CheckFrozen, Verify, Gate, DecideOpen,
         DecideTwoFactor, Dispatch, Admit, Run, LeaseConsult, LeaseAdmit, Leased
  <2>8. /\ window' \in [Agents -> SUBSET Entries]
        /\ latest' \in [Agents -> Seconds]
        /\ onTime' \in [Agents -> SUBSET Entries]
        /\ late' \in [Agents -> SUBSET Entries]
    <3>1. CASE Admit(c) \/ LeaseAdmit(c)
      BY <2>6, <3>1, AllowTypes DEF Admit, LeaseAdmit
    <3>2. CASE UNCHANGED <<window, latest, onTime, late>>
      BY <3>2 DEF TypeOK
    <3>3. QED
      BY <3>1, <3>2 DEF Step, CheckFrozen, CountFailures, Verify, RecordFailure, Gate,
         DecideOpen, DecideTwoFactor, Dispatch, Run, LeaseConsult, Leased
  <2>9. seen' \subseteq Tokens /\ accepted' \subseteq Tokens /\ replayed' \subseteq accepted'
    <3>1. CASE DecideTwoFactor(c) /\ ~UNCHANGED <<seen, accepted, replayed>>
      <4>1. token[c] # Bypass /\ token[c] # Forged /\ token[c] # None
        BY <2>1, <3>1 DEF DecideTwoFactor, Verifies, TypeOK
      <4>2. token[c] \in Tokens
        BY <4>1 DEF TypeOK
      <4>3. \A kept \in Kept : kept \subseteq seen
        BY DEF Kept, Halves
      <4>4. QED
        BY <3>1, <4>2, <4>3 DEF DecideTwoFactor, TypeOK
    <3>2. CASE UNCHANGED <<seen, accepted, replayed>>
      BY <3>2 DEF TypeOK
    <3>3. QED
      BY <3>1, <3>2 DEF Step, CheckFrozen, CountFailures, Verify, RecordFailure, Gate,
         DecideOpen, Dispatch, Admit, Run, LeaseConsult, LeaseAdmit, Leased
  <2>10. QED
    BY <2>2, <2>3, <2>4, <2>5, <2>7, <2>8, <2>9 DEF TypeOK
<1>3. CASE \E s \in Switches : Freeze(s) \/ Unfreeze(s)
  BY <1>3 DEF Freeze, Unfreeze, TypeOK
<1>4. CASE Tick
  BY <1>4 DEF Tick, TypeOK, Seconds
<1>5. CASE UNCHANGED vars
  BY <1>5 DEF TypeOK
<1>6. QED
  BY <1>1, <1>2, <1>3, <1>4, <1>5 DEF Next

-----------------------------------------------------------------------------
(* The log and the freeze.                                                  *)

CallInv == Progress /\ FreezeAhead /\ RowsTellOutcome /\ FreezeStopsHandler

\* One call's part of CallInv.
CallOK(c) ==
  /\ pc[c] \in Early \cup {"decide"} => rows[c] = {} /\ ~ran[c]
  /\ pc[c] \in {"dispatch", "admit", "run"} => rows[c] = {"HOOK_ALLOW"} /\ ~ran[c]
  /\ pc[c] \in {"lease", "leaseAdmit", "leased"} => rows[c] = {"HOOK_ALLOW"} /\ ran[c]
  /\ halted[c] => pc[c] = "idle" \/ (pc[c] \in Early /\ Frozen)
  /\ ran[c] => "HOOK_ALLOW" \in rows[c] /\ "CAPABILITY_DENIED" \notin rows[c]
  /\ "CAPABILITY_EXECUTED" \in rows[c] => ran[c] /\ "CAPABILITY_FAILED" \notin rows[c]
  /\ halted[c] => ~ran[c]

LEMMA CallInvParts == CallInv <=> \A c \in Callers : CallOK(c)
BY DEF CallInv, Progress, FreezeAhead, RowsTellOutcome, FreezeStopsHandler, CallOK

LEMMA CallInvInit == Init => CallInv
BY DEF Init, CallInv, Progress, FreezeAhead, RowsTellOutcome, FreezeStopsHandler, Early

LEMMA GotoEffect ==
  ASSUME TypeOK, NEW c \in Callers, NEW step, Goto(c, step)
  PROVE  pc'[c] = step
BY DEF TypeOK, Goto

LEMMA LogEffect ==
  ASSUME TypeOK, NEW c \in Callers, NEW kind, NEW step, Log(c, kind, step)
  PROVE  \/ pc'[c] = step /\ rows'[c] = rows[c] \cup {kind}
         \/ pc'[c] = "idle" /\ rows'[c] = rows[c]
BY GotoEffect DEF TypeOK, Log, Row

\* A step of one call leaves the other calls alone.
LEMMA Others ==
  ASSUME TypeOK, CallInv, NEW c \in Callers, Step(c), CallOK(c)'
  PROVE  CallInv'
<1>1. /\ UNCHANGED <<freezes, halted>>
      /\ \A d \in Callers \ {c} : pc'[d] = pc[d] /\ rows'[d] = rows[d] /\ ran'[d] = ran[d]
  BY DEF TypeOK, Step, CheckFrozen, CountFailures, Verify, RecordFailure, Gate,
     DecideOpen, DecideTwoFactor, Dispatch, Admit, Run, LeaseConsult, LeaseAdmit,
     Leased, Deny, Fail, Succeed, Log, Row, Goto
<1>2. \A d \in Callers \ {c} : CallOK(d)'
  BY <1>1, CallInvParts DEF CallOK, Frozen
<1>3. \A d \in Callers : CallOK(d)'
  BY <1>2
<1>4. QED
  BY <1>3 DEF CallInv, Progress, FreezeAhead, RowsTellOutcome, FreezeStopsHandler, CallOK

LEMMA CallInvStep ==
  ASSUME TypeOK, CallInv, [Next]_vars
  PROVE  CallInv'
<1>1. ASSUME NEW c \in Callers, NEW r \in Requests, NEW t \in Tokens \cup {Forged, Bypass},
             Start(c, r, t)
      PROVE  CallInv'
  <2>1. /\ UNCHANGED freezes
        /\ pc'[c] = "frozen" /\ rows'[c] = {} /\ ran'[c] = FALSE /\ halted'[c] = Frozen
        /\ \A d \in Callers \ {c} : /\ pc'[d] = pc[d] /\ rows'[d] = rows[d]
                                    /\ ran'[d] = ran[d] /\ halted'[d] = halted[d]
    BY <1>1 DEF Start, TypeOK
  <2>2. \A d \in Callers : CallOK(d)
    BY CallInvParts
  <2>3. \A d \in Callers : CallOK(d)'
    BY <2>1, <2>2 DEF CallOK, Frozen, Early
  <2>4. QED
    BY <2>3 DEF CallInv, Progress, FreezeAhead, RowsTellOutcome, FreezeStopsHandler, CallOK
<1>2. ASSUME NEW c \in Callers, Step(c)
      PROVE  CallInv'
  <2>. SUFFICES CallOK(c)'
    BY <1>2, Others
  <2>0. UNCHANGED <<freezes, halted>> /\ Frozen' = Frozen
    BY <1>2 DEF Step, CheckFrozen, CountFailures, Verify, RecordFailure, Gate, DecideOpen,
       DecideTwoFactor, Dispatch, Admit, Run, LeaseConsult, LeaseAdmit, Leased, Frozen
  <2>1. CallOK(c)
    BY CallInvParts
  <2>2. CASE CheckFrozen(c)
    <3>1. /\ pc[c] = "frozen" /\ ran'[c] = ran[c]
          /\ \/ pc'[c] = "idle" /\ rows'[c] \in {rows[c], rows[c] \cup {"CAPABILITY_DENIED"}}
             \/ pc'[c] \in {"gate", "count"} /\ rows'[c] = rows[c]
      BY <2>2, LogEffect, GotoEffect DEF CheckFrozen, Deny
    <3>2. QED
      BY <2>1, <2>0, <3>1 DEF CallOK, Early
  <2>3. CASE CountFailures(c)
    <3>1. /\ pc[c] = "count" /\ ran'[c] = ran[c]
          /\ \/ pc'[c] = "idle" /\ rows'[c] \in {rows[c], rows[c] \cup {"CAPABILITY_DENIED"}}
             \/ pc'[c] = "verify" /\ rows'[c] = rows[c]
      BY <2>3, LogEffect, GotoEffect DEF CountFailures, Deny
    <3>2. QED
      BY <2>1, <2>0, <3>1 DEF CallOK, Early
  <2>4. CASE Verify(c)
    <3>1. /\ pc[c] = "verify" /\ ran'[c] = ran[c]
          /\ \/ pc'[c] = "idle" /\ rows'[c] \in {rows[c], rows[c] \cup {"CAPABILITY_DENIED"}}
             \/ pc'[c] \in {"record", "gate"} /\ rows'[c] = rows[c]
      BY <2>4, LogEffect, GotoEffect DEF Verify, Deny
    <3>2. QED
      BY <2>1, <2>0, <3>1 DEF CallOK, Early
  <2>5. CASE RecordFailure(c)
    <3>1. /\ pc[c] = "record" /\ ran'[c] = ran[c]
          /\ pc'[c] = "idle" /\ rows'[c] \in {rows[c], rows[c] \cup {"CAPABILITY_DENIED"}}
      BY <2>5, LogEffect, GotoEffect DEF RecordFailure, Deny
    <3>2. QED
      BY <2>1, <2>0, <3>1 DEF CallOK, Early
  <2>6. CASE Gate(c)
    <3>1. /\ pc[c] = "gate" /\ ran'[c] = ran[c]
          /\ \/ pc'[c] = "idle" /\ rows'[c] \in {rows[c], rows[c] \cup {"HOOK_DENY"}}
             \/ pc'[c] = "decide" /\ rows'[c] = rows[c] /\ ~Frozen
      BY <2>6, LogEffect, GotoEffect DEF Gate
    <3>2. QED
      BY <2>1, <2>0, <3>1 DEF CallOK, Early
  <2>7. CASE DecideOpen(c)
    <3>1. /\ pc[c] = "decide" /\ ran'[c] = ran[c]
          /\ \/ pc'[c] = "idle" /\ rows'[c] \in {rows[c], rows[c] \cup {"HOOK_DENY"}}
             \/ pc'[c] = "dispatch" /\ rows'[c] = rows[c] \cup {"HOOK_ALLOW"}
      BY <2>7, LogEffect, GotoEffect DEF DecideOpen
    <3>2. QED
      BY <2>1, <2>0, <3>1 DEF CallOK, Early
  <2>8. CASE DecideTwoFactor(c)
    <3>1. /\ pc[c] = "decide" /\ ran'[c] = ran[c]
          /\ \/ pc'[c] = "idle" /\ rows'[c] \in {rows[c], rows[c] \cup {"HOOK_DENY"}}
             \/ pc'[c] = "dispatch" /\ rows'[c] = rows[c] \cup {"HOOK_ALLOW"}
      BY <2>8, LogEffect, GotoEffect DEF DecideTwoFactor
    <3>2. QED
      BY <2>1, <2>0, <3>1 DEF CallOK, Early
  <2>9. CASE Dispatch(c)
    <3>1. /\ pc[c] = "dispatch" /\ ran'[c] = ran[c]
          /\ \/ pc'[c] = "idle" /\ rows'[c] \in {rows[c], rows[c] \cup {"CAPABILITY_DENIED"}}
             \/ pc'[c] = "admit" /\ rows'[c] = rows[c]
      BY <2>9, LogEffect, GotoEffect DEF Dispatch, Deny
    <3>2. QED
      BY <2>1, <2>0, <3>1 DEF CallOK, Early
  <2>10. CASE Admit(c)
    <3>1. /\ pc[c] = "admit" /\ ran'[c] = ran[c]
          /\ \/ pc'[c] = "idle" /\ rows'[c] \in {rows[c], rows[c] \cup {"CAPABILITY_DENIED"}}
             \/ pc'[c] = "run" /\ rows'[c] = rows[c]
      BY <2>10, LogEffect, GotoEffect DEF Admit, Deny
    <3>2. QED
      BY <2>1, <2>0, <3>1 DEF CallOK, Early
  <2>11. CASE Run(c)
    <3>1. /\ pc[c] = "run" /\ ran'[c] = TRUE
          /\ \/ pc'[c] = "idle" /\ rows'[c] \in {rows[c], rows[c] \cup {"CAPABILITY_FAILED"}}
             \/ pc'[c] = "idle" /\ rows'[c] \in {rows[c], rows[c] \cup {"CAPABILITY_EXECUTED"}}
             \/ pc'[c] = "lease" /\ rows'[c] = rows[c]
      BY <2>11, LogEffect, GotoEffect DEF Run, Fail, Succeed, TypeOK
    <3>2. QED
      BY <2>1, <2>0, <3>1 DEF CallOK, Early
  <2>12. CASE LeaseConsult(c)
    <3>1. /\ pc[c] = "lease" /\ ran'[c] = ran[c]
          /\ \/ pc'[c] = "idle" /\ rows'[c] \in {rows[c], rows[c] \cup {"CAPABILITY_FAILED"}}
             \/ pc'[c] = "leaseAdmit" /\ rows'[c] = rows[c]
      BY <2>12, LogEffect, GotoEffect DEF LeaseConsult, Fail
    <3>2. QED
      BY <2>1, <2>0, <3>1 DEF CallOK, Early
  <2>13. CASE LeaseAdmit(c)
    <3>1. /\ pc[c] = "leaseAdmit" /\ ran'[c] = ran[c]
          /\ \/ pc'[c] = "idle" /\ rows'[c] \in {rows[c], rows[c] \cup {"CAPABILITY_FAILED"}}
             \/ pc'[c] = "leased" /\ rows'[c] = rows[c]
      BY <2>13, LogEffect, GotoEffect DEF LeaseAdmit, Fail
    <3>2. QED
      BY <2>1, <2>0, <3>1 DEF CallOK, Early
  <2>14. CASE Leased(c)
    <3>1. /\ pc[c] = "leased" /\ ran'[c] = ran[c]
          /\ \/ pc'[c] = "idle" /\ rows'[c] \in {rows[c], rows[c] \cup {"CAPABILITY_FAILED"}}
             \/ pc'[c] = "idle" /\ rows'[c] \in {rows[c], rows[c] \cup {"CAPABILITY_EXECUTED"}}
      BY <2>14, LogEffect, GotoEffect DEF Leased, Fail, Succeed
    <3>2. QED
      BY <2>1, <2>0, <3>1 DEF CallOK, Early
  <2>15. QED
    BY <1>2, <2>2, <2>3, <2>4, <2>5, <2>6, <2>7, <2>8, <2>9, <2>10, <2>11, <2>12,
       <2>13, <2>14 DEF Step
<1>3. ASSUME NEW s \in Switches, Freeze(s) \/ Unfreeze(s)
      PROVE  CallInv'
  <2>1. \A d \in Callers : CallOK(d)
    BY CallInvParts
  <2>2. \A d \in Callers : CallOK(d)'
    BY <1>3, <2>1 DEF TypeOK, CallOK, Freeze, Unfreeze, Frozen, Early
  <2>3. QED
    BY <2>2 DEF CallInv, Progress, FreezeAhead, RowsTellOutcome, FreezeStopsHandler, CallOK
<1>4. CASE Tick \/ UNCHANGED vars
  BY <1>4 DEF Tick, CallInv, Progress, FreezeAhead, RowsTellOutcome, FreezeStopsHandler,
     Frozen
<1>5. QED
  BY <1>1, <1>2, <1>3, <1>4 DEF Next

-----------------------------------------------------------------------------
(* The cap on failures.                                                     *)

LEMMA ThrottledInit == Init => Throttled
<1>. SUFFICES ASSUME Init PROVE Throttled
  OBVIOUS
<1>1. \A a \in Agents : failures[a] = {} /\ InFlight(a) = {}
  BY DEF Init, InFlight
<1>2. Cardinality(Callers) \in Nat
  BY FS_CardinalityType
<1>3. \A a \in Agents : /\ IsFiniteSet(failures[a]) /\ Cardinality(failures[a]) = 0
                        /\ Cardinality(InFlight(a)) = 0
  BY <1>1, FS_EmptySet
<1>4. QED
  BY <1>2, <1>3 DEF Throttled

LEMMA InFlightFinite ==
  ASSUME NEW S \in SUBSET Callers
  PROVE  /\ IsFiniteSet(S) /\ Cardinality(S) \in Nat /\ Cardinality(Callers) \in Nat
         /\ Cardinality(S) <= Cardinality(Callers)
         /\ \A T \in SUBSET S : Cardinality(T) \in Nat /\ Cardinality(T) <= Cardinality(S)
BY FS_Subset, FS_CardinalityType

LEMMA ThrottledStep ==
  ASSUME TypeOK, Throttled, [Next]_vars
  PROVE  Throttled'
<1>. DEFINE F(a) == InFlight(a)
<1>. SUFFICES ASSUME NEW a \in Agents
              PROVE  /\ IsFiniteSet(failures'[a])
                     /\ Cardinality(failures'[a]) + Cardinality(F(a)')
                          <= MaxFailures - 1 + Cardinality(Callers)
  BY DEF Throttled
<1>0. /\ IsFiniteSet(failures[a]) /\ Cardinality(failures[a]) \in Nat
      /\ F(a) \in SUBSET Callers /\ F(a)' \in SUBSET Callers
      /\ Cardinality(failures[a]) + Cardinality(F(a)) <= MaxFailures - 1 + Cardinality(Callers)
  BY FS_CardinalityType DEF Throttled, InFlight
<1>1. CASE UNCHANGED failures /\ F(a)' \subseteq F(a)
  BY <1>0, <1>1, InFlightFinite
<1>2. ASSUME NEW c \in Callers, CountFailures(c)
      PROVE  /\ IsFiniteSet(failures'[a])
             /\ Cardinality(failures'[a]) + Cardinality(F(a)')
                  <= MaxFailures - 1 + Cardinality(Callers)
  <2>. DEFINE b == request[c].agent
              w == Recent(failures[b], now[c])
  <2>1. failures' = [failures EXCEPT ![b] = w] /\ pc[c] = "count"
    BY <1>2 DEF CountFailures
  <2>2. \/ Deny(c)
        \/ Cardinality(w) < MaxFailures /\ Goto(c, "verify")
    <3>1. b \in Agents
      BY <2>1 DEF TypeOK
    <3>2. Cardinality(w) \in Nat
      BY <3>1, RecentShrinks DEF Throttled
    <3>3. QED
      BY <1>2, <3>2 DEF CountFailures, Full
  <2>3. CASE b # a \/ Deny(c)
    <3>1. F(a)' \subseteq F(a)
      BY <2>1, <2>2, <2>3 DEF InFlight, Deny, Log, Goto, TypeOK
    <3>2. /\ IsFiniteSet(failures'[a]) /\ Cardinality(failures'[a]) \in Nat
          /\ Cardinality(failures'[a]) <= Cardinality(failures[a])
      BY <1>0, <2>1, RecentShrinks DEF TypeOK
    <3>3. QED
      BY <1>0, <3>1, <3>2, InFlightFinite
  <2>4. CASE b = a /\ ~Deny(c)
    <3>1. failures'[a] = w /\ Cardinality(w) < MaxFailures
      BY <2>1, <2>2, <2>4 DEF TypeOK
    <3>2. IsFiniteSet(w) /\ Cardinality(w) \in Nat
      BY <1>0, <2>4, RecentShrinks
    <3>3. Cardinality(F(a)') \in Nat /\ Cardinality(F(a)') <= Cardinality(Callers)
          /\ Cardinality(Callers) \in Nat
      BY <1>0, InFlightFinite
    <3>. HIDE DEF F, w, b
    <3>4. QED
      BY <3>1, <3>2, <3>3
  <2>5. QED
    BY <2>3, <2>4
<1>3. ASSUME NEW c \in Callers, RecordFailure(c)
      PROVE  /\ IsFiniteSet(failures'[a])
             /\ Cardinality(failures'[a]) + Cardinality(F(a)')
                  <= MaxFailures - 1 + Cardinality(Callers)
  <2>. DEFINE b == request[c].agent
              w == Record(failures[b], now[c])
  <2>1. failures' = [failures EXCEPT ![b] = w] /\ pc[c] = "record" /\ Deny(c)
    BY <1>3 DEF RecordFailure
  <2>2. F(a)' = F(a) \ {c}
    BY <2>1 DEF InFlight, Deny, Log, Goto, TypeOK
  <2>3. CASE b # a
    <3>1. failures'[a] = failures[a]
      BY <2>1, <2>3 DEF TypeOK
    <3>2. QED
      BY <1>0, <2>2, <3>1, InFlightFinite
  <2>4. CASE b = a
    <3>1. c \in F(a)
      BY <2>1, <2>4 DEF InFlight
    <3>2. Cardinality(F(a)') = Cardinality(F(a)) - 1
      BY <1>0, <2>2, <3>1, FS_RemoveElement, InFlightFinite
    <3>3. failures'[a] = w
      BY <2>1, <2>4 DEF TypeOK
    <3>4. /\ IsFiniteSet(w) /\ Cardinality(w) \in Nat
          /\ Cardinality(w) <= Cardinality(failures[a]) + 1
      BY <1>0, <2>4, RecordGrows
    <3>5. Cardinality(F(a)) \in Nat /\ Cardinality(Callers) \in Nat
      BY <1>0, InFlightFinite
    <3>. HIDE DEF F, w, b
    <3>6. QED
      BY <1>0, <3>2, <3>3, <3>4, <3>5
  <2>5. QED
    BY <2>3, <2>4
<1>4. ASSUME NEW c \in Callers, NEW s \in Steps \ {"verify"},
             Goto(c, s), UNCHANGED failures, s = "record" => pc[c] = "verify"
      PROVE  F(a)' \subseteq F(a)
  BY <1>4 DEF InFlight, Goto, TypeOK
<1>5. ASSUME NEW c \in Callers, Step(c), ~CountFailures(c), ~RecordFailure(c)
      PROVE  UNCHANGED failures /\ F(a)' \subseteq F(a)
  <2>1. /\ UNCHANGED failures
        /\ \E s \in Steps \ {"verify"} : Goto(c, s) /\ (s = "record" => pc[c] = "verify")
    BY <1>5 DEF Step, CheckFrozen, Verify, Gate, DecideOpen, DecideTwoFactor, Dispatch,
       Admit, Run, LeaseConsult, LeaseAdmit, Leased, Deny, Fail, Succeed, Log, Steps
  <2>2. QED
    BY <1>4, <2>1
<1>6. ASSUME NEW c \in Callers, NEW r \in Requests, NEW t \in Tokens \cup {Forged, Bypass},
             Start(c, r, t)
      PROVE  UNCHANGED failures /\ F(a)' \subseteq F(a)
  BY <1>6 DEF Start, InFlight, TypeOK
<1>7. CASE (\E s \in Switches : Freeze(s) \/ Unfreeze(s)) \/ Tick \/ UNCHANGED vars
  <2>1. UNCHANGED <<failures, pc, request>>
    BY <1>7 DEF Freeze, Unfreeze, Tick
  <2>2. UNCHANGED failures /\ F(a)' \subseteq F(a)
    BY <2>1 DEF InFlight
  <2>3. QED
    BY <1>1, <2>2
<1>8. QED
  BY <1>1, <1>2, <1>3, <1>5, <1>6, <1>7 DEF Next

-----------------------------------------------------------------------------
(* The cache of the two-factor hook.                                        *)

CacheInv == CacheComplete /\ ReplayNeedsEviction

LEMMA CacheInit == Init => CacheInv
BY FS_EmptySet DEF Init, CacheInv, CacheComplete, ReplayNeedsEviction

\* What is left of the cache when a token is looked up: some of what was
\* there, all of it unless it was full, and room for one more.
LEMMA KeptRoom ==
  ASSUME CacheInv, NEW kept \in Kept
  PROVE  /\ kept \subseteq seen /\ IsFiniteSet(kept) /\ Cardinality(kept) \in Nat
         /\ Cardinality(kept) < MaxCache
         /\ Cardinality(seen) < MaxCache => kept = seen
<1>1. IsFiniteSet(seen) /\ Cardinality(seen) \in Nat /\ Cardinality(seen) <= MaxCache
  BY FS_Subset, FS_CardinalityType DEF CacheInv, CacheComplete, ReplayNeedsEviction
<1>2. CASE Cardinality(seen) < MaxCache
  BY <1>1, <1>2 DEF Kept
<1>3. CASE Cardinality(seen) >= MaxCache
  <2>. PICK h \in Halves : kept = seen \ h
    BY <1>3 DEF Kept
  <2>1. h \subseteq seen /\ Cardinality(h) = MaxCache \div 2
    BY DEF Halves
  <2>2. IsFiniteSet(h) /\ IsFiniteSet(kept) /\ Cardinality(kept) \in Nat
    BY <1>1, <2>1, FS_Subset, FS_CardinalityType
  <2>3. Cardinality(kept) = Cardinality(seen) - Cardinality(seen \cap h)
    BY <1>1, FS_Difference
  <2>4. seen \cap h = h
    BY <2>1
  <2>5. MaxCache \div 2 >= 1
    BY CapabilityGateAssumption
  <2>6. Cardinality(kept) < MaxCache
    <3>1. Cardinality(kept) = Cardinality(seen) - MaxCache \div 2
      BY <2>1, <2>3, <2>4
    <3>2. MaxCache \div 2 \in Nat
      OBVIOUS
    <3>3. QED
      BY <1>1, <2>5, <3>1, <3>2
  <2>7. QED
    BY <1>3, <1>1, <2>2, <2>6
<1>4. QED
  BY <1>1, <1>2, <1>3

LEMMA CacheStep ==
  ASSUME CacheInv, [Next]_vars
  PROVE  CacheInv'
<1>1. CASE UNCHANGED <<seen, accepted, replayed>>
  BY <1>1 DEF CacheInv, CacheComplete, ReplayNeedsEviction
<1>2. ASSUME NEW c \in Callers, DecideTwoFactor(c), ~UNCHANGED <<seen, accepted, replayed>>
      PROVE  CacheInv'
  <2>. DEFINE t == token[c]
  <2>1. PICK kept \in Kept :
          \/ t \in kept /\ seen' = kept /\ UNCHANGED <<accepted, replayed>>
          \/ /\ t \notin kept /\ seen' = kept \cup {t} /\ accepted' = accepted \cup {t}
             /\ replayed' = IF t \in accepted THEN replayed \cup {t} ELSE replayed
    BY <1>2 DEF DecideTwoFactor
  <2>. HIDE DEF t
  <2>2. /\ kept \subseteq seen /\ IsFiniteSet(kept) /\ Cardinality(kept) \in Nat
        /\ Cardinality(kept) < MaxCache
        /\ Cardinality(seen) < MaxCache => kept = seen
    BY KeptRoom
  <2>3. /\ IsFiniteSet(accepted) /\ seen \subseteq accepted
        /\ Cardinality(accepted) \in Nat /\ Cardinality(seen) \in Nat
        /\ Cardinality(seen) <= Cardinality(accepted)
        /\ Cardinality(accepted) < MaxCache => seen = accepted
        /\ replayed # {} => Cardinality(accepted) >= MaxCache
    BY FS_Subset, FS_CardinalityType DEF CacheInv, CacheComplete, ReplayNeedsEviction
  <2>4. CASE t \in kept /\ seen' = kept /\ UNCHANGED <<accepted, replayed>>
    BY <2>2, <2>3, <2>4 DEF CacheInv, CacheComplete, ReplayNeedsEviction
  <2>5. CASE /\ t \notin kept /\ seen' = kept \cup {t} /\ accepted' = accepted \cup {t}
             /\ replayed' = IF t \in accepted THEN replayed \cup {t} ELSE replayed
    <3>1. /\ IsFiniteSet(accepted') /\ Cardinality(accepted') \in Nat
          /\ Cardinality(accepted) <= Cardinality(accepted')
      <4>1. accepted' = accepted \cup {t}
        BY <2>5
      <4>2. /\ IsFiniteSet(accepted \cup {t})
            /\ Cardinality(accepted \cup {t}) \in Nat
        BY <2>3, FS_AddElement, FS_CardinalityType
      <4>3. Cardinality(accepted) <= Cardinality(accepted \cup {t})
        BY <2>3, <4>2, FS_Subset
      <4>4. QED
        BY <4>1, <4>2, <4>3
    <3>2. Cardinality(seen') <= MaxCache
      <4>1. Cardinality(seen') = Cardinality(kept) + 1
        BY <2>2, <2>5, FS_AddElement
      <4>2. QED
        BY <4>1, <2>2
    <3>3. seen' \subseteq accepted'
      BY <2>2, <2>3, <2>5
    <3>4. Cardinality(accepted') < MaxCache => seen' = accepted'
      BY <2>2, <2>3, <2>5, <3>1
    <3>5. replayed' # {} => Cardinality(accepted') >= MaxCache
      <4>1. CASE t \in accepted
        <5>1. Cardinality(accepted) >= MaxCache
          BY <2>2, <2>3, <2>5, <4>1
        <5>2. QED
          BY <2>3, <3>1, <5>1
      <4>2. CASE t \notin accepted
        BY <2>3, <2>5, <3>1, <4>2
      <4>3. QED
        BY <4>1, <4>2
    <3>6. QED
      BY <3>1, <3>2, <3>3, <3>4, <3>5 DEF CacheInv, CacheComplete, ReplayNeedsEviction
  <2>6. QED
    BY <2>1, <2>4, <2>5
<1>3. QED
  BY <1>1, <1>2 DEF Next, Step, Start, CheckFrozen, CountFailures, Verify, RecordFailure,
     Gate, DecideOpen, Dispatch, Admit, Run, LeaseConsult, LeaseAdmit, Leased, Allow,
     Note, Freeze, Unfreeze, Tick

-----------------------------------------------------------------------------
(* The rate limiter.                                                        *)

RateInv == WindowComplete /\ OnTimeRate

LEMMA RateInit == Init => RateInv
<1>. SUFFICES ASSUME Init PROVE RateInv
  OBVIOUS
<1>1. \A a \in Agents : window[a] = {} /\ onTime[a] = {}
  BY DEF Init
<1>2. WindowComplete
  BY <1>1, FS_EmptySet DEF WindowComplete
<1>3. OnTimeRate
  <2>1. \A a \in Agents, t \in Seconds : InWindow(onTime[a], t) = {}
    BY <1>1 DEF InWindow
  <2>2. Cardinality({}) <= MaxRequests
    BY FS_EmptySet
  <2>3. QED
    BY <2>1, <2>2 DEF OnTimeRate
<1>4. QED
  BY <1>2, <1>3 DEF RateInv

LEMMA RateStep ==
  ASSUME TypeOK, RateInv, [Next]_vars
  PROVE  RateInv'
<1>1. CASE UNCHANGED <<window, latest, onTime>>
  BY <1>1 DEF RateInv, WindowComplete, OnTimeRate, InWindow
<1>2. ASSUME NEW c \in Callers, NEW b \in Agents, Allow(c, b)
      PROVE  RateInv'
  <2>. DEFINE t == now[c]
              w == Recent(window[b], t)
              x == Entry(w, t)
  <2>0. /\ IsFiniteSet(window[b]) /\ IsFiniteSet(onTime[b])
        /\ \A e \in onTime[b] : /\ e.at \in Seconds /\ e.at <= latest[b]
                                /\ latest[b] - e.at < Span => e \in window[b]
        /\ t \in Seconds /\ latest[b] \in Seconds
    BY DEF RateInv, WindowComplete, TypeOK, Entries
  <2>1. /\ IsFiniteSet(w) /\ Cardinality(w) \in Nat
        /\ Allowed(c, b) <=> Cardinality(w) < MaxRequests
    BY <2>0, RecentShrinks DEF Allowed, Full
  <2>2. /\ window' = [window EXCEPT ![b] = IF Allowed(c, b) THEN w \cup {x} ELSE w]
        /\ latest' = [latest EXCEPT ![b] = IF t > @ THEN t ELSE @]
        /\ onTime' = IF Allowed(c, b) /\ t >= latest[b]
                     THEN [onTime EXCEPT ![b] = @ \cup {x}] ELSE onTime
    <3>1. window' = [window EXCEPT ![b] = IF Allowed(c, b) THEN w \cup {x} ELSE w]
      BY <1>2 DEF Allow, Record, TypeOK
    <3>2. latest' = [latest EXCEPT ![b] = IF t > @ THEN t ELSE @]
      BY <1>2 DEF Allow, Note
    <3>3. CASE Allowed(c, b) /\ t >= latest[b]
      BY <1>2, <3>1, <3>2, <3>3 DEF Allow, Note
    <3>4. CASE ~(Allowed(c, b) /\ t >= latest[b])
      BY <1>2, <3>1, <3>2, <3>4 DEF Allow, Note
    <3>5. QED
      BY <3>3, <3>4
  <2>3. x.at = t
    BY DEF Entry
  <2>4. \A e \in onTime[b] : t - e.at < Span /\ e \in window[b] => e \in w
    BY DEF Recent
  <2>5. /\ IsFiniteSet(w \cup {x}) /\ IsFiniteSet(onTime[b] \cup {x})
    BY <2>0, <2>1, FS_AddElement
  <2>. HIDE DEF x, w, t
  <2>6. \A a \in Agents : a # b => /\ window'[a] = window[a] /\ latest'[a] = latest[a]
                                   /\ onTime'[a] = onTime[a]
    BY <2>2 DEF TypeOK
  <2>7. /\ window'[b] = IF Allowed(c, b) THEN w \cup {x} ELSE w
        /\ latest'[b] = IF t > latest[b] THEN t ELSE latest[b]
        /\ onTime'[b] = IF Allowed(c, b) /\ t >= latest[b] THEN onTime[b] \cup {x}
                                                           ELSE onTime[b]
    BY <2>2 DEF TypeOK
  <2>8. WindowComplete'
    <3>1. IsFiniteSet(window'[b]) /\ IsFiniteSet(onTime'[b])
      BY <2>0, <2>1, <2>5, <2>7
    <3>2. \A e \in onTime[b] : /\ e.at <= latest'[b]
                               /\ latest'[b] - e.at < Span => e \in window'[b]
      BY <2>0, <2>4, <2>7 DEF Seconds
    <3>3. onTime'[b] # onTime[b] => x.at <= latest'[b] /\ x \in window'[b]
      BY <2>0, <2>3, <2>7 DEF Seconds
    <3>4. \A e \in onTime'[b] : /\ e.at <= latest'[b]
                                /\ latest'[b] - e.at < Span => e \in window'[b]
      BY <2>7, <3>2, <3>3
    <3>5. QED
      BY <2>6, <3>1, <3>4 DEF RateInv, WindowComplete
  <2>9. OnTimeRate'
    <3>. SUFFICES ASSUME NEW a \in Agents, NEW s \in Seconds
                  PROVE  Cardinality(InWindow(onTime'[a], s)) <= MaxRequests
      BY DEF OnTimeRate, InWindow
    <3>1. Cardinality(InWindow(onTime[a], s)) <= MaxRequests
      BY DEF RateInv, OnTimeRate
    <3>2. CASE onTime'[a] = onTime[a]
      BY <3>1, <3>2
    <3>3. CASE onTime'[a] # onTime[a]
      <4>1. a = b /\ Cardinality(w) < MaxRequests /\ t >= latest[b]
            /\ onTime'[a] = onTime[b] \cup {x}
        BY <2>1, <2>6, <2>7, <3>3
      <4>2. CASE ~(s - Span < t /\ t <= s)
        <5>1. InWindow(onTime'[a], s) = InWindow(onTime[a], s)
          BY <2>3, <4>1, <4>2 DEF InWindow
        <5>2. QED
          BY <3>1, <5>1
      <4>3. CASE s - Span < t /\ t <= s
        <5>1. \A e \in onTime[b] : s - Span < e.at => e \in w
          BY <2>0, <2>4, <4>1, <4>3 DEF Seconds
        <5>2. InWindow(onTime'[a], s) \subseteq w \cup {x}
          BY <4>1, <5>1 DEF InWindow
        <5>3. Cardinality(w \cup {x}) <= Cardinality(w) + 1 /\ Cardinality(w \cup {x}) \in Nat
          BY <2>1, <2>5, FS_AddElement, FS_CardinalityType
        <5>4. /\ Cardinality(InWindow(onTime'[a], s)) \in Nat
              /\ Cardinality(InWindow(onTime'[a], s)) <= Cardinality(w \cup {x})
          BY <2>5, <5>2, FS_Subset, FS_CardinalityType
        <5>5. QED
          BY <2>1, <4>1, <5>3, <5>4
      <4>4. QED
        BY <4>2, <4>3
    <3>4. QED
      BY <3>2, <3>3
  <2>10. QED
    BY <2>8, <2>9 DEF RateInv
<1>3. \A c \in Callers : Admit(c) \/ LeaseAdmit(c) =>
        request[c].agent \in Agents /\ Allow(c, request[c].agent)
  BY DEF Admit, LeaseAdmit, TypeOK
<1>4. QED
  BY <1>1, <1>2, <1>3 DEF Next, Step, Start, CheckFrozen, CountFailures, Verify,
     RecordFailure, Gate, DecideOpen, DecideTwoFactor, Dispatch, Run, LeaseConsult,
     Leased, Freeze, Unfreeze, Tick

-----------------------------------------------------------------------------
IInv == TypeOK /\ Finite /\ CallInv /\ Throttled /\ CacheInv /\ RateInv

LEMMA FiniteInit == Init => Finite
BY FS_EmptySet DEF Init, Finite

LEMMA IInvHolds == Spec => []IInv
<1>1. Init => IInv
  BY TypeInit, FiniteInit, CallInvInit, ThrottledInit, CacheInit, RateInit DEF IInv
<1>2. IInv /\ [Next]_vars => IInv'
  BY TypeStep, FiniteStep, CallInvStep, ThrottledStep, CacheStep, RateStep DEF IInv
<1>3. QED
  BY <1>1, <1>2, PTL DEF Spec

(* The variables keep their types. *)
THEOREM TypeCorrect == Spec => []TypeOK
BY IInvHolds, PTL DEF IInv

(* The log and what a call did agree, whichever writes fail. *)
THEOREM RowsCorrect == Spec => []RowsTellOutcome
BY IInvHolds, PTL DEF IInv, CallInv

(* A freeze before the hook is consulted stops the handler. *)
THEOREM FreezeCorrect == Spec => []FreezeStopsHandler
BY IInvHolds, PTL DEF IInv, CallInv

(* Failures overshoot their cap by at most the number of threads, less one. *)
THEOREM LockoutCorrect == Spec => []LockoutOvershoot
<1>1. Throttled => LockoutOvershoot
  <2>. SUFFICES ASSUME Throttled, NEW a \in Agents
                PROVE  Cardinality(failures[a]) <= MaxFailures - 1 + Cardinality(Callers)
    BY DEF LockoutOvershoot
  <2>1. /\ Cardinality(failures[a]) \in Nat /\ Cardinality(InFlight(a)) \in Nat
        /\ Cardinality(Callers) \in Nat
        /\ Cardinality(failures[a]) + Cardinality(InFlight(a))
             <= MaxFailures - 1 + Cardinality(Callers)
    BY FS_CardinalityType, FS_Subset DEF Throttled, InFlight
  <2>2. QED
    BY <2>1
<1>2. QED
  BY <1>1, IInvHolds, PTL DEF IInv

(* A token is accepted twice only after the cache was full. *)
THEOREM ReplayCorrect == Spec => []ReplayNeedsEviction
BY IInvHolds, PTL DEF IInv, CacheInv

(* Admissions on time respect the window, for any delays of the others. *)
THEOREM RateCorrect == Spec => []OnTimeRate
BY IInvHolds, PTL DEF IInv, RateInv
=============================================================================
