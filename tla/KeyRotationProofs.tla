-------------------------- MODULE KeyRotationProofs --------------------------
(***************************************************************************)
(* Proofs about KeyRotation, for any number of names, threads, epochs and   *)
(* faults: any thread stores, leases, revokes and rotates, any step raises, *)
(* and the process dies anywhere.  Each property excuses what it names.     *)
(***************************************************************************)
EXTENDS KeyRotation, FiniteSetTheorems, TLAPS

-----------------------------------------------------------------------------
(***************************************************************************)
(* The inductive invariants.                                               *)
(***************************************************************************)

\* What is under way now has been recorded, and so has the file in place.
Recorded ==
  /\ keychain.state = "whole" => keychain.epoch \in named
  /\ Overlap => "overlap" \in history
  /\ Interleave => "interleave" \in history
  /\ Overtake => "overtake" \in history

\* The keyring entry and the keychain file come into being with the process,
\* what its manager holds, if anything, is the DEK in use, and a file that is not
\* whole holds nothing.
Lifecycle ==
  /\ \A f \in {keychain, newKeychain} : f.state # "whole" => f \in {Absent, Torn}
  /\ process = "down" => \A t \in Threads : pc[t] = "idle"
  /\ keychain = Absent => /\ process = "down" /\ newKeychain = Absent /\ named = {}
                          /\ \A n \in Names : active[n] = NoKey
  /\ master = NoKey => keychain = Absent
  /\ managerDek \in {NoKey, dek}

Base == TypeOK /\ Recorded /\ Lifecycle

\* The steps of a rotation that has its epoch and has wrapped nothing for it yet.
Claiming == {"master_rewrap", "dek_master", "dek_init"}

\* Every epoch that a file was, is or will be wrapped for is spent once.
EpochInv == "interleave" \notin history =>
  /\ \A e \in named : e <= dbEpoch
  /\ newKeychain.state = "whole" => newKeychain.epoch <= dbEpoch /\ newKeychain.epoch \notin named
  /\ \A t \in Threads :
       /\ pc[t] = "epoch_write" => newEpoch[t] = dbEpoch + 1
       /\ pc[t] \in Claiming =>
            /\ newEpoch[t] <= dbEpoch /\ newEpoch[t] \notin named
            /\ newKeychain.state = "whole" => newKeychain.epoch # newEpoch[t]
  /\ \A t, u \in Threads :
       t # u /\ pc[t] \in Claiming /\ pc[u] \in Claiming => newEpoch[t] # newEpoch[u]

\* The four stores agree.
Agree == Loads(dbEpoch, master) /\ keychain.dek = dek /\ managerDek = dek

\* What the one rotating thread knows.
Knows(t) ==
  /\ pc[t] \in {"epoch_read", "epoch_write"} =>
       IF rotating[t] = "master" THEN masterSecret[t] = master
                                 ELSE lastRotation = "completed" => Agree
  /\ pc[t] = "epoch_write" => newEpoch[t] = dbEpoch + 1
  /\ pc[t] \in {"master_rewrap", "dek_init", "dek_rewrite", "dek_replace", "dek_load"} =>
       masterSecret[t] = master
  /\ pc[t] \in Claiming \union {"dek_rewrite", "dek_replace", "dek_load"} => newEpoch[t] = dbEpoch
  /\ pc[t] \in Claiming \union {"dek_rewrite", "dek_replace"} /\ keychain.state = "whole" =>
       keychain.epoch < dbEpoch

RestartInv == Never({"overlap"}) =>
  /\ process = "up" /\ ~Rotating /\ lastRotation = "completed" => Agree
  /\ \A f \in {keychain, newKeychain} : f.state = "whole" => f.epoch <= dbEpoch
  /\ \A t \in Threads : Knows(t)

RowsUnder(d) == \A n \in Names : active[n] \in {NoKey, d}
Calm == Never({"overlap", "overtake", "split"})

\* The rows, the files and the memory while nothing that ActiveReadable excuses
\* has happened.
RowsKnown(t) ==
  /\ pc[t] = "set_store" => ciphertext[t] = dek
  /\ pc[t] \in {"dek_rewrite", "dek_replace"} =>
       newKeychain = Wrapped(newEpoch[t], newDek[t], masterSecret[t])
  /\ pc[t] = "dek_replace" => RowsUnder(newDek[t])
  /\ pc[t] = "dek_load" => /\ keychain.state = "whole" /\ keychain.master = master
                           /\ RowsUnder(keychain.dek)

RowsInv == Calm =>
  /\ process = "up" /\ ~Publishing => RowsUnder(dek)
  /\ process = "up" /\ keychain.state = "whole" /\ (\A t \in Threads : pc[t] # "dek_load") =>
       keychain.dek = dek
  /\ process = "down" => DataRecoverable
  /\ process = "down" /\ Loads(dbEpoch, master) => RowsUnder(keychain.dek)
  /\ \A t \in Threads : RowsKnown(t)

\* A lease of a current version that no rotation has overtaken holds a
\* ciphertext it can decrypt.
LeaseInv == ExplicitVersions = FALSE /\ Calm =>
  \A t \in Threads :
    /\ pc[t] = "failed" => t \in raced
    /\ pc[t] = "lease_decrypt" /\ t \notin raced => ~Publishing /\ ciphertext[t] = dek

\* The encryptions of the DEK in use that are not counted, the threads about to
\* count one, and whether a rotation of the DEK is under way.
Storing   == {t \in Threads : pc[t] \in {"set_store", "set_tally"}}
Replacing == IF \E t \in Threads : rotating[t] = "dek" THEN 1 ELSE 0
Forgiven  == failures + Cardinality(Threads) * crashes

BudgetInv ==
  /\ \A t \in Threads : rotating[t] = "dek" =>
       pc[t] \in (RotationSteps \ {"master_rewrap"}) \union {"dek_reset"}
  /\ Never({"overlap", "overtake"}) =>
       /\ sealed <= Forgiven + dbUsage.count + Cardinality(Storing)
       /\ dbUsage.count < Forgiven + DEK_MAX_ENCRYPTIONS + Replacing
       /\ sealed < Forgiven + DEK_MAX_ENCRYPTIONS + Cardinality(Storing) + Replacing
       /\ \A t \in Threads : pc[t] = "dek_reset" => sealed = 0

-----------------------------------------------------------------------------
USE DEF vars, durable, files, rows, memory, locals, fresh, ghosts, record

LEMMA WrappedIsFile ==
  ASSUME NEW e \in Nat, NEW d \in Nat, NEW m \in Nat
  PROVE  Wrapped(e, d, m) \in Files
BY DEF Wrapped, Files

LEMMA NoFileIsFile == Absent \in Files /\ Torn \in Files
BY DEF Absent, Torn, Files, NoKey

LEMMA RetiredTypes ==
  ASSUME NEW keys \in [Names -> SUBSET Nat], active \in [Names -> Nat], NEW n
  PROVE  Retired(keys, n) \in [Names -> SUBSET Nat]
<1>1. ASSUME n \in Names PROVE keys[n] \union ({active[n]} \ {NoKey}) \in SUBSET Nat
  BY <1>1 DEF NoKey
<1>2. CASE n \in Names
  BY <1>1, <1>2 DEF Retired
<1>3. CASE n \notin Names
  BY <1>3 DEF Retired
<1> QED BY <1>2, <1>3

\* The locals of the calls.
LocalTypes ==
  /\ pc \in [Threads -> PCs]
  /\ rotating \in [Threads -> {"none", "master", "dek"}]
  /\ secret \in [Threads -> Names \union {NoKey}]
  /\ ciphertext \in [Threads -> Nat]
  /\ newEpoch \in [Threads -> Nat]
  /\ newDek \in [Threads -> Nat]
  /\ masterSecret \in [Threads -> Nat]

\* Threads other than t are where they were.
OthersKept(t) == \A u \in Threads : u # t =>
  /\ pc'[u] = pc[u] /\ rotating'[u] = rotating[u] /\ secret'[u] = secret[u]
  /\ ciphertext'[u] = ciphertext[u] /\ newEpoch'[u] = newEpoch[u]
  /\ newDek'[u] = newDek[u] /\ masterSecret'[u] = masterSecret[u]

\* A call that ends leaves the locals of the types they had ...
LEMMA ReturnFrame ==
  ASSUME TypeOK, NEW t \in Threads, Return(t)
  PROVE  LocalTypes' /\ OthersKept(t) /\ pc'[t] = "idle" /\ rotating'[t] = "none"
BY DEF TypeOK, LocalTypes, OthersKept, Return, Goto, PCs, NoKey

\* ... and so does one that ends with a fault, which changes nothing else.
LEMMA FailsFrame ==
  ASSUME TypeOK, NEW t \in Threads, Fails(t)
  PROVE  /\ LocalTypes' /\ OthersKept(t) /\ pc'[t] = "idle" /\ rotating'[t] = "none"
         /\ failures' = failures + 1
         /\ UNCHANGED <<durable, memory, fresh, crashes, sealed>>
BY ReturnFrame DEF Fails, Raise

LEMMA RaiseFrame ==
  ASSUME TypeOK, NEW t \in Threads, Raise(t)
  PROVE  /\ LocalTypes' /\ OthersKept(t) /\ pc'[t] = "idle" /\ rotating'[t] = "none"
         /\ failures' = failures + 1
BY ReturnFrame DEF Raise

\* What a step of a call does to the calls: it moves its own.
LEMMA StepFrame ==
  ASSUME TypeOK, NEW t \in Threads, Step(t)
  PROVE  /\ LocalTypes' /\ OthersKept(t)
         /\ process = "up" /\ process' = "up" /\ crashes' = crashes
<1> USE DEF TypeOK, LocalTypes, OthersKept, Goto, At, PCs, NoKey
<1>1. ASSUME NEW n \in Names, SetEncrypt(t, n) \/ Revoke(t, n) \/ LeaseRead(t, n)
      PROVE  /\ LocalTypes' /\ OthersKept(t)
             /\ process = "up" /\ process' = "up" /\ crashes' = crashes
  BY <1>1 DEF SetEncrypt, Revoke, LeaseRead
<1>2. CASE SetStore(t) \/ EpochRead(t) \/ EpochWrite(t) \/ DekMaster(t)
  <2>1. CASE Fails(t)
    BY <1>2, <2>1, FailsFrame DEF SetStore, EpochRead, EpochWrite, DekMaster
  <2>2. CASE ~Fails(t)
    BY <1>2, <2>2 DEF SetStore, EpochRead, EpochWrite, DekMaster
  <2> QED BY <2>1, <2>2
<1>3. CASE SetTally(t) \/ DekReset(t)
  <2>1. CASE Fails(t)
    BY <1>3, <2>1, FailsFrame DEF SetTally, DekReset
  <2>2. CASE Return(t)
    BY <1>3, <2>2, ReturnFrame DEF SetTally, DekReset, Fails
  <2>3. CASE ~Fails(t) /\ ~Return(t)
    BY <1>3, <2>3 DEF SetTally, DekReset
  <2> QED BY <2>1, <2>2, <2>3
<1>4. CASE LeaseDecrypt(t) \/ RotateMasterKey(t) \/ RotateDek(t)
  BY <1>4 DEF LeaseDecrypt, RotateMasterKey, RotateDek
<1>5. CASE LeaseEnd(t)
  BY <1>5, ReturnFrame DEF LeaseEnd
<1>6. CASE RewrapDek(t)
  BY <1>6, ReturnFrame DEF RewrapDek, Raise
<1>7. CASE DekInit(t) \/ DekRewrite(t) \/ DekReplace(t) \/ DekLoad(t)
  <2>1. CASE Raise(t)
    BY <1>7, <2>1, RaiseFrame DEF DekInit, DekRewrite, DekReplace, DekLoad
  <2>2. CASE ~Raise(t)
    BY <1>7, <2>2 DEF DekInit, DekRewrite, DekReplace, DekLoad
  <2> QED BY <2>1, <2>2
<1> QED BY <1>1, <1>2, <1>3, <1>4, <1>5, <1>6, <1>7 DEF Step

LEMMA TypeStep ==
  ASSUME TypeOK, [Next]_vars
  PROVE  TypeOK'
<1> USE KeyRotationAssumption
<1> DEFINE StoreTypes ==
      /\ master \in Nat /\ dbEpoch \in Nat /\ keychain \in Files /\ newKeychain \in Files
      /\ dbUsage \in [count : Nat, bytes : Nat]
      /\ active \in [Names -> Nat] /\ superseded \in [Names -> SUBSET Nat]
      /\ revoked \in [Names -> SUBSET Nat]
      /\ process \in {"down", "up"} /\ dek \in Nat /\ managerDek \in Nat
      /\ deks \in Nat /\ masters \in Nat
      /\ crashes \in Nat /\ failures \in Nat /\ sealed \in Nat
<1>1. ASSUME InitializeVault PROVE StoreTypes' /\ LocalTypes'
  BY <1>1, WrappedIsFile DEF InitializeVault, TypeOK, LocalTypes
<1>2. ASSUME OpenVault PROVE StoreTypes' /\ LocalTypes'
  BY <1>2 DEF OpenVault, TypeOK, LocalTypes, Files
<1>3. ASSUME Crash PROVE StoreTypes' /\ LocalTypes'
  BY <1>3, NoFileIsFile DEF Crash, TypeOK, LocalTypes, PCs, NoKey
<1>7. CASE UNCHANGED vars
  BY <1>7 DEF TypeOK
<1>4. ASSUME NEW t \in Threads, Step(t) PROVE StoreTypes'
  <2>1. ASSUME NEW n \in Names, SetEncrypt(t, n) \/ Revoke(t, n) \/ LeaseRead(t, n)
        PROVE  StoreTypes'
    BY <2>1, RetiredTypes DEF SetEncrypt, Revoke, LeaseRead, TypeOK, NoKey
  <2>14. CASE Fails(t)
    BY <2>14, FailsFrame DEF TypeOK
  <2>2. CASE SetStore(t) /\ ~Fails(t)
    <3>1. superseded' \in [Names -> SUBSET Nat]
      BY <2>2, RetiredTypes DEF SetStore, TypeOK
    <3> QED BY <2>2, <3>1 DEF SetStore, TypeOK
  <2>3. CASE SetTally(t) /\ ~Fails(t)
    BY <2>3 DEF SetTally, TypeOK
  <2>4. CASE LeaseDecrypt(t) \/ LeaseEnd(t) \/ RotateMasterKey(t) \/ RotateDek(t)
    BY <2>4 DEF LeaseDecrypt, LeaseEnd, RotateMasterKey, RotateDek, TypeOK
  <2>5. CASE EpochRead(t) /\ ~Fails(t)
    BY <2>5 DEF EpochRead, TypeOK
  <2>6. CASE EpochWrite(t) /\ ~Fails(t)
    BY <2>6 DEF EpochWrite, TypeOK
  <2>7. CASE RewrapDek(t)
    BY <2>7, WrappedIsFile, NoFileIsFile DEF RewrapDek, Raise, TypeOK
  <2>8. CASE DekMaster(t) /\ ~Fails(t)
    BY <2>8 DEF DekMaster, TypeOK
  <2>9. CASE DekInit(t)
    BY <2>9, WrappedIsFile, NoFileIsFile DEF DekInit, Raise, TypeOK
  <2>10. CASE DekRewrite(t)
    BY <2>10 DEF DekRewrite, Raise, NoKey, TypeOK
  <2>11. CASE DekReplace(t)
    BY <2>11, NoFileIsFile DEF DekReplace, Raise, NoKey, TypeOK
  <2>12. CASE DekLoad(t)
    BY <2>12 DEF DekLoad, Raise, Files, TypeOK
  <2>13. CASE DekReset(t) /\ ~Fails(t)
    BY <2>13 DEF DekReset, TypeOK
  <2> QED BY <1>4, <2>1, <2>14, <2>2, <2>3, <2>4, <2>5, <2>6, <2>7, <2>8, <2>9, <2>10, <2>11,
             <2>12, <2>13
          DEF Step
<1>5. ASSUME NEW t \in Threads, Step(t) PROVE LocalTypes'
  BY <1>5, StepFrame
<1>6. CASE Next
  <2>1. StoreTypes' /\ LocalTypes'
    BY <1>6, <1>1, <1>2, <1>3, <1>4, <1>5 DEF Next, TypeOK, LocalTypes
  <2>2. Remember
    BY <1>6 DEF Next
  <2>3. history' \subseteq Events /\ lastRotation' \in {"completed", "raised"} /\ raced' \subseteq Threads
    BY <2>2 DEF Remember, TypeOK
  <2>4. named' \subseteq Nat
    BY <2>1, <2>2 DEF Remember, TypeOK, Files
  <2> QED BY <2>1, <2>3, <2>4 DEF TypeOK, LocalTypes
<1> QED BY <1>7, <1>6

\* Every reachable state is well typed: no counter goes below zero, no key is
\* wrapped or stored that is not a key.
THEOREM TypeCorrect == Spec => []TypeOK
<1>1. Init => TypeOK
  BY DEF Init, TypeOK, Files, Absent, PCs, NoKey
<1> QED BY <1>1, TypeStep, PTL DEF Spec

-----------------------------------------------------------------------------
(***************************************************************************)
(* What every step does to the record, the keys and the rows.               *)
(***************************************************************************)

\* The history only grows, and what is under way after a step is in it.
LEMMA HistoryStep ==
  ASSUME TypeOK, Next
  PROVE  history \subseteq history' /\ Recorded'
BY DEF Next, Remember, Recorded, Events, TypeOK

\* Only these steps touch the keyring, the keychain files, the epoch or the
\* keys in memory ...
KeySteps(t) == \/ RotateMasterKey(t) \/ EpochWrite(t) \/ RewrapDek(t)
               \/ DekInit(t) \/ DekReplace(t) \/ DekLoad(t)

LEMMA KeysKept ==
  ASSUME NEW t \in Threads, Step(t), ~KeySteps(t)
  PROVE  UNCHANGED <<master, files, dbEpoch, memory>>
<1>1. CASE Fails(t)
  BY <1>1 DEF Fails
<1> QED
  BY <1>1
  DEF KeySteps, Step, SetEncrypt, Revoke, LeaseRead, SetStore, SetTally, LeaseDecrypt, LeaseEnd,
      RotateDek, EpochRead, DekMaster, DekRewrite, DekReset

\* ... and only these the ACTIVE rows.
RowSteps(t) == SetStore(t) \/ (\E n \in Names : Revoke(t, n)) \/ DekRewrite(t)

LEMMA RowsKept ==
  ASSUME NEW t \in Threads, Step(t), ~RowSteps(t)
  PROVE  UNCHANGED active
<1>1. CASE Fails(t)
  BY <1>1 DEF Fails
<1> QED
  BY <1>1
  DEF RowSteps, Step, SetEncrypt, LeaseRead, SetTally, LeaseDecrypt, LeaseEnd, RotateMasterKey,
      RotateDek, EpochRead, EpochWrite, RewrapDek, DekMaster, DekInit, DekReplace, DekLoad, DekReset

LEMMA WholeIsPresent ==
  /\ Torn # Absent /\ Torn.state = "torn" /\ Absent.state = "absent"
  /\ Torn.master = NoKey /\ Absent.master = NoKey
  /\ \A e, d, m : /\ Wrapped(e, d, m).state = "whole" /\ Wrapped(e, d, m) # Absent
                  /\ Wrapped(e, d, m).epoch = e /\ Wrapped(e, d, m).dek = d
                  /\ Wrapped(e, d, m).master = m
BY DEF Torn, Absent, Wrapped

LEMMA LifecycleStep ==
  ASSUME Base, TypeOK', Next
  PROVE  Lifecycle'
<1> USE WholeIsPresent DEF Base, Lifecycle
<1>1. CASE InitializeVault
  BY <1>1 DEF InitializeVault, TypeOK, NoKey
<1>2. CASE OpenVault
  BY <1>2 DEF OpenVault, Loads
<1>3. CASE Crash
  BY <1>3 DEF Crash, NoKey
<1>4. ASSUME NEW t \in Threads, Step(t) PROVE Lifecycle'
  <2>1. process = "up" /\ process' = "up" /\ keychain # Absent /\ master # NoKey
    BY <1>4, StepFrame
  <2>2. CASE ~KeySteps(t)
    BY <1>4, <2>1, <2>2, KeysKept
  <2>3. CASE EpochWrite(t)
    <3>1. UNCHANGED <<master, files, dek, managerDek>>
      BY <2>3 DEF EpochWrite, Fails
    <3> QED BY <2>1, <3>1
  <2>4. CASE RotateMasterKey(t)
    BY <2>1, <2>4 DEF RotateMasterKey, TypeOK, NoKey
  <2>5. CASE RewrapDek(t)
    BY <2>1, <2>5 DEF RewrapDek
  <2>6. CASE DekInit(t)
    BY <2>1, <2>6 DEF DekInit
  <2>7. CASE DekReplace(t)
    BY <2>1, <2>7 DEF DekReplace
  <2>8. CASE DekLoad(t)
    BY <2>1, <2>8 DEF DekLoad
  <2> QED BY <2>2, <2>3, <2>4, <2>5, <2>6, <2>7, <2>8 DEF KeySteps
<1> QED BY <1>1, <1>2, <1>3, <1>4 DEF Next

LEMMA BaseInductive ==
  /\ Init => Base
  /\ Base /\ [Next]_vars => Base'
<1>1. Init => Base
  BY DEF Init, Base, TypeOK, Files, Absent, PCs, NoKey, Recorded, Overlap, Interleave, Overtake,
         Lifecycle, RotationSteps
<1>2. ASSUME Base, Next PROVE Base'
  <2>1. TypeOK'
    BY <1>2, TypeStep DEF Base
  <2> QED BY <1>2, <2>1, HistoryStep, LifecycleStep DEF Base
<1>3. ASSUME Base, UNCHANGED vars PROVE Base'
  BY <1>3, TypeStep DEF Base, Recorded, Overlap, Interleave, Overtake, Lifecycle
<1> QED BY <1>1, <1>2, <1>3

-----------------------------------------------------------------------------
(***************************************************************************)
(* Epochs.                                                                 *)
(***************************************************************************)

LEMMA EpochInductive ==
  /\ Init => EpochInv
  /\ Base /\ EpochInv /\ [Next]_vars => EpochInv'
<1> USE WholeIsPresent
<1>1. Init => EpochInv
  BY DEF Init, EpochInv, Claiming
<1>2. ASSUME Base, EpochInv, UNCHANGED vars PROVE EpochInv'
  BY <1>2 DEF EpochInv
<1>3. ASSUME Base, EpochInv, Next PROVE EpochInv'
  <2> SUFFICES ASSUME "interleave" \notin history' PROVE EpochInv'
    BY DEF EpochInv
  <2>1. /\ "interleave" \notin history /\ ~Interleave /\ ~Interleave'
        /\ TypeOK /\ TypeOK'
        /\ keychain.state = "whole" => keychain.epoch \in named
        /\ named' = named \union (IF keychain'.state = "whole" THEN {keychain'.epoch} ELSE {})
        /\ keychain'.state = "whole" => keychain'.epoch \in Nat
    BY <1>3, HistoryStep, TypeStep DEF Base, Recorded, Next, Remember, TypeOK, Files
  <2>2. CASE InitializeVault
    <3>1. /\ named' = {dbEpoch} /\ dbEpoch' = dbEpoch /\ newKeychain' = Absent
          /\ \A t \in Threads : pc'[t] = "idle"
      BY <1>3, <2>1, <2>2 DEF InitializeVault, Base, Lifecycle
    <3> QED BY <2>1, <3>1 DEF EpochInv, Claiming, TypeOK
  <2>3. CASE OpenVault
    <3>1. named' = named /\ UNCHANGED <<dbEpoch, newKeychain, pc, newEpoch>>
      BY <2>1, <2>3 DEF OpenVault
    <3> QED BY <1>3, <2>1, <3>1 DEF EpochInv
  <2>4. CASE Crash
    <3>1. /\ named' = named /\ dbEpoch' = dbEpoch /\ newKeychain' \in {newKeychain, Torn}
          /\ \A t \in Threads : pc'[t] = "idle"
      BY <2>1, <2>4 DEF Crash
    <3> QED BY <1>3, <2>1, <3>1 DEF EpochInv, Claiming
  <2>5. ASSUME NEW t \in Threads, Step(t) PROVE EpochInv'
    <3>1. OthersKept(t) /\ pc' \in [Threads -> PCs]
      BY <2>1, <2>5, StepFrame DEF LocalTypes
    <3>2. ASSUME named' = named, UNCHANGED <<dbEpoch, newKeychain>>,
                 pc'[t] \notin Claiming \union {"epoch_write"}
          PROVE  EpochInv'
      BY <1>3, <2>1, <3>1, <3>2 DEF EpochInv, OthersKept
    <3>3. CASE Fails(t)
      BY <2>1, <3>2, <3>3, FailsFrame DEF Claiming
    <3>4. CASE ~KeySteps(t) /\ ~EpochRead(t) /\ ~DekMaster(t) /\ ~Fails(t)
      <4>1. named' = named /\ UNCHANGED <<dbEpoch, newKeychain>>
        BY <2>1, <2>5, <3>4, KeysKept
      <4>2. pc'[t] \notin Claiming \union {"epoch_write"}
        BY <2>1, <2>5, <3>4, ReturnFrame
        DEF Step, KeySteps, SetEncrypt, Revoke, LeaseRead, SetStore, SetTally, LeaseDecrypt,
            LeaseEnd, RotateDek, DekRewrite, DekReset, Raise, Goto, At, Claiming, TypeOK
      <4> QED BY <3>2, <4>1, <4>2
    <3>5. CASE EpochRead(t) /\ ~Fails(t)
      <4>1. /\ pc'[t] = "epoch_write" /\ newEpoch'[t] = dbEpoch + 1 /\ named' = named
            /\ UNCHANGED <<dbEpoch, newKeychain>>
        BY <2>1, <3>5 DEF EpochRead, Goto, TypeOK
      <4> QED BY <1>3, <2>1, <3>1, <4>1 DEF EpochInv, OthersKept, Claiming
    <3>6. CASE EpochWrite(t) /\ ~Fails(t)
      <4>1. /\ pc[t] = "epoch_write" /\ pc'[t] \in Claiming /\ dbEpoch' = newEpoch[t]
            /\ named' = named /\ UNCHANGED <<newEpoch, newKeychain>>
        BY <2>1, <3>6 DEF EpochWrite, At, Goto, TypeOK, Claiming
      <4>2. newEpoch[t] = dbEpoch + 1 /\ dbEpoch \in Nat /\ named \subseteq Nat
        BY <1>3, <2>1, <4>1 DEF EpochInv, TypeOK
      <4>3. \A u \in Threads : u # t => pc[u] # "epoch_write"
        BY <2>1, <4>1 DEF Interleave
      <4>4. newKeychain.state = "whole" => newKeychain.epoch \in Nat
        BY <2>1 DEF TypeOK, Files
      <4>5. newEpoch \in [Threads -> Nat]
        BY <2>1 DEF TypeOK
      <4> QED BY <1>3, <2>1, <3>1, <4>1, <4>2, <4>3, <4>4, <4>5 DEF EpochInv, OthersKept, Claiming
    <3>7. CASE DekMaster(t) /\ ~Fails(t)
      <4>1. /\ pc[t] = "dek_master" /\ pc'[t] = "dek_init" /\ named' = named
            /\ UNCHANGED <<newEpoch, dbEpoch, newKeychain>>
        BY <2>1, <3>7 DEF DekMaster, At, Goto, TypeOK
      <4> QED BY <1>3, <2>1, <3>1, <4>1 DEF EpochInv, OthersKept, Claiming
    <3>8. CASE RewrapDek(t)
      <4>1. /\ pc[t] = "master_rewrap" /\ pc'[t] = "idle" /\ UNCHANGED <<dbEpoch, newKeychain>>
            /\ named' = named \/ named' = named \union {newEpoch[t]}
        BY <2>1, <3>8, ReturnFrame DEF RewrapDek, Raise, At
      <4> QED BY <1>3, <2>1, <3>1, <4>1 DEF EpochInv, OthersKept, Claiming
    <3>9. CASE DekInit(t)
      <4>1. pc[t] = "dek_init" /\ named' = named /\ dbEpoch' = dbEpoch
        BY <2>1, <3>9 DEF DekInit, At
      <4>2. CASE Raise(t)
        <5>1. pc'[t] = "idle" /\ newKeychain' \in {newKeychain, Torn, Wrapped(newEpoch[t], newDek[t], masterSecret[t])}
          BY <2>1, <3>9, <4>2, RaiseFrame DEF DekInit
        <5> QED BY <1>3, <2>1, <3>1, <4>1, <5>1 DEF EpochInv, OthersKept, Claiming
      <4>3. CASE ~Raise(t)
        <5>1. pc'[t] = "dek_rewrite" /\ newKeychain' = Wrapped(newEpoch[t], newDek[t], masterSecret[t])
          BY <2>1, <3>9, <4>3 DEF DekInit, Goto, TypeOK
        <5> QED BY <1>3, <2>1, <3>1, <4>1, <5>1 DEF EpochInv, OthersKept, Claiming
      <4> QED BY <4>2, <4>3
    <3>10. CASE DekReplace(t)
      <4>1. /\ pc'[t] \in {"idle", "dek_load"} /\ dbEpoch' = dbEpoch
            /\ \/ named' = named /\ newKeychain' = newKeychain
               \/ keychain' = newKeychain /\ newKeychain' = Absent
        BY <2>1, <3>10, ReturnFrame DEF DekReplace, Raise, Goto, TypeOK
      <4> QED BY <1>3, <2>1, <3>1, <4>1 DEF EpochInv, OthersKept, Claiming
    <3>11. CASE RotateMasterKey(t) \/ DekLoad(t)
      <4>1. /\ named' = named /\ UNCHANGED <<dbEpoch, newKeychain>>
            /\ pc'[t] \in {"epoch_read", "idle", "dek_reset"}
        BY <2>1, <3>11, ReturnFrame DEF RotateMasterKey, DekLoad, Raise, Goto, TypeOK
      <4> QED BY <3>2, <4>1 DEF Claiming
    <3> QED BY <3>3, <3>4, <3>5, <3>6, <3>7, <3>8, <3>9, <3>10, <3>11 DEF KeySteps
  <2> QED BY <1>3, <2>2, <2>3, <2>4, <2>5 DEF Next
<1> QED BY <1>1, <1>2, <1>3

\* However calls overlap, raise and are cut off by crashes: no epoch is that of
\* two keychain files, unless two calls of increment_key_epoch interleaved.
THEOREM EpochsCorrect == Spec => EpochNamesOneKeychain
<1> DEFINE Fresh == keychain' # keychain /\ keychain'.state = "whole" /\ "interleave" \notin history' =>
                      keychain'.epoch \notin named
<1>1. ASSUME Base, EpochInv, [Next]_vars PROVE [Fresh]_vars
  <2> USE WholeIsPresent
  <2> SUFFICES ASSUME Next, keychain' # keychain, keychain'.state = "whole",
                      "interleave" \notin history'
               PROVE  keychain'.epoch \notin named
    BY <1>1
  <2>1. EpochInv!2 /\ TypeOK
    BY <1>1, HistoryStep DEF Base, EpochInv
  <2>2. CASE InitializeVault
    BY <1>1, <2>2 DEF InitializeVault, Base, Lifecycle
  <2>3. ~OpenVault /\ ~Crash
    BY DEF OpenVault, Crash
  <2>4. ASSUME NEW t \in Threads, RewrapDek(t) PROVE keychain'.epoch \notin named
    BY <2>1, <2>4 DEF RewrapDek, At, Claiming
  <2>5. ASSUME NEW t \in Threads, DekReplace(t) PROVE keychain'.epoch \notin named
    BY <2>1, <2>5 DEF DekReplace
  <2>6. ASSUME NEW t \in Threads, Step(t), ~RewrapDek(t), ~DekReplace(t) PROVE UNCHANGED keychain
    BY <2>6, KeysKept DEF KeySteps, RotateMasterKey, EpochWrite, DekInit, DekLoad, Fails
  <2> QED BY <2>2, <2>3, <2>4, <2>5, <2>6 DEF Next
<1> QED BY BaseInductive, EpochInductive, <1>1, PTL DEF Spec, EpochNamesOneKeychain

-----------------------------------------------------------------------------
(***************************************************************************)
(* Restarts.                                                               *)
(***************************************************************************)

\* What the history keeps of the rotations, when thread t moves.
LEMMA LastRotationStep ==
  ASSUME TypeOK, Remember, NEW t \in Threads, OthersKept(t), process' = "up"
  PROVE  /\ pc[t] \notin RotationSteps => lastRotation' = lastRotation
         /\ pc'[t] \notin {"idle", "dek_reset"} => lastRotation' = lastRotation
         /\ lastRotation' = "completed" /\ pc[t] \in RotationSteps /\ pc'[t] = "idle" =>
              \/ pc[t] = "master_rewrap" /\ failures' = failures
              \/ /\ pc[t] \in {"epoch_read", "epoch_write"} /\ rotating[t] # "master"
                 /\ lastRotation = "completed"
              \/ failures' = failures
<1>1. Completes => \/ pc[t] = "dek_load" /\ pc'[t] = "dek_reset"
                   \/ pc[t] = "master_rewrap" /\ pc'[t] = "idle" /\ failures' = failures
  BY DEF Completes, OthersKept
<1>2. Strands => pc[t] \in RotationSteps /\ pc'[t] = "idle"
  BY DEF Strands, OthersKept, RotationSteps
<1>3. lastRotation' = IF Completes THEN "completed" ELSE IF Strands THEN "raised" ELSE lastRotation
  BY DEF Remember
<1>4. pc[t] \notin RotationSteps => lastRotation' = lastRotation
  BY <1>1, <1>2, <1>3 DEF RotationSteps
<1>5. pc'[t] \notin {"idle", "dek_reset"} => lastRotation' = lastRotation
  BY <1>1, <1>2, <1>3
<1>6. ASSUME lastRotation' = "completed", pc[t] \in RotationSteps, pc'[t] = "idle", failures' # failures
      PROVE  /\ pc[t] \in {"epoch_read", "epoch_write"} /\ rotating[t] # "master"
             /\ lastRotation = "completed"
  BY <1>1, <1>3, <1>6 DEF Strands
<1> QED BY <1>4, <1>5, <1>6

\* While one thread rotates no other does; whether a rotation is under way is a
\* matter of its step alone.
LEMMA OneRotates ==
  ASSUME NEW t \in Threads, pc[t] \in RotationSteps, ~Overlap
  PROVE  \A u \in Threads : u # t => pc[u] \notin RotationSteps
BY DEF Overlap

LEMMA RestartInductive ==
  /\ Init => RestartInv
  /\ Base /\ RestartInv /\ [Next]_vars => RestartInv'
<1> USE WholeIsPresent
<1>1. Init => RestartInv
  BY DEF Init, RestartInv, Rotating, Knows, Claiming, Absent
<1>2. ASSUME Base, RestartInv, UNCHANGED vars PROVE RestartInv'
  <2>1. (Never({"overlap"})' <=> Never({"overlap"})) /\ (Rotating' <=> Rotating) /\ (Agree' <=> Agree)
    BY <1>2 DEF Never, Rotating, Agree, Loads
  <2>2. \A t \in Threads : Knows(t) => Knows(t)'
    BY <1>2, <2>1 DEF Knows
  <2> QED BY <1>2, <2>1, <2>2 DEF RestartInv
<1>3. ASSUME Base, RestartInv, Next PROVE RestartInv'
  <2> SUFFICES ASSUME Never({"overlap"})' PROVE RestartInv'
    BY DEF RestartInv
  <2>1. /\ ~Overlap /\ ~Overlap' /\ TypeOK /\ TypeOK' /\ Never({"overlap"}) /\ Remember
    BY <1>3, HistoryStep, TypeStep DEF Base, Recorded, Next, Never
  <2>2. /\ process = "up" /\ ~Rotating /\ lastRotation = "completed" => Agree
        /\ \A f \in {keychain, newKeychain} : f.state = "whole" => f.epoch <= dbEpoch
        /\ \A t \in Threads : Knows(t)
    BY <1>3, <2>1 DEF RestartInv
  <2>3. CASE InitializeVault
    <3>1. /\ \A t \in Threads : pc'[t] = "idle"
          /\ keychain' = Wrapped(dbEpoch, deks', master') /\ dbEpoch' = dbEpoch
          /\ dek' = deks' /\ managerDek' = deks' /\ newKeychain' = newKeychain
      BY <1>3, <2>3 DEF InitializeVault, Base, Lifecycle
    <3>2. Agree' /\ (\A t \in Threads : Knows(t)')
      BY <3>1 DEF Agree, Loads, Knows, Claiming
    <3> QED BY <2>1, <2>2, <3>1, <3>2 DEF RestartInv, TypeOK
  <2>4. CASE OpenVault
    <3>1. \A t \in Threads : pc'[t] = "idle"
      BY <1>3, <2>4 DEF OpenVault, Base, Lifecycle
    <3>2. Agree' /\ (\A t \in Threads : Knows(t)')
      BY <2>4, <3>1 DEF OpenVault, Agree, Loads, Knows, Claiming
    <3> QED BY <2>2, <2>4, <3>2 DEF OpenVault, RestartInv
  <2>5. CASE Crash
    <3>1. /\ \A t \in Threads : pc'[t] = "idle"
          /\ process' = "down" /\ keychain' \in {keychain, Torn} /\ newKeychain' \in {newKeychain, Torn}
          /\ dbEpoch' = dbEpoch
      BY <2>5 DEF Crash
    <3>2. \A t \in Threads : Knows(t)'
      BY <3>1 DEF Knows, Claiming
    <3> QED BY <2>2, <3>1, <3>2 DEF RestartInv
  <2>6. ASSUME NEW t \in Threads, Step(t) PROVE RestartInv'
    <3>1. /\ OthersKept(t) /\ pc' \in [Threads -> PCs] /\ process = "up" /\ process' = "up"
      BY <2>1, <2>6, StepFrame DEF LocalTypes
    <3>2. CASE pc[t] \notin RotationSteps /\ pc'[t] \notin RotationSteps
      <4>1. lastRotation' = lastRotation
        BY <2>1, <3>1, <3>2, LastRotationStep
      <4>2. ~KeySteps(t)
        BY <2>1, <3>2
        DEF KeySteps, RotateMasterKey, EpochWrite, RewrapDek, DekInit, DekReplace, DekLoad, At, Goto,
            RotationSteps, TypeOK
      <4>3. UNCHANGED <<master, files, dbEpoch, memory>>
        BY <2>6, <4>2, KeysKept
      <4>4. Agree' <=> Agree
        BY <4>3 DEF Agree, Loads
      <4>5. Rotating' <=> Rotating
        BY <3>1, <3>2 DEF Rotating, OthersKept
      <4>6. ASSUME NEW u \in Threads PROVE Knows(u)'
        <5>1. CASE u = t
          BY <3>2, <5>1 DEF Knows, Claiming, RotationSteps
        <5>2. CASE u # t
          BY <2>2, <3>1, <4>1, <4>3, <4>4, <5>2 DEF Knows, OthersKept
        <5> QED BY <5>1, <5>2
      <4> QED BY <2>2, <3>1, <4>1, <4>3, <4>4, <4>5, <4>6 DEF RestartInv
    <3>3. ASSUME pc[t] \in RotationSteps \/ pc'[t] \in RotationSteps,
                 \A f \in {keychain', newKeychain'} : f.state = "whole" => f.epoch <= dbEpoch',
                 pc'[t] \notin RotationSteps /\ lastRotation' = "completed" => Agree',
                 Knows(t)'
          PROVE  RestartInv'
      <4>1. \A u \in Threads : u # t => pc'[u] \notin RotationSteps
        BY <2>1, <3>1, <3>3 DEF Overlap, OthersKept
      <4>2. ASSUME NEW u \in Threads PROVE Knows(u)'
        <5>1. CASE u = t
          BY <3>3, <5>1
        <5>2. CASE u # t
          BY <4>1, <5>2 DEF Knows, Claiming, RotationSteps
        <5> QED BY <5>1, <5>2
      <4> QED BY <3>3, <4>2 DEF RestartInv, Rotating
    <3>4. CASE pc[t] \notin RotationSteps /\ pc'[t] \in RotationSteps
      <4>1. lastRotation' = lastRotation
        BY <2>1, <3>1, <3>4, LastRotationStep
      <4>2. ~Rotating
        BY <2>1, <3>1, <3>4 DEF Rotating, Overlap, OthersKept
      <4>3. /\ pc'[t] = "epoch_read" /\ UNCHANGED <<files, dbEpoch, memory>>
            /\ \/ rotating'[t] = "dek" /\ master' = master
               \/ rotating'[t] = "master" /\ masterSecret'[t] = master'
        <5>1. CASE Fails(t)
          BY <2>1, <3>4, <5>1, FailsFrame DEF RotationSteps
        <5>2. CASE SetTally(t) /\ ~Fails(t)
          BY <2>1, <3>4, <5>2, ReturnFrame DEF SetTally, Goto, RotationSteps, TypeOK
        <5>3. CASE RotateDek(t) \/ RotateMasterKey(t)
          BY <2>1, <5>3 DEF RotateDek, RotateMasterKey, Goto, TypeOK
        <5>4. CASE ~SetTally(t) /\ ~RotateDek(t) /\ ~RotateMasterKey(t) /\ ~Fails(t)
          BY <2>1, <2>6, <3>4, <5>4, ReturnFrame
          DEF Step, SetEncrypt, Revoke, LeaseRead, SetStore, LeaseDecrypt, LeaseEnd, DekReset,
              EpochRead, EpochWrite, RewrapDek, DekMaster, DekInit, DekRewrite, DekReplace, DekLoad,
              At, Goto, RotationSteps, TypeOK
        <5> QED BY <5>1, <5>2, <5>3, <5>4
      <4>4. master' = master => (Agree' <=> Agree)
        BY <4>3 DEF Agree, Loads
      <4>5. Knows(t)'
        BY <2>2, <3>1, <4>1, <4>2, <4>3, <4>4 DEF Knows, Claiming
      <4> QED BY <2>2, <3>3, <3>4, <4>3, <4>5
    <3>5. CASE pc[t] \in RotationSteps
      <4> USE <3>5 DEF RotationSteps
      <4>1. CASE Fails(t)
        <5>1. pc'[t] = "idle" /\ failures' # failures /\ UNCHANGED <<master, files, dbEpoch, memory>>
          BY <2>1, <4>1, FailsFrame DEF TypeOK
        <5>2. lastRotation' = "completed" =>
                /\ pc[t] \in {"epoch_read", "epoch_write"} /\ rotating[t] # "master"
                /\ lastRotation = "completed"
          BY <2>1, <3>1, <5>1, LastRotationStep
        <5>3. Agree' <=> Agree
          BY <5>1 DEF Agree, Loads
        <5>4. Knows(t)'
          BY <5>1 DEF Knows, Claiming
        <5> QED BY <2>2, <3>3, <5>1, <5>2, <5>3, <5>4 DEF Knows
      <4>2. CASE EpochRead(t) /\ ~Fails(t)
        <5>1. /\ pc[t] = "epoch_read" /\ pc'[t] = "epoch_write" /\ newEpoch'[t] = dbEpoch + 1
              /\ UNCHANGED <<durable, memory, rotating, masterSecret>>
          BY <2>1, <4>2 DEF EpochRead, At, Goto, TypeOK
        <5>2. lastRotation' = lastRotation /\ (Agree' <=> Agree)
          BY <2>1, <3>1, <5>1, LastRotationStep DEF Agree, Loads
        <5>3. Knows(t)'
          BY <2>2, <5>1, <5>2 DEF Knows, Claiming
        <5> QED BY <2>2, <3>3, <5>1, <5>3
      <4>3. CASE EpochWrite(t) /\ ~Fails(t)
        <5>1. /\ pc[t] = "epoch_write" /\ dbEpoch' = newEpoch[t]
              /\ pc'[t] = IF rotating[t] = "master" THEN "master_rewrap" ELSE "dek_master"
              /\ UNCHANGED <<master, files, memory, newEpoch, masterSecret>>
          BY <2>1, <4>3 DEF EpochWrite, At, Goto, TypeOK
        <5>2. newEpoch[t] = dbEpoch + 1 /\ (rotating[t] = "master" => masterSecret[t] = master)
          BY <2>2, <5>1 DEF Knows
        <5>3. dbEpoch \in Nat /\ keychain.epoch \in Nat /\ newKeychain.epoch \in Nat
          BY <2>1 DEF TypeOK, Files
        <5>4. Knows(t)'
          BY <2>2, <5>1, <5>2, <5>3 DEF Knows, Claiming
        <5> QED BY <2>2, <3>3, <5>1, <5>2, <5>3, <5>4
      <4>4. CASE RewrapDek(t)
        <5>1. /\ pc[t] = "master_rewrap" /\ pc'[t] = "idle"
              /\ UNCHANGED <<master, newKeychain, dbEpoch, memory>>
              /\ \/ /\ failures' # failures /\ keychain' \in {keychain, Torn}
                 \/ /\ managerDek # NoKey
                    /\ keychain' = Wrapped(newEpoch[t], managerDek, masterSecret[t])
          BY <2>1, <4>4, ReturnFrame DEF RewrapDek, Raise, At, TypeOK
        <5>2. lastRotation' = "completed" => failures' = failures
          BY <2>1, <3>1, <5>1, LastRotationStep
        <5>3. /\ newEpoch[t] = dbEpoch /\ masterSecret[t] = master /\ managerDek \in {NoKey, dek}
          BY <1>3, <2>2, <5>1 DEF Knows, Claiming, Base, Lifecycle
        <5>4. lastRotation' = "completed" => Agree'
          BY <5>1, <5>2, <5>3 DEF Agree, Loads
        <5>5. Knows(t)'
          BY <5>1 DEF Knows, Claiming
        <5>6. dbEpoch \in Nat
          BY <2>1 DEF TypeOK
        <5> QED BY <2>2, <3>3, <5>1, <5>3, <5>4, <5>5, <5>6
      <4>5. CASE DekMaster(t) /\ ~Fails(t)
        <5>1. /\ pc[t] = "dek_master" /\ pc'[t] = "dek_init" /\ masterSecret'[t] = master
              /\ UNCHANGED <<durable, memory, newEpoch>>
          BY <2>1, <4>5 DEF DekMaster, At, Goto, TypeOK
        <5>2. Knows(t)'
          BY <2>2, <5>1 DEF Knows, Claiming
        <5> QED BY <2>2, <3>3, <5>1, <5>2
      <4>6. CASE DekInit(t) \/ DekRewrite(t)
        <5>1. /\ pc[t] \in {"dek_init", "dek_rewrite"}
              /\ newKeychain' \in {newKeychain, Torn, Wrapped(newEpoch[t], newDek[t], masterSecret[t])}
              /\ UNCHANGED <<master, keychain, dbEpoch, memory>>
          BY <4>6 DEF DekInit, DekRewrite, At
        <5>2. newEpoch[t] = dbEpoch /\ dbEpoch \in Nat
          BY <2>1, <2>2, <5>1 DEF Knows, Claiming, TypeOK
        <5>3. CASE Raise(t)
          <6>1. pc'[t] = "idle" /\ failures' # failures
            BY <2>1, <5>3, RaiseFrame DEF TypeOK
          <6>2. lastRotation' # "completed" /\ Knows(t)'
            BY <2>1, <3>1, <5>1, <6>1, LastRotationStep DEF Knows, Claiming
          <6> QED BY <2>2, <3>3, <5>1, <5>2, <6>2
        <5>4. CASE ~Raise(t)
          <6>1. pc'[t] \in {"dek_rewrite", "dek_replace"} /\ UNCHANGED locals
            BY <2>1, <4>6, <5>4 DEF DekInit, DekRewrite, Goto, TypeOK
          <6>2. Knows(t)'
            BY <2>2, <5>1, <6>1 DEF Knows, Claiming
          <6> QED BY <2>2, <3>3, <5>1, <5>2, <6>1, <6>2
        <5> QED BY <5>3, <5>4
      <4>7. CASE DekReplace(t)
        <5>1. /\ pc[t] = "dek_replace" /\ UNCHANGED <<master, dbEpoch>>
              /\ keychain' \in {keychain, newKeychain} /\ newKeychain' \in {newKeychain, Absent}
          BY <4>7 DEF DekReplace, At
        <5>2. CASE Raise(t)
          <6>1. pc'[t] = "idle" /\ failures' # failures
            BY <2>1, <5>2, RaiseFrame DEF TypeOK
          <6>2. lastRotation' # "completed" /\ Knows(t)'
            BY <2>1, <3>1, <5>1, <6>1, LastRotationStep DEF Knows, Claiming
          <6> QED BY <2>2, <3>3, <5>1, <6>2
        <5>3. CASE ~Raise(t)
          <6>1. pc'[t] = "dek_load" /\ UNCHANGED locals
            BY <2>1, <4>7, <5>3 DEF DekReplace, Goto, TypeOK
          <6>2. Knows(t)'
            BY <2>2, <5>1, <6>1 DEF Knows, Claiming
          <6> QED BY <2>2, <3>3, <5>1, <6>1, <6>2
        <5> QED BY <5>2, <5>3
      <4>8. CASE DekLoad(t)
        <5>1. pc[t] = "dek_load" /\ UNCHANGED durable
          BY <4>8 DEF DekLoad, At
        <5>2. CASE Raise(t)
          <6>1. pc'[t] = "idle" /\ failures' # failures
            BY <2>1, <5>2, RaiseFrame DEF TypeOK
          <6>2. lastRotation' # "completed" /\ Knows(t)'
            BY <2>1, <3>1, <5>1, <6>1, LastRotationStep DEF Knows, Claiming
          <6> QED BY <2>2, <3>3, <5>1, <6>2
        <5>3. CASE ~Raise(t)
          <6>1. /\ pc'[t] = "dek_reset" /\ Loads(newEpoch[t], masterSecret[t])
                /\ dek' = keychain.dek /\ managerDek' = keychain.dek
            BY <2>1, <4>8, <5>3 DEF DekLoad, Goto, TypeOK
          <6>2. newEpoch[t] = dbEpoch /\ masterSecret[t] = master
            BY <2>2, <5>1 DEF Knows
          <6>3. Agree' /\ Knows(t)'
            BY <5>1, <6>1, <6>2 DEF Agree, Loads, Knows, Claiming
          <6> QED BY <2>2, <3>3, <5>1, <6>3
        <5> QED BY <5>2, <5>3
      <4> QED
        BY <2>6, <4>1, <4>2, <4>3, <4>4, <4>5, <4>6, <4>7, <4>8
        DEF Step, SetEncrypt, Revoke, LeaseRead, SetStore, SetTally, LeaseDecrypt, LeaseEnd,
            RotateMasterKey, RotateDek, DekReset, At
    <3> QED BY <3>2, <3>4, <3>5
  <2> QED BY <1>3, <2>3, <2>4, <2>5, <2>6 DEF Next
<1> QED BY <1>1, <1>2, <1>3

\* Unless two rotations have overlapped, a restart with none under way opens the
\* vault and loads the DEK that was in use, whatever raised before the last
\* rotation that completed.
THEOREM RestartCorrect == Spec => []RestartKeepsDek
<1>1. RestartInv => RestartKeepsDek
  BY DEF RestartInv, RestartKeepsDek, Agree
<1> QED BY BaseInductive, RestartInductive, <1>1, PTL DEF Spec

-----------------------------------------------------------------------------
(***************************************************************************)
(* Rows.                                                                   *)
(***************************************************************************)

LEMMA NeverStep ==
  ASSUME TypeOK, Recorded, Next, Calm'
  PROVE  /\ Calm /\ Never({"overlap"}) /\ ~Overlap /\ ~Overlap' /\ ~Overtake /\ ~Overtake'
         /\ ~Splits
<1>1. history \subseteq history' /\ Recorded'
  BY HistoryStep
<1>2. "split" \notin history' => ~Splits
  BY DEF Next, Remember, Events
<1> QED BY <1>1, <1>2 DEF Calm, Never, Recorded

\* While a process is up the rows' keys are on disk.
LEMMA Recoverable ==
  ASSUME Base, RestartInv, RowsInv, Calm, process = "up", ~Overlap
  PROVE  DataRecoverable
<1> SUFFICES ASSUME keychain.master = master
             PROVE  \E f \in {keychain, newKeychain} :
                      f.state = "whole" /\ f.master = master /\ RowsUnder(f.dek)
  BY DEF DataRecoverable, RowsUnder
<1> USE WholeIsPresent
<1>1. keychain.state = "whole" /\ Never({"overlap"})
  BY DEF Base, Lifecycle, Calm, Never
<1>2. CASE ~Publishing
  <2>1. keychain.dek = dek /\ RowsUnder(dek)
    BY <1>1, <1>2 DEF RowsInv, Publishing, PublishingSteps
  <2> QED BY <1>1, <2>1
<1>3. ASSUME NEW t \in Threads, pc[t] = "dek_replace"
      PROVE  newKeychain.state = "whole" /\ newKeychain.master = master /\ RowsUnder(newKeychain.dek)
  BY <1>1, <1>3 DEF RowsInv, RowsKnown, RestartInv, Knows
<1>4. ASSUME NEW t \in Threads, pc[t] = "dek_load" PROVE RowsUnder(keychain.dek)
  BY <1>1, <1>4 DEF RowsInv, RowsKnown
<1> QED BY <1>1, <1>2, <1>3, <1>4 DEF Publishing, PublishingSteps

LEMMA RowsInductive ==
  /\ Init => RowsInv
  /\ Base /\ RestartInv /\ RowsInv /\ [Next]_vars => RowsInv'
<1> USE WholeIsPresent
<1>1. Init => RowsInv
  BY DEF Init, RowsInv, RowsKnown, RowsUnder, DataRecoverable, Loads
<1>2. ASSUME RowsInv, UNCHANGED vars PROVE RowsInv'
  <2>1. /\ (Calm' <=> Calm) /\ (Publishing' <=> Publishing) /\ (DataRecoverable' <=> DataRecoverable)
        /\ (Loads(dbEpoch, master)' <=> Loads(dbEpoch, master))
    BY <1>2 DEF Calm, Never, Publishing, DataRecoverable, Loads
  <2>2. \A t \in Threads : RowsKnown(t) => RowsKnown(t)'
    BY <1>2 DEF RowsKnown, RowsUnder
  <2> QED BY <1>2, <2>1, <2>2 DEF RowsInv, RowsUnder
<1>3. ASSUME Base, RestartInv, RowsInv, Next PROVE RowsInv'
  <2> SUFFICES ASSUME Calm' PROVE RowsInv'
    BY DEF RowsInv
  <2>1. /\ Calm /\ Never({"overlap"}) /\ ~Overlap /\ ~Overlap' /\ ~Overtake /\ ~Overtake' /\ ~Splits
        /\ TypeOK /\ TypeOK' /\ Lifecycle
    BY <1>3, NeverStep, TypeStep DEF Base
  <2>2. /\ process = "up" /\ ~Publishing => RowsUnder(dek)
        /\ process = "up" /\ keychain.state = "whole" /\ (\A t \in Threads : pc[t] # "dek_load") =>
             keychain.dek = dek
        /\ process = "down" /\ Loads(dbEpoch, master) => RowsUnder(keychain.dek)
        /\ \A t \in Threads : RowsKnown(t) /\ Knows(t)
    BY <1>3, <2>1 DEF RowsInv, RestartInv
  <2>3. CASE InitializeVault
    <3>1. /\ \A t \in Threads : pc'[t] = "idle"
          /\ \A n \in Names : active'[n] = NoKey
          /\ process' = "up" /\ keychain'.dek = dek'
      BY <2>1, <2>3 DEF InitializeVault, Lifecycle
    <3> QED BY <3>1 DEF RowsInv, RowsKnown, RowsUnder
  <2>4. CASE OpenVault
    <3>1. /\ \A t \in Threads : pc'[t] = "idle"
          /\ process' = "up" /\ keychain'.dek = dek' /\ active' = active /\ dek' = keychain.dek
          /\ process = "down" /\ Loads(dbEpoch, master)
      BY <2>1, <2>4 DEF OpenVault, Lifecycle
    <3>2. RowsUnder(dek)'
      BY <2>2, <3>1 DEF RowsUnder
    <3> QED BY <3>1, <3>2 DEF RowsInv, RowsKnown
  <2>5. CASE Crash
    <3>1. /\ \A t \in Threads : pc'[t] = "idle"
          /\ process = "up" /\ process' = "down" /\ keychain' \in {keychain, Torn}
          /\ \/ newKeychain' = newKeychain
             \/ \E t \in Threads : pc[t] = "dek_init"
          /\ UNCHANGED <<active, master, dbEpoch>>
      BY <2>5 DEF Crash
    <3>2. master # NoKey
      BY <2>1, <3>1 DEF Lifecycle
    <3>3. ASSUME keychain'.master = master
          PROVE  \/ keychain'.state = "whole" /\ RowsUnder(keychain'.dek)
                 \/ /\ newKeychain'.state = "whole" /\ newKeychain'.master = master
                    /\ RowsUnder(newKeychain'.dek)
                    /\ keychain'.state = "whole" => keychain'.epoch # dbEpoch
      <4>1. keychain' = keychain /\ keychain.state = "whole"
        BY <2>1, <3>1, <3>2, <3>3 DEF Lifecycle
      <4>2. CASE ~Publishing
        BY <2>2, <3>1, <4>1, <4>2 DEF Publishing, PublishingSteps
      <4>3. ASSUME NEW t \in Threads, pc[t] = "dek_replace"
            PROVE  /\ newKeychain'.state = "whole" /\ newKeychain'.master = master
                   /\ RowsUnder(newKeychain'.dek) /\ keychain'.epoch # dbEpoch
        <5>1. newKeychain' = newKeychain
          BY <2>1, <3>1, <4>3 DEF Overlap, RotationSteps
        <5>2. dbEpoch \in Nat /\ keychain.epoch \in Nat
          BY <2>1 DEF TypeOK, Files
        <5> QED BY <2>2, <4>1, <4>3, <5>1, <5>2 DEF RowsKnown, Knows
      <4>4. ASSUME NEW t \in Threads, pc[t] = "dek_load" PROVE RowsUnder(keychain.dek)
        BY <2>2, <4>4 DEF RowsKnown
      <4> QED BY <4>1, <4>2, <4>3, <4>4 DEF Publishing, PublishingSteps
    <3>4. DataRecoverable'
      BY <3>1, <3>3 DEF DataRecoverable, RowsUnder
    <3>5. Loads(dbEpoch, master)' => RowsUnder(keychain.dek)'
      BY <3>1, <3>3 DEF Loads, RowsUnder
    <3> QED BY <3>1, <3>4, <3>5 DEF RowsInv, RowsKnown
  <2>6. ASSUME NEW t \in Threads, Step(t) PROVE RowsInv'
    <3>1. /\ OthersKept(t) /\ pc' \in [Threads -> PCs] /\ process = "up" /\ process' = "up"
      BY <2>1, <2>6, StepFrame DEF LocalTypes
    <3>2. CASE pc[t] \notin RotationSteps
      <4>1. KeySteps(t) => RotateMasterKey(t)
        BY <3>2
        DEF KeySteps, EpochWrite, RewrapDek, DekInit, DekReplace, DekLoad, At, RotationSteps
      <4>2. UNCHANGED <<files, dek>> /\ (~RotateMasterKey(t) => master' = master)
        BY <2>6, <4>1, KeysKept DEF RotateMasterKey
      <4>3. /\ pc'[t] \notin PublishingSteps \union {"dek_rewrite"}
            /\ pc'[t] = "set_store" => ciphertext'[t] = dek
        <5>1. CASE Fails(t)
          BY <2>1, <5>1, FailsFrame DEF PublishingSteps
        <5>2. ASSUME NEW n \in Names, SetEncrypt(t, n)
              PROVE  pc'[t] = "set_store" /\ ciphertext'[t] = dek
          BY <2>1, <5>2 DEF SetEncrypt, Goto, TypeOK
        <5>3. ASSUME ~Fails(t), \A n \in Names : ~SetEncrypt(t, n)
              PROVE  pc'[t] \notin PublishingSteps \union {"dek_rewrite", "set_store"}
          BY <2>1, <2>6, <3>2, <5>3, ReturnFrame
          DEF Step, Revoke, LeaseRead, SetStore, SetTally, LeaseDecrypt, LeaseEnd, RotateMasterKey,
              RotateDek, EpochRead, EpochWrite, RewrapDek, DekMaster, DekInit, DekRewrite,
              DekReplace, DekLoad, DekReset, Goto, At, PublishingSteps, RotationSteps, TypeOK
        <5> QED BY <5>1, <5>2, <5>3 DEF PublishingSteps
      <4>4. pc[t] \notin PublishingSteps \union {"dek_rewrite"}
        BY <3>2 DEF RotationSteps, PublishingSteps
      <4>5. Publishing' <=> Publishing
        BY <3>1, <4>3, <4>4 DEF Publishing, OthersKept
      <4>6. /\ \A d : RowsUnder(d) /\ Publishing => \A n \in Names : active'[n] \in {NoKey, d}
            /\ ~Publishing => \A n \in Names : active'[n] \in {NoKey, dek}
        <5>1. CASE active' = active
          BY <2>2, <3>1, <5>1 DEF RowsUnder
        <5>2. ASSUME NEW n \in Names, Revoke(t, n)
              PROVE  \A m \in Names : active'[m] \in {NoKey, active[m]}
          BY <2>1, <5>2 DEF Revoke, TypeOK
        <5>3. ASSUME SetStore(t), active' # active
              PROVE  ~Publishing /\ \A m \in Names : active'[m] \in {active[m], dek}
          <6>1. pc[t] = "set_store" /\ active' = [active EXCEPT ![secret[t]] = ciphertext[t]]
            BY <5>3 DEF SetStore, At, Fails
          <6>2. ciphertext[t] = dek
            BY <2>2, <6>1 DEF RowsKnown
          <6>3. ~Publishing
            BY <2>1, <6>1 DEF Overtake, Publishing, PublishingSteps
          <6> QED BY <2>1, <6>1, <6>2, <6>3 DEF TypeOK
        <5>4. ~DekRewrite(t)
          BY <3>2 DEF DekRewrite, At, RotationSteps
        <5>5. \/ active' = active \/ (\E n \in Names : Revoke(t, n)) \/ SetStore(t)
          BY <2>6, <5>4, RowsKept DEF RowSteps
        <5>6. CASE \E n \in Names : Revoke(t, n)
          BY <2>2, <3>1, <5>2, <5>6 DEF RowsUnder
        <5>7. CASE SetStore(t) /\ active' # active
          BY <2>2, <3>1, <5>3, <5>7 DEF RowsUnder
        <5> QED BY <5>1, <5>5, <5>6, <5>7
      <4>7. ASSUME NEW u \in Threads PROVE RowsKnown(u)'
        <5>1. CASE u = t
          BY <4>2, <4>3, <5>1 DEF RowsKnown, PublishingSteps
        <5>2. CASE u # t
          <6>1. /\ pc'[u] = pc[u] /\ ciphertext'[u] = ciphertext[u] /\ newEpoch'[u] = newEpoch[u]
                /\ newDek'[u] = newDek[u] /\ masterSecret'[u] = masterSecret[u]
            BY <3>1, <5>2 DEF OthersKept
          <6>2. pc[u] = "dek_load" => master' = master
            <7>1. RotateMasterKey(t) => pc'[t] = "epoch_read"
              BY <2>1 DEF RotateMasterKey, Goto, TypeOK
            <7> QED BY <2>1, <4>2, <5>2, <6>1, <7>1 DEF Overlap, RotationSteps
          <6>3. pc[u] \in PublishingSteps => Publishing
            BY DEF Publishing
          <6> QED BY <2>2, <4>2, <4>6, <6>1, <6>2, <6>3 DEF RowsKnown, RowsUnder, PublishingSteps
        <5> QED BY <5>1, <5>2
      <4>8. (\A u \in Threads : pc'[u] # "dek_load") => \A u \in Threads : pc[u] # "dek_load"
        BY <3>1, <4>4 DEF OthersKept, PublishingSteps
      <4> QED BY <2>2, <3>1, <4>2, <4>5, <4>6, <4>7, <4>8 DEF RowsInv, RowsUnder
    <3>3. ASSUME pc[t] \in RotationSteps, RowsKnown(t)', dek' = dek \/ pc[t] = "dek_load",
                 pc'[t] \notin PublishingSteps => RowsUnder(dek)',
                 keychain'.state = "whole" /\ pc'[t] # "dek_load" => keychain'.dek = dek'
          PROVE  RowsInv'
      <4>1. \A u \in Threads : u # t => pc'[u] \notin RotationSteps /\ pc'[u] = pc[u]
        BY <2>1, <3>1, <3>3 DEF Overlap, OthersKept
      <4>2. \A u \in Threads : u # t /\ pc[u] = "set_store" => pc[t] # "dek_load"
        BY <2>1 DEF Overtake, PublishingSteps
      <4>3. ASSUME NEW u \in Threads PROVE RowsKnown(u)'
        <5>1. CASE u = t
          BY <3>3, <5>1
        <5>2. CASE u # t
          BY <2>2, <3>1, <3>3, <4>1, <4>2, <5>2 DEF RowsKnown, RotationSteps, OthersKept
        <5> QED BY <5>1, <5>2
      <4>4. ~Publishing' => pc'[t] \notin PublishingSteps
        BY DEF Publishing
      <4> QED BY <3>1, <3>3, <4>3, <4>4 DEF RowsInv
    <3>4. CASE pc[t] \in RotationSteps
      <4> USE <3>4 DEF RotationSteps
      <4>1. /\ pc[t] \notin PublishingSteps => RowsUnder(dek)
            /\ keychain.state = "whole" /\ pc[t] # "dek_load" => keychain.dek = dek
        <5>1. \A u \in Threads : u # t => pc[u] \notin RotationSteps
          BY <2>1, OneRotates
        <5> QED BY <2>2, <3>1, <5>1 DEF Publishing, PublishingSteps
      <4>2. pc[t] \in PublishingSteps => pc'[t] # "idle"
        BY <2>1, <3>1 DEF Splits
      <4>3. CASE Fails(t)
        <5>1. pc'[t] = "idle" /\ UNCHANGED <<durable, memory>>
          BY <2>1, <4>3, FailsFrame
        <5> QED BY <3>3, <4>1, <4>2, <5>1 DEF RowsKnown, RowsUnder, PublishingSteps
      <4>4. CASE (EpochRead(t) \/ EpochWrite(t) \/ DekMaster(t)) /\ ~Fails(t)
        <5>1. /\ pc[t] \in {"epoch_read", "epoch_write", "dek_master"}
              /\ pc'[t] \in {"epoch_write", "master_rewrap", "dek_master", "dek_init"}
              /\ UNCHANGED <<files, active, dek>>
          BY <2>1, <4>4 DEF EpochRead, EpochWrite, DekMaster, At, Goto, TypeOK
        <5> QED BY <3>3, <4>1, <5>1 DEF RowsKnown, RowsUnder, PublishingSteps
      <4>5. CASE RewrapDek(t)
        <5>1. /\ pc[t] = "master_rewrap" /\ pc'[t] = "idle" /\ UNCHANGED <<active, dek>>
              /\ \/ keychain' \in {keychain, Torn}
                 \/ managerDek # NoKey /\ keychain' = Wrapped(newEpoch[t], managerDek, masterSecret[t])
          BY <2>1, <4>5, ReturnFrame DEF RewrapDek, Raise, At
        <5>2. managerDek \in {NoKey, dek}
          BY <2>1 DEF Lifecycle
        <5> QED BY <3>3, <4>1, <5>1, <5>2 DEF RowsKnown, RowsUnder, PublishingSteps
      <4>6. CASE DekInit(t)
        <5>1. pc[t] = "dek_init" /\ UNCHANGED <<keychain, active, dek>>
          BY <4>6 DEF DekInit, At
        <5>2. \/ pc'[t] = "idle"
              \/ /\ pc'[t] = "dek_rewrite" /\ UNCHANGED <<newEpoch, newDek, masterSecret>>
                 /\ newKeychain' = Wrapped(newEpoch[t], newDek[t], masterSecret[t])
          BY <2>1, <4>6, ReturnFrame DEF DekInit, Raise, Goto, TypeOK
        <5> QED BY <3>3, <4>1, <5>1, <5>2 DEF RowsKnown, RowsUnder, PublishingSteps
      <4>7. CASE DekRewrite(t)
        <5>1. pc[t] = "dek_rewrite" /\ UNCHANGED <<files, dek>>
          BY <4>7 DEF DekRewrite, At
        <5>2. \/ pc'[t] = "idle" /\ active' = active
              \/ /\ pc'[t] = "dek_replace" /\ UNCHANGED <<newEpoch, newDek, masterSecret>>
                 /\ \A n \in Names : active'[n] \in {NoKey, newDek[t]}
          BY <2>1, <4>7, ReturnFrame DEF DekRewrite, Raise, Goto, TypeOK
        <5> QED BY <2>2, <3>3, <4>1, <5>1, <5>2 DEF RowsKnown, RowsUnder, PublishingSteps
      <4>8. CASE DekReplace(t)
        <5>1. pc[t] = "dek_replace" /\ UNCHANGED <<master, active, dek>>
          BY <4>8 DEF DekReplace, At
        <5>2. pc'[t] = "dek_load" /\ keychain' = newKeychain
          BY <2>1, <4>2, <4>8, <5>1, ReturnFrame DEF DekReplace, Raise, Goto, TypeOK, PublishingSteps
        <5>3. /\ newKeychain = Wrapped(newEpoch[t], newDek[t], masterSecret[t])
              /\ masterSecret[t] = master /\ RowsUnder(newDek[t])
          BY <2>2, <5>1 DEF RowsKnown, Knows
        <5> QED BY <3>3, <5>1, <5>2, <5>3 DEF RowsKnown, RowsUnder, PublishingSteps
      <4>9. CASE DekLoad(t)
        <5>1. pc[t] = "dek_load" /\ UNCHANGED durable
          BY <4>9 DEF DekLoad, At
        <5>2. pc'[t] = "dek_reset" /\ dek' = keychain.dek
          BY <2>1, <4>2, <4>9, <5>1, ReturnFrame DEF DekLoad, Raise, Goto, TypeOK, PublishingSteps
        <5>3. RowsUnder(keychain.dek)
          BY <2>2, <5>1 DEF RowsKnown
        <5> QED BY <3>3, <5>1, <5>2, <5>3 DEF RowsKnown, RowsUnder, PublishingSteps
      <4> QED
        BY <2>6, <4>3, <4>4, <4>5, <4>6, <4>7, <4>8, <4>9
        DEF Step, SetEncrypt, Revoke, LeaseRead, SetStore, SetTally, LeaseDecrypt, LeaseEnd,
            RotateMasterKey, RotateDek, DekReset, At
    <3> QED BY <3>2, <3>4
  <2> QED BY <1>3, <2>3, <2>4, <2>5, <2>6 DEF Next
<1> QED BY <1>1, <1>2, <1>3

\* Unless two rotations have overlapped, a rotation has overtaken a set_secret or
\* one has raised after its rewrite: outside a rotation's publishing every ACTIVE
\* row is under the DEK in use, across crashes and all other faults.
THEOREM ReadableCorrect == Spec => []ActiveReadable
<1>1. RowsInv => ActiveReadable
  BY DEF RowsInv, ActiveReadable, RowsUnder, Calm
<1> QED BY BaseInductive, RestartInductive, RowsInductive, <1>1, PTL DEF Spec

\* On the same terms no crash or error in rotate_dek leaves an ACTIVE row whose
\* DEK is in neither keychain file.
THEOREM RecoverableCorrect == Spec => []DataRecoverable
<1>1. ASSUME Base, RestartInv, RowsInv PROVE DataRecoverable
  <2>1. CASE ~Calm
    BY <2>1 DEF Calm, DataRecoverable
  <2>2. CASE Calm /\ process = "down"
    BY <1>1, <2>2 DEF RowsInv
  <2>3. CASE Calm /\ process = "up"
    BY <1>1, <2>3, Recoverable DEF Base, Recorded, Calm, Never
  <2> QED BY <1>1, <2>1, <2>2, <2>3 DEF Base, TypeOK
<1> QED BY BaseInductive, RestartInductive, RowsInductive, <1>1, PTL DEF Spec

-----------------------------------------------------------------------------
(***************************************************************************)
(* Leases.                                                                 *)
(***************************************************************************)

LEMMA LeaseInductive ==
  /\ Init => LeaseInv
  /\ Base /\ RowsInv /\ LeaseInv /\ [Next]_vars => LeaseInv'
<1>1. Init => LeaseInv
  BY DEF Init, LeaseInv
<1>2. ASSUME LeaseInv, UNCHANGED vars PROVE LeaseInv'
  BY <1>2 DEF LeaseInv, Calm, Never, Publishing
<1>3. ASSUME Base, RowsInv, LeaseInv, Next PROVE LeaseInv'
  <2> SUFFICES ASSUME ExplicitVersions = FALSE, Calm', NEW u \in Threads
               PROVE  /\ pc'[u] = "failed" => u \in raced'
                      /\ pc'[u] = "lease_decrypt" /\ u \notin raced' => ~Publishing' /\ ciphertext'[u] = dek'
    BY DEF LeaseInv
  <2>1. /\ Calm /\ TypeOK
        /\ \A t \in Threads :
             /\ pc[t] = "failed" => t \in raced
             /\ pc[t] = "lease_decrypt" /\ t \notin raced => ~Publishing /\ ciphertext[t] = dek
    BY <1>3, NeverStep DEF Base, LeaseInv
  <2>2. u \in raced' <=> \/ pc'[u] = "failed" /\ u \in raced
                         \/ pc'[u] = "lease_decrypt" /\ (u \in raced \/ Publishing')
    BY <1>3 DEF Next, Remember
  <2>3. CASE InitializeVault \/ OpenVault \/ Crash
    <3>1. pc'[u] = "idle"
      BY <1>3, <2>3 DEF InitializeVault, OpenVault, Crash, Base, Lifecycle
    <3> QED BY <3>1
  <2>4. ASSUME NEW t \in Threads, Step(t), u # t
        PROVE  /\ pc'[u] = "failed" => u \in raced'
               /\ pc'[u] = "lease_decrypt" /\ u \notin raced' => ~Publishing' /\ ciphertext'[u] = dek'
    <3>1. pc'[u] = pc[u] /\ ciphertext'[u] = ciphertext[u]
      BY <2>1, <2>4, StepFrame DEF OthersKept
    <3>2. ~Publishing => dek' = dek
      <4>1. DekLoad(t) => Publishing
        BY DEF DekLoad, At, Publishing, PublishingSteps
      <4> QED
        BY <2>4, <4>1, KeysKept
        DEF KeySteps, RotateMasterKey, EpochWrite, RewrapDek, DekInit, DekReplace, Fails
    <3> QED BY <2>1, <2>2, <3>1, <3>2
  <2>5. ASSUME Step(u)
        PROVE  /\ pc'[u] = "failed" => u \in raced'
               /\ pc'[u] = "lease_decrypt" /\ u \notin raced' => ~Publishing' /\ ciphertext'[u] = dek'
    <3>1. /\ OthersKept(u) /\ process = "up"
      BY <2>1, <2>5, StepFrame
    <3>2. ASSUME NEW n \in Names, LeaseRead(u, n)
          PROVE  /\ pc'[u] = "lease_decrypt"
                 /\ u \notin raced' => ~Publishing' /\ ciphertext'[u] = dek'
      <4>1. /\ pc[u] = "idle" /\ pc'[u] = "lease_decrypt" /\ dek' = dek
            /\ ciphertext'[u] = active[n] /\ active[n] # NoKey
        BY <2>1, <3>2 DEF LeaseRead, At, Goto, TypeOK
      <4>2. Publishing' <=> Publishing
        BY <3>1, <4>1 DEF Publishing, PublishingSteps, OthersKept
      <4>3. ~Publishing => active[n] \in {NoKey, dek}
        BY <1>3, <2>1, <3>1 DEF RowsInv, RowsUnder
      <4> QED BY <2>2, <4>1, <4>2, <4>3
    <3>3. CASE LeaseDecrypt(u)
      <4>1. pc[u] = "lease_decrypt" /\ pc'[u] = IF ciphertext[u] = dek THEN "leased" ELSE "failed"
        BY <2>1, <3>3 DEF LeaseDecrypt, At, Goto, TypeOK
      <4> QED BY <2>1, <2>2, <4>1
    <3>4. ASSUME ~LeaseDecrypt(u), \A n \in Names : ~LeaseRead(u, n)
          PROVE  pc'[u] \notin {"failed", "lease_decrypt"}
      <4>1. CASE Fails(u)
        BY <2>1, <4>1, FailsFrame
      <4>2. CASE ~Fails(u)
        BY <2>1, <2>5, <3>4, <4>2, ReturnFrame
        DEF Step, SetEncrypt, Revoke, SetStore, SetTally, LeaseEnd, RotateMasterKey, RotateDek,
            EpochRead, EpochWrite, RewrapDek, DekMaster, DekInit, DekRewrite, DekReplace, DekLoad,
            DekReset, Raise, Goto, At, TypeOK
      <4> QED BY <4>1, <4>2
    <3> QED BY <3>2, <3>3, <3>4
  <2> QED BY <1>3, <2>3, <2>4, <2>5 DEF Next
<1> QED BY <1>1, <1>2, <1>3

\* On the same terms a lease of a current version decrypts unless a rotation was
\* publishing since it read its row.  (Of an older version it may not:
\* keys_versions.)
THEOREM LeaseCorrect ==
  ASSUME ExplicitVersions = FALSE
  PROVE  Spec => []LeaseFailsOnlyRaced
<1>1. LeaseInv => LeaseFailsOnlyRaced
  BY DEF LeaseInv, LeaseFailsOnlyRaced, Calm
<1> QED BY BaseInductive, RestartInductive, RowsInductive, LeaseInductive, <1>1, PTL DEF Spec

-----------------------------------------------------------------------------
(***************************************************************************)
(* The budget.                                                             *)
(***************************************************************************)
StoreSteps == {"set_store", "set_tally"}

LEMMA Sizes ==
  ASSUME TypeOK, \A t \in Threads : rotating[t] = "dek" => pc[t] \notin StoreSteps
  PROVE  /\ IsFiniteSet(Storing) /\ Cardinality(Storing) \in Nat
         /\ Replacing \in {0, 1} /\ Forgiven \in Nat /\ Cardinality(Threads) \in Nat
         /\ Cardinality(Storing) + Replacing <= Cardinality(Threads)
<1>1. IsFiniteSet(Threads) /\ Cardinality(Threads) \in Nat
  BY KeyRotationAssumption, FS_CardinalityType
<1>2. Storing \in SUBSET Threads
  BY DEF Storing
<1>3. IsFiniteSet(Storing) /\ Cardinality(Storing) <= Cardinality(Threads)
  BY <1>1, <1>2, FS_Subset
<1>4. Cardinality(Storing) \in Nat
  BY <1>3, FS_CardinalityType
<1>5. Forgiven \in Nat
  <2>1. Cardinality(Threads) * crashes \in Nat
    BY <1>1 DEF TypeOK
  <2> QED BY <2>1 DEF Forgiven, TypeOK
<1>6. ASSUME NEW t \in Threads, rotating[t] = "dek"
      PROVE  Cardinality(Storing) + 1 <= Cardinality(Threads)
  <2>1. Storing \in SUBSET (Threads \ {t})
    BY <1>6 DEF Storing, StoreSteps
  <2>2. IsFiniteSet(Threads \ {t}) /\ Cardinality(Threads \ {t}) = Cardinality(Threads) - 1
    BY <1>1, FS_RemoveElement
  <2>3. Cardinality(Storing) <= Cardinality(Threads \ {t})
    BY <2>1, <2>2, FS_Subset
  <2> QED BY <1>1, <1>4, <2>2, <2>3
<1>7. CASE \E t \in Threads : rotating[t] = "dek"
  <2>1. Replacing = 1
    BY <1>7 DEF Replacing
  <2> QED BY <1>1, <1>3, <1>4, <1>5, <1>6, <1>7, <2>1
<1>8. CASE ~\E t \in Threads : rotating[t] = "dek"
  <2>1. Replacing = 0
    BY <1>8 DEF Replacing
  <2> QED BY <1>1, <1>3, <1>4, <1>5, <2>1
<1> QED BY <1>7, <1>8

\* How the sizes change when thread t moves.
LEMMA SizesStep ==
  ASSUME NEW t \in Threads, OthersKept(t), IsFiniteSet(Storing), Cardinality(Storing) \in Nat
  PROVE  /\ (pc[t] \in StoreSteps <=> pc'[t] \in StoreSteps) => Cardinality(Storing)' = Cardinality(Storing)
         /\ pc[t] \notin StoreSteps /\ pc'[t] \in StoreSteps =>
              Cardinality(Storing)' = Cardinality(Storing) + 1
         /\ pc[t] \in StoreSteps /\ pc'[t] \notin StoreSteps =>
              Cardinality(Storing)' = Cardinality(Storing) - 1
         /\ (rotating[t] = "dek" <=> rotating'[t] = "dek") => Replacing' = Replacing
         /\ rotating'[t] = "dek" => Replacing' = 1
         /\ rotating[t] = "dek" => Replacing = 1
<1>1. ASSUME pc[t] \in StoreSteps <=> pc'[t] \in StoreSteps
      PROVE  Cardinality(Storing)' = Cardinality(Storing)
  <2>1. Storing' = Storing
    BY <1>1 DEF Storing, OthersKept, StoreSteps
  <2> QED BY <2>1
<1>2. ASSUME pc[t] \notin StoreSteps, pc'[t] \in StoreSteps
      PROVE  Cardinality(Storing)' = Cardinality(Storing) + 1
  <2>1. Storing' = Storing \union {t} /\ t \notin Storing
    BY <1>2 DEF Storing, OthersKept, StoreSteps
  <2> QED BY <2>1, FS_AddElement
<1>3. ASSUME pc[t] \in StoreSteps, pc'[t] \notin StoreSteps
      PROVE  Cardinality(Storing)' = Cardinality(Storing) - 1
  <2>1. Storing' = Storing \ {t} /\ t \in Storing
    BY <1>3 DEF Storing, OthersKept, StoreSteps
  <2> QED BY <2>1, FS_RemoveElement
<1>4. (rotating[t] = "dek" <=> rotating'[t] = "dek") => Replacing' = Replacing
  BY DEF Replacing, OthersKept
<1>5. (rotating'[t] = "dek" => Replacing' = 1) /\ (rotating[t] = "dek" => Replacing = 1)
  BY DEF Replacing
<1> QED BY <1>1, <1>2, <1>3, <1>4, <1>5

LEMMA BudgetInductive ==
  /\ Init => BudgetInv
  /\ Base /\ BudgetInv /\ [Next]_vars => BudgetInv'
<1> USE KeyRotationAssumption
<1>1. ASSUME Init PROVE BudgetInv
  <2>1. TypeOK /\ \A t \in Threads : rotating[t] = "none"
    BY <1>1, BaseInductive DEF Base, Init
  <2>2. Cardinality(Storing) \in Nat /\ Replacing \in {0, 1} /\ Forgiven \in Nat
    BY <2>1, Sizes
  <2> QED BY <1>1, <2>1, <2>2 DEF Init, BudgetInv
<1>2. ASSUME BudgetInv, UNCHANGED vars PROVE BudgetInv'
  <2>1. Storing' = Storing /\ Replacing' = Replacing /\ Forgiven' = Forgiven
    BY <1>2 DEF Storing, Replacing, Forgiven
  <2> QED BY <1>2, <2>1 DEF BudgetInv, Never
<1>3. ASSUME Base, BudgetInv, Next PROVE BudgetInv'
  <2> DEFINE Size == Cardinality(Storing)
             Size1 == Cardinality(Storing)'
             Limit == DEK_MAX_ENCRYPTIONS
  <2>1. TypeOK /\ TypeOK' /\ Recorded' /\ history \subseteq history'
    BY <1>3, TypeStep, HistoryStep DEF Base
  <2>2. \A t \in Threads : rotating[t] = "dek" =>
          pc[t] \in (RotationSteps \ {"master_rewrap"}) \union {"dek_reset"}
    BY <1>3 DEF BudgetInv
  <2>3. /\ IsFiniteSet(Storing) /\ Size \in Nat /\ Replacing \in {0, 1} /\ Forgiven \in Nat
        /\ Cardinality(Threads) \in Nat /\ Size + Replacing <= Cardinality(Threads)
        /\ Limit \in Nat \ {0} /\ sealed \in Nat /\ dbUsage.count \in Nat
    BY <2>1, <2>2, Sizes DEF TypeOK, StoreSteps, RotationSteps
  <2>4. ASSUME Never({"overlap", "overtake"})'
        PROVE  /\ sealed <= Forgiven + dbUsage.count + Size
               /\ dbUsage.count < Forgiven + Limit + Replacing
               /\ sealed < Forgiven + Limit + Size + Replacing
               /\ \A t \in Threads : pc[t] = "dek_reset" => sealed = 0
               /\ ~Overlap' /\ ~Overtake' /\ ~Overlap /\ ~Overtake
    BY <1>3, <2>1, <2>4 DEF Base, BudgetInv, Never, Recorded
  <2>5. CASE InitializeVault \/ OpenVault
    <3>1. UNCHANGED <<pc, rotating, failures, crashes, sealed, dbUsage>>
      BY <2>5 DEF InitializeVault, OpenVault
    <3>2. Storing' = Storing /\ Replacing' = Replacing /\ Forgiven' = Forgiven
      BY <3>1 DEF Storing, Replacing, Forgiven
    <3> QED BY <2>2, <2>4, <3>1, <3>2 DEF BudgetInv
  <2>6. CASE Crash
    <3>1. /\ \A t \in Threads : pc'[t] = "idle" /\ rotating'[t] = "none"
          /\ UNCHANGED <<sealed, dbUsage, failures>> /\ crashes' = crashes + 1
      BY <2>6 DEF Crash
    <3>2. Size1 \in Nat /\ Replacing' \in {0, 1}
      <4>1. Storing' = {} /\ Replacing' = 0
        BY <3>1 DEF Storing, Replacing
      <4> QED BY <4>1, FS_EmptySet
    <3>3. Forgiven' = Forgiven + Cardinality(Threads)
      BY <2>1, <2>3, <3>1 DEF Forgiven, TypeOK
    <3> HIDE DEF Size, Size1, Limit
    <3>4. ASSUME Never({"overlap", "overtake"})'
          PROVE  /\ sealed' <= Forgiven' + dbUsage'.count + Size1
                 /\ dbUsage'.count < Forgiven' + Limit + Replacing'
                 /\ sealed' < Forgiven' + Limit + Size1 + Replacing'
      BY <2>3, <2>4, <3>1, <3>2, <3>3, <3>4
    <3> QED BY <3>1, <3>4 DEF BudgetInv, Size1, Limit
  <2>7. ASSUME NEW t \in Threads, Step(t) PROVE BudgetInv'
    <3>1. /\ OthersKept(t) /\ pc' \in [Threads -> PCs] /\ crashes' = crashes
      BY <2>1, <2>7, StepFrame DEF LocalTypes
    <3>2. /\ (pc[t] \in StoreSteps <=> pc'[t] \in StoreSteps) => Size1 = Size
          /\ pc[t] \notin StoreSteps /\ pc'[t] \in StoreSteps => Size1 = Size + 1
          /\ pc[t] \in StoreSteps /\ pc'[t] \notin StoreSteps => Size1 = Size - 1
          /\ (rotating[t] = "dek" <=> rotating'[t] = "dek") => Replacing' = Replacing
          /\ rotating'[t] = "dek" => Replacing' = 1
          /\ rotating[t] = "dek" => Replacing = 1
      BY <2>3, <3>1, SizesStep
    <3>3. /\ failures' = failures => Forgiven' = Forgiven
          /\ failures' = failures + 1 => Forgiven' = Forgiven + 1
      BY <2>1, <2>3, <3>1 DEF Forgiven, TypeOK
    <3>4. Replacing' \in {0, 1}
      BY DEF Replacing
    <3> HIDE DEF Size, Size1, Limit
    <3>5. ASSUME rotating'[t] = "dek" =>
                   pc'[t] \in (RotationSteps \ {"master_rewrap"}) \union {"dek_reset"},
                 Never({"overlap", "overtake"})' =>
                   /\ sealed' <= Forgiven' + dbUsage'.count + Size1
                   /\ dbUsage'.count < Forgiven' + Limit + Replacing'
                   /\ sealed' < Forgiven' + Limit + Size1 + Replacing'
                   /\ pc'[t] = "dek_reset" => sealed' = 0
                   /\ sealed' \in {sealed, 0} \/ \A u \in Threads : u # t => pc'[u] # "dek_reset"
          PROVE  BudgetInv'
      BY <2>2, <2>4, <3>1, <3>5 DEF BudgetInv, OthersKept, Size1, Limit
    \* A step that counts nothing and ends nothing.
    <3>6. ASSUME UNCHANGED <<sealed, dbUsage, failures>>,
                 pc[t] \in StoreSteps <=> pc'[t] \in StoreSteps,
                 rotating[t] = "dek" => rotating'[t] = "dek",
                 rotating'[t] = "dek" =>
                   pc'[t] \in (RotationSteps \ {"master_rewrap"}) \union {"dek_reset"},
                 pc'[t] # "dek_reset"
          PROVE  BudgetInv'
      BY <2>3, <2>4, <3>2, <3>3, <3>4, <3>5, <3>6
    \* A step that raises.
    <3>7. ASSUME Raise(t), UNCHANGED <<sealed, dbUsage>> PROVE BudgetInv'
      <4>1. pc'[t] = "idle" /\ rotating'[t] = "none" /\ failures' = failures + 1
        BY <2>1, <3>7, RaiseFrame
      <4>2. /\ Size1 + Replacing' + 1 >= Size + Replacing /\ Size1 + 1 >= Size
            /\ Replacing' + 1 >= Replacing /\ Size1 \in Nat
        <5>1. pc'[t] \notin StoreSteps
          BY <4>1 DEF StoreSteps
        <5>2. rotating[t] = "dek" => pc[t] \notin StoreSteps
          BY <2>2 DEF StoreSteps, RotationSteps
        <5>3. pc[t] \in StoreSteps => Size # 0
          <6>1. Size = 0 => Storing = {}
            BY <2>3, FS_EmptySet DEF Size
          <6> QED BY <6>1 DEF Storing, StoreSteps
        <5>4. CASE pc[t] \in StoreSteps
          <6>1. Size1 = Size - 1 /\ Replacing' = Replacing
            BY <3>2, <4>1, <5>1, <5>2, <5>4
          <6> QED BY <2>3, <5>3, <5>4, <6>1
        <5>5. CASE pc[t] \notin StoreSteps
          <6>1. Size1 = Size
            BY <3>2, <5>1, <5>5
          <6>2. /\ Replacing \in Nat /\ Replacing' \in Nat
                /\ Replacing <= 1 /\ Replacing' >= 0
            BY <2>3, <3>4
          <6>3. ASSUME NEW x \in Nat, NEW y \in Nat, NEW z \in Nat, y <= 1, z >= 0
                PROVE  x + z + 1 >= x + y /\ x + 1 >= x /\ z + 1 >= y
            BY <6>3
          <6>4. /\ Size + Replacing' + 1 >= Size + Replacing /\ Size + 1 >= Size
                /\ Replacing' + 1 >= Replacing
            BY <2>3, <6>2, <6>3
          <6> QED BY <2>3, <6>1, <6>4, Zenon
        <5> QED BY <5>4, <5>5
      <4> QED BY <2>3, <2>4, <3>3, <3>4, <3>5, <3>7, <4>1, <4>2
    <3>8. CASE Fails(t)
      BY <3>7, <3>8 DEF Fails
    <3>9. ASSUME NEW n \in Names, SetEncrypt(t, n) PROVE BudgetInv'
      <4>1. /\ pc[t] = "idle" /\ pc'[t] = "set_store" /\ UNCHANGED <<rotating, dbUsage, failures>>
            /\ sealed' = sealed + 1
        BY <2>1, <3>9 DEF SetEncrypt, At, Goto, TypeOK
      <4>2. Size1 = Size + 1 /\ Replacing' = Replacing /\ Forgiven' = Forgiven /\ rotating'[t] # "dek"
        BY <2>2, <3>2, <3>3, <4>1 DEF StoreSteps, RotationSteps
      <4>3. ~Overtake' => \A u \in Threads : u # t => pc'[u] # "dek_reset"
        BY <4>1 DEF Overtake
      <4> QED BY <2>3, <2>4, <3>5, <4>1, <4>2, <4>3
    <3>10. CASE SetStore(t) /\ ~Fails(t)
      <4>1. /\ pc[t] = "set_store" /\ pc'[t] = "set_tally"
            /\ UNCHANGED <<rotating, dbUsage, failures, sealed>>
        BY <2>1, <3>10 DEF SetStore, At, Goto, TypeOK
      <4> QED BY <2>2, <3>6, <4>1 DEF StoreSteps, RotationSteps
    <3>11. CASE SetTally(t) /\ ~Fails(t)
      <4>1. /\ pc[t] = "set_tally" /\ dbUsage'.count = dbUsage.count + 1
            /\ UNCHANGED <<failures, sealed>>
            /\ \/ pc'[t] = "epoch_read" /\ rotating'[t] = "dek"
               \/ pc'[t] = "idle" /\ rotating'[t] = "none" /\ dbUsage'.count < Limit
        BY <2>1, <3>11, ReturnFrame DEF SetTally, OverBudget, At, Goto, TypeOK, Limit
      <4>2. Size1 = Size - 1 /\ Forgiven' = Forgiven /\ rotating[t] # "dek" /\ pc'[t] # "dek_reset"
        BY <2>2, <3>2, <3>3, <4>1 DEF StoreSteps, RotationSteps
      <4>3. CASE pc'[t] = "epoch_read" /\ rotating'[t] = "dek"
        <5>1. ~Overlap' /\ ~Overtake => \A u \in Threads : rotating[u] # "dek"
          BY <2>2, <3>1, <4>1, <4>2, <4>3 DEF Overlap, Overtake, OthersKept, RotationSteps
        <5>2. (\A u \in Threads : rotating[u] # "dek") => Replacing = 0
          BY DEF Replacing
        <5>3. Replacing' = 1 /\ pc'[t] \in RotationSteps \ {"master_rewrap"}
          BY <3>2, <4>3 DEF RotationSteps
        <5> QED BY <2>3, <2>4, <3>5, <4>1, <4>2, <4>3, <5>1, <5>2, <5>3
      <4>4. CASE pc'[t] = "idle" /\ rotating'[t] = "none" /\ dbUsage'.count < Limit
        <5>1. Replacing' = Replacing
          BY <3>2, <4>2, <4>4
        <5> QED BY <2>3, <2>4, <3>5, <4>1, <4>2, <4>4, <5>1
      <4> QED BY <4>1, <4>3, <4>4
    <3>12. CASE (\E n \in Names : Revoke(t, n) \/ LeaseRead(t, n)) \/ LeaseDecrypt(t) \/ LeaseEnd(t)
      <4>1. /\ pc[t] \in {"idle", "lease_decrypt", "leased", "failed"}
            /\ pc'[t] \in {"idle", "lease_decrypt", "leased", "failed"}
            /\ UNCHANGED <<dbUsage, failures, sealed>> /\ rotating'[t] \in {rotating[t], "none"}
        BY <2>1, <3>12, ReturnFrame DEF Revoke, LeaseRead, LeaseDecrypt, LeaseEnd, At, Goto, TypeOK
      <4> QED BY <2>2, <3>6, <4>1 DEF StoreSteps, RotationSteps
    <3>13. CASE RotateMasterKey(t) \/ RotateDek(t)
      <4>1. /\ pc[t] = "idle" /\ pc'[t] = "epoch_read" /\ UNCHANGED <<dbUsage, failures, sealed>>
        BY <2>1, <3>13 DEF RotateMasterKey, RotateDek, At, Goto, TypeOK
      <4> QED BY <2>2, <3>6, <4>1 DEF StoreSteps, RotationSteps
    <3>14. CASE (EpochRead(t) \/ EpochWrite(t) \/ DekMaster(t)) /\ ~Fails(t)
      <4>1. /\ pc[t] \in {"epoch_read", "epoch_write", "dek_master"}
            /\ pc'[t] \in {"epoch_write", "master_rewrap", "dek_master", "dek_init"}
            /\ pc'[t] = "master_rewrap" => rotating[t] = "master"
            /\ UNCHANGED <<rotating, dbUsage, failures, sealed>>
        BY <2>1, <3>14 DEF EpochRead, EpochWrite, DekMaster, At, Goto, TypeOK
      <4> QED BY <3>6, <4>1 DEF StoreSteps, RotationSteps
    <3>15. CASE RewrapDek(t)
      <4>1. pc[t] = "master_rewrap" /\ UNCHANGED <<dbUsage, sealed>>
        BY <3>15 DEF RewrapDek, At
      <4>2. CASE Raise(t)
        BY <3>7, <4>1, <4>2
      <4>3. CASE ~Raise(t)
        <5>1. pc'[t] = "idle" /\ rotating'[t] = "none" /\ failures' = failures
          BY <2>1, <3>15, <4>3, ReturnFrame DEF RewrapDek
        <5> QED BY <2>2, <3>6, <4>1, <5>1 DEF StoreSteps, RotationSteps
      <4> QED BY <4>2, <4>3
    <3>16. CASE DekInit(t) \/ DekRewrite(t) \/ DekReplace(t)
      <4>1. pc[t] \in {"dek_init", "dek_rewrite", "dek_replace"} /\ UNCHANGED <<dbUsage, sealed>>
        BY <3>16 DEF DekInit, DekRewrite, DekReplace, At
      <4>2. CASE Raise(t)
        BY <3>7, <4>1, <4>2
      <4>3. CASE ~Raise(t)
        <5>1. /\ pc'[t] \in {"dek_rewrite", "dek_replace", "dek_load"}
              /\ UNCHANGED <<rotating, failures>>
          BY <2>1, <3>16, <4>3 DEF DekInit, DekRewrite, DekReplace, Goto, TypeOK
        <5> QED BY <3>6, <4>1, <5>1 DEF StoreSteps, RotationSteps
      <4> QED BY <4>2, <4>3
    <3>17. CASE DekLoad(t)
      <4>1. pc[t] = "dek_load" /\ UNCHANGED dbUsage
        BY <3>17 DEF DekLoad, At
      <4>2. CASE Raise(t) /\ sealed' = sealed
        BY <3>7, <4>1, <4>2
      <4>3. CASE ~(Raise(t) /\ sealed' = sealed)
        <5>1. pc'[t] = "dek_reset" /\ sealed' = 0 /\ UNCHANGED <<rotating, failures>>
          BY <2>1, <3>17, <4>3 DEF DekLoad, Goto, TypeOK
        <5>2. Size1 = Size /\ Replacing' = Replacing /\ Forgiven' = Forgiven
          BY <3>2, <3>3, <4>1, <5>1 DEF StoreSteps
        <5> QED BY <2>3, <2>4, <3>5, <4>1, <5>1, <5>2
      <4> QED BY <4>2, <4>3
    <3>18. CASE DekReset(t) /\ ~Fails(t)
      <4>1. /\ pc[t] = "dek_reset" /\ pc'[t] = "idle" /\ rotating'[t] = "none"
            /\ dbUsage'.count = 0 /\ UNCHANGED <<failures, sealed>>
        BY <2>1, <3>18, ReturnFrame DEF DekReset, At
      <4>2. Size1 = Size /\ Forgiven' = Forgiven
        BY <3>2, <3>3, <4>1 DEF StoreSteps
      <4> QED BY <2>3, <2>4, <3>4, <3>5, <4>1, <4>2
    <3> QED BY <2>7, <3>8, <3>9, <3>10, <3>11, <3>12, <3>13, <3>14, <3>15, <3>16, <3>17, <3>18
            DEF Step
  <2> QED BY <1>3, <2>5, <2>6, <2>7 DEF Next
<1> QED BY <1>1, <1>2, <1>3

\* However many threads store, whatever raises and however often the process
\* dies: the DEK in use has sealed no more values than its budget, what the
\* threads about to count had sealed, one for each call that raised and one for
\* each thread and crash.
THEOREM BudgetCorrect == Spec => []DekBudget
<1>1. ASSUME Base, BudgetInv PROVE DekBudget
  <2> SUFFICES ASSUME Never({"overlap", "overtake"})
               PROVE  sealed < DEK_MAX_ENCRYPTIONS + failures + Cardinality(Threads) * (crashes + 1)
    BY DEF DekBudget
  <2>1. /\ Cardinality(Storing) \in Nat /\ Replacing \in {0, 1} /\ Forgiven \in Nat
        /\ Cardinality(Threads) \in Nat
        /\ Cardinality(Storing) + Replacing <= Cardinality(Threads)
    BY <1>1, Sizes DEF Base, BudgetInv, StoreSteps, RotationSteps
  <2>2. sealed < Forgiven + DEK_MAX_ENCRYPTIONS + Cardinality(Storing) + Replacing
    BY <1>1 DEF BudgetInv
  <2>3. sealed \in Nat /\ crashes \in Nat /\ failures \in Nat /\ DEK_MAX_ENCRYPTIONS \in Nat
    BY <1>1, KeyRotationAssumption DEF Base, TypeOK
  <2>4. Forgiven + Cardinality(Threads) = failures + Cardinality(Threads) * (crashes + 1)
    BY <2>1, <2>3 DEF Forgiven
  <2> QED BY <2>1, <2>2, <2>3, <2>4
<1> QED BY BaseInductive, BudgetInductive, <1>1, PTL DEF Spec

=============================================================================
