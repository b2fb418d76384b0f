----------------------------- MODULE KeyRotation -----------------------------
(***************************************************************************)
(* The key lifecycle of one vault: python/vault.py (VaultManager.__init__,  *)
(* set_secret, lease_secret, revoke_secret, rotate_master_key, rotate_dek), *)
(* python/keychain.py (KeyringProvider, HardenedDEKManager) and the         *)
(* metadata and secrets tables of python/storage/sqlite.py.                 *)
(*                                                                         *)
(* Four stores must agree and no transaction spans them: the master secret  *)
(* in the OS keyring, the wrapped DEK in keychain.json, the key epoch and   *)
(* the secret rows in vault.db, and the DEK in the process's memory.  Each  *)
(* action below is one step between two points where another thread of the  *)
(* server or a crash can come in: a SQLite transaction, a file operation, a *)
(* keyring call, a read of self.dek.                                        *)
(*                                                                         *)
(* A key is a number, 0 for none; a ciphertext is the DEK it was sealed     *)
(* with (AES-GCM opens it under that key and fails under any other).  A     *)
(* write of a file is one step, which a crash may leave torn.               *)
(*                                                                         *)
(* Every one of these steps can also raise: the database is busy or full,   *)
(* the keyring is locked, a file cannot be written or replaced, the hook    *)
(* denies the rotation.  The call is over then, what it had done stays, and *)
(* the process goes on.                                                     *)
(***************************************************************************)
EXTENDS Naturals, FiniteSets

CONSTANTS
  Names,               \* (namespace, name) pairs
  Threads,             \* threads of the server's pool
  ProviderRotates,     \* master_provider.rotate_secret is callable
  ExplicitVersions,    \* lease_secret is also called with version=
  ValueSizes,          \* len(plaintext) of the values stored
  DEK_MAX_ENCRYPTIONS,
  DEK_MAX_BYTES,
  MaxEpoch,            \* bound: no operation that may rotate starts beyond it
  MaxFaults            \* bound: crashes, and steps that raise by a fault outside

ASSUME KeyRotationAssumption ==
  /\ IsFiniteSet(Threads)
  /\ ProviderRotates \in BOOLEAN /\ ExplicitVersions \in BOOLEAN
  /\ ValueSizes \subseteq Nat
  /\ DEK_MAX_ENCRYPTIONS \in Nat \ {0} /\ DEK_MAX_BYTES \in Nat \ {0}
  /\ MaxEpoch \in Nat /\ MaxFaults \in Nat

VARIABLES
  master,         \* the OS keyring entry
  keychain,       \* keychain.json
  newKeychain,    \* keychain.json.new
  dbEpoch,        \* metadata.key_epoch
  dbUsage,        \* metadata.dek_encrypt_count, dek_encrypt_bytes
  active,         \* name -> DEK of its ACTIVE row's ciphertext
  superseded,     \* name -> DEKs of its SUPERSEDED rows
  revoked,        \* name -> DEKs of its REVOKED rows
  process,        \* "down" or "up"
  dek,            \* self.dek
  managerDek,     \* self.dek_manager._dek
  pc,             \* thread -> the step it takes next
  rotating,       \* thread -> which rotation increment_key_epoch is called by
  secret,         \* thread -> the name it works on
  ciphertext,     \* thread -> the DEK of the ciphertext it holds
  newEpoch,       \* thread -> new_epoch
  newDek,         \* thread -> new_dek
  masterSecret,   \* thread -> master_secret, new_master
  deks, masters,  \* how many DEKs and master secrets os.urandom has produced
  crashes,        \* how often the process died
  failures,       \* how many calls raised
  sealed,         \* history: set_secret encryptions made under self.dek
  history,        \* history: which Events there were
  lastRotation,   \* history: how the last rotation ended
  named,          \* history: the epochs of the files that were keychain.json
  raced           \* history: the leases that a rotation has overtaken

files   == <<keychain, newKeychain>>
rows    == <<active, superseded, revoked>>
durable == <<master, files, dbEpoch, dbUsage, rows>>
memory  == <<process, dek, managerDek>>
locals  == <<rotating, secret, ciphertext, newEpoch, newDek, masterSecret>>
fresh   == <<deks, masters>>
ghosts  == <<crashes, failures, sealed>>
record  == <<history, lastRotation, named, raced>>
vars    == <<durable, memory, pc, locals, fresh, ghosts, record>>

NoKey == 0
Keys  == Nat \ {NoKey}

Absent == [state |-> "absent", epoch |-> 0, dek |-> NoKey, master |-> NoKey]
Torn   == [Absent EXCEPT !.state = "torn"]

\* A keychain file: `dek` wrapped under `master` with AAD vault_id:`epoch`.
Wrapped(e, d, m) == [state |-> "whole", epoch |-> e, dek |-> d, master |-> m]

Files == [state : {"absent", "torn", "whole"}, epoch : Nat, dek : Nat, master : Nat]

PCs == {"idle", "set_store", "set_tally", "lease_decrypt", "leased", "failed",
        "epoch_read", "epoch_write", "master_rewrap", "dek_master", "dek_init",
        "dek_rewrite", "dek_replace", "dek_load", "dek_reset"}

Events == {"overlap", "interleave", "overtake", "split"}

TypeOK ==
  /\ master \in Nat /\ dbEpoch \in Nat
  /\ keychain \in Files /\ newKeychain \in Files
  /\ dbUsage \in [count : Nat, bytes : Nat]
  /\ active \in [Names -> Nat] /\ superseded \in [Names -> SUBSET Nat]
  /\ revoked \in [Names -> SUBSET Nat]
  /\ process \in {"down", "up"} /\ dek \in Nat /\ managerDek \in Nat
  /\ pc \in [Threads -> PCs]
  /\ rotating \in [Threads -> {"none", "master", "dek"}]
  /\ secret \in [Threads -> Names \union {NoKey}]
  /\ ciphertext \in [Threads -> Nat]
  /\ newEpoch \in [Threads -> Nat] /\ newDek \in [Threads -> Nat]
  /\ masterSecret \in [Threads -> Nat]
  /\ deks \in Nat /\ masters \in Nat
  /\ crashes \in Nat /\ failures \in Nat /\ sealed \in Nat
  /\ history \subseteq Events /\ lastRotation \in {"completed", "raised"}
  /\ named \subseteq Nat /\ raced \subseteq Threads

\* Before the first VaultManager: an empty database, no keyring entry, no file.
Init ==
  /\ master = NoKey /\ dbEpoch = 1 /\ dbUsage = [count |-> 0, bytes |-> 0]
  /\ keychain = Absent /\ newKeychain = Absent
  /\ active = [n \in Names |-> NoKey] /\ superseded = [n \in Names |-> {}]
  /\ revoked = [n \in Names |-> {}]
  /\ process = "down" /\ dek = NoKey /\ managerDek = NoKey
  /\ pc = [t \in Threads |-> "idle"] /\ rotating = [t \in Threads |-> "none"]
  /\ secret = [t \in Threads |-> NoKey] /\ ciphertext = [t \in Threads |-> NoKey]
  /\ newEpoch = [t \in Threads |-> 0] /\ newDek = [t \in Threads |-> NoKey]
  /\ masterSecret = [t \in Threads |-> NoKey]
  /\ deks = 0 /\ masters = 0 /\ crashes = 0 /\ failures = 0 /\ sealed = 0
  /\ history = {} /\ lastRotation = "completed" /\ named = {} /\ raced = {}

Goto(t, label) == pc' = [pc EXCEPT ![t] = label]

\* Thread t is about to take the step `label` of a call the process runs.
At(t, label) == process = "up" /\ pc[t] = label

\* The call of thread t is over; its locals are gone.
Return(t) ==
  /\ Goto(t, "idle")
  /\ rotating' = [rotating EXCEPT ![t] = "none"]
  /\ secret' = [secret EXCEPT ![t] = NoKey]
  /\ ciphertext' = [ciphertext EXCEPT ![t] = NoKey]
  /\ newEpoch' = [newEpoch EXCEPT ![t] = 0]
  /\ newDek' = [newDek EXCEPT ![t] = NoKey]
  /\ masterSecret' = [masterSecret EXCEPT ![t] = NoKey]

\* It ends with an exception.
Raise(t) == Return(t) /\ failures' = failures + 1

\* A fault of the database, the keyring, a file or the hook ends it, and the
\* step it was about to take has changed nothing.
Fault == crashes + failures < MaxFaults
Fails(t) == Fault /\ Raise(t) /\ UNCHANGED <<durable, memory, fresh, crashes, sealed>>

-----------------------------------------------------------------------------
(***************************************************************************)
(* Starting and losing the process.                                        *)
(***************************************************************************)

\* Mutant: load_dek without the epoch comparison.
LoadsAnyEpoch(e, m) == keychain.state = "whole" /\ keychain.master = m

\* load_dek accepts keychain.json for this database and this keyring entry.
Loads(e, m) == keychain.state = "whole" /\ keychain.epoch = e /\ keychain.master = m

\* VaultManager.__init__ on a fresh install: bootstrap the master secret if
\* the keyring has none, then initialize_dek.
InitializeVault ==
  /\ process = "down" /\ keychain = Absent
  /\ masters' = IF master = NoKey THEN masters + 1 ELSE masters
  /\ master' = IF master = NoKey THEN masters' ELSE master
  /\ deks' = deks + 1
  /\ keychain' = Wrapped(dbEpoch, deks', master')
  /\ process' = "up" /\ dek' = deks' /\ managerDek' = deks'
  /\ UNCHANGED <<newKeychain, dbEpoch, dbUsage, rows, pc, locals, ghosts>>

\* VaultManager.__init__ on an existing vault.  A keychain.json that is torn,
\* of another epoch or under another master secret raises: no step.
OpenVault ==
  /\ process = "down" /\ Loads(dbEpoch, master)
  /\ process' = "up" /\ dek' = keychain.dek /\ managerDek' = keychain.dek
  /\ UNCHANGED <<durable, pc, locals, fresh, ghosts>>

\* The process dies (or is stopped).  A file it was writing may be cut short.
Crash ==
  /\ process = "up" /\ Fault
  /\ crashes' = crashes + 1
  /\ \/ UNCHANGED files
     \/ /\ \E t \in Threads : pc[t] = "master_rewrap" /\ managerDek # NoKey
        /\ keychain' = Torn /\ UNCHANGED newKeychain
     \/ /\ \E t \in Threads : pc[t] = "dek_init"
        /\ newKeychain' = Torn /\ UNCHANGED keychain
  /\ process' = "down" /\ dek' = NoKey /\ managerDek' = NoKey
  /\ pc' = [t \in Threads |-> "idle"] /\ rotating' = [t \in Threads |-> "none"]
  /\ secret' = [t \in Threads |-> NoKey] /\ ciphertext' = [t \in Threads |-> NoKey]
  /\ newEpoch' = [t \in Threads |-> 0] /\ newDek' = [t \in Threads |-> NoKey]
  /\ masterSecret' = [t \in Threads |-> NoKey]
  /\ UNCHANGED <<master, dbEpoch, dbUsage, rows, fresh, failures, sealed>>

-----------------------------------------------------------------------------
(***************************************************************************)
(* Storing, revoking and leasing.                                          *)
(***************************************************************************)

\* set_secret: encrypt under self.dek, before any transaction is open.
SetEncrypt(t, n) ==
  /\ At(t, "idle") /\ dbEpoch < MaxEpoch
  /\ secret' = [secret EXCEPT ![t] = n]
  /\ ciphertext' = [ciphertext EXCEPT ![t] = dek]
  /\ sealed' = sealed + 1
  /\ Goto(t, "set_store")
  /\ UNCHANGED <<durable, memory, rotating, newEpoch, newDek, masterSecret, fresh,
                 crashes, failures>>

\* The DEKs of a name's rows of one status, with that of its ACTIVE row, if any.
Retired(keys, n) == [keys EXCEPT ![n] = @ \union ({active[n]} \ {NoKey})]

\* StorageBackend.set_secret: supersede the ACTIVE row and insert the new one,
\* or raise (another process holds the write lock, the disk is full).
SetStore(t) ==
  /\ At(t, "set_store")
  /\ \/ /\ superseded' = Retired(superseded, secret[t])
        /\ active' = [active EXCEPT ![secret[t]] = ciphertext[t]]
        /\ Goto(t, "set_tally")
        /\ UNCHANGED <<master, files, dbEpoch, dbUsage, revoked, memory, locals, fresh, ghosts>>
     \/ Fails(t)

\* Mutant: the thresholds are compared with > instead of >=.
OverBudgetLate(usage) ==
  usage.count > DEK_MAX_ENCRYPTIONS \/ usage.bytes > DEK_MAX_BYTES

\* The DEK has made as many encryptions, or encrypted as many bytes, as it may.
OverBudget(usage) ==
  usage.count >= DEK_MAX_ENCRYPTIONS \/ usage.bytes >= DEK_MAX_BYTES

\* _record_dek_usage_and_maybe_rotate: count the encryption, and go on into
\* rotate_dek at either threshold; if increment_dek_usage raises, the row is
\* stored and its encryption is never counted.
SetTally(t) ==
  /\ At(t, "set_tally")
  /\ \/ /\ \E size \in ValueSizes :
             dbUsage' = [count |-> dbUsage.count + 1, bytes |-> dbUsage.bytes + size]
        /\ IF OverBudget(dbUsage')
             THEN /\ rotating' = [rotating EXCEPT ![t] = "dek"]
                  /\ Goto(t, "epoch_read")
                  /\ UNCHANGED <<secret, ciphertext, newEpoch, newDek, masterSecret>>
             ELSE Return(t)
        /\ UNCHANGED <<master, files, dbEpoch, rows, memory, fresh, ghosts>>
     \/ Fails(t)

\* revoke_secret, one transaction.
Revoke(t, n) ==
  /\ At(t, "idle") /\ active[n] # NoKey
  /\ revoked' = Retired(revoked, n)
  /\ active' = [active EXCEPT ![n] = NoKey]
  /\ UNCHANGED <<master, files, dbEpoch, dbUsage, superseded, memory, pc, locals, fresh, ghosts>>

\* lease_secret reads a row: the ACTIVE one, or with version= any of the name's.
LeaseRead(t, n) ==
  /\ At(t, "idle")
  /\ \E ct \in {active[n]} \union (IF ExplicitVersions THEN superseded[n] \union revoked[n] ELSE {}) :
       /\ ct # NoKey
       /\ ciphertext' = [ciphertext EXCEPT ![t] = ct]
  /\ secret' = [secret EXCEPT ![t] = n]
  /\ Goto(t, "lease_decrypt")
  /\ UNCHANGED <<durable, memory, rotating, newEpoch, newDek, masterSecret, fresh, ghosts>>

\* lease_secret decrypts under self.dek: a buffer, or DecryptionError.
LeaseDecrypt(t) ==
  /\ At(t, "lease_decrypt")
  /\ Goto(t, IF ciphertext[t] = dek THEN "leased" ELSE "failed")
  /\ UNCHANGED <<durable, memory, locals, fresh, ghosts>>

\* The caller leaves the with block, or has the exception.
LeaseEnd(t) ==
  /\ process = "up" /\ pc[t] \in {"leased", "failed"}
  /\ Return(t)
  /\ UNCHANGED <<durable, memory, fresh, ghosts>>

-----------------------------------------------------------------------------
(***************************************************************************)
(* Rotation.                                                               *)
(***************************************************************************)

\* rotate_master_key: the provider replaces the keyring entry at once.
RotateMasterKey(t) ==
  /\ At(t, "idle") /\ ProviderRotates /\ dbEpoch < MaxEpoch
  /\ masters' = masters + 1
  /\ master' = masters'
  /\ masterSecret' = [masterSecret EXCEPT ![t] = masters']
  /\ rotating' = [rotating EXCEPT ![t] = "master"]
  /\ Goto(t, "epoch_read")
  /\ UNCHANGED <<files, dbEpoch, dbUsage, rows, memory,
                 secret, ciphertext, newEpoch, newDek, deks, ghosts>>

\* rotate_dek, called by an operator.
RotateDek(t) ==
  /\ At(t, "idle") /\ dbEpoch < MaxEpoch
  /\ rotating' = [rotating EXCEPT ![t] = "dek"]
  /\ Goto(t, "epoch_read")
  /\ UNCHANGED <<durable, memory, secret, ciphertext, newEpoch, newDek, masterSecret, fresh, ghosts>>

\* Mutant: the successor is taken of the epoch the keychain was wrapped for.
EpochReadStale(t) ==
  /\ At(t, "epoch_read")
  /\ newEpoch' = [newEpoch EXCEPT ![t] = keychain.epoch]
  /\ Goto(t, "epoch_write")
  /\ UNCHANGED <<durable, memory, rotating, secret, ciphertext, newDek, masterSecret, fresh, ghosts>>

\* The hook is asked; increment_key_epoch reads the epoch on one connection ...
EpochRead(t) ==
  /\ At(t, "epoch_read")
  /\ \/ /\ newEpoch' = [newEpoch EXCEPT ![t] = dbEpoch + 1]
        /\ Goto(t, "epoch_write")
        /\ UNCHANGED <<durable, memory, rotating, secret, ciphertext, newDek, masterSecret, fresh, ghosts>>
     \/ Fails(t)

\* ... and writes the successor of what it read on another.
EpochWrite(t) ==
  /\ At(t, "epoch_write")
  /\ \/ /\ dbEpoch' = newEpoch[t]
        /\ Goto(t, IF rotating[t] = "master" THEN "master_rewrap" ELSE "dek_master")
        /\ UNCHANGED <<master, files, dbUsage, rows, memory, locals, fresh, ghosts>>
     \/ Fails(t)

\* Mutant: the DEK is wrapped for the epoch the vault was opened with.
RewrapDekOldEpoch(t) ==
  /\ At(t, "master_rewrap")
  /\ keychain' = Wrapped(keychain.epoch, managerDek, masterSecret[t])
  /\ Return(t)
  /\ UNCHANGED <<master, newKeychain, dbEpoch, dbUsage, rows, memory, fresh, ghosts>>

\* rewrap_dek rewrites keychain.json in place.  Without a loaded DEK it raises;
\* a write that raises may leave the file cut short.
RewrapDek(t) ==
  /\ At(t, "master_rewrap")
  /\ \/ /\ managerDek # NoKey
        /\ keychain' = Wrapped(newEpoch[t], managerDek, masterSecret[t])
        /\ Return(t) /\ UNCHANGED failures
     \/ /\ managerDek = NoKey \/ Fault
        /\ keychain' \in {keychain} \union (IF managerDek = NoKey THEN {} ELSE {Torn})
        /\ Raise(t)
  /\ UNCHANGED <<master, newKeychain, dbEpoch, dbUsage, rows, memory, fresh, crashes, sealed>>

\* rotate_dek gets the master secret, if the keyring gives it, and makes the
\* new DEK ...
DekMaster(t) ==
  /\ At(t, "dek_master")
  /\ \/ /\ masterSecret' = [masterSecret EXCEPT ![t] = master]
        /\ deks' = deks + 1
        /\ newDek' = [newDek EXCEPT ![t] = deks']
        /\ Goto(t, "dek_init")
        /\ UNCHANGED <<durable, memory, rotating, secret, ciphertext, newEpoch, masters, ghosts>>
     \/ Fails(t)

\* Mutant: the new DEK is only kept in memory.
DekInitUnwritten(t) ==
  /\ At(t, "dek_init")
  /\ Goto(t, "dek_rewrite")
  /\ UNCHANGED <<durable, memory, locals, fresh, ghosts>>

\* ... which initialize_dek wraps into keychain.json.new.
DekInit(t) ==
  /\ At(t, "dek_init")
  /\ \/ /\ newKeychain' = Wrapped(newEpoch[t], newDek[t], masterSecret[t])
        /\ Goto(t, "dek_rewrite") /\ UNCHANGED <<locals, failures>>
     \/ /\ Fault /\ newKeychain' \in {newKeychain, Torn}
        /\ Raise(t)
  /\ UNCHANGED <<master, keychain, dbEpoch, dbUsage, rows, memory, fresh, crashes, sealed>>

\* bulk_rewrite_active_secrets: one transaction over every ACTIVE row.  It is
\* rolled back when a row does not decrypt under self.dek, or when SQLite
\* raises, and rotate_dek raises with the epoch already written.
DekRewrite(t) ==
  /\ At(t, "dek_rewrite")
  /\ \/ /\ \A n \in Names : active[n] \in {NoKey, dek}
        /\ active' = [n \in Names |-> IF active[n] = NoKey THEN NoKey ELSE newDek[t]]
        /\ Goto(t, "dek_replace") /\ UNCHANGED <<locals, failures>>
     \/ /\ Fault \/ \E n \in Names : active[n] \notin {NoKey, dek}
        /\ Raise(t) /\ UNCHANGED active
  /\ UNCHANGED <<master, files, dbEpoch, dbUsage, superseded, revoked, memory, fresh, crashes, sealed>>

\* os.replace of the new file over keychain.json, and a manager that has
\* loaded nothing yet.  With no file to replace it raises.
DekReplace(t) ==
  /\ At(t, "dek_replace")
  /\ \/ /\ newKeychain # Absent
        /\ keychain' = newKeychain /\ newKeychain' = Absent
        /\ managerDek' = NoKey
        /\ Goto(t, "dek_load") /\ UNCHANGED <<locals, failures>>
     \/ /\ Fault \/ newKeychain = Absent
        /\ Raise(t) /\ UNCHANGED <<files, managerDek>>
  /\ UNCHANGED <<master, dbEpoch, dbUsage, rows, process, dek, fresh, crashes, sealed>>

\* Mutant: the manager loads the new DEK and self.dek keeps the old one.
DekLoadManagerOnly(t) ==
  /\ At(t, "dek_load")
  /\ managerDek' = keychain.dek /\ sealed' = 0
  /\ Goto(t, "dek_reset")
  /\ UNCHANGED <<durable, process, dek, locals, fresh, crashes, failures>>

\* Mutant: the counters are lowered by the thresholds instead of zeroed.
DekResetLowered(t) ==
  /\ At(t, "dek_reset")
  /\ dbUsage' = [count |-> dbUsage.count - DEK_MAX_ENCRYPTIONS,
                 bytes |-> dbUsage.bytes - DEK_MAX_BYTES]
  /\ Return(t)
  /\ UNCHANGED <<master, files, dbEpoch, rows, memory, fresh, ghosts>>

\* load_dek, and the assignments to self.dek and self.key_epoch.  It raises if
\* the file is not the one of this rotation or cannot be read.
DekLoad(t) ==
  /\ At(t, "dek_load")
  /\ \/ /\ Loads(newEpoch[t], masterSecret[t])
        /\ dek' = keychain.dek /\ managerDek' = keychain.dek
        /\ sealed' = 0
        /\ Goto(t, "dek_reset") /\ UNCHANGED <<locals, failures>>
     \/ /\ Fault \/ ~Loads(newEpoch[t], masterSecret[t])
        /\ Raise(t) /\ UNCHANGED <<dek, managerDek, sealed>>
  /\ UNCHANGED <<durable, process, fresh, crashes>>

\* reset_dek_usage.
DekReset(t) ==
  /\ At(t, "dek_reset")
  /\ \/ /\ dbUsage' = [count |-> 0, bytes |-> 0]
        /\ Return(t)
        /\ UNCHANGED <<master, files, dbEpoch, rows, memory, fresh, ghosts>>
     \/ Fails(t)

-----------------------------------------------------------------------------
Step(t) ==
  \/ \E n \in Names : SetEncrypt(t, n) \/ Revoke(t, n) \/ LeaseRead(t, n)
  \/ SetStore(t) \/ SetTally(t)
  \/ LeaseDecrypt(t) \/ LeaseEnd(t)
  \/ RotateMasterKey(t) \/ RotateDek(t)
  \/ EpochRead(t) \/ EpochWrite(t) \/ RewrapDek(t)
  \/ DekMaster(t) \/ DekInit(t) \/ DekRewrite(t)
  \/ DekReplace(t) \/ DekLoad(t) \/ DekReset(t)

\* The steps between the commit of the re-encrypted rows and the moment
\* self.dek names the DEK they are under.
PublishingSteps == {"dek_replace", "dek_load"}
Publishing == \E t \in Threads : pc[t] \in PublishingSteps

\* The steps between the first change a rotation makes to a durable store and
\* the last one.
RotationSteps == {"epoch_read", "epoch_write", "master_rewrap", "dek_master", "dek_init",
                  "dek_rewrite", "dek_replace", "dek_load"}
Rotating == \E t \in Threads : pc[t] \in RotationSteps

\* What the properties excuse.  Two rotations are under way at once ...
Overlap == \E t, u \in Threads : t # u /\ pc[t] \in RotationSteps /\ pc[u] \in RotationSteps
\* ... or are even inside increment_key_epoch at once.
Interleave == \E t, u \in Threads : t # u /\ pc[t] = "epoch_write" /\ pc[u] = "epoch_write"
\* A set_secret has encrypted its value and is not through while the rotation
\* of another thread replaces the DEK or has yet to reset its counters.
Overtake == \E t, u \in Threads :
  t # u /\ pc[t] \in {"set_store", "set_tally"} /\ pc[u] \in PublishingSteps \union {"dek_reset"}
\* A rotation raises when the rows are under the new DEK and self.dek is not.
Splits == process' = "up" /\ \E t \in Threads : pc[t] \in PublishingSteps /\ pc'[t] = "idle"

\* How a rotation ends: with the new key in place, or with an exception when
\* the keyring entry or the epoch has already changed.
Completes == \E t \in Threads :
  \/ pc[t] = "dek_load" /\ pc'[t] = "dek_reset"
  \/ pc[t] = "master_rewrap" /\ pc'[t] = "idle" /\ failures' = failures
Strands == \E t \in Threads :
  /\ pc[t] \in RotationSteps /\ pc'[t] = "idle" /\ failures' # failures
  /\ pc[t] \in {"epoch_read", "epoch_write"} => rotating[t] = "master"

\* What the history variables keep of a step.
Remember ==
  /\ history' = history \union {e \in Events :
                  \/ e = "overlap" /\ Overlap'
                  \/ e = "interleave" /\ Interleave'
                  \/ e = "overtake" /\ Overtake'
                  \/ e = "split" /\ Splits}
  /\ lastRotation' = IF process' = "down" \/ Completes THEN "completed"
                     ELSE IF Strands THEN "raised" ELSE lastRotation
  /\ named' = named \union (IF keychain'.state = "whole" THEN {keychain'.epoch} ELSE {})
  /\ raced' = {t \in Threads : \/ pc'[t] = "failed" /\ t \in raced
                               \/ pc'[t] = "lease_decrypt" /\ (t \in raced \/ Publishing')}

Next == (InitializeVault \/ OpenVault \/ Crash \/ \E t \in Threads : Step(t)) /\ Remember

Spec == Init /\ [][Next]_vars

-----------------------------------------------------------------------------
(***************************************************************************)
(* Properties.  Any thread may do anything; what two threads can do to each *)
(* other is named as the event without which a property holds.              *)
(***************************************************************************)
Never(events) == history \intersect events = {}

\* Every stored secret is readable: while the vault serves calls, and no
\* rotation is between its commit and its load, each ACTIVE row is under the
\* DEK the process decrypts with.  It holds across crashes, and after rotations
\* that raised before their rewrite was committed.
ActiveReadable ==
  process = "up" /\ ~Publishing /\ Never({"overlap", "overtake", "split"}) =>
    \A n \in Names : active[n] \in {NoKey, dek}

\* While no rotation is under way a restart brings back the DEK in use: keyring,
\* keychain.json and the database's epoch agree (__init__ would raise otherwise).
\* A rotation that raised half-way leaves a vault that will not open; the next
\* one that completes repairs it.
RestartKeepsDek ==
  process = "up" /\ ~Rotating /\ lastRotation = "completed" /\ Never({"overlap"}) =>
    Loads(dbEpoch, master) /\ keychain.dek = dek

\* No crash or error in rotate_dek destroys data: as long as keychain.json is
\* wrapped under the keyring's master secret, some keychain file on disk still
\* holds the DEK of every ACTIVE row.  (A crash in rotate_master_key, which
\* replaces the master secret before it rewraps, falsifies the premise.)
DataRecoverable ==
  keychain.master = master /\ Never({"overlap", "overtake", "split"}) =>
    \A n \in Names : active[n] # NoKey =>
      \E f \in {keychain, newKeychain} :
        f.state = "whole" /\ f.master = master /\ f.dek = active[n]

\* Rollback detection is sound, however rotations overlap, raise and crash: no
\* two keychain files that were ever current carry the same epoch, so an old one
\* is never taken for the current one, unless two calls of increment_key_epoch
\* interleaved and took one epoch.
EpochNamesOneKeychain ==
  [][keychain' # keychain /\ keychain'.state = "whole" /\ "interleave" \notin history' =>
       keychain'.epoch \notin named]_vars

\* The DEK's budget: it encrypts no more than DEK_MAX_ENCRYPTIONS values, one
\* more for each thread that had begun to store another when the last was
\* counted, one for each call that raised before it counted its own or rotated,
\* and one for each thread that a crash cut off there.
DekBudget ==
  Never({"overlap", "overtake"}) =>
    sealed < DEK_MAX_ENCRYPTIONS + failures + Cardinality(Threads) * (crashes + 1)

\* A lease of a secret's current version gets a DecryptionError only if a
\* rotation of another thread was publishing between its read and its
\* decryption.
LeaseFailsOnlyRaced ==
  Never({"overlap", "overtake", "split"}) =>
    \A t \in Threads : pc[t] = "failed" => t \in raced

(***************************************************************************)
(* What comments and tests claim and the code does not do.                 *)
(***************************************************************************)

\* "A crash mid-rotation leaves either the old DEK or the new DEK in effect":
\* after any crash the vault opens again (rotate_dek's docstring).
CrashLeavesVaultOpenable ==
  process = "down" => keychain = Absent \/ Loads(dbEpoch, master)

\* rotate_dek "re-encrypts every secret": with no call under way, the versions
\* that lease_secret(version=...) can name are readable too.
EveryVersionReadable ==
  process = "up" /\ (\A t \in Threads : pc[t] = "idle") =>
    \A n \in Names : superseded[n] \subseteq {dek}

\* A rotation leaves "every previously stored secret" readable: with no call
\* under way, each ACTIVE row is under the DEK in use.
StoredReadableAtRest ==
  process = "up" /\ (\A t \in Threads : pc[t] = "idle") =>
    \A n \in Names : active[n] \in {NoKey, dek}

=============================================================================
