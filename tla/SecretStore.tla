----------------------------- MODULE SecretStore -----------------------------
(***************************************************************************)
(* The database of one vault as several processes use it (the server, the   *)
(* MCP server and the command line open the same vault.db):                 *)
(* python/storage/sqlite.py's transactions, and the calls of                *)
(* python/vault.py that are made of more than one of them.                  *)
(*                                                                         *)
(* A thread that writes takes its process's _audit_lock, then SQLite's      *)
(* write lock (BEGIN IMMEDIATE, which gives up after busy_timeout), reads   *)
(* the hash at the end of the log, and commits rows and entry together.     *)
(* What a transaction does is local to it until Commit; a process may die   *)
(* at any point, which rolls its transaction back.                          *)
(*                                                                         *)
(* SHA-256 is taken to be free of collisions: a hash is the sequence of the *)
(* entries it covers.                                                       *)
(***************************************************************************)
EXTENDS Naturals, Sequences, FiniteSets

CONSTANTS
  Names,           \* (namespace, name) pairs
  Threads,
  Processes,
  ProcessOf,       \* thread -> its process
  NoThread,        \* nobody holds the lock
  Calls,           \* the calls made: some of "set", "revoke", "get", "list"
  MaxLog,          \* bound: no call starts when the entries of those under
                   \* way could bring the log to MaxLog
  MaxKills,        \* bound: deaths of a process
  MaxRestores      \* bound: calls of import_vault

ASSUME SecretStoreAssumption ==
  /\ IsFiniteSet(Threads) /\ NoThread \notin Threads
  /\ ProcessOf \in [Threads -> Processes]
  /\ Calls \subseteq {"set", "revoke", "get", "list"}
  /\ MaxLog \in Nat /\ MaxKills \in Nat /\ MaxRestores \in Nat

VARIABLES
  rows,       \* the secrets table, without ciphertexts
  log,        \* the audit_logs table in the order of ids
  auditLock,  \* process -> the thread that holds its _audit_lock
  writer,     \* the thread that holds SQLite's write lock
  pc,         \* thread -> the step it takes next
  call,       \* thread -> the transaction it is in, or about to begin
  tail,       \* thread -> prev_hash, as its transaction read it
  payload,    \* the secrets that an export_data under way has read
  backup,     \* what the last export_vault returned
  kills,
  restored    \* history: how often import_data has run

tables  == <<rows, log>>
locks   == <<auditLock, writer>>
threads == <<pc, call, tail>>
vars    == <<tables, locks, threads, payload, backup, kills, restored>>

Row(name, version, status) == [name |-> name, version |-> version, status |-> status]

\* What log_audit and _append_audit_in_tx hash of an entry, bar the timestamp.
Entry(action, name, version) == [action |-> action, name |-> name, version |-> version]

NoCall == [op |-> "none", name |-> NoThread]

\* entry_hash of entry e after prev_hash.
Hash(prev, e) == Append(prev, e)

LastHash == IF log = <<>> THEN <<>> ELSE log[Len(log)].hash

Versions(n) == {r.version : r \in {s \in rows : s.name = n}}
Active(n)   == {r \in rows : r.name = n /\ r.status = "ACTIVE"}

Ops == {"set", "revoke", "get", "granted", "returned", "list", "imported"}
PCs == {"idle", "lock", "begin", "commit", "leased", "export"}

Actions == {"SET_SECRET", "REVOKE_SECRET", "GET_SECRET", "GET_SECRET_FAILED", "LEASE_GRANTED",
            "LEASE_RETURNED", "LIST_SECRETS", "IMPORT"}
Entries == [action : Actions, name : Names \union {NoThread}, version : Nat]
Rows    == [name : Names, version : Nat \ {0}, status : {"ACTIVE", "SUPERSEDED", "REVOKED"}]
Links   == [entry : Entries, hash : Seq(Entries)]

TypeOK ==
  /\ rows \subseteq Rows
  /\ log \in Seq(Links)
  /\ auditLock \in [Processes -> Threads \union {NoThread}]
  /\ writer \in Threads \union {NoThread}
  /\ pc \in [Threads -> PCs]
  /\ call \in [Threads -> [op : Ops \union {"none"}, name : Names \union {NoThread}]]
  /\ tail \in [Threads -> Seq(Entries)]
  /\ payload \subseteq Rows /\ backup.taken \in BOOLEAN
  /\ backup.rows \subseteq Rows /\ backup.log \in Seq(Links)
  /\ kills \in Nat /\ restored \in Nat

Init ==
  /\ rows = {} /\ log = <<>>
  /\ auditLock = [p \in Processes |-> NoThread] /\ writer = NoThread
  /\ pc = [t \in Threads |-> "idle"] /\ call = [t \in Threads |-> NoCall]
  /\ tail = [t \in Threads |-> <<>>]
  /\ payload = {} /\ backup = [taken |-> FALSE, rows |-> {}, log |-> <<>>]
  /\ kills = 0 /\ restored = 0

-----------------------------------------------------------------------------
(***************************************************************************)
(* Calls and their transactions.                                           *)
(***************************************************************************)

\* Thread t goes on to the transaction `op` of its call.
Transact(t, op, n) ==
  /\ pc' = [pc EXCEPT ![t] = "lock"]
  /\ call' = [call EXCEPT ![t] = [op |-> op, name |-> n]]

Return(t) ==
  /\ pc' = [pc EXCEPT ![t] = "idle"]
  /\ call' = [call EXCEPT ![t] = NoCall]
  /\ tail' = [tail EXCEPT ![t] = <<>>]

Room == Len(log) + Cardinality({t \in Threads : pc[t] # "idle"}) < MaxLog

TakeLock(t) ==
  /\ auditLock[ProcessOf[t]] = NoThread
  /\ auditLock' = [auditLock EXCEPT ![ProcessOf[t]] = t]
  /\ pc' = [pc EXCEPT ![t] = "begin"]

\* A call up to `with self._audit_lock` in its first transaction.
Call(t) ==
  /\ pc[t] = "idle" /\ Room
  /\ TakeLock(t)
  /\ \E op \in Calls, n \in Names :
       call' = [call EXCEPT ![t] = [op |-> op, name |-> n]]
  /\ UNCHANGED <<tables, writer, tail, payload, backup, kills, restored>>

\* with self._audit_lock, in a later transaction of the call.
Lock(t) ==
  /\ pc[t] = "lock"
  /\ TakeLock(t)
  /\ UNCHANGED <<tables, writer, call, tail, payload, backup, kills, restored>>

\* Mutant: without BEGIN IMMEDIATE the SELECT of the last hash takes no lock.
BeginDeferred(t) ==
  /\ pc[t] = "begin"
  /\ tail' = [tail EXCEPT ![t] = LastHash]
  /\ pc' = [pc EXCEPT ![t] = "commit"]
  /\ UNCHANGED <<tables, locks, call, payload, backup, kills, restored>>

\* BEGIN IMMEDIATE, and the SELECT of the last entry_hash.
Begin(t) ==
  /\ pc[t] = "begin" /\ writer = NoThread
  /\ writer' = t
  /\ tail' = [tail EXCEPT ![t] = LastHash]
  /\ pc' = [pc EXCEPT ![t] = "commit"]
  /\ UNCHANGED <<tables, auditLock, call, payload, backup, kills, restored>>

\* Mutant: the lock is not released when the transaction cannot begin.
BusyKeepsLock(t) ==
  /\ pc[t] = "begin" /\ writer # NoThread
  /\ Return(t)
  /\ UNCHANGED <<tables, locks, payload, backup, kills, restored>>

\* busy_timeout runs out: "database is locked", and the call raises.  For the
\* last entry of a lease this is after the buffer was wiped.
Busy(t) ==
  /\ pc[t] = "begin" /\ writer # NoThread
  /\ auditLock' = [auditLock EXCEPT ![ProcessOf[t]] = NoThread]
  /\ Return(t)
  /\ UNCHANGED <<tables, writer, payload, backup, kills, restored>>

\* INSERT INTO audit_logs, chained to the hash the transaction read.
Record(t, e) == log' = Append(log, [entry |-> e, hash |-> Hash(tail[t], e)])

\* The end of a transaction: COMMIT, close, release of _audit_lock.
Release(t) ==
  /\ writer' = NoThread
  /\ auditLock' = [auditLock EXCEPT ![ProcessOf[t]] = NoThread]

Retired(n, status) ==
  {IF r \in Active(n) THEN [r EXCEPT !.status = status] ELSE r : r \in rows}

\* Mutant: the first version is 0.
SuccessorFromZero(versions) ==
  IF versions = {} THEN 0
  ELSE (CHOOSE v \in versions : \A w \in versions : w <= v) + 1

Successor(versions) ==
  IF versions = {} THEN 1
  ELSE (CHOOSE v \in versions : \A w \in versions : w <= v) + 1

\* Mutant: MAX(version) is taken of the ACTIVE rows only.
NextVersionOfActive(n) == Successor({r.version : r \in Active(n)})

\* SELECT MAX(version) + 1, or 1.
NextVersion(n) == Successor(Versions(n))

\* Mutant: the ACTIVE row is not superseded.
CommitSetBeside(t) ==
  /\ pc[t] = "commit" /\ call[t].op = "set"
  /\ LET n == call[t].name IN
       /\ rows' = rows \union {Row(n, NextVersion(n), "ACTIVE")}
       /\ Record(t, Entry("SET_SECRET", n, NextVersion(n)))
  /\ Release(t) /\ Return(t)
  /\ UNCHANGED <<payload, backup, kills, restored>>

\* StorageBackend.set_secret.
CommitSet(t) ==
  /\ pc[t] = "commit" /\ call[t].op = "set"
  /\ LET n == call[t].name IN
       /\ rows' = Retired(n, "SUPERSEDED") \union {Row(n, NextVersion(n), "ACTIVE")}
       /\ Record(t, Entry("SET_SECRET", n, NextVersion(n)))
  /\ Release(t) /\ Return(t)
  /\ UNCHANGED <<payload, backup, kills, restored>>

\* Mutant: the row is committed without its entry.
CommitRevokeUnlogged(t) ==
  /\ pc[t] = "commit" /\ call[t].op = "revoke"
  /\ rows' = Retired(call[t].name, "REVOKED")
  /\ Release(t) /\ Return(t)
  /\ UNCHANGED <<log, payload, backup, kills, restored>>

\* StorageBackend.revoke_secret.
CommitRevoke(t) ==
  /\ pc[t] = "commit" /\ call[t].op = "revoke"
  /\ rows' = Retired(call[t].name, "REVOKED")
  /\ Record(t, Entry("REVOKE_SECRET", call[t].name, 0))
  /\ Release(t) /\ Return(t)
  /\ UNCHANGED <<payload, backup, kills, restored>>

\* Mutant: the buffer is yielded before LEASE_GRANTED is logged.
CommitGetLeases(t) ==
  /\ pc[t] = "commit" /\ call[t].op = "get" /\ Active(call[t].name) # {}
  /\ Record(t, Entry("GET_SECRET", call[t].name, 0))
  /\ pc' = [pc EXCEPT ![t] = "leased"]
  /\ Release(t)
  /\ UNCHANGED <<rows, call, tail, payload, backup, kills, restored>>

\* StorageBackend.get_secret of the ACTIVE row: an entry either way, and
\* lease_secret goes on to decrypt and to log the lease, or raises.
CommitGet(t) ==
  /\ pc[t] = "commit" /\ call[t].op = "get"
  /\ LET n == call[t].name IN
       IF Active(n) # {}
         THEN /\ Record(t, Entry("GET_SECRET", n, 0))
              /\ Transact(t, "granted", n) /\ UNCHANGED tail
         ELSE /\ Record(t, Entry("GET_SECRET_FAILED", n, 0))
              /\ Return(t)
  /\ Release(t)
  /\ UNCHANGED <<rows, payload, backup, kills, restored>>

\* log_audit("LEASE_GRANTED"), after which the caller has the buffer.
CommitGranted(t) ==
  /\ pc[t] = "commit" /\ call[t].op = "granted"
  /\ Record(t, Entry("LEASE_GRANTED", call[t].name, 0))
  /\ pc' = [pc EXCEPT ![t] = "leased"]
  /\ Release(t)
  /\ UNCHANGED <<rows, call, tail, payload, backup, kills, restored>>

\* The caller leaves the with block: the buffer is wiped, the return logged.
EndLease(t) ==
  /\ pc[t] = "leased"
  /\ Transact(t, "returned", call[t].name)
  /\ UNCHANGED <<tables, locks, tail, payload, backup, kills, restored>>

\* log_audit as the last transaction of a call: what it records.
Note(t) ==
  CASE call[t].op = "returned" -> Entry("LEASE_RETURNED", call[t].name, 0)
    [] call[t].op = "list"     -> Entry("LIST_SECRETS", NoThread, 0)
    [] call[t].op = "imported" -> Entry("IMPORT", NoThread, 0)

CommitNote(t) ==
  /\ pc[t] = "commit" /\ call[t].op \in {"returned", "list", "imported"}
  /\ Record(t, Note(t))
  /\ Release(t) /\ Return(t)
  /\ UNCHANGED <<rows, payload, backup, kills, restored>>

\* A process dies; SQLite rolls its transaction back.
Kill(p) ==
  /\ kills < MaxKills /\ kills' = kills + 1
  /\ LET dead == {t \in Threads : ProcessOf[t] = p} IN
       /\ pc' = [t \in Threads |-> IF t \in dead THEN "idle" ELSE pc[t]]
       /\ call' = [t \in Threads |-> IF t \in dead THEN NoCall ELSE call[t]]
       /\ tail' = [t \in Threads |-> IF t \in dead THEN <<>> ELSE tail[t]]
       /\ writer' = IF writer \in dead THEN NoThread ELSE writer
  /\ auditLock' = [auditLock EXCEPT ![p] = NoThread]
  /\ UNCHANGED <<tables, payload, backup, restored>>

-----------------------------------------------------------------------------
(***************************************************************************)
(* Backup and restore.                                                     *)
(***************************************************************************)

\* export_data reads the secrets table ...  (bound: one export at a time)
ExportSecrets(t) ==
  /\ restored < MaxRestores /\ pc[t] = "idle" /\ Room
  /\ \A u \in Threads : pc[u] # "export"
  /\ payload' = rows
  /\ pc' = [pc EXCEPT ![t] = "export"]
  /\ UNCHANGED <<tables, locks, call, tail, backup, kills, restored>>

\* ... and then, outside any transaction, the audit log.
ExportLog(t) ==
  /\ pc[t] = "export"
  /\ backup' = [taken |-> TRUE, rows |-> payload, log |-> log]
  /\ payload' = {}
  /\ pc' = [pc EXCEPT ![t] = "idle"]
  /\ UNCHANGED <<tables, locks, call, tail, kills, restored>>

\* import_data, one transaction that takes the write lock but not _audit_lock;
\* import_vault then logs it.
ImportData(t) ==
  /\ restored < MaxRestores /\ pc[t] = "idle" /\ Room
  /\ writer = NoThread /\ backup.taken
  /\ rows' = backup.rows /\ log' = backup.log
  /\ restored' = restored + 1
  /\ Transact(t, "imported", NoThread)
  /\ UNCHANGED <<locks, tail, payload, backup, kills>>

-----------------------------------------------------------------------------
Commit(t) ==
  CommitSet(t) \/ CommitRevoke(t) \/ CommitGet(t) \/ CommitGranted(t) \/ CommitNote(t)

Step(t) ==
  \/ Call(t) \/ Lock(t) \/ Begin(t) \/ Busy(t) \/ Commit(t) \/ EndLease(t)
  \/ ExportSecrets(t) \/ ExportLog(t) \/ ImportData(t)

Next == (\E t \in Threads : Step(t)) \/ (\E p \in Processes : Kill(p))

Spec == Init /\ [][Next]_vars

\* A thread inside a transaction is scheduled; no caller is obliged to call.
Fair(t) == WF_vars(Begin(t) \/ Busy(t)) /\ WF_vars(Commit(t))

Fairness == \A t \in Threads : Fair(t)

FairSpec == Spec /\ Fairness
-----------------------------------------------------------------------------
(***************************************************************************)
(* Properties.                                                             *)
(***************************************************************************)

\* verify_audit_chain over the rows of a log.
Verifies(entries) ==
  \A i \in 1..Len(entries) :
    entries[i].hash = Hash(IF i = 1 THEN <<>> ELSE entries[i - 1].hash, entries[i].entry)

\* Writers of any number of threads and processes never fork the chain, nor
\* does a crash or a restore break it: verify_audit_chain always succeeds.
ChainIntact == Verifies(log)

\* In a table, no two rows are the same version of a name, and an ACTIVE row
\* is its name's latest version (hence its only ACTIVE one).
LatestIn(table) ==
  \A r, s \in table : r.name = s.name =>
    /\ r.version = s.version => r = s
    /\ r.status = "ACTIVE" => s.version <= r.version

\* Whoever sets, revokes and restores, lease_secret of a name without version=
\* has one row to read at most, and it is the latest.
LatestActive == LatestIn(rows)

Logged(n, actions) ==
  {i \in 1..Len(log) : log[i].entry.name = n /\ log[i].entry.action \in actions}

\* A write is logged if and only if it happened: a name's versions are those
\* the log records, and one is ACTIVE just when the last change was a set.
Explained ==
  \A n \in Names :
    /\ Versions(n) = {log[i].entry.version : i \in Logged(n, {"SET_SECRET"})}
    /\ Active(n) # {} <=>
         \E i \in Logged(n, {"SET_SECRET"}) : \A j \in Logged(n, {"REVOKE_SECRET"}) : j < i

\* Until something is imported, the log explains the rows, at every instant.
LogExplainsRows == restored = 0 => Explained

\* No plaintext leaves unlogged: each thread that holds a name's buffer has a
\* LEASE_GRANTED of its own in the log, not yet returned.
LeasesLogged ==
  restored = 0 => \A n \in Names :
    Cardinality(Logged(n, {"LEASE_GRANTED"})) >=
      Cardinality(Logged(n, {"LEASE_RETURNED"})) +
      Cardinality({t \in Threads : pc[t] = "leased" /\ call[t].name = n})

\* Neither lock is held for ever, whichever call fails inside it.
LocksReleased ==
  \A t \in Threads :
    /\ writer = t ~> writer # t
    /\ auditLock[ProcessOf[t]] = t ~> auditLock[ProcessOf[t]] # t

\* The rows and the log are an AuditedStore, except when import_data replaces
\* them: a write and its entry are one step for every reader of the database.
History(n) ==
  [v \in 1..Cardinality(Versions(n)) |-> (CHOOSE r \in rows : r.name = n /\ r.version = v).status]

Audited == INSTANCE AuditedStore WITH
  Nobody  <- NoThread,
  history <- [n \in Names |-> History(n)],
  log     <- [i \in 1..Len(log) |-> log[i].entry]

WritesAreAtomic ==
  Audited!Init /\ [][Audited!Next \/ \E t \in Threads : ImportData(t)]_tables

(***************************************************************************)
(* What a comment claims and the code does not do.                         *)
(***************************************************************************)

\* No write is logged that did not happen, or the other way round (set_secret),
\* also in a vault restored from its own backup.
RestoreExplained == Explained

=============================================================================
