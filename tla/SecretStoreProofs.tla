-------------------------- MODULE SecretStoreProofs --------------------------
(***************************************************************************)
(* Proofs about SecretStore, for any number of names, threads, processes,   *)
(* calls, crashes and restores: the audit chain is never forked, and a name *)
(* never has two ACTIVE versions.                                           *)
(***************************************************************************)
EXTENDS SecretStore, FiniteSetTheorems, SequenceTheorems, TLAPS

\* A transaction past BEGIN IMMEDIATE holds the write lock, and the hash it
\* read is still that of the last entry.
HoldsTail ==
  \A t \in Threads : pc[t] = "commit" => writer = t /\ tail[t] = LastHash

\* The versions of a name in a table are 1, 2, ... without a gap.
Dense(table) ==
  \A n \in Names : \E k \in Nat : {r.version : r \in {s \in table : s.name = n}} = 1..k

\* The tables in use, and those an export has read or returned.
Current ==
  /\ rows \subseteq Rows /\ log \in Seq(Links)
  /\ Verifies(log) /\ LatestIn(rows) /\ Dense(rows)

Saved ==
  /\ payload \subseteq Rows /\ backup.taken \in BOOLEAN
  /\ backup.rows \subseteq Rows /\ backup.log \in Seq(Links)
  /\ Verifies(backup.log)
  /\ LatestIn(payload) /\ LatestIn(backup.rows) /\ Dense(payload) /\ Dense(backup.rows)

Locks ==
  /\ auditLock \in [Processes -> Threads \union {NoThread}]
  /\ writer \in Threads \union {NoThread}
  /\ kills \in Nat /\ restored \in Nat

CallTypes == [op : Ops \union {"none"}, name : Names \union {NoThread}]

Locals ==
  /\ pc \in [Threads -> PCs] /\ call \in [Threads -> CallTypes]
  /\ tail \in [Threads -> Seq(Entries)]
  /\ \A t \in Threads : call[t].op \in {"set", "revoke"} => call[t].name \in Names

IInv == Current /\ Saved /\ Locks /\ Locals /\ HoldsTail

-----------------------------------------------------------------------------
USE DEF vars, tables, locks, threads

(***************************************************************************)
(* Versions of a name.                                                     *)
(***************************************************************************)

\* After versions 1 to k comes k + 1.
LEMMA SuccessorOfInterval ==
  ASSUME NEW k \in Nat
  PROVE  Successor(1..k) = k + 1
<1>1. CASE k = 0
  BY <1>1 DEF Successor
<1>2. CASE k > 0
  <2> DEFINE Largest(v) == v \in 1..k /\ \A w \in 1..k : w <= v
  <2>1. Largest(k)
    BY <1>2
  <2>2. Largest(CHOOSE v \in 1..k : \A w \in 1..k : w <= v)
    BY <2>1
  <2>3. (CHOOSE v \in 1..k : \A w \in 1..k : w <= v) = k
    BY <1>2, <2>2
  <2> QED BY <1>2, <2>3 DEF Successor
<1> QED BY <1>1, <1>2

\* Retiring the ACTIVE row of a name changes statuses only, and leaves none.
LEMMA RetiredRows ==
  ASSUME rows \subseteq Rows, NEW n, NEW status \in {"SUPERSEDED", "REVOKED"}
  PROVE  /\ \A a \in Retired(n, status) :
              a \in Rows /\ \E r \in rows :
                /\ a = IF r \in Active(n) THEN [r EXCEPT !.status = status] ELSE r
                /\ a.name = r.name /\ a.version = r.version
                /\ a.status = "ACTIVE" => a = r /\ a.name # n
         /\ \A r \in rows : \E a \in Retired(n, status) :
              a.name = r.name /\ a.version = r.version
<1>1. ASSUME NEW r \in rows
      PROVE  LET a == IF r \in Active(n) THEN [r EXCEPT !.status = status] ELSE r IN
               /\ a \in Rows /\ a.name = r.name /\ a.version = r.version
               /\ a.status = "ACTIVE" => a = r /\ a.name # n
  BY DEF Rows, Active
<1> QED BY <1>1 DEF Retired

LEMMA RetiredLatest ==
  ASSUME rows \subseteq Rows, LatestIn(rows), NEW n, NEW status \in {"SUPERSEDED", "REVOKED"}
  PROVE  LatestIn(Retired(n, status))
<1> SUFFICES ASSUME NEW a \in Retired(n, status), NEW b \in Retired(n, status), a.name = b.name
             PROVE  /\ a.version = b.version => a = b
                    /\ a.status = "ACTIVE" => b.version <= a.version
  BY DEF LatestIn
<1>1. PICK r \in rows :
        /\ a = IF r \in Active(n) THEN [r EXCEPT !.status = status] ELSE r
        /\ a.name = r.name /\ a.version = r.version
        /\ a.status = "ACTIVE" => a = r /\ a.name # n
  BY RetiredRows
<1>2. PICK s \in rows :
        /\ b = IF s \in Active(n) THEN [s EXCEPT !.status = status] ELSE s
        /\ b.name = s.name /\ b.version = s.version
        /\ b.status = "ACTIVE" => b = s /\ b.name # n
  BY RetiredRows
<1> QED BY <1>1, <1>2 DEF LatestIn

LEMMA RetiredVersions ==
  ASSUME rows \subseteq Rows, NEW n, NEW status \in {"SUPERSEDED", "REVOKED"}, NEW m
  PROVE  {r.version : r \in {s \in Retired(n, status) : s.name = m}} = Versions(m)
BY RetiredRows DEF Versions

\* set_secret's table: the retired rows and a row one version later.
LEMMA SetRows ==
  ASSUME rows \subseteq Rows, LatestIn(rows), Dense(rows), NEW n \in Names
  PROVE  LET table == Retired(n, "SUPERSEDED") \union {Row(n, NextVersion(n), "ACTIVE")} IN
           /\ table \subseteq Rows /\ LatestIn(table) /\ Dense(table)
           /\ NextVersion(n) \in Nat \ {0}
<1> DEFINE old   == Retired(n, "SUPERSEDED")
           new   == Row(n, NextVersion(n), "ACTIVE")
           table == old \union {new}
<1>1. PICK k \in Nat : Versions(n) = 1..k
  BY DEF Dense, Versions
<1>2. NextVersion(n) = k + 1
  BY <1>1, SuccessorOfInterval DEF NextVersion
<1>3. new \in Rows /\ new.name = n /\ new.version = k + 1 /\ new.status = "ACTIVE"
  BY <1>2 DEF Row, Rows
<1>4. \A a \in old : a \in Rows /\ (a.name = n => a.version \in 1..k /\ a.status # "ACTIVE")
  <2> SUFFICES ASSUME NEW a \in old
               PROVE  a \in Rows /\ (a.name = n => a.version \in 1..k /\ a.status # "ACTIVE")
    OBVIOUS
  <2>1. PICK r \in rows : /\ a.name = r.name /\ a.version = r.version
                          /\ a.status = "ACTIVE" => a.name # n
    BY RetiredRows
  <2> QED BY <1>1, <2>1, RetiredRows DEF Versions
<1>5. LatestIn(table)
  <2>1. LatestIn(old)
    BY RetiredLatest
  <2> SUFFICES ASSUME NEW a \in table, NEW b \in table, a.name = b.name
               PROVE  /\ a.version = b.version => a = b
                      /\ a.status = "ACTIVE" => b.version <= a.version
    BY DEF LatestIn
  <2>2. CASE a \in old /\ b \in old
    BY <2>1, <2>2 DEF LatestIn
  <2>3. CASE a = new \/ b = new
    BY <1>3, <1>4, <2>3 DEF Rows
  <2> QED BY <2>2, <2>3
<1>6. Dense(table)
  <2> SUFFICES ASSUME NEW m \in Names
               PROVE  \E j \in Nat : {r.version : r \in {s \in table : s.name = m}} = 1..j
    BY DEF Dense
  <2>1. CASE m = n
    <3>1. {r.version : r \in {s \in table : s.name = m}} = Versions(n) \union {k + 1}
      BY <1>3, <2>1, RetiredVersions
    <3>2. 1..k \union {k + 1} = 1..(k + 1)
      OBVIOUS
    <3> QED BY <1>1, <3>1, <3>2
  <2>2. CASE m # n
    <3>1. {r.version : r \in {s \in table : s.name = m}} = Versions(m)
      BY <1>3, <2>2, RetiredVersions
    <3> QED BY <3>1 DEF Dense, Versions
  <2> QED BY <2>1, <2>2
<1> QED BY <1>2, <1>3, <1>4, <1>5, <1>6

-----------------------------------------------------------------------------
(***************************************************************************)
(* The chain.                                                              *)
(***************************************************************************)

LEMMA LastHashType ==
  ASSUME log \in Seq(Links)
  PROVE  LastHash \in Seq(Entries)
<1>1. CASE log = <<>>
  BY <1>1 DEF LastHash
<1>2. CASE log # <<>>
  <2>1. log[Len(log)] \in Links
    BY <1>2
  <2> QED BY <1>2, <2>1 DEF LastHash, Links
<1> QED BY <1>1, <1>2

\* An entry chained to the hash of the last one extends a log that verifies.
LEMMA ChainExtends ==
  ASSUME log \in Seq(Links), Verifies(log), NEW e \in Entries
  PROVE  /\ Append(log, [entry |-> e, hash |-> Hash(LastHash, e)]) \in Seq(Links)
         /\ Verifies(Append(log, [entry |-> e, hash |-> Hash(LastHash, e)]))
<1> DEFINE link == [entry |-> e, hash |-> Hash(LastHash, e)]
           new  == Append(log, link)
<1>1. LastHash \in Seq(Entries)
  BY LastHashType
<1>2. link \in Links
  BY <1>1 DEF Links, Hash
<1>3. /\ new \in Seq(Links) /\ Len(new) = Len(log) + 1 /\ new[Len(log) + 1] = link
      /\ \A i \in 1..Len(log) : new[i] = log[i]
  BY <1>2
<1>4. ASSUME NEW i \in 1..Len(new)
      PROVE  new[i].hash = Hash(IF i = 1 THEN <<>> ELSE new[i - 1].hash, new[i].entry)
  <2>1. CASE i \in 1..Len(log)
    <3>1. i = 1 \/ (i # 1 /\ i - 1 \in 1..Len(log))
      BY <2>1
    <3> QED BY <1>3, <2>1, <3>1 DEF Verifies
  <2>2. CASE i = Len(log) + 1
    <3>1. CASE log = <<>>
      BY <1>3, <2>2, <3>1 DEF LastHash
    <3>2. CASE log # <<>>
      <4>1. i # 1 /\ i - 1 = Len(log) /\ Len(log) \in 1..Len(log)
        BY <2>2, <3>2
      <4> QED BY <1>3, <2>2, <3>2, <4>1 DEF LastHash
    <3> QED BY <3>1, <3>2
  <2> QED BY <1>3, <2>1, <2>2
<1> QED BY <1>3, <1>4 DEF Verifies

-----------------------------------------------------------------------------
(***************************************************************************)
(* The invariant is inductive.                                             *)
(***************************************************************************)

LEMMA NothingSaved == {} \subseteq Rows /\ LatestIn({}) /\ Dense({})
<1>1. Dense({})
  <2> SUFFICES ASSUME NEW n \in Names
               PROVE  \E k \in Nat : {r.version : r \in {s \in {} : s.name = n}} = 1..k
    BY DEF Dense
  <2>1. {r.version : r \in {s \in {} : s.name = n}} = 1..0
    OBVIOUS
  <2> QED BY <2>1
<1> QED BY <1>1 DEF LatestIn

LEMMA InitIInv == Init => IInv
<1> SUFFICES ASSUME Init PROVE IInv
  OBVIOUS
<1>1. Saved /\ Current
  BY NothingSaved DEF Init, Saved, Current, Verifies
<1>2. Locks /\ Locals /\ HoldsTail
  BY SecretStoreAssumption DEF Init, Locks, Locals, HoldsTail, PCs, CallTypes, Ops, NoCall
<1> QED BY <1>1, <1>2 DEF IInv

\* While a thread is past BEGIN IMMEDIATE no other is, and none is while the
\* write lock is free.
LEMMA OneWriter ==
  ASSUME IInv, NEW t \in Threads
  PROVE  /\ pc[t] = "commit" => \A u \in Threads : u # t => pc[u] # "commit"
         /\ writer = NoThread => pc[t] # "commit"
BY SecretStoreAssumption DEF IInv, HoldsTail

LEMMA SavedKept ==
  ASSUME IInv, UNCHANGED <<payload, backup>>
  PROVE  Saved'
BY DEF IInv, Saved, Verifies, LatestIn, Dense

LEMMA CurrentKept ==
  ASSUME IInv, UNCHANGED <<rows, log>>
  PROVE  Current'
BY DEF IInv, Current, Verifies, LatestIn, Dense

\* A step that enters no transaction and changes no table.
LEMMA TablesKept ==
  ASSUME IInv, Locks', Locals', UNCHANGED <<rows, log, payload, backup>>,
         \A u \in Threads : pc'[u] = "commit" => /\ pc[u] = "commit" /\ writer' = writer
                                                 /\ tail'[u] = tail[u]
  PROVE  IInv'
<1>1. HoldsTail'
  BY DEF IInv, HoldsTail, LastHash
<1> QED BY <1>1, SavedKept, CurrentKept DEF IInv

\* A transaction that records entry e.
LEMMA Recorded ==
  ASSUME IInv, NEW t \in Threads, pc[t] = "commit", NEW e \in Entries, Record(t, e),
         rows' \subseteq Rows, LatestIn(rows'), Dense(rows'),
         UNCHANGED <<payload, backup>>, Locks', Locals', pc'[t] # "commit",
         \A u \in Threads : u # t => pc'[u] = pc[u]
  PROVE  IInv'
<1>1. log' \in Seq(Links) /\ Verifies(log')
  BY ChainExtends DEF IInv, Current, HoldsTail, Record
<1>2. Current'
  BY <1>1 DEF Current, Verifies, LatestIn, Dense
<1>3. HoldsTail'
  BY OneWriter DEF HoldsTail
<1> QED BY <1>2, <1>3, SavedKept DEF IInv

LEMMA ReleaseTypes ==
  ASSUME IInv, NEW t \in Threads, Release(t), UNCHANGED <<kills, restored>>
  PROVE  Locks'
BY DEF IInv, Locks, Release

\* Thread t moves to a step, in the call c.
LEMMA Moves ==
  ASSUME IInv, NEW t \in Threads, NEW label \in PCs, NEW c \in CallTypes,
         c.op \in {"set", "revoke"} => c.name \in Names,
         pc' = [pc EXCEPT ![t] = label], call' = [call EXCEPT ![t] = c],
         tail' \in [Threads -> Seq(Entries)]
  PROVE  Locals' /\ pc'[t] = label /\ \A u \in Threads : u # t => pc'[u] = pc[u]
BY DEF IInv, Locals

LEMMA Returns ==
  ASSUME IInv, NEW t \in Threads, Return(t)
  PROVE  Locals' /\ pc'[t] = "idle" /\ \A u \in Threads : u # t => pc'[u] = pc[u]
<1>1. NoCall \in CallTypes /\ NoCall.op \notin {"set", "revoke"} /\ "idle" \in PCs
  BY DEF NoCall, CallTypes, PCs
<1>2. tail' \in [Threads -> Seq(Entries)]
  BY DEF Return, IInv, Locals
<1> QED BY <1>1, <1>2, Moves DEF Return

\* The thread stays in its call.
LEMMA Stays ==
  ASSUME IInv, NEW t \in Threads, NEW label \in PCs, pc' = [pc EXCEPT ![t] = label],
         UNCHANGED call, tail' \in [Threads -> Seq(Entries)]
  PROVE  Locals' /\ pc'[t] = label /\ \A u \in Threads : u # t => pc'[u] = pc[u]
BY DEF IInv, Locals

LEMMA Transacts ==
  ASSUME IInv, NEW t \in Threads, NEW op \in Ops \ {"set", "revoke"}, NEW n \in Names \union {NoThread},
         Transact(t, op, n), UNCHANGED tail
  PROVE  Locals' /\ pc'[t] = "lock" /\ \A u \in Threads : u # t => pc'[u] = pc[u]
<1>1. [op |-> op, name |-> n] \in CallTypes /\ "lock" \in PCs
  BY DEF CallTypes, PCs
<1> QED BY <1>1, Moves DEF Transact, IInv, Locals

LEMMA TakesLock ==
  ASSUME IInv, NEW t \in Threads, TakeLock(t), UNCHANGED <<writer, kills, restored>>
  PROVE  Locks' /\ pc' = [pc EXCEPT ![t] = "begin"] /\ "begin" \in PCs
BY DEF IInv, Locks, TakeLock, PCs

\* Every entry a call records is one of the log's.
LEMMA EntryTypes ==
  ASSUME IInv, NEW t \in Threads, NEW action \in Actions, NEW v \in Nat
  PROVE  /\ call[t].name \in Names \union {NoThread}
         /\ Entry(action, call[t].name, v) \in Entries /\ Entry(action, NoThread, v) \in Entries
BY DEF IInv, Locals, CallTypes, Entry, Entries

LEMMA IInvStep ==
  ASSUME IInv, [Next]_vars
  PROVE  IInv'
<1> USE SecretStoreAssumption
<1>1. ASSUME NEW t \in Threads, Step(t) PROVE IInv'
  <2>1. CASE Call(t)
    <3>1. PICK op \in Calls, n \in Names : call' = [call EXCEPT ![t] = [op |-> op, name |-> n]]
      BY <2>1 DEF Call
    <3>2. [op |-> op, name |-> n] \in CallTypes
      BY DEF CallTypes, Ops
    <3>3. Locks' /\ Locals' /\ pc'[t] = "begin" /\ \A u \in Threads : u # t => pc'[u] = pc[u]
      BY <2>1, <3>1, <3>2, TakesLock, Moves DEF Call, IInv, Locals
    <3> QED BY <2>1, <3>3, TablesKept DEF Call
  <2>2. CASE Lock(t)
    <3>1. Locks' /\ Locals' /\ pc'[t] = "begin" /\ \A u \in Threads : u # t => pc'[u] = pc[u]
      BY <2>2, TakesLock, Stays DEF Lock, IInv, Locals
    <3> QED BY <2>2, <3>1, TablesKept DEF Lock
  <2>3. CASE Begin(t)
    <3>1. LastHash \in Seq(Entries)
      BY LastHashType DEF IInv, Current
    <3>2. tail' \in [Threads -> Seq(Entries)] /\ tail'[t] = LastHash
      BY <2>3, <3>1 DEF Begin, IInv, Locals
    <3>3. Locals' /\ pc'[t] = "commit" /\ \A u \in Threads : u # t => pc'[u] = pc[u]
      BY <2>3, <3>2, Stays DEF Begin, PCs
    <3>4. Locks'
      BY <2>3 DEF Begin, IInv, Locks
    <3>5. HoldsTail'
      BY <2>3, <3>2, <3>3, OneWriter DEF Begin, HoldsTail, LastHash
    <3> QED BY <2>3, <3>3, <3>4, <3>5, SavedKept, CurrentKept DEF Begin, IInv
  <2>4. CASE Busy(t)
    <3>1. Locks'
      BY <2>4 DEF Busy, IInv, Locks
    <3> QED BY <2>4, <3>1, Returns, TablesKept DEF Busy, Return, IInv, Locals
  <2>5. CASE CommitSet(t)
    <3> DEFINE n == call[t].name
    <3>1. n \in Names
      BY <2>5 DEF CommitSet, IInv, Locals
    <3>2. /\ rows' \subseteq Rows /\ LatestIn(rows') /\ Dense(rows')
          /\ NextVersion(n) \in Nat
      BY <2>5, <3>1, SetRows DEF CommitSet, IInv, Current
    <3>3. Entry("SET_SECRET", n, NextVersion(n)) \in Entries
      BY <3>2, EntryTypes DEF Actions
    <3> QED BY <2>5, <3>2, <3>3, ReleaseTypes, Returns, Recorded DEF CommitSet
  <2>6. CASE CommitRevoke(t)
    <3>1. Entry("REVOKE_SECRET", call[t].name, 0) \in Entries
      BY EntryTypes DEF Actions
    <3>2. rows' \subseteq Rows /\ LatestIn(rows')
      BY <2>6, RetiredRows, RetiredLatest DEF CommitRevoke, IInv, Current
    <3>3. Dense(rows')
      <4>1. ASSUME NEW m \in Names
            PROVE  {r.version : r \in {s \in rows' : s.name = m}} = Versions(m)
        <5>1. rows \subseteq Rows /\ rows' = Retired(call[t].name, "REVOKED")
          BY <2>6 DEF CommitRevoke, IInv, Current
        <5> QED BY <5>1, RetiredVersions
      <4>2. ASSUME NEW m \in Names
            PROVE  \E k \in Nat : Versions(m) = 1..k
        BY DEF IInv, Current, Dense, Versions
      <4> QED BY <4>1, <4>2 DEF Dense
    <3> QED BY <2>6, <3>1, <3>2, <3>3, ReleaseTypes, Returns, Recorded DEF CommitRevoke
  <2>7. CASE CommitGet(t)
    <3>1. rows' \subseteq Rows /\ LatestIn(rows') /\ Dense(rows')
      BY <2>7, CurrentKept DEF CommitGet, IInv, Current, LatestIn, Dense
    <3>2. CASE Active(call[t].name) # {}
      <4>1. Entry("GET_SECRET", call[t].name, 0) \in Entries
        BY EntryTypes DEF Actions
      <4>2. Locals' /\ pc'[t] = "lock" /\ \A u \in Threads : u # t => pc'[u] = pc[u]
        BY <2>7, <3>2, EntryTypes, Transacts DEF CommitGet, Ops, Actions
      <4> QED BY <2>7, <3>1, <3>2, <4>1, <4>2, ReleaseTypes, Recorded DEF CommitGet
    <3>3. CASE Active(call[t].name) = {}
      <4>1. Entry("GET_SECRET_FAILED", call[t].name, 0) \in Entries
        BY EntryTypes DEF Actions
      <4> QED BY <2>7, <3>1, <3>3, <4>1, ReleaseTypes, Returns, Recorded DEF CommitGet
    <3> QED BY <3>2, <3>3
  <2>8. CASE CommitGranted(t)
    <3>1. Entry("LEASE_GRANTED", call[t].name, 0) \in Entries
      BY EntryTypes DEF Actions
    <3>2. rows' \subseteq Rows /\ LatestIn(rows') /\ Dense(rows')
      BY <2>8 DEF CommitGranted, IInv, Current, LatestIn, Dense
    <3>3. Locals' /\ pc'[t] = "leased" /\ \A u \in Threads : u # t => pc'[u] = pc[u]
      BY <2>8, Stays DEF CommitGranted, PCs, IInv, Locals
    <3> QED BY <2>8, <3>1, <3>2, <3>3, ReleaseTypes, Recorded DEF CommitGranted
  <2>9. CASE CommitNote(t)
    <3>1. Note(t) \in Entries
      BY <2>9, EntryTypes DEF CommitNote, Note, Actions
    <3>2. rows' \subseteq Rows /\ LatestIn(rows') /\ Dense(rows')
      BY <2>9 DEF CommitNote, IInv, Current, LatestIn, Dense
    <3> QED BY <2>9, <3>1, <3>2, ReleaseTypes, Returns, Recorded DEF CommitNote
  <2>10. CASE EndLease(t)
    <3>1. Locals' /\ pc'[t] = "lock" /\ \A u \in Threads : u # t => pc'[u] = pc[u]
      BY <2>10, EntryTypes, Transacts DEF EndLease, Ops, Actions
    <3>2. Locks'
      BY <2>10 DEF EndLease, IInv, Locks
    <3> QED BY <2>10, <3>1, <3>2, TablesKept DEF EndLease
  <2>11. CASE ExportSecrets(t)
    <3>1. Locals' /\ pc'[t] = "export" /\ \A u \in Threads : u # t => pc'[u] = pc[u]
      BY <2>11, Stays DEF ExportSecrets, PCs, IInv, Locals
    <3>2. Saved'
      BY <2>11 DEF ExportSecrets, IInv, Current, Saved, Verifies, LatestIn, Dense
    <3>3. Locks' /\ HoldsTail'
      BY <2>11, <3>1 DEF ExportSecrets, IInv, Locks, HoldsTail, LastHash
    <3> QED BY <2>11, <3>1, <3>2, <3>3, CurrentKept DEF ExportSecrets, IInv
  <2>12. CASE ExportLog(t)
    <3>1. Locals' /\ pc'[t] = "idle" /\ \A u \in Threads : u # t => pc'[u] = pc[u]
      BY <2>12, Stays DEF ExportLog, PCs, IInv, Locals
    <3>2. backup'.taken = TRUE /\ backup'.rows = payload /\ backup'.log = log /\ payload' = {}
      BY <2>12 DEF ExportLog
    <3>3. Saved'
      BY <3>2, NothingSaved DEF IInv, Current, Saved, Verifies, LatestIn, Dense
    <3>4. Locks' /\ HoldsTail'
      BY <2>12, <3>1 DEF ExportLog, IInv, Locks, HoldsTail, LastHash
    <3> QED BY <2>12, <3>1, <3>3, <3>4, CurrentKept DEF ExportLog, IInv
  <2>13. CASE ImportData(t)
    <3>1. Locals' /\ pc'[t] = "lock" /\ \A u \in Threads : u # t => pc'[u] = pc[u]
      BY <2>13, Transacts DEF ImportData, Ops
    <3>2. Current'
      BY <2>13 DEF ImportData, IInv, Current, Saved, Verifies, LatestIn, Dense
    <3>3. Locks' /\ HoldsTail'
      BY <2>13, <3>1, OneWriter DEF ImportData, IInv, Locks, HoldsTail
    <3> QED BY <2>13, <3>1, <3>2, <3>3, SavedKept DEF ImportData, IInv
  <2> QED BY <1>1, <2>1, <2>2, <2>3, <2>4, <2>5, <2>6, <2>7, <2>8, <2>9, <2>10, <2>11,
             <2>12, <2>13 DEF Step, Commit
<1>2. ASSUME NEW p \in Processes, Kill(p) PROVE IInv'
  <2>1. Locks'
    BY <1>2 DEF Kill, IInv, Locks
  <2>2. Locals'
    BY <1>2 DEF Kill, IInv, Locals, PCs, CallTypes, NoCall
  <2>3. \A u \in Threads : pc'[u] = "commit" => /\ pc[u] = "commit" /\ writer' = writer
                                                 /\ tail'[u] = tail[u]
    BY <1>2 DEF Kill, IInv, Locals, HoldsTail
  <2> QED BY <1>2, <2>1, <2>2, <2>3, TablesKept DEF Kill
<1>3. CASE UNCHANGED vars
  <2>1. Locks' /\ Locals'
    BY <1>3 DEF IInv, Locks, Locals
  <2> QED BY <1>3, <2>1, TablesKept
<1> QED BY <1>1, <1>2, <1>3 DEF Next

-----------------------------------------------------------------------------
(***************************************************************************)
(* What the log says.                                                      *)
(***************************************************************************)

\* An entry recorded by a transaction comes after those of the log, and
\* changes none of them.
LEMMA LoggedAfter ==
  ASSUME IInv, NEW t \in Threads, pc[t] = "commit", NEW e \in Entries, Record(t, e)
  PROVE  /\ Len(log) \in Nat /\ Len(log') = Len(log) + 1
         /\ log'[Len(log) + 1].entry = e
         /\ \A i \in 1..Len(log) : log'[i] = log[i]
         /\ \A n, actions :
              /\ Logged(n, actions) \subseteq 1..Len(log)
              /\ Logged(n, actions)' =
                   IF e.name = n /\ e.action \in actions
                   THEN Logged(n, actions) \union {Len(log) + 1} ELSE Logged(n, actions)
<1> DEFINE link == [entry |-> e, hash |-> Hash(tail[t], e)]
<1>1. tail[t] \in Seq(Entries) /\ log \in Seq(Links)
  BY DEF IInv, Locals, Current
<1>2. link \in Links
  BY <1>1 DEF Links, Hash
<1>3. link.entry = e
  OBVIOUS
<1> HIDE DEF link
<1>4. log' = Append(log, link)
  BY DEF Record, link
<1>5. /\ Len(log) \in Nat /\ Len(log') = Len(log) + 1 /\ log'[Len(log) + 1].entry = e
      /\ \A i \in 1..Len(log) : log'[i] = log[i]
  BY <1>1, <1>2, <1>3, <1>4
<1>6. ASSUME NEW n, NEW actions
      PROVE  /\ Logged(n, actions) \subseteq 1..Len(log)
             /\ Logged(n, actions)' =
                   IF e.name = n /\ e.action \in actions
                   THEN Logged(n, actions) \union {Len(log) + 1} ELSE Logged(n, actions)
  <2>1. Logged(n, actions)' =
          {i \in 1..Len(log') : log'[i].entry.name = n /\ log'[i].entry.action \in actions}
    BY DEF Logged
  <2>2. 1..Len(log') = 1..Len(log) \union {Len(log) + 1}
    BY <1>5
  <2> QED BY <1>5, <2>1, <2>2 DEF Logged
<1> QED BY <1>5, <1>6

\* The commits that change no row: each records an entry about something else.
LEMMA OtherCommits ==
  ASSUME IInv, NEW t \in Threads, CommitGet(t) \/ CommitGranted(t) \/ CommitNote(t)
  PROVE  \E action \in Audited!Notes, n \in Names \union {NoThread} :
           Entry(action, n, 0) \in Entries /\ Record(t, Entry(action, n, 0))
<1>1. \A action \in Audited!Notes : action \in Actions
  BY DEF Audited!Notes, Actions
<1>2. CASE CommitGet(t)
  <2>1. PICK action \in {"GET_SECRET", "GET_SECRET_FAILED"} : Record(t, Entry(action, call[t].name, 0))
    BY <1>2 DEF CommitGet
  <2>2. action \in Audited!Notes
    BY <2>1 DEF Audited!Notes
  <2> QED BY <1>1, <2>1, <2>2, EntryTypes
<1>3. CASE CommitGranted(t)
  <2>1. Record(t, Entry("LEASE_GRANTED", call[t].name, 0))
    BY <1>3 DEF CommitGranted
  <2>2. "LEASE_GRANTED" \in Audited!Notes
    BY DEF Audited!Notes
  <2> QED BY <1>1, <2>1, <2>2, EntryTypes
<1>4. CASE CommitNote(t)
  <2>1. PICK action \in {"LEASE_RETURNED", "LIST_SECRETS", "IMPORT"}, n \in {call[t].name, NoThread} :
          Note(t) = Entry(action, n, 0)
    BY <1>4 DEF CommitNote, Note
  <2>2. action \in Audited!Notes
    BY <2>1 DEF Audited!Notes
  <2>3. Record(t, Entry(action, n, 0))
    BY <1>4, <2>1 DEF CommitNote
  <2> QED BY <1>1, <2>1, <2>2, <2>3, EntryTypes
<1> QED BY <1>2, <1>3, <1>4

\* Retiring leaves the ACTIVE rows of the other names.
LEMMA RetiredActive ==
  ASSUME rows \subseteq Rows, NEW n, NEW status \in {"SUPERSEDED", "REVOKED"}, NEW m
  PROVE  {r \in Retired(n, status) : r.name = m /\ r.status = "ACTIVE"} =
           IF m = n THEN {} ELSE Active(m)
<1>1. ASSUME NEW r \in rows, m # n, r.name = m
      PROVE  r \in Retired(n, status)
  BY <1>1 DEF Retired, Active
<1>2. ASSUME NEW a \in Retired(n, status), a.name = m, a.status = "ACTIVE"
      PROVE  m # n /\ a \in Active(m)
  BY <1>2, RetiredRows DEF Active
<1> QED BY <1>1, <1>2 DEF Active

\* The versions and the ACTIVE rows after set_secret and revoke_secret of n.
LEMMA SetVersions ==
  ASSUME rows \subseteq Rows, NEW n \in Names, NEW v,
         rows' = Retired(n, "SUPERSEDED") \union {Row(n, v, "ACTIVE")}
  PROVE  \A m \in Names :
           /\ Versions(m)' = IF m = n THEN Versions(n) \union {v} ELSE Versions(m)
           /\ Active(m)' # {} <=> (m = n \/ Active(m) # {})
<1> DEFINE new == Row(n, v, "ACTIVE")
<1>1. new.name = n /\ new.version = v /\ new.status = "ACTIVE"
  BY DEF Row
<1> HIDE DEF new
<1>2. rows' = Retired(n, "SUPERSEDED") \union {new}
  BY DEF new
<1> SUFFICES ASSUME NEW m \in Names
             PROVE  /\ Versions(m)' = IF m = n THEN Versions(n) \union {v} ELSE Versions(m)
                    /\ Active(m)' # {} <=> (m = n \/ Active(m) # {})
  OBVIOUS
<1>3. {r.version : r \in {s \in Retired(n, "SUPERSEDED") : s.name = m}} = Versions(m)
  BY RetiredVersions
<1>4. {r \in Retired(n, "SUPERSEDED") : r.name = m /\ r.status = "ACTIVE"} =
        IF m = n THEN {} ELSE Active(m)
  BY RetiredActive
<1>5. Versions(m)' = {r.version : r \in {s \in rows' : s.name = m}}
  BY DEF Versions
<1>6. Active(m)' = {r \in rows' : r.name = m /\ r.status = "ACTIVE"}
  BY DEF Active
<1>7. Versions(m)' = IF m = n THEN Versions(n) \union {v} ELSE Versions(m)
  BY <1>1, <1>2, <1>3, <1>5
<1>8. Active(m)' # {} <=> (m = n \/ Active(m) # {})
  BY <1>1, <1>2, <1>4, <1>6
<1> QED BY <1>7, <1>8

LEMMA RevokeVersions ==
  ASSUME rows \subseteq Rows, NEW n, rows' = Retired(n, "REVOKED")
  PROVE  \A m \in Names :
           /\ Versions(m)' = Versions(m)
           /\ Active(m)' = IF m = n THEN {} ELSE Active(m)
<1> SUFFICES ASSUME NEW m \in Names
             PROVE  /\ Versions(m)' = Versions(m)
                    /\ Active(m)' = IF m = n THEN {} ELSE Active(m)
  OBVIOUS
<1>1. Versions(m)' = {r.version : r \in {s \in rows' : s.name = m}}
  BY DEF Versions
<1>2. Active(m)' = {r \in rows' : r.name = m /\ r.status = "ACTIVE"}
  BY DEF Active
<1> QED BY <1>1, <1>2, RetiredVersions, RetiredActive

LEMMA RowsKept ==
  ASSUME UNCHANGED rows
  PROVE  \A m \in Names : Versions(m)' = Versions(m) /\ Active(m)' = Active(m)
BY DEF Versions, Active

-----------------------------------------------------------------------------
(***************************************************************************)
(* The log explains the rows.                                              *)
(***************************************************************************)

ExplainedFor(n) ==
  /\ Versions(n) = {log[i].entry.version : i \in Logged(n, {"SET_SECRET"})}
  /\ Active(n) # {} <=>
       \E i \in Logged(n, {"SET_SECRET"}) : \A j \in Logged(n, {"REVOKE_SECRET"}) : j < i

\* An entry that is not about a change of m, whose rows stay.
LEMMA OtherEntry ==
  ASSUME IInv, NEW t \in Threads, pc[t] = "commit", NEW e \in Entries, Record(t, e),
         NEW m \in Names, ExplainedFor(m),
         e.name # m \/ e.action \notin {"SET_SECRET", "REVOKE_SECRET"},
         Versions(m)' = Versions(m), Active(m)' # {} <=> Active(m) # {}
  PROVE  ExplainedFor(m)'
<1> DEFINE set == Logged(m, {"SET_SECRET"})
           revoke == Logged(m, {"REVOKE_SECRET"})
<1>1. Logged(m, {"SET_SECRET"})' = set /\ Logged(m, {"REVOKE_SECRET"})' = revoke
  BY LoggedAfter
<1>2. \A i \in set : log'[i] = log[i]
  BY LoggedAfter
<1> HIDE DEF set, revoke
<1> QED BY <1>1, <1>2 DEF ExplainedFor, set, revoke

LEMMA SetExplained ==
  ASSUME IInv, NEW t \in Threads, pc[t] = "commit", NEW n \in Names, NEW v \in Nat,
         Record(t, Entry("SET_SECRET", n, v)), ExplainedFor(n),
         Versions(n)' = Versions(n) \union {v}, Active(n)' # {}
  PROVE  ExplainedFor(n)'
<1> DEFINE set == Logged(n, {"SET_SECRET"})
           revoke == Logged(n, {"REVOKE_SECRET"})
           last == Len(log) + 1
           e == Entry("SET_SECRET", n, v)
<1>1. e \in Entries /\ e.name = n /\ e.action = "SET_SECRET" /\ e.version = v
  BY DEF Entry, Entries, Actions
<1> HIDE DEF e
<1>2. Record(t, e)
  BY DEF e
<1>3. /\ Logged(n, {"SET_SECRET"})' = set \union {last}
      /\ Logged(n, {"REVOKE_SECRET"})' = revoke
      /\ log'[last].entry = e /\ set \subseteq 1..Len(log) /\ revoke \subseteq 1..Len(log)
      /\ Len(log) \in Nat
      /\ \A i \in 1..Len(log) : log'[i] = log[i]
  BY <1>1, <1>2, LoggedAfter
<1>4. Versions(n) = {log[i].entry.version : i \in set}
  BY DEF ExplainedFor
<1> HIDE DEF set, revoke
<1>5. Versions(n)' = {log'[i].entry.version : i \in set \union {last}}
  BY <1>1, <1>3, <1>4
<1>6. \E i \in set \union {last} : \A j \in revoke : j < i
  <2>1. \A j \in revoke : j < last
    BY <1>3
  <2> QED BY <2>1
<1> QED BY <1>3, <1>5, <1>6 DEF ExplainedFor

LEMMA RevokeExplained ==
  ASSUME IInv, NEW t \in Threads, pc[t] = "commit", NEW n \in Names,
         Record(t, Entry("REVOKE_SECRET", n, 0)), ExplainedFor(n),
         Versions(n)' = Versions(n), Active(n)' = {}
  PROVE  ExplainedFor(n)'
<1> DEFINE set == Logged(n, {"SET_SECRET"})
           revoke == Logged(n, {"REVOKE_SECRET"})
           last == Len(log) + 1
           e == Entry("REVOKE_SECRET", n, 0)
<1>1. e \in Entries /\ e.name = n /\ e.action = "REVOKE_SECRET"
  BY DEF Entry, Entries, Actions
<1> HIDE DEF e
<1>2. Record(t, e)
  BY DEF e
<1>3. /\ Logged(n, {"SET_SECRET"})' = set
      /\ Logged(n, {"REVOKE_SECRET"})' = revoke \union {last}
      /\ set \subseteq 1..Len(log) /\ Len(log) \in Nat
      /\ \A i \in 1..Len(log) : log'[i] = log[i]
  BY <1>1, <1>2, LoggedAfter
<1>4. Versions(n) = {log[i].entry.version : i \in set}
  BY DEF ExplainedFor
<1> HIDE DEF set, revoke
<1>5. Versions(n)' = {log'[i].entry.version : i \in set}
  BY <1>3, <1>4
<1>6. ASSUME NEW i \in set
      PROVE  ~(\A j \in revoke \union {last} : j < i)
  <2>1. i \in 1..Len(log)
    BY <1>3
  <2>2. ~(last < i)
    BY <1>3, <2>1
  <2> QED BY <2>2
<1> QED BY <1>3, <1>5, <1>6 DEF ExplainedFor

LEMMA ExplainedStep ==
  ASSUME IInv, LogExplainsRows, [Next]_vars
  PROVE  LogExplainsRows'
<1>1. CASE restored' # 0
  BY <1>1 DEF LogExplainsRows
<1>2. CASE restored' = 0
  <2> SUFFICES ASSUME NEW m \in Names PROVE ExplainedFor(m)'
    BY DEF LogExplainsRows, Explained, ExplainedFor
  <2>1. rows \subseteq Rows /\ LatestIn(rows) /\ Dense(rows) /\ restored \in Nat
    BY DEF IInv, Current, Locks
  <2>2. \A t \in Threads : ~ImportData(t)
    BY <1>2, <2>1 DEF ImportData
  <2>3. restored = 0
    BY <1>2, <2>2 DEF Next, Step, Commit, Call, Lock, Begin, Busy, CommitSet, CommitRevoke, CommitGet,
              CommitGranted, CommitNote, EndLease, ExportSecrets, ExportLog, Kill
  <2>4. ExplainedFor(m)
    BY <2>3 DEF LogExplainsRows, Explained, ExplainedFor
  <2>5. ASSUME UNCHANGED <<rows, log>> PROVE ExplainedFor(m)'
    BY <2>4, <2>5, RowsKept DEF ExplainedFor, Logged
  <2>6. ASSUME NEW t \in Threads, pc[t] = "commit", UNCHANGED rows,
               NEW e \in Entries, Record(t, e), e.action \notin {"SET_SECRET", "REVOKE_SECRET"}
        PROVE  ExplainedFor(m)'
    BY <2>4, <2>6, RowsKept, OtherEntry
  <2>7. ASSUME NEW t \in Threads, CommitSet(t) PROVE ExplainedFor(m)'
    <3> DEFINE n == call[t].name
               v == NextVersion(n)
    <3>1. n \in Names
      BY <2>7 DEF CommitSet, IInv, Locals
    <3>2. v \in Nat
      BY <2>1, <3>1, SetRows
    <3>3. Entry("SET_SECRET", n, v) \in Entries /\ Entry("SET_SECRET", n, v).name = n
      BY <3>1, <3>2 DEF Entry, Entries, Actions
    <3>4. /\ pc[t] = "commit" /\ Record(t, Entry("SET_SECRET", n, v))
          /\ rows' = Retired(n, "SUPERSEDED") \union {Row(n, v, "ACTIVE")}
      BY <2>7 DEF CommitSet
    <3> HIDE DEF n, v
    <3>5. /\ Versions(m)' = IF m = n THEN Versions(n) \union {v} ELSE Versions(m)
          /\ Active(m)' # {} <=> (m = n \/ Active(m) # {})
      BY <2>1, <3>1, <3>4, SetVersions
    <3>6. CASE m = n
      BY <2>4, <3>1, <3>2, <3>4, <3>5, <3>6, SetExplained
    <3>7. CASE m # n
      BY <2>4, <3>3, <3>4, <3>5, <3>7, OtherEntry
    <3> QED BY <3>6, <3>7
  <2>8. ASSUME NEW t \in Threads, CommitRevoke(t) PROVE ExplainedFor(m)'
    <3> DEFINE n == call[t].name
    <3>1. n \in Names
      BY <2>8 DEF CommitRevoke, IInv, Locals
    <3>2. Entry("REVOKE_SECRET", n, 0) \in Entries /\ Entry("REVOKE_SECRET", n, 0).name = n
      BY <3>1 DEF Entry, Entries, Actions
    <3>3. /\ pc[t] = "commit" /\ Record(t, Entry("REVOKE_SECRET", n, 0))
          /\ rows' = Retired(n, "REVOKED")
      BY <2>8 DEF CommitRevoke
    <3> HIDE DEF n
    <3>4. /\ Versions(m)' = Versions(m)
          /\ Active(m)' = IF m = n THEN {} ELSE Active(m)
      BY <2>1, <3>3, RevokeVersions
    <3>5. CASE m = n
      BY <2>4, <3>1, <3>3, <3>4, <3>5, RevokeExplained
    <3>6. CASE m # n
      BY <2>4, <3>2, <3>3, <3>4, <3>6, OtherEntry
    <3> QED BY <3>5, <3>6
  <2>9. ASSUME NEW t \in Threads, CommitGet(t) \/ CommitGranted(t) \/ CommitNote(t)
        PROVE  ExplainedFor(m)'
    <3>1. PICK action \in Audited!Notes, n \in Names \union {NoThread} :
            Entry(action, n, 0) \in Entries /\ Record(t, Entry(action, n, 0))
      BY <2>9, OtherCommits
    <3>3. Entry(action, n, 0).action \notin {"SET_SECRET", "REVOKE_SECRET"}
      BY DEF Entry, Audited!Notes
    <3>2. pc[t] = "commit" /\ UNCHANGED rows
      BY <2>9 DEF CommitGet, CommitGranted, CommitNote
    <3> QED BY <2>6, <3>1, <3>2, <3>3
  <2>10. ASSUME NEW t \in Threads, Step(t) PROVE ExplainedFor(m)'
    BY <2>2, <2>5, <2>7, <2>8, <2>9, <2>10 DEF Step, Commit, Call, Lock, Begin, Busy, EndLease,
                                               ExportSecrets, ExportLog
  <2>11. ASSUME NEW p \in Processes, Kill(p) PROVE ExplainedFor(m)'
    BY <2>5, <2>11 DEF Kill
  <2> QED BY <2>5, <2>10, <2>11 DEF Next
<1> QED BY <1>1, <1>2

-----------------------------------------------------------------------------
(***************************************************************************)
(* Every lease is logged.                                                  *)
(***************************************************************************)

\* The threads that hold the buffer of n, or wiped it and have yet to log it.
Holding(n) ==
  {t \in Threads : call[t].name = n /\ (pc[t] = "leased" \/ call[t].op = "returned")}

Granted(n)  == Logged(n, {"LEASE_GRANTED"})
Returned(n) == Logged(n, {"LEASE_RETURNED"})

LeasesAccounted ==
  restored = 0 => \A n \in Names :
    Cardinality(Granted(n)) >= Cardinality(Returned(n)) + Cardinality(Holding(n))

\* The sets that are counted are finite.
LEMMA Counts ==
  ASSUME IInv, NEW n
  PROVE  /\ IsFiniteSet(Granted(n)) /\ Cardinality(Granted(n)) \in Nat
         /\ IsFiniteSet(Returned(n)) /\ Cardinality(Returned(n)) \in Nat
         /\ IsFiniteSet(Holding(n)) /\ Cardinality(Holding(n)) \in Nat
         /\ Len(log) + 1 \notin Granted(n) /\ Len(log) + 1 \notin Returned(n)
<1>1. Len(log) \in Nat
  BY DEF IInv, Current
<1>2. IsFiniteSet(1..Len(log))
  BY <1>1, FS_Interval
<1>3. Granted(n) \subseteq 1..Len(log) /\ Returned(n) \subseteq 1..Len(log)
  BY DEF Granted, Returned, Logged
<1>4. IsFiniteSet(Granted(n)) /\ IsFiniteSet(Returned(n))
  BY <1>2, <1>3, FS_Subset
<1>5. IsFiniteSet(Holding(n))
  BY SecretStoreAssumption, FS_Subset DEF Holding
<1>6. Len(log) + 1 \notin Granted(n) /\ Len(log) + 1 \notin Returned(n)
  BY <1>1, <1>3
<1> QED BY <1>4, <1>5, <1>6, FS_CardinalityType

\* A step that logs no lease, and after which no other thread holds the buffer.
LEMMA NoLease ==
  ASSUME IInv, NEW n, Granted(n)' = Granted(n), Returned(n)' = Returned(n),
         Holding(n)' \subseteq Holding(n),
         Cardinality(Granted(n)) >= Cardinality(Returned(n)) + Cardinality(Holding(n))
  PROVE  Cardinality(Granted(n)') >= Cardinality(Returned(n)') + Cardinality(Holding(n)')
<1>1. Cardinality(Holding(n)') \in Nat /\ Cardinality(Holding(n)') <= Cardinality(Holding(n))
  BY Counts, FS_Subset, FS_CardinalityType
<1> QED BY <1>1, Counts

LEMMA LeaseGranted ==
  ASSUME IInv, NEW t, NEW n, Granted(n)' = Granted(n) \union {Len(log) + 1}, Returned(n)' = Returned(n),
         Holding(n)' \subseteq Holding(n) \union {t},
         Cardinality(Granted(n)) >= Cardinality(Returned(n)) + Cardinality(Holding(n))
  PROVE  Cardinality(Granted(n)') >= Cardinality(Returned(n)') + Cardinality(Holding(n)')
<1>1. Cardinality(Granted(n)') = Cardinality(Granted(n)) + 1
  BY Counts, FS_AddElement
<1> DEFINE h == Holding(n)
<1>2. /\ IsFiniteSet(h \union {t}) /\ Cardinality(h \union {t}) \in Nat
      /\ Cardinality(h \union {t}) <= Cardinality(h) + 1
  <2>1. IsFiniteSet(h) /\ Cardinality(h) \in Nat
    BY Counts
  <2> HIDE DEF h
  <2>2. /\ IsFiniteSet(h \union {t})
        /\ Cardinality(h \union {t}) = IF t \in h THEN Cardinality(h) ELSE Cardinality(h) + 1
    BY <2>1, FS_AddElement
  <2> QED BY <2>1, <2>2, FS_CardinalityType
<1>3. Cardinality(Holding(n)') \in Nat /\ Cardinality(Holding(n)') <= Cardinality(Holding(n)) + 1
  BY <1>2, Counts, FS_Subset, FS_CardinalityType
<1> QED BY <1>1, <1>3, Counts

LEMMA LeaseReturned ==
  ASSUME IInv, NEW t, NEW n, Granted(n)' = Granted(n), Returned(n)' = Returned(n) \union {Len(log) + 1},
         t \in Holding(n), Holding(n)' \subseteq Holding(n) \ {t},
         Cardinality(Granted(n)) >= Cardinality(Returned(n)) + Cardinality(Holding(n))
  PROVE  Cardinality(Granted(n)') >= Cardinality(Returned(n)') + Cardinality(Holding(n)')
<1>1. Cardinality(Returned(n)') = Cardinality(Returned(n)) + 1
  BY Counts, FS_AddElement
<1>2. /\ IsFiniteSet(Holding(n) \ {t})
      /\ Cardinality(Holding(n) \ {t}) = Cardinality(Holding(n)) - 1
  BY Counts, FS_RemoveElement
<1>3. Cardinality(Holding(n)') \in Nat /\ Cardinality(Holding(n)') <= Cardinality(Holding(n)) - 1
  BY <1>2, FS_Subset, FS_CardinalityType
<1> QED BY <1>1, <1>3, Counts

LEMMA LeaseStep ==
  ASSUME IInv, LeasesAccounted, [Next]_vars
  PROVE  LeasesAccounted'
<1>1. CASE restored' # 0
  BY <1>1 DEF LeasesAccounted
<1>2. CASE restored' = 0
  <2> DEFINE Enough(n) == Cardinality(Granted(n)) >= Cardinality(Returned(n)) + Cardinality(Holding(n))
  <2> SUFFICES ASSUME NEW n \in Names PROVE Enough(n)'
    BY DEF LeasesAccounted
  <2>1. restored \in Nat /\ pc \in [Threads -> PCs] /\ call \in [Threads -> CallTypes]
    BY DEF IInv, Locks, Locals
  <2>2. \A t \in Threads : ~ImportData(t)
    BY <1>2, <2>1 DEF ImportData
  <2>3. restored = 0
    BY <1>2, <2>2 DEF Next, Step, Commit, Call, Lock, Begin, Busy, CommitSet, CommitRevoke,
              CommitGet, CommitGranted, CommitNote, EndLease, ExportSecrets, ExportLog, Kill
  <2>4. Enough(n)
    BY <2>3 DEF LeasesAccounted
  <2>5. ASSUME UNCHANGED log, Holding(n)' \subseteq Holding(n) PROVE Enough(n)'
    <3>1. Granted(n)' = Granted(n) /\ Returned(n)' = Returned(n)
      BY <2>5 DEF Granted, Returned, Logged
    <3> QED BY <2>4, <2>5, <3>1, NoLease
  <2>6. ASSUME NEW t \in Threads, pc[t] = "commit", NEW e \in Entries, Record(t, e),
               e.action \notin {"LEASE_GRANTED", "LEASE_RETURNED"} \/ e.name # n,
               Holding(n)' \subseteq Holding(n)
        PROVE  Enough(n)'
    <3>1. Granted(n)' = Granted(n) /\ Returned(n)' = Returned(n)
      BY <2>6, LoggedAfter DEF Granted, Returned
    <3> QED BY <2>4, <2>6, <3>1, NoLease
  <2>7. ASSUME NEW t \in Threads, Return(t)
        PROVE  Holding(n)' \subseteq Holding(n) \ {t}
    BY <2>1, <2>7 DEF Return, Holding, NoCall
  <2>8. ASSUME NEW t \in Threads, CommitSet(t) PROVE Enough(n)'
    <3>1. call[t].name \in Names /\ rows \subseteq Rows /\ LatestIn(rows) /\ Dense(rows)
      BY <2>8 DEF CommitSet, IInv, Locals, Current
    <3>2. NextVersion(call[t].name) \in Nat
      BY <3>1, SetRows
    <3>3. Entry("SET_SECRET", call[t].name, NextVersion(call[t].name)) \in Entries
      BY <3>2, EntryTypes DEF Actions
    <3>4. Holding(n)' \subseteq Holding(n)
      BY <2>7, <2>8 DEF CommitSet
    <3> QED BY <2>6, <2>8, <3>3, <3>4 DEF CommitSet, Entry
  <2>9. ASSUME NEW t \in Threads, CommitRevoke(t) PROVE Enough(n)'
    <3>1. Entry("REVOKE_SECRET", call[t].name, 0) \in Entries
      BY EntryTypes DEF Actions
    <3>2. Holding(n)' \subseteq Holding(n)
      BY <2>7, <2>9 DEF CommitRevoke
    <3> QED BY <2>6, <2>9, <3>1, <3>2 DEF CommitRevoke, Entry
  <2>10. ASSUME NEW t \in Threads, CommitGet(t) PROVE Enough(n)'
    <3>1. \A action \in {"GET_SECRET", "GET_SECRET_FAILED"} : Entry(action, call[t].name, 0) \in Entries
      BY EntryTypes DEF Actions
    <3>2. CASE Active(call[t].name) # {}
      <4>1. Holding(n)' \subseteq Holding(n)
        BY <2>1, <2>10, <3>2 DEF CommitGet, Transact, Holding
      <4> QED BY <2>6, <2>10, <3>1, <3>2, <4>1 DEF CommitGet, Entry
    <3>3. CASE Active(call[t].name) = {}
      <4>1. Holding(n)' \subseteq Holding(n)
        BY <2>7, <2>10, <3>3 DEF CommitGet
      <4> QED BY <2>6, <2>10, <3>1, <3>3, <4>1 DEF CommitGet, Entry
    <3> QED BY <3>2, <3>3
  <2>11. ASSUME NEW t \in Threads, CommitGranted(t) PROVE Enough(n)'
    <3> DEFINE e == Entry("LEASE_GRANTED", call[t].name, 0)
    <3>1. e \in Entries /\ e.action = "LEASE_GRANTED" /\ e.name = call[t].name
      BY EntryTypes DEF Actions, Entry
    <3>2. Record(t, e) /\ pc[t] = "commit" /\ UNCHANGED call /\ pc' = [pc EXCEPT ![t] = "leased"]
      BY <2>11 DEF CommitGranted
    <3> HIDE DEF e
    <3>3. CASE call[t].name = n
      <4>1. Granted(n)' = Granted(n) \union {Len(log) + 1} /\ Returned(n)' = Returned(n)
        BY <3>1, <3>2, <3>3, LoggedAfter DEF Granted, Returned
      <4>2. Holding(n)' \subseteq Holding(n) \union {t}
        BY <2>1, <3>2 DEF Holding
      <4> QED BY <2>4, <4>1, <4>2, LeaseGranted
    <3>4. CASE call[t].name # n
      <4>1. Holding(n)' \subseteq Holding(n)
        BY <2>1, <3>2, <3>4 DEF Holding
      <4> QED BY <2>6, <3>1, <3>2, <3>4, <4>1
    <3> QED BY <3>3, <3>4
  <2>12. ASSUME NEW t \in Threads, CommitNote(t) PROVE Enough(n)'
    <3> DEFINE e == Note(t)
    <3>1. e \in Entries
      BY <2>12, EntryTypes DEF CommitNote, Note, Actions
    <3>2. Record(t, e) /\ pc[t] = "commit" /\ Holding(n)' \subseteq Holding(n) \ {t}
      BY <2>7, <2>12 DEF CommitNote
    <3>3. CASE call[t].op = "returned" /\ call[t].name = n
      <4>1. e.action = "LEASE_RETURNED" /\ e.name = n
        BY <3>3 DEF Note, Entry
      <4>2. t \in Holding(n)
        BY <3>3 DEF Holding
      <4> HIDE DEF e
      <4>3. Granted(n)' = Granted(n) /\ Returned(n)' = Returned(n) \union {Len(log) + 1}
        BY <3>1, <3>2, <4>1, LoggedAfter DEF Granted, Returned
      <4> QED BY <2>4, <3>2, <4>2, <4>3, LeaseReturned
    <3>4. CASE ~(call[t].op = "returned" /\ call[t].name = n)
      <4>1. e.action \notin {"LEASE_GRANTED", "LEASE_RETURNED"} \/ e.name # n
        BY <2>12, <3>4 DEF CommitNote, Note, Entry
      <4> HIDE DEF e
      <4> QED BY <2>6, <3>1, <3>2, <4>1
    <3> QED BY <3>3, <3>4
  <2>13. ASSUME NEW t \in Threads, Step(t), ~Commit(t) PROVE Enough(n)'
    <3>1. Holding(n)' \subseteq Holding(n) /\ UNCHANGED log
      <4>1. CASE Call(t)
        BY <2>1, <4>1, SecretStoreAssumption DEF Call, TakeLock, Holding
      <4>2. CASE Busy(t)
        BY <2>7, <4>2 DEF Busy
      <4>3. CASE EndLease(t)
        BY <2>1, <4>3 DEF EndLease, Transact, Holding
      <4>4. CASE Lock(t) \/ Begin(t) \/ ExportSecrets(t) \/ ExportLog(t)
        BY <2>1, <4>4 DEF Lock, TakeLock, Begin, ExportSecrets, ExportLog, Holding
      <4> QED BY <2>2, <2>13, <4>1, <4>2, <4>3, <4>4 DEF Step, tables
    <3> QED BY <2>5, <3>1
  <2>14. ASSUME NEW p \in Processes, Kill(p) PROVE Enough(n)'
    <3>1. Holding(n)' \subseteq Holding(n) /\ UNCHANGED log
      BY <2>14 DEF Kill, Holding, NoCall
    <3> QED BY <2>5, <3>1
  <2>15. CASE UNCHANGED vars
    <3>1. Holding(n)' \subseteq Holding(n) /\ UNCHANGED log
      BY <2>15 DEF Holding
    <3> QED BY <2>5, <3>1
  <2> QED BY <2>8, <2>9, <2>10, <2>11, <2>12, <2>13, <2>14, <2>15 DEF Next, Commit
<1> QED BY <1>1, <1>2

-----------------------------------------------------------------------------
(***************************************************************************)
(* The store implements AuditedStore.                                      *)
(***************************************************************************)

Statuses == {"ACTIVE", "SUPERSEDED", "REVOKED"}

\* Versions and History, of any table.
VersionsIn(table, n) == {r.version : r \in {s \in table : s.name = n}}
HistoryIn(table, n) ==
  [v \in 1..Cardinality(VersionsIn(table, n)) |->
     (CHOOSE r \in table : r.name = n /\ r.version = v).status]

\* The log without its hashes, as the refinement mapping has it.
EntriesOf(links) == [i \in 1..Len(links) |-> links[i].entry]

LEMMA Histories ==
  ASSUME NEW n
  PROVE  /\ Versions(n) = VersionsIn(rows, n) /\ Versions(n)' = VersionsIn(rows', n)
         /\ History(n) = HistoryIn(rows, n) /\ History(n)' = HistoryIn(rows', n)
BY DEF Versions, VersionsIn, History, HistoryIn

\* The row of a version, of which there is one.
LEMMA RowOfVersion ==
  ASSUME NEW table, LatestIn(table), NEW r \in table
  PROVE  (CHOOSE s \in table : s.name = r.name /\ s.version = r.version) = r
BY DEF LatestIn

\* A name's history lists the statuses of its versions.
LEMMA HistoryOf ==
  ASSUME NEW table \in SUBSET Rows, LatestIn(table), NEW n, NEW k \in Nat, VersionsIn(table, n) = 1..k
  PROVE  /\ HistoryIn(table, n) \in Seq(Statuses) /\ Len(HistoryIn(table, n)) = k
         /\ \A r \in table : r.name = n => r.version \in 1..k /\ HistoryIn(table, n)[r.version] = r.status
         /\ \A v \in 1..k : \E r \in table : r.name = n /\ r.version = v
<1> DEFINE row(v) == CHOOSE r \in table : r.name = n /\ r.version = v
<1>1. Cardinality(VersionsIn(table, n)) = k
  BY FS_Interval
<1>2. \A v \in 1..k : \E r \in table : r.name = n /\ r.version = v
  BY DEF VersionsIn
<1>3. \A v \in 1..k : row(v) \in table
  BY <1>2
<1>4. \A r \in table : r.status \in Statuses
  BY DEF Rows, Statuses
<1>5. HistoryIn(table, n) = [v \in 1..k |-> row(v).status]
  BY <1>1 DEF HistoryIn
<1>6. \A r \in table : r.name = n => r.version \in 1..k /\ row(r.version) = r
  BY RowOfVersion DEF VersionsIn
<1> HIDE DEF row
<1>7. HistoryIn(table, n) \in [1..k -> Statuses]
  BY <1>3, <1>4, <1>5
<1>8. HistoryIn(table, n) \in Seq(Statuses) /\ Len(HistoryIn(table, n)) = k
  BY <1>7
<1> QED BY <1>2, <1>5, <1>6, <1>8

LEMMA RetireType ==
  ASSUME NEW s \in Seq(Statuses), NEW status \in Statuses
  PROVE  /\ Audited!Retire(s, status) \in Seq(Statuses)
         /\ Len(Audited!Retire(s, status)) = Len(s)
         /\ \A v \in 1..Len(s) :
              Audited!Retire(s, status)[v] = IF s[v] = "ACTIVE" THEN status ELSE s[v]
<1>1. Audited!Retire(s, status) = [v \in 1..Len(s) |-> IF s[v] = "ACTIVE" THEN status ELSE s[v]]
  BY DEF Audited!Retire
<1>2. \A v \in 1..Len(s) : (IF s[v] = "ACTIVE" THEN status ELSE s[v]) \in Statuses
  OBVIOUS
<1>3. Audited!Retire(s, status) \in [1..Len(s) -> Statuses] /\ Len(s) \in Nat
  BY <1>1, <1>2
<1> QED BY <1>1, <1>3

\* The rows that retiring leaves of n are those of its retired history.
LEMMA RetiredStatus ==
  ASSUME rows \subseteq Rows, LatestIn(rows), NEW n, NEW k \in Nat, Versions(n) = 1..k,
         NEW status \in {"SUPERSEDED", "REVOKED"}, NEW r \in Retired(n, status), r.name = n
  PROVE  r.version \in 1..k /\ r.status = Audited!Retire(History(n), status)[r.version]
<1>1. PICK s \in rows : /\ r = IF s \in Active(n) THEN [s EXCEPT !.status = status] ELSE s
                        /\ r.name = s.name /\ r.version = s.version
  BY RetiredRows
<1>2. /\ History(n) \in Seq(Statuses) /\ Len(History(n)) = k
      /\ s.version \in 1..k /\ History(n)[s.version] = s.status
  BY <1>1, HistoryOf, Histories
<1>3. r.status = IF s.status = "ACTIVE" THEN status ELSE s.status
  BY <1>1 DEF Active, Rows
<1>4. Audited!Retire(History(n), status)[s.version] = IF s.status = "ACTIVE" THEN status ELSE s.status
  BY <1>2, RetireType DEF Statuses
<1> QED BY <1>1, <1>2, <1>3, <1>4

\* A name with the same rows in both tables has the same history.
LEMMA SameHistory ==
  ASSUME rows \subseteq Rows, LatestIn(rows), Dense(rows), rows' \subseteq Rows, LatestIn(rows'),
         NEW m \in Names, \A r \in rows : r.name = m => r \in rows', Versions(m)' = Versions(m)
  PROVE  History(m)' = History(m)
<1>1. PICK k \in Nat : VersionsIn(rows, m) = 1..k
  BY DEF Dense, VersionsIn
<1>2. /\ History(m) \in Seq(Statuses) /\ Len(History(m)) = k
      /\ \A v \in 1..k : \E r \in rows : r.name = m /\ r.version = v /\ History(m)[v] = r.status
  BY <1>1, HistoryOf, Histories
<1>3. /\ History(m)' \in Seq(Statuses) /\ Len(History(m)') = k
      /\ \A r \in rows' : r.name = m => History(m)'[r.version] = r.status
  BY <1>1, HistoryOf, Histories
<1>4. \A v \in 1..k : History(m)'[v] = History(m)[v]
  BY <1>2, <1>3
<1> QED BY <1>2, <1>3, <1>4, SeqEqual

\* revoke_secret retires a history ...
LEMMA RevokedHistory ==
  ASSUME rows \subseteq Rows, LatestIn(rows), Dense(rows), rows' \subseteq Rows, LatestIn(rows'),
         NEW n \in Names, rows' = Retired(n, "REVOKED")
  PROVE  History(n)' = Audited!Retire(History(n), "REVOKED")
<1>1. PICK k \in Nat : Versions(n) = 1..k
  BY DEF Dense, Versions
<1>2. VersionsIn(rows', n) = 1..k
  BY <1>1, RevokeVersions, Histories
<1>3. /\ History(n)' \in Seq(Statuses) /\ Len(History(n)') = k
      /\ \A r \in rows' : r.name = n => History(n)'[r.version] = r.status
      /\ \A v \in 1..k : \E r \in rows' : r.name = n /\ r.version = v
  BY <1>2, HistoryOf, Histories
<1>4. History(n) \in Seq(Statuses) /\ Len(History(n)) = k
  BY <1>1, HistoryOf, Histories
<1> DEFINE new == Audited!Retire(History(n), "REVOKED")
<1>5. new \in Seq(Statuses) /\ Len(new) = k
  BY <1>4, RetireType DEF Statuses
<1>6. \A r \in rows' : r.name = n => r.status = new[r.version]
  BY <1>1, RetiredStatus
<1> HIDE DEF new
<1>7. \A v \in 1..k : History(n)'[v] = new[v]
  BY <1>3, <1>6
<1>8. History(n)' = new
  BY <1>3, <1>5, <1>7, SeqEqual
<1> QED BY <1>8 DEF new

\* ... and set_secret appends an ACTIVE version to it.
LEMMA SetHistory ==
  ASSUME rows \subseteq Rows, LatestIn(rows), Dense(rows), rows' \subseteq Rows, LatestIn(rows'),
         NEW n \in Names,
         rows' = Retired(n, "SUPERSEDED") \union {Row(n, NextVersion(n), "ACTIVE")}
  PROVE  /\ History(n)' = Append(Audited!Retire(History(n), "SUPERSEDED"), "ACTIVE")
         /\ NextVersion(n) = Len(History(n)) + 1
<1>1. PICK k \in Nat : Versions(n) = 1..k
  BY DEF Dense, Versions
<1>2. NextVersion(n) = k + 1
  BY <1>1, SuccessorOfInterval DEF NextVersion
<1>3. VersionsIn(rows', n) = 1..(k + 1)
  <2>1. Versions(n)' = (1..k) \union {k + 1}
    BY <1>1, <1>2, SetVersions
  <2>2. (1..k) \union {k + 1} = 1..(k + 1)
    OBVIOUS
  <2> QED BY <2>1, <2>2, Histories
<1>4. /\ History(n)' \in Seq(Statuses) /\ Len(History(n)') = k + 1
      /\ \A r \in rows' : r.name = n => History(n)'[r.version] = r.status
      /\ \A v \in 1..(k + 1) : \E r \in rows' : r.name = n /\ r.version = v
  <2> DEFINE j == k + 1
             table == rows'
  <2>1. j \in Nat /\ table \in SUBSET Rows /\ LatestIn(table) /\ VersionsIn(table, n) = 1..j
    BY <1>3
  <2> HIDE DEF j, table
  <2>2. /\ HistoryIn(table, n) \in Seq(Statuses) /\ Len(HistoryIn(table, n)) = j
        /\ \A r \in table : r.name = n => HistoryIn(table, n)[r.version] = r.status
        /\ \A v \in 1..j : \E r \in table : r.name = n /\ r.version = v
    BY <2>1, HistoryOf
  <2>3. History(n)' = HistoryIn(table, n)
    BY Histories DEF table
  <2> QED BY <2>2, <2>3 DEF j, table
<1>5. History(n) \in Seq(Statuses) /\ Len(History(n)) = k
  BY <1>1, HistoryOf, Histories
<1> DEFINE old == Audited!Retire(History(n), "SUPERSEDED")
           new == Row(n, k + 1, "ACTIVE")
<1>6. old \in Seq(Statuses) /\ Len(old) = k
  BY <1>5, RetireType DEF Statuses
<1>7. \A r \in Retired(n, "SUPERSEDED") : r.name = n => r.version \in 1..k /\ r.status = old[r.version]
  BY <1>1, RetiredStatus
<1>8. new.version = k + 1 /\ new.status = "ACTIVE" /\ new.name = n /\ new \in rows'
  BY <1>2 DEF Row
<1>9. \A r \in rows' : r \in Retired(n, "SUPERSEDED") \/ r = new
  BY <1>2
<1> HIDE DEF old, new
<1>10. \A v \in 1..k : History(n)'[v] = old[v]
  BY <1>4, <1>7, <1>8, <1>9
<1>11. History(n)'[k + 1] = "ACTIVE"
  BY <1>4, <1>8
<1>12. /\ Append(old, "ACTIVE") \in Seq(Statuses) /\ Len(Append(old, "ACTIVE")) = k + 1
       /\ \A v \in 1..k : Append(old, "ACTIVE")[v] = old[v]
       /\ Append(old, "ACTIVE")[k + 1] = "ACTIVE"
  BY <1>6 DEF Statuses
<1>13. \A v \in 1..(k + 1) : History(n)'[v] = Append(old, "ACTIVE")[v]
  BY <1>10, <1>11, <1>12
<1>14. History(n)' = Append(old, "ACTIVE")
  BY <1>4, <1>12, <1>13, SeqEqual
<1> QED BY <1>2, <1>5, <1>14 DEF old

\* A transaction's entry is appended to the abstract log, too.
LEMMA EntryRecorded ==
  ASSUME IInv, NEW t \in Threads, pc[t] = "commit", NEW e \in Entries, Record(t, e)
  PROVE  EntriesOf(log)' = Append(EntriesOf(log), e)
<1>1. /\ Len(log) \in Nat /\ Len(log') = Len(log) + 1 /\ log'[Len(log) + 1].entry = e
      /\ \A i \in 1..Len(log) : log'[i] = log[i]
  BY LoggedAfter
<1>2. \A i \in 1..Len(log) : log[i].entry \in Entries
  <2>1. \A i \in 1..Len(log) : log[i] \in Links
    BY DEF IInv, Current
  <2> QED BY <2>1 DEF Links
<1> DEFINE old == [i \in 1..Len(log) |-> log[i].entry]
           new == [i \in 1..Len(log') |-> log'[i].entry]
<1>3. old \in Seq(Entries) /\ Len(old) = Len(log)
  <2>1. old \in [1..Len(log) -> Entries]
    BY <1>2
  <2> QED BY <1>1, <2>1
<1>4. new \in Seq(Entries) /\ Len(new) = Len(log) + 1
  <2>1. \A i \in 1..Len(log') : log'[i].entry \in Entries
    BY <1>1, <1>2
  <2>2. new \in [1..Len(log') -> Entries]
    BY <2>1
  <2> QED BY <1>1, <2>2
<1>5. \A i \in 1..(Len(log) + 1) : new[i] = IF i = Len(log) + 1 THEN e ELSE old[i]
  BY <1>1
<1> HIDE DEF old, new
<1>6. /\ Append(old, e) \in Seq(Entries) /\ Len(Append(old, e)) = Len(log) + 1
      /\ \A i \in 1..(Len(log) + 1) : Append(old, e)[i] = IF i = Len(log) + 1 THEN e ELSE old[i]
  BY <1>1, <1>3
<1>7. \A i \in 1..(Len(log) + 1) : new[i] = Append(old, e)[i]
  BY <1>5, <1>6
<1>8. new = Append(old, e)
  BY <1>4, <1>6, <1>7, SeqEqual
<1> QED BY <1>8 DEF old, new, EntriesOf

LEMMA InitAudited == Init => Audited!Init
<1> SUFFICES ASSUME Init PROVE Audited!Init
  OBVIOUS
<1>1. \A n : History(n) = <<>>
  <2> SUFFICES ASSUME NEW n PROVE History(n) = <<>>
    OBVIOUS
  <2>1. Versions(n) = {}
    BY DEF Init, Versions
  <2>2. Cardinality(Versions(n)) = 0
    BY <2>1, FS_EmptySet
  <2> QED BY <2>2 DEF History
<1>2. log = <<>>
  BY DEF Init
<1>3. [i \in 1..Len(log) |-> log[i].entry] = <<>>
  BY <1>2
<1> QED BY <1>1, <1>3 DEF Audited!Init


LEMMA AuditedStep ==
  ASSUME IInv, [Next]_vars
  PROVE  [Audited!Next \/ \E t \in Threads : ImportData(t)]_tables
<1>1. rows \subseteq Rows /\ LatestIn(rows) /\ Dense(rows)
  BY DEF IInv, Current
<1>2. rows' \subseteq Rows /\ LatestIn(rows')
  <2>1. IInv'
    BY IInvStep
  <2> QED BY <2>1 DEF IInv, Current
<1>3. ASSUME NEW n \in Names, NEW status \in {"SUPERSEDED", "REVOKED"},
             Retired(n, status) \subseteq rows', NEW m \in Names, m # n, Versions(m)' = Versions(m)
      PROVE  History(m)' = History(m)
  <2>1. \A r \in rows : r.name = m => r \in rows'
    BY <1>3 DEF Retired, Active
  <2> QED BY <1>1, <1>2, <1>3, <2>1, SameHistory
<1>4. ASSUME NEW t \in Threads, CommitSet(t) PROVE Audited!Next
  <2>1. PICK n \in Names : n = call[t].name
    BY <1>4 DEF CommitSet, IInv, Locals
  <2> DEFINE e == Entry("SET_SECRET", n, NextVersion(n))
  <2>2. /\ pc[t] = "commit" /\ Record(t, e)
        /\ rows' = Retired(n, "SUPERSEDED") \union {Row(n, NextVersion(n), "ACTIVE")}
    BY <1>4, <2>1 DEF CommitSet
  <2>3. NextVersion(n) \in Nat
    BY <1>1, <2>1, SetRows
  <2>4. e \in Entries
    BY <2>1, <2>3 DEF Entry, Entries, Actions
  <2>5. EntriesOf(log)' = Append(EntriesOf(log), e)
    BY <2>2, <2>4, EntryRecorded
  <2>6. /\ History(n)' = Append(Audited!Retire(History(n), "SUPERSEDED"), "ACTIVE")
        /\ NextVersion(n) = Len(History(n)) + 1
    BY <1>1, <1>2, <2>1, <2>2, SetHistory
  <2>7. \A m \in Names : m # n => History(m)' = History(m)
    <3> SUFFICES ASSUME NEW m \in Names, m # n PROVE History(m)' = History(m)
      OBVIOUS
    <3>1. Versions(m)' = Versions(m)
      BY <1>1, <2>1, <2>2, SetVersions
    <3> QED BY <1>3, <2>1, <2>2, <3>1
  <2>8. Audited!Set(n)
    BY <2>1, <2>5, <2>6, <2>7 DEF Audited!Set, Audited!Entry, Entry, EntriesOf
  <2> QED BY <2>1, <2>8 DEF Audited!Next
<1>5. ASSUME NEW t \in Threads, CommitRevoke(t) PROVE Audited!Next
  <2>1. PICK n \in Names : n = call[t].name
    BY <1>5 DEF CommitRevoke, IInv, Locals
  <2> DEFINE e == Entry("REVOKE_SECRET", n, 0)
  <2>2. pc[t] = "commit" /\ Record(t, e) /\ rows' = Retired(n, "REVOKED")
    BY <1>5, <2>1 DEF CommitRevoke
  <2>3. e \in Entries
    BY <2>1 DEF Entry, Entries, Actions
  <2>4. EntriesOf(log)' = Append(EntriesOf(log), e)
    BY <2>2, <2>3, EntryRecorded
  <2>5. History(n)' = Audited!Retire(History(n), "REVOKED")
    BY <1>1, <1>2, <2>1, <2>2, RevokedHistory
  <2>6. \A m \in Names : m # n => History(m)' = History(m)
    <3> SUFFICES ASSUME NEW m \in Names, m # n PROVE History(m)' = History(m)
      OBVIOUS
    <3>1. Versions(m)' = Versions(m)
      BY <1>1, <2>1, <2>2, RevokeVersions
    <3> QED BY <1>3, <2>1, <2>2, <3>1
  <2>7. Audited!Revoke(n)
    BY <2>1, <2>4, <2>5, <2>6 DEF Audited!Revoke, Audited!Entry, Entry, EntriesOf
  <2> QED BY <2>1, <2>7 DEF Audited!Next
<1>6. ASSUME NEW t \in Threads, CommitGet(t) \/ CommitGranted(t) \/ CommitNote(t) PROVE Audited!Next
  <2>1. PICK action \in Audited!Notes, n \in Names \union {NoThread} :
          Entry(action, n, 0) \in Entries /\ Record(t, Entry(action, n, 0))
    BY <1>6, OtherCommits
  <2>2. pc[t] = "commit" /\ UNCHANGED rows
    BY <1>6 DEF CommitGet, CommitGranted, CommitNote
  <2>3. EntriesOf(log)' = Append(EntriesOf(log), Entry(action, n, 0))
    BY <2>1, <2>2, EntryRecorded
  <2>4. \A m : History(m)' = History(m)
    BY <2>2, Histories
  <2>5. Audited!Note
    BY <2>1, <2>3, <2>4 DEF Audited!Note, Audited!Entry, Entry, EntriesOf
  <2> QED BY <2>5 DEF Audited!Next
<1>7. ASSUME NEW t \in Threads, Call(t) \/ Lock(t) \/ Begin(t) \/ Busy(t) \/ EndLease(t)
                                \/ ExportSecrets(t) \/ ExportLog(t)
      PROVE  UNCHANGED tables
  BY <1>7 DEF Call, Lock, Begin, Busy, EndLease, ExportSecrets, ExportLog
<1>8. ASSUME NEW p \in Processes, Kill(p) PROVE UNCHANGED tables
  BY <1>8 DEF Kill
<1> HIDE DEF tables
<1> QED BY <1>4, <1>5, <1>6, <1>7, <1>8 DEF Next, Step, Commit

-----------------------------------------------------------------------------
(***************************************************************************)
(* The theorems.                                                           *)
(***************************************************************************)

LEMMA Inductive == Spec => []IInv
<1>1. IInv /\ [Next]_vars => IInv'
  BY IInvStep
<1> QED BY InitIInv, <1>1, PTL DEF Spec

\* Every reachable state is well typed: no table ever holds a version 0, no
\* lock is held by a thread that does not exist.
THEOREM TypeCorrect == Spec => []TypeOK
<1>1. IInv => TypeOK
  BY DEF IInv, TypeOK, Current, Saved, Locks, Locals, CallTypes
<1> QED BY Inductive, <1>1, PTL

\* verify_audit_chain succeeds in every reachable state, with any number of
\* writers in any number of processes, after any crashes and restores.
THEOREM ChainCorrect == Spec => []ChainIntact
<1>1. IInv => ChainIntact
  BY DEF IInv, Current, ChainIntact
<1> QED BY Inductive, <1>1, PTL

\* A name never has two ACTIVE versions, nor one that is not its latest.
THEOREM LatestCorrect == Spec => []LatestActive
<1>1. IInv => LatestActive
  BY DEF IInv, Current, LatestActive
<1> QED BY Inductive, <1>1, PTL

\* Until something is imported the log explains the rows: nothing is written
\* that is not logged, and nothing logged that was not written, whoever dies
\* between two steps.
THEOREM LogCorrect == Spec => []LogExplainsRows
<1>1. Init => LogExplainsRows
  BY DEF Init, LogExplainsRows, Explained, Logged, Versions, Active
<1>2. IInv /\ LogExplainsRows /\ [Next]_vars => LogExplainsRows'
  BY ExplainedStep
<1> QED BY Inductive, <1>1, <1>2, PTL DEF Spec

\* No plaintext is held by a caller of lease_secret whose lease is not logged.
THEOREM LeasesCorrect == Spec => []LeasesLogged
<1>1. Init => LeasesAccounted
  <2> SUFFICES ASSUME Init, NEW n \in Names
               PROVE  Cardinality(Granted(n)) >= Cardinality(Returned(n)) + Cardinality(Holding(n))
    BY DEF LeasesAccounted
  <2>1. Granted(n) = {} /\ Returned(n) = {} /\ Holding(n) = {}
    BY DEF Init, Granted, Returned, Holding, Logged, NoCall
  <2> QED BY <2>1, FS_EmptySet
<1>2. IInv /\ LeasesAccounted /\ [Next]_vars => LeasesAccounted'
  BY LeaseStep
<1>3. IInv /\ LeasesAccounted => LeasesLogged
  <2> SUFFICES ASSUME IInv, LeasesAccounted, restored = 0, NEW n \in Names
               PROVE  Cardinality(Granted(n)) >=
                        Cardinality(Returned(n)) +
                        Cardinality({t \in Threads : pc[t] = "leased" /\ call[t].name = n})
    BY DEF LeasesLogged, Granted, Returned
  <2> DEFINE leased == {t \in Threads : pc[t] = "leased" /\ call[t].name = n}
  <2>1. leased \subseteq Holding(n)
    BY DEF Holding
  <2> HIDE DEF leased
  <2>2. Cardinality(leased) \in Nat /\ Cardinality(leased) <= Cardinality(Holding(n))
    BY <2>1, Counts, FS_Subset, FS_CardinalityType
  <2>3. Cardinality(Granted(n)) >= Cardinality(Returned(n)) + Cardinality(leased)
    BY <2>2, Counts DEF LeasesAccounted
  <2> QED BY <2>3 DEF leased
<1> QED BY Inductive, <1>1, <1>2, <1>3, PTL DEF Spec

\* The tables implement AuditedStore but for import_data: for every reader of
\* the database a write and its entry are one step, and a version is one more
\* than the last.
THEOREM StoreRefines == Spec => WritesAreAtomic
<1>1. IInv /\ [Next]_vars => [Audited!Next \/ \E t \in Threads : ImportData(t)]_tables
  BY AuditedStep
<1> QED BY Inductive, InitAudited, <1>1, PTL DEF Spec, WritesAreAtomic

-----------------------------------------------------------------------------
(***************************************************************************)
(* Both locks are let go of.  Weak fairness promises a step only while it   *)
(* is ENABLED, which the provers take as an unknown: Schedulable says of it  *)
(* what these steps need, and the theorem has it as a hypothesis.           *)
(***************************************************************************)

InTransaction(t) == pc[t] \in {"begin", "commit"}

\* Who holds a lock is inside the transaction that releases it, and a thread
\* that is about to begin or to commit one knows what for.
Holds(t) ==
  /\ auditLock[ProcessOf[t]] = t <=> InTransaction(t)
  /\ writer = t => pc[t] = "commit"
  /\ pc[t] \in {"lock", "begin", "commit"} => call[t].op \in Ops

HeldInside == \A t \in Threads : Holds(t)

\* What a step of one thread, or the death of a process, leaves of the others.
LEMMA HoldsStep ==
  ASSUME IInv, HeldInside, [Next]_vars
  PROVE  HeldInside'
<1> USE SecretStoreAssumption DEF Holds, HeldInside, InTransaction, Ops
<1>1. CASE UNCHANGED vars
  BY <1>1
<1>2. ASSUME NEW p \in Processes, Kill(p) PROVE HeldInside'
  BY <1>2 DEF Kill, IInv, Locks, Locals, NoCall
<1>3. ASSUME NEW t \in Threads, Call(t) \/ Lock(t) PROVE HeldInside'
  <2>1. /\ TakeLock(t) /\ UNCHANGED writer /\ ~InTransaction(t)
        /\ \A u \in Threads : u # t => call'[u] = call[u]
    BY <1>3 DEF Call, Lock, IInv, Locals
  <2>2. call'[t].op \in Ops
    <3>1. CASE Lock(t)
      BY <3>1 DEF Lock
    <3>2. CASE Call(t)
      <4>1. PICK op \in Calls, n \in Names : call' = [call EXCEPT ![t] = [op |-> op, name |-> n]]
        BY <3>2 DEF Call
      <4> QED BY <4>1 DEF IInv, Locals
    <3> QED BY <1>3, <3>1, <3>2
  <2>3. /\ pc'[t] = "begin" /\ \A u \in Threads : u # t => pc'[u] = pc[u]
        /\ auditLock[ProcessOf[t]] = NoThread /\ auditLock'[ProcessOf[t]] = t
        /\ \A p \in Processes : p # ProcessOf[t] => auditLock'[p] = auditLock[p]
    BY <2>1 DEF TakeLock, IInv, Locks, Locals
  <2>4. writer # t
    BY <2>1
  <2>5. Holds(t)'
    BY <2>1, <2>2, <2>3, <2>4
  <2>6. ASSUME NEW u \in Threads, u # t PROVE Holds(u)'
    BY <2>1, <2>3, <2>6
  <2> QED BY <2>5, <2>6
<1>4. ASSUME NEW t \in Threads, Begin(t) PROVE HeldInside'
  BY <1>4 DEF Begin, IInv, Locks, Locals
<1>5. ASSUME NEW t \in Threads, Busy(t) PROVE HeldInside'
  BY <1>5 DEF Busy, Return, IInv, Locks, Locals
<1>6. ASSUME NEW t \in Threads, Commit(t) PROVE HeldInside'
  <2>1. /\ pc[t] = "commit" /\ Release(t)
        /\ \E s \in PCs \ {"begin", "commit"} : pc' = [pc EXCEPT ![t] = s]
        /\ \A u \in Threads : u # t => call'[u] = call[u]
        /\ pc'[t] = "lock" => call'[t].op \in Ops
    BY <1>6 DEF Commit, CommitSet, CommitRevoke, CommitGet, CommitGranted, CommitNote, Return,
                Transact, PCs, IInv, Locals
  <2> QED BY <2>1 DEF Release, IInv, Locks, Locals
<1>7. ASSUME NEW t \in Threads, EndLease(t) \/ ExportSecrets(t) \/ ExportLog(t) \/ ImportData(t)
      PROVE  HeldInside'
  BY <1>7 DEF EndLease, ExportSecrets, ExportLog, ImportData, Transact, IInv, Locks, Locals
<1> QED BY <1>1, <1>2, <1>3, <1>4, <1>5, <1>6, <1>7 DEF Next, Step

\* The audit lock is held by the thread inside a transaction and by no other,
\* and the write lock of the database by the one that is about to commit, so
\* no way out of a transaction keeps either of them.
THEOREM HoldsAlways == Spec => []HeldInside
<1>1. Init => HeldInside
  BY SecretStoreAssumption DEF Init, HeldInside, Holds, InTransaction
<1>2. IInv /\ HeldInside /\ [Next]_vars => HeldInside'
  BY HoldsStep
<1> QED BY <1>1, <1>2, Inductive, PTL DEF Spec

Beginning(t)  == pc[t] = "begin"
Committing(t) == pc[t] = "commit"
Outside(t)    == ~InTransaction(t)
Writes(t)     == writer = t
Locked(t)     == auditLock[ProcessOf[t]] = t
WritesNot(t)  == writer # t
Unlocked(t)   == auditLock[ProcessOf[t]] # t

\* What ENABLED means for the steps of a transaction: BEGIN IMMEDIATE succeeds
\* or gives up, and a transaction begun for a call can be committed.
GuardsSuffice(t) ==
  /\ Beginning(t) => ENABLED <<Begin(t) \/ Busy(t)>>_vars
  /\ Committing(t) /\ call[t].op \in Ops => ENABLED <<Commit(t)>>_vars

Schedulable == \A t \in Threads : GuardsSuffice(t)

\* Whatever others do, a transaction stays where it is, goes on, or ends.
LEMMA TransactionStays ==
  ASSUME NEW t \in Threads, IInv, HeldInside, [Next]_vars
  PROVE  /\ Beginning(t) => Beginning(t)' \/ Committing(t)' \/ Outside(t)'
         /\ Committing(t) => Committing(t)' \/ Outside(t)'
<1> USE SecretStoreAssumption DEF Beginning, Committing, Outside, InTransaction
<1>1. CASE UNCHANGED vars
  BY <1>1
<1>2. ASSUME NEW p \in Processes, Kill(p) PROVE pc'[t] \in {pc[t], "idle"}
  BY <1>2 DEF Kill, IInv, Locals
<1>3. ASSUME NEW u \in Threads, Step(u), u # t PROVE pc'[t] = pc[t]
  BY <1>3 DEF Step, Call, Lock, TakeLock, Begin, Busy, Commit, CommitSet, CommitRevoke, CommitGet,
              CommitGranted, CommitNote, EndLease, ExportSecrets, ExportLog, ImportData, Return,
              Transact, IInv, Locals
<1>4. ASSUME Step(t), InTransaction(t) PROVE pc[t] = "begin" \/ Outside(t)'
  BY <1>4 DEF Step, Call, Lock, TakeLock, Begin, Busy, Commit, CommitSet, CommitRevoke, CommitGet,
              CommitGranted, CommitNote, EndLease, ExportSecrets, ExportLog, ImportData, Return,
              Transact, IInv, Locals
<1> QED BY <1>1, <1>2, <1>3, <1>4 DEF Next

LEMMA TransactionGoes ==
  ASSUME NEW t \in Threads, IInv
  PROVE  /\ Beginning(t) /\ <<Begin(t) \/ Busy(t)>>_vars => Committing(t)' \/ Outside(t)'
         /\ Committing(t) /\ <<Commit(t)>>_vars => Outside(t)'
BY DEF Begin, Busy, Commit, CommitSet, CommitRevoke, CommitGet, CommitGranted, CommitNote, Return,
       Transact, Beginning, Committing, Outside, InTransaction, IInv, Locals

LEMMA Begins ==
  ASSUME NEW t \in Threads
  PROVE  Spec /\ Fair(t) /\ []GuardsSuffice(t) => (Beginning(t) ~> Committing(t) \/ Outside(t))
<1>1. IInv /\ HeldInside /\ Beginning(t) /\ [Next]_vars =>
        Beginning(t)' \/ Committing(t)' \/ Outside(t)'
  BY TransactionStays
<1>2. IInv /\ Beginning(t) /\ <<Begin(t) \/ Busy(t)>>_vars => Committing(t)' \/ Outside(t)'
  BY TransactionGoes
<1> QED BY <1>1, <1>2, Inductive, HoldsAlways, PTL DEF Spec, Fair, GuardsSuffice

LEMMA Commits ==
  ASSUME NEW t \in Threads
  PROVE  Spec /\ Fair(t) /\ []GuardsSuffice(t) => (Committing(t) ~> Outside(t))
<1>1. IInv /\ HeldInside /\ Committing(t) /\ [Next]_vars => Committing(t)' \/ Outside(t)'
  BY TransactionStays
<1>2. IInv /\ Committing(t) /\ <<Commit(t)>>_vars => Outside(t)'
  BY TransactionGoes
<1>3. HeldInside /\ Committing(t) => call[t].op \in Ops
  BY DEF HeldInside, Holds, Committing
<1> QED BY <1>1, <1>2, <1>3, Inductive, HoldsAlways, PTL DEF Spec, Fair, GuardsSuffice

Lets(t) ==
  /\ Writes(t) ~> WritesNot(t)
  /\ Locked(t) ~> Unlocked(t)

LEMMA Releases ==
  ASSUME NEW t \in Threads
  PROVE  FairSpec /\ []Schedulable => Lets(t)
<1>1. Fairness => Fair(t)
  BY Zenon DEF Fairness
<1>2. Schedulable => GuardsSuffice(t)
  BY Zenon DEF Schedulable
<1>3. HeldInside => /\ Writes(t) => Committing(t)
                    /\ Locked(t) <=> Beginning(t) \/ Committing(t)
                    /\ Outside(t) => Unlocked(t) /\ WritesNot(t)
  BY DEF HeldInside, Holds, InTransaction, Writes, Locked, WritesNot, Unlocked, Beginning, Committing, Outside
<1> QED BY <1>1, <1>2, <1>3, Begins, Commits, HoldsAlways, PTL DEF FairSpec, Lets

\* Neither _audit_lock nor SQLite's write lock is held for ever, whichever call
\* fails or dies inside it, for any number of threads and processes.
THEOREM LocksCorrect == FairSpec /\ []Schedulable => LocksReleased
<1>1. (\A t \in Threads : Lets(t)) => LocksReleased
  BY DEF LocksReleased, Lets, Writes, Locked, WritesNot, Unlocked
<1>2. ASSUME NEW t \in Threads PROVE FairSpec /\ []Schedulable => Lets(t)
  BY Releases
<1> QED BY <1>1, <1>2

=============================================================================
