------------------------------ MODULE Startup ------------------------------
(***************************************************************************)
(* What a process does to a vault's files before it serves: the migrations  *)
(* of python/storage/sqlite.py, the metadata, the first master secret and   *)
(* keychain.json of python/keychain.py, and the token file of               *)
(* python/server/auth.py.  "serve" does all of it, "init" the token alone.  *)
(* Processes may start at once and may be killed between any two writes;    *)
(* none of the files has a lock that lasts longer than a statement.         *)
(***************************************************************************)
EXTENDS Naturals, Sequences, FiniteSets

CONSTANTS
  Migrations,   \* the scripts, each a sequence of units: "again" may be run
                \* twice, "once" fails when it was run before
  Nothing,      \* no such file, row or keyring entry
  Partial,      \* a file that was opened for writing and has no text yet
  MaxStarts,    \* bound: processes started
  MaxStarting   \* bound: processes that start at once

VARIABLES
  schema,       \* units that were run: <<migration, unit>>
  booked,       \* schema_migrations
  vaultId, keyEpoch,   \* rows of metadata
  keyring,      \* the master secret in the OS keyring
  keychain,     \* keychain.json
  tokenFile,
  process,      \* the n-th process started; what it makes up is called n
  rival,        \* history: two processes were starting at once
  broken        \* history: a kill fell into a write that nothing repairs

files == <<schema, booked, vaultId, keyEpoch, keyring, keychain, tokenFile>>
startVars == <<files, process, rival, broken>>

Starts == 1..MaxStarts

\* No script is empty, and what is missing is not taken for what is there.
ASSUME StartupAssumption ==
  /\ Migrations \in Seq(Seq({"again", "once"}) \ {<<>>})
  /\ MaxStarts \in Nat
  /\ Nothing # Partial
  /\ \A m \in {Nothing, Partial} :
       m \notin Starts /\ m \notin [master : Starts, vaultId : Starts, dek : Starts]

Versions == DOMAIN Migrations
Units(k) == DOMAIN Migrations[k]
AllUnits == UNION {{<<k, i>> : i \in Units(k)} : k \in Versions}

NotStarted == [step |-> "none", kind |-> "none", applied |-> {}, at |-> <<0, 0>>,
               vaultId |-> Nothing, master |-> Nothing, dek |-> Nothing, token |-> Nothing]
Ended == {"none", "open", "failed", "killed"}
Starting == {n \in Starts : process[n].step \notin Ended}

StartInit ==
  /\ schema = {} /\ booked = {}
  /\ vaultId = Nothing /\ keyEpoch = Nothing
  /\ keyring = Nothing /\ keychain = Nothing /\ tokenFile = Nothing
  /\ process = [n \in Starts |-> NotStarted]
  /\ rival = FALSE /\ broken = FALSE

At(n, step) == process[n].step = step
Becomes(n, step) == process' = [process EXCEPT ![n].step = step]
Fails(n) == Becomes(n, "failed")
Keep(vs) == UNCHANGED <<vs, rival, broken>>

Launch(n, kind) ==
  /\ At(n, "none") /\ (n > 1 => ~At(n - 1, "none"))
  /\ Cardinality(Starting) < MaxStarting
  /\ process' = [process EXCEPT ![n].kind = kind,
                                ![n].step = IF kind = "serve" THEN "database" ELSE "token"]
  /\ rival' = (rival \/ Starting # {})
  /\ UNCHANGED <<files, broken>>

-----------------------------------------------------------------------------
(* _apply_migrations.  executescript commits whatever transaction is open,   *)
(* so the statements of a script and the row that records it are committed   *)
(* one by one; only the second script is a transaction of its own.           *)

\* The first script after k that was not applied when the process looked.
GoTo(p, k) ==
  LET left == {j \in Versions : j > k /\ j \notin p.applied}
  IN IF left = {} THEN [p EXCEPT !.step = "vault_id"]
     ELSE [p EXCEPT !.step = "script", !.at = <<CHOOSE j \in left : \A i \in left : j <= i, 1>>]

OpenDatabase(n) ==
  /\ At(n, "database")
  /\ process' = [process EXCEPT ![n] = GoTo([@ EXCEPT !.applied = booked], 0)]
  /\ Keep(files)

RunUnit(n) ==
  /\ At(n, "script")
  /\ LET k == process[n].at[1]
         i == process[n].at[2]
     IN IF Migrations[k][i] = "once" /\ <<k, i>> \in schema
        THEN Fails(n) /\ UNCHANGED schema
        ELSE /\ schema' = schema \cup {<<k, i>>}
             /\ process' = [process EXCEPT ![n].at[2] = i + 1,
                                           ![n].step = IF i + 1 \in Units(k) THEN "script" ELSE "book"]
  /\ Keep(<<booked, vaultId, keyEpoch, keyring, keychain, tokenFile>>)

\* Mutant of Book: the row is not committed.
BookUncommitted(n) ==
  /\ At(n, "book")
  /\ LET k == process[n].at[1] IN
     IF k \in booked THEN Fails(n) /\ UNCHANGED booked
     ELSE process' = [process EXCEPT ![n] = GoTo(@, k)] /\ UNCHANGED booked
  /\ Keep(<<schema, vaultId, keyEpoch, keyring, keychain, tokenFile>>)

\* The version is a primary key: a rival's row makes the INSERT fail.
Book(n) ==
  /\ At(n, "book")
  /\ LET k == process[n].at[1] IN
     IF k \in booked THEN Fails(n) /\ UNCHANGED booked
     ELSE process' = [process EXCEPT ![n] = GoTo(@, k)] /\ booked' = booked \cup {k}
  /\ Keep(<<schema, vaultId, keyEpoch, keyring, keychain, tokenFile>>)

-----------------------------------------------------------------------------
(* get_vault_id and get_key_epoch: a SELECT, and an INSERT if it is empty.   *)

SelectVaultId(n) ==
  /\ At(n, "vault_id")
  /\ process' = [process EXCEPT ![n].step = IF vaultId = Nothing THEN "new_id" ELSE "epoch",
                                ![n].vaultId = vaultId]
  /\ Keep(files)
InsertVaultId(n) ==
  /\ At(n, "new_id")
  /\ IF vaultId # Nothing THEN Fails(n) /\ UNCHANGED vaultId
     ELSE vaultId' = n /\ process' = [process EXCEPT ![n].step = "epoch", ![n].vaultId = n]
  /\ Keep(<<schema, booked, keyEpoch, keyring, keychain, tokenFile>>)

SelectEpoch(n) ==
  /\ At(n, "epoch")
  /\ Becomes(n, IF keyEpoch = Nothing THEN "new_epoch" ELSE "keychain")
  /\ Keep(files)
InsertEpoch(n) ==
  /\ At(n, "new_epoch")
  /\ IF keyEpoch # Nothing THEN Fails(n) /\ UNCHANGED keyEpoch
     ELSE keyEpoch' = 1 /\ Becomes(n, "keychain")
  /\ Keep(<<schema, booked, vaultId, keyring, keychain, tokenFile>>)

-----------------------------------------------------------------------------
(* The first master secret and the first DEK.                               *)

CheckKeychain(n) ==
  /\ At(n, "keychain")
  /\ Becomes(n, IF keychain = Nothing THEN "bootstrap" ELSE "secret")
  /\ Keep(files)

\* initialize_if_missing, called atomic, reads the keyring and then writes it.
Bootstrap(n) ==
  /\ At(n, "bootstrap")
  /\ Becomes(n, IF keyring = Nothing THEN "set_master" ELSE "secret")
  /\ Keep(files)
SetMaster(n) ==
  /\ At(n, "set_master")
  /\ keyring' = n
  /\ Becomes(n, "secret")
  /\ Keep(<<schema, booked, vaultId, keyEpoch, keychain, tokenFile>>)

GetSecret(n) ==
  /\ At(n, "secret")
  /\ IF keyring = Nothing THEN Fails(n)
     ELSE process' = [process EXCEPT ![n].step = "dek", ![n].master = keyring]
  /\ Keep(files)

\* load_dek if keychain.json is there by now; else initialize_dek opens it.
Dek(n) ==
  /\ At(n, "dek")
  /\ CASE keychain = Nothing -> Becomes(n, "wrap") /\ keychain' = Partial
       [] keychain = Partial -> Fails(n) /\ UNCHANGED keychain
       [] OTHER ->
            /\ IF keychain.master = process[n].master /\ keychain.vaultId = process[n].vaultId
               THEN process' = [process EXCEPT ![n].step = "token", ![n].dek = keychain.dek]
               ELSE Fails(n)
            /\ UNCHANGED keychain
  /\ Keep(<<schema, booked, vaultId, keyEpoch, keyring, tokenFile>>)
Wrap(n) ==
  /\ At(n, "wrap")
  /\ keychain' = [master |-> process[n].master, vaultId |-> process[n].vaultId, dek |-> n]
  /\ process' = [process EXCEPT ![n].step = "token", ![n].dek = n]
  /\ Keep(<<schema, booked, vaultId, keyEpoch, keyring, tokenFile>>)

-----------------------------------------------------------------------------
(* load_or_create_token.                                                    *)

ReadToken(n) ==
  /\ At(n, "token")
  /\ CASE tokenFile = Nothing -> Becomes(n, "write_token") /\ tokenFile' = Partial
       [] tokenFile = Partial -> Fails(n) /\ UNCHANGED tokenFile
       [] OTHER -> /\ process' = [process EXCEPT ![n].step = "open", ![n].token = tokenFile]
                   /\ UNCHANGED tokenFile
  /\ Keep(<<schema, booked, vaultId, keyEpoch, keyring, keychain>>)
WriteToken(n) ==
  /\ At(n, "write_token")
  /\ tokenFile' = n
  /\ process' = [process EXCEPT ![n].step = "open", ![n].token = n]
  /\ Keep(<<schema, booked, vaultId, keyEpoch, keyring, keychain>>)

-----------------------------------------------------------------------------
\* What a kill leaves that makes later starts fail: a script half run, or
\* run and not booked, unless all that was run may be run again; a torn
\* keychain.json; an empty token file.
Unrepaired(p) ==
  \/ /\ p.step \in {"script", "book"}
     /\ \E i \in 1..(p.at[2] - 1) : Migrations[p.at[1]][i] = "once"
  \/ p.step \in {"wrap", "write_token"}

Kill(n) ==
  /\ n \in Starting
  /\ Becomes(n, "killed")
  /\ broken' = (broken \/ Unrepaired(process[n]))
  /\ UNCHANGED <<files, rival>>

StartStep(n) ==
  \/ OpenDatabase(n) \/ RunUnit(n) \/ Book(n)
  \/ SelectVaultId(n) \/ InsertVaultId(n) \/ SelectEpoch(n) \/ InsertEpoch(n)
  \/ CheckKeychain(n) \/ Bootstrap(n) \/ SetMaster(n) \/ GetSecret(n) \/ Dek(n) \/ Wrap(n)
  \/ ReadToken(n) \/ WriteToken(n)

StartNext ==
  \E n \in Starts :
    \/ \E kind \in {"serve", "init"} : Launch(n, kind)
    \/ StartStep(n)
    \/ Kill(n)

-----------------------------------------------------------------------------
Made == Starts \cup {Nothing}
StartTypeOK ==
  /\ schema \subseteq AllUnits /\ booked \subseteq Versions
  /\ vaultId \in Made /\ keyEpoch \in {Nothing, 1} /\ keyring \in Made
  /\ keychain \in {Nothing, Partial} \cup [master : Starts, vaultId : Starts, dek : Starts]
  /\ tokenFile \in Made \cup {Partial}
  /\ rival \in BOOLEAN /\ broken \in BOOLEAN

Serving == {n \in Starts : At(n, "open") /\ process[n].kind = "serve"}

\* A process that serves has the whole schema and the vault's identity,
\* whoever started beside it and whatever was killed before.  If no two
\* processes started at once, it also has the DEK that a restart would load
\* and every process that is up the token that clients read, and a start
\* fails only after a kill inside a write that nothing repairs.
StartsAgree ==
  /\ Serving # {} => schema = AllUnits /\ booked = Versions
  /\ \A n \in Serving : process[n].vaultId = vaultId
  /\ ~rival =>
       /\ \A n \in Serving : keychain = [master |-> keyring, vaultId |-> vaultId, dek |-> process[n].dek]
       /\ \A n \in Starts : At(n, "open") => process[n].token = tokenFile
       /\ (\E n \in Starts : At(n, "failed")) => broken
=============================================================================
