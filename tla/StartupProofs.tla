--------------------------- MODULE StartupProofs ---------------------------
(***************************************************************************)
(* Proofs about Startup, for any migrations, any number of processes and   *)
(* any number that start at once, as a part of Operations.                 *)
(***************************************************************************)
EXTENDS Operations, WellFoundedInduction, TLAPS

-----------------------------------------------------------------------------
(***************************************************************************)
(* The inductive invariant.                                                *)
(***************************************************************************)

Migrated == {"vault_id", "new_id", "epoch", "new_epoch", "keychain", "bootstrap", "set_master",
             "secret", "dek", "wrap"}
Identified == Migrated \ {"vault_id", "new_id"}
Ready == {"token", "write_token", "open"}
Steps == {"none", "database", "script", "book", "failed", "killed"} \cup Migrated \cup Ready
Process == [step : Steps, kind : {"none", "serve", "init"}, applied : SUBSET Versions,
            at : Nat \X Nat, vaultId : Made, master : Made, dek : Made,
            token : Made \cup {Partial}]

Types == StartTypeOK /\ process \in [Starts -> Process]

\* Only "serve" touches the database and the keys, before it has its token.
OnlyServe(p) == p.step \in {"database", "script", "book"} \cup Migrated => p.kind = "serve"
Came(p, steps) == p.step \in steps \/ (p.kind = "serve" /\ p.step \in Ready)

\* Scripts are run in order, and one is booked only when all of it was run.
Script(p) ==
  /\ p.applied \subseteq booked
  /\ p.step \in {"script", "book"} =>
       /\ p.at[1] \in Versions \ p.applied
       /\ \A j \in Versions : j < p.at[1] => j \in booked
       /\ \A i \in Units(p.at[1]) : i < p.at[2] => <<p.at[1], i>> \in schema
  /\ p.step = "script" => p.at[2] \in Units(p.at[1])
  /\ p.step = "book" => \A i \in Units(p.at[1]) : i < p.at[2]
  /\ Came(p, Migrated) => booked = Versions
BookedRan == \A k \in booked : \A i \in Units(k) : <<k, i>> \in schema

\* The row of metadata is never replaced, and the keys come after it.
Identity(p) ==
  /\ Came(p, Identified) => p.vaultId = vaultId /\ vaultId # Nothing
  /\ p.step \in {"secret", "dek", "wrap"} => keyring # Nothing
  /\ p.step \in {"dek", "wrap"} => p.master # Nothing
KeysAfterId == keychain # Nothing => vaultId # Nothing /\ keyring # Nothing

\* What a process knows as long as no other started beside it.
Alone(p) ==
  /\ p.step \in {"script", "book"} => \A k \in booked : k \in p.applied \/ k < p.at[1]
  /\ p.step = "new_id" => vaultId = Nothing
  /\ p.step = "new_epoch" => keyEpoch = Nothing
  /\ p.step \in {"bootstrap", "set_master"} => keychain = Nothing
  /\ p.step = "set_master" => keyring = Nothing
  /\ p.step \in {"dek", "wrap"} => p.master = keyring
  /\ p.step = "wrap" => keychain = Partial
  /\ p.step = "write_token" => tokenFile = Partial
  /\ p.kind = "serve" /\ p.step \in Ready =>
       /\ keychain \notin {Nothing, Partial}
       /\ keychain = [master |-> keyring, vaultId |-> vaultId, dek |-> p.dek]
  /\ p.step = "open" => p.token = tokenFile /\ tokenFile \notin {Nothing, Partial}
  /\ p.step = "failed" => broken

\* The files then; what is half done is so by a process that runs, or a kill.
HalfRun(p, k, i) == p.step \in {"script", "book"} /\ p.at[1] = k /\ i < p.at[2]
OneStarts == \A m, n \in Starting : m = n
KeychainWhole ==
  keychain \notin {Nothing, Partial} => keychain.master = keyring /\ keychain.vaultId = vaultId
TornByOne ==
  /\ keychain = Partial => broken \/ \E n \in Starts : At(n, "wrap")
  /\ tokenFile = Partial => broken \/ \E n \in Starts : At(n, "write_token")
RunByOne ==
  \A k \in Versions \ booked : \A i \in Units(k) :
    <<k, i>> \in schema /\ Migrations[k][i] = "once" =>
      broken \/ \E n \in Starts : HalfRun(process[n], k, i)
FilesAlone == OneStarts /\ KeychainWhole /\ TornByOne /\ RunByOne

ScriptInv == BookedRan /\ \A n \in Starts : Script(process[n])
IdentityInv == KeysAfterId /\ \A n \in Starts : Identity(process[n])
AloneInv == ~rival => FilesAlone /\ \A n \in Starts : Alone(process[n])

StartInv ==
  /\ Types /\ \A n \in Starts : OnlyServe(process[n])
  /\ ScriptInv /\ IdentityInv /\ AloneInv

-----------------------------------------------------------------------------
LEMMA ScriptsNumbered ==
  /\ Versions \subseteq Nat
  /\ \A k \in Versions : Units(k) \subseteq Nat /\ 1 \in Units(k)
  /\ \A k \in Versions : \A i \in Units(k) : i + 1 \in Units(k) \/ \A j \in Units(k) : j < i + 1
<1>1. DOMAIN Migrations = 1..Len(Migrations) /\ Len(Migrations) \in Nat
  BY StartupAssumption
<1>2. ASSUME NEW k \in Versions
      PROVE  /\ Units(k) \subseteq Nat /\ 1 \in Units(k)
             /\ \A i \in Units(k) : i + 1 \in Units(k) \/ \A j \in Units(k) : j < i + 1
  <2>1. Migrations[k] \in Seq({"again", "once"}) /\ Migrations[k] # <<>>
    BY <1>1, StartupAssumption DEF Versions
  <2>2. Units(k) = 1..Len(Migrations[k]) /\ Len(Migrations[k]) \in Nat \ {0}
    BY <2>1 DEF Units
  <2> QED BY <2>2
<1> QED BY <1>1, <1>2 DEF Versions

\* A set of numbers that is not empty has a least one.
LEMMA Least ==
  ASSUME NEW S \in SUBSET Nat, S # {}
  PROVE  \E j \in S : \A i \in S : j <= i
<1> DEFINE R == {ss \in Nat \X Nat : ss[1] < ss[2]}
<1>1. IsWellFoundedOn(R, Nat)
  BY NatLessThanWellFounded DEF OpToRel
<1> HIDE DEF R
<1>2. PICK x \in S : \A y \in S : ~ (<<y, x>> \in R)
  BY <1>1, WFMin
<1>3. ASSUME NEW i \in S PROVE x <= i
  <2>1. <<i, x>> \notin R
    BY <1>2, Zenon
  <2>2. i \in Nat /\ x \in Nat
    OBVIOUS
  <2>3. ~ (i < x)
    BY <2>1, <2>2, SMT DEF R
  <2> QED BY <2>2, <2>3
<1> QED BY <1>3

\* The next script of a process leaves out none that it has yet to run.
LEMMA GoToNext ==
  ASSUME NEW p \in Process, NEW k \in Nat
  PROVE  LET q == GoTo(p, k) IN
         /\ q \in Process
         /\ q.kind = p.kind /\ q.applied = p.applied /\ q.vaultId = p.vaultId
         /\ \/ q.step = "vault_id" /\ \A j \in Versions : j > k => j \in p.applied
            \/ /\ q.step = "script" /\ q.at[1] \in Versions \ p.applied /\ q.at[1] > k
               /\ q.at[2] = 1
               /\ \A j \in Versions : k < j /\ j < q.at[1] => j \in p.applied
<1> DEFINE left == {j \in Versions : j > k /\ j \notin p.applied}
           least == CHOOSE j \in left : \A i \in left : j <= i
<1>1. CASE left = {}
  <2>1. GoTo(p, k) = [p EXCEPT !.step = "vault_id"]
    BY <1>1 DEF GoTo
  <2>2. "vault_id" \in Steps
    BY DEF Steps, Migrated
  <2>3. [p EXCEPT !.step = "vault_id"] \in Process
    BY <2>2 DEF Process
  <2> QED BY <1>1, <2>1, <2>3 DEF Process
<1>2. CASE left # {}
  <2>1. left \subseteq Nat
    BY ScriptsNumbered
  <2>2. least \in left /\ \A i \in left : least <= i
    BY <1>2, <2>1, Least
  <2>3. GoTo(p, k) = [p EXCEPT !.step = "script", !.at = <<least, 1>>]
    BY <1>2 DEF GoTo
  <2>4. "script" \in Steps
    BY DEF Steps
  <2> HIDE DEF least
  <2>5. [p EXCEPT !.step = "script", !.at = <<least, 1>>] \in Process
    BY <2>1, <2>2, <2>4 DEF Process
  <2>6. \A j \in Versions : k < j /\ j < least => j \in p.applied
    BY <2>1, <2>2, ScriptsNumbered
  <2> QED BY <2>1, <2>2, <2>3, <2>5, <2>6 DEF Process
<1> QED BY <1>1, <1>2

-----------------------------------------------------------------------------
(***************************************************************************)
(* Types.                                                                  *)
(***************************************************************************)

LEMMA TypesInit == StartInit => Types
<1>1. NotStarted \in Process
  BY DEF NotStarted, Process, Steps, Made
<1> QED BY <1>1 DEF StartInit, Types, StartTypeOK, Made

LEMMA Moves ==
  ASSUME process \in [Starts -> Process], NEW n \in Starts, NEW step \in Steps, Becomes(n, step)
  PROVE  process' \in [Starts -> Process]
<1>1. [process[n] EXCEPT !.step = step] \in Process
  BY DEF Process
<1> QED BY <1>1 DEF Becomes

LEMMA Component2 ==
  ASSUME NEW a \in Nat \X Nat, NEW j
  PROVE  [a EXCEPT ![2] = j] = <<a[1], j>>
OBVIOUS

LEMMA Advances ==
  ASSUME NEW p \in Process, NEW a \in Nat \X Nat, NEW step \in Steps
  PROVE  [p EXCEPT !.at = a, !.step = step] \in Process
BY DEF Process

LEMMA TypesStep ==
  ASSUME Types, NEW n \in Starts, Script(process[n]), Identity(process[n]),
         StartStep(n) \/ Kill(n) \/ \E kind \in {"serve", "init"} : Launch(n, kind)
  PROVE  Types'
<1>1. process[n] \in Process /\ n \in Made
  BY DEF Types, Made
<1> USE DEF Types, StartTypeOK, Keep, files, Fails
<1>2. ASSUME NEW kind \in {"serve", "init"}, Launch(n, kind) PROVE Types'
  <2> DEFINE q == [process[n] EXCEPT !.kind = kind,
                                     !.step = IF kind = "serve" THEN "database" ELSE "token"]
  <2>1. q \in Process
    BY <1>1 DEF Process, Steps, Ready
  <2>2. process' = [process EXCEPT ![n] = q]
    BY <1>2 DEF Launch
  <2> QED BY <1>2, <2>1, <2>2 DEF Launch
<1>3. CASE OpenDatabase(n)
  <2>1. [process[n] EXCEPT !.applied = booked] \in Process
    BY <1>1 DEF Process
  <2>2. GoTo([process[n] EXCEPT !.applied = booked], 0) \in Process
    BY <2>1, GoToNext
  <2> QED BY <1>3, <2>2 DEF OpenDatabase
<1>4. CASE RunUnit(n)
  <2> DEFINE k == process[n].at[1]
             i == process[n].at[2]
             q == [process[n] EXCEPT !.at[2] = i + 1,
                                     !.step = IF i + 1 \in Units(k) THEN "script" ELSE "book"]
  <2>1. q \in Process
    <3>1. k \in Nat /\ i \in Nat /\ process[n].at = <<k, i>>
      BY <1>1 DEF Process
    <3>2. q = [process[n] EXCEPT !.at = <<k, i + 1>>,
                                 !.step = IF i + 1 \in Units(k) THEN "script" ELSE "book"]
      <4>1. [process[n].at EXCEPT ![2] = i + 1] = <<k, i + 1>>
        BY <1>1, Component2 DEF Process
      <4> QED BY <4>1
    <3>3. (IF i + 1 \in Units(k) THEN "script" ELSE "book") \in Steps
      BY DEF Steps
    <3>4. <<k, i + 1>> \in Nat \X Nat
      BY <3>1
    <3> HIDE DEF k, i, q
    <3> QED BY <1>1, <3>2, <3>3, <3>4, Advances
  <2>2. CASE Fails(n) /\ UNCHANGED schema
    BY <1>4, <2>2, Moves DEF RunUnit, Steps
  <2>3. CASE schema' = schema \cup {<<k, i>>} /\ process' = [process EXCEPT ![n] = q]
    <3>1. <<k, i>> \in AllUnits
      BY <1>4 DEF RunUnit, At, Script, AllUnits
    <3> QED BY <1>4, <2>3, <2>1, <3>1 DEF RunUnit
  <2> QED BY <1>4, <2>2, <2>3 DEF RunUnit
<1>5. CASE Book(n)
  <2>1. process[n].at[1] \in Versions /\ process[n].at[1] \in Nat
    BY <1>1, <1>5 DEF Process, Book, At, Script
  <2>2. GoTo(process[n], process[n].at[1]) \in Process
    BY <1>1, <2>1, GoToNext
  <2>3. CASE Fails(n) /\ UNCHANGED booked
    BY <1>5, <2>3, Moves DEF Book, Steps
  <2>4. CASE /\ process' = [process EXCEPT ![n] = GoTo(@, process[n].at[1])]
             /\ booked' = booked \cup {process[n].at[1]}
    BY <1>5, <2>1, <2>2, <2>4 DEF Book
  <2> QED BY <1>5, <2>3, <2>4 DEF Book
<1>6. CASE SelectVaultId(n)
  <2> DEFINE q == [process[n] EXCEPT !.step = IF vaultId = Nothing THEN "new_id" ELSE "epoch",
                                     !.vaultId = vaultId]
  <2>1. q \in Process
    BY <1>1 DEF Process, Steps, Migrated
  <2> QED BY <1>6, <2>1 DEF SelectVaultId
<1>7. CASE InsertVaultId(n)
  <2>1. [process[n] EXCEPT !.step = "epoch", !.vaultId = n] \in Process
    BY <1>1 DEF Process, Steps, Migrated
  <2> QED BY <1>1, <1>7, <2>1, Moves DEF InsertVaultId, Steps
<1>8. CASE SelectEpoch(n) \/ InsertEpoch(n)
  BY <1>8, Moves DEF SelectEpoch, InsertEpoch, Steps, Migrated
<1>9. CASE CheckKeychain(n) \/ Bootstrap(n) \/ SetMaster(n)
  BY <1>1, <1>9, Moves DEF CheckKeychain, Bootstrap, SetMaster, Steps, Migrated
<1>10. CASE GetSecret(n)
  <2>1. [process[n] EXCEPT !.step = "dek", !.master = keyring] \in Process
    BY <1>1 DEF Process, Steps, Migrated
  <2> QED BY <1>10, <2>1, Moves DEF GetSecret, Steps
<1>11. CASE Dek(n)
  <2>1. ASSUME keychain \notin {Nothing, Partial}
        PROVE  [process[n] EXCEPT !.step = "token", !.dek = keychain.dek] \in Process
    BY <1>1, <2>1 DEF Process, Steps, Ready, Made
  <2>2. CASE keychain = Nothing
    BY <1>11, <2>2, Moves DEF Dek, Steps, Migrated
  <2>3. CASE keychain = Partial
    BY <1>11, <2>3, Moves, StartupAssumption DEF Dek, Steps
  <2>4. CASE keychain \notin {Nothing, Partial}
    <3>1. /\ \/ Fails(n)
             \/ process' = [process EXCEPT ![n] = [@ EXCEPT !.step = "token", !.dek = keychain.dek]]
          /\ UNCHANGED keychain
      BY <1>11, <2>4 DEF Dek
    <3> QED BY <1>11, <2>1, <2>4, <3>1, Moves DEF Dek, Steps
  <2> QED BY <2>2, <2>3, <2>4
<1>12. CASE Wrap(n)
  <2>1. [process[n] EXCEPT !.step = "token", !.dek = n] \in Process
    BY <1>1 DEF Process, Steps, Ready
  <2>2. process[n].master \in Starts /\ process[n].vaultId \in Starts
    <3>1. process[n].step = "wrap"
      BY <1>12 DEF Wrap, At
    <3>2. process[n].master # Nothing /\ process[n].vaultId # Nothing
      BY <3>1 DEF Identity, Came, Identified, Migrated
    <3> QED BY <1>1, <3>2 DEF Process, Made
  <2> QED BY <1>12, <2>1, <2>2 DEF Wrap
<1>13. CASE ReadToken(n)
  <2>1. [process[n] EXCEPT !.step = "open", !.token = tokenFile] \in Process
    BY <1>1 DEF Process, Steps, Ready
  <2>2. CASE tokenFile = Nothing
    BY <1>13, <2>2, Moves DEF ReadToken, Steps, Ready
  <2>3. CASE tokenFile = Partial
    BY <1>13, <2>3, Moves, StartupAssumption DEF ReadToken, Steps
  <2>4. CASE tokenFile \notin {Nothing, Partial}
    <3>1. /\ process' = [process EXCEPT ![n] = [@ EXCEPT !.step = "open", !.token = tokenFile]]
          /\ UNCHANGED tokenFile
      BY <1>13, <2>4 DEF ReadToken
    <3> QED BY <1>13, <2>1, <3>1 DEF ReadToken
  <2> QED BY <2>2, <2>3, <2>4
<1>14. CASE WriteToken(n)
  <2>1. [process[n] EXCEPT !.step = "open", !.token = n] \in Process
    BY <1>1 DEF Process, Steps, Ready
  <2> QED BY <1>1, <1>14, <2>1 DEF WriteToken
<1>15. CASE Kill(n)
  BY <1>15, Moves DEF Kill, Steps
<1> QED BY <1>2, <1>3, <1>4, <1>5, <1>6, <1>7, <1>8, <1>9, <1>10, <1>11, <1>12, <1>13, <1>14,
           <1>15 DEF StartStep

-----------------------------------------------------------------------------
(***************************************************************************)
(* What a step of a process leaves alone.                                  *)
(***************************************************************************)

Moved(n) == StartStep(n) \/ Kill(n) \/ \E kind \in {"serve", "init"} : Launch(n, kind)

LEMMA OnlyMoves ==
  ASSUME Types, NEW n \in Starts, Moved(n)
  PROVE  \A m \in Starts \ {n} : process'[m] = process[m]
<1> USE DEF Types, Becomes, Fails
<1>1. CASE \E kind \in {"serve", "init"} : Launch(n, kind)
  BY <1>1 DEF Launch
<1>2. CASE OpenDatabase(n) \/ RunUnit(n) \/ Book(n)
  BY <1>2 DEF OpenDatabase, RunUnit, Book
<1>3. CASE SelectVaultId(n) \/ InsertVaultId(n) \/ SelectEpoch(n) \/ InsertEpoch(n)
  BY <1>3 DEF SelectVaultId, InsertVaultId, SelectEpoch, InsertEpoch
<1>4. CASE CheckKeychain(n) \/ Bootstrap(n) \/ SetMaster(n) \/ GetSecret(n) \/ Wrap(n)
  BY <1>4 DEF CheckKeychain, Bootstrap, SetMaster, GetSecret, Wrap
<1>5. CASE Dek(n)
  BY <1>5 DEF Dek
<1>6. CASE ReadToken(n) \/ WriteToken(n)
  BY <1>6 DEF ReadToken, WriteToken
<1>7. CASE Kill(n)
  BY <1>7 DEF Kill
<1> QED BY <1>1, <1>2, <1>3, <1>4, <1>5, <1>6, <1>7 DEF Moved, StartStep

LEMMA OnlyGrows ==
  ASSUME Types, NEW n \in Starts, Moved(n)
  PROVE  /\ booked \subseteq booked' /\ schema \subseteq schema'
         /\ vaultId # Nothing => vaultId' = vaultId
         /\ keyring # Nothing => keyring' # Nothing
         /\ (rival => rival') /\ (broken => broken')
<1> USE DEF Types, StartTypeOK, Keep, files
<1>1. CASE \E kind \in {"serve", "init"} : Launch(n, kind)
  BY <1>1 DEF Launch
<1>2. CASE OpenDatabase(n) \/ RunUnit(n) \/ Book(n)
  BY <1>2 DEF OpenDatabase, RunUnit, Book
<1>3. CASE SelectVaultId(n) \/ InsertVaultId(n) \/ SelectEpoch(n) \/ InsertEpoch(n)
  BY <1>3 DEF SelectVaultId, InsertVaultId, SelectEpoch, InsertEpoch
<1>4. CASE CheckKeychain(n) \/ Bootstrap(n) \/ GetSecret(n) \/ Wrap(n)
  BY <1>4 DEF CheckKeychain, Bootstrap, GetSecret, Wrap
<1>5. CASE SetMaster(n)
  BY <1>5, StartupAssumption DEF SetMaster
<1>6. CASE Dek(n)
  BY <1>6 DEF Dek
<1>7. CASE ReadToken(n) \/ WriteToken(n)
  BY <1>7 DEF ReadToken, WriteToken
<1>8. CASE Kill(n)
  BY <1>8 DEF Kill
<1> QED BY <1>1, <1>2, <1>3, <1>4, <1>5, <1>6, <1>7, <1>8 DEF Moved, StartStep

-----------------------------------------------------------------------------
(***************************************************************************)
(* The schema.                                                             *)
(***************************************************************************)

LEMMA ScriptInit == StartInit => ScriptInv
BY DEF StartInit, NotStarted, ScriptInv, BookedRan, Script, Came, Migrated, Ready

LEMMA ScriptStep ==
  ASSUME Types, Types', ScriptInv, NEW n \in Starts, OnlyServe(process[n]), Moved(n)
  PROVE  ScriptInv'
<1> DEFINE p == process[n]
<1>1. booked \subseteq booked' /\ schema \subseteq schema' /\ booked' \subseteq Versions
  BY OnlyGrows DEF Types, StartTypeOK
<1>2. ASSUME NEW m \in Starts \ {n} PROVE Script(process[m])'
  <2>1. process'[m] = process[m] /\ Script(process[m])
    BY <1>2, OnlyMoves DEF ScriptInv
  <2> QED BY <1>1, <2>1 DEF Script, Came
<1>3. p \in Process /\ Script(p) /\ BookedRan /\ process \in [Starts -> Process]
  BY DEF Types, ScriptInv
<1>4. SUFFICES Script(process[n])' /\ BookedRan'
  BY <1>2, <1>4 DEF ScriptInv
<1> USE DEF Fails, Becomes, At, Keep, files
<1>5. CASE \E kind \in {"serve", "init"} : Launch(n, kind)
  <2>1. UNCHANGED <<booked, schema>>
    BY <1>5 DEF Launch, files
  <2>2. PICK kind \in {"serve", "init"} : Launch(n, kind)
    BY <1>5
  <2>3. /\ process'[n].applied = p.applied /\ process'[n].kind = kind
        /\ process'[n].step = IF kind = "serve" THEN "database" ELSE "token"
    BY <1>3, <2>2 DEF Launch, Process
  <2> QED BY <1>3, <2>1, <2>3 DEF Script, BookedRan, Came, Migrated, Ready
<1>6. CASE OpenDatabase(n)
  <2>1. UNCHANGED <<booked, schema>>
    BY <1>6 DEF OpenDatabase
  <2> DEFINE b == [p EXCEPT !.applied = booked]
  <2>2. b \in Process /\ b.applied = booked
    BY <1>1, <1>3, <2>1 DEF Process
  <2>3. process'[n] = GoTo(b, 0)
    BY <1>3, <1>6 DEF OpenDatabase
  <2>4. \A j \in Versions : j > 0
    BY StartupAssumption DEF Versions
  <2> HIDE DEF b
  <2>5. CASE process'[n].step = "vault_id" /\ \A j \in Versions : j > 0 => j \in booked
    <3>1. booked = Versions
      BY <1>1, <2>1, <2>4, <2>5
    <3> QED BY <1>3, <2>1, <2>2, <2>3, <2>5, <3>1, GoToNext DEF Script, BookedRan
  <2>6. CASE /\ process'[n].step = "script" /\ process'[n].at[1] \in Versions \ booked
             /\ process'[n].at[2] = 1
             /\ \A j \in Versions : 0 < j /\ j < process'[n].at[1] => j \in booked
    <3>1. \A i \in Units(process'[n].at[1]) : ~ (i < 1)
      BY <2>6, StartupAssumption DEF Units, Versions
    <3>2. process'[n].applied = booked
      BY <2>2, <2>3, GoToNext
    <3> QED BY <1>3, <2>1, <2>4, <2>6, <3>1, <3>2, ScriptsNumbered
            DEF Script, BookedRan, Came, Migrated, Ready
  <2> QED BY <2>2, <2>3, <2>5, <2>6, GoToNext
<1>7. CASE RunUnit(n)
  <2> DEFINE k == p.at[1]
             i == p.at[2]
  <2>1. booked' = booked /\ p.step = "script"
    BY <1>7 DEF RunUnit
  <2>2. CASE process' = [process EXCEPT ![n].step = "failed"]
    BY <1>1, <1>3, <2>1, <2>2 DEF Script, BookedRan, Came, Migrated, Ready, Process
  <2>3. CASE /\ schema' = schema \cup {<<k, i>>}
             /\ process' = [process EXCEPT ![n].at[2] = i + 1,
                                           ![n].step = IF i + 1 \in Units(k) THEN "script" ELSE "book"]
    <3>1. /\ process'[n].at = <<k, i + 1>> /\ process'[n].applied = p.applied
          /\ process'[n].step = IF i + 1 \in Units(k) THEN "script" ELSE "book"
      BY <1>3, <2>3, Component2 DEF Process
    <3>2. k \in Versions /\ i \in Units(k) /\ Units(k) \subseteq Nat
      BY <1>3, <2>1, ScriptsNumbered DEF Script
    <3>3. \A j \in Units(k) : j < i + 1 => <<k, j>> \in schema'
      BY <1>3, <2>1, <2>3, <3>2 DEF Script
    <3>4. i + 1 \notin Units(k) => \A j \in Units(k) : j < i + 1
      BY <3>2, ScriptsNumbered
    <3> HIDE DEF k, i
    <3> QED BY <1>1, <1>3, <2>1, <3>1, <3>2, <3>3, <3>4
            DEF Script, BookedRan, Came, Migrated, Ready, k
  <2> QED BY <1>7, <2>2, <2>3 DEF RunUnit
<1>8. CASE Book(n)
  <2> DEFINE k == p.at[1]
  <2>1. schema' = schema /\ p.step = "book"
    BY <1>8 DEF Book
  <2>2. /\ k \in Versions \ p.applied /\ k \in Nat /\ \A j \in Versions : j < k => j \in booked
        /\ \A i \in Units(k) : <<k, i>> \in schema
    BY <1>3, <2>1, ScriptsNumbered DEF Script
  <2>3. CASE process' = [process EXCEPT ![n].step = "failed"] /\ booked' = booked
    BY <1>1, <1>3, <2>1, <2>3 DEF Script, BookedRan, Came, Migrated, Ready, Process
  <2>4. CASE process' = [process EXCEPT ![n] = GoTo(@, k)] /\ booked' = booked \cup {k}
    <3>1. process'[n] = GoTo(p, k)
      BY <1>3, <2>4
    <3>2. BookedRan'
      BY <1>3, <2>1, <2>2, <2>4 DEF BookedRan
    <3>3. p.applied \subseteq booked
      BY <1>3 DEF Script
    <3> HIDE DEF p, k
    <3>4. CASE process'[n].step = "vault_id" /\ \A j \in Versions : j > k => j \in p.applied
      <4>1. booked' = Versions
        <5>1. ASSUME NEW j \in Versions PROVE j \in booked'
          <6>1. j \in Nat /\ (j < k \/ j = k \/ j > k)
            BY <2>2, ScriptsNumbered
          <6> QED BY <2>2, <2>4, <3>3, <3>4, <6>1
        <5> QED BY <1>1, <5>1
      <4>2. process'[n].applied = p.applied
        BY <1>3, <2>2, <3>1, GoToNext
      <4> QED BY <1>1, <3>2, <3>3, <3>4, <4>1, <4>2 DEF Script
    <3>5. CASE /\ process'[n].step = "script" /\ process'[n].at[1] \in Versions \ p.applied
               /\ process'[n].at[2] = 1
               /\ \A j \in Versions : k < j /\ j < process'[n].at[1] => j \in p.applied
      <4>1. \A i \in Units(process'[n].at[1]) : ~ (i < 1)
        BY <3>5, StartupAssumption DEF Units, Versions
      <4>2. process'[n].applied = p.applied
        BY <1>3, <2>2, <3>1, GoToNext
      <4>3. ASSUME NEW j \in Versions, j < process'[n].at[1] PROVE j \in booked'
        <5>1. booked' = booked \cup {k} /\ k \in Nat /\ j \in Nat
          BY <2>2, <2>4, ScriptsNumbered
        <5>2. CASE j < k
          BY <2>2, <5>1, <5>2
        <5>3. CASE k < j
          BY <3>3, <3>5, <4>3, <5>1, <5>3
        <5> QED BY <5>1, <5>2, <5>3
      <4> QED BY <1>1, <3>2, <3>3, <3>5, <4>1, <4>2, <4>3, ScriptsNumbered
              DEF Script, Came, Migrated, Ready
    <3> QED BY <1>3, <2>2, <3>1, <3>4, <3>5, GoToNext
  <2> QED BY <1>8, <2>3, <2>4 DEF Book
<1>9. ASSUME UNCHANGED <<booked, schema>>, p.step \in Migrated \cup Ready \/ process'[n].step = "killed",
             process'[n].step \in Migrated \cup Ready \cup {"failed", "killed"},
             process'[n].applied = p.applied, process'[n].kind = p.kind,
             process'[n].step \in Migrated => p.step \in Migrated
      PROVE  Script(process[n])' /\ BookedRan'
  BY <1>3, <1>9 DEF Script, BookedRan, Came, Migrated, Ready
<1>10. CASE SelectVaultId(n) \/ InsertVaultId(n) \/ SelectEpoch(n) \/ InsertEpoch(n)
  BY <1>3, <1>9, <1>10
     DEF SelectVaultId, InsertVaultId, SelectEpoch, InsertEpoch, Migrated, Process
<1>11. CASE CheckKeychain(n) \/ Bootstrap(n) \/ SetMaster(n) \/ GetSecret(n)
  BY <1>3, <1>9, <1>11 DEF CheckKeychain, Bootstrap, SetMaster, GetSecret, Migrated, Process
<1>12. CASE Wrap(n)
  BY <1>3, <1>9, <1>12 DEF Wrap, Migrated, Ready, Process
<1>13. CASE Dek(n)
  BY <1>3, <1>9, <1>13 DEF Dek, Migrated, Ready, Process
<1>14. CASE ReadToken(n) \/ WriteToken(n)
  BY <1>3, <1>9, <1>14 DEF ReadToken, WriteToken, Migrated, Ready, Process
<1>15. CASE Kill(n)
  <2>1. process'[n] = [p EXCEPT !.step = "killed"] /\ UNCHANGED <<booked, schema>>
    BY <1>3, <1>15 DEF Kill
  <2>2. /\ process'[n].step = "killed" /\ process'[n].applied = p.applied
        /\ process'[n].kind = p.kind
    BY <1>3, <2>1 DEF Process
  <2>3. "killed" \notin Migrated
    BY DEF Migrated
  <2> HIDE DEF p
  <2> QED BY <1>9, <2>1, <2>2, <2>3
<1> QED BY <1>5, <1>6, <1>7, <1>8, <1>10, <1>11, <1>12, <1>13, <1>14, <1>15 DEF Moved, StartStep

-----------------------------------------------------------------------------
(***************************************************************************)
(* The kind of a process, and the identity of the vault.                   *)
(***************************************************************************)

LEMMA ServeStep ==
  ASSUME Types, \A m \in Starts : OnlyServe(process[m]), NEW n \in Starts, Moved(n)
  PROVE  \A m \in Starts : OnlyServe(process'[m])
<1> DEFINE p == process[n]
<1>1. p \in Process /\ OnlyServe(p) /\ process \in [Starts -> Process]
  BY DEF Types
<1>2. SUFFICES OnlyServe(process'[n])
  BY <1>2, OnlyMoves
<1> USE DEF Fails, Becomes, At, OnlyServe, Migrated
<1>3. CASE \E kind \in {"serve", "init"} : Launch(n, kind)
  <2>1. PICK kind \in {"serve", "init"} : Launch(n, kind)
    BY <1>3
  <2>2. /\ process'[n].kind = kind
        /\ process'[n].step = IF kind = "serve" THEN "database" ELSE "token"
    BY <1>1, <2>1 DEF Launch, Process
  <2> QED BY <2>2
<1>4. CASE OpenDatabase(n)
  <2> DEFINE b == [p EXCEPT !.applied = booked]
  <2>1. b \in Process /\ b.kind = p.kind
    BY <1>1 DEF Process, Types, StartTypeOK
  <2>2. process'[n] = GoTo(b, 0) /\ p.step = "database"
    BY <1>1, <1>4 DEF OpenDatabase
  <2> HIDE DEF b, p
  <2>3. process'[n].kind = p.kind
    BY <2>1, <2>2, GoToNext
  <2> QED BY <1>1, <2>2, <2>3
<1>5. CASE RunUnit(n)
  <2>1. process'[n].kind = p.kind /\ p.step = "script"
    BY <1>1, <1>5 DEF RunUnit, Process
  <2> QED BY <1>1, <2>1
<1>6. CASE Book(n)
  <2>1. p.at[1] \in Nat /\ p.step = "book"
    BY <1>1, <1>6 DEF Process, Book
  <2>2. process'[n] = [p EXCEPT !.step = "failed"] \/ process'[n] = GoTo(p, p.at[1])
    BY <1>1, <1>6 DEF Book
  <2>3. process'[n].kind = p.kind
    BY <1>1, <2>1, <2>2, GoToNext DEF Process
  <2> QED BY <1>1, <2>1, <2>3
<1>7. CASE SelectVaultId(n) \/ InsertVaultId(n) \/ SelectEpoch(n) \/ InsertEpoch(n)
  BY <1>1, <1>7 DEF SelectVaultId, InsertVaultId, SelectEpoch, InsertEpoch, Process
<1>8. CASE CheckKeychain(n) \/ Bootstrap(n) \/ SetMaster(n) \/ GetSecret(n)
  BY <1>1, <1>8 DEF CheckKeychain, Bootstrap, SetMaster, GetSecret, Process
<1>9. CASE Wrap(n)
  BY <1>1, <1>9 DEF Wrap, Process
<1>10. CASE Dek(n)
  BY <1>1, <1>10 DEF Dek, Process
<1>11. CASE ReadToken(n) \/ WriteToken(n)
  BY <1>1, <1>11 DEF ReadToken, WriteToken, Process
<1>12. CASE Kill(n)
  BY <1>1, <1>12 DEF Kill, Process
<1> QED BY <1>3, <1>4, <1>5, <1>6, <1>7, <1>8, <1>9, <1>10, <1>11, <1>12 DEF Moved, StartStep

LEMMA IdentityInit == StartInit => IdentityInv
BY DEF StartInit, NotStarted, IdentityInv, KeysAfterId, Identity, Came, Identified, Migrated, Ready

LEMMA IdentityStep ==
  ASSUME Types, IdentityInv, NEW n \in Starts, OnlyServe(process[n]), Moved(n)
  PROVE  IdentityInv'
<1> DEFINE p == process[n]
<1>1. p \in Process /\ process \in [Starts -> Process] /\ Identity(p) /\ KeysAfterId
  BY DEF Types, IdentityInv
<1>2. ASSUME NEW m \in Starts \ {n} PROVE Identity(process[m])'
  <2>1. process'[m] = process[m] /\ Identity(process[m])
    BY <1>2, OnlyMoves DEF IdentityInv
  <2> QED BY <2>1, OnlyGrows DEF Identity, Came
<1>3. SUFFICES Identity(process[n])' /\ KeysAfterId'
  BY <1>2, <1>3 DEF IdentityInv
<1> USE DEF Fails, Becomes, At, Keep, files
\* Most steps leave these files and what the process knows of them.
<1>4. ASSUME UNCHANGED <<vaultId, keyring, keychain>>,
             process'[n].kind = p.kind, process'[n].vaultId = p.vaultId,
             process'[n].step \in {"secret", "dek", "wrap"} =>
               keyring # Nothing,
             process'[n].step \in {"dek", "wrap"} => process'[n].master # Nothing,
             Came(process'[n], Identified) => Came(p, Identified)
      PROVE  Identity(process[n])' /\ KeysAfterId'
  BY <1>1, <1>4 DEF Identity, KeysAfterId, Came
<1>5. CASE \E kind \in {"serve", "init"} : Launch(n, kind)
  <2>1. PICK kind \in {"serve", "init"} : Launch(n, kind)
    BY <1>5
  <2>2. /\ process'[n].kind = kind /\ UNCHANGED <<vaultId, keyring, keychain>>
        /\ process'[n].step = IF kind = "serve" THEN "database" ELSE "token"
    BY <1>1, <2>1 DEF Launch, Process
  <2> QED BY <1>1, <2>2 DEF Identity, KeysAfterId, Came, Identified, Migrated, Ready
<1>6. CASE OpenDatabase(n)
  <2> DEFINE b == [p EXCEPT !.applied = booked]
  <2>1. b \in Process
    BY <1>1 DEF Process, Types, StartTypeOK
  <2>2. process'[n] = GoTo(b, 0) /\ UNCHANGED <<vaultId, keyring, keychain>>
    BY <1>1, <1>6 DEF OpenDatabase
  <2> HIDE DEF b
  <2>3. process'[n].step \in {"vault_id", "script"}
    BY <2>1, <2>2, GoToNext
  <2> QED BY <1>1, <2>2, <2>3 DEF Identity, KeysAfterId, Came, Identified, Migrated, Ready
<1>7. CASE RunUnit(n)
  <2>1. /\ process'[n].step \in {"script", "book", "failed"}
        /\ UNCHANGED <<vaultId, keyring, keychain>>
    BY <1>1, <1>7 DEF RunUnit, Process
  <2> QED BY <1>1, <2>1 DEF Identity, KeysAfterId, Came, Identified, Migrated, Ready
<1>8. CASE Book(n)
  <2>1. p.at[1] \in Nat /\ UNCHANGED <<vaultId, keyring, keychain>>
    BY <1>1, <1>8 DEF Process, Book
  <2>2. process'[n] = [p EXCEPT !.step = "failed"] \/ process'[n] = GoTo(p, p.at[1])
    BY <1>1, <1>8 DEF Book
  <2>3. process'[n].step \in {"vault_id", "script", "failed"}
    BY <1>1, <2>1, <2>2, GoToNext DEF Process
  <2> QED BY <1>1, <2>1, <2>3 DEF Identity, KeysAfterId, Came, Identified, Migrated, Ready
<1>9. CASE SelectVaultId(n)
  <2>1. /\ process'[n].step = IF vaultId = Nothing THEN "new_id" ELSE "epoch"
        /\ process'[n].vaultId = vaultId /\ UNCHANGED <<vaultId, keyring, keychain>>
    BY <1>1, <1>9 DEF SelectVaultId, Process
  <2> QED BY <1>1, <2>1 DEF Identity, KeysAfterId, Came, Identified, Migrated, Ready
<1>10. CASE InsertVaultId(n)
  <2>1. n # Nothing
    BY StartupAssumption
  <2>2. CASE vaultId # Nothing
    BY <1>1, <1>10, <2>2
       DEF InsertVaultId, Identity, KeysAfterId, Came, Identified, Migrated, Ready, Process
  <2>3. CASE /\ vaultId' = n /\ UNCHANGED <<keyring, keychain>>
             /\ process'[n].step = "epoch" /\ process'[n].vaultId = n
    BY <1>1, <2>1, <2>3 DEF Identity, KeysAfterId, Came, Identified, Migrated, Ready
  <2> QED BY <1>1, <1>10, <2>2, <2>3 DEF InsertVaultId, Process
<1>11. CASE SelectEpoch(n) \/ InsertEpoch(n)
  BY <1>1, <1>4, <1>11
     DEF SelectEpoch, InsertEpoch, Came, Identified, Migrated, Ready, Process
<1>12. CASE CheckKeychain(n) \/ Bootstrap(n)
  BY <1>1, <1>4, <1>12
     DEF CheckKeychain, Bootstrap, KeysAfterId, Came, Identified, Migrated, Ready, Process
<1>13. CASE SetMaster(n)
  <2>1. /\ n # Nothing /\ keyring' = n /\ UNCHANGED <<vaultId, keychain>>
        /\ process'[n] = [p EXCEPT !.step = "secret"] /\ p.step = "set_master"
    BY <1>1, <1>13, StartupAssumption DEF SetMaster
  <2> QED BY <1>1, <2>1
          DEF Identity, KeysAfterId, Came, Identified, Migrated, Ready, Process
<1>14. CASE GetSecret(n)
  BY <1>1, <1>4, <1>14 DEF GetSecret, Came, Identified, Migrated, Ready, Process
<1>15. CASE Dek(n)
  <2>1. p.step = "dek" /\ p.kind = "serve" /\ UNCHANGED <<vaultId, keyring>>
    BY <1>15 DEF Dek, OnlyServe, Migrated
  <2>2. vaultId # Nothing /\ keyring # Nothing /\ p.vaultId = vaultId /\ p.master # Nothing
    BY <1>1, <2>1 DEF Identity, Came, Identified, Migrated
  <2>3. /\ process'[n].step \in {"wrap", "token", "failed"}
        /\ process'[n].vaultId = p.vaultId /\ process'[n].master = p.master
    BY <1>1, <1>15 DEF Dek, Process
  <2> QED BY <2>1, <2>2, <2>3 DEF Identity, KeysAfterId
<1>16. CASE Wrap(n)
  <2>1. p.step = "wrap" /\ p.kind = "serve" /\ UNCHANGED <<vaultId, keyring>>
    BY <1>16 DEF Wrap, OnlyServe, Migrated
  <2>2. vaultId # Nothing /\ keyring # Nothing /\ p.vaultId = vaultId
    BY <1>1, <2>1 DEF Identity, Came, Identified, Migrated
  <2>3. process'[n].step = "token" /\ process'[n].vaultId = p.vaultId
    BY <1>1, <1>16 DEF Wrap, Process
  <2> QED BY <2>1, <2>2, <2>3 DEF Identity, KeysAfterId
<1>17. CASE ReadToken(n) \/ WriteToken(n)
  <2>1. /\ p.step \in Ready /\ UNCHANGED <<vaultId, keyring, keychain>>
        /\ process'[n].step \in {"write_token", "open", "failed"}
        /\ process'[n].kind = p.kind /\ process'[n].vaultId = p.vaultId
    BY <1>1, <1>17 DEF ReadToken, WriteToken, Ready, Process
  <2> QED BY <1>4, <2>1 DEF Came, Identified, Migrated, Ready
<1>18. CASE Kill(n)
  <2>1. process'[n].step = "killed" /\ UNCHANGED <<vaultId, keyring, keychain>>
    BY <1>1, <1>18 DEF Kill, Process
  <2> QED BY <1>1, <2>1 DEF Identity, KeysAfterId, Came, Identified, Migrated, Ready
<1> QED BY <1>5, <1>6, <1>7, <1>8, <1>9, <1>10, <1>11, <1>12, <1>13, <1>14, <1>15, <1>16, <1>17,
           <1>18 DEF Moved, StartStep

-----------------------------------------------------------------------------
(***************************************************************************)
(* Processes that start one after the other.                               *)
(***************************************************************************)

LEMMA AloneInit == StartInit => AloneInv
<1>1. ASSUME StartInit PROVE Starting = {} /\ \A n \in Starts : Alone(process[n])
  BY <1>1 DEF StartInit, NotStarted, Starting, Ended, Alone, Ready
<1>2. ASSUME StartInit PROVE KeychainWhole /\ TornByOne /\ RunByOne
  BY <1>2, StartupAssumption DEF StartInit, KeychainWhole, TornByOne, RunByOne
<1> QED BY <1>1, <1>2 DEF AloneInv, FilesAlone, OneStarts

\* The files that those rely on who are up.
Settled(m) ==
  process[m].step = "open" =>
    /\ tokenFile' = tokenFile
    /\ process[m].kind = "serve" => UNCHANGED <<keychain, keyring, vaultId>>

\* A step of the one that starts: the others have ended.
LEMMA AloneFrom ==
  ASSUME Types, FilesAlone, \A m \in Starts : Alone(process[m]),
         NEW n \in Starting, \A m \in Starts \ {n} : process'[m] = process[m],
         broken => broken', \A m \in Starts \ {n} : Settled(m),
         Alone(process[n])', KeychainWhole', TornByOne', RunByOne'
  PROVE  FilesAlone' /\ \A m \in Starts : Alone(process[m])'
<1>1. \A m \in Starts \ {n} : process[m].step \in Ended
  BY DEF FilesAlone, OneStarts, Starting
<1>2. OneStarts'
  BY <1>1 DEF OneStarts, Starting
<1>3. ASSUME NEW m \in Starts \ {n} PROVE Alone(process[m])'
  <2>1. process[m].step \in Ended /\ process'[m] = process[m] /\ Settled(m) /\ Alone(process[m])
    BY <1>1
  <2> QED BY <2>1 DEF Settled, Alone, Ended, Ready
<1> QED BY <1>2, <1>3 DEF FilesAlone

\* The schema while one process starts.
LEMMA AloneScript ==
  ASSUME Types, Types', ScriptInv, FilesAlone, \A m \in Starts : Alone(process[m]),
         NEW n \in Starting, OpenDatabase(n) \/ RunUnit(n) \/ Book(n)
  PROVE  Alone(process[n])' /\ RunByOne'
<1> DEFINE p == process[n]
           k == p.at[1]
           i == p.at[2]
<1>1. /\ n \in Starts /\ p \in Process /\ Script(p) /\ Alone(p)
      /\ process \in [Starts -> Process] /\ booked \subseteq Versions
  BY DEF Types, StartTypeOK, ScriptInv, Starting
<1>2. ASSUME NEW j \in Versions \ booked, NEW u \in Units(j), <<j, u>> \in schema,
             Migrations[j][u] = "once"
      PROVE  broken \/ HalfRun(p, j, u)
  <2>1. \A m \in Starts : HalfRun(process[m], j, u) => m = n
    BY DEF FilesAlone, OneStarts, Starting, HalfRun, Ended
  <2> QED BY <1>2, <2>1 DEF FilesAlone, RunByOne
<1> USE DEF Fails, Becomes, At, Keep, files
<1>3. broken' = broken
  BY DEF OpenDatabase, RunUnit, Book
<1>4. p.step \in {"script", "book"} => k \in Versions \ booked /\ k \in Nat
  <2>1. Versions \subseteq Nat
    BY ScriptsNumbered
  <2> QED BY <1>1, <2>1 DEF Script, Alone
<1>5. CASE OpenDatabase(n)
  <2> DEFINE b == [p EXCEPT !.applied = booked]
  <2>1. b \in Process /\ b.applied = booked
    BY <1>1 DEF Process
  <2>2. process'[n] = GoTo(b, 0) /\ UNCHANGED <<schema, booked>> /\ p.step = "database"
    BY <1>1, <1>5 DEF OpenDatabase
  <2> HIDE DEF b
  <2>3. process'[n].step \in {"vault_id", "script"} /\ process'[n].applied = booked
    BY <2>1, <2>2, GoToNext
  <2>4. Alone(process[n])'
    BY <2>2, <2>3 DEF Alone, Ready
  <2>5. RunByOne'
    BY <1>2, <1>3, <2>2 DEF RunByOne, HalfRun
  <2> QED BY <2>4, <2>5
<1>6. CASE RunUnit(n)
  <2>1. p.step = "script" /\ booked' = booked
    BY <1>6 DEF RunUnit
  <2>2. k \in Versions \ booked /\ i \in Units(k) /\ i \in Nat
    BY <1>1, <1>4, <2>1, ScriptsNumbered DEF Script
  <2>3. CASE Migrations[k][i] = "once" /\ <<k, i>> \in schema
    <3>1. broken
      BY <1>2, <2>2, <2>3 DEF HalfRun
    <3>2. process'[n].step = "failed"
      BY <1>1, <1>6, <2>3 DEF RunUnit, Process
    <3> QED BY <1>3, <3>1, <3>2 DEF Alone, Ready, RunByOne
  <2>4. CASE ~ (Migrations[k][i] = "once" /\ <<k, i>> \in schema)
    <3>1. schema' = schema \cup {<<k, i>>}
      BY <1>6, <2>4 DEF RunUnit
    <3>2. /\ process'[n].at = <<k, i + 1>> /\ process'[n].step \in {"script", "book"}
          /\ process'[n].applied = p.applied
      BY <1>1, <1>6, <2>4, Component2 DEF RunUnit, Process
    <3>3. Alone(process[n])'
      BY <1>1, <2>1, <3>2 DEF Alone, Ready
    <3>4. ASSUME NEW j \in Versions \ booked, NEW u \in Units(j), <<j, u>> \in schema',
                 Migrations[j][u] = "once"
          PROVE  broken' \/ HalfRun(process[n], j, u)'
      <4>1. u \in Nat
        BY ScriptsNumbered
      <4>2. CASE <<j, u>> = <<k, i>>
        BY <2>2, <3>2, <4>2 DEF HalfRun
      <4>3. CASE <<j, u>> \in schema
        BY <1>2, <1>3, <2>2, <3>2, <3>4, <4>1, <4>3 DEF HalfRun
      <4> QED BY <3>1, <3>4, <4>2, <4>3
    <3>5. RunByOne'
      BY <1>1, <2>1, <3>4 DEF RunByOne
    <3> QED BY <3>3, <3>5
  <2> QED BY <2>3, <2>4
<1>7. CASE Book(n)
  <2>1. p.step = "book" /\ schema' = schema /\ k \in Versions \ booked /\ k \in Nat
    BY <1>4, <1>7 DEF Book
  <2>2. process'[n] = GoTo(p, k) /\ booked' = booked \cup {k}
    BY <1>1, <1>7, <2>1 DEF Book
  <2>3. RunByOne'
    BY <1>2, <1>3, <2>1, <2>2 DEF RunByOne, HalfRun
  <2>4. \A j \in booked' : j \in p.applied \/ j < k \/ j = k
    BY <1>1, <2>1, <2>2 DEF Alone
  <2>5. booked' \subseteq Nat
    BY <1>1, <2>1, <2>2, ScriptsNumbered
  <2> HIDE DEF p, k
  <2>6. /\ process'[n].step \in {"vault_id", "script"} /\ process'[n].applied = p.applied
        /\ process'[n].step = "script" => process'[n].at[1] \in Nat /\ process'[n].at[1] > k
    <3>1. /\ process'[n].step \in {"vault_id", "script"} /\ process'[n].applied = p.applied
          /\ process'[n].step = "script" =>
               process'[n].at[1] \in Versions /\ process'[n].at[1] > k
      BY <1>1, <2>1, <2>2, GoToNext
    <3> QED BY <3>1, ScriptsNumbered
  <2>7. \A j \in booked' : process'[n].step = "script" =>
           j \in process'[n].applied \/ j < process'[n].at[1]
    BY <2>1, <2>4, <2>5, <2>6
  <2>8. Alone(process[n])'
    BY <2>6, <2>7 DEF Alone, Ready
  <2> QED BY <2>3, <2>8
<1> QED BY <1>5, <1>6, <1>7

\* The identity of the vault and its keys while one process starts.
LEMMA AloneKeys ==
  ASSUME Types, Types', IdentityInv, FilesAlone, \A m \in Starts : Alone(process[m]),
         NEW n \in Starting, OnlyServe(process[n]),
         \/ SelectVaultId(n) \/ InsertVaultId(n) \/ SelectEpoch(n) \/ InsertEpoch(n)
         \/ CheckKeychain(n) \/ Bootstrap(n) \/ SetMaster(n) \/ GetSecret(n)
         \/ Dek(n) \/ Wrap(n)
  PROVE  /\ Alone(process[n])' /\ KeychainWhole' /\ TornByOne'
         /\ \A m \in Starts \ {n} : Settled(m)
<1> DEFINE p == process[n]
<1>1. /\ n \in Starts /\ p \in Process /\ Alone(p) /\ Identity(p)
      /\ process \in [Starts -> Process]
  BY DEF Types, IdentityInv, Starting
<1>2. KeysAfterId /\ KeychainWhole
  BY DEF IdentityInv, FilesAlone
<1>3. \A m \in Starts : At(m, "wrap") \/ At(m, "write_token") => m = n
  BY DEF FilesAlone, OneStarts, Starting, Ended, At
<1>4. \A m \in Starts \ {n} : process[m].step = "open" /\ process[m].kind = "serve" =>
        vaultId # Nothing /\ keychain \notin {Nothing, Partial}
  BY DEF IdentityInv, Identity, Came, Ready, Alone
<1> USE DEF Fails, Becomes, At, Keep, files
<1>5. UNCHANGED <<tokenFile, broken>>
  BY DEF SelectVaultId, InsertVaultId, SelectEpoch, InsertEpoch, CheckKeychain, Bootstrap,
         SetMaster, GetSecret, Dek, Wrap
<1>6. p.step \in Migrated /\ p.kind = "serve"
  BY DEF SelectVaultId, InsertVaultId, SelectEpoch, InsertEpoch, CheckKeychain, Bootstrap,
         SetMaster, GetSecret, Dek, Wrap, Migrated, OnlyServe
<1>7. /\ tokenFile' = Partial => broken'
      /\ keychain = Partial /\ p.step # "wrap" => broken
  BY <1>3, <1>5, <1>6 DEF FilesAlone, TornByOne, Migrated
\* Steps that only read, or write what nobody has read.
<1>8. ASSUME keychain' = keychain, UNCHANGED keyring \/ keychain = Nothing,
             UNCHANGED vaultId \/ vaultId = Nothing, p.step # "wrap"
      PROVE  KeychainWhole' /\ TornByOne' /\ \A m \in Starts \ {n} : Settled(m)
  <2>1. KeychainWhole'
    BY <1>2, <1>8 DEF KeychainWhole, KeysAfterId
  <2>2. TornByOne'
    BY <1>5, <1>7, <1>8 DEF TornByOne
  <2>3. \A m \in Starts \ {n} : Settled(m)
    BY <1>4, <1>5, <1>8 DEF Settled
  <2> QED BY <2>1, <2>2, <2>3
<1>9. CASE SelectVaultId(n)
  BY <1>1, <1>8, <1>9 DEF SelectVaultId, Alone, Ready, Process
<1>10. CASE InsertVaultId(n)
  <2>1. vaultId = Nothing /\ p.step = "new_id"
    BY <1>1, <1>10 DEF InsertVaultId, Alone
  <2>2. process'[n].step = "epoch" /\ UNCHANGED <<keychain, keyring>>
    BY <1>1, <1>10, <2>1 DEF InsertVaultId, Process
  <2> QED BY <1>8, <2>1, <2>2 DEF Alone, Ready
<1>11. CASE SelectEpoch(n)
  BY <1>1, <1>8, <1>11 DEF SelectEpoch, Alone, Ready, Process
<1>12. CASE InsertEpoch(n)
  <2>1. keyEpoch = Nothing /\ p.step = "new_epoch"
    BY <1>1, <1>12 DEF InsertEpoch, Alone
  <2>2. process'[n].step = "keychain" /\ UNCHANGED <<keychain, keyring, vaultId>>
    BY <1>1, <1>12, <2>1 DEF InsertEpoch, Process
  <2> QED BY <1>8, <2>1, <2>2 DEF Alone, Ready
<1>13. CASE CheckKeychain(n)
  BY <1>1, <1>8, <1>13 DEF CheckKeychain, Alone, Ready, Process
<1>14. CASE Bootstrap(n)
  BY <1>1, <1>8, <1>14 DEF Bootstrap, Alone, Ready, Process
<1>15. CASE SetMaster(n)
  BY <1>1, <1>8, <1>15 DEF SetMaster, Alone, Ready, Process
<1>16. CASE GetSecret(n)
  <2>1. p.step = "secret" /\ keyring # Nothing
    BY <1>1, <1>16 DEF GetSecret, Identity
  <2>2. /\ process'[n].step = "dek" /\ process'[n].master = keyring
        /\ UNCHANGED <<keychain, keyring, vaultId>>
    BY <1>1, <1>16, <2>1 DEF GetSecret, Process
  <2> QED BY <1>8, <2>1, <2>2 DEF Alone, Ready
<1>17. CASE Dek(n)
  <2>1. /\ p.step = "dek" /\ UNCHANGED <<keyring, vaultId>>
        /\ p.master = keyring /\ p.vaultId = vaultId
    BY <1>1, <1>17 DEF Dek, Alone, Identity, Came, Identified, Migrated
  <2>2. CASE keychain = Nothing
    <3>1. /\ process'[n].step = "wrap" /\ process'[n].master = p.master
          /\ keychain' = Partial
      BY <1>1, <1>17, <2>2, StartupAssumption DEF Dek, Process
    <3>2. Alone(process[n])'
      BY <2>1, <3>1 DEF Alone, Ready
    <3>3. KeychainWhole' /\ TornByOne'
      BY <1>1, <1>7, <3>1 DEF KeychainWhole, TornByOne
    <3> QED BY <1>4, <1>5, <2>2, <3>2, <3>3 DEF Settled
  <2>3. CASE keychain = Partial
    <3>1. process'[n].step = "failed" /\ keychain' = keychain
      BY <1>1, <1>17, <2>3, StartupAssumption DEF Dek, Process
    <3>2. broken'
      BY <1>5, <1>7, <2>1, <2>3
    <3> QED BY <1>8, <2>1, <3>1, <3>2 DEF Alone, Ready
  <2>4. CASE keychain \notin {Nothing, Partial}
    <3>1. keychain.master = p.master /\ keychain.vaultId = p.vaultId
      BY <1>2, <2>1, <2>4 DEF KeychainWhole
    <3>2. /\ process'[n].step = "token" /\ process'[n].dek = keychain.dek
          /\ keychain' = keychain
      BY <1>1, <1>17, <2>4, <3>1 DEF Dek, Process
    <3>3. keychain = [master |-> keyring, vaultId |-> vaultId, dek |-> keychain.dek]
      BY <2>1, <2>4, <3>1 DEF Types, StartTypeOK
    <3>4. Alone(process[n])'
      BY <2>1, <2>4, <3>2, <3>3 DEF Alone, Ready
    <3> QED BY <1>8, <2>1, <3>2, <3>4
  <2> QED BY <2>2, <2>3, <2>4
<1>18. CASE Wrap(n)
  <2>1. /\ p.step = "wrap" /\ UNCHANGED <<keyring, vaultId>> /\ keychain = Partial
        /\ p.master = keyring /\ p.vaultId = vaultId
    BY <1>1, <1>18 DEF Wrap, Alone, Identity, Came, Identified, Migrated
  <2>2. /\ process'[n].step = "token" /\ process'[n].dek = n
        /\ keychain' = [master |-> keyring, vaultId |-> vaultId, dek |-> n]
    BY <1>1, <1>18, <2>1 DEF Wrap, Process
  <2>3. keychain' \notin {Nothing, Partial}
    <3>1. p.master \in Starts /\ p.vaultId \in Starts
      <4>1. p.master # Nothing /\ p.vaultId # Nothing
        BY <1>1, <2>1 DEF Identity, Came, Identified, Migrated
      <4> QED BY <1>1, <4>1 DEF Process, Made
    <3> QED BY <1>1, <2>1, <2>2, <3>1, StartupAssumption
  <2>4. Alone(process[n])'
    BY <2>1, <2>2, <2>3 DEF Alone, Ready
  <2>5. KeychainWhole' /\ TornByOne'
    BY <1>7, <2>1, <2>2, <2>3 DEF KeychainWhole, TornByOne
  <2> QED BY <1>4, <1>5, <2>1, <2>4, <2>5 DEF Settled
<1> QED BY <1>9, <1>10, <1>11, <1>12, <1>13, <1>14, <1>15, <1>16, <1>17, <1>18

\* The token while one process starts.
LEMMA AloneToken ==
  ASSUME Types, Types', FilesAlone, \A m \in Starts : Alone(process[m]),
         NEW n \in Starting, ReadToken(n) \/ WriteToken(n)
  PROVE  /\ Alone(process[n])' /\ KeychainWhole' /\ TornByOne'
         /\ \A m \in Starts \ {n} : Settled(m)
<1> DEFINE p == process[n]
<1>1. n \in Starts /\ p \in Process /\ Alone(p) /\ process \in [Starts -> Process]
  BY DEF Types, Starting
<1>2. \A m \in Starts : At(m, "wrap") \/ At(m, "write_token") => m = n
  BY DEF FilesAlone, OneStarts, Starting, Ended, At
<1>3. \A m \in Starts \ {n} : process[m].step = "open" => tokenFile \notin {Nothing, Partial}
  BY DEF Alone
<1> USE DEF Fails, Becomes, At, Keep, files
<1>4. UNCHANGED <<keychain, keyring, vaultId, broken>> /\ p.step \in {"token", "write_token"}
  BY DEF ReadToken, WriteToken
<1>5. KeychainWhole' /\ (keychain' = Partial => broken')
  BY <1>2, <1>4 DEF FilesAlone, KeychainWhole, TornByOne
<1>6. tokenFile = Partial /\ p.step # "write_token" => broken
  BY <1>2 DEF FilesAlone, TornByOne
<1>7. CASE ReadToken(n) /\ tokenFile = Nothing
  <2>1. /\ process'[n].step = "write_token" /\ process'[n].kind = p.kind
        /\ process'[n].dek = p.dek /\ tokenFile' = Partial
    BY <1>1, <1>7, StartupAssumption DEF ReadToken, Process
  <2>2. Alone(process[n])'
    BY <1>1, <1>4, <2>1 DEF Alone, Ready
  <2> QED BY <1>1, <1>3, <1>4, <1>5, <1>7, <2>1, <2>2 DEF TornByOne, Settled
<1>8. CASE ReadToken(n) /\ tokenFile = Partial
  <2>1. process'[n].step = "failed" /\ tokenFile' = tokenFile /\ p.step = "token"
    BY <1>1, <1>8, StartupAssumption DEF ReadToken, Process
  <2>2. Alone(process[n])'
    BY <1>4, <1>6, <1>8, <2>1 DEF Alone, Ready
  <2> QED BY <1>4, <1>5, <1>6, <1>8, <2>1, <2>2 DEF TornByOne, Settled
<1>9. CASE ReadToken(n) /\ tokenFile \notin {Nothing, Partial}
  <2>1. /\ process'[n].step = "open" /\ process'[n].kind = p.kind /\ process'[n].dek = p.dek
        /\ process'[n].token = tokenFile /\ tokenFile' = tokenFile
    BY <1>1, <1>9 DEF ReadToken, Process
  <2>2. Alone(process[n])'
    BY <1>1, <1>4, <1>9, <2>1 DEF Alone, Ready
  <2> QED BY <1>4, <1>5, <1>9, <2>1, <2>2 DEF TornByOne, Settled
<1>10. CASE WriteToken(n)
  <2>1. /\ process'[n].step = "open" /\ process'[n].kind = p.kind /\ process'[n].dek = p.dek
        /\ process'[n].token = n /\ tokenFile' = n
    BY <1>1, <1>10 DEF WriteToken, Process
  <2>2. tokenFile = Partial /\ n \notin {Nothing, Partial}
    BY <1>1, <1>10, StartupAssumption DEF WriteToken, Alone
  <2>3. Alone(process[n])'
    BY <1>1, <1>4, <2>1, <2>2 DEF Alone, Ready
  <2> QED BY <1>3, <1>4, <1>5, <2>1, <2>2, <2>3 DEF TornByOne, Settled
<1> QED BY <1>7, <1>8, <1>9, <1>10

LEMMA AloneStep ==
  ASSUME Types, Types', ScriptInv, IdentityInv, AloneInv, NEW n \in Starts,
         OnlyServe(process[n]), Moved(n)
  PROVE  AloneInv'
<1> DEFINE p == process[n]
<1>1. p \in Process /\ process \in [Starts -> Process] /\ \A m \in Starts \ {n} : process'[m] = process[m]
  BY OnlyMoves DEF Types
<1>2. SUFFICES ASSUME ~rival' PROVE FilesAlone' /\ \A m \in Starts : Alone(process[m])'
  BY <1>2 DEF AloneInv
<1>3. FilesAlone /\ (\A m \in Starts : Alone(process[m])) /\ (broken => broken')
  BY <1>2, OnlyGrows DEF AloneInv
<1> USE DEF Fails, Becomes, At, Keep, files
<1>4. CASE \E kind \in {"serve", "init"} : Launch(n, kind)
  <2>1. PICK kind \in {"serve", "init"} : Launch(n, kind)
    BY <1>4
  <2>2. /\ Starting = {} /\ UNCHANGED <<files, broken>> /\ p.step = "none"
        /\ process'[n].step \in {"database", "token"}
        /\ process'[n].step = "token" => process'[n].kind = "init"
    BY <1>1, <1>2, <2>1 DEF Launch, Process
  <2>3. OneStarts'
    BY <1>1, <2>2 DEF OneStarts, Starting, Ended
  <2>4. \A m \in Starts : process[m].step \in Ended
    BY <2>2 DEF Starting
  <2>5. KeychainWhole' /\ TornByOne'
    BY <1>3, <2>2, <2>4 DEF FilesAlone, KeychainWhole, TornByOne, Ended
  <2>6. RunByOne'
    BY <1>3, <2>2, <2>4 DEF FilesAlone, RunByOne, HalfRun, Ended
  <2>7. Alone(process[n])'
    BY <2>2 DEF Alone, Ready
  <2>8. ASSUME NEW m \in Starts \ {n} PROVE Alone(process[m])'
    <3>1. process'[m] = process[m] /\ Alone(process[m])
      BY <1>1, <1>3
    <3> QED BY <2>2, <3>1 DEF Alone
  <2> QED BY <2>3, <2>5, <2>6, <2>7, <2>8 DEF FilesAlone
\* Every other step is one of a process that starts.
<1>5. ASSUME n \in Starting, \A m \in Starts \ {n} : Settled(m),
             Alone(process[n])', KeychainWhole', TornByOne', RunByOne'
      PROVE  FilesAlone' /\ \A m \in Starts : Alone(process[m])'
  BY <1>1, <1>3, <1>5, AloneFrom
<1>6. CASE OpenDatabase(n) \/ RunUnit(n) \/ Book(n)
  <2>1. n \in Starting /\ p.step \notin {"wrap", "write_token"}
    BY <1>6 DEF OpenDatabase, RunUnit, Book, Starting, Ended
  <2>2. UNCHANGED <<vaultId, keyring, keychain, tokenFile>>
    BY <1>6 DEF OpenDatabase, RunUnit, Book
  <2>3. Alone(process[n])' /\ RunByOne'
    BY <1>3, <1>6, <2>1, AloneScript
  <2>4. KeychainWhole' /\ TornByOne' /\ \A m \in Starts \ {n} : Settled(m)
    <3>1. \A m \in Starts : At(m, "wrap") \/ At(m, "write_token") => m \in Starts \ {n}
      BY <2>1
    <3> QED BY <1>1, <1>3, <2>2, <3>1 DEF FilesAlone, KeychainWhole, TornByOne, Settled
  <2> QED BY <1>5, <2>1, <2>3, <2>4
\* The rest leaves the schema alone.
<1>7. ASSUME n \in Starting, UNCHANGED <<schema, booked>>, p.step \notin {"script", "book"}
      PROVE  RunByOne'
  <2>1. \A m \in Starts : process[m].step \in {"script", "book"} => m = n
    BY <1>3, <1>7 DEF FilesAlone, OneStarts, Starting, Ended
  <2> QED BY <1>3, <1>7, <2>1 DEF FilesAlone, RunByOne, HalfRun
<1>8. CASE \/ SelectVaultId(n) \/ InsertVaultId(n) \/ SelectEpoch(n) \/ InsertEpoch(n)
           \/ CheckKeychain(n) \/ Bootstrap(n) \/ SetMaster(n) \/ GetSecret(n)
           \/ Dek(n) \/ Wrap(n)
  <2>1. p.step \in Migrated /\ UNCHANGED <<schema, booked>>
    BY <1>8 DEF SelectVaultId, InsertVaultId, SelectEpoch, InsertEpoch, CheckKeychain, Bootstrap,
                SetMaster, GetSecret, Dek, Wrap, Migrated
  <2>2. n \in Starting /\ p.step \notin {"script", "book"}
    BY <2>1 DEF Starting, Ended, Migrated
  <2> QED BY <1>3, <1>5, <1>7, <1>8, <2>1, <2>2, AloneKeys
<1>9. CASE ReadToken(n) \/ WriteToken(n)
  <2>1. /\ n \in Starting /\ p.step \notin {"script", "book"} /\ UNCHANGED <<schema, booked>>
    BY <1>9 DEF ReadToken, WriteToken, Starting, Ended
  <2> QED BY <1>3, <1>5, <1>7, <1>9, <2>1, AloneToken
<1>10. CASE Kill(n)
  <2>1. /\ n \in Starting /\ process'[n].step = "killed" /\ UNCHANGED files
        /\ broken' = (broken \/ Unrepaired(p))
    BY <1>1, <1>10 DEF Kill, Process
  <2>2. \A m \in Starts : process[m].step \notin Ended => m = n
    BY <1>3, <2>1 DEF FilesAlone, OneStarts, Starting
  <2>3. Alone(process[n])' /\ KeychainWhole' /\ \A m \in Starts \ {n} : Settled(m)
    BY <1>3, <2>1 DEF Alone, Ready, FilesAlone, KeychainWhole, Settled
  <2>4. TornByOne'
    BY <1>3, <2>1, <2>2 DEF FilesAlone, TornByOne, Unrepaired, Ended
  <2>5. ASSUME NEW k \in Versions, NEW i \in Units(k), Migrations[k][i] = "once", HalfRun(p, k, i)
        PROVE  broken'
    <3>1. p.at[2] \in Nat
      BY <1>1 DEF Process
    <3>2. i \in Nat /\ i >= 1
      BY StartupAssumption DEF Units, Versions
    <3>3. i \in 1..(p.at[2] - 1)
      BY <2>5, <3>1, <3>2 DEF HalfRun
    <3> QED BY <2>1, <2>5, <3>3 DEF HalfRun, Unrepaired
  <2>6. RunByOne'
    <3>1. \A m \in Starts : process[m].step \in {"script", "book"} => m = n
      BY <2>2 DEF Ended
    <3> QED BY <1>3, <2>1, <2>5, <3>1 DEF FilesAlone, RunByOne, HalfRun
  <2> QED BY <1>5, <2>1, <2>3, <2>4, <2>6
<1> QED BY <1>4, <1>6, <1>8, <1>9, <1>10 DEF Moved, StartStep

-----------------------------------------------------------------------------
(***************************************************************************)
(* The theorems.                                                           *)
(***************************************************************************)

LEMMA StartInvInit == Init => StartInv
<1>1. ASSUME StartInit PROVE \A n \in Starts : OnlyServe(process[n])
  BY <1>1 DEF StartInit, NotStarted, OnlyServe, Migrated
<1> QED BY <1>1, TypesInit, ScriptInit, IdentityInit, AloneInit DEF Init, StartInv

LEMMA StartInvStep == StartInv /\ [Next]_vars => StartInv'
<1>1. ASSUME StartInv, UNCHANGED startVars PROVE StartInv'
  BY <1>1 DEF startVars, files, StartInv, Types, StartTypeOK, OnlyServe, ScriptInv, BookedRan,
              Script, Came, IdentityInv, KeysAfterId, Identity, AloneInv, FilesAlone, OneStarts,
              KeychainWhole, TornByOne, RunByOne, HalfRun, Alone, Starting, At
<1>2. ASSUME StartInv, NEW n \in Starts, Moved(n) PROVE StartInv'
  <2>1. Types'
    BY <1>2, TypesStep DEF StartInv, ScriptInv, IdentityInv, Moved
  <2>2. \A m \in Starts : OnlyServe(process'[m])
    BY <1>2, ServeStep DEF StartInv
  <2>3. ScriptInv' /\ IdentityInv' /\ AloneInv'
    BY <1>2, <2>1, ScriptStep, IdentityStep, AloneStep DEF StartInv
  <2> QED BY <2>1, <2>2, <2>3 DEF StartInv
<1> QED BY <1>1, <1>2 DEF Next, vars, StartNext, Moved

LEMMA StartInvHolds == Spec => []StartInv
<1> QED BY StartInvInit, StartInvStep, PTL DEF Spec

\* The files of a vault and what its processes hold have the types of Startup.
THEOREM StartTypes == Spec => []StartTypeOK
<1>1. StartInv => StartTypeOK
  BY DEF StartInv, Types
<1> QED BY <1>1, StartInvHolds, PTL

\* Whoever starts beside whom and is killed where: a process that serves has
\* the whole schema and the vault's identity; as long as none start at once,
\* also the keys and the token on file, and no start fails but for a kill in
\* the middle of a write that nothing repairs.
THEOREM StartsAgreeCorrect == Spec => []StartsAgree
<1>1. ASSUME StartInv PROVE StartsAgree
  <2>1. ASSUME NEW n \in Serving PROVE schema = AllUnits /\ booked = Versions
    <3>1. Came(process[n], Migrated) /\ Script(process[n])
      BY <1>1 DEF Serving, At, Came, Ready, StartInv, ScriptInv
    <3>2. booked = Versions
      BY <3>1 DEF Script
    <3>3. AllUnits \subseteq schema
      BY <1>1, <3>2 DEF StartInv, ScriptInv, BookedRan, AllUnits
    <3> QED BY <1>1, <3>2, <3>3 DEF StartInv, Types, StartTypeOK
  <2>2. \A n \in Serving : process[n].vaultId = vaultId
    BY <1>1 DEF Serving, At, Came, Ready, StartInv, IdentityInv, Identity
  <2>3. ASSUME ~rival
        PROVE  /\ \A n \in Serving :
                    keychain = [master |-> keyring, vaultId |-> vaultId, dek |-> process[n].dek]
               /\ \A n \in Starts : At(n, "open") => process[n].token = tokenFile
               /\ (\E n \in Starts : At(n, "failed")) => broken
    BY <1>1, <2>3 DEF StartInv, AloneInv, Alone, Serving, At, Ready
  <2> QED BY <2>1, <2>2, <2>3 DEF StartsAgree
<1> QED BY <1>1, StartInvHolds, PTL
=============================================================================
