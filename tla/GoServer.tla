------------------------------ MODULE GoServer ------------------------------
(***************************************************************************)
(* The Go vault server: go/internal/server/handlers (the in-memory store,   *)
(* its audit log and the HTTP handlers) behind the token check of           *)
(* go/internal/server/middleware.go and go/internal/auth/token.go.          *)
(*                                                                         *)
(* A request that changes something is a connection: the store operation    *)
(* and its audit entry are two critical sections of Store.mu, and the       *)
(* client may have given up before either.  A request that only reads is    *)
(* one RLock, so it is an operator that its client evaluates in one step.   *)
(* SHA-256 is taken to be free of collisions: a hash is the sequence of the *)
(* entries it covers.  Nothing is kept on disk but the token.               *)
(***************************************************************************)
EXTENDS Naturals, Sequences, FiniteSets, SequencesExt

CONSTANTS
  Names,        \* secrets: records of a namespace and a name, each a sequence
                \* of the segments between its slashes
  Values,
  Absent,       \* no secret, no row
  Conns,        \* connections to the Go server
  Tokens,       \* contents of the token file
  NoToken,      \* the token file does not exist
  MaxRestarts   \* bound: restarts of the Go server

VARIABLES
  goStore,      \* Store.secrets: "namespace/name" -> the Secret kept there
  goLog,        \* Store.auditLog
  goEpoch,      \* Store.keyEpoch
  goToken,      \* the token file
  conn,         \* connection -> its request and where its handler is
  goRestarts,   \* history: restarts
  goMixed       \* history: keys changed while another handler of the same
                \* key was between its operation and its entry

goVars == <<goStore, goLog, goEpoch, goToken, conn, goRestarts, goMixed>>

secretKey(s) == s.ns \o s.name
GoKeys == {secretKey(s) : s \in Names}

\* Secret: what the store keeps under a key.
Stored == [ns : {s.ns : s \in Names}, name : {s.name : s \in Names}, value : Values]

ASSUME GoAssumption ==
  /\ Names # {} /\ IsFiniteSet(Names)
  /\ Absent \notin Stored \cup Values
  /\ MaxRestarts \in Nat

\* A path parameter is matched in its escaped form, so a slash inside a
\* namespace or a name never matches the key it was stored under.
PathMatches(s) == Len(s.ns) = 1 /\ Len(s.name) = 1

Mutations == {"set", "revoke", "delete"}
GoOps == Mutations \cup {"use", "rotate"}
Event == [set |-> "SECRET_SET", revoke |-> "SECRET_REVOKE", delete |-> "SECRET_DELETE",
          use |-> "SECRET_USE", rotate |-> "KEY_ROTATE"]

Closed == [step |-> "closed"]
Request(op, s, v, token) ==
  [step |-> "sent", op |-> op, secret |-> s, value |-> v, token |-> token,
   awaited |-> TRUE, status |-> 0]

GoInit ==
  /\ goStore = [k \in GoKeys |-> Absent]
  /\ goLog = <<>>
  /\ goEpoch = 1
  /\ goToken \in Tokens \cup {NoToken}
  /\ conn = [c \in Conns |-> Closed]
  /\ goRestarts = 0
  /\ goMixed = {}

-----------------------------------------------------------------------------
(* Reading requests.                                                        *)

\* TokenStore.Verify and the status AuthMiddleware maps its error to.
Verified(token) == goToken # NoToken /\ token = goToken
AuthStatus == IF goToken = NoToken THEN 500 ELSE 401

\* ListSecrets: every key that begins with "namespace/", nested ones too.
ListSecrets(ns) ==
  {goStore[k] : k \in {k \in GoKeys : goStore[k] # Absent /\ IsStrictPrefix(ns, k)}}

Hash(prev, event, key) == Append(prev, <<event, key>>)
LastHash == IF goLog = <<>> THEN <<>> ELSE Last(goLog).hash

\* VerifyAuditChain: the walk over the log, and what the handler answers.
VerifyAuditChain ==
  \A i \in DOMAIN goLog :
    goLog[i].hash = Hash(IF i = 1 THEN <<>> ELSE goLog[i - 1].hash, goLog[i].event, goLog[i].key)
AuditVerify == [ok |-> VerifyAuditChain]

-----------------------------------------------------------------------------
(* Handlers that change the store or the log.                               *)

\* Connect and Abandon are steps of a client: it sends a request, or stops
\* waiting for the answer, which does not stop the handler.
FirstFree ==
  LET free == {c \in Conns : conn[c] = Closed}
  IN IF free = {} THEN {} ELSE {CHOOSE c \in free : TRUE}
Connect(c, request) == conn[c] = Closed /\ conn' = [conn EXCEPT ![c] = request]
Disconnect(c) == conn' = [conn EXCEPT ![c] = Closed]
Abandon(c) ==
  conn' = [conn EXCEPT ![c] = IF @.step \in {"answered", "lost"} THEN Closed
                              ELSE [@ EXCEPT !.awaited = FALSE]]

Answer(c, status) ==
  conn' = [conn EXCEPT ![c] =
             IF @.awaited THEN [@ EXCEPT !.step = "answered", !.status = status] ELSE Closed]

Goes(c, step) == conn' = [conn EXCEPT ![c].step = step]

Sent(c, op) == conn[c].step = "sent" /\ conn[c].op = op /\ Verified(conn[c].token)

\* Handlers of the key that still have to write their entry.
Unlogged(k) ==
  {c \in Conns : conn[c].step = "audit" /\ conn[c].op \in Mutations /\ secretKey(conn[c].secret) = k}
Mix(k) == goMixed' = IF Unlogged(k) = {} THEN goMixed ELSE goMixed \cup {k}

AuthMiddleware(c) ==
  /\ conn[c].step = "sent"
  /\ ~Verified(conn[c].token)
  /\ Answer(c, AuthStatus)
  /\ UNCHANGED <<goStore, goLog, goEpoch, goToken, goRestarts, goMixed>>

SetSecret(c) ==
  /\ Sent(c, "set")
  /\ LET s == conn[c].secret IN
     /\ goStore' = [goStore EXCEPT ![secretKey(s)] =
                      [ns |-> s.ns, name |-> s.name, value |-> conn[c].value]]
     /\ Mix(secretKey(s))
  /\ Goes(c, "audit")
  /\ UNCHANGED <<goLog, goEpoch, goToken, goRestarts>>

Found(s) == PathMatches(s) /\ goStore[secretKey(s)] # Absent

NotFound(c) ==
  /\ conn[c].step = "sent" /\ conn[c].op \in {"revoke", "delete", "use"}
  /\ Verified(conn[c].token)
  /\ ~Found(conn[c].secret)
  /\ Answer(c, 404)
  /\ UNCHANGED <<goStore, goLog, goEpoch, goToken, goRestarts, goMixed>>

DeleteSecret(c) ==
  /\ Sent(c, "revoke") \/ Sent(c, "delete")
  /\ Found(conn[c].secret)
  /\ goStore' = [goStore EXCEPT ![secretKey(conn[c].secret)] = Absent]
  /\ Mix(secretKey(conn[c].secret))
  /\ Goes(c, "audit")
  /\ UNCHANGED <<goLog, goEpoch, goToken, goRestarts>>

UseSecret(c) ==
  /\ Sent(c, "use")
  /\ Found(conn[c].secret)
  /\ Goes(c, "audit")
  /\ UNCHANGED <<goStore, goLog, goEpoch, goToken, goRestarts, goMixed>>

Rotate(c) ==
  /\ Sent(c, "rotate")
  /\ goEpoch' = goEpoch + 1
  /\ Goes(c, "audit")
  /\ UNCHANGED <<goStore, goLog, goToken, goRestarts, goMixed>>

EntryKey(c) == IF conn[c].op = "rotate" THEN <<>> ELSE secretKey(conn[c].secret)

\* Mutant of AddAuditEntry: a handler whose client is gone ends without it.
AddEntryIfAwaited(c) ==
  /\ conn[c].step = "audit"
  /\ LET event == Event[conn[c].op] IN
     goLog' = IF conn[c].awaited
              THEN Append(goLog, [event |-> event, key |-> EntryKey(c), hash |-> Hash(LastHash, event, EntryKey(c))])
              ELSE goLog
  /\ IF conn[c].op = "rotate" THEN Goes(c, "epoch") ELSE Answer(c, 200)
  /\ UNCHANGED <<goStore, goEpoch, goToken, goRestarts, goMixed>>

AddAuditEntry(c) ==
  /\ conn[c].step = "audit"
  /\ LET event == Event[conn[c].op] IN
     goLog' = Append(goLog, [event |-> event, key |-> EntryKey(c),
                             hash |-> Hash(LastHash, event, EntryKey(c))])
  /\ IF conn[c].op = "rotate" THEN Goes(c, "epoch") ELSE Answer(c, 200)
  /\ UNCHANGED <<goStore, goEpoch, goToken, goRestarts, goMixed>>

\* Rotate's answer carries the epoch read after the entry; nobody uses it.
KeyEpoch(c) ==
  /\ conn[c].step = "epoch"
  /\ Answer(c, 200)
  /\ UNCHANGED <<goStore, goLog, goEpoch, goToken, goRestarts, goMixed>>

Handle(c) ==
  \/ AuthMiddleware(c) \/ SetSecret(c) \/ NotFound(c) \/ DeleteSecret(c)
  \/ UseSecret(c) \/ Rotate(c) \/ AddAuditEntry(c) \/ KeyEpoch(c)

-----------------------------------------------------------------------------
(* The outside.                                                             *)

\* A new process: store and log are gone, connections break, and a token
\* file that was removed is written anew (LoadOrCreateToken).
GoRestart ==
  /\ goRestarts < MaxRestarts
  /\ goRestarts' = goRestarts + 1
  /\ goStore' = [k \in GoKeys |-> Absent]
  /\ goLog' = <<>>
  /\ goEpoch' = 1
  /\ goMixed' = {}
  /\ conn' = [c \in Conns |->
                CASE conn[c].step \in {"closed", "answered"} -> conn[c]
                  [] conn[c].step \notin {"closed", "answered"} /\ conn[c].awaited
                       -> [conn[c] EXCEPT !.step = "lost"]
                  [] OTHER -> Closed]
  /\ goToken' \in IF goToken = NoToken THEN Tokens ELSE {goToken}

-----------------------------------------------------------------------------
Events == {Event[op] : op \in GoOps}
Entry == [event : Events, key : GoKeys \cup {<<>>}, hash : Seq(Events \X (GoKeys \cup {<<>>}))]
Opened == [step : {"sent", "audit", "epoch", "answered", "lost"}, op : GoOps,
           secret : Names, value : Values \cup {Absent}, token : Tokens,
           awaited : BOOLEAN, status : {0, 200, 401, 404, 500}]

GoTypeOK ==
  /\ goStore \in [GoKeys -> Stored \cup {Absent}]
  /\ goLog \in Seq(Entry)
  /\ goEpoch \in Nat \ {0}
  /\ goToken \in Tokens \cup {NoToken}
  /\ conn \in [Conns -> Opened \cup {Closed}]
  /\ goRestarts \in 0..MaxRestarts
  /\ goMixed \subseteq GoKeys

\* The entries of changes of a key, by their places in the log.
Changes(k) ==
  {i \in DOMAIN goLog :
     goLog[i].key = k /\ goLog[i].event \in {"SECRET_SET", "SECRET_REVOKE", "SECRET_DELETE"}}

\* The last entry of a key says whether the store holds it, unless a handler
\* of the key has yet to write its entry or two of them overlapped: the log
\* may run behind the store, never ahead of it or beside it.
GoLogTellsStore ==
  \A k \in GoKeys \ goMixed :
    Unlogged(k) = {} =>
      (goStore[k] # Absent <=>
         \E i \in Changes(k) : goLog[i].event = "SECRET_SET" /\ \A j \in Changes(k) : j <= i)
=============================================================================
