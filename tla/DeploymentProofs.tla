-------------------------- MODULE DeploymentProofs --------------------------
(***************************************************************************)
(* Proofs about the deployments, for any secrets, clients, connections,     *)
(* requests, credentials and bounds.                                       *)
(***************************************************************************)
EXTENDS Deployment, SequenceTheorems, FiniteSetTheorems, WellFoundedInduction, TLAPS

-----------------------------------------------------------------------------
(***************************************************************************)
(* The Go server: what a handler's step makes of its connection.           *)
(***************************************************************************)

SetHasValue(o) == o # Closed /\ o.op = "set" => o.value \in Values
GoTypes == GoTypeOK /\ \A c \in Conns : SetHasValue(conn[c])

Same(o, p) ==
  p.op = o.op /\ p.secret = o.secret /\ p.value = o.value /\ p.token = o.token /\ p.awaited = o.awaited

\* The steps of a handler, as its connection shows them.
Moves(o, p) ==
  \/ p = Closed /\ ~o.awaited
  \/ /\ p \in Opened /\ Same(o, p)
     /\ \/ o.step = "sent" /\ p.step = "audit"
        \/ o.step = "sent" /\ o.awaited /\ p.step = "answered" /\ p.status # 200
        \/ o.step = "audit" /\ p.step = "epoch"
        \/ o.step \in {"audit", "epoch"} /\ o.awaited /\ p.step = "answered" /\ p.status = 200

LEMMA OpenedNotClosed == \A o \in Opened : o # Closed
BY DEF Opened, Closed

LEMMA OpenedFields ==
  ASSUME NEW o \in Opened
  PROVE  /\ o.step \in {"sent", "audit", "epoch", "answered", "lost"} /\ o.op \in GoOps
         /\ o.secret \in Names /\ o.value \in Values \cup {Absent} /\ o.token \in Tokens
         /\ o.awaited \in BOOLEAN /\ o.status \in {0, 200, 401, 404, 500}
BY DEF Opened

Stepped(o, s) == [o EXCEPT !.step = s]
Replied(o, s) == [o EXCEPT !.step = "answered", !.status = s]

LEMMA OpenedStep ==
  ASSUME NEW o \in Opened, NEW s \in {"sent", "audit", "epoch", "answered", "lost"}
  PROVE  /\ Stepped(o, s) \in Opened
         /\ Stepped(o, s).step = s
         /\ Stepped(o, s).status = o.status
         /\ Same(o, Stepped(o, s))
<1> DEFINE p == [o EXCEPT !.step = s]
<1>1. p \in Opened
  BY DEF Opened
<1>2. p.step = s /\ p.status = o.status
  BY DEF Opened
<1>3. Same(o, p)
  BY DEF Opened, Same
<1> QED BY <1>1, <1>2, <1>3 DEF Stepped

LEMMA OpenedAnswer ==
  ASSUME NEW o \in Opened, NEW s \in {0, 200, 401, 404, 500}
  PROVE  /\ Replied(o, s) \in Opened
         /\ Replied(o, s).step = "answered"
         /\ Replied(o, s).status = s
         /\ Same(o, Replied(o, s))
<1> DEFINE q == [o EXCEPT !.step = "answered"]
           p == [q EXCEPT !.status = s]
<1>0. q \in Opened
  BY DEF Opened
<1>1. p \in Opened
  <2> HIDE DEF q
  <2> QED BY <1>0 DEF Opened
<1>2. p.step = "answered" /\ p.status = s
  BY DEF Opened
<1>3. Same(o, p)
  BY DEF Opened, Same
<1> QED BY <1>1, <1>2, <1>3 DEF Replied

LEMMA AnswerMoves ==
  ASSUME conn \in [Conns -> Opened \cup {Closed}], NEW c \in Conns, conn[c] \in Opened,
         NEW status \in {200, 401, 404, 500}, Answer(c, status)
  PROVE  /\ conn' = [conn EXCEPT ![c] = conn'[c]]
         /\ conn[c].awaited => /\ conn'[c] \in Opened /\ Same(conn[c], conn'[c])
                               /\ conn'[c].step = "answered" /\ conn'[c].status = status
         /\ ~conn[c].awaited => conn'[c] = Closed
<1>1. conn' = [conn EXCEPT ![c] =
                 IF conn[c].awaited THEN [conn[c] EXCEPT !.step = "answered", !.status = status] ELSE Closed]
  BY DEF Answer
<1>2. conn'[c] = IF conn[c].awaited THEN [conn[c] EXCEPT !.step = "answered", !.status = status] ELSE Closed
  BY <1>1
<1>3. conn' = [conn EXCEPT ![c] = conn'[c]]
  BY <1>1, <1>2
<1>4. conn[c].awaited => /\ conn'[c] \in Opened /\ Same(conn[c], conn'[c])
                         /\ conn'[c].step = "answered" /\ conn'[c].status = status
  <2> SUFFICES ASSUME conn[c].awaited
               PROVE  /\ conn'[c] \in Opened /\ Same(conn[c], conn'[c])
                      /\ conn'[c].step = "answered" /\ conn'[c].status = status
    OBVIOUS
  <2>1. conn'[c] = [conn[c] EXCEPT !.step = "answered", !.status = status]
    BY <1>2
  <2> DEFINE o == conn[c]
  <2>2. o \in Opened /\ conn'[c] = Replied(o, status)
    BY <2>1 DEF Replied
  <2> HIDE DEF o
  <2>3. /\ conn'[c] \in Opened /\ Same(o, conn'[c])
        /\ conn'[c].step = "answered" /\ conn'[c].status = status
    BY <2>2, OpenedAnswer
  <2> QED BY <2>3 DEF o
<1> QED BY <1>2, <1>3, <1>4

LEMMA GoesMoves ==
  ASSUME conn \in [Conns -> Opened \cup {Closed}], NEW c \in Conns, conn[c] \in Opened,
         NEW step \in {"audit", "epoch"}, Goes(c, step)
  PROVE  /\ conn' = [conn EXCEPT ![c] = conn'[c]]
         /\ conn'[c] \in Opened /\ Same(conn[c], conn'[c])
         /\ conn'[c].step = step
<1>1. conn' = [conn EXCEPT ![c] = [conn[c] EXCEPT !.step = step]]
  BY DEF Goes
<1>2. conn'[c] = [conn[c] EXCEPT !.step = step]
  BY <1>1
<1>3. conn' = [conn EXCEPT ![c] = conn'[c]]
  BY <1>1, <1>2
<1> DEFINE o == conn[c]
<1>4. o \in Opened /\ conn'[c] = Stepped(o, step)
  BY <1>2 DEF Stepped
<1> HIDE DEF o
<1>5. /\ conn'[c] \in Opened /\ Same(o, conn'[c])
      /\ conn'[c].step = step
  BY <1>4, OpenedStep
<1> QED BY <1>3, <1>5 DEF o

\* A step of a handler moves one open connection.
LEMMA HandleMoves ==
  ASSUME GoTypes, NEW c \in Conns, Handle(c)
  PROVE  /\ conn[c] \in Opened /\ conn' = [conn EXCEPT ![c] = conn'[c]]
         /\ Moves(conn[c], conn'[c])
         /\ conn[c].step = "sent" /\ conn'[c] # Closed /\ conn'[c].step = "audit" => Verified(conn[c].token)
<1> USE DEF GoTypes, GoTypeOK
<1>1. conn[c] = Closed \/ conn[c] \in Opened
  OBVIOUS
<1>2. conn[c] # Closed
  <2>1. Closed.step = "closed"
    BY DEF Closed
  <2> QED BY <2>1 DEF Handle, AuthMiddleware, SetSecret, NotFound, DeleteSecret, UseSecret, Rotate,
                      AddAuditEntry, KeyEpoch, Sent
<1>3. conn[c] \in Opened
  BY <1>1, <1>2
<1>4. CASE AuthMiddleware(c)
  <2>1. AuthStatus \in {401, 500} /\ Answer(c, AuthStatus) /\ conn[c].step = "sent"
    BY <1>4 DEF AuthMiddleware, AuthStatus
  <2> QED BY <2>1, <1>3, AnswerMoves, OpenedFields DEF Moves
<1>5. CASE NotFound(c)
  <2>1. Answer(c, 404) /\ conn[c].step = "sent"
    BY <1>5 DEF NotFound
  <2> QED BY <2>1, <1>3, AnswerMoves, OpenedFields DEF Moves
<1>6. CASE SetSecret(c) \/ DeleteSecret(c) \/ UseSecret(c) \/ Rotate(c)
  <2>1. Goes(c, "audit") /\ conn[c].step = "sent" /\ Verified(conn[c].token)
    BY <1>6 DEF SetSecret, DeleteSecret, UseSecret, Rotate, Sent
  <2> QED BY <2>1, <1>3, GoesMoves DEF Moves
<1>7. CASE AddAuditEntry(c)
  <2>1. conn[c].step = "audit" /\ (Goes(c, "epoch") \/ Answer(c, 200))
    BY <1>7 DEF AddAuditEntry
  <2>2. CASE Goes(c, "epoch")
    BY <2>1, <2>2, <1>3, GoesMoves DEF Moves
  <2>3. CASE Answer(c, 200)
    BY <2>1, <2>3, <1>3, AnswerMoves, OpenedFields DEF Moves
  <2> QED BY <2>1, <2>2, <2>3
<1>8. CASE KeyEpoch(c)
  <2>1. Answer(c, 200) /\ conn[c].step = "epoch"
    BY <1>8 DEF KeyEpoch
  <2> QED BY <2>1, <1>3, AnswerMoves, OpenedFields DEF Moves
<1>9. /\ conn' = [conn EXCEPT ![c] = conn'[c]]
      /\ Moves(conn[c], conn'[c])
  BY <1>4, <1>5, <1>6, <1>7, <1>8 DEF Handle
<1>10. conn[c].step = "sent" /\ conn'[c] # Closed /\ conn'[c].step = "audit" => Verified(conn[c].token)
  <2>1. CASE AuthMiddleware(c) \/ NotFound(c)
    <3>1. AuthStatus \in {401, 500}
      BY DEF AuthStatus
    <3>2. conn'[c] # Closed => conn'[c].step = "answered"
      BY <2>1, <3>1, <1>3, AnswerMoves, OpenedFields DEF AuthMiddleware, NotFound
    <3> QED BY <3>2
  <2>2. CASE ~(AuthMiddleware(c) \/ NotFound(c))
    BY <2>2 DEF Handle, SetSecret, DeleteSecret, UseSecret, Rotate, AddAuditEntry, KeyEpoch, Sent
  <2> QED BY <2>1, <2>2
<1> QED BY <1>3, <1>9, <1>10

-----------------------------------------------------------------------------
(***************************************************************************)
(* Types on the Go side.                                                   *)
(***************************************************************************)

LEMMA ConnTypes ==
  ASSUME GoTypes, NEW c \in Conns, NEW p \in Opened \cup {Closed}, SetHasValue(p),
         conn' = [conn EXCEPT ![c] = p]
  PROVE  /\ conn' \in [Conns -> Opened \cup {Closed}]
         /\ \A d \in Conns : SetHasValue(conn'[d])
<1> USE DEF GoTypes, GoTypeOK
<1>1. conn' \in [Conns -> Opened \cup {Closed}]
  OBVIOUS
<1>2. ASSUME NEW d \in Conns PROVE SetHasValue(conn'[d])
  <2>1. conn'[d] = IF d = c THEN p ELSE conn[d]
    OBVIOUS
  <2>2. SetHasValue(conn[d])
    OBVIOUS
  <2> QED BY <2>1, <2>2
<1> QED BY <1>1, <1>2

LEMMA MovesTypes ==
  ASSUME NEW o \in Opened, SetHasValue(o), NEW p, Moves(o, p)
  PROVE  p \in Opened \cup {Closed} /\ SetHasValue(p)
BY DEF Moves, Same, SetHasValue, Closed, Opened

LEMMA RequestOpened ==
  ASSUME NEW op \in GoOps, NEW s \in Names, NEW v \in Values \cup {Absent}, NEW token \in Tokens,
         op = "set" => v \in Values
  PROVE  LET r == Request(op, s, v, token)
         IN /\ r \in Opened /\ SetHasValue(r)
            /\ r.step = "sent" /\ r.op = op /\ r.secret = s /\ r.value = v /\ r.awaited
BY DEF Request, Opened, SetHasValue

Unawaited(o) == [o EXCEPT !.awaited = FALSE]

LEMMA UnawaitedOpened ==
  ASSUME NEW o \in Opened, SetHasValue(o)
  PROVE  LET p == Unawaited(o)
         IN /\ p \in Opened /\ SetHasValue(p) /\ ~p.awaited
            /\ p.step = o.step /\ p.op = o.op /\ p.secret = o.secret /\ p.value = o.value /\ p.status = o.status
<1> DEFINE p == Unawaited(o)
<1>1. p \in Opened
  <2> DEFINE no == FALSE
  <2>1. no \in BOOLEAN /\ p = [o EXCEPT !.awaited = no]
    BY DEF Unawaited
  <2> HIDE DEF no, p
  <2> QED BY <2>1 DEF Opened
<1>2. /\ ~p.awaited
      /\ p.step = o.step /\ p.op = o.op /\ p.secret = o.secret /\ p.value = o.value /\ p.status = o.status
  BY DEF Opened, Unawaited
<1>3. SetHasValue(p)
  BY <1>2, OpenedNotClosed DEF SetHasValue
<1> QED BY <1>1, <1>2, <1>3

\* What a client that gives up leaves behind.
Leaves(o, p) ==
  \/ p = Closed
  \/ /\ o.step \in {"sent", "audit", "epoch"} /\ p \in Opened /\ ~p.awaited
     /\ p.step = o.step /\ p.op = o.op /\ p.secret = o.secret /\ p.value = o.value /\ p.status = o.status

LEMMA AbandonLeaves ==
  ASSUME GoTypes, NEW c \in Conns, conn[c] # Closed, Abandon(c) \/ Disconnect(c)
  PROVE  /\ conn' = [conn EXCEPT ![c] = conn'[c]]
         /\ Leaves(conn[c], conn'[c])
         /\ conn'[c] \in Opened \cup {Closed} /\ SetHasValue(conn'[c])
<1> USE DEF GoTypes, GoTypeOK
<1>1. conn[c] \in Opened /\ SetHasValue(conn[c])
  OBVIOUS
<1>2. CASE Disconnect(c)
  <2>1. conn' = [conn EXCEPT ![c] = Closed] /\ conn'[c] = Closed
    BY <1>2 DEF Disconnect
  <2> QED BY <2>1 DEF Leaves, SetHasValue
<1>3. CASE Abandon(c)
  <2>1. conn' = [conn EXCEPT ![c] = IF conn[c].step \in {"answered", "lost"} THEN Closed ELSE Unawaited(conn[c])]
    BY <1>3 DEF Abandon, Unawaited
  <2>2. conn'[c] = IF conn[c].step \in {"answered", "lost"} THEN Closed ELSE Unawaited(conn[c])
    BY <2>1
  <2>3. conn' = [conn EXCEPT ![c] = conn'[c]]
    BY <2>1, <2>2
  <2>4. CASE conn[c].step \in {"answered", "lost"}
    BY <2>2, <2>3, <2>4 DEF Leaves, SetHasValue
  <2>5. CASE conn[c].step \notin {"answered", "lost"}
    <3>1. conn'[c] = Unawaited(conn[c])
      BY <2>2, <2>5
    <3>2. conn[c].step \in {"sent", "audit", "epoch"}
      BY <1>1, <2>5, OpenedFields
    <3> QED BY <1>1, <3>1, <3>2, <2>3, UnawaitedOpened DEF Leaves
  <2> QED BY <2>4, <2>5
<1> QED BY <1>2, <1>3

LEMMA FreeConn ==
  ASSUME NEW c \in FirstFree
  PROVE  c \in Conns /\ conn[c] = Closed
<1> DEFINE free == {d \in Conns : conn[d] = Closed}
<1>1. free # {} /\ c = CHOOSE d \in free : TRUE
  BY DEF FirstFree
<1>2. c \in free
  BY <1>1
<1> QED BY <1>2

LEMMA ConnectOpens ==
  ASSUME GoTypes, NEW c \in Conns, NEW r \in Opened, SetHasValue(r), Connect(c, r)
  PROVE  /\ conn[c] = Closed /\ conn' = [conn EXCEPT ![c] = conn'[c]] /\ conn'[c] = r
         /\ conn' \in [Conns -> Opened \cup {Closed}]
         /\ \A d \in Conns : SetHasValue(conn'[d])
<1>1. conn[c] = Closed /\ conn' = [conn EXCEPT ![c] = r]
  BY DEF Connect
<1>2. conn'[c] = r
  BY <1>1 DEF GoTypes, GoTypeOK
<1> QED BY <1>1, <1>2, ConnTypes

LEMMA KeyOf == \A s \in Names : secretKey(s) \in GoKeys
BY DEF GoKeys

LEMMA EntryOK ==
  ASSUME GoTypes, NEW c \in Conns, conn[c] \in Opened
  PROVE  /\ EntryKey(c) \in GoKeys \cup {<<>>}
         /\ [event |-> Event[conn[c].op], key |-> EntryKey(c),
             hash |-> Hash(LastHash, Event[conn[c].op], EntryKey(c))] \in Entry
<1>1. conn[c].op \in GoOps /\ conn[c].secret \in Names
  BY OpenedFields
<1>2. Event[conn[c].op] \in Events
  BY <1>1 DEF Events
<1>3. EntryKey(c) \in GoKeys \cup {<<>>}
  BY <1>1, KeyOf DEF EntryKey
<1>4. LastHash \in Seq(Events \X (GoKeys \cup {<<>>}))
  <2>1. CASE goLog = <<>>
    BY <2>1 DEF LastHash
  <2>2. CASE goLog # <<>>
    <3>1. goLog \in Seq(Entry)
      BY DEF GoTypes, GoTypeOK
    <3>2. Last(goLog) \in Entry
      BY <3>1, <2>2 DEF Last
    <3> QED BY <3>2, <2>2 DEF LastHash, Entry
  <2> QED BY <2>1, <2>2
<1> DEFINE H == Hash(LastHash, Event[conn[c].op], EntryKey(c))
           E == Event[conn[c].op]
           K == EntryKey(c)
<1>5. H \in Seq(Events \X (GoKeys \cup {<<>>}))
  BY <1>2, <1>3, <1>4 DEF Hash
<1>6. [event |-> E, key |-> K, hash |-> H] \in Entry
  <2>1. E \in Events /\ K \in GoKeys \cup {<<>>}
    BY <1>2, <1>3
  <2> HIDE DEF E, K, H
  <2> QED BY <2>1, <1>5 DEF Entry
<1> QED BY <1>3, <1>6

LEMMA HandleTypes ==
  ASSUME GoTypes, NEW c \in Conns, Handle(c)
  PROVE  GoTypes'
<1>1. /\ conn[c] \in Opened /\ conn' = [conn EXCEPT ![c] = conn'[c]]
      /\ Moves(conn[c], conn'[c])
  BY HandleMoves
<1>2. conn'[c] \in Opened \cup {Closed} /\ SetHasValue(conn'[c])
  BY <1>1, MovesTypes DEF GoTypes
<1>3. /\ conn' \in [Conns -> Opened \cup {Closed}]
      /\ \A d \in Conns : SetHasValue(conn'[d])
  <2> DEFINE p == conn'[c]
  <2>1. p \in Opened \cup {Closed} /\ SetHasValue(p) /\ conn' = [conn EXCEPT ![c] = p]
    BY <1>1, <1>2
  <2> HIDE DEF p
  <2> QED BY <2>1, ConnTypes
<1>4. /\ conn[c].op \in GoOps /\ conn[c].secret \in Names /\ SetHasValue(conn[c]) /\ conn[c] # Closed
      /\ secretKey(conn[c].secret) \in GoKeys
  BY <1>1, OpenedFields, OpenedNotClosed, KeyOf DEF GoTypes
<1> USE DEF GoTypes, GoTypeOK
<1>5. /\ goStore \in [GoKeys -> Stored \cup {Absent}] /\ goLog \in Seq(Entry)
      /\ goEpoch \in Nat \ {0} /\ goToken \in Tokens \cup {NoToken}
      /\ goRestarts \in 0..MaxRestarts /\ goMixed \subseteq GoKeys
  OBVIOUS
<1>6. ASSUME NEW k \in GoKeys, Mix(k) PROVE goMixed' \subseteq GoKeys
  BY <1>5, <1>6 DEF Mix
<1>7. CASE SetSecret(c)
  <2> DEFINE s == conn[c].secret
             e == [ns |-> s.ns, name |-> s.name, value |-> conn[c].value]
  <2>1. conn[c].value \in Values
    BY <1>4, <1>7 DEF SetSecret, Sent, SetHasValue
  <2>2. e \in Stored
    BY <1>4, <2>1 DEF Stored
  <2>3. /\ goStore' = [goStore EXCEPT ![secretKey(s)] = e] /\ Mix(secretKey(s))
        /\ UNCHANGED <<goLog, goEpoch, goToken, goRestarts>>
    BY <1>7 DEF SetSecret
  <2>4. goStore' \in [GoKeys -> Stored \cup {Absent}]
    <3> HIDE DEF e
    <3> QED BY <2>2, <2>3, <1>5
  <2> QED BY <2>3, <2>4, <1>3, <1>4, <1>5, <1>6
<1>8. CASE DeleteSecret(c)
  <2>1. /\ goStore' = [goStore EXCEPT ![secretKey(conn[c].secret)] = Absent] /\ Mix(secretKey(conn[c].secret))
        /\ UNCHANGED <<goLog, goEpoch, goToken, goRestarts>>
    BY <1>8 DEF DeleteSecret
  <2> QED BY <2>1, <1>3, <1>4, <1>5, <1>6
<1>9. CASE AddAuditEntry(c)
  <2> DEFINE e == [event |-> Event[conn[c].op], key |-> EntryKey(c),
                   hash |-> Hash(LastHash, Event[conn[c].op], EntryKey(c))]
  <2>1. goLog' = Append(goLog, e) /\ UNCHANGED <<goStore, goEpoch, goToken, goRestarts, goMixed>>
    BY <1>9 DEF AddAuditEntry
  <2>2. e \in Entry
    BY <1>1, EntryOK
  <2> HIDE DEF e
  <2>3. goLog' \in Seq(Entry)
    BY <2>1, <2>2, <1>5
  <2> QED BY <2>1, <2>3, <1>3, <1>5
<1>10. CASE Rotate(c)
  <2>1. goEpoch' = goEpoch + 1 /\ UNCHANGED <<goStore, goLog, goToken, goRestarts, goMixed>>
    BY <1>10 DEF Rotate
  <2> QED BY <2>1, <1>3, <1>5
<1>11. CASE AuthMiddleware(c) \/ NotFound(c) \/ UseSecret(c) \/ KeyEpoch(c)
  <2>1. UNCHANGED <<goStore, goLog, goEpoch, goToken, goRestarts, goMixed>>
    BY <1>11 DEF AuthMiddleware, NotFound, UseSecret, KeyEpoch
  <2> QED BY <2>1, <1>3, <1>5
<1> QED BY <1>7, <1>8, <1>9, <1>10, <1>11 DEF Handle

LEMMA RestartTypes ==
  ASSUME GoTypes, GoRestart
  PROVE  /\ GoTypes'
         /\ \A c \in Conns :
              \/ conn'[c] = conn[c] /\ (conn[c] = Closed \/ conn[c].step = "answered")
              \/ conn'[c] = Closed /\ conn[c] # Closed /\ ~conn[c].awaited
              \/ /\ conn[c] # Closed /\ conn[c].awaited /\ conn'[c] \in Opened
                 /\ Same(conn[c], conn'[c]) /\ conn'[c].step = "lost"
<1> USE DEF GoTypes, GoTypeOK
<1> DEFINE New(c) == CASE conn[c].step \in {"closed", "answered"} -> conn[c]
                       [] conn[c].step \notin {"closed", "answered"} /\ conn[c].awaited -> Stepped(conn[c], "lost")
                       [] OTHER -> Closed
<1>1. conn' = [c \in Conns |-> New(c)]
  BY DEF GoRestart, Stepped
<1>2. ASSUME NEW c \in Conns
      PROVE  /\ New(c) \in Opened \cup {Closed} /\ SetHasValue(New(c))
             /\ \/ New(c) = conn[c] /\ (conn[c] = Closed \/ conn[c].step = "answered")
                \/ New(c) = Closed /\ conn[c] # Closed /\ ~conn[c].awaited
                \/ /\ conn[c] # Closed /\ conn[c].awaited /\ New(c) \in Opened
                   /\ Same(conn[c], New(c)) /\ New(c).step = "lost"
  <2>1. SetHasValue(conn[c]) /\ (conn[c] = Closed \/ conn[c] \in Opened)
    BY <1>2
  <2>2. CASE conn[c].step \in {"closed", "answered"}
    <3>1. New(c) = conn[c]
      BY <2>2
    <3>2. conn[c] = Closed \/ conn[c].step = "answered"
      BY <2>1, <2>2, OpenedFields
    <3> HIDE DEF New
    <3> QED BY <3>1, <3>2, <2>1
  <2>3. CASE conn[c].step \notin {"closed", "answered"} /\ conn[c].awaited
    <3>1. New(c) = Stepped(conn[c], "lost")
      BY <2>3
    <3>2. conn[c] # Closed /\ conn[c] \in Opened
      BY <2>1, <2>3 DEF Closed
    <3> HIDE DEF New
    <3>3. New(c) \in Opened /\ Same(conn[c], New(c)) /\ New(c).step = "lost"
      BY <3>1, <3>2, OpenedStep
    <3>4. SetHasValue(New(c))
      BY <3>2, <3>3, <2>1 DEF SetHasValue, Same
    <3> QED BY <3>2, <3>3, <3>4, <2>3
  <2>4. CASE conn[c].step \notin {"closed", "answered"} /\ ~conn[c].awaited
    <3>1. New(c) = Closed
      BY <2>4
    <3>2. conn[c] # Closed
      BY <2>4 DEF Closed
    <3> HIDE DEF New
    <3> QED BY <3>1, <3>2, <2>4 DEF SetHasValue
  <2> QED BY <2>2, <2>3, <2>4
<1> HIDE DEF New
<1>3. \A c \in Conns : conn'[c] = New(c)
  BY <1>1
<1>4. conn' \in [Conns -> Opened \cup {Closed}] /\ \A c \in Conns : SetHasValue(conn'[c])
  BY <1>1, <1>2, <1>3
<1>5. /\ goStore' \in [GoKeys -> Stored \cup {Absent}] /\ goLog' \in Seq(Entry)
      /\ goEpoch' \in Nat \ {0} /\ goToken' \in Tokens \cup {NoToken}
      /\ goRestarts' \in 0..MaxRestarts /\ goMixed' \subseteq GoKeys
  BY GoAssumption DEF GoRestart
<1>6. GoTypes'
  BY <1>4, <1>5
<1> QED BY <1>2, <1>3, <1>6

-----------------------------------------------------------------------------
(***************************************************************************)
(* A client: its call as the gateway sees it, and the thread that runs it. *)
(***************************************************************************)

\* A caller has an answer while the handler of the call still runs.
Left(c, w) == c.step = "answered" /\ w.step \notin {"idle", "done"}

CallOK(d, c, w) ==
  /\ c.step = "idle" => c = NoCall
  /\ c.step # "idle" => /\ d \in {"dual_write", "cutover", "approval"}
                        /\ c.secret \in Names /\ c.cred \in Credentials
                        /\ c.op = "set" => c.value \in Values
                        /\ d = "cutover" => c.op \in GoOps /\ c.cred.token \in Tokens
  /\ c.step = "go" => d = "cutover" /\ c.on \in Conns
  /\ c.step # "go" => c.on = NoConn
  /\ c.step \in {"idle", "arrived", "go"} => w = Idle
  /\ c.step = "python" => w.step # "idle"
  /\ c.step = "python" \/ Left(c, w) => w.op = c.op /\ w.secret = c.secret /\ w.value = c.value
  /\ w.step \in {"commit", "count", "post", "posted", "verify", "row"} => w.op \in {"set", "revoke"}
  /\ w.step = "count" => w.op = "set"
  /\ w.step \in {"waiting", "woken", "release"} => w.op = "use"
  /\ w.step = "posted" => w.on \in Conns

\* What the thread has done of the call, by where it is.
Acted(w) == w.step \in {"count", "post", "posted", "verify", "row"} \/ (w.step = "done" /\ w.status = 200)
Pending(w) == w.step \in {"idle", "queued", "commit", "waiting", "woken", "release"}

Told(c, w) ==
  /\ c.step \in {"idle", "arrived"} => c.executed = {} /\ c.lost = {}
  /\ c.step = "go" => "python" \notin c.executed /\ c.lost = {}
  /\ c.step = "python" =>
       /\ "go" \in c.executed => "go" \in c.lost
       /\ Acted(w) => "python" \in c.executed
       /\ Pending(w) => "python" \notin c.executed
       /\ w.step = "done" /\ w.status # 200 /\ "python" \in c.executed =>
            w.unrecorded \/ (w.op = "use" /\ w.status = 500)
  /\ c.step = "answered" =>
       /\ c.status = 200 => c.executed # {}
       /\ c.status # 200 =>
            /\ "go" \in c.executed => "go" \in c.lost
            /\ "python" \in c.executed =>
                 "python" \in c.lost \/ w.unrecorded \/ (c.op = "use" /\ c.status = 500)
       /\ c.executed = {"go", "python"} => "go" \in c.lost
  /\ Left(c, w) => "python" \in c.lost /\ c.status # 200

ClientOK(d, c, w) == c \in Calls /\ w \in Works /\ CallOK(d, c, w) /\ Told(c, w)

\* The steps of a thread; acts: it does what the call asks.
ThreadMoves(w, x, acts) ==
  /\ x \in Works /\ x.op = w.op /\ x.secret = w.secret /\ x.value = w.value
  /\ \/ /\ w.step = "queued" /\ ~acts
        /\ \/ x.step = "commit" /\ w.op \in {"set", "revoke"}
           \/ x.step = "waiting" /\ w.op = "use"
           \/ x.step = "done" /\ x.status # 200
     \/ w.step = "queued" /\ acts /\ x.step = "done" /\ x.status = 200
     \/ /\ w.step = "commit" /\ acts
        /\ \/ x.step = "count" /\ w.op = "set"
           \/ x.step = "post" \/ (x.step = "done" /\ x.status = 200)
     \/ w.step = "commit" /\ ~acts /\ x.step = "done" /\ x.status = 500
     \/ /\ w.step = "count" /\ ~acts
        /\ x.step = "post" \/ (x.step = "done" /\ (x.status = 200 \/ x.unrecorded))
     \/ /\ w.step \in {"post", "posted", "verify"} /\ ~acts
        /\ x.step = "row" \/ (x.step = "posted" /\ x.on \in Conns) \/ x.step = "verify"
     \/ w.step = "row" /\ ~acts /\ x.step = "done" /\ (x.status = 200 \/ x.unrecorded)
     \/ w.step = "waiting" /\ ~acts /\ x.step = "woken"
     \/ w.step = "woken" /\ ~acts /\ (x.step = "release" \/ (x.step = "done" /\ x.status # 200))
     \/ /\ w.step = "release" /\ x.step = "done"
        /\ \/ ~acts /\ x.status = 404
           \/ acts /\ x.status \in {200, 500}

-----------------------------------------------------------------------------
(* The records that the steps make.                                         *)

LEMMA WorkFields ==
  ASSUME NEW w \in Works
  PROVE  /\ w.step \in Steps /\ w.op \in Operations /\ w.secret \in Names \cup {Absent}
         /\ w.value \in Values \cup {Absent} /\ w.on \in Conns \cup {NoConn}
         /\ w.ok \in BOOLEAN /\ w.unrecorded \in BOOLEAN
         /\ w.status \in {0, 200, 400, 401, 403, 404, 500}
BY DEF Works

Kept(w, x) == x.op = w.op /\ x.secret = w.secret /\ x.value = w.value

LEMMA WorkStepped ==
  ASSUME NEW w \in Works, NEW s \in Steps
  PROVE  LET x == Stepped(w, s) IN x \in Works /\ Kept(w, x) /\ x.step = s /\ x.on = w.on /\ x.status = w.status
<1> DEFINE x == Stepped(w, s)
<1>1. x \in Works
  BY DEF Stepped, Works
<1>2. Kept(w, x) /\ x.step = s /\ x.on = w.on /\ x.status = w.status
  BY DEF Stepped, Works, Kept
<1> QED BY <1>1, <1>2

Returned(w, s) == [w EXCEPT !.step = "done", !.status = s]

LEMMA WorkReturned ==
  ASSUME NEW w \in Works, NEW s \in {200, 400, 401, 403, 404, 500}
  PROVE  LET x == Returned(w, s) IN x \in Works /\ Kept(w, x) /\ x.step = "done" /\ x.on = w.on /\ x.status = s
<1> DEFINE q == [w EXCEPT !.step = "done"]
           x == [q EXCEPT !.status = s]
<1>1. q \in Works
  BY DEF Works, Steps
<1>2. x \in Works
  <2> HIDE DEF q
  <2> QED BY <1>1 DEF Works
<1>3. Kept(w, x) /\ x.step = "done" /\ x.on = w.on /\ x.status = s
  BY DEF Works, Kept
<1> QED BY <1>2, <1>3 DEF Returned

Unlog(w) == [w EXCEPT !.step = "done", !.status = 500, !.unrecorded = TRUE]

LEMMA WorkUnlogged ==
  ASSUME NEW w \in Works
  PROVE  LET x == Unlog(w) IN /\ x \in Works /\ Kept(w, x) /\ x.step = "done" /\ x.on = w.on
                              /\ x.status = 500 /\ x.unrecorded
<1> DEFINE q == Returned(w, 500)
           yes == TRUE
           x == [q EXCEPT !.unrecorded = yes]
<1>1. q \in Works /\ Kept(w, q) /\ q.step = "done" /\ q.on = w.on /\ q.status = 500
  BY WorkReturned
<1>2. yes \in BOOLEAN
  OBVIOUS
<1>3. x = Unlog(w)
  BY DEF Unlog, Returned
<1>4. x \in Works
  <2> HIDE DEF q, yes
  <2> QED BY <1>1, <1>2 DEF Works
<1>5. Kept(q, x) /\ x.step = "done" /\ x.on = q.on /\ x.status = 500
  <2> HIDE DEF q, yes
  <2> QED BY <1>1 DEF Works, Kept
<1>6. x.unrecorded
  <2> HIDE DEF q
  <2> QED BY <1>1 DEF Works
<1> HIDE DEF x, q
<1> QED BY <1>1, <1>3, <1>4, <1>5, <1>6 DEF Kept

Rowed(w, ok) == [w EXCEPT !.step = "row", !.ok = ok, !.on = NoConn]

LEMMA WorkRowed ==
  ASSUME NEW w \in Works, NEW ok \in BOOLEAN
  PROVE  LET x == Rowed(w, ok) IN x \in Works /\ Kept(w, x) /\ x.step = "row"
<1> DEFINE q == Stepped(w, "row")
           r == [q EXCEPT !.ok = ok]
           x == [r EXCEPT !.on = NoConn]
<1>1. q \in Works /\ Kept(w, q) /\ q.step = "row"
  BY WorkStepped DEF Steps
<1>2. x = Rowed(w, ok)
  BY DEF Rowed, Stepped
<1>3. r \in Works /\ Kept(q, r) /\ r.step = "row"
  <2> HIDE DEF q
  <2>1. r \in Works
    BY <1>1 DEF Works
  <2>2. Kept(q, r) /\ r.step = "row"
    BY <1>1 DEF Works, Kept
  <2> QED BY <2>1, <2>2
<1>4. x \in Works /\ Kept(r, x) /\ x.step = "row"
  <2> HIDE DEF r
  <2>1. x \in Works
    BY <1>3 DEF Works
  <2>2. Kept(r, x) /\ x.step = "row"
    BY <1>3 DEF Works, Kept
  <2> QED BY <2>1, <2>2
<1> HIDE DEF x, q, r
<1> QED BY <1>1, <1>2, <1>3, <1>4 DEF Kept

Mirrors(w, c) == [w EXCEPT !.step = "posted", !.on = c]

LEMMA WorkMirrors ==
  ASSUME NEW w \in Works, NEW c \in Conns
  PROVE  LET x == Mirrors(w, c) IN x \in Works /\ Kept(w, x) /\ x.step = "posted" /\ x.on = c
<1> DEFINE q == [w EXCEPT !.step = "posted"]
           x == [q EXCEPT !.on = c]
<1>1. q \in Works
  BY DEF Works, Steps
<1>2. x \in Works
  <2> HIDE DEF q
  <2> QED BY <1>1 DEF Works
<1>3. Kept(w, x) /\ x.step = "posted" /\ x.on = c
  BY DEF Works, Kept
<1> QED BY <1>2, <1>3 DEF Mirrors

LEMMA ReturnUpdates ==
  ASSUME work \in [Clients -> Works], NEW t \in Clients, NEW s, Return(t, s)
  PROVE  work' = [work EXCEPT ![t] = Returned(work[t], s)]
BY DEF Return, Returned

LEMMA ThreadUpdates ==
  ASSUME work \in [Clients -> Works], NEW t \in Clients
  PROVE  /\ \A s : Proceed(t, s) => work' = [work EXCEPT ![t] = Stepped(work[t], s)]
         /\ ReturnUnrecorded(t) => work' = [work EXCEPT ![t] = Unlog(work[t])]
         /\ Mirrored(t) => work' = [work EXCEPT ![t] = Rowed(work[t], TRUE)]
         /\ AddDivergence(t) => work' = [work EXCEPT ![t] = Rowed(work[t], FALSE)]
<1>1. ASSUME NEW s, Proceed(t, s) PROVE work' = [work EXCEPT ![t] = Stepped(work[t], s)]
  BY <1>1 DEF Proceed, Stepped
<1>3. ASSUME ReturnUnrecorded(t) PROVE work' = [work EXCEPT ![t] = Unlog(work[t])]
  <2> DEFINE yes == TRUE
             b == [work EXCEPT ![t].step = "done", ![t].status = 500]
             y == Returned(work[t], 500)
  <2>1. b = [work EXCEPT ![t] = y]
    BY DEF Returned
  <2>2. work' = [b EXCEPT ![t].unrecorded = yes]
    BY <1>3 DEF ReturnUnrecorded
  <2>3. Unlog(work[t]) = [y EXCEPT !.unrecorded = yes]
    BY DEF Unlog, Returned
  <2> HIDE DEF yes, b, y
  <2> QED BY <2>1, <2>2, <2>3
<1>4. ASSUME Mirrored(t) PROVE work' = [work EXCEPT ![t] = Rowed(work[t], TRUE)]
  BY <1>4 DEF Mirrored, Rowed
<1>5. ASSUME AddDivergence(t) PROVE work' = [work EXCEPT ![t] = Rowed(work[t], FALSE)]
  BY <1>5 DEF AddDivergence, Rowed
<1> QED BY <1>1, <1>3, <1>4, <1>5

LEMMA ThreadUpdated ==
  ASSUME work \in [Clients -> Works], NEW t \in Clients, NEW x,
         work' = [work EXCEPT ![t] = x]
  PROVE  work'[t] = x /\ work' = [work EXCEPT ![t] = work'[t]]
OBVIOUS

\* A step of a thread moves that thread alone.
LEMMA ThreadSteps ==
  ASSUME work \in [Clients -> Works], NEW t \in Clients, NEW cred, MirrorStep(t) \/ ServerStep(t, cred),
         work[t].step \in {"commit", "count", "post", "posted", "verify", "row"} => work[t].op \in {"set", "revoke"},
         work[t].step = "count" => work[t].op = "set",
         work[t].step \in {"waiting", "woken", "release"} => work[t].op = "use"
  PROVE  /\ work' = [work EXCEPT ![t] = work'[t]]
         /\ ThreadMoves(work[t], work'[t], Acts(t))
<1> DEFINE w == work[t]
           x == work'[t]
<1>1. w \in Works
  OBVIOUS
<1>2. /\ w.op \notin OperatorRoutes /\ w.step \notin {"commit", "release"} => ~Acts(t)
      /\ w.step = "commit" /\ (x.step = "done" => x.status = 200) => Acts(t)
      /\ w.step = "commit" /\ w.op \notin OperatorRoutes /\ x.step = "done" /\ x.status # 200 => ~Acts(t)
      /\ w.step = "release" /\ w.op \notin OperatorRoutes => (Acts(t) <=> x.status # 404)
      /\ w.op \in OperatorRoutes /\ w.step \notin {"commit", "release"} => (Acts(t) <=> x.status = 200)
  BY DEF Acts
<1>3. w.op \in {"set", "revoke", "use"} => w.op \notin OperatorRoutes
  BY DEF OperatorRoutes
<1>4. ASSUME NEW s \in Steps, Proceed(t, s)
      PROVE  work' = [work EXCEPT ![t] = x] /\ x \in Works /\ Kept(w, x) /\ x.step = s
  <2>1. work' = [work EXCEPT ![t] = Stepped(work[t], s)]
    BY <1>4, ThreadUpdates
  <2>2. x = Stepped(work[t], s) /\ work' = [work EXCEPT ![t] = x]
    BY <2>1
  <2> HIDE DEF x
  <2> QED BY <2>2, <1>1, WorkStepped
<1>5. ASSUME NEW s \in {200, 400, 401, 403, 404, 500}, Return(t, s)
      PROVE  work' = [work EXCEPT ![t] = x] /\ x \in Works /\ Kept(w, x) /\ x.step = "done" /\ x.status = s
  <2>1. work' = [work EXCEPT ![t] = Returned(work[t], s)]
    BY <1>5, ReturnUpdates
  <2>2. x = Returned(work[t], s) /\ work' = [work EXCEPT ![t] = x]
    BY <2>1
  <2> HIDE DEF x
  <2> QED BY <2>2, <1>1, WorkReturned
<1>6. ASSUME ReturnUnrecorded(t)
      PROVE  /\ work' = [work EXCEPT ![t] = x] /\ x \in Works /\ Kept(w, x) /\ x.step = "done"
             /\ x.status = 500 /\ x.unrecorded
  <2>1. work' = [work EXCEPT ![t] = Unlog(work[t])]
    BY <1>6, ThreadUpdates
  <2>2. x = Unlog(work[t]) /\ work' = [work EXCEPT ![t] = x]
    BY <2>1
  <2> HIDE DEF x
  <2> QED BY <2>2, <1>1, WorkUnlogged
<1>7. ASSUME Mirrored(t) \/ AddDivergence(t)
      PROVE  work' = [work EXCEPT ![t] = x] /\ x \in Works /\ Kept(w, x) /\ x.step = "row"
  <2>1. PICK ok \in BOOLEAN : work' = [work EXCEPT ![t] = Rowed(work[t], ok)]
    BY <1>7, ThreadUpdates
  <2>2. x = Rowed(work[t], ok) /\ work' = [work EXCEPT ![t] = x]
    BY <2>1
  <2> HIDE DEF x
  <2> QED BY <2>2, <1>1, WorkRowed
<1> HIDE DEF w, x
<1> USE DEF Kept, ThreadMoves
<1>8. CASE Commit(t) \/ CommitFails(t)
  <2>1. /\ w.step = "commit" /\ w.op \notin OperatorRoutes
        /\ \/ Proceed(t, "count") /\ w.op = "set"
           \/ Proceed(t, "post") \/ Return(t, 200) \/ Return(t, 500)
    BY <1>3, <1>8 DEF Commit, CommitFails, Mirror, w
  <2>2. CASE Proceed(t, "count") /\ w.op = "set"
    BY <2>1, <2>2, <1>2, <1>4 DEF Steps, w, x
  <2>3. CASE Proceed(t, "post")
    BY <2>1, <2>3, <1>2, <1>4 DEF Steps, w, x
  <2>4. CASE Return(t, 200)
    BY <2>1, <2>4, <1>2, <1>5 DEF w, x
  <2>5. CASE Return(t, 500)
    BY <2>1, <2>5, <1>2, <1>5 DEF w, x
  <2> QED BY <2>1, <2>2, <2>3, <2>4, <2>5
<1>19. CASE RecordUsage(t)
  <2>1. w.step = "count" /\ (Proceed(t, "post") \/ Return(t, 200) \/ ReturnUnrecorded(t))
    BY <1>19 DEF RecordUsage, Mirror, w
  <2>2. ~Acts(t)
    BY <2>1, <1>2, <1>3 DEF w
  <2>3. CASE Proceed(t, "post")
    BY <2>1, <2>2, <2>3, <1>4 DEF Steps, w, x
  <2>4. CASE Return(t, 200)
    BY <2>1, <2>2, <2>4, <1>5 DEF w, x
  <2>5. CASE ReturnUnrecorded(t)
    BY <2>1, <2>2, <2>5, <1>6 DEF w, x
  <2> QED BY <2>1, <2>3, <2>4, <2>5
<1>9. CASE MirrorPost(t)
  <2>1. PICK c \in FirstFree : work' = [work EXCEPT ![t].step = "posted", ![t].on = c]
    BY <1>9 DEF MirrorPost
  <2>2. work' = [work EXCEPT ![t] = Mirrors(w, c)]
    BY <2>1 DEF Mirrors, w
  <2>3. c \in Conns /\ w.step = "post"
    BY <1>9, FreeConn DEF MirrorPost, w
  <2>4. x = Mirrors(w, c) /\ work' = [work EXCEPT ![t] = x]
    BY <2>2, ThreadUpdated DEF x
  <2>5. x \in Works /\ Kept(w, x) /\ x.step = "posted" /\ x.on = c
    BY <2>3, <2>4, <1>1, WorkMirrors
  <2>6. ~Acts(t)
    BY <2>3, <1>2, <1>3 DEF w
  <2> QED BY <2>3, <2>4, <2>5, <2>6 DEF w, x
<1>10. CASE MirrorAnswer(t) \/ MirrorVerify(t) \/ MirrorFails(t)
  <2>1. /\ w.step \in {"post", "posted", "verify"}
        /\ Mirrored(t) \/ AddDivergence(t) \/ Proceed(t, "verify")
    BY <1>10 DEF MirrorAnswer, MirrorVerify, MirrorFails, w
  <2>2. ~Acts(t)
    BY <2>1, <1>2, <1>3 DEF w
  <2>3. CASE Proceed(t, "verify")
    BY <2>1, <2>2, <2>3, <1>4 DEF Steps, w, x
  <2>4. CASE Mirrored(t) \/ AddDivergence(t)
    BY <2>1, <2>2, <2>4, <1>7 DEF w, x
  <2> QED BY <2>1, <2>3, <2>4
<1>11. CASE ShadowRow(t)
  <2>1. w.step = "row" /\ (Return(t, 200) \/ ReturnUnrecorded(t))
    BY <1>11 DEF ShadowRow, w
  <2>2. ~Acts(t)
    BY <2>1, <1>2, <1>3 DEF w
  <2> QED BY <2>1, <2>2, <1>5, <1>6 DEF w, x
<1>12. CASE Refuse(t, cred)
  <2>1. w.step = "queued" /\ (Return(t, 401) \/ ReturnUnrecorded(t))
    BY <1>12 DEF Refuse, w
  <2>2. work' = [work EXCEPT ![t] = x] /\ x \in Works /\ Kept(w, x) /\ x.step = "done" /\ x.status # 200
    BY <2>1, <1>5, <1>6
  <2>3. ~Acts(t)
    BY <2>1, <2>2, <1>2
  <2> QED BY <2>1, <2>2, <2>3 DEF w, x
<1>13. CASE Write(t, cred)
  <2>1. w.step = "queued" /\ w.op \in {"set", "revoke"} /\ (Proceed(t, "commit") \/ Return(t, 403))
    BY <1>13 DEF Write, Starts, w
  <2>2. ~Acts(t)
    BY <2>1, <1>2, <1>3
  <2>3. CASE Proceed(t, "commit")
    BY <2>1, <2>2, <2>3, <1>4 DEF Steps, w, x
  <2>4. CASE Return(t, 403)
    BY <2>1, <2>2, <2>4, <1>5 DEF w, x
  <2> QED BY <2>1, <2>3, <2>4
<1>14. CASE Use(t, cred)
  <2>1. /\ w.step = "queued" /\ w.op = "use"
        /\ Proceed(t, "waiting") \/ Return(t, 400) \/ Return(t, 403) \/ Return(t, 404)
    BY <1>14 DEF Use, Starts, w
  <2>2. ~Acts(t)
    BY <2>1, <1>2, <1>3
  <2>3. CASE Proceed(t, "waiting")
    BY <2>1, <2>2, <2>3, <1>4 DEF Steps, w, x
  <2>4. CASE ~Proceed(t, "waiting")
    BY <2>1, <2>2, <2>4, <1>5 DEF w, x
  <2> QED BY <2>3, <2>4
<1>15. CASE Decide(t, cred)
  <2>1. w.step = "queued" /\ w.op \in OperatorRoutes /\ (Return(t, 400) \/ Return(t, 200))
    BY <1>15 DEF Decide, Starts, w
  <2>2. /\ work' = [work EXCEPT ![t] = x] /\ x \in Works /\ Kept(w, x) /\ x.step = "done"
        /\ x.status \in {200, 400}
    BY <2>1, <1>5
  <2>3. Acts(t) <=> x.status = 200
    BY <2>1, <1>2
  <2> QED BY <2>1, <2>2, <2>3 DEF w, x
<1>16. CASE Wake(t)
  <2>1. w.step = "waiting" /\ Proceed(t, "woken")
    BY <1>16 DEF Wake, w
  <2>2. ~Acts(t)
    BY <2>1, <1>2, <1>3 DEF w
  <2> QED BY <2>1, <2>2, <1>4 DEF Steps, w, x
<1>17. CASE Collect(t)
  <2>1. w.step = "woken" /\ (Proceed(t, "release") \/ Return(t, 403))
    BY <1>17 DEF Collect, w
  <2>2. ~Acts(t)
    BY <2>1, <1>2, <1>3 DEF w
  <2>3. CASE Proceed(t, "release")
    BY <2>1, <2>2, <2>3, <1>4 DEF Steps, w, x
  <2>4. CASE Return(t, 403)
    BY <2>1, <2>2, <2>4, <1>5 DEF w, x
  <2> QED BY <2>1, <2>3, <2>4
<1>18. CASE Release(t)
  <2>1. w.step = "release" /\ (Return(t, 404) \/ Return(t, 200) \/ Return(t, 500))
    BY <1>18 DEF Release, w
  <2>2. /\ work' = [work EXCEPT ![t] = x] /\ x \in Works /\ Kept(w, x) /\ x.step = "done"
        /\ x.status \in {200, 404, 500}
    BY <2>1, <1>5
  <2>3. Acts(t) <=> x.status # 404
    BY <2>1, <1>2, <1>3 DEF w
  <2> QED BY <2>1, <2>2, <2>3 DEF w, x
<1> QED BY <1>8, <1>9, <1>10, <1>11, <1>12, <1>13, <1>14, <1>15, <1>16, <1>17, <1>18, <1>19
        DEF MirrorStep, ServerStep

-----------------------------------------------------------------------------
LEMMA CallFields ==
  ASSUME NEW c \in Calls
  PROVE  /\ c.step \in {"idle", "arrived", "go", "python", "answered"}
         /\ c.op \in Operations /\ c.secret \in Names \cup {Absent}
         /\ c.value \in Values \cup {Absent} /\ c.cred \in Credentials \cup {Absent}
         /\ c.on \in Conns \cup {NoConn} /\ c.lost \in SUBSET {"go", "python"}
         /\ c.status \in {0, 200, 400, 401, 403, 404, 500, 502}
         /\ c.executed \in SUBSET {"go", "python"}
BY DEF Calls

KeptCall(c, y) == y.op = c.op /\ y.secret = c.secret /\ y.value = c.value /\ y.cred = c.cred

LEMMA CallStart ==
  /\ NoCall \in Calls /\ NoCall.step = "idle" /\ NoCall.on = NoConn /\ NoCall.executed = {} /\ NoCall.lost = {}
  /\ Idle \in Works /\ Idle.step = "idle" /\ Idle.op = "none"
<1>1. NoCall.step = "idle" /\ NoCall.on = NoConn /\ NoCall.executed = {} /\ NoCall.lost = {}
  BY DEF NoCall
<1>2. Idle.step = "idle" /\ Idle.op = "none"
  BY DEF Idle
<1>3. NoCall \in Calls
  BY DEF NoCall, Calls, Operations
<1>4. Idle \in Works
  <2> DEFINE no == FALSE
             yes == TRUE
  <2>1. /\ no \in BOOLEAN /\ yes \in BOOLEAN
        /\ Idle = [step |-> "idle", op |-> "none", secret |-> Absent, value |-> Absent,
                   on |-> NoConn, ok |-> yes, unrecorded |-> no, status |-> 0]
    BY DEF Idle
  <2> HIDE DEF no, yes
  <2> QED BY <2>1 DEF Works, Operations, Steps
<1> QED BY <1>1, <1>2, <1>3, <1>4

Asked(op, s, v, cred) ==
  [NoCall EXCEPT !.step = "arrived", !.op = op, !.secret = s, !.value = v, !.cred = cred]

LEMMA CallAsked ==
  ASSUME NEW op \in Operations, NEW s \in Names, NEW v \in Values \cup {Absent}, NEW cred \in Credentials
  PROVE  LET y == Asked(op, s, v, cred)
         IN /\ y \in Calls /\ y.step = "arrived" /\ y.op = op /\ y.secret = s /\ y.value = v /\ y.cred = cred
            /\ y.on = NoConn /\ y.executed = {} /\ y.lost = {}
<1> DEFINE a == [NoCall EXCEPT !.step = "arrived"]
           b == [a EXCEPT !.op = op]
           e == [b EXCEPT !.secret = s]
           f == [e EXCEPT !.value = v]
           y == [f EXCEPT !.cred = cred]
           Fresh(x) == x.on = NoConn /\ x.executed = {} /\ x.lost = {} /\ x.step = "arrived"
<1>1. y = Asked(op, s, v, cred)
  BY DEF Asked
<1>2. a \in Calls /\ Fresh(a)
  BY CallStart DEF Calls
<1> HIDE DEF a
<1>3. b \in Calls /\ Fresh(b) /\ b.op = op
  BY <1>2 DEF Calls
<1> HIDE DEF b
<1>4. e \in Calls /\ Fresh(e) /\ e.op = op /\ e.secret = s
  BY <1>3 DEF Calls
<1> HIDE DEF e
<1>5. f \in Calls /\ Fresh(f) /\ f.op = op /\ f.secret = s /\ f.value = v
  BY <1>4 DEF Calls
<1> HIDE DEF f
<1>6. y \in Calls /\ Fresh(y) /\ y.op = op /\ y.secret = s /\ y.value = v /\ y.cred = cred
  BY <1>5 DEF Calls
<1> HIDE DEF y
<1> QED BY <1>1, <1>6

Placed(c, s, on) == [c EXCEPT !.step = s, !.on = on]

LEMMA CallPlaced ==
  ASSUME NEW c \in Calls, NEW s \in {"go", "python"}, NEW on \in Conns \cup {NoConn}
  PROVE  LET y == Placed(c, s, on)
         IN /\ y \in Calls /\ KeptCall(c, y) /\ y.step = s /\ y.on = on
            /\ y.executed = c.executed /\ y.lost = c.lost /\ y.status = c.status
<1> DEFINE q == [c EXCEPT !.step = s]
           y == [q EXCEPT !.on = on]
<1>1. q \in Calls
  BY DEF Calls
<1>2. y \in Calls
  <2> HIDE DEF q
  <2> QED BY <1>1 DEF Calls
<1>3. /\ KeptCall(c, y) /\ y.step = s /\ y.on = on
      /\ y.executed = c.executed /\ y.lost = c.lost /\ y.status = c.status
  BY DEF Calls, KeptCall
<1> QED BY <1>2, <1>3 DEF Placed

Told200(c, s) == [c EXCEPT !.step = "answered", !.status = s, !.on = NoConn]

LEMMA CallAnswered ==
  ASSUME NEW c \in Calls, NEW s \in {0, 200, 400, 401, 403, 404, 500, 502}
  PROVE  LET y == Told200(c, s)
         IN /\ y \in Calls /\ KeptCall(c, y) /\ y.step = "answered" /\ y.on = NoConn
            /\ y.executed = c.executed /\ y.lost = c.lost /\ y.status = s
<1> DEFINE p == [c EXCEPT !.step = "answered"]
           q == [p EXCEPT !.status = s]
           y == [q EXCEPT !.on = NoConn]
<1>1. p \in Calls
  BY DEF Calls
<1>2. q \in Calls
  <2> HIDE DEF p
  <2> QED BY <1>1 DEF Calls
<1>3. y \in Calls
  <2> HIDE DEF q
  <2> QED BY <1>2 DEF Calls
<1>4. /\ KeptCall(c, y) /\ y.step = "answered" /\ y.on = NoConn
      /\ y.executed = c.executed /\ y.lost = c.lost /\ y.status = s
  BY DEF Calls, KeptCall
<1> QED BY <1>3, <1>4 DEF Told200

Lose(c, servers) == [c EXCEPT !.lost = servers]

LEMMA CallLost ==
  ASSUME NEW c \in Calls, NEW servers \in SUBSET {"go", "python"}
  PROVE  LET y == Lose(c, servers)
         IN /\ y \in Calls /\ KeptCall(c, y) /\ y.step = c.step /\ y.on = c.on
            /\ y.executed = c.executed /\ y.lost = servers /\ y.status = c.status
<1> DEFINE y == Lose(c, servers)
<1>1. y \in Calls
  BY DEF Calls, Lose
<1>2. KeptCall(c, y) /\ y.step = c.step /\ y.on = c.on /\ y.executed = c.executed /\ y.status = c.status
  BY DEF Calls, KeptCall, Lose
<1>3. y.lost = servers
  BY DEF Calls, Lose
<1> QED BY <1>1, <1>2, <1>3

Executed(c, server) == [c EXCEPT !.executed = @ \cup {server}]

LEMMA CallExecuted ==
  ASSUME NEW c \in Calls, NEW server \in {"go", "python"}
  PROVE  LET y == Executed(c, server)
         IN /\ y \in Calls /\ KeptCall(c, y) /\ y.step = c.step /\ y.on = c.on
            /\ y.executed = c.executed \cup {server} /\ y.lost = c.lost /\ y.status = c.status
<1> DEFINE y == Executed(c, server)
           e == c.executed \cup {server}
<1>1. y = [c EXCEPT !.executed = e] /\ e \in SUBSET {"go", "python"}
  BY CallFields DEF Executed
<1>2. y \in Calls
  <2> HIDE DEF e, y
  <2> QED BY <1>1 DEF Calls
<1>3. /\ KeptCall(c, y) /\ y.step = c.step /\ y.on = c.on
      /\ y.executed = e /\ y.lost = c.lost /\ y.status = c.status
  <2> HIDE DEF e, y
  <2> QED BY <1>1 DEF Calls, KeptCall
<1> HIDE DEF y
<1> QED BY <1>2, <1>3 DEF y

Received(op, s, v, cred) ==
  [Idle EXCEPT !.step = IF PassesCsrf(cred) THEN "queued" ELSE "done",
               !.status = IF PassesCsrf(cred) THEN 0 ELSE 403,
               !.op = op, !.secret = s, !.value = v]

LEMMA WorkReceived ==
  ASSUME NEW op \in Operations, NEW s \in Names \cup {Absent}, NEW v \in Values \cup {Absent}, NEW cred
  PROVE  LET x == Received(op, s, v, cred)
         IN /\ x \in Works /\ x.op = op /\ x.secret = s /\ x.value = v
            /\ x.step = "queued" \/ (x.step = "done" /\ x.status # 200)
<1> DEFINE step == IF PassesCsrf(cred) THEN "queued" ELSE "done"
           status == IF PassesCsrf(cred) THEN 0 ELSE 403
           a == [Idle EXCEPT !.step = step]
           b == [a EXCEPT !.status = status]
           e == [b EXCEPT !.op = op]
           f == [e EXCEPT !.secret = s]
           x == [f EXCEPT !.value = v]
<1>1. x = Received(op, s, v, cred)
  BY DEF Received
<1>2. step \in Steps /\ status \in {0, 403} /\ (step = "queued" \/ (step = "done" /\ status # 200))
  BY DEF Steps
<1> HIDE DEF step, status
<1>3. a \in Works /\ a.step = step
  BY <1>2, CallStart DEF Works
<1> HIDE DEF a
<1>4. b \in Works /\ b.step = step /\ b.status = status
  BY <1>2, <1>3 DEF Works
<1> HIDE DEF b
<1>5. e \in Works /\ e.step = step /\ e.status = status /\ e.op = op
  BY <1>4 DEF Works
<1> HIDE DEF e
<1>6. f \in Works /\ f.step = step /\ f.status = status /\ f.op = op /\ f.secret = s
  BY <1>5 DEF Works
<1> HIDE DEF f
<1>7. x \in Works /\ x.step = step /\ x.status = status /\ x.op = op /\ x.secret = s /\ x.value = v
  BY <1>6 DEF Works
<1> HIDE DEF x
<1> QED BY <1>1, <1>2, <1>7

-----------------------------------------------------------------------------
(* What every step of a client keeps.                                       *)

LEMMA ThreadKeeps ==
  ASSUME NEW d, NEW c, NEW w, ClientOK(d, c, w), NEW x, NEW acts \in BOOLEAN, ThreadMoves(w, x, acts)
  PROVE  /\ c.step = "python" \/ Left(c, w)
         /\ ClientOK(d, IF acts THEN Executed(c, "python") ELSE c, x)
<1> DEFINE y == IF acts THEN Executed(c, "python") ELSE c
<1>1. c \in Calls /\ w \in Works /\ x \in Works /\ CallOK(d, c, w) /\ Told(c, w)
  BY DEF ClientOK, ThreadMoves
<1>2. w.step \notin {"idle", "done"}
  BY DEF ThreadMoves
<1>3. c.step = "python" \/ Left(c, w)
  BY <1>1, <1>2, CallFields, CallStart DEF CallOK, Left
<1>4. /\ y \in Calls /\ KeptCall(c, y) /\ y.step = c.step /\ y.on = c.on
      /\ y.lost = c.lost /\ y.status = c.status
      /\ y.executed = IF acts THEN c.executed \cup {"python"} ELSE c.executed
  BY <1>1, <1>3, CallExecuted DEF KeptCall
<1> HIDE DEF y
<1>5. CallOK(d, y, x)
  <2>1. w.op = c.op /\ w.secret = c.secret /\ w.value = c.value /\ x.op = w.op /\ x.secret = w.secret /\ x.value = w.value
    BY <1>1, <1>3 DEF CallOK, ThreadMoves
  <2>2. x.step # "idle"
    BY DEF ThreadMoves
  <2>3. /\ x.step \in {"commit", "count", "post", "posted", "verify", "row"} => x.op \in {"set", "revoke"}
        /\ x.step = "count" => x.op = "set"
    BY <1>1, <2>1 DEF CallOK, ThreadMoves
  <2>4. x.step \in {"waiting", "woken", "release"} => x.op = "use"
    BY <1>1, <2>1 DEF CallOK, ThreadMoves
  <2>5. x.step = "posted" => x.on \in Conns
    BY DEF ThreadMoves
  <2> QED BY <1>1, <1>3, <1>4, <2>1, <2>2, <2>3, <2>4, <2>5 DEF CallOK, KeptCall, Left
<1>6. CASE c.step = "python"
  <2>1. "go" \in y.executed => "go" \in y.lost
    BY <1>1, <1>6, <1>4 DEF Told
  <2>2. Acted(x) => "python" \in y.executed
    <3>1. Acted(x) => acts \/ Acted(w)
      BY DEF ThreadMoves, Acted
    <3> QED BY <3>1, <1>1, <1>6, <1>4 DEF Told
  <2>3. Pending(x) => "python" \notin y.executed
    <3>1. Pending(x) => ~acts /\ Pending(w)
      BY DEF ThreadMoves, Pending
    <3> QED BY <3>1, <1>1, <1>6, <1>4 DEF Told
  <2>4. x.step = "done" /\ x.status # 200 /\ "python" \in y.executed =>
          x.unrecorded \/ (x.op = "use" /\ x.status = 500)
    <3> SUFFICES ASSUME x.step = "done", x.status # 200, "python" \in y.executed
                 PROVE  x.unrecorded \/ (x.op = "use" /\ x.status = 500)
      OBVIOUS
    <3>1. acts \/ ~Pending(w)
      BY <1>1, <1>6, <1>4 DEF Told
    <3>2. w.step \notin {"queued", "commit", "woken"} \/ acts
      BY <3>1 DEF Pending
    <3>3. w.step \in {"count", "row"} => x.unrecorded
      BY DEF ThreadMoves
    <3>4. w.step = "release" => x.op = "use" /\ x.status = 500
      BY <3>1, <1>1 DEF ThreadMoves, Pending, CallOK
    <3>5. w.step \in {"count", "row", "release"}
      BY <3>2 DEF ThreadMoves
    <3> QED BY <3>3, <3>4, <3>5
  <2>5. Told(y, x)
    BY <2>1, <2>2, <2>3, <2>4, <1>4, <1>6 DEF Told, Left
  <2> QED BY <1>1, <1>3, <1>4, <1>5, <2>5 DEF ClientOK, y
<1>7. CASE Left(c, w)
  <2>1. /\ y.step = "answered" /\ "python" \in y.lost /\ y.status # 200
        /\ "go" \in y.executed => "go" \in y.lost
    BY <1>1, <1>4, <1>7 DEF Told, Left
  <2>2. Told(y, x)
    BY <2>1 DEF Told, Left
  <2> QED BY <1>1, <1>3, <1>4, <1>5, <2>2 DEF ClientOK, y
<1> QED BY <1>3, <1>6, <1>7

LEMMA AskKeeps ==
  ASSUME NEW d, NEW c, NEW w, ClientOK(d, c, w), c.step = "idle", d \in {"dual_write", "cutover", "approval"},
         NEW op \in Operations, NEW s \in Names, NEW v \in Values \cup {Absent}, NEW cred \in Credentials,
         op = "set" => v \in Values, d = "cutover" => op \in GoOps /\ cred.token \in Tokens
  PROVE  ClientOK(d, Asked(op, s, v, cred), w)
<1>1. w \in Works /\ w = Idle
  BY DEF ClientOK, CallOK
<1>2. CallOK(d, Asked(op, s, v, cred), w)
  BY <1>1, CallAsked, CallStart DEF CallOK, Left
<1>3. Told(Asked(op, s, v, cred), w)
  BY CallAsked DEF Told, Left
<1> QED BY <1>1, <1>2, <1>3, CallAsked DEF ClientOK

LEMMA ToGoKeeps ==
  ASSUME NEW d, NEW c, NEW w, ClientOK(d, c, w), c.step = "arrived", d = "cutover", NEW k \in Conns
  PROVE  ClientOK(d, Placed(c, "go", k), w)
<1> DEFINE y == Placed(c, "go", k)
<1>1. /\ y \in Calls /\ KeptCall(c, y) /\ y.step = "go" /\ y.on = k
      /\ y.executed = c.executed /\ y.lost = c.lost
  BY CallPlaced DEF ClientOK
<1>2. c \in Calls /\ w \in Works /\ CallOK(d, c, w) /\ Told(c, w)
  BY DEF ClientOK
<1> HIDE DEF y
<1>3. w = Idle
  BY <1>2 DEF CallOK
<1>4. CallOK(d, y, w)
  BY <1>1, <1>2, <1>3, CallStart DEF CallOK, KeptCall, Left
<1>5. Told(y, w)
  BY <1>1, <1>2 DEF Told, Left
<1> QED BY <1>1, <1>2, <1>4, <1>5 DEF ClientOK, y

\* To Python, at once or after Go's transport failed.
LEMMA ToPythonKeeps ==
  ASSUME NEW d, NEW c, NEW w, ClientOK(d, c, w), c.step \in {"arrived", "go"}, NEW y \in Calls,
         KeptCall(c, y), y.step = "python", y.on = NoConn, y.executed = c.executed,
         "go" \in y.lost \/ (c.step = "arrived" /\ y.lost = c.lost)
  PROVE  ClientOK(d, y, Received(c.op, c.secret, c.value, c.cred))
<1> DEFINE x == Received(c.op, c.secret, c.value, c.cred)
<1>1. c \in Calls /\ CallOK(d, c, w) /\ Told(c, w)
  BY DEF ClientOK
<1>2. /\ c.op \in Operations /\ c.secret \in Names \cup {Absent} /\ c.value \in Values \cup {Absent}
  BY <1>1, CallFields
<1>3. /\ x \in Works /\ x.op = c.op /\ x.secret = c.secret /\ x.value = c.value
      /\ x.step = "queued" \/ (x.step = "done" /\ x.status # 200)
  <2> DEFINE op == c.op
             s == c.secret
             v == c.value
             cred == c.cred
  <2>1. op \in Operations /\ s \in Names \cup {Absent} /\ v \in Values \cup {Absent} /\ x = Received(op, s, v, cred)
    BY <1>2
  <2> HIDE DEF op, s, v, cred, x
  <2>2. /\ x \in Works /\ x.op = op /\ x.secret = s /\ x.value = v
        /\ x.step = "queued" \/ (x.step = "done" /\ x.status # 200)
    BY <2>1, WorkReceived
  <2> QED BY <2>2 DEF op, s, v
<1> HIDE DEF x
<1>4. CallOK(d, y, x)
  BY <1>1, <1>3 DEF CallOK, KeptCall, Left
<1>5. "python" \notin c.executed /\ ("go" \in c.executed => "go" \in y.lost)
  BY <1>1 DEF Told
<1>6. Told(y, x)
  BY <1>3, <1>5 DEF Told, Acted, Pending, Left
<1> QED BY <1>3, <1>4, <1>6 DEF ClientOK, x

LEMMA AnswerKeeps ==
  ASSUME NEW d, NEW c, NEW w, ClientOK(d, c, w), NEW y \in Calls, KeptCall(c, y), y.step = "answered",
         y.on = NoConn, y.executed = c.executed,
         \/ c.step = "go" /\ "go" \in y.lost /\ y.status # 200
         \/ c.step = "go" /\ (y.status = 200 <=> c.executed = {"go"})
         \/ c.step = "python" /\ w.step = "done" /\ y.status = w.status /\ y.lost = c.lost
         \/ c.step = "python" /\ y.lost = c.lost \cup {"python"} /\ y.status # 200
  PROVE  ClientOK(d, y, w)
<1>1. c \in Calls /\ w \in Works /\ CallOK(d, c, w) /\ Told(c, w) /\ c.executed \in SUBSET {"go", "python"}
  BY CallFields DEF ClientOK
<1>2. c.step = "go" => w.step = "idle"
  BY <1>1, CallStart DEF CallOK
<1>3. CallOK(d, y, w)
  BY <1>1, <1>2 DEF CallOK, KeptCall, Left
<1>4. Told(y, w)
  <2>1. CASE c.step = "go"
    <3>1. "python" \notin c.executed
      BY <1>1, <2>1 DEF Told
    <3>2. c.executed = {} \/ c.executed = {"go"}
      BY <1>1, <3>1
    <3> QED BY <2>1, <3>1, <3>2, <1>2 DEF Told, Left
  <2>3. CASE c.step = "python" /\ y.lost = c.lost \cup {"python"} /\ y.status # 200
    <3>1. "python" \in y.lost /\ ("go" \in c.executed => "go" \in y.lost)
      BY <1>1, <2>3 DEF Told
    <3> QED BY <3>1, <2>3 DEF Told
  <2>2. CASE c.step = "python" /\ w.step = "done" /\ y.status = w.status /\ y.lost = c.lost
    <3>1. y.lost = c.lost /\ y.status = w.status /\ w.step = "done" /\ w.op = c.op /\ y.op = c.op
      BY <2>2, <1>1 DEF CallOK, KeptCall
    <3>2. w.status = 200 => "python" \in c.executed
      BY <1>1, <2>2, <3>1 DEF Told, Acted
    <3>3. "go" \in c.executed => "go" \in c.lost
      BY <1>1, <2>2 DEF Told
    <3>4. w.status # 200 /\ "python" \in c.executed => w.unrecorded \/ (w.op = "use" /\ w.status = 500)
      BY <1>1, <2>2, <3>1 DEF Told
    <3>5. c.executed # {} => "go" \in c.executed \/ "python" \in c.executed
      BY <1>1
    <3> QED BY <3>1, <3>2, <3>3, <3>4, <3>5 DEF Told, Left
  <2> QED BY <2>1, <2>2, <2>3
<1> QED BY <1>1, <1>3, <1>4 DEF ClientOK

LEMMA GoExecutesKeeps ==
  ASSUME NEW d, NEW c, NEW w, ClientOK(d, c, w), c.step = "go"
  PROVE  ClientOK(d, Executed(c, "go"), w)
<1> DEFINE y == Executed(c, "go")
<1>1. c \in Calls /\ w \in Works /\ CallOK(d, c, w) /\ Told(c, w)
  BY DEF ClientOK
<1>2. /\ y \in Calls /\ KeptCall(c, y) /\ y.step = "go" /\ y.on = c.on
      /\ y.executed = c.executed \cup {"go"} /\ y.lost = c.lost
  BY <1>1, CallExecuted
<1> HIDE DEF y
<1>3. CallOK(d, y, w)
  BY <1>1, <1>2 DEF CallOK, KeptCall, Left
<1>4. Told(y, w)
  BY <1>1, <1>2 DEF Told, Left
<1> QED BY <1>1, <1>2, <1>3, <1>4 DEF ClientOK, y

LEMMA FreshClient == ASSUME NEW d PROVE ClientOK(d, NoCall, Idle)
<1>1. CallOK(d, NoCall, Idle)
  BY CallStart DEF CallOK, Left
<1>2. Told(NoCall, Idle)
  BY CallStart DEF Told, Left
<1> QED BY <1>1, <1>2, CallStart DEF ClientOK

-----------------------------------------------------------------------------
(***************************************************************************)
(* The whole: types, clients, and who holds which connection.              *)
(***************************************************************************)

Held(o) == o # Closed /\ o.awaited

\* A call at Go and its connection: what Go did is in `executed`.
AtGo(c, o) ==
  c.step = "go" =>
    /\ Held(o)
    /\ o.step = "sent" => c.executed = {}
    /\ o.step \in {"audit", "epoch"} => c.executed = {"go"}
    /\ o.step = "answered" => (o.status = 200 <=> c.executed = {"go"})

\* A mirror and its connection.
AtMirror(w, o) ==
  w.step = "posted" => Held(o) /\ o.op = w.op /\ o.secret = w.secret /\ o.value = w.value

\* A connection has one holder.
Apart(t, u) ==
  /\ call[t].step = "go" /\ call[u].step = "go" /\ call[t].on = call[u].on => t = u
  /\ work[t].step = "posted" /\ work[u].step = "posted" /\ work[t].on = work[u].on => t = u
  /\ call[t].step = "go" /\ work[u].step = "posted" => call[t].on # work[u].on

Links ==
  /\ \A t \in Clients : AtGo(call[t], conn[call[t].on]) /\ AtMirror(work[t], conn[work[t].on])
  /\ \A t, u \in Clients : Apart(t, u)
  /\ \A c \in rotating : Held(conn[c])

ClientsInv ==
  /\ call \in [Clients -> Calls] /\ work \in [Clients -> Works]
  /\ \A t \in Clients : ClientOK(deployment, call[t], work[t])

ShadowInv ==
  /\ shadowing \in BOOLEAN /\ rows \in [Names -> Values \cup {Absent}]
  /\ divergent \subseteq Names /\ excused \subseteq Names /\ unsettled \subseteq Names

Places ==
  /\ deployment \in Deployments /\ made \in Nat
  /\ goPercent \in 0..100 /\ (goPercent > 0 => deployment = "cutover")
  /\ shadowing => deployment \in {"dual_write", "cutover"}
  /\ Served => rotating = {}

\* The terminal: its types, what its keys rely on, and lists that can be sorted.
TuiInv ==
  /\ TuiTypeOK /\ CursorInRange /\ TimersArmed
  /\ IsFiniteSet(secrets)
  /\ \A l \in Loaders : loads[l] # NoLoad => IsFiniteSet(loads[l].list)

DInv ==
  /\ Places /\ GoTypes /\ ShadowInv /\ ServerTypeOK /\ ClientsInv /\ Links /\ TuiInv

LEMMA ClientStep ==
  ASSUME ClientsInv, NEW t \in Clients, NEW y, NEW x, ClientOK(deployment, y, x),
         call' = [call EXCEPT ![t] = y], work' = [work EXCEPT ![t] = x], deployment' = deployment
  PROVE  /\ ClientsInv' /\ call'[t] = y /\ work'[t] = x
         /\ \A u \in Clients \ {t} : call'[u] = call[u] /\ work'[u] = work[u]
<1>1. y \in Calls /\ x \in Works
  BY DEF ClientOK
<1>2. call' \in [Clients -> Calls] /\ work' \in [Clients -> Works]
  BY <1>1 DEF ClientsInv
<1>3. call'[t] = y /\ work'[t] = x /\ \A u \in Clients \ {t} : call'[u] = call[u] /\ work'[u] = work[u]
  BY DEF ClientsInv
<1>4. ASSUME NEW u \in Clients PROVE ClientOK(deployment', call'[u], work'[u])
  <2>1. CASE u = t
    BY <2>1, <1>3
  <2>2. CASE u # t
    BY <2>2, <1>3 DEF ClientsInv
  <2> QED BY <2>1, <2>2
<1> QED BY <1>2, <1>3, <1>4 DEF ClientsInv

LEMMA SameClients ==
  ASSUME ClientsInv, UNCHANGED <<call, work, deployment>>
  PROVE  ClientsInv'
BY DEF ClientsInv

LEMMA OneCall ==
  ASSUME ClientsInv, NEW t \in Clients
  PROVE  /\ call[t] \in Calls /\ work[t] \in Works /\ ClientOK(deployment, call[t], work[t])
         /\ call = [call EXCEPT ![t] = call[t]] /\ work = [work EXCEPT ![t] = work[t]]
BY DEF ClientsInv

\* Nobody takes a connection.
LEMMA LinksKept ==
  ASSUME Links,
         \A t \in Clients : call'[t].step = "go" =>
            call[t].step = "go" /\ call'[t].on = call[t].on /\ AtGo(call'[t], conn'[call[t].on]),
         \A t \in Clients : work'[t].step = "posted" =>
            work[t].step = "posted" /\ work'[t].on = work[t].on /\ AtMirror(work'[t], conn'[work[t].on]),
         \A c \in rotating' : Held(conn'[c])
  PROVE  Links'
<1>1. ASSUME NEW t \in Clients PROVE AtGo(call'[t], conn'[call'[t].on]) /\ AtMirror(work'[t], conn'[work'[t].on])
  <2>1. AtGo(call'[t], conn'[call'[t].on])
    <3>1. CASE call'[t].step = "go"
      BY <3>1
    <3>2. CASE call'[t].step # "go"
      BY <3>2 DEF AtGo
    <3> QED BY <3>1, <3>2
  <2>2. AtMirror(work'[t], conn'[work'[t].on])
    <3>1. CASE work'[t].step = "posted"
      BY <3>1
    <3>2. CASE work'[t].step # "posted"
      BY <3>2 DEF AtMirror
    <3> QED BY <3>1, <3>2
  <2> QED BY <2>1, <2>2
<1>2. ASSUME NEW t \in Clients, NEW u \in Clients PROVE Apart(t, u)'
  BY DEF Links, Apart
<1> QED BY <1>1, <1>2 DEF Links

\* Who holds a connection sees it open.
LEMMA Holders ==
  ASSUME Links, NEW c, conn[c] = Closed
  PROVE  /\ \A t \in Clients : call[t].step = "go" => call[t].on # c
         /\ \A t \in Clients : work[t].step = "posted" => work[t].on # c
         /\ c \notin rotating
BY DEF Links, AtGo, AtMirror, Held

\* A connection that nobody held opens.
LEMMA LinksOpen ==
  ASSUME Links, GoTypes, ClientsInv, NEW c \in Conns, NEW r, conn[c] = Closed, conn' = [conn EXCEPT ![c] = r],
         UNCHANGED <<call, work>>, rotating' = rotating \/ (Held(r) /\ rotating' = rotating \cup {c})
  PROVE  Links'
<1>1. conn'[c] = r /\ \A d : d # c => conn'[d] = conn[d]
  <2>1. conn \in [Conns -> Opened \cup {Closed}]
    BY DEF GoTypes, GoTypeOK
  <2> QED BY <2>1
<1>2. ASSUME NEW t \in Clients, call'[t].step = "go"
      PROVE  call[t].step = "go" /\ call'[t].on = call[t].on /\ AtGo(call'[t], conn'[call[t].on])
  BY <1>1, <1>2, Holders DEF Links
<1>3. ASSUME NEW t \in Clients, work'[t].step = "posted"
      PROVE  work[t].step = "posted" /\ work'[t].on = work[t].on /\ AtMirror(work'[t], conn'[work[t].on])
  BY <1>1, <1>3, Holders DEF Links
<1>4. ASSUME NEW d \in rotating' PROVE Held(conn'[d])
  BY <1>1, <1>4, Holders DEF Links
<1> QED BY <1>2, <1>3, <1>4, LinksKept

\* No connection moves, and nobody takes one.
LEMMA LinksStill ==
  ASSUME Links, NEW t \in Clients, UNCHANGED <<conn, rotating>>,
         \A u \in Clients \ {t} : call'[u] = call[u] /\ work'[u] = work[u],
         call'[t].step # "go" \/ call'[t] = call[t],
         \/ work'[t].step # "posted"
         \/ work'[t] = work[t]
  PROVE  Links'
<1>1. ASSUME NEW u \in Clients, call'[u].step = "go"
      PROVE  call[u].step = "go" /\ call'[u].on = call[u].on /\ AtGo(call'[u], conn'[call[u].on])
  BY <1>1 DEF Links
<1>2. ASSUME NEW u \in Clients, work'[u].step = "posted"
      PROVE  work[u].step = "posted" /\ work'[u].on = work[u].on /\ AtMirror(work'[u], conn'[work[u].on])
  BY <1>2 DEF Links
<1>3. ASSUME NEW c \in rotating' PROVE Held(conn'[c])
  BY <1>3 DEF Links
<1> QED BY <1>1, <1>2, <1>3, LinksKept

LEMMA SamePlaces ==
  ASSUME Places, UNCHANGED <<deployment, made, goPercent, shadowing, rotating>>
  PROVE  Places'
BY DEF Places, Served

LEMMA SameTui == ASSUME TuiInv, UNCHANGED tuiVars PROVE TuiInv' /\ rotating' = rotating
BY DEF TuiInv, TuiTypeOK, CursorInRange, TimersArmed, tuiVars

LEMMA SameServer == ASSUME ServerTypeOK, UNCHANGED serverVars PROVE ServerTypeOK'
BY DEF ServerTypeOK, serverVars

LEMMA SameShadow == ASSUME ShadowInv, UNCHANGED <<shadowing, rows, divergent, excused, unsettled>> PROVE ShadowInv'
BY DEF ShadowInv

LEMMA SameGo == ASSUME GoTypes, UNCHANGED goVars PROVE GoTypes'
BY DEF GoTypes, GoTypeOK, goVars

LEMMA GoTypesByConn ==
  ASSUME GoTypes, UNCHANGED <<goStore, goLog, goEpoch, goToken, goRestarts, goMixed>>,
         conn' \in [Conns -> Opened \cup {Closed}], \A d \in Conns : SetHasValue(conn'[d])
  PROVE  GoTypes'
BY DEF GoTypes, GoTypeOK

\* Only a call at Go names a connection.
LEMMA AtConn ==
  ASSUME ClientsInv, NEW t \in Clients
  PROVE  call[t].step = "go" <=> call[t].on \in Conns
<1>1. call[t] \in Calls /\ CallOK(deployment, call[t], work[t])
  BY DEF ClientsInv, ClientOK
<1> QED BY <1>1, ShadowAssumption DEF CallOK

LEMMA MovesHeld ==
  ASSUME NEW o \in Opened, NEW p, Moves(o, p), o.awaited
  PROVE  Held(p) /\ p \in Opened /\ Same(o, p)
<1>1. p \in Opened /\ Same(o, p)
  BY DEF Moves
<1> QED BY <1>1, OpenedNotClosed DEF Held, Same

LEMMA GoStepKeeps ==
  ASSUME DInv, NEW c \in Conns, GoStep(c), Servers
  PROVE  DInv'
<1> USE DEF DInv
<1> DEFINE o == conn[c]
           p == conn'[c]
           Does == o.step = "sent" /\ p.step = "audit"
<1>1. /\ Handle(c) /\ o \in Opened /\ conn' = [conn EXCEPT ![c] = p] /\ Moves(o, p) /\ GoTypes'
  BY HandleMoves, HandleTypes DEF GoStep
<1>2. \A d \in Conns : d # c => conn'[d] = conn[d]
  BY <1>1 DEF GoTypes, GoTypeOK
<1>3. UNCHANGED <<shadowing, rows, divergent, unsettled, work, excused, serverVars, goPercent, deployment, made, tuiVars>>
  BY DEF GoStep, Servers, pythonVars, shadowVars
<1>4. ShadowInv' /\ ServerTypeOK' /\ TuiInv' /\ rotating' = rotating
  BY <1>3, SameShadow, SameServer, SameTui
<1>5. Places'
  BY <1>3, <1>4, SamePlaces
<1> HIDE DEF o, p
<1>6. ASSUME NEW t \in Clients, call[t].on = c
      PROVE  /\ call[t].step = "go" /\ Held(o) /\ Held(p) /\ p \in Opened
             /\ \A u \in Clients : call[u].on = c => u = t
  <2>1. call[t].step = "go"
    BY <1>6, AtConn
  <2>2. Held(o)
    BY <2>1, <1>6 DEF Links, AtGo, o
  <2>3. Held(p) /\ p \in Opened
    BY <2>2, <1>1, MovesHeld DEF Held
  <2>4. \A u \in Clients : call[u].on = c => u = t
    BY <2>1, <1>6, AtConn DEF Links, Apart
  <2> QED BY <2>1, <2>2, <2>3, <2>4
<1>7. /\ ClientsInv'
      /\ \A t \in Clients : call[t].on # c => call'[t] = call[t]
      /\ \A t \in Clients : call[t].on = c =>
           call'[t] = IF Does THEN Executed(call[t], "go") ELSE call[t]
  <2>1. CASE Does /\ \E t \in Clients : call[t].on = c
    <3> DEFINE t == CHOOSE t \in Clients : call[t].on = c
               y == Executed(call[t], "go")
    <3>1. t \in Clients /\ call[t].on = c
      BY <2>1
    <3>2. Did(t, "go")
      BY <2>1 DEF GoStep, o, p
    <3> HIDE DEF t
    <3>3. call' = [call EXCEPT ![t] = y]
      BY <3>2 DEF Did, Executed
    <3>4. ClientOK(deployment, y, work[t])
      BY <3>1, <1>6, OneCall, GoExecutesKeeps
    <3>5. work' = [work EXCEPT ![t] = work[t]]
      BY <3>1, <1>3, OneCall
    <3> HIDE DEF y
    <3>6. ClientsInv' /\ call'[t] = y /\ \A u \in Clients \ {t} : call'[u] = call[u]
      BY <3>1, <3>3, <3>4, <3>5, <1>3, ClientStep
    <3> QED BY <3>1, <3>6, <1>6, <2>1 DEF y
  <2>2. CASE ~(Does /\ \E t \in Clients : call[t].on = c)
    <3>1. UNCHANGED call
      BY <2>2 DEF GoStep, o, p
    <3> QED BY <3>1, <2>2, <1>3, SameClients
  <2> QED BY <2>1, <2>2
<1>8. ASSUME NEW t \in Clients, call'[t].step = "go"
      PROVE  call[t].step = "go" /\ call'[t].on = call[t].on /\ AtGo(call'[t], conn'[call[t].on])
  <2>1. CASE call[t].on # c
    <3>1. call'[t] = call[t]
      BY <2>1, <1>7
    <3>2. call[t].on \in Conns
      BY <3>1, <1>8, AtConn
    <3>3. conn'[call[t].on] = conn[call[t].on]
      BY <3>2, <2>1, <1>2
    <3> QED BY <3>1, <3>3, <1>8 DEF Links
  <2>2. CASE call[t].on = c
    <3>1. /\ call[t].step = "go" /\ Held(o) /\ Held(p) /\ p \in Opened
          /\ call'[t] = IF Does THEN Executed(call[t], "go") ELSE call[t]
      BY <2>2, <1>6, <1>7
    <3>2. AtGo(call[t], o)
      BY <2>2 DEF Links, o
    <3>3. /\ call'[t].on = call[t].on
          /\ call'[t].executed = IF Does THEN call[t].executed \cup {"go"} ELSE call[t].executed
      BY <3>1, OneCall, CallExecuted
    <3>4. o.step = "sent" => call[t].executed = {}
      BY <3>1, <3>2 DEF AtGo
    <3>5. o.step \in {"audit", "epoch"} => call[t].executed = {"go"}
      BY <3>1, <3>2 DEF AtGo
    <3>6. AtGo(call'[t], p)
      <4>1. p.step = "audit" => Does
        BY <1>1, <3>1 DEF Moves, Held
      <4>2. p.step = "epoch" => o.step = "audit" /\ ~Does
        BY <1>1, <3>1 DEF Moves, Held
      <4>3. p.step = "answered" => /\ ~Does
                                   /\ (p.status = 200 /\ o.step \in {"audit", "epoch"}) \/ (p.status # 200 /\ o.step = "sent")
        BY <1>1, <3>1 DEF Moves, Held
      <4>4. p.step # "sent"
        BY <1>1, <3>1 DEF Moves, Held
      <4> HIDE DEF Does
      <4>5. p.step = "audit" => call'[t].executed = {"go"}
        <5>1. Does => o.step = "sent"
          BY DEF Does
        <5> QED BY <3>3, <3>4, <4>1, <5>1
      <4>6. p.step = "epoch" => call'[t].executed = {"go"}
        BY <3>3, <3>5, <4>2
      <4>7. p.step = "answered" => (p.status = 200 <=> call'[t].executed = {"go"})
        BY <3>3, <3>4, <3>5, <4>3
      <4> QED BY <3>1, <4>4, <4>5, <4>6, <4>7 DEF AtGo
    <3> QED BY <3>1, <3>3, <3>6, <2>2 DEF p
  <2> QED BY <2>1, <2>2
<1>9. ASSUME NEW t \in Clients, work'[t].step = "posted"
      PROVE  work[t].step = "posted" /\ work'[t].on = work[t].on /\ AtMirror(work'[t], conn'[work[t].on])
  <2>1. work'[t] = work[t] /\ AtMirror(work[t], conn[work[t].on]) /\ work[t].on \in Conns
    BY <1>3, <1>9 DEF Links, ClientsInv, ClientOK, CallOK
  <2>2. CASE work[t].on # c
    BY <2>1, <2>2, <1>2, <1>9
  <2>3. CASE work[t].on = c
    <3>1. Held(o)
      BY <2>1, <2>3, <1>9 DEF AtMirror, o
    <3>2. Held(p) /\ Same(o, p)
      BY <3>1, <1>1, MovesHeld DEF Held
    <3> QED BY <3>2, <2>1, <2>3, <1>9 DEF AtMirror, Same, o, p
  <2> QED BY <2>2, <2>3
<1>10. ASSUME NEW d \in rotating' PROVE Held(conn'[d])
  <2>1. Held(conn[d]) /\ d \in Conns
    BY <1>10, <1>4 DEF Links, TuiInv, TuiTypeOK
  <2>2. CASE d # c
    BY <2>1, <2>2, <1>2
  <2>3. CASE d = c
    BY <2>1, <2>3, <1>1, MovesHeld DEF Held, o, p
  <2> QED BY <2>2, <2>3
<1>11. Links'
  BY <1>8, <1>9, <1>10, LinksKept
<1> QED BY <1>1, <1>4, <1>5, <1>7, <1>11

\* A client gives back the connection it held.
LEMMA LinksLeft ==
  ASSUME Links, GoTypes, ClientsInv, Places, NEW t \in Clients, NEW k \in Conns, NEW p,
         conn' = [conn EXCEPT ![k] = p],
         \/ call[t].step = "go" /\ call[t].on = k
         \/ work[t].step = "posted" /\ work[t].on = k,
         \A u \in Clients \ {t} : call'[u] = call[u] /\ work'[u] = work[u],
         call'[t].step # "go", work'[t].step # "posted", rotating' = rotating
  PROVE  Links'
<1>1. \A d : d # k => conn'[d] = conn[d]
  BY DEF GoTypes, GoTypeOK
<1>2. \A u \in Clients \ {t} : /\ call[u].step = "go" => call[u].on # k
                               /\ work[u].step = "posted" => work[u].on # k
  BY DEF Links, Apart
<1>3. rotating = {}
  <2>1. call[t].step # "idle"
    BY CallStart DEF ClientsInv, ClientOK, CallOK
  <2> QED BY <2>1 DEF ClientsInv, ClientOK, CallOK, Places, Served
<1>4. ASSUME NEW u \in Clients, call'[u].step = "go"
      PROVE  call[u].step = "go" /\ call'[u].on = call[u].on /\ AtGo(call'[u], conn'[call[u].on])
  <2>1. u # t /\ call'[u] = call[u]
    BY <1>4
  <2> QED BY <2>1, <1>1, <1>2, <1>4 DEF Links
<1>5. ASSUME NEW u \in Clients, work'[u].step = "posted"
      PROVE  work[u].step = "posted" /\ work'[u].on = work[u].on /\ AtMirror(work'[u], conn'[work[u].on])
  <2>1. u # t /\ work'[u] = work[u]
    BY <1>5
  <2> QED BY <2>1, <1>1, <1>2, <1>5 DEF Links
<1> QED BY <1>3, <1>4, <1>5, LinksKept

\* A client takes a free connection.
LEMMA LinksTaken ==
  ASSUME Links, GoTypes, ClientsInv, NEW t \in Clients, NEW k \in Conns, NEW r,
         conn[k] = Closed, conn' = [conn EXCEPT ![k] = r],
         \A u \in Clients \ {t} : call'[u] = call[u] /\ work'[u] = work[u],
         \/ call'[t].step = "go" /\ call'[t].on = k /\ AtGo(call'[t], r) /\ work'[t].step # "posted"
         \/ work'[t].step = "posted" /\ work'[t].on = k /\ AtMirror(work'[t], r) /\ call'[t].step # "go",
         rotating' = rotating
  PROVE  Links'
<1>1. conn'[k] = r /\ \A d : d # k => conn'[d] = conn[d]
  BY DEF GoTypes, GoTypeOK
<1>2. /\ \A u \in Clients : call[u].step = "go" => call[u].on # k
      /\ \A u \in Clients : work[u].step = "posted" => work[u].on # k
      /\ k \notin rotating
  BY Holders
<1>3. ASSUME NEW u \in Clients PROVE AtGo(call'[u], conn'[call'[u].on]) /\ AtMirror(work'[u], conn'[work'[u].on])
  <2>1. CASE u = t
    BY <2>1, <1>1 DEF AtGo, AtMirror
  <2>2. CASE u # t
    <3>1. call'[u] = call[u] /\ work'[u] = work[u] /\ AtGo(call[u], conn[call[u].on]) /\ AtMirror(work[u], conn[work[u].on])
      BY <2>2 DEF Links
    <3>2. AtGo(call[u], conn'[call[u].on])
      BY <3>1, <1>1, <1>2 DEF AtGo
    <3>3. AtMirror(work[u], conn'[work[u].on])
      BY <3>1, <1>1, <1>2 DEF AtMirror
    <3> QED BY <3>1, <3>2, <3>3
  <2> QED BY <2>1, <2>2
<1>4. ASSUME NEW u \in Clients, NEW v \in Clients PROVE Apart(u, v)'
  <2>1. Apart(u, v)
    BY DEF Links
  <2>2. CASE u # t /\ v # t
    BY <2>1, <2>2 DEF Apart
  <2>3. CASE u = t /\ v = t
    BY <2>3 DEF Apart
  <2>4. CASE u = t /\ v # t
    BY <2>4, <1>2 DEF Apart
  <2>5. CASE u # t /\ v = t
    BY <2>5, <1>2 DEF Apart
  <2> QED BY <2>2, <2>3, <2>4, <2>5
<1>5. ASSUME NEW d \in rotating' PROVE Held(conn'[d])
  BY <1>1, <1>2, <1>5 DEF Links
<1> QED BY <1>3, <1>4, <1>5 DEF Links

LEMMA ConnClosed ==
  ASSUME NEW k, conn[k] = Closed PROVE conn[k].step = "closed"
BY DEF Closed

LEMMA PythonStepKeeps ==
  ASSUME DInv, NEW t \in Clients, PythonStep(t), Servers
  PROVE  DInv'
<1> USE DEF DInv
<1> DEFINE c == call[t]
           w == work[t]
           x == work'[t]
           y == IF Acts(t) THEN Executed(c, "python") ELSE c
<1>1. /\ MirrorStep(t) \/ ServerStep(t, call[t].cred)
      /\ UNCHANGED <<goStore, goLog, goEpoch, goToken, goRestarts, goMixed, shadowing, goPercent, deployment, made, tuiVars>>
  BY DEF PythonStep, Servers, MirrorStep, Commit, CommitFails, RecordUsage, MirrorPost, MirrorAnswer, MirrorVerify, MirrorFails, ShadowRow,
         ServerStep, Refuse, Write, Use, Decide, Wake, Collect, Release, goVars, serverVars
<1>2. c \in Calls /\ w \in Works /\ ClientOK(deployment, c, w)
  BY OneCall
<1>3. work' = [work EXCEPT ![t] = x] /\ ThreadMoves(w, x, Acts(t))
  <2>1. /\ w.step \in {"commit", "count", "post", "posted", "verify", "row"} => w.op \in {"set", "revoke"}
        /\ w.step = "count" => w.op = "set"
    BY <1>2 DEF ClientOK, CallOK
  <2>2. w.step \in {"waiting", "woken", "release"} => w.op = "use"
    BY <1>2 DEF ClientOK, CallOK
  <2> QED BY <1>1, <2>1, <2>2, ThreadSteps DEF ClientsInv
<1>4. Acts(t) \in BOOLEAN
  BY DEF Acts
<1> HIDE DEF x
<1>5. (c.step = "python" \/ Left(c, w)) /\ ClientOK(deployment, y, x)
  BY <1>2, <1>3, <1>4, ThreadKeeps
<1>6. call' = [call EXCEPT ![t] = y]
  BY OneCall DEF PythonStep, Did, Executed
<1>7. y.step \in {"python", "answered"}
  BY <1>2, <1>5, CallExecuted DEF Left
<1> HIDE DEF y
<1>8. /\ ClientsInv' /\ call'[t] = y /\ \A u \in Clients \ {t} : call'[u] = call[u] /\ work'[u] = work[u]
  BY <1>1, <1>3, <1>5, <1>6, ClientStep
<1>9. TuiInv' /\ rotating' = rotating
  BY <1>1, SameTui
<1>10. Places'
  BY <1>1, <1>9, SamePlaces
<1>11. /\ w.secret \in Names /\ (w.op = "set" => w.value \in Values)
  BY <1>2, <1>5 DEF ClientOK, CallOK, Left
<1>12. ShadowInv'
  <2>1. rows' \in [Names -> Values \cup {Absent}]
    <3>1. CASE Commit(t)
      <4>1. rows' = [rows EXCEPT ![w.secret] = IF w.op = "set" THEN w.value ELSE Absent]
        BY <3>1 DEF Commit
      <4> QED BY <4>1, <1>11 DEF ShadowInv
    <3>2. CASE ~Commit(t)
      <4>1. rows' = rows
        BY <3>2, <1>1 DEF MirrorStep, CommitFails, RecordUsage, MirrorPost, MirrorAnswer, MirrorVerify, MirrorFails, ShadowRow,
               ServerStep, Refuse, Write, Use, Decide, Wake, Collect, Release
      <4> QED BY <4>1 DEF ShadowInv
    <3> QED BY <3>1, <3>2
  <2>2. divergent' = divergent \/ divergent' = divergent \cup {w.secret}
    BY <1>1 DEF MirrorStep, Commit, CommitFails, RecordUsage, MirrorPost, MirrorAnswer, MirrorVerify, MirrorFails, ShadowRow, Mirrored, AddDivergence,
                ServerStep, Refuse, Write, Use, Decide, Wake, Collect, Release
  <2>3. excused' = excused \/ excused' = excused \cup {w.secret}
    BY <1>1 DEF MirrorStep, Commit, CommitFails, RecordUsage, MirrorPost, MirrorAnswer, MirrorVerify, MirrorFails, ShadowRow,
                ServerStep, Refuse, Write, Use, Decide, Wake, Collect, Release
  <2>4. unsettled' \subseteq unsettled \cup {w.secret}
    BY <1>1 DEF MirrorStep, Commit, CommitFails, RecordUsage, MirrorPost, MirrorAnswer, MirrorVerify, MirrorFails, ShadowRow,
                ServerStep, Refuse, Write, Use, Decide, Wake, Collect, Release
  <2> QED BY <1>1, <1>11, <2>1, <2>2, <2>3, <2>4 DEF ShadowInv
<1>13. ServerTypeOK'
  <2>1. CASE MirrorStep(t) /\ UNCHANGED serverVars
    BY <2>1, SameServer
  <2>2. CASE ServerStep(t, call[t].cred)
    <3>1. UNCHANGED <<threads, operatorStore>>
      BY <2>2 DEF ServerStep, Refuse, Write, Use, Decide, Wake, Collect, Release, serverVars
    <3>2. \/ answer' = answer
          \/ answer' = [answer EXCEPT ![t] = "none"]
          \/ \E r \in Clients, a \in {"approved", "denied"} : answer' = [answer EXCEPT ![r] = a]
      BY <2>2 DEF ServerStep, Refuse, Write, Use, Decide, Wake, Collect, Release, serverVars
    <3> QED BY <3>1, <3>2 DEF ServerTypeOK
  <2> QED BY <2>1, <2>2 DEF PythonStep
<1>14. GoTypes' /\ Links'
  <2>1. CASE MirrorPost(t)
    <3>1. PICK k \in FirstFree :
               /\ Connect(k, Request(w.op, w.secret, w.value, ShadowToken))
               /\ work' = [work EXCEPT ![t].step = "posted", ![t].on = k]
      BY <2>1 DEF MirrorPost
    <3> DEFINE r == Request(w.op, w.secret, w.value, ShadowToken)
    <3>2. w.op \in {"set", "revoke"} /\ w.value \in Values \cup {Absent}
      BY <1>2, <2>1, WorkFields DEF ClientOK, CallOK, MirrorPost
    <3>3. r \in Opened /\ SetHasValue(r) /\ r.op = w.op /\ r.secret = w.secret /\ r.value = w.value /\ r.awaited
      <4> DEFINE op == w.op
                 s == w.secret
                 v == w.value
      <4>1. /\ op \in GoOps /\ s \in Names /\ v \in Values \cup {Absent} /\ (op = "set" => v \in Values)
            /\ ShadowToken \in Tokens /\ r = Request(op, s, v, ShadowToken)
        BY <3>2, <1>11, ShadowAssumption DEF GoOps, Mutations
      <4> HIDE DEF op, s, v, r
      <4>2. r \in Opened /\ SetHasValue(r) /\ r.op = op /\ r.secret = s /\ r.value = v /\ r.awaited
        BY <4>1, RequestOpened
      <4> QED BY <4>2 DEF op, s, v
    <3>4. k \in Conns
      BY FreeConn
    <3>5. work' = [work EXCEPT ![t] = Mirrors(w, k)]
      BY <3>1 DEF Mirrors
    <3>6. x = Mirrors(w, k)
      BY <3>5, ThreadUpdated DEF x, ClientsInv
    <3>7. x.step = "posted" /\ x.on = k /\ Kept(w, x)
      BY <3>6, <3>4, <1>2, WorkMirrors
    <3> HIDE DEF r
    <3>8. /\ conn[k] = Closed /\ conn' = [conn EXCEPT ![k] = conn'[k]] /\ conn'[k] = r
          /\ conn' \in [Conns -> Opened \cup {Closed}]
          /\ \A d \in Conns : SetHasValue(conn'[d])
      BY <3>1, <3>3, <3>4, ConnectOpens DEF r
    <3>9. GoTypes'
      BY <3>8, <1>1, GoTypesByConn
    <3>10. conn' = [conn EXCEPT ![k] = r]
      BY <3>8
    <3>11. AtMirror(x, r)
      BY <3>3, <3>7, OpenedNotClosed DEF AtMirror, Held, Kept
    <3>12. Links'
      BY <3>4, <3>7, <3>8, <3>10, <3>11, <1>7, <1>8, <1>9, LinksTaken DEF x
    <3> QED BY <3>9, <3>12
  <2>2. CASE w.step = "posted"
    <3> DEFINE k == w.on
    <3>1. k \in Conns /\ conn[k] # Closed
      BY <2>2, <1>2 DEF ClientOK, CallOK, Links, AtMirror, Held
    <3>2. Disconnect(k) \/ Abandon(k)
      BY <2>2, <1>1 DEF MirrorStep, Commit, CommitFails, RecordUsage, MirrorPost, MirrorAnswer, MirrorVerify, MirrorFails, ShadowRow,
                        ServerStep, Refuse, Write, Use, Decide, Wake, Collect, Release, Starts
    <3>3. /\ conn' = [conn EXCEPT ![k] = conn'[k]]
          /\ conn'[k] \in Opened \cup {Closed} /\ SetHasValue(conn'[k])
      BY <3>1, <3>2, AbandonLeaves
    <3>4. x.step # "posted"
      <4>1. \/ Proceed(t, "verify")
            \/ Mirrored(t) \/ AddDivergence(t)
        BY <2>2, <1>1 DEF MirrorStep, Commit, CommitFails, RecordUsage, MirrorPost, MirrorAnswer, MirrorVerify, MirrorFails, ShadowRow,
                        ServerStep, Refuse, Write, Use, Decide, Wake, Collect, Release, Starts
      <4>2. CASE Proceed(t, "verify")
        <5>1. x = Stepped(w, "verify")
          BY <4>2, ThreadUpdates, ThreadUpdated DEF x, ClientsInv
        <5> QED BY <5>1, <1>2, WorkStepped DEF Steps
      <4>3. CASE Mirrored(t) \/ AddDivergence(t)
        <5>1. PICK ok \in BOOLEAN : work' = [work EXCEPT ![t] = Rowed(w, ok)]
          BY <4>3, ThreadUpdates DEF ClientsInv
        <5>2. x = Rowed(w, ok)
          BY <5>1, ThreadUpdated DEF x, ClientsInv
        <5> QED BY <5>2, <1>2, WorkRowed
      <4> QED BY <4>1, <4>2, <4>3
    <3>5. GoTypes'
      <4> DEFINE q == conn'[k]
      <4>1. q \in Opened \cup {Closed} /\ SetHasValue(q) /\ conn' = [conn EXCEPT ![k] = q]
        BY <3>3
      <4> HIDE DEF q
      <4> QED BY <4>1, <3>1, <1>1, ConnTypes, GoTypesByConn
    <3>6. Links'
      <4> DEFINE q == conn'[k]
      <4>1. conn' = [conn EXCEPT ![k] = q]
        BY <3>3
      <4> HIDE DEF q
      <4> QED BY <4>1, <3>1, <3>4, <2>2, <1>7, <1>8, <1>9, LinksLeft DEF x
    <3> QED BY <3>5, <3>6
  <2>3. CASE ~MirrorPost(t) /\ w.step # "posted"
    <3>1. conn' = conn
      BY <2>3, <1>1 DEF MirrorStep, Commit, CommitFails, RecordUsage, MirrorPost, MirrorAnswer, MirrorVerify, MirrorFails, ShadowRow,
                        ServerStep, Refuse, Write, Use, Decide, Wake, Collect, Release, goVars
    <3>2. x.step # "posted"
      <4>1. CASE w.step \in {"post", "verify"}
        <5>1. Mirrored(t) \/ AddDivergence(t)
          BY <2>3, <4>1, <1>1 DEF MirrorStep, Commit, CommitFails, RecordUsage, MirrorPost, MirrorAnswer, MirrorVerify, MirrorFails, ShadowRow,
                        ServerStep, Refuse, Write, Use, Decide, Wake, Collect, Release, Starts
        <5>2. PICK ok \in BOOLEAN : work' = [work EXCEPT ![t] = Rowed(w, ok)]
          BY <5>1, ThreadUpdates DEF ClientsInv
        <5>3. x = Rowed(w, ok)
          BY <5>2, ThreadUpdated DEF x, ClientsInv
        <5> QED BY <5>3, <1>2, WorkRowed
      <4>2. CASE w.step \notin {"post", "posted", "verify"}
        BY <4>2, <1>3 DEF ThreadMoves
      <4> QED BY <4>1, <4>2, <2>3
    <3>3. GoTypes'
      BY <3>1, <1>1, SameGo DEF goVars
    <3>4. Links'
      BY <3>1, <3>2, <1>7, <1>8, <1>9, LinksStill DEF x
    <3> QED BY <3>3, <3>4
  <2> QED BY <2>1, <2>2, <2>3
<1> QED BY <1>8, <1>9, <1>10, <1>12, <1>13, <1>14

-----------------------------------------------------------------------------
(* The gateway.                                                             *)

LEMMA ArriveKeeps ==
  ASSUME DInv, Served, MakeCall, NEW t \in Clients, NEW i \in Inputs[deployment],
         Arrive(t, i.op, i.secret, i.value, i.cred)
  PROVE  DInv'
<1> USE DEF DInv
<1> DEFINE c == call[t]
           y == Asked(i.op, i.secret, i.value, i.cred)
<1>1. /\ i.op \in Operations /\ i.secret \in Names /\ i.value \in Values \cup {Absent} /\ i.cred \in Credentials
      /\ i.op = "set" => i.value \in Values
      /\ deployment = "cutover" => i.op \in GoOps /\ i.cred.token \in Tokens
      /\ deployment \in {"dual_write", "cutover", "approval"}
  BY DeploymentAssumption DEF Served, Places
<1>2. /\ UNCHANGED <<goVars, shadowVars, serverVars, goPercent, deployment, tuiVars>> /\ made' = made + 1
      /\ c.step = "idle" /\ call' = [call EXCEPT ![t] = y]
  BY DEF MakeCall, Arrive, Asked, pythonVars
<1>3. ClientOK(deployment, c, work[t]) /\ work = [work EXCEPT ![t] = work[t]]
  BY OneCall
<1>4. y.step = "arrived" /\ ClientOK(deployment, y, work[t])
  <2> DEFINE op == i.op
             s == i.secret
             v == i.value
             cred == i.cred
             w == work[t]
  <2>1. /\ op \in Operations /\ s \in Names /\ v \in Values \cup {Absent} /\ cred \in Credentials
        /\ op = "set" => v \in Values
        /\ deployment = "cutover" => op \in GoOps /\ cred.token \in Tokens
        /\ y = Asked(op, s, v, cred) /\ ClientOK(deployment, c, w)
    BY <1>1, <1>3
  <2> HIDE DEF op, s, v, cred, w, c
  <2>2. Asked(op, s, v, cred).step = "arrived" /\ ClientOK(deployment, Asked(op, s, v, cred), w)
    BY <2>1, <1>1, <1>2, AskKeeps, CallAsked DEF c
  <2> QED BY <2>1, <2>2 DEF w
<1> HIDE DEF y
<1>5. ClientsInv' /\ call'[t] = y /\ \A u \in Clients \ {t} : call'[u] = call[u] /\ work'[u] = work[u]
  BY <1>2, <1>3, <1>4, ClientStep DEF shadowVars
<1>6. GoTypes' /\ ShadowInv' /\ ServerTypeOK' /\ TuiInv' /\ rotating' = rotating
  BY <1>2, SameGo, SameShadow, SameServer, SameTui DEF shadowVars
<1>7. Places'
  BY <1>2, <1>6 DEF Places, Served, shadowVars
<1>8. Links'
  BY <1>2, <1>4, <1>5, <1>6, LinksStill DEF goVars, shadowVars
<1> QED BY <1>5, <1>6, <1>7, <1>8

LEMMA ReceiveSets ==
  ASSUME NEW t, NEW op, NEW s, NEW v, NEW cred, Receive(t, op, s, v, cred)
  PROVE  work' = [work EXCEPT ![t] = Received(op, s, v, cred)]
BY DEF Receive, Received

LEMMA ServeKeeps ==
  ASSUME DInv, NEW t \in Clients, ServeHTTP(t), Servers
  PROVE  DInv'
<1> USE DEF DInv
<1> DEFINE c == call[t]
           w == work[t]
<1>1. /\ UNCHANGED <<goStore, goLog, goEpoch, goToken, goRestarts, goMixed, shadowing, rows, divergent, unsettled,
                     serverVars, goPercent, deployment, made, tuiVars>>
      /\ c.step = "arrived"
  BY DEF ServeHTTP, Servers
<1>2. c \in Calls /\ w \in Works /\ ClientOK(deployment, c, w) /\ w = Idle /\ c.secret \in Names
      /\ work = [work EXCEPT ![t] = w]
  BY <1>1, OneCall DEF ClientOK, CallOK
<1>3. ServerTypeOK' /\ TuiInv' /\ rotating' = rotating
  BY <1>1, SameServer, SameTui
<1>4. Places'
  BY <1>1, <1>3, SamePlaces
<1>5. CASE \E n \in Draws : /\ n < goPercent
                            /\ \E k \in FirstFree :
                                 /\ Connect(k, Request(c.op, c.secret, c.value, c.cred.token))
                                 /\ call' = [call EXCEPT ![t].step = "go", ![t].on = k]
                            /\ Differs(t)
                            /\ UNCHANGED work
  <2>1. PICK n \in Draws : /\ n < goPercent
                           /\ \E k \in FirstFree :
                                /\ Connect(k, Request(c.op, c.secret, c.value, c.cred.token))
                                /\ call' = [call EXCEPT ![t].step = "go", ![t].on = k]
                           /\ Differs(t)
                           /\ UNCHANGED work
    BY <1>5
  <2>2. PICK k \in FirstFree :
                /\ Connect(k, Request(c.op, c.secret, c.value, c.cred.token))
                /\ call' = [call EXCEPT ![t].step = "go", ![t].on = k]
    BY <2>1
  <2>3. deployment = "cutover" /\ k \in Conns
    <3>1. n \in Nat /\ goPercent \in Nat
      BY GatewayAssumption DEF Places
    <3> QED BY <2>1, <3>1, FreeConn DEF Places
  <2> DEFINE y == Placed(c, "go", k)
             r == Request(c.op, c.secret, c.value, c.cred.token)
  <2>4. call' = [call EXCEPT ![t] = y]
    BY <2>2 DEF Placed
  <2>5. r \in Opened /\ SetHasValue(r) /\ r.step = "sent" /\ r.awaited
    <3> DEFINE op == c.op
               s == c.secret
               v == c.value
               token == c.cred.token
    <3>1. /\ op \in GoOps /\ s \in Names /\ v \in Values \cup {Absent} /\ token \in Tokens
          /\ op = "set" => v \in Values
          /\ r = Request(op, s, v, token)
      BY <1>1, <1>2, <2>3, CallFields DEF ClientOK, CallOK
    <3> HIDE DEF op, s, v, token, r
    <3> QED BY <3>1, RequestOpened
  <2>6. /\ y.step = "go" /\ y.on = k /\ y.executed = c.executed
        /\ ClientOK(deployment, y, w)
    BY <1>1, <1>2, <2>3, ToGoKeeps, CallPlaced
  <2> HIDE DEF y, r
  <2>7. ClientsInv' /\ call'[t] = y /\ work'[t] = w /\ \A u \in Clients \ {t} : call'[u] = call[u] /\ work'[u] = work[u]
    BY <1>1, <1>2, <2>1, <2>4, <2>6, ClientStep
  <2>8. /\ conn[k] = Closed /\ conn' = [conn EXCEPT ![k] = conn'[k]] /\ conn'[k] = r
        /\ conn' \in [Conns -> Opened \cup {Closed}]
        /\ \A d \in Conns : SetHasValue(conn'[d])
    BY <2>2, <2>3, <2>5, ConnectOpens DEF r
  <2>9. GoTypes'
    BY <2>8, <1>1, GoTypesByConn
  <2>10. conn' = [conn EXCEPT ![k] = r]
    BY <2>8
  <2>11. AtGo(y, r)
    <3>1. c.executed = {}
      BY <1>1, <1>2 DEF ClientOK, Told
    <3> QED BY <2>5, <2>6, <3>1, OpenedNotClosed DEF AtGo, Held
  <2>12. Links'
    <3>1. w.step # "posted"
      BY <1>2, CallStart
    <3>2. call'[t].step = "go" /\ call'[t].on = k /\ AtGo(call'[t], r) /\ work'[t].step # "posted"
      BY <3>1, <2>6, <2>7, <2>11
    <3>3. Links /\ GoTypes /\ ClientsInv /\ conn[k] = Closed /\ rotating' = rotating
      BY <1>3, <2>8
    <3> HIDE DEF DInv, c, w
    <3> QED BY <3>2, <3>3, <2>3, <2>7, <2>10, LinksTaken
  <2>13. ShadowInv'
    BY <1>1, <1>2, <2>1 DEF ShadowInv, Differs
  <2> QED BY <1>3, <1>4, <2>7, <2>9, <2>12, <2>13
<1>6. CASE \E n \in Draws : ToPython(t) /\ UNCHANGED <<conn, excused>>
  <2> DEFINE y == Placed(c, "python", NoConn)
             x == Received(c.op, c.secret, c.value, c.cred)
  <2>1. call' = [call EXCEPT ![t] = y] /\ UNCHANGED <<conn, excused>>
    BY <1>6 DEF ToPython, Placed
  <2>2. work' = [work EXCEPT ![t] = x]
    BY <1>6, ReceiveSets DEF ToPython
  <2>3. /\ y \in Calls /\ KeptCall(c, y) /\ y.step = "python" /\ y.on = NoConn
        /\ y.executed = c.executed /\ y.lost = c.lost
    BY <1>2, CallPlaced
  <2>4. x.step # "posted"
    <3> DEFINE op == c.op
               s == c.secret
               v == c.value
               cred == c.cred
    <3>1. op \in Operations /\ s \in Names \cup {Absent} /\ v \in Values \cup {Absent} /\ x = Received(op, s, v, cred)
      BY <1>2, CallFields
    <3> HIDE DEF op, s, v, cred, x
    <3> QED BY <3>1, WorkReceived
  <2> HIDE DEF y
  <2>5. ClientOK(deployment, y, x)
    BY <1>1, <1>2, <2>3, ToPythonKeeps
  <2> HIDE DEF x
  <2>6. ClientsInv' /\ call'[t] = y /\ work'[t] = x /\ \A u \in Clients \ {t} : call'[u] = call[u] /\ work'[u] = work[u]
    BY <1>1, <2>1, <2>2, <2>5, ClientStep
  <2>7. GoTypes' /\ ShadowInv'
    BY <1>1, <2>1, SameGo, SameShadow DEF goVars
  <2>8. Links'
    BY <1>3, <2>1, <2>3, <2>4, <2>6, LinksStill
  <2> QED BY <1>3, <1>4, <2>6, <2>7, <2>8
<1> QED BY <1>5, <1>6 DEF ServeHTTP

LEMMA GoAnswersKeeps ==
  ASSUME DInv, NEW t \in Clients, GoAnswers(t), Servers
  PROVE  DInv'
<1> USE DEF DInv
<1> DEFINE c == call[t]
           w == work[t]
           k == c.on
           o == conn[k]
           y == Told200(c, o.status)
<1>1. /\ UNCHANGED <<goStore, goLog, goEpoch, goToken, goRestarts, goMixed, shadowVars,
                     serverVars, goPercent, deployment, made, tuiVars>>
      /\ c.step = "go" /\ o.step = "answered" /\ Disconnect(k) /\ call' = [call EXCEPT ![t] = y]
  BY DEF GoAnswers, Servers, Answered, Told200, pythonVars
<1>2. c \in Calls /\ ClientOK(deployment, c, w) /\ w.step = "idle" /\ work = [work EXCEPT ![t] = w]
  BY <1>1, OneCall, CallStart DEF ClientOK, CallOK
<1>3. k \in Conns /\ o \in Opened
  <2>1. k \in Conns
    BY <1>1, AtConn
  <2>2. o # Closed
    BY <1>1, ConnClosed
  <2> QED BY <2>1, <2>2 DEF GoTypes, GoTypeOK
<1>4. o.status = 200 <=> c.executed = {"go"}
  BY <1>1 DEF Links, AtGo
<1> HIDE DEF o
<1>5. o.status \in {0, 200, 401, 404, 500}
  BY <1>3, OpenedFields
<1>6. /\ y \in Calls /\ KeptCall(c, y) /\ y.step = "answered" /\ y.on = NoConn
      /\ y.executed = c.executed /\ y.status = o.status
  BY <1>2, <1>5, CallAnswered
<1> HIDE DEF y
<1>7. ClientOK(deployment, y, w)
  BY <1>1, <1>2, <1>4, <1>6, AnswerKeeps
<1>8. ClientsInv' /\ call'[t] = y /\ work'[t] = w /\ \A u \in Clients \ {t} : call'[u] = call[u] /\ work'[u] = work[u]
  BY <1>1, <1>2, <1>7, ClientStep DEF shadowVars
<1>9. ShadowInv' /\ ServerTypeOK' /\ TuiInv' /\ rotating' = rotating
  BY <1>1, SameShadow, SameServer, SameTui DEF shadowVars
<1>10. Places'
  BY <1>1, <1>9, SamePlaces DEF shadowVars
<1>11. conn' = [conn EXCEPT ![k] = Closed]
  BY <1>1 DEF Disconnect
<1>12. GoTypes'
  BY <1>1, <1>3, <1>11, ConnTypes, GoTypesByConn DEF SetHasValue
<1>13. Links'
  <2>1. call[t].step = "go" /\ call[t].on = k /\ call'[t].step # "go" /\ work'[t].step # "posted"
    BY <1>1, <1>2, <1>6, <1>8
  <2> HIDE DEF k, c, w
  <2> QED BY <2>1, <1>3, <1>8, <1>9, <1>11, LinksLeft
<1> QED BY <1>8, <1>9, <1>10, <1>12, <1>13

LEMMA PythonAnswersKeeps ==
  ASSUME DInv, NEW t \in Clients, PythonAnswers(t), Servers
  PROVE  DInv'
<1> USE DEF DInv
<1> DEFINE c == call[t]
           w == work[t]
           y == Told200(c, w.status)
<1>1. /\ UNCHANGED <<goVars, shadowVars, serverVars, goPercent, deployment, made, tuiVars>>
      /\ c.step = "python" /\ w.step = "done" /\ call' = [call EXCEPT ![t] = y]
  BY DEF PythonAnswers, Servers, Answered, Told200, pythonVars
<1>2. c \in Calls /\ ClientOK(deployment, c, w) /\ work = [work EXCEPT ![t] = w] /\ w \in Works
  BY <1>1, OneCall
<1>3. w.status \in {0, 200, 400, 401, 403, 404, 500}
  BY <1>2, WorkFields
<1>4. /\ y \in Calls /\ KeptCall(c, y) /\ y.step = "answered" /\ y.on = NoConn
      /\ y.executed = c.executed /\ y.status = w.status /\ y.lost = c.lost
  BY <1>2, <1>3, CallAnswered
<1> HIDE DEF y
<1>5. ClientOK(deployment, y, w)
  BY <1>1, <1>2, <1>4, AnswerKeeps
<1>6. ClientsInv' /\ call'[t] = y /\ work'[t] = w /\ \A u \in Clients \ {t} : call'[u] = call[u] /\ work'[u] = work[u]
  BY <1>1, <1>2, <1>5, ClientStep DEF shadowVars
<1>7. GoTypes' /\ ShadowInv' /\ ServerTypeOK' /\ TuiInv' /\ rotating' = rotating
  BY <1>1, SameGo, SameShadow, SameServer, SameTui DEF shadowVars
<1>8. Places'
  BY <1>1, <1>7, SamePlaces DEF shadowVars
<1>9. Links'
  BY <1>1, <1>4, <1>6, <1>7, LinksStill DEF goVars
<1> QED BY <1>6, <1>7, <1>8, <1>9

LEMMA PythonFailsKeeps ==
  ASSUME DInv, NEW t \in Clients, PythonFails(t), Servers
  PROVE  DInv'
<1> USE DEF DInv
<1> DEFINE c == call[t]
           w == work[t]
           lost == c.lost \cup {"python"}
           y == Lose(Told200(c, 502), lost)
<1>1. /\ UNCHANGED <<goVars, shadowing, rows, divergent, excused, unsettled, serverVars, goPercent, deployment, made, tuiVars>>
      /\ c.step = "python" /\ call' = [call EXCEPT ![t] = y]
      /\ (w.step = "queued" /\ work' = [work EXCEPT ![t] = Idle]) \/ UNCHANGED work
  BY DEF PythonFails, Servers, Answered, Told200, Lose
<1>2. c \in Calls /\ ClientOK(deployment, c, w) /\ work = [work EXCEPT ![t] = w]
  BY <1>1, OneCall
<1>3. lost \in SUBSET {"go", "python"}
  BY <1>2, CallFields
<1>4. /\ y \in Calls /\ KeptCall(c, y) /\ y.step = "answered" /\ y.on = NoConn
      /\ y.executed = c.executed /\ y.status = 502 /\ y.lost = lost
  <2> DEFINE q == Told200(c, 502)
  <2>1. q \in Calls /\ KeptCall(c, q) /\ q.step = "answered" /\ q.on = NoConn /\ q.executed = c.executed /\ q.status = 502
    BY <1>2, CallAnswered
  <2> HIDE DEF q, lost
  <2> QED BY <2>1, <1>3, CallLost DEF KeptCall, q
<1> HIDE DEF y
<1>5. ClientOK(deployment, y, w)
  BY <1>1, <1>2, <1>4, AnswerKeeps
<1>6. w.step = "queued" => ClientOK(deployment, y, Idle)
  <2>1. w.step = "queued" => "python" \notin c.executed
    BY <1>1, <1>2 DEF ClientOK, Told, Pending
  <2>2. CallOK(deployment, y, Idle)
    BY <1>4, <1>5, CallStart DEF ClientOK, CallOK, Left
  <2>3. w.step = "queued" => Told(y, Idle)
    BY <1>4, <1>5, <2>1, CallStart DEF ClientOK, Told, Left
  <2> QED BY <1>4, <2>2, <2>3, CallStart DEF ClientOK
<1>7. /\ ClientsInv' /\ call'[t] = y /\ work'[t] \in {w, Idle}
      /\ \A u \in Clients \ {t} : call'[u] = call[u] /\ work'[u] = work[u]
  <2>1. CASE w.step = "queued" /\ work' = [work EXCEPT ![t] = Idle]
    BY <2>1, <1>1, <1>6, ClientStep
  <2>2. CASE UNCHANGED work
    <3>1. work' = [work EXCEPT ![t] = w]
      BY <2>2, <1>2
    <3> HIDE DEF w, c
    <3>2. /\ ClientsInv' /\ call'[t] = y /\ work'[t] = w
          /\ \A u \in Clients \ {t} : call'[u] = call[u] /\ work'[u] = work[u]
      BY <3>1, <1>1, <1>5, ClientStep
    <3> QED BY <3>2
  <2> QED BY <1>1, <2>1, <2>2
<1>8. GoTypes' /\ ShadowInv' /\ ServerTypeOK' /\ TuiInv' /\ rotating' = rotating
  BY <1>1, SameGo, SameShadow, SameServer, SameTui
<1>9. Places'
  BY <1>1, <1>8, SamePlaces
<1>10. Links'
  BY <1>1, <1>4, <1>7, <1>8, CallStart, LinksStill DEF goVars
<1> QED BY <1>7, <1>8, <1>9, <1>10

LEMMA DoneKeeps ==
  ASSUME DInv, NEW t \in Clients, Done(t), Servers
  PROVE  DInv'
<1> USE DEF DInv
<1>1. /\ UNCHANGED <<goVars, shadowing, rows, divergent, excused, unsettled, serverVars, goPercent, deployment, made, tuiVars>>
      /\ call' = [call EXCEPT ![t] = NoCall] /\ work' = [work EXCEPT ![t] = Idle]
  BY DEF Done, Servers
<1>2. /\ ClientsInv' /\ call'[t] = NoCall /\ work'[t] = Idle
      /\ \A u \in Clients \ {t} : call'[u] = call[u] /\ work'[u] = work[u]
  BY <1>1, FreshClient, ClientStep
<1>3. GoTypes' /\ ShadowInv' /\ ServerTypeOK' /\ TuiInv' /\ rotating' = rotating
  BY <1>1, SameGo, SameShadow, SameServer, SameTui
<1>4. Places'
  BY <1>1, <1>3, SamePlaces
<1>5. Links'
  BY <1>1, <1>2, <1>3, CallStart, LinksStill DEF goVars
<1> QED BY <1>2, <1>3, <1>4, <1>5

LEMMA GoFailsKeeps ==
  ASSUME DInv, NEW t \in Clients, GoFails(t), Servers
  PROVE  DInv'
<1> USE DEF DInv
<1> DEFINE c == call[t]
           w == work[t]
           k == c.on
           go == {"go"}
           y == Lose(Placed(c, "python", NoConn), go)
           z == Lose(Told200(c, 502), go)
           x == Received(c.op, c.secret, c.value, c.cred)
<1>1. /\ UNCHANGED <<goStore, goLog, goEpoch, goToken, goRestarts, goMixed, shadowing, rows, divergent, excused, unsettled,
                     serverVars, goPercent, deployment, made, tuiVars>>
      /\ c.step = "go" /\ (Disconnect(k) \/ Abandon(k))
  BY DEF GoFails, Servers
<1>2. c \in Calls /\ w \in Works /\ ClientOK(deployment, c, w) /\ w.step = "idle" /\ work = [work EXCEPT ![t] = w]
  BY <1>1, OneCall, CallStart DEF ClientOK, CallOK
<1>3. k \in Conns /\ conn[k] # Closed
  BY <1>1, AtConn DEF Links, AtGo, Held
<1>4. \/ work' = [work EXCEPT ![t] = x] /\ call' = [call EXCEPT ![t] = y]
      \/ work' = work /\ call' = [call EXCEPT ![t] = z]
  <2>1. CASE /\ Receive(t, c.op, c.secret, c.value, c.cred)
             /\ call' = [call EXCEPT ![t].step = "python", ![t].on = NoConn, ![t].lost = {"go"}]
    <3>1. work' = [work EXCEPT ![t] = x]
      BY <2>1, ReceiveSets
    <3>2. call' = [call EXCEPT ![t] = y]
      <4> DEFINE b == [call EXCEPT ![t].step = "python", ![t].on = NoConn]
                 q == Placed(c, "python", NoConn)
      <4>1. b = [call EXCEPT ![t] = q]
        BY DEF Placed
      <4>2. call' = [b EXCEPT ![t].lost = go]
        BY <2>1
      <4>3. y = [q EXCEPT !.lost = go]
        BY DEF Lose
      <4> HIDE DEF go, b, q, y
      <4> QED BY <4>1, <4>2, <4>3 DEF ClientsInv
    <3> QED BY <3>1, <3>2
  <2>2. CASE call' = [call EXCEPT ![t] = [Answered(t, 502) EXCEPT !.lost = {"go"}]] /\ UNCHANGED work
    BY <2>2 DEF Answered, Told200, Lose
  <2> QED BY <2>1, <2>2 DEF GoFails
<1>5. /\ y \in Calls /\ KeptCall(c, y) /\ y.step = "python" /\ y.on = NoConn /\ y.executed = c.executed /\ y.lost = go
  <2> DEFINE q == Placed(c, "python", NoConn)
  <2>1. q \in Calls /\ KeptCall(c, q) /\ q.step = "python" /\ q.on = NoConn /\ q.executed = c.executed
    BY <1>2, CallPlaced
  <2> HIDE DEF q
  <2>2. go \in SUBSET {"go", "python"}
    OBVIOUS
  <2> HIDE DEF go
  <2> QED BY <2>1, <2>2, CallLost DEF KeptCall, q
<1>6. /\ z \in Calls /\ KeptCall(c, z) /\ z.step = "answered" /\ z.on = NoConn /\ z.executed = c.executed
      /\ z.lost = go /\ z.status = 502
  <2> DEFINE q == Told200(c, 502)
  <2>1. q \in Calls /\ KeptCall(c, q) /\ q.step = "answered" /\ q.on = NoConn /\ q.executed = c.executed /\ q.status = 502
    BY <1>2, CallAnswered
  <2> HIDE DEF q
  <2>2. go \in SUBSET {"go", "python"}
    OBVIOUS
  <2> HIDE DEF go
  <2> QED BY <2>1, <2>2, CallLost DEF KeptCall, q
<1>7. x.step # "posted"
  <2> DEFINE op == c.op
             s == c.secret
             v == c.value
             cred == c.cred
  <2>1. op \in Operations /\ s \in Names \cup {Absent} /\ v \in Values \cup {Absent} /\ x = Received(op, s, v, cred)
    BY <1>2, CallFields
  <2> HIDE DEF op, s, v, cred, x
  <2> QED BY <2>1, WorkReceived
<1> HIDE DEF y, z
<1>8. ClientOK(deployment, y, x) /\ ClientOK(deployment, z, w)
  BY <1>1, <1>2, <1>5, <1>6, ToPythonKeeps, AnswerKeeps
<1> HIDE DEF x
<1>9. /\ ClientsInv' /\ call'[t].step # "go" /\ work'[t].step # "posted"
      /\ \A u \in Clients \ {t} : call'[u] = call[u] /\ work'[u] = work[u]
  <2>0. deployment' = deployment /\ y.step # "go" /\ z.step # "go" /\ w.step # "posted"
    BY <1>1, <1>2, <1>5, <1>6
  <2>1. CASE work' = [work EXCEPT ![t] = x] /\ call' = [call EXCEPT ![t] = y]
    <3>1. /\ ClientsInv' /\ call'[t] = y /\ work'[t] = x
          /\ \A u \in Clients \ {t} : call'[u] = call[u] /\ work'[u] = work[u]
      BY <2>0, <2>1, <1>8, ClientStep
    <3> QED BY <2>0, <3>1, <1>7
  <2>2. CASE work' = work /\ call' = [call EXCEPT ![t] = z]
    <3>0. work' = [work EXCEPT ![t] = w]
      BY <2>2, <1>2
    <3> HIDE DEF w
    <3>1. /\ ClientsInv' /\ call'[t] = z /\ work'[t] = w
          /\ \A u \in Clients \ {t} : call'[u] = call[u] /\ work'[u] = work[u]
      BY <2>0, <2>2, <3>0, <1>8, ClientStep
    <3> QED BY <2>0, <3>1
  <2> QED BY <1>4, <2>1, <2>2
<1>10. ShadowInv' /\ ServerTypeOK' /\ TuiInv' /\ rotating' = rotating
  BY <1>1, SameShadow, SameServer, SameTui
<1>11. Places'
  BY <1>1, <1>10, SamePlaces
<1> DEFINE q == conn'[k]
<1>12. q \in Opened \cup {Closed} /\ SetHasValue(q) /\ conn' = [conn EXCEPT ![k] = q]
  BY <1>1, <1>3, AbandonLeaves
<1> HIDE DEF q
<1>13. GoTypes'
  BY <1>1, <1>3, <1>12, ConnTypes, GoTypesByConn
<1>14. Links'
  BY <1>1, <1>3, <1>9, <1>10, <1>12, LinksLeft
<1> QED BY <1>9, <1>10, <1>11, <1>13, <1>14

-----------------------------------------------------------------------------
(***************************************************************************)
(* The terminal.                                                           *)
(***************************************************************************)

LEMMA ListFinite ==
  ASSUME GoTypes, NEW ns
  PROVE  ListSecrets(ns) \subseteq Stored /\ IsFiniteSet(ListSecrets(ns))
<1> DEFINE key == [s \in Names |-> secretKey(s)]
           kept == {goStore[k] : k \in GoKeys}
<1>1. IsFiniteSet(GoKeys)
  <2>1. key \in Surjection(Names, GoKeys)
    BY DEF Surjection, GoKeys
  <2> QED BY <2>1, GoAssumption, FS_Surjection
<1>2. IsFiniteSet(kept)
  <2>1. goStore \in [GoKeys -> kept]
    BY DEF GoTypes, GoTypeOK
  <2>2. goStore \in Surjection(GoKeys, kept)
    BY <2>1 DEF Surjection
  <2> QED BY <2>2, <1>1, FS_Surjection
<1>3. ListSecrets(ns) \subseteq kept
  BY DEF ListSecrets
<1>4. ListSecrets(ns) \subseteq Stored
  BY DEF ListSecrets, GoTypes, GoTypeOK
<1> QED BY <1>2, <1>3, <1>4, FS_Subset

LEMMA FilterKeeps ==
  ASSUME NEW items, items \subseteq Stored, IsFiniteSet(items), cursor \in Nat, NEW text, applyFilter(items, text)
  PROVE  filtered' \in Seq(Stored) /\ cursor' \in Nat /\ CursorInRange'
<1> DEFINE S == {s \in items : NameContains(s.name, text)}
           n == Cardinality(S)
<1>1. S \subseteq Stored /\ IsFiniteSet(S)
  BY FS_Subset
<1>2. n \in Nat
  BY <1>1, FS_CardinalityType
<1>3. filtered' \in SetToSeqs(S)
  BY DEF applyFilter, Filtered
<1> HIDE DEF S
<1>4. filtered' \in [1..n -> S]
  BY <1>3 DEF SetToSeqs
<1> HIDE DEF n
<1>5. filtered' \in Seq(Stored)
  BY <1>1, <1>2, <1>4
<1>6. Len(filtered') \in Nat /\ (filtered' # <<>> => Len(filtered') > 0)
  BY <1>5
<1>7. cursor' \in Nat /\ (filtered' # <<>> => cursor' < Len(filtered'))
  BY <1>6 DEF applyFilter
<1> QED BY <1>5, <1>7 DEF CursorInRange

LEMMA LoadsSet ==
  ASSUME TuiInv, NEW l \in Loaders, NEW v \in Load \cup {NoLoad}, v # NoLoad => IsFiniteSet(v.list),
         loads' = [loads EXCEPT ![l] = v]
  PROVE  /\ loads' \in [Loaders -> Load \cup {NoLoad}]
         /\ \A i \in Loaders : loads'[i] # NoLoad => IsFiniteSet(loads'[i].list)
<1>1. loads \in [Loaders -> Load \cup {NoLoad}]
  BY DEF TuiInv, TuiTypeOK
<1>2. ASSUME NEW i \in Loaders, loads'[i] # NoLoad PROVE IsFiniteSet(loads'[i].list)
  <2>1. CASE i = l
    BY <1>1, <1>2, <2>1
  <2>2. CASE i # l
    <3>1. loads'[i] = loads[i]
      BY <1>1, <2>2
    <3> QED BY <3>1, <1>2 DEF TuiInv
  <2> QED BY <2>1, <2>2
<1> QED BY <1>1, <1>2

LEMMA LoadCmdSet == LoadCmd \in Load /\ IsFiniteSet(LoadCmd.list)
<1> DEFINE no == FALSE
<1>1. no \in BOOLEAN /\ LoadCmd = [step |-> "verify", valid |-> no, list |-> {}]
  BY DEF LoadCmd
<1> HIDE DEF no
<1>2. LoadCmd \in Load
  BY <1>1 DEF Load
<1>3. LoadCmd.list = {}
  BY DEF LoadCmd
<1> QED BY <1>2, <1>3, FS_EmptySet

\* A step of the terminal alone.
LEMMA TuiAlone ==
  ASSUME DInv, UNCHANGED <<deployment, made, pythonVars, gatewayVars, goVars, rotating>>, TuiInv'
  PROVE  DInv'
<1> USE DEF DInv
<1>1. UNCHANGED <<shadowing, rows, divergent, excused, unsettled, work, serverVars, goPercent, call, conn>>
  BY DEF pythonVars, shadowVars, gatewayVars, goVars
<1>2. GoTypes' /\ ShadowInv' /\ ServerTypeOK' /\ ClientsInv' /\ Places'
  BY <1>1, SameGo, SameShadow, SameServer, SameClients, SamePlaces
<1>3. Links'
  BY <1>1 DEF Links, Apart
<1> QED BY <1>2, <1>3

LEMMA LoadKeeps ==
  ASSUME GoTypes, TuiInv, NEW l \in Loaders, loadCmd(l)
  PROVE  TuiInv'
<1> DEFINE a == loads[l]
<1>1. /\ a \in Load /\ a.valid \in BOOLEAN /\ a.list \subseteq Stored /\ IsFiniteSet(a.list)
  <2>1. a # NoLoad
    BY DEF loadCmd, VerifyAudit, ClientListSecrets, At
  <2>2. a \in Load
    BY <2>1 DEF TuiInv, TuiTypeOK
  <2> QED BY <2>1, <2>2 DEF Load, TuiInv
<1>2. ASSUME NEW v \in Load, IsFiniteSet(v.list), loads' = [loads EXCEPT ![l] = v] PROVE TuiInv'
  <2>1. /\ loads' \in [Loaders -> Load \cup {NoLoad}]
        /\ \A i \in Loaders : loads'[i] # NoLoad => IsFiniteSet(loads'[i].list)
    BY <1>2, LoadsSet
  <2>2. UNCHANGED <<running, mode, secrets, filtered, cursor, search, auditValid, clipboard, clearTimers,
                    auditTicks, rotating, rotations>>
    BY DEF loadCmd, listVars, clipVars, rotateVars
  <2> QED BY <2>1, <2>2 DEF TuiInv, TuiTypeOK, CursorInRange, TimersArmed
<1>3. CASE VerifyAudit(l)
  <2> DEFINE response == IF Verified(TuiToken) THEN AuditVerify ELSE [error |-> AuthStatus]
             b == "valid" \in DOMAIN response
  <2>1. b \in BOOLEAN /\ loads' = [loads EXCEPT ![l].step = "list", ![l].valid = b]
    BY <1>3 DEF VerifyAudit
  <2> HIDE DEF b
  <2> DEFINE q == [a EXCEPT !.step = "list"]
             v == [q EXCEPT !.valid = b]
  <2>2. q \in Load /\ q.list = a.list
    BY <1>1 DEF Load
  <2>3. loads' = [loads EXCEPT ![l] = v]
    BY <2>1
  <2>4. v \in Load /\ v.list = a.list
    <3> HIDE DEF q
    <3> QED BY <2>1, <2>2 DEF Load
  <2> HIDE DEF v, a
  <2> QED BY <2>3, <2>4, <1>1, <1>2
<1>4. CASE ClientListSecrets(l)
  <2>1. PICK list \in {{}, ListSecrets(Namespace)} : loads' = [loads EXCEPT ![l].step = "loaded", ![l].list = list]
    BY <1>4 DEF ClientListSecrets
  <2>2. list \subseteq Stored /\ IsFiniteSet(list)
    BY ListFinite, FS_EmptySet
  <2> DEFINE q == [a EXCEPT !.step = "loaded"]
             v == [q EXCEPT !.list = list]
  <2>3. q \in Load
    BY <1>1 DEF Load
  <2>4. loads' = [loads EXCEPT ![l] = v]
    BY <2>1
  <2>5. v \in Load /\ v.list = list
    <3> HIDE DEF q
    <3> QED BY <2>2, <2>3 DEF Load
  <2> HIDE DEF v, a
  <2> QED BY <2>2, <2>4, <2>5, <1>2
<1> QED BY <1>3, <1>4 DEF loadCmd

LEMMA LoadedKeeps ==
  ASSUME TuiInv, NEW l \in Loaders, loadedMsg(l)
  PROVE  TuiInv'
<1> DEFINE a == loads[l]
<1>1. /\ a \in Load /\ a.valid \in BOOLEAN /\ a.list \subseteq Stored /\ IsFiniteSet(a.list)
  <2>1. a # NoLoad
    BY DEF loadedMsg, At
  <2>2. a \in Load
    BY <2>1 DEF TuiInv, TuiTypeOK
  <2> QED BY <2>1, <2>2 DEF Load, TuiInv
<1>2. /\ loads' \in [Loaders -> Load \cup {NoLoad}]
      /\ \A i \in Loaders : loads'[i] # NoLoad => IsFiniteSet(loads'[i].list)
  BY LoadsSet DEF loadedMsg
<1>3. filtered' \in Seq(Stored) /\ cursor' \in Nat /\ CursorInRange'
  <2>1. applyFilter(a.list, search) /\ cursor \in Nat
    BY DEF loadedMsg, TuiInv, TuiTypeOK
  <2> HIDE DEF a
  <2> QED BY <2>1, <1>1, FilterKeeps
<1>4. /\ UNCHANGED <<running, mode, clipboard, clearTimers, auditTicks, rotating, rotations>>
      /\ secrets' = a.list /\ auditValid' = a.valid
  BY DEF loadedMsg, clipVars, rotateVars
<1> HIDE DEF a
<1> QED BY <1>1, <1>2, <1>3, <1>4 DEF TuiInv, TuiTypeOK, TimersArmed

LEMMA SearchKeeps ==
  ASSUME TuiInv, KeySearch
  PROVE  TuiInv'
<1>1. filtered' \in Seq(Stored) /\ cursor' \in Nat /\ CursorInRange'
  BY FilterKeeps DEF KeySearch, TuiInv, TuiTypeOK
<1>2. UNCHANGED <<running, secrets, auditValid, loads, clipboard, clearTimers, auditTicks, rotating, rotations>>
  BY DEF KeySearch, loadVars, clipVars, rotateVars
<1>3. mode' \in {"search", "dashboard"}
  BY DEF KeySearch, Shows
<1> QED BY <1>1, <1>2, <1>3 DEF TuiInv, TuiTypeOK, TimersArmed

LEMMA CopyKeeps ==
  ASSUME TuiInv, KeyCopy
  PROVE  TuiInv'
<1>1. /\ filtered \in Seq(Stored) /\ filtered # <<>> /\ cursor \in Nat /\ cursor < Len(filtered)
      /\ clearTimers \in 0..MaxTimers /\ MaxTimers \in Nat
  BY DashboardAssumption DEF KeyCopy, TuiInv, TuiTypeOK, CursorInRange
<1>2. filtered[cursor + 1] \in Stored
  BY <1>1
<1>3. clipboard' \in Values
  BY <1>2 DEF KeyCopy, Stored
<1>4. clearTimers' \in 0..MaxTimers /\ clearTimers' > 0
  BY <1>1 DEF KeyCopy
<1>5. UNCHANGED <<running, mode, secrets, filtered, cursor, auditValid, loads, auditTicks, rotating, rotations>>
  BY DEF KeyCopy, listVars, loadVars, rotateVars
<1> QED BY <1>3, <1>4, <1>5 DEF TuiInv, TuiTypeOK, CursorInRange, TimersArmed

LEMMA PanicKeeps ==
  ASSUME TuiInv, KeyPanic
  PROVE  TuiInv'
<1>1. running' = "quitting" /\ secrets' = {} /\ filtered' = <<>> /\ mode = "dashboard"
  BY DEF KeyPanic, Dash
<1>2. UNCHANGED <<mode, cursor, auditValid, loads, clipboard, clearTimers, auditTicks, rotating, rotations>>
  BY DEF KeyPanic, loadVars, clipVars, rotateVars
<1> QED BY <1>1, <1>2, FS_EmptySet DEF TuiInv, TuiTypeOK, CursorInRange, TimersArmed

LEMMA TimerKeeps ==
  ASSUME TuiInv, clipboardClearMsg \/ auditTickMsg \/ KeyAudit \/ QuitMsg
  PROVE  TuiInv'
<1>1. UNCHANGED <<secrets, filtered, cursor, auditValid, loads, rotating, rotations>>
  BY DEF clipboardClearMsg, auditTickMsg, KeyAudit, QuitMsg, listVars, loadVars, rotateVars
<1>2. MaxTimers \in Nat
  BY DashboardAssumption
<1> USE DEF TuiInv, TuiTypeOK, CursorInRange, TimersArmed
<1>3. CASE clipboardClearMsg
  BY <1>1, <1>2, <1>3 DEF clipboardClearMsg
<1>4. CASE auditTickMsg
  BY <1>1, <1>2, <1>4 DEF auditTickMsg, clipVars
<1>5. CASE KeyAudit
  BY <1>1, <1>2, <1>5 DEF KeyAudit, Shows, clipVars
<1>6. CASE QuitMsg
  BY <1>1, <1>2, <1>6 DEF QuitMsg
<1> QED BY <1>3, <1>4, <1>5, <1>6

LEMMA KeyKeeps ==
  ASSUME TuiInv, KeyQuit \/ KeyMove \/ KeyMode
  PROVE  TuiInv'
<1>1. UNCHANGED <<secrets, filtered, auditValid, loads, clipboard, clearTimers, auditTicks, rotating, rotations>>
  BY DEF KeyQuit, KeyMove, KeyMode, listVars, loadVars, clipVars, rotateVars
<1> USE DEF TuiInv, TuiTypeOK, CursorInRange, TimersArmed
<1>2. CASE KeyQuit
  BY <1>1, <1>2 DEF KeyQuit, Awake, listVars
<1>3. CASE KeyMove
  <2>1. Len(filtered) \in Nat
    OBVIOUS
  <2> QED BY <1>1, <1>3, <2>1 DEF KeyMove
<1>4. CASE KeyMode
  BY <1>1, <1>4 DEF KeyMode, Shows, listVars
<1> QED BY <1>2, <1>3, <1>4

\* The terminal's deployments have no callers of the Python server.
LEMMA NoCalls ==
  ASSUME DInv, OnTerminal
  PROVE  \A t \in Clients : call[t].step = "idle" /\ work[t].step = "idle"
BY CallStart DEF DInv, ClientsInv, ClientOK, CallOK, OnTerminal

LEMMA RotatedKeeps ==
  ASSUME DInv, OnTerminal, rotatedMsg, UNCHANGED <<deployment, made, pythonVars, gatewayVars>>
  PROVE  DInv'
<1> USE DEF DInv
<1>1. PICK c \in rotating : rotating' = rotating \ {c} /\ Abandon(c)
  BY DEF rotatedMsg
<1>2. c \in Conns /\ conn[c] # Closed
  BY DEF TuiInv, TuiTypeOK, Links, Held
<1>3. /\ UNCHANGED <<goStore, goLog, goEpoch, goToken, goRestarts, goMixed, shadowing, rows, divergent, excused, unsettled, work,
                     serverVars, goPercent, call, deployment, made>>
      /\ UNCHANGED <<running, mode, secrets, filtered, cursor, auditValid, clipboard, clearTimers, auditTicks, rotations>>
  BY DEF rotatedMsg, pythonVars, shadowVars, gatewayVars, listVars, clipVars
<1> DEFINE q == conn'[c]
<1>4. q \in Opened \cup {Closed} /\ SetHasValue(q) /\ conn' = [conn EXCEPT ![c] = q]
  BY <1>1, <1>2, AbandonLeaves
<1> HIDE DEF q
<1>5. GoTypes'
  BY <1>2, <1>3, <1>4, ConnTypes, GoTypesByConn
<1>6. ShadowInv' /\ ServerTypeOK' /\ ClientsInv'
  BY <1>3, SameShadow, SameServer, SameClients
<1>7. Places'
  BY <1>3 DEF Places, Served, OnTerminal
<1>8. TuiInv'
  <2> DEFINE l == FreeLoader(loads)
  <2>1. l \in Loaders /\ loads' = [loads EXCEPT ![l] = LoadCmd]
    BY DEF rotatedMsg, FreeLoader
  <2> HIDE DEF l
  <2>2. /\ loads' \in [Loaders -> Load \cup {NoLoad}]
        /\ \A i \in Loaders : loads'[i] # NoLoad => IsFiniteSet(loads'[i].list)
    BY <2>1, LoadCmdSet, LoadsSet
  <2> QED BY <1>1, <1>3, <2>2 DEF TuiInv, TuiTypeOK, CursorInRange, TimersArmed
<1>9. Links'
  <2>1. \A t \in Clients : call'[t].step = "idle" /\ work'[t].step = "idle"
    BY <1>3, NoCalls
  <2>2. ASSUME NEW d \in rotating' PROVE Held(conn'[d])
    <3>1. d \in rotating /\ d # c
      BY <1>1, <2>2
    <3>2. conn'[d] = conn[d]
      BY <3>1, <1>4 DEF GoTypes, GoTypeOK
    <3> QED BY <3>1, <3>2 DEF Links
  <2> QED BY <2>1, <2>2, LinksKept
<1> QED BY <1>5, <1>6, <1>7, <1>8, <1>9

LEMMA RotateKeeps ==
  ASSUME DInv, OnTerminal, KeyRotate, UNCHANGED <<deployment, made, pythonVars, gatewayVars>>
  PROVE  DInv'
<1> USE DEF DInv
<1> DEFINE s == CHOOSE x \in Names : TRUE
           r == Request("rotate", s, Absent, TuiToken)
<1>1. PICK c \in FirstFree : rotating' = rotating \cup {c} /\ Connect(c, r)
  BY DEF KeyRotate
<1>2. s \in Names
  BY GoAssumption
<1> HIDE DEF s
<1>3. r \in Opened /\ SetHasValue(r) /\ r.awaited
  <2>1. "rotate" \in GoOps /\ Absent \in Values \cup {Absent} /\ TuiToken \in Tokens
    BY DashboardAssumption DEF GoOps
  <2> QED BY <2>1, <1>2, RequestOpened
<1> HIDE DEF r
<1>4. /\ UNCHANGED <<goStore, goLog, goEpoch, goToken, goRestarts, goMixed, shadowing, rows, divergent, excused, unsettled, work,
                     serverVars, goPercent, call, deployment, made>>
      /\ UNCHANGED <<running, secrets, filtered, cursor, auditValid, clipboard, clearTimers, auditTicks, loads>>
      /\ mode' = "dashboard" /\ rotations' = rotations + 1 /\ rotations < MaxRotations
  BY DEF KeyRotate, pythonVars, shadowVars, gatewayVars, listVars, clipVars, loadVars, Shows
<1>5. c \in Conns
  BY FreeConn
<1>6. /\ conn[c] = Closed /\ conn' = [conn EXCEPT ![c] = conn'[c]] /\ conn'[c] = r
      /\ conn' \in [Conns -> Opened \cup {Closed}] /\ \A d \in Conns : SetHasValue(conn'[d])
  BY <1>1, <1>3, <1>5, ConnectOpens
<1>7. GoTypes'
  BY <1>4, <1>6, GoTypesByConn
<1>8. ShadowInv' /\ ServerTypeOK' /\ ClientsInv'
  BY <1>4, SameShadow, SameServer, SameClients
<1>9. Places'
  BY <1>4 DEF Places, Served, OnTerminal
<1>10. TuiInv'
  BY <1>1, <1>4, <1>5, DashboardAssumption DEF TuiInv, TuiTypeOK, CursorInRange, TimersArmed
<1>11. Links'
  <2>1. conn' = [conn EXCEPT ![c] = r] /\ Held(r)
    BY <1>3, <1>6, OpenedNotClosed DEF Held
  <2> QED BY <2>1, <1>1, <1>4, <1>5, <1>6, LinksOpen
<1> QED BY <1>7, <1>8, <1>9, <1>10, <1>11

LEMMA TuiNextKeeps ==
  ASSUME DInv, TuiNext
  PROVE  DInv'
<1>1. OnTerminal /\ TuiStep /\ UNCHANGED <<deployment, made, pythonVars, gatewayVars>>
  BY DEF TuiNext
<1>2. CASE rotatedMsg
  BY <1>1, <1>2, RotatedKeeps
<1>3. CASE KeyRotate
  BY <1>1, <1>3, RotateKeeps
<1>4. CASE ~rotatedMsg /\ ~KeyRotate
  <2>1. TuiInv'
    BY <1>1, <1>4, LoadKeeps, LoadedKeeps, SearchKeeps, CopyKeeps, PanicKeeps, TimerKeeps, KeyKeeps
    DEF TuiStep, DInv
  <2>2. UNCHANGED <<goVars, rotating>>
    BY <1>1, <1>4 DEF TuiStep, loadCmd, loadedMsg, clipboardClearMsg, auditTickMsg, KeyQuit, KeyPanic, QuitMsg,
       KeyMove, KeyCopy, KeyAudit, KeyMode, KeySearch, rotateVars
  <2> QED BY <1>1, <2>1, <2>2, TuiAlone
<1> QED BY <1>2, <1>3, <1>4

-----------------------------------------------------------------------------
(* Other clients of Go, the share of the gateway, a restart of Go.          *)

LEMMA GoClientKeeps ==
  ASSUME DInv, OnTerminal, MakeCall, NEW i \in Inputs[deployment], GoClient(i)
  PROVE  DInv'
<1> USE DEF DInv
<1> DEFINE q == Request(i.op, i.secret, i.value, i.cred.token)
           r == Unawaited(q)
<1>1. PICK c \in FirstFree : Connect(c, r)
  BY DEF GoClient, Unawaited
<1>2. q \in Opened /\ SetHasValue(q)
  <2> DEFINE op == i.op
             s == i.secret
             v == i.value
             token == i.cred.token
  <2>1. /\ op \in GoOps /\ s \in Names /\ v \in Values \cup {Absent} /\ token \in Tokens
        /\ op = "set" => v \in Values
        /\ q = Request(op, s, v, token)
    BY DeploymentAssumption DEF OnTerminal, Places
  <2> HIDE DEF op, s, v, token, q
  <2> QED BY <2>1, RequestOpened
<1> HIDE DEF q
<1>3. r \in Opened /\ SetHasValue(r)
  BY <1>2, UnawaitedOpened
<1> HIDE DEF r
<1>4. /\ UNCHANGED <<goStore, goLog, goEpoch, goToken, goRestarts, goMixed, shadowing, rows, divergent, excused, unsettled, work,
                     serverVars, goPercent, call, deployment, tuiVars>>
      /\ made' = made + 1
  BY DEF GoClient, MakeCall, pythonVars, shadowVars, gatewayVars
<1>5. c \in Conns
  BY FreeConn
<1>6. /\ conn[c] = Closed /\ conn' = [conn EXCEPT ![c] = conn'[c]] /\ conn'[c] = r
      /\ conn' \in [Conns -> Opened \cup {Closed}] /\ \A d \in Conns : SetHasValue(conn'[d])
  BY <1>1, <1>3, <1>5, ConnectOpens
<1>7. GoTypes'
  BY <1>4, <1>6, GoTypesByConn
<1>8. ShadowInv' /\ ServerTypeOK' /\ ClientsInv' /\ TuiInv' /\ rotating' = rotating
  BY <1>4, SameShadow, SameServer, SameClients, SameTui
<1>9. Places'
  BY <1>4, <1>8 DEF Places, Served
<1>10. Links'
  <2>1. conn' = [conn EXCEPT ![c] = r]
    BY <1>6
  <2> QED BY <2>1, <1>4, <1>5, <1>6, <1>8, LinksOpen
<1> QED BY <1>7, <1>8, <1>9, <1>10

LEMMA ClampRange == \A p \in Int : clamp(p) \in 0..100
BY DEF clamp

LEMMA ShareKeeps ==
  ASSUME DInv, Servers, deployment = "cutover", NEW p \in Percents, SetGoPercent(p)
  PROVE  DInv'
<1> USE DEF DInv
<1>1. /\ UNCHANGED <<goVars, shadowVars, serverVars, call, deployment, made, tuiVars>>
      /\ goPercent' = clamp(p)
  BY DEF Servers, SetGoPercent, pythonVars
<1>2. UNCHANGED <<shadowing, rows, divergent, excused, unsettled, work, conn>>
  BY <1>1 DEF shadowVars, goVars
<1>3. GoTypes' /\ ShadowInv' /\ ServerTypeOK' /\ ClientsInv' /\ TuiInv' /\ rotating' = rotating
  BY <1>1, <1>2, SameGo, SameShadow, SameServer, SameClients, SameTui
<1>4. goPercent' \in 0..100
  BY <1>1, ClampRange, GatewayAssumption
<1>5. Places'
  BY <1>1, <1>2, <1>3, <1>4 DEF Places, Served
<1>6. Links'
  BY <1>1, <1>2, <1>3 DEF Links, Apart
<1> QED BY <1>3, <1>5, <1>6

LEMMA ForgetKeeps ==
  ASSUME DInv, Servers, deployment = "dual_write", ForgetMirrors, UNCHANGED <<serverVars, gatewayVars>>
  PROVE  DInv'
<1> USE DEF DInv
<1>1. /\ UNCHANGED <<shadowing, rows, divergent, excused, work, serverVars, goPercent, call, deployment, made, tuiVars>>
      /\ GoRestart /\ unsettled' \subseteq Names
  BY DEF Servers, ForgetMirrors, gatewayVars, ShadowInv
<1>2. /\ GoTypes'
      /\ \A c \in Conns :
           \/ conn'[c] = conn[c] /\ (conn[c] = Closed \/ conn[c].step = "answered")
           \/ conn'[c] = Closed /\ conn[c] # Closed /\ ~conn[c].awaited
           \/ /\ conn[c] # Closed /\ conn[c].awaited /\ conn'[c] \in Opened
              /\ Same(conn[c], conn'[c]) /\ conn'[c].step = "lost"
  BY <1>1, RestartTypes
<1>3. ServerTypeOK' /\ ClientsInv' /\ TuiInv' /\ rotating' = rotating /\ ShadowInv'
  BY <1>1, SameServer, SameClients, SameTui DEF ShadowInv
<1>4. Places'
  BY <1>1, <1>3, SamePlaces
<1>5. rotating = {} /\ \A t \in Clients : call[t].step # "go"
  BY DEF Places, Served, ClientsInv, ClientOK, CallOK
<1>6. ASSUME NEW t \in Clients, work'[t].step = "posted"
      PROVE  work[t].step = "posted" /\ work'[t].on = work[t].on /\ AtMirror(work'[t], conn'[work[t].on])
  <2> DEFINE k == work[t].on
  <2>1. work'[t] = work[t] /\ k \in Conns /\ AtMirror(work[t], conn[k])
    BY <1>1, <1>6 DEF Links, ClientsInv, ClientOK, CallOK
  <2>2. Held(conn[k])
    BY <2>1, <1>1, <1>6 DEF AtMirror
  <2>3. conn'[k] = conn[k] \/ (conn'[k] \in Opened /\ Same(conn[k], conn'[k]))
    BY <2>1, <2>2, <1>2 DEF Held
  <2>4. CASE conn'[k] = conn[k]
    BY <2>1, <2>4, <1>6
  <2>5. CASE conn'[k] \in Opened /\ Same(conn[k], conn'[k])
    BY <2>1, <2>2, <2>5, <1>6, OpenedNotClosed DEF AtMirror, Held, Same
  <2> QED BY <2>1, <2>3, <2>4, <2>5, <1>6
<1>7. Links'
  BY <1>1, <1>3, <1>5, <1>6, LinksKept
<1> QED BY <1>2, <1>3, <1>4, <1>7

-----------------------------------------------------------------------------
LEMMA DNext == ASSUME DInv, Next PROVE DInv'
<1>1. CASE CallerNext
  <2>1. CASE Served /\ MakeCall
             /\ \E t \in NextCaller, i \in Inputs[deployment] : Arrive(t, i.op, i.secret, i.value, i.cred)
    <3>1. PICK t \in NextCaller, i \in Inputs[deployment] : Arrive(t, i.op, i.secret, i.value, i.cred)
      BY <2>1
    <3>2. t \in Clients
      <4> DEFINE idle == {u \in Clients : call[u].step = "idle"}
      <4>1. idle # {} /\ t = CHOOSE u \in idle : TRUE
        BY DEF NextCaller
      <4>2. t \in idle
        BY <4>1
      <4> QED BY <4>2
    <3> QED BY <2>1, <3>1, <3>2, ArriveKeeps
  <2>2. CASE Served /\ Servers /\ \E t \in Clients : GoFails(t) \/ (deployment = "cutover" /\ PythonFails(t))
    BY <2>2, GoFailsKeeps, PythonFailsKeeps
  <2> QED BY <1>1, <2>1, <2>2 DEF CallerNext
<1>2. CASE CutoverNext
  BY <1>2, ShareKeeps, ForgetKeeps DEF CutoverNext
<1>3. CASE GoNext
  <2>1. CASE Servers /\ GoesOn
    BY <2>1, GoStepKeeps, ServeKeeps, GoAnswersKeeps, PythonAnswersKeeps, DoneKeeps, PythonStepKeeps
    DEF GoesOn, GatewayStep
  <2>2. CASE OnTerminal /\ MakeCall /\ \E i \in Inputs[deployment] : GoClient(i)
    BY <2>2, GoClientKeeps
  <2> QED BY <1>3, <2>1, <2>2 DEF GoNext
<1>4. CASE TuiNext
  BY <1>4, TuiNextKeeps
<1> QED BY <1>1, <1>2, <1>3, <1>4 DEF Next

LEMMA DStutter == ASSUME DInv, UNCHANGED vars PROVE DInv'
<1> USE DEF DInv
<1>1. /\ UNCHANGED <<goVars, shadowing, rows, divergent, excused, unsettled, work, serverVars, goPercent, call, deployment, made, tuiVars>>
      /\ conn' = conn
  BY DEF vars, pythonVars, shadowVars, gatewayVars, goVars
<1>2. GoTypes' /\ ShadowInv' /\ ServerTypeOK' /\ ClientsInv' /\ TuiInv' /\ rotating' = rotating
  BY <1>1, SameGo, SameShadow, SameServer, SameClients, SameTui
<1>3. Places'
  BY <1>1, <1>2, SamePlaces
<1>4. Links'
  BY <1>1, <1>2 DEF Links, Apart
<1> QED BY <1>2, <1>3, <1>4

LEMMA DInit == ASSUME Init PROVE DInv
<1>1. GoTypes
  <2>1. conn \in [Conns -> Opened \cup {Closed}] /\ \A c \in Conns : SetHasValue(conn[c])
    BY DEF Init, GoInit, SetHasValue
  <2> QED BY <2>1, GoAssumption DEF Init, GoInit, GoTypes, GoTypeOK
<1>2. ShadowInv
  BY DEF Init, ShadowInit, ShadowInv
<1>3. ServerTypeOK
  <2>1. threads \in Nat \ {0}
    <3>1. Served => PoolSizes[deployment] \subseteq Nat \ {0}
      BY DeploymentAssumption DEF Init, Served
    <3> QED BY <3>1 DEF Init
  <2>2. operatorStore \in BOOLEAN
    BY DEF Init
  <2>3. answer \in [Clients -> {"none", "approved", "denied"}]
    BY DEF Init
  <2> QED BY <2>1, <2>2, <2>3 DEF ServerTypeOK
<1>4. ClientsInv
  BY FreshClient, CallStart DEF Init, ShadowInit, GatewayInit, ClientsInv
<1>5. Places
  <2>1. clamp(0) = 0
    BY DEF clamp
  <2>2. goPercent \in 0..100 /\ (goPercent > 0 => deployment = "cutover")
    <3>1. CASE deployment = "cutover"
      BY <3>1, ClampRange, GatewayAssumption DEF Init, GatewayInit
    <3>2. CASE deployment # "cutover"
      BY <3>2, <2>1 DEF Init, GatewayInit
    <3> QED BY <3>1, <3>2
  <2> QED BY <2>2 DEF Init, ShadowInit, TuiInit, Places
<1>6. Links
  BY CallStart DEF Init, ShadowInit, GatewayInit, TuiInit, Links, AtGo, AtMirror, Apart
<1>7. TuiInv
  <2> DEFINE first == FreeLoader([j \in Loaders |-> NoLoad])
  <2>1. loads = [l \in Loaders |-> IF OnTerminal /\ l = first THEN LoadCmd ELSE NoLoad]
    BY DEF Init, TuiInit
  <2> HIDE DEF first
  <2>2. /\ loads \in [Loaders -> Load \cup {NoLoad}]
        /\ \A l \in Loaders : loads[l] # NoLoad => IsFiniteSet(loads[l].list)
    BY <2>1, LoadCmdSet
  <2>3. /\ running \in {"no", "yes"} /\ mode = "dashboard" /\ secrets = {} /\ filtered = <<>> /\ cursor = 0
        /\ auditValid = FALSE /\ clipboard = Absent /\ clearTimers = 0 /\ auditTicks = 0
        /\ rotating = {} /\ rotations = 0
    BY DEF Init, TuiInit
  <2>4. auditValid \in BOOLEAN
    BY <2>3
  <2>5. filtered \in Seq(Stored) /\ IsFiniteSet(secrets)
    BY <2>3, FS_EmptySet
  <2> QED BY <2>2, <2>3, <2>4, <2>5, DashboardAssumption DEF TuiInv, TuiTypeOK, CursorInRange, TimersArmed
<1> QED BY <1>1, <1>2, <1>3, <1>4, <1>5, <1>6, <1>7 DEF DInv

LEMMA Inductive == Spec => []DInv
<1>1. DInv /\ [Next]_vars => DInv'
  BY DNext, DStutter
<1> QED BY <1>1, DInit, PTL DEF Spec

\* Every variable keeps its type, in every deployment.
THEOREM DeploymentTypes == Spec => []TypeOK
<1>1. DInv => TypeOK
  BY DEF DInv, Places, GoTypes, ShadowInv, ClientsInv, TuiInv, TypeOK, ShadowTypeOK, GatewayTypeOK
<1> QED BY <1>1, Inductive, PTL

\* What a caller is told is what was done, whichever server and however many
\* mirrors, waits and tries it took.
THEOREM AnswerTrueCorrect == Spec => []AnswerTrue
<1>1. ASSUME DInv, NEW t \in Clients
      PROVE  /\ call[t].executed = {"go", "python"} => "go" \in call[t].lost
             /\ call[t].step = "answered" =>
                  /\ call[t].status = 200 => call[t].executed # {}
                  /\ call[t].status # 200 =>
                       call[t].executed \ call[t].lost \subseteq
                         IF work[t].unrecorded \/ (call[t].op = "use" /\ call[t].status = 500) THEN {"python"} ELSE {}
  <2>1. /\ Told(call[t], work[t])
        /\ call[t].step \in {"idle", "arrived", "go", "python", "answered"}
        /\ call[t].executed \subseteq {"go", "python"}
    BY <1>1, CallFields DEF DInv, ClientsInv, ClientOK
  <2> QED BY <2>1 DEF Told
<1>2. DInv => AnswerTrue
  BY <1>1 DEF AnswerTrue
<1> QED BY <1>2, Inductive, PTL

\* The selection of the terminal exists whenever there is something to select.
THEOREM CursorCorrect == Spec => []CursorInRange
<1>1. DInv => CursorInRange
  BY DEF DInv, TuiInv
<1> QED BY <1>1, Inductive, PTL

\* What lasts for a while in the terminal has the timer that ends or renews it.
THEOREM TimersCorrect == Spec => []TimersArmed
<1>1. DInv => TimersArmed
  BY DEF DInv, TuiInv
<1> QED BY <1>1, Inductive, PTL

-----------------------------------------------------------------------------
(***************************************************************************)
(* The audit log of the Go server.                                         *)
(***************************************************************************)

\* A handler of the key between its operation and its entry.
Writing(o, k) == o.step = "audit" /\ o.op \in Mutations /\ secretKey(o.secret) = k

Tells(k) ==
  goStore[k] # Absent <=>
    \E i \in Changes(k) : goLog[i].event = "SECRET_SET" /\ \A j \in Changes(k) : j <= i

\* Unless handlers of a key have overlapped there is one at most, whose entry
\* will say what the store holds by now; without one the log says it.
LogInv ==
  \A k \in GoKeys \ goMixed :
    /\ \A c, d \in Unlogged(k) : c = d
    /\ \A c \in Unlogged(k) : goStore[k] # Absent <=> conn[c].op = "set"
    /\ Unlogged(k) = {} => Tells(k)

LEMMA UnloggedWriting ==
  ASSUME NEW k
  PROVE  /\ Unlogged(k) = {c \in Conns : Writing(conn[c], k)}
         /\ Unlogged(k)' = {c \in Conns : Writing(conn'[c], k)}
BY DEF Unlogged, Writing

LEMMA LogStill ==
  ASSUME LogInv, UNCHANGED <<goStore, goLog, goMixed>>,
         \A d \in Conns, k \in GoKeys :
           /\ Writing(conn'[d], k) <=> Writing(conn[d], k)
           /\ Writing(conn[d], k) => conn'[d].op = conn[d].op
  PROVE  LogInv'
<1>1. ASSUME NEW k \in GoKeys PROVE Unlogged(k)' = Unlogged(k) /\ (Tells(k)' <=> Tells(k))
  <2>1. Unlogged(k)' = Unlogged(k)
    BY UnloggedWriting
  <2>2. Tells(k)' <=> Tells(k)
    BY DEF Tells, Changes
  <2> QED BY <2>1, <2>2
<1>2. \A k \in GoKeys : \A c \in Unlogged(k) : conn'[c].op = conn[c].op
  BY UnloggedWriting
<1> QED BY <1>1, <1>2 DEF LogInv

LEMMA LogByConn ==
  ASSUME GoTypes, LogInv, UNCHANGED <<goStore, goLog, goMixed>>, NEW c \in Conns, NEW p,
         conn' = [conn EXCEPT ![c] = p],
         \A k \in GoKeys : (Writing(p, k) <=> Writing(conn[c], k)) /\ (Writing(p, k) => p.op = conn[c].op)
  PROVE  LogInv'
<1>1. conn'[c] = p /\ \A d \in Conns : d # c => conn'[d] = conn[d]
  BY DEF GoTypes, GoTypeOK
<1>2. ASSUME NEW d \in Conns, NEW k \in GoKeys
      PROVE  /\ Writing(conn'[d], k) <=> Writing(conn[d], k)
             /\ Writing(conn[d], k) => conn'[d].op = conn[d].op
  BY <1>1
<1> QED BY <1>2, LogStill

LEMMA ClosedWrites == \A k : ~Writing(Closed, k)
BY DEF Writing, Closed

\* A change of the store begins.
LEMMA LogChanges ==
  ASSUME GoTypes, LogInv, NEW c \in Conns, conn[c] \in Opened, conn[c].step = "sent",
         conn[c].op \in Mutations, NEW e \in Stored \cup {Absent}, e # Absent <=> conn[c].op = "set",
         goStore' = [goStore EXCEPT ![secretKey(conn[c].secret)] = e], Mix(secretKey(conn[c].secret)),
         Goes(c, "audit"), UNCHANGED goLog
  PROVE  LogInv'
<1> DEFINE o == conn[c]
           p == conn'[c]
<1>0. PICK q \in GoKeys : q = secretKey(o.secret)
  BY OpenedFields, KeyOf
<1>1. /\ conn' = [conn EXCEPT ![c] = p] /\ p \in Opened /\ Same(o, p) /\ p.step = "audit"
  BY GoesMoves DEF GoTypes, GoTypeOK
<1>2. \A d \in Conns : d # c => conn'[d] = conn[d]
  BY <1>1 DEF GoTypes, GoTypeOK
<1>4. goStore'[q] = e /\ \A k \in GoKeys : k # q => goStore'[k] = goStore[k]
  BY <1>0 DEF GoTypes, GoTypeOK
<1>5. /\ \A k \in GoKeys : ~Writing(o, k)
      /\ \A k \in GoKeys : Writing(p, k) <=> k = q
      /\ p.op = o.op
  BY <1>0, <1>1 DEF Writing, Same
<1> HIDE DEF p, o
<1>6. ASSUME NEW k \in GoKeys, k \notin goMixed', k # q
      PROVE  (/\ \A a, b \in Unlogged(k) : a = b
              /\ \A a \in Unlogged(k) : goStore[k] # Absent <=> conn[a].op = "set"
              /\ Unlogged(k) = {} => Tells(k))'
  <2>1. k \notin goMixed
    BY <1>0, <1>6 DEF Mix, o
  <2>2. \A d \in Conns : Writing(conn'[d], k) <=> Writing(conn[d], k)
    BY <1>2, <1>5, <1>6 DEF p, o
  <2>3. Unlogged(k)' = Unlogged(k)
    BY <2>2, UnloggedWriting
  <2>4. c \notin Unlogged(k)
    BY <1>5, UnloggedWriting DEF o
  <2>5. \A a \in Unlogged(k) : conn'[a] = conn[a]
    BY <2>4, <1>2, UnloggedWriting
  <2>6. Tells(k)' <=> Tells(k)
    BY <1>4, <1>6 DEF Tells, Changes
  <2>7. goStore'[k] = goStore[k]
    BY <1>4, <1>6
  <2> QED BY <2>1, <2>3, <2>5, <2>6, <2>7 DEF LogInv
<1>7. ASSUME q \notin goMixed'
      PROVE  (/\ \A a, b \in Unlogged(q) : a = b
              /\ \A a \in Unlogged(q) : goStore[q] # Absent <=> conn[a].op = "set"
              /\ Unlogged(q) = {} => Tells(q))'
  <2>1. Unlogged(q) = {}
    BY <1>0, <1>7 DEF Mix, o
  <2>2. \A a \in Conns : Writing(conn'[a], q) <=> a = c
    BY <2>1, <1>2, <1>5, UnloggedWriting DEF p
  <2>3. {a \in Conns : Writing(conn'[a], q)} = {c}
    BY <2>2
  <2>4. Unlogged(q)' = {c}
    BY <2>3, UnloggedWriting
  <2> QED BY <2>4, <1>4, <1>5 DEF p, o
<1> QED BY <1>6, <1>7 DEF LogInv

\* It ends with its entry.
LEMMA LogEnds ==
  ASSUME GoTypes, LogInv, NEW c \in Conns, AddAuditEntry(c)
  PROVE  LogInv'
<1> DEFINE o == conn[c]
           p == conn'[c]
           n == Len(goLog)
           event == Event[o.op]
           e == [event |-> event, key |-> EntryKey(c), hash |-> Hash(LastHash, event, EntryKey(c))]
<1>1. /\ o \in Opened /\ conn' = [conn EXCEPT ![c] = p] /\ Moves(o, p) /\ o.step = "audit"
  BY HandleMoves DEF Handle, AddAuditEntry
<1>2. \A d \in Conns : d # c => conn'[d] = conn[d]
  BY <1>1 DEF GoTypes, GoTypeOK
<1>3. \A k \in GoKeys : ~Writing(p, k)
  BY <1>1, ClosedWrites DEF Moves, Writing
<1>4. goLog' = Append(goLog, e) /\ UNCHANGED <<goStore, goMixed>> /\ goLog \in Seq(Entry)
  BY DEF AddAuditEntry, GoTypes, GoTypeOK
<1>5. /\ e.key = EntryKey(c) /\ e.event = event
  OBVIOUS
<1>6. /\ o.op \in GoOps
      /\ event = "SECRET_SET" <=> o.op = "set"
      /\ event \in {"SECRET_SET", "SECRET_REVOKE", "SECRET_DELETE"} <=> o.op \in Mutations
  <2>1. o.op \in GoOps
    BY <1>1, OpenedFields
  <2> QED BY <2>1 DEF Event, GoOps, Mutations
<1>7. o.op \in Mutations => EntryKey(c) = secretKey(o.secret) /\ EntryKey(c) \in GoKeys
  <2>1. o.op \in Mutations => EntryKey(c) = secretKey(o.secret)
    BY DEF EntryKey, Mutations
  <2> QED BY <2>1, <1>1, OpenedFields, KeyOf
<1> HIDE DEF e, event, p
<1>8. /\ n \in Nat /\ DOMAIN goLog = 1..n /\ DOMAIN goLog' = 1..(n + 1)
      /\ goLog'[n + 1] = e /\ \A i \in 1..n : goLog'[i] = goLog[i]
  BY <1>4
<1> HIDE DEF n
<1>9. ASSUME NEW k \in GoKeys, k \notin goMixed', ~Writing(o, k)
      PROVE  (/\ \A a, b \in Unlogged(k) : a = b
              /\ \A a \in Unlogged(k) : goStore[k] # Absent <=> conn[a].op = "set"
              /\ Unlogged(k) = {} => Tells(k))'
  <2>1. k \notin goMixed
    BY <1>4, <1>9
  <2>2. Unlogged(k)' = Unlogged(k)
    <3>1. \A d \in Conns : Writing(conn'[d], k) <=> Writing(conn[d], k)
      BY <1>2, <1>3, <1>9 DEF p, o
    <3> QED BY <3>1, UnloggedWriting
  <2>3. \A a \in Unlogged(k) : conn'[a] = conn[a]
    BY <1>2, <1>9, UnloggedWriting DEF o
  <2>4. Changes(k)' = Changes(k)
    <3>1. ~(e.key = k /\ e.event \in {"SECRET_SET", "SECRET_REVOKE", "SECRET_DELETE"})
      BY <1>1, <1>5, <1>6, <1>7, <1>9 DEF Writing
    <3>2. Changes(k) = {i \in 1..n : goLog[i].key = k /\ goLog[i].event \in {"SECRET_SET", "SECRET_REVOKE", "SECRET_DELETE"}}
      BY <1>8 DEF Changes
    <3>3. Changes(k)' = {i \in 1..(n + 1) : goLog'[i].key = k /\ goLog'[i].event \in {"SECRET_SET", "SECRET_REVOKE", "SECRET_DELETE"}}
      BY <1>8 DEF Changes
    <3> QED BY <3>1, <3>2, <3>3, <1>8
  <2>5. \A i \in Changes(k) : goLog'[i] = goLog[i]
    BY <1>8 DEF Changes
  <2>6. Tells(k)' <=> Tells(k)
    BY <1>4, <2>4, <2>5 DEF Tells
  <2> QED BY <2>1, <2>2, <2>3, <2>6, <1>4 DEF LogInv
<1>10. ASSUME NEW k \in GoKeys, k \notin goMixed', Writing(o, k)
       PROVE  (/\ \A a, b \in Unlogged(k) : a = b
               /\ \A a \in Unlogged(k) : goStore[k] # Absent <=> conn[a].op = "set"
               /\ Unlogged(k) = {} => Tells(k))'
  <2>1. k \notin goMixed
    BY <1>4, <1>10
  <2>2. \A a \in Unlogged(k) : a = c
    BY <1>10, <2>1, UnloggedWriting DEF LogInv, o
  <2>3. Unlogged(k)' = {}
    BY <2>2, <1>2, <1>3, UnloggedWriting DEF p
  <2>4. goStore'[k] # Absent <=> o.op = "set"
    BY <1>4, <1>10, <2>1, UnloggedWriting DEF LogInv, o
  <2>5. n + 1 \in Changes(k)' /\ \A i \in Changes(k)' : i <= n + 1 /\ i \in Nat
    BY <1>5, <1>6, <1>7, <1>8, <1>10 DEF Changes, Writing
  <2>6. goLog'[n + 1].event = "SECRET_SET" <=> o.op = "set"
    BY <1>5, <1>6, <1>8
  <2>7. Tells(k)'
    <3>1. ASSUME NEW i \in Changes(k)', goLog'[i].event = "SECRET_SET", \A j \in Changes(k)' : j <= i
          PROVE  o.op = "set"
      <4>1. i = n + 1
        BY <2>5, <3>1, <1>8
      <4> QED BY <4>1, <2>6, <3>1
    <3>2. o.op = "set" => \E i \in Changes(k)' : goLog'[i].event = "SECRET_SET" /\ \A j \in Changes(k)' : j <= i
      BY <2>5, <2>6
    <3> QED BY <3>1, <3>2, <2>4 DEF Tells
  <2> QED BY <2>3, <2>7
<1> QED BY <1>9, <1>10 DEF LogInv

LEMMA LogHandle ==
  ASSUME GoTypes, LogInv, NEW c \in Conns, Handle(c)
  PROVE  LogInv'
<1> DEFINE o == conn[c]
           p == conn'[c]
<1>1. /\ o \in Opened /\ conn' = [conn EXCEPT ![c] = p] /\ Moves(o, p) /\ o # Closed
  BY HandleMoves, OpenedNotClosed
<1>2. CASE SetSecret(c)
  <2> DEFINE e == [ns |-> o.secret.ns, name |-> o.secret.name, value |-> o.value]
  <2>1. o.secret \in Names /\ o.value \in Values /\ o.op = "set" /\ o.step = "sent"
    BY <1>1, <1>2, OpenedFields DEF SetSecret, Sent, GoTypes, SetHasValue
  <2>2. e \in Stored /\ e # Absent
    BY <2>1, GoAssumption DEF Stored
  <2>3. /\ goStore' = [goStore EXCEPT ![secretKey(o.secret)] = e] /\ Mix(secretKey(o.secret))
        /\ Goes(c, "audit") /\ UNCHANGED goLog
    BY <1>2 DEF SetSecret
  <2> HIDE DEF e
  <2> QED BY <1>1, <2>1, <2>2, <2>3, LogChanges DEF Mutations
<1>3. CASE DeleteSecret(c)
  <2>1. /\ o.op \in {"revoke", "delete"} /\ o.step = "sent"
        /\ goStore' = [goStore EXCEPT ![secretKey(o.secret)] = Absent] /\ Mix(secretKey(o.secret))
        /\ Goes(c, "audit") /\ UNCHANGED goLog
    BY <1>3 DEF DeleteSecret, Sent
  <2> QED BY <1>1, <2>1, LogChanges DEF Mutations
<1>4. CASE AddAuditEntry(c)
  BY <1>4, LogEnds
<1>5. CASE AuthMiddleware(c) \/ NotFound(c) \/ UseSecret(c) \/ Rotate(c) \/ KeyEpoch(c)
  <2>1. UNCHANGED <<goStore, goLog, goMixed>>
    BY <1>5 DEF AuthMiddleware, NotFound, UseSecret, Rotate, KeyEpoch
  <2>2. \A k : ~Writing(o, k)
    BY <1>5 DEF Writing, AuthMiddleware, NotFound, UseSecret, Rotate, KeyEpoch, Sent
  <2>3. \A k : ~Writing(p, k)
    <3>1. CASE AuthMiddleware(c) \/ NotFound(c) \/ KeyEpoch(c)
      <4>1. PICK status \in {200, 401, 404, 500} : Answer(c, status)
        BY <3>1 DEF AuthMiddleware, NotFound, KeyEpoch, AuthStatus
      <4>2. p = Closed \/ p.step = "answered"
        BY <4>1, <1>1, AnswerMoves, OpenedFields DEF GoTypes, GoTypeOK
      <4> QED BY <4>2, ClosedWrites DEF Writing
    <3>2. CASE UseSecret(c) \/ Rotate(c)
      <4>1. Goes(c, "audit") /\ o.op \notin Mutations
        BY <3>2 DEF UseSecret, Rotate, Sent, Mutations
      <4>2. p.op = o.op
        BY <4>1, <1>1, GoesMoves DEF Same, GoTypes, GoTypeOK
      <4> QED BY <4>1, <4>2 DEF Writing
    <3> QED BY <1>5, <3>1, <3>2
  <2> HIDE DEF p
  <2> QED BY <1>1, <2>1, <2>2, <2>3, LogByConn
<1> QED BY <1>2, <1>3, <1>4, <1>5 DEF Handle

LEMMA LogRestart ==
  ASSUME GoTypes, GoRestart
  PROVE  LogInv'
<1>1. \A c \in Conns, k \in GoKeys : ~Writing(conn'[c], k)
  BY RestartTypes, ClosedWrites DEF Writing
<1>2. /\ \A k \in GoKeys : goStore'[k] = Absent
      /\ goLog' = <<>>
  BY DEF GoRestart
<1>3. ASSUME NEW k \in GoKeys PROVE Unlogged(k)' = {} /\ Tells(k)'
  <2>1. Unlogged(k)' = {}
    BY <1>1, UnloggedWriting
  <2>2. Changes(k)' = {}
    BY <1>2 DEF Changes
  <2> QED BY <2>1, <2>2, <1>2 DEF Tells
<1> QED BY <1>3 DEF LogInv

\* What clients do to connections.
Opens(c) == conn[c] = Closed /\ \E r : r.step = "sent" /\ conn' = [conn EXCEPT ![c] = r]
Leaving(c) == conn[c] # Closed /\ (Abandon(c) \/ (conn[c].step \in {"sent", "answered"} /\ Disconnect(c)))

LEMMA SentRequest == \A op, s, v, token : Request(op, s, v, token).step = "sent" /\ Unawaited(Request(op, s, v, token)).step = "sent"
BY DEF Request, Unawaited

LEMMA ConnectIsOpens ==
  ASSUME NEW c \in FirstFree, NEW r, r.step = "sent", Connect(c, r)
  PROVE  c \in Conns /\ Opens(c)
BY FreeConn DEF Connect, Opens

\* Every step is one of a handler or a restart of Go, or one of its clients.
LEMMA GoSees ==
  ASSUME DInv, Next
  PROVE  \/ \E c \in Conns : Handle(c)
         \/ GoRestart
         \/ /\ UNCHANGED <<goStore, goLog, goEpoch, goToken, goRestarts, goMixed>>
            /\ \/ UNCHANGED conn
               \/ \E c \in Conns : Opens(c) \/ Leaving(c)
<1> DEFINE Kept6 == UNCHANGED <<goStore, goLog, goEpoch, goToken, goRestarts, goMixed>>
<1>1. ASSUME NEW t \in Clients, GatewayStep(t)
      PROVE  Kept6 /\ (UNCHANGED conn \/ \E c \in Conns : Opens(c) \/ Leaving(c))
  <2>1. Kept6
    BY <1>1 DEF GatewayStep, ServeHTTP, GoAnswers, PythonAnswers, Done, goVars
  <2>2. CASE ServeHTTP(t)
    BY <2>1, <2>2, FreeConn, SentRequest DEF ServeHTTP, Connect, Opens
  <2>3. CASE GoAnswers(t)
    <3>1. call[t].on \in Conns
      BY <2>3, AtConn DEF GoAnswers, DInv
    <3> QED BY <2>1, <2>3, <3>1, ConnClosed DEF GoAnswers, Leaving
  <2>4. CASE PythonAnswers(t) \/ Done(t)
    BY <2>1, <2>4 DEF PythonAnswers, Done, goVars
  <2> QED BY <1>1, <2>2, <2>3, <2>4, <2>1 DEF GatewayStep
<1>2. ASSUME NEW t \in Clients, PythonStep(t)
      PROVE  Kept6 /\ (UNCHANGED conn \/ \E c \in Conns : Opens(c) \/ Leaving(c))
  <2>1. Kept6
    BY <1>2 DEF PythonStep, MirrorStep, Commit, CommitFails, RecordUsage, MirrorPost, MirrorAnswer, MirrorVerify, MirrorFails, ShadowRow,
         ServerStep, Refuse, Write, Use, Decide, Wake, Collect, Release, goVars
  <2>2. CASE MirrorPost(t)
    <3>1. PICK c \in FirstFree : Connect(c, Request(work[t].op, work[t].secret, work[t].value, ShadowToken))
      BY <2>2 DEF MirrorPost
    <3> QED BY <2>1, <3>1, SentRequest, ConnectIsOpens
  <2>3. CASE work[t].step = "posted"
    <3>1. work[t].on \in Conns /\ conn[work[t].on] # Closed
      BY <2>3 DEF DInv, ClientsInv, ClientOK, CallOK, Links, AtMirror, Held
    <3>2. Abandon(work[t].on) \/ (conn[work[t].on].step = "answered" /\ Disconnect(work[t].on))
      BY <2>3, <1>2 DEF PythonStep, MirrorStep, Commit, CommitFails, RecordUsage, MirrorPost, MirrorAnswer, MirrorVerify, MirrorFails, ShadowRow,
                        ServerStep, Refuse, Write, Use, Decide, Wake, Collect, Release, Starts
    <3> QED BY <2>1, <3>1, <3>2 DEF Leaving
  <2>4. CASE ~MirrorPost(t) /\ work[t].step # "posted"
    <3>1. UNCHANGED conn
      BY <2>4, <1>2 DEF PythonStep, MirrorStep, Commit, CommitFails, RecordUsage, MirrorPost, MirrorAnswer, MirrorVerify, MirrorFails, ShadowRow,
                        ServerStep, Refuse, Write, Use, Decide, Wake, Collect, Release, goVars
    <3> QED BY <2>1, <3>1
  <2> QED BY <2>2, <2>3, <2>4
<1>3. ASSUME NEW t \in Clients, GoFails(t)
      PROVE  Kept6 /\ \E c \in Conns : Leaving(c)
  <2>1. call[t].on \in Conns /\ conn[call[t].on] # Closed
    BY <1>3, AtConn DEF GoFails, DInv, Links, AtGo, Held
  <2> QED BY <1>3, <2>1 DEF GoFails, Leaving
<1>4. ASSUME NEW i, GoClient(i)
      PROVE  Kept6 /\ \E c \in Conns : Opens(c)
  <2>1. PICK c \in FirstFree : Connect(c, Unawaited(Request(i.op, i.secret, i.value, i.cred.token)))
    BY <1>4 DEF GoClient, Unawaited
  <2>2. Kept6
    BY <1>4 DEF GoClient
  <2> QED BY <2>1, <2>2, SentRequest, ConnectIsOpens
<1>5. ASSUME TuiStep
      PROVE  Kept6 /\ (UNCHANGED conn \/ \E c \in Conns : Opens(c) \/ Leaving(c))
  <2>1. CASE rotatedMsg
    <3>1. PICK c \in rotating : Abandon(c)
      BY <2>1 DEF rotatedMsg
    <3>2. c \in Conns /\ conn[c] # Closed
      BY DEF DInv, TuiInv, TuiTypeOK, Links, Held
    <3> QED BY <2>1, <3>1, <3>2 DEF rotatedMsg, Leaving
  <2>2. CASE KeyRotate
    <3>1. PICK c \in FirstFree : Connect(c, Request("rotate", CHOOSE s \in Names : TRUE, Absent, TuiToken))
      BY <2>2 DEF KeyRotate
    <3>2. Kept6
      BY <2>2 DEF KeyRotate
    <3> QED BY <3>1, <3>2, SentRequest, ConnectIsOpens
  <2>3. CASE ~rotatedMsg /\ ~KeyRotate
    <3>1. UNCHANGED goVars
      BY <1>5, <2>3 DEF TuiStep, loadCmd, loadedMsg, clipboardClearMsg, auditTickMsg, KeyQuit, KeyPanic, QuitMsg,
         KeyMove, KeyCopy, KeyAudit, KeyMode, KeySearch
    <3> QED BY <3>1 DEF goVars
  <2> QED BY <2>1, <2>2, <2>3
<1>6. ASSUME NEW t, NEW i, Arrive(t, i.op, i.secret, i.value, i.cred) PROVE Kept6 /\ UNCHANGED conn
  BY <1>6 DEF Arrive, goVars
<1>7. ASSUME NEW p, SetGoPercent(p) PROVE Kept6 /\ UNCHANGED conn
  BY <1>7 DEF SetGoPercent, goVars
<1>12. ASSUME NEW t, PythonFails(t) PROVE Kept6 /\ UNCHANGED conn
  BY <1>12 DEF PythonFails, goVars
<1> HIDE DEF Kept6
<1>8. CASE CallerNext
  BY <1>8, <1>3, <1>6, <1>12 DEF CallerNext, Kept6
<1>9. CASE CutoverNext
  BY <1>9, <1>7 DEF CutoverNext, ForgetMirrors, Kept6
<1>10. CASE GoNext
  BY <1>10, <1>1, <1>2, <1>4 DEF GoNext, GoesOn, GoStep, Kept6
<1>11. CASE TuiNext
  BY <1>11, <1>5 DEF TuiNext, Kept6
<1> QED BY <1>8, <1>9, <1>10, <1>11 DEF Next

LEMMA LogNext ==
  ASSUME DInv, LogInv, [Next]_vars
  PROVE  LogInv'
<1>0. GoTypes
  BY DEF DInv
<1>1. CASE \E c \in Conns : Handle(c)
  BY <1>0, <1>1, LogHandle
<1>2. CASE GoRestart
  BY <1>0, <1>2, LogRestart
<1>3. CASE UNCHANGED <<goStore, goLog, goMixed>> /\ UNCHANGED conn
  BY <1>3, LogStill
<1>4. CASE UNCHANGED <<goStore, goLog, goMixed>> /\ \E c \in Conns : Opens(c)
  <2>1. PICK c \in Conns : Opens(c)
    BY <1>4
  <2>2. PICK r : r.step = "sent" /\ conn' = [conn EXCEPT ![c] = r]
    BY <2>1 DEF Opens
  <2>3. \A k : ~Writing(r, k) /\ ~Writing(conn[c], k)
    BY <2>1, <2>2, ClosedWrites DEF Writing, Opens
  <2> QED BY <1>0, <1>4, <2>2, <2>3, LogByConn
<1>5. CASE UNCHANGED <<goStore, goLog, goMixed>> /\ \E c \in Conns : Leaving(c)
  <2>1. PICK c \in Conns : Leaving(c)
    BY <1>5
  <2> DEFINE p == conn'[c]
  <2>2. conn' = [conn EXCEPT ![c] = p] /\ Leaves(conn[c], p) /\ conn[c] \in Opened
    BY <2>1, <1>0, AbandonLeaves DEF Leaving, GoTypes, GoTypeOK
  <2>3. p = Closed => conn[c].step # "audit"
    <3>1. CASE Disconnect(c) /\ conn[c].step \in {"sent", "answered"}
      BY <3>1
    <3>2. CASE Abandon(c)
      <4>1. p = IF conn[c].step \in {"answered", "lost"} THEN Closed ELSE Unawaited(conn[c])
        BY <3>2, <1>0 DEF Abandon, Unawaited, GoTypes, GoTypeOK
      <4>2. Unawaited(conn[c]) # Closed
        BY <2>2, <1>0, UnawaitedOpened, OpenedNotClosed DEF GoTypes
      <4> QED BY <4>1, <4>2
    <3> QED BY <2>1, <3>1, <3>2 DEF Leaving
  <2>4. ASSUME NEW k \in GoKeys
        PROVE  (Writing(p, k) <=> Writing(conn[c], k)) /\ (Writing(p, k) => p.op = conn[c].op)
    BY <2>2, <2>3, ClosedWrites DEF Leaves, Writing
  <2> HIDE DEF p
  <2> QED BY <1>0, <1>5, <2>2, <2>4, LogByConn
<1>6. CASE UNCHANGED vars
  BY <1>6, <1>3 DEF vars, goVars
<1> QED BY <1>1, <1>2, <1>3, <1>4, <1>5, <1>6, GoSees

\* The last entry of a key says whether the Go server holds it, unless a
\* handler of the key has yet to write its entry or two of them overlapped.
THEOREM GoLogCorrect == Spec => []GoLogTellsStore
<1>1. Init => LogInv
  <2>1. ASSUME Init, NEW k \in GoKeys PROVE Unlogged(k) = {} /\ Tells(k)
    <3>1. Unlogged(k) = {}
      BY <2>1, UnloggedWriting, ClosedWrites DEF Init, GoInit
    <3>2. Changes(k) = {} /\ goStore[k] = Absent
      BY <2>1 DEF Init, GoInit, Changes
    <3> QED BY <3>1, <3>2 DEF Tells
  <2> QED BY <2>1 DEF LogInv
<1>2. DInv /\ LogInv /\ [Next]_vars => LogInv'
  BY LogNext
<1>3. LogInv => GoLogTellsStore
  BY DEF LogInv, GoLogTellsStore, Tells
<1> QED BY <1>1, <1>2, <1>3, Inductive, PTL DEF Spec

-----------------------------------------------------------------------------
(***************************************************************************)
(* The audit chain of the Go server: handlers of any number of connections  *)
(* append to it, and clients that give up do not stop them.                 *)
(***************************************************************************)

LEMMA GoChainExtends ==
  ASSUME goLog \in Seq(Entry), VerifyAuditChain, NEW event, NEW key,
         LET e == [event |-> event, key |-> key, hash |-> Hash(LastHash, event, key)]
         IN e \in Entry /\ goLog' = Append(goLog, e)
  PROVE  VerifyAuditChain'
<1> DEFINE e == [event |-> event, key |-> key, hash |-> Hash(LastHash, event, key)]
           n == Len(goLog)
<1>1. /\ n \in Nat /\ DOMAIN goLog' = 1..(n + 1) /\ goLog'[n + 1] = e
      /\ DOMAIN goLog = 1..n /\ \A i \in 1..n : goLog'[i] = goLog[i]
  BY AppendProperties, LenProperties
<1>2. ASSUME NEW i \in 1..n
      PROVE  goLog'[i].hash = Hash(IF i = 1 THEN <<>> ELSE goLog'[i - 1].hash, goLog'[i].event, goLog'[i].key)
  <2>1. i = 1 \/ i - 1 \in 1..n
    BY <1>1
  <2> QED BY <1>1, <2>1 DEF VerifyAuditChain
<1>3. LastHash = IF n = 0 THEN <<>> ELSE goLog[n].hash
  BY EmptySeq, <1>1 DEF LastHash, Last
<1>4. e.event = event /\ e.key = key /\ e.hash = Hash(LastHash, event, key)
  OBVIOUS
<1>5. n \in Nat
  BY <1>1
<1>6. goLog'[n + 1] = e /\ \A i \in 1..n : goLog'[i] = goLog[i]
  BY <1>1
<1> HIDE DEF e, n
<1>7. LastHash = IF n + 1 = 1 THEN <<>> ELSE goLog'[(n + 1) - 1].hash
  <2>1. CASE n = 0
    BY <1>3, <2>1
  <2>2. CASE n # 0
    <3>1. n \in 1..n /\ (n + 1) - 1 = n /\ n + 1 # 1
      BY <1>5, <2>2
    <3> QED BY <1>3, <1>6, <2>2, <3>1
  <2> QED BY <2>1, <2>2
<1>8. ASSUME NEW i \in 1..(n + 1)
      PROVE  goLog'[i].hash = Hash(IF i = 1 THEN <<>> ELSE goLog'[i - 1].hash, goLog'[i].event, goLog'[i].key)
  <2>1. CASE i \in 1..n
    BY <1>2, <2>1
  <2>2. CASE i = n + 1
    <3>1. goLog'[i] = e
      BY <1>6, <2>2
    <3> DEFINE h == IF i = 1 THEN <<>> ELSE goLog'[i - 1].hash
    <3>2. LastHash = h
      BY <1>7, <2>2
    <3> HIDE DEF h
    <3>3. goLog'[i].event = event /\ goLog'[i].key = key /\ goLog'[i].hash = Hash(LastHash, event, key)
      BY <1>4, <3>1
    <3>4. goLog'[i].hash = Hash(h, goLog'[i].event, goLog'[i].key)
      BY <3>2, <3>3
    <3> QED BY <3>4 DEF h
  <2>3. i \in 1..n \/ i = n + 1
    BY <1>5
  <2> QED BY <2>1, <2>2, <2>3, Zenon
<1>9. DOMAIN goLog' = 1..(n + 1)
  BY <1>1 DEF n
<1> QED BY <1>8, <1>9 DEF VerifyAuditChain

LEMMA GoChainNext ==
  ASSUME DInv, VerifyAuditChain, [Next]_vars
  PROVE  VerifyAuditChain'
<1>1. goLog \in Seq(Entry)
  BY DEF DInv, GoTypes, GoTypeOK
<1>2. CASE UNCHANGED goLog
  BY <1>2 DEF VerifyAuditChain
<1>3. ASSUME NEW c \in Conns, Handle(c) PROVE VerifyAuditChain'
  <2>1. CASE AddAuditEntry(c)
    <3> DEFINE event == Event[conn[c].op]
               key == EntryKey(c)
               e == [event |-> event, key |-> key, hash |-> Hash(LastHash, event, key)]
    <3>1. goLog' = Append(goLog, e)
      BY <2>1 DEF AddAuditEntry
    <3>2. e \in Entry
      BY <2>1, <1>1, <1>3, HandleMoves, EntryOK DEF DInv
    <3> HIDE DEF event, key
    <3> QED BY <1>1, <3>1, <3>2, GoChainExtends
  <2>2. CASE ~AddAuditEntry(c)
    <3>1. UNCHANGED goLog
      BY <1>3, <2>2 DEF Handle, AuthMiddleware, SetSecret, NotFound, DeleteSecret, UseSecret, Rotate, KeyEpoch
    <3> QED BY <3>1, <1>2
  <2> QED BY <2>1, <2>2
<1>4. CASE GoRestart
  BY <1>4 DEF GoRestart, VerifyAuditChain
<1> QED BY <1>2, <1>3, <1>4, GoSees DEF vars, goVars

\* VerifyAuditChain finds the Go server's chain intact in every state.
THEOREM GoChainCorrect == Spec => []VerifyAuditChain
<1>1. Init => VerifyAuditChain
  BY DEF Init, GoInit, VerifyAuditChain
<1>2. DInv /\ VerifyAuditChain /\ [Next]_vars => VerifyAuditChain'
  BY GoChainNext
<1> QED BY <1>1, <1>2, Inductive, PTL DEF Spec

-----------------------------------------------------------------------------
(***************************************************************************)
(* The mirrors of the dual write.  The vault takes neither a namespace nor  *)
(* a name with a slash in it, so two of its secrets have two keys at the Go *)
(* server.                                                                 *)
(***************************************************************************)
KeysDistinct == \A r, s \in Names : secretKey(r) = secretKey(s) => r = s

Mir(w, s) == w.step \in {"count", "post", "posted", "verify"} /\ w.secret = s
Target(w) == IF w.op = "set" THEN w.value ELSE Absent

\* A write on its way to the store, and one that is in it.
Pend(o, s) == o.step = "sent" /\ o.op \in Mutations /\ o.secret = s
Confirmed(o) == o.step \in {"audit", "epoch"} \/ (o.step = "answered" /\ o.status = 200)

\* No write of the secret is on its way but those of its mirrors.
PendOK(s) ==
  \A c \in Conns : Pend(conn[c], s) =>
    \E t \in Clients : Mir(work[t], s) /\ work[t].step = "posted" /\ work[t].on = c

\* A secret whose two copies nothing but its one mirror keeps apart: the row
\* is what that mirror writes, and Go has it once the mirror is confirmed.
MirrorOK(s) ==
  /\ (\A t \in Clients : ~Mir(work[t], s)) => rows[s] = GoValue(s)
  /\ \A t, u \in Clients : Mir(work[t], s) /\ Mir(work[u], s) => t = u
  /\ \A t \in Clients : Mir(work[t], s) =>
       /\ rows[s] = Target(work[t])
       /\ work[t].step = "verify" => rows[s] = GoValue(s)
       /\ work[t].step = "posted" /\ Confirmed(conn[work[t].on]) => rows[s] = GoValue(s)

MirrorInv ==
  shadowing => \A s \in Names \ (divergent \cup excused) : PendOK(s) /\ (s \notin unsettled => MirrorOK(s))

LEMMA MirrorFrame ==
  ASSUME NEW s, MirrorOK(s), rows'[s] = rows[s], GoValue(s)' = GoValue(s),
         \A u \in Clients : work'[u] = work[u] \/ (~Mir(work[u], s) /\ ~Mir(work'[u], s)),
         \A u \in Clients : Mir(work[u], s) /\ work[u].step = "posted" =>
           (Confirmed(conn'[work[u].on]) => Confirmed(conn[work[u].on]))
  PROVE  MirrorOK(s)'
<1>1. \A u \in Clients : /\ Mir(work'[u], s) <=> Mir(work[u], s)
                         /\ Mir(work[u], s) => work'[u] = work[u]
  OBVIOUS
<1> DEFINE g == GoValue(s)
           h == GoValue(s)'
<1>2. h = g
  OBVIOUS
<1>3. (\A t \in Clients : ~Mir(work'[t], s)) => rows'[s] = h
  BY <1>1, <1>2 DEF MirrorOK
<1>4. \A t, u \in Clients : Mir(work'[t], s) /\ Mir(work'[u], s) => t = u
  BY <1>1 DEF MirrorOK
<1>5. ASSUME NEW t \in Clients, Mir(work'[t], s)
      PROVE  /\ rows'[s] = Target(work'[t])
             /\ work'[t].step = "verify" => rows'[s] = h
             /\ work'[t].step = "posted" /\ Confirmed(conn'[work'[t].on]) => rows'[s] = h
  <2>1. work'[t] = work[t] /\ Mir(work[t], s)
    BY <1>1, <1>5
  <2> HIDE DEF h
  <2> QED BY <2>1, <1>2 DEF MirrorOK
<1> QED BY <1>3, <1>4, <1>5 DEF MirrorOK

LEMMA SameValue ==
  ASSUME NEW s, goStore'[secretKey(s)] = goStore[secretKey(s)] PROVE GoValue(s)' = GoValue(s)
BY DEF GoValue

\* A connection moves that is not the mirror's.
LEMMA MirrorConn ==
  ASSUME GoTypes, NEW s, MirrorOK(s), rows'[s] = rows[s], goStore' = goStore,
         NEW k \in Conns, NEW p, conn' = [conn EXCEPT ![k] = p],
         \A u \in Clients : Mir(work[u], s) /\ work[u].step = "posted" => work[u].on # k,
         \A u \in Clients : work'[u] = work[u] \/ (~Mir(work[u], s) /\ ~Mir(work'[u], s))
  PROVE  MirrorOK(s)'
<1>1. conn'[k] = p /\ \A c : c # k => conn'[c] = conn[c]
  BY DEF GoTypes, GoTypeOK
<1>2. \A u \in Clients : Mir(work[u], s) /\ work[u].step = "posted" =>
        (Confirmed(conn'[work[u].on]) => Confirmed(conn[work[u].on]))
  BY <1>1
<1> QED BY <1>2, SameValue, MirrorFrame

LEMMA LeavesPend ==
  ASSUME NEW s, NEW o, NEW p, Leaves(o, p), Pend(p, s) PROVE Pend(o, s)
BY DEF Leaves, Pend, Closed

\* The connection that a thread mirrors on shows what it writes.
LEMMA MirrorHolds ==
  ASSUME DInv, NEW t \in Clients, work[t].step = "posted"
  PROVE  /\ work[t].on \in Conns /\ conn[work[t].on] \in Opened
         /\ conn[work[t].on].op = work[t].op /\ work[t].op \in {"set", "revoke"}
         /\ conn[work[t].on].secret = work[t].secret /\ conn[work[t].on].value = work[t].value
         /\ \A u \in Clients : work[u].step = "posted" /\ work[u].on = work[t].on => u = t
<1>1. work[t].on \in Conns /\ work[t].op \in {"set", "revoke"}
  BY DEF DInv, ClientsInv, ClientOK, CallOK
<1>2. AtMirror(work[t], conn[work[t].on])
  BY DEF DInv, Links
<1>3. conn[work[t].on] \in Opened
  BY <1>1, <1>2 DEF AtMirror, Held, DInv, GoTypes, GoTypeOK
<1>4. \A u \in Clients : work[u].step = "posted" /\ work[u].on = work[t].on => u = t
  BY DEF DInv, Links, Apart
<1> QED BY <1>1, <1>2, <1>3, <1>4 DEF AtMirror

\* A handler of Go.
LEMMA MirrorHandle ==
  ASSUME KeysDistinct, DInv, NEW s \in Names, PendOK(s), MirrorOK(s), NEW c \in Conns, Handle(c),
         rows' = rows, work' = work
  PROVE  MirrorOK(s)'
<1> DEFINE o == conn[c]
           p == conn'[c]
<1>0. GoTypes
  BY DEF DInv
<1>1. /\ o \in Opened /\ conn' = [conn EXCEPT ![c] = p] /\ Moves(o, p)
      /\ o.op \in GoOps /\ o.secret \in Names
  BY <1>0, HandleMoves, OpenedFields
<1>2. \A d \in Conns : d # c => conn'[d] = conn[d]
  BY <1>0, <1>1 DEF GoTypes, GoTypeOK
<1>4. secretKey(s) \in GoKeys /\ secretKey(o.secret) \in GoKeys
  BY <1>1, KeyOf
<1>5. ~(SetSecret(c) \/ DeleteSecret(c)) => goStore' = goStore
  BY DEF Handle, AuthMiddleware, NotFound, UseSecret, Rotate, AddAuditEntry, KeyEpoch
<1> HIDE DEF p
<1>6. CASE (SetSecret(c) \/ DeleteSecret(c)) /\ o.secret = s
  <2>1. o.step = "sent" /\ o.op \in Mutations /\ p.step = "audit"
    <3>1. o.step = "sent" /\ o.op \in Mutations /\ Goes(c, "audit")
      BY <1>6 DEF SetSecret, DeleteSecret, Sent, Mutations
    <3> QED BY <3>1, <1>0, <1>1, GoesMoves DEF GoTypes, GoTypeOK, p
  <2>2. PICK t \in Clients : Mir(work[t], s) /\ work[t].step = "posted" /\ work[t].on = c
    BY <2>1, <1>6 DEF PendOK, Pend
  <2>3. o.op = work[t].op /\ o.value = work[t].value /\ rows[s] = Target(work[t])
    BY <2>2, MirrorHolds DEF MirrorOK
  <2>4. rows'[s] = GoValue(s)'
    <3>1. CASE SetSecret(c)
      <4> DEFINE e == [ns |-> o.secret.ns, name |-> o.secret.name, value |-> o.value]
      <4>1. goStore' = [goStore EXCEPT ![secretKey(s)] = e] /\ o.op = "set"
        BY <3>1, <1>6 DEF SetSecret, Sent
      <4>2. e.value = o.value
        OBVIOUS
      <4>3. e # Absent
        <5>1. o.value \in Values
          BY <4>1, <1>0, <1>1, OpenedNotClosed DEF GoTypes, SetHasValue
        <5> QED BY <5>1, <1>1, GoAssumption DEF Stored
      <4> HIDE DEF e
      <4>4. goStore'[secretKey(s)] = e
        BY <4>1, <1>4, <1>0 DEF GoTypes, GoTypeOK
      <4>5. GoValue(s)' = o.value
        BY <4>2, <4>3, <4>4 DEF GoValue
      <4> QED BY <2>3, <4>1, <4>5 DEF Target
    <3>2. CASE DeleteSecret(c)
      <4>1. goStore' = [goStore EXCEPT ![secretKey(s)] = Absent] /\ o.op # "set"
        BY <3>2, <1>6 DEF DeleteSecret, Sent
      <4>2. goStore'[secretKey(s)] = Absent
        BY <4>1, <1>4, <1>0 DEF GoTypes, GoTypeOK
      <4>3. GoValue(s)' = Absent
        BY <4>2 DEF GoValue
      <4> QED BY <2>3, <4>1, <4>3 DEF Target
    <3> QED BY <1>6, <3>1, <3>2
  <2> DEFINE h == GoValue(s)'
  <2> HIDE DEF h
  <2>6. rows'[s] = h
    BY <2>4 DEF h
  <2>7. \A u \in Clients : Mir(work[u], s) => rows'[s] = Target(work[u])
    BY DEF MirrorOK
  <2> QED BY <2>6, <2>7 DEF MirrorOK, h
<1>7. CASE ~((SetSecret(c) \/ DeleteSecret(c)) /\ o.secret = s)
  <2>1. goStore'[secretKey(s)] = goStore[secretKey(s)]
    <3>1. CASE SetSecret(c) \/ DeleteSecret(c)
      <4>1. secretKey(o.secret) # secretKey(s)
        BY <1>1, <1>7, <3>1 DEF KeysDistinct
      <4>2. \E e : goStore' = [goStore EXCEPT ![secretKey(o.secret)] = e]
        BY <3>1 DEF SetSecret, DeleteSecret
      <4> QED BY <4>1, <4>2, <1>4, <1>0 DEF GoTypes, GoTypeOK
    <3>2. CASE ~(SetSecret(c) \/ DeleteSecret(c))
      BY <3>2, <1>5
    <3> QED BY <3>1, <3>2
  <2>3. ASSUME NEW u \in Clients, Mir(work[u], s), work[u].step = "posted", Confirmed(conn'[work[u].on])
        PROVE  Confirmed(conn[work[u].on])
    <3>1. CASE work[u].on # c
      BY <3>1, <1>2, <2>3, MirrorHolds
    <3>2. CASE work[u].on = c
      <4>1. o.op \in {"set", "revoke"} /\ o.secret = s
        BY <2>3, <3>2, MirrorHolds DEF Mir
      <4>2. p.step \in {"audit", "epoch"} \/ (p.step = "answered" /\ p.status = 200)
        BY <2>3, <3>2 DEF Confirmed, p
      <4>3. o.step \in {"audit", "epoch"} \/ (o.step = "sent" /\ p.step = "audit")
        BY <4>2, <1>1 DEF Moves, Closed
      <4>4. ~(o.step = "sent" /\ p.step = "audit")
        <5> SUFFICES ASSUME o.step = "sent", p.step = "audit" PROVE FALSE
          OBVIOUS
        <5>1. ~SetSecret(c) /\ ~DeleteSecret(c)
          BY <4>1, <1>7
        <5>2. AuthMiddleware(c) \/ NotFound(c)
          BY <4>1, <5>1 DEF Handle, UseSecret, Rotate, AddAuditEntry, KeyEpoch, Sent
        <5>3. PICK status \in {200, 401, 404, 500} : Answer(c, status)
          BY <5>2 DEF AuthMiddleware, NotFound, AuthStatus
        <5>4. p = Closed \/ p.step = "answered"
          BY <5>3, <1>0, <1>1, AnswerMoves, OpenedFields DEF GoTypes, GoTypeOK, p
        <5> QED BY <5>4 DEF Closed
      <4> QED BY <3>2, <4>3, <4>4 DEF Confirmed
    <3> QED BY <3>1, <3>2
  <2> QED BY <2>1, <2>3, SameValue, MirrorFrame
<1> QED BY <1>6, <1>7

LEMMA MirrorRestart ==
  ASSUME DInv, NEW s \in Names, s \notin unsettled', MirrorOK(s), ForgetMirrors
  PROVE  MirrorOK(s)'
<1>1. UNCHANGED <<rows, work>> /\ GoRestart /\ goStore[secretKey(s)] = Absent
  BY DEF ForgetMirrors
<1>2. goStore'[secretKey(s)] = Absent
  BY <1>1, KeyOf DEF GoRestart
<1>3. \A c \in Conns :
           \/ conn'[c] = conn[c] /\ (conn[c] = Closed \/ conn[c].step = "answered")
           \/ conn'[c] = Closed
           \/ conn'[c].step = "lost"
  BY <1>1, RestartTypes DEF DInv
<1>4. \A c \in Conns : Confirmed(conn'[c]) => Confirmed(conn[c])
  BY <1>3 DEF Confirmed, Closed
<1>5. \A u \in Clients : work[u].step = "posted" => work[u].on \in Conns
  BY MirrorHolds
<1> QED BY <1>1, <1>2, <1>4, <1>5, SameValue, MirrorFrame

-----------------------------------------------------------------------------
(* The threads of the Python server.                                        *)

\* A thread before or after its mirror.
LEMMA MirrorElsewhere ==
  ASSUME NEW s, MirrorOK(s), UNCHANGED <<rows, goStore, conn>>, NEW t \in Clients,
         \A u \in Clients \ {t} : work'[u] = work[u], ~Mir(work[t], s), ~Mir(work'[t], s)
  PROVE  MirrorOK(s)'
<1>1. \A u \in Clients : work'[u] = work[u] \/ (~Mir(work[u], s) /\ ~Mir(work'[u], s))
  OBVIOUS
<1>2. GoValue(s)' = GoValue(s) /\ rows'[s] = rows[s]
  BY SameValue
<1> QED BY <1>1, <1>2, MirrorFrame

\* A mirror ends, or is confirmed, with the row in the store of Go.
LEMMA MirrorEnds ==
  ASSUME NEW s, MirrorOK(s), UNCHANGED <<rows, goStore>>, NEW t \in Clients, Mir(work[t], s), rows[s] = GoValue(s),
         \A u \in Clients \ {t} : work'[u] = work[u],
         \/ ~Mir(work'[t], s)
         \/ Mir(work'[t], s) /\ work'[t].step = "verify" /\ Target(work'[t]) = Target(work[t])
  PROVE  MirrorOK(s)'
<1>1. \A u \in Clients : Mir(work'[u], s) => u = t
  BY DEF MirrorOK
<1> DEFINE h == GoValue(s)'
<1>2. rows'[s] = h
  BY SameValue
<1>4. rows[s] = Target(work[t])
  BY DEF MirrorOK
<1>5. \A u \in Clients : Mir(work'[u], s) => rows'[s] = Target(work'[u])
  <2>1. Mir(work'[t], s) => rows'[s] = Target(work'[t])
    BY <1>4
  <2> QED BY <1>1, <2>1
<1> HIDE DEF h
<1> QED BY <1>1, <1>2, <1>5 DEF MirrorOK, h

LEMMA MirrorCommits ==
  ASSUME DInv, shadowing, NEW s \in Names, s \notin unsettled', NEW t \in Clients, Commit(t),
         work[t].secret # s => MirrorOK(s)
  PROVE  MirrorOK(s)'
<1> DEFINE w == work[t]
           x == work'[t]
<1>1. w \in Works /\ w.secret \in Names /\ w.step = "commit" /\ w.op \in {"set", "revoke"}
  <2>1. w.step = "commit"
    BY DEF Commit
  <2>2. w \in Works /\ ClientOK(deployment, call[t], w)
    BY OneCall DEF DInv
  <2>3. w # Idle /\ w.step \notin {"idle", "done"}
    BY <2>1 DEF Idle
  <2> DEFINE c == call[t]
  <2>4. c.step \in {"idle", "arrived", "go", "python", "answered"} /\ CallOK(deployment, c, w)
    BY <2>2, CallFields DEF ClientOK
  <2> HIDE DEF w, c
  <2>5. c.step = "python" \/ Left(c, w)
    <3>1. c.step \notin {"idle", "arrived", "go"}
      BY <2>3, <2>4 DEF CallOK
    <3> QED BY <2>3, <2>4, <3>1 DEF Left
  <2>6. c.step # "idle"
    BY <2>5 DEF Left
  <2>7. w.secret \in Names
    BY <2>4, <2>5, <2>6 DEF CallOK
  <2>8. w.op \in {"set", "revoke"}
    BY <2>1, <2>4 DEF CallOK
  <2> QED BY <2>1, <2>2, <2>7, <2>8
<1>2. PICK step \in {"count", "post"} : work' = [work EXCEPT ![t] = Stepped(w, step)] /\ UNCHANGED <<divergent, goVars>>
  BY ThreadUpdates DEF Commit, Mirror, DInv, ClientsInv
<1>3. x = Stepped(w, step) /\ \A u \in Clients \ {t} : work'[u] = work[u]
  BY <1>2 DEF DInv, ClientsInv
<1>4. x.step = step /\ Kept(w, x)
  BY <1>1, <1>3, WorkStepped DEF Steps
<1>5. rows' = [rows EXCEPT ![w.secret] = Target(w)]
  BY DEF Commit, Target
<1>6. UNCHANGED <<goStore, conn>>
  BY <1>2 DEF goVars
<1> HIDE DEF x
<1>7. CASE w.secret # s
  <2>1. rows'[s] = rows[s] /\ ~Mir(w, s) /\ ~Mir(x, s)
    BY <1>4, <1>5, <1>7 DEF Mir, Kept, DInv, ShadowInv
  <2>2. \A u \in Clients : work'[u] = work[u] \/ (~Mir(work[u], s) /\ ~Mir(work'[u], s))
    BY <2>1, <1>3 DEF w, x
  <2>3. GoValue(s)' = GoValue(s)
    BY <1>6, SameValue
  <2>4. MirrorOK(s) /\ conn' = conn
    BY <1>6, <1>7
  <2> QED BY <2>1, <2>2, <2>3, <2>4, MirrorFrame
<1>8. CASE w.secret = s
  <2>1. Mirroring(secretKey(s)) = {}
    BY <1>8 DEF Commit, w
  <2>2. \A u \in Clients : ~Mir(work[u], s)
    BY <2>1 DEF Mirroring, Mir
  <2>4. rows'[s] = Target(x)
    BY <1>4, <1>5, <1>8 DEF Target, Kept, DInv, ShadowInv
  <2>5. \A u \in Clients : Mir(work'[u], s) => u = t
    BY <2>2, <1>3
  <2>6. Mir(work'[t], s) /\ work'[t].step \in {"count", "post"}
    BY <1>4, <1>8 DEF Mir, Kept, x
  <2> QED BY <2>4, <2>5, <2>6 DEF MirrorOK, x
<1> QED BY <1>7, <1>8

\* The count of the DEK's use: the mirror goes on, or the call ends here.
LEMMA MirrorCounts ==
  ASSUME DInv, shadowing, NEW s \in Names, s \notin unsettled', MirrorOK(s), NEW t \in Clients, RecordUsage(t)
  PROVE  MirrorOK(s)'
<1> DEFINE w == work[t]
           x == work'[t]
<1>1. w \in Works /\ w.step = "count"
  BY OneCall DEF DInv, RecordUsage
<1>2. \/ work' = [work EXCEPT ![t] = Stepped(w, "post")] /\ unsettled' = unsettled
      \/ work' = [work EXCEPT ![t] = Unlog(w)] /\ unsettled' = unsettled \cup {w.secret}
  BY ThreadUpdates DEF RecordUsage, Mirror, DInv, ClientsInv
<1>3. UNCHANGED <<goStore, conn, rows>>
  BY DEF RecordUsage, goVars
<1>4. /\ \A u \in Clients \ {t} : work'[u] = work[u]
      /\ \/ x = Stepped(w, "post") /\ unsettled' = unsettled
         \/ x = Unlog(w) /\ unsettled' = unsettled \cup {w.secret}
  BY <1>2 DEF DInv, ClientsInv
<1>5. /\ Kept(w, x)
      /\ \/ x.step = "post" /\ unsettled' = unsettled
         \/ x.step = "done" /\ unsettled' = unsettled \cup {w.secret}
  <2> HIDE DEF w, x
  <2> QED BY <1>1, <1>4, WorkStepped, WorkUnlogged DEF Steps
<1> HIDE DEF w, x
<1>6. CASE w.secret # s
  <2>1. ~Mir(w, s) /\ ~Mir(x, s)
    BY <1>5, <1>6 DEF Mir, Kept
  <2>2. \A u \in Clients : work'[u] = work[u] \/ (~Mir(work[u], s) /\ ~Mir(work'[u], s))
    BY <2>1, <1>4 DEF w, x
  <2>3. GoValue(s)' = GoValue(s)
    BY <1>3, SameValue
  <2> QED BY <2>2, <2>3, <1>3, <1>5, MirrorFrame
<1>7. CASE w.secret = s
  <2>1. Mir(work[t], s) /\ work[t].step = "count"
    BY <1>1, <1>7 DEF Mir, w
  <2>2. /\ \A u \in Clients : Mir(work[u], s) => u = t
        /\ rows[s] = Target(work[t])
    BY <2>1 DEF MirrorOK
  <2>3. \A u \in Clients : Mir(work'[u], s) => u = t /\ x.step = "post"
    BY <2>2, <1>4, <1>5 DEF Mir, x
  <2>5. rows'[s] = Target(work'[t])
    BY <2>2, <1>3, <1>5 DEF Target, Kept, w, x
  <2>6. Mir(work'[t], s)
    BY <1>5, <1>7 DEF Mir, Kept, x
  <2> QED BY <2>3, <2>5, <2>6 DEF MirrorOK, x
<1> QED BY <1>6, <1>7

LEMMA MirrorPosts ==
  ASSUME DInv, NEW s \in Names, MirrorOK(s), NEW t \in Clients, MirrorPost(t)
  PROVE  MirrorOK(s)'
<1> DEFINE w == work[t]
           x == work'[t]
           r == Request(w.op, w.secret, w.value, ShadowToken)
<1>1. w \in Works /\ w.step = "post"
  BY OneCall DEF DInv, MirrorPost
<1>2. PICK k \in FirstFree : Connect(k, r) /\ work' = [work EXCEPT ![t].step = "posted", ![t].on = k]
  BY DEF MirrorPost
<1>3. k \in Conns /\ conn[k] = Closed /\ conn' = [conn EXCEPT ![k] = r]
  BY <1>2, FreeConn DEF Connect
<1>4. conn'[k] = r /\ \A c \in Conns : c # k => conn'[c] = conn[c]
  BY <1>3 DEF DInv, GoTypes, GoTypeOK
<1>5. r.step = "sent" /\ r.secret = w.secret
  BY DEF Request
<1>6. x = Mirrors(w, k) /\ \A u \in Clients \ {t} : work'[u] = work[u]
  <2>1. work' = [work EXCEPT ![t] = Mirrors(w, k)]
    BY <1>2 DEF Mirrors
  <2> QED BY <2>1 DEF DInv, ClientsInv
<1>7. x.step = "posted" /\ x.on = k /\ Kept(w, x)
  BY <1>1, <1>3, <1>6, WorkMirrors
<1>8. UNCHANGED <<goStore, rows>>
  BY DEF MirrorPost
<1>9. \A u \in Clients : work[u].step = "posted" => work[u].on # k
  BY <1>3, Holders DEF DInv
<1> HIDE DEF w, x, r
<1>10. CASE w.secret # s
  <2>1. ~Mir(w, s) /\ ~Mir(x, s)
    BY <1>7, <1>10 DEF Mir, Kept
  <2>2. \A u \in Clients : work'[u] = work[u] \/ (~Mir(work[u], s) /\ ~Mir(work'[u], s))
    BY <2>1, <1>6 DEF w, x
  <2> QED BY <2>1, <2>2, <1>3, <1>8, <1>9, MirrorConn DEF DInv
<1>11. CASE w.secret = s
  <2>1. Mir(work[t], s) /\ Mir(work'[t], s)
    BY <1>1, <1>7, <1>11 DEF Mir, Kept, w, x
  <2>2. \A u \in Clients : Mir(work[u], s) => u = t
    BY <2>1 DEF MirrorOK
  <2>3. \A u \in Clients : Mir(work'[u], s) => u = t
    BY <2>2, <1>6
  <2>4. rows'[s] = Target(work'[t])
    BY <2>1, <1>7, <1>8 DEF MirrorOK, Target, Kept, w, x
  <2>5. ~Confirmed(conn'[k])
    BY <1>4, <1>5 DEF Confirmed
  <2> QED BY <2>1, <2>3, <2>4, <2>5, <1>7 DEF MirrorOK, x
<1> QED BY <1>10, <1>11

LEMMA MirrorAnswers ==
  ASSUME DInv, NEW s \in Names, s \notin divergent', MirrorOK(s), NEW t \in Clients, MirrorAnswer(t)
  PROVE  MirrorOK(s)'
<1> DEFINE w == work[t]
           x == work'[t]
           k == w.on
<1>1. w \in Works /\ w.step = "posted"
  BY OneCall DEF DInv, MirrorAnswer
<1>2. /\ k \in Conns /\ \A u \in Clients : work[u].step = "posted" /\ work[u].on = k => u = t
      /\ w.op \in {"set", "revoke"}
  BY <1>1, MirrorHolds
<1>3. conn[k].step = "answered" /\ conn' = [conn EXCEPT ![k] = Closed]
  BY DEF MirrorAnswer, Disconnect
<1>4. conn'[k] = Closed /\ \A c \in Conns : c # k => conn'[c] = conn[c]
  BY <1>2, <1>3 DEF DInv, GoTypes, GoTypeOK
<1>6. UNCHANGED <<goStore, rows>>
  BY DEF MirrorAnswer
<1>7. PICK y : /\ work' = [work EXCEPT ![t] = y]
               /\ \/ conn[k].status = 200 /\ y = Stepped(w, "verify")
                  \/ conn[k].status = 200 /\ y = Rowed(w, TRUE)
                  \/ y = Rowed(w, FALSE) /\ divergent' = divergent \cup {w.secret}
  <2>1. /\ Proceed(t, "verify") => work' = [work EXCEPT ![t] = Stepped(w, "verify")]
        /\ Mirrored(t) => work' = [work EXCEPT ![t] = Rowed(w, TRUE)]
        /\ AddDivergence(t) => work' = [work EXCEPT ![t] = Rowed(w, FALSE)]
    BY ThreadUpdates DEF DInv, ClientsInv
  <2>2. \/ conn[k].status = 200 /\ Proceed(t, "verify")
        \/ conn[k].status = 200 /\ Mirrored(t)
        \/ AddDivergence(t) /\ divergent' = divergent \cup {w.secret}
    BY DEF MirrorAnswer, AddDivergence
  <2> HIDE DEF w, k
  <2> QED BY <2>1, <2>2
<1>8. x = y /\ \A u \in Clients \ {t} : work'[u] = work[u]
  BY <1>7 DEF DInv, ClientsInv
<1> HIDE DEF x
<1>9. /\ Kept(w, x)
      /\ \/ conn[k].status = 200 /\ (x.step = "verify" \/ x.step = "row")
         \/ x.step = "row" /\ divergent' = divergent \cup {w.secret}
  <2> HIDE DEF w, k
  <2>1. x = Stepped(w, "verify") => Kept(w, x) /\ x.step = "verify"
    BY <1>1, WorkStepped DEF Steps
  <2>2. x = Rowed(w, TRUE) => Kept(w, x) /\ x.step = "row"
    BY <1>1, WorkRowed
  <2>3. x = Rowed(w, FALSE) => Kept(w, x) /\ x.step = "row"
    BY <1>1, WorkRowed
  <2>4. \/ conn[k].status = 200 /\ x = Stepped(w, "verify")
        \/ conn[k].status = 200 /\ x = Rowed(w, TRUE)
        \/ x = Rowed(w, FALSE) /\ divergent' = divergent \cup {w.secret}
    BY <1>7, <1>8
  <2> QED BY <2>1, <2>2, <2>3, <2>4
<1>13. conn[k].status = 200 \/ w.secret # s
  BY <1>9
<1> HIDE DEF w
<1>10. CASE w.secret # s
  <2>1. ~Mir(w, s) /\ ~Mir(x, s)
    BY <1>9, <1>10 DEF Mir, Kept
  <2>2. \A u \in Clients : work'[u] = work[u] \/ (~Mir(work[u], s) /\ ~Mir(work'[u], s))
    BY <2>1, <1>8 DEF w, x
  <2>3. \A u \in Clients : Mir(work[u], s) /\ work[u].step = "posted" => work[u].on # k
    BY <2>1, <1>2 DEF w
  <2> QED BY <2>2, <2>3, <1>2, <1>3, <1>6, MirrorConn DEF DInv
<1>11. CASE w.secret = s
  <2>1. Mir(work[t], s) /\ conn[k].status = 200
    BY <1>1, <1>11, <1>13 DEF Mir, w
  <2>2. rows[s] = GoValue(s)
    BY <2>1, <1>1, <1>3 DEF MirrorOK, Confirmed, w
  <2>3. ~Mir(x, s) \/ (Mir(x, s) /\ x.step = "verify" /\ Target(x) = Target(w))
    BY <1>9 DEF Mir, Kept, Target
  <2> QED BY <2>1, <2>2, <2>3, <1>6, <1>8, MirrorEnds DEF w, x
<1> QED BY <1>10, <1>11

\* The check of the value, and a mirror that fails.
LEMMA MirrorRows ==
  ASSUME DInv, NEW s \in Names, s \notin divergent', MirrorOK(s), NEW t \in Clients, MirrorVerify(t) \/ MirrorFails(t)
  PROVE  MirrorOK(s)'
<1> DEFINE w == work[t]
           x == work'[t]
           k == w.on
<1>1. w \in Works /\ w.step \in {"post", "posted", "verify"}
  BY OneCall DEF DInv, MirrorVerify, MirrorFails
<1>2. PICK y : /\ work' = [work EXCEPT ![t] = y]
               /\ y = Rowed(w, TRUE) \/ y = Rowed(w, FALSE)
  <2>1. /\ Mirrored(t) => work' = [work EXCEPT ![t] = Rowed(w, TRUE)]
        /\ AddDivergence(t) => work' = [work EXCEPT ![t] = Rowed(w, FALSE)]
    BY ThreadUpdates DEF DInv, ClientsInv
  <2>2. Mirrored(t) \/ AddDivergence(t)
    BY DEF MirrorVerify, MirrorFails
  <2> HIDE DEF w, k
  <2> QED BY <2>1, <2>2
<1>3. x = y /\ \A u \in Clients \ {t} : work'[u] = work[u]
  BY <1>2 DEF DInv, ClientsInv
<1> HIDE DEF x
<1>4. Kept(w, x) /\ x.step = "row"
  <2>1. Rowed(w, TRUE).step = "row" /\ Kept(w, Rowed(w, TRUE))
    BY <1>1, WorkRowed
  <2>2. Rowed(w, FALSE).step = "row" /\ Kept(w, Rowed(w, FALSE))
    BY <1>1, WorkRowed
  <2> HIDE DEF w, k
  <2> QED BY <2>1, <2>2, <1>2, <1>3
<1>5. ~Mir(x, s)
  BY <1>4 DEF Mir
<1>6. UNCHANGED <<rows, goStore>>
  BY DEF MirrorVerify, MirrorFails, goVars
<1>7. CASE w.secret = s
  <2>1. MirrorVerify(t)
    BY <1>7 DEF MirrorFails, AddDivergence
  <2>2. w.step = "verify" /\ conn' = conn
    BY <2>1 DEF MirrorVerify, goVars
  <2>3. Mir(work[t], s) /\ rows[s] = GoValue(s)
    BY <2>2, <1>7 DEF Mir, MirrorOK
  <2> QED BY <2>3, <1>3, <1>5, <1>6, MirrorEnds DEF x
<1>8. CASE w.secret # s
  <2>1. ~Mir(w, s)
    BY <1>8 DEF Mir
  <2>2. CASE conn' = conn
    BY <2>1, <2>2, <1>3, <1>5, <1>6, MirrorElsewhere DEF x
  <2>3. CASE conn' # conn
    <3>1. w.step = "posted" /\ Abandon(k)
      BY <2>3 DEF MirrorVerify, MirrorFails, goVars
    <3>2. k \in Conns /\ conn[k] \in Opened /\ \A u \in Clients : work[u].step = "posted" /\ work[u].on = k => u = t
      BY <3>1, MirrorHolds
    <3> DEFINE p == conn'[k]
    <3>3. conn' = [conn EXCEPT ![k] = p] /\ Leaves(conn[k], p)
      BY <3>1, <3>2, AbandonLeaves, OpenedNotClosed DEF DInv
    <3> HIDE DEF p
    <3>5. \A u \in Clients : Mir(work[u], s) /\ work[u].step = "posted" => work[u].on # k
      BY <3>2, <2>1
    <3>6. \A u \in Clients : work'[u] = work[u] \/ (~Mir(work[u], s) /\ ~Mir(work'[u], s))
      BY <2>1, <1>3, <1>5 DEF x
    <3> QED BY <3>2, <3>3, <3>5, <3>6, <1>6, MirrorConn DEF DInv
  <2> QED BY <2>2, <2>3
<1> QED BY <1>7, <1>8

LEMMA MirrorPython ==
  ASSUME DInv, shadowing, NEW s \in Names, s \notin divergent' \cup unsettled', MirrorOK(s), NEW t \in Clients, PythonStep(t)
  PROVE  MirrorOK(s)'
<1>1. CASE Commit(t)
  BY <1>1, MirrorCommits
<1>2. CASE MirrorPost(t)
  BY <1>2, MirrorPosts
<1>3. CASE MirrorAnswer(t)
  BY <1>3, MirrorAnswers
<1>4. CASE MirrorVerify(t) \/ MirrorFails(t)
  BY <1>4, MirrorRows
<1>6. CASE RecordUsage(t)
  BY <1>6, MirrorCounts
<1>7. CASE CommitFails(t)
  <2>1. work' = [work EXCEPT ![t] = Returned(work[t], 500)]
    BY <1>7, ReturnUpdates DEF CommitFails, DInv, ClientsInv
  <2>2. work'[t] = Returned(work[t], 500) /\ \A u \in Clients \ {t} : work'[u] = work[u]
    BY <2>1 DEF DInv, ClientsInv
  <2>3. work[t].step = "commit" /\ UNCHANGED <<rows, goStore, conn>>
    BY <1>7 DEF CommitFails, goVars
  <2>4. Returned(work[t], 500).step = "done"
    BY OneCall, WorkReturned DEF DInv
  <2>5. ~Mir(work[t], s) /\ ~Mir(work'[t], s)
    BY <2>2, <2>3, <2>4 DEF Mir
  <2> QED BY <2>2, <2>3, <2>5, MirrorElsewhere
<1>5. CASE ShadowRow(t) \/ ServerStep(t, call[t].cred)
  <2> DEFINE w == work[t]
             x == work'[t]
  <2>1. w \in Works /\ ClientOK(deployment, call[t], w)
    BY OneCall DEF DInv
  <2>2. work' = [work EXCEPT ![t] = x] /\ ThreadMoves(w, x, Acts(t))
    <3>1. /\ w.step \in {"commit", "count", "post", "posted", "verify", "row"} => w.op \in {"set", "revoke"}
          /\ w.step = "count" => w.op = "set"
      BY <2>1 DEF ClientOK, CallOK
    <3>2. w.step \in {"waiting", "woken", "release"} => w.op = "use"
      BY <2>1 DEF ClientOK, CallOK
    <3> QED BY <1>5, <3>1, <3>2, ThreadSteps DEF MirrorStep, DInv, ClientsInv
  <2>3. w.step \in {"row", "queued", "waiting", "woken", "release"}
    BY <1>5 DEF ShadowRow, ServerStep, Refuse, Write, Use, Decide, Wake, Collect, Release, Starts
  <2>4. ~Mir(w, s) /\ ~Mir(x, s)
    BY <2>2, <2>3 DEF ThreadMoves, Mir
  <2>5. UNCHANGED <<rows, goStore, conn>>
    BY <1>5 DEF ShadowRow, ServerStep, Refuse, Write, Use, Decide, Wake, Collect, Release, goVars
  <2>6. \A u \in Clients \ {t} : work'[u] = work[u]
    <3> HIDE DEF x
    <3> QED BY <2>2 DEF DInv, ClientsInv
  <2> QED BY <2>4, <2>5, <2>6, MirrorElsewhere
<1> QED BY <1>1, <1>2, <1>3, <1>4, <1>5, <1>6, <1>7 DEF PythonStep, MirrorStep

LEMMA MirrorStays ==
  ASSUME NEW s, MirrorOK(s), UNCHANGED <<rows, goStore, conn, work>>
  PROVE  MirrorOK(s)'
BY SameValue, MirrorFrame

\* A connection that the gateway holds is no mirror's.
LEMMA GatewayHolds ==
  ASSUME DInv, NEW t \in Clients, call[t].step = "go"
  PROVE  /\ call[t].on \in Conns /\ conn[call[t].on] # Closed
         /\ \A u \in Clients : work[u].step = "posted" => work[u].on # call[t].on
         /\ work[t] = Idle
BY AtConn DEF DInv, Links, Apart, AtGo, Held, ClientsInv, ClientOK, CallOK

LEMMA NotMirroring == \A op, s, v, cred, r : ~Mir(Idle, r) /\ ~Mir(Received(op, s, v, cred), r)
BY DEF Idle, Received, Mir

LEMMA MirrorGateway ==
  ASSUME DInv, NEW s \in Names, MirrorOK(s), NEW t \in Clients,
         GatewayStep(t) \/ GoFails(t) \/ PythonFails(t)
  PROVE  MirrorOK(s)'
<1> DEFINE c == call[t]
           k == c.on
<1>1. UNCHANGED <<rows, goStore>>
  BY DEF GatewayStep, GoFails, PythonFails, ServeHTTP, GoAnswers, PythonAnswers, Done, goVars, pythonVars, shadowVars
<1>2. CASE PythonAnswers(t)
  BY <1>2, MirrorStays DEF PythonAnswers, pythonVars, shadowVars, goVars
<1>3. CASE Done(t)
  <2>2. ~Mir(work[t], s)
    BY <1>3 DEF Done, Mir
  <2>3. work' = [work EXCEPT ![t] = Idle] /\ conn' = conn
    BY <1>3 DEF Done, goVars
  <2>4. work'[t] = Idle /\ \A u \in Clients \ {t} : work'[u] = work[u]
    BY <2>3 DEF DInv, ClientsInv
  <2> QED BY <2>2, <2>3, <2>4, <1>1, NotMirroring, MirrorElsewhere
<1>4. CASE GoAnswers(t)
  <2>1. c.step = "go" /\ conn' = [conn EXCEPT ![k] = Closed] /\ work' = work
    BY <1>4 DEF GoAnswers, Disconnect, pythonVars, shadowVars
  <2>2. k \in Conns /\ \A u \in Clients : work[u].step = "posted" => work[u].on # k
    BY <2>1, GatewayHolds
  <2> HIDE DEF k, c
  <2> QED BY <2>1, <2>2, <1>1, MirrorConn DEF DInv
<1>5. CASE GoFails(t)
  <2>1. c.step = "go" /\ (Disconnect(k) \/ Abandon(k))
    BY <1>5 DEF GoFails
  <2>2. /\ k \in Conns /\ conn[k] # Closed /\ work[t] = Idle
        /\ \A u \in Clients : work[u].step = "posted" => work[u].on # k
    BY <2>1, GatewayHolds
  <2> DEFINE p == conn'[k]
  <2>3. conn' = [conn EXCEPT ![k] = p]
    BY <2>1, <2>2, AbandonLeaves DEF DInv
  <2> HIDE DEF p
  <2>5. work' = work \/ work' = [work EXCEPT ![t] = Received(c.op, c.secret, c.value, c.cred)]
    BY <1>5, ReceiveSets DEF GoFails
  <2>6. \A u \in Clients : work'[u] = work[u] \/ (~Mir(work[u], s) /\ ~Mir(work'[u], s))
    BY <2>2, <2>5, NotMirroring DEF DInv, ClientsInv
  <2> HIDE DEF k, c
  <2> QED BY <2>2, <2>3, <2>6, <1>1, MirrorConn DEF DInv
<1>6. CASE ServeHTTP(t)
  <2>1. c.step = "arrived" /\ work[t] = Idle
    BY <1>6 DEF ServeHTTP, DInv, ClientsInv, ClientOK, CallOK
  <2>2. CASE \E j \in FirstFree : Connect(j, Request(c.op, c.secret, c.value, c.cred.token)) /\ Differs(t) /\ UNCHANGED work
    <3>1. PICK j \in FirstFree : Connect(j, Request(c.op, c.secret, c.value, c.cred.token))
      BY <2>2
    <3> DEFINE r == Request(c.op, c.secret, c.value, c.cred.token)
    <3>2. j \in Conns /\ conn[j] = Closed /\ conn' = [conn EXCEPT ![j] = r]
      BY <3>1, FreeConn DEF Connect
    <3>3. work' = work
      BY <2>2
    <3>5. \A u \in Clients : work[u].step = "posted" => work[u].on # j
      BY <3>2, Holders DEF DInv
    <3> HIDE DEF r
    <3> QED BY <3>2, <3>3, <3>5, <1>1, MirrorConn DEF DInv
  <2>3. CASE ToPython(t) /\ UNCHANGED conn
    <3>1. work' = [work EXCEPT ![t] = Received(c.op, c.secret, c.value, c.cred)]
      BY <2>3, ReceiveSets DEF ToPython
    <3>2. work'[t] = Received(c.op, c.secret, c.value, c.cred) /\ \A u \in Clients \ {t} : work'[u] = work[u]
      BY <3>1 DEF DInv, ClientsInv
    <3> QED BY <2>1, <2>3, <3>2, <1>1, NotMirroring, MirrorElsewhere
  <2> QED BY <1>6, <2>2, <2>3 DEF ServeHTTP
<1>7. CASE PythonFails(t)
  <2>1. conn' = conn
    BY <1>7 DEF PythonFails, goVars
  <2>2. CASE work' = work
    BY <2>1, <2>2, <1>1, MirrorStays
  <2>3. CASE work[t].step = "queued" /\ work' = [work EXCEPT ![t] = Idle]
    <3>1. work'[t] = Idle /\ \A u \in Clients \ {t} : work'[u] = work[u]
      BY <2>3 DEF DInv, ClientsInv
    <3>2. ~Mir(work[t], s)
      BY <2>3 DEF Mir
    <3> QED BY <2>1, <3>1, <3>2, <1>1, NotMirroring, MirrorElsewhere
  <2> QED BY <1>7, <2>2, <2>3 DEF PythonFails
<1> QED BY <1>2, <1>3, <1>4, <1>5, <1>6, <1>7 DEF GatewayStep

-----------------------------------------------------------------------------
(* What is on its way to Go.                                                *)

LEMMA PendFrame ==
  ASSUME NEW s, PendOK(s), \A c \in Conns : Pend(conn'[c], s) => Pend(conn[c], s),
         \A u \in Clients : Mir(work[u], s) /\ work[u].step = "posted" =>
           work'[u] = work[u] \/ ~Pend(conn'[work[u].on], s)
  PROVE  PendOK(s)'
<1> SUFFICES ASSUME NEW c \in Conns, Pend(conn'[c], s)
             PROVE  \E t \in Clients : Mir(work'[t], s) /\ work'[t].step = "posted" /\ work'[t].on = c
  BY DEF PendOK
<1>1. PICK t \in Clients : Mir(work[t], s) /\ work[t].step = "posted" /\ work[t].on = c
  BY DEF PendOK
<1> QED BY <1>1

LEMMA PendStays ==
  ASSUME NEW s, PendOK(s), UNCHANGED <<conn, work>>
  PROVE  PendOK(s)'
BY PendFrame

\* A connection that is closed, or left to its handler.
LEMMA PendLeft ==
  ASSUME DInv, NEW s, NEW c \in Conns, conn[c] # Closed, Abandon(c) \/ Disconnect(c)
  PROVE  \A d \in Conns : Pend(conn'[d], s) => Pend(conn[d], s)
<1> DEFINE p == conn'[c]
<1>1. conn' = [conn EXCEPT ![c] = p] /\ Leaves(conn[c], p)
  BY AbandonLeaves DEF DInv
<1> HIDE DEF p
<1>2. Pend(p, s) => Pend(conn[c], s)
  BY <1>1, LeavesPend
<1> QED BY <1>1, <1>2 DEF DInv, GoTypes, GoTypeOK

LEMMA PendPython ==
  ASSUME DInv, NEW s \in Names, s \notin divergent', PendOK(s), NEW t \in Clients, PythonStep(t)
  PROVE  PendOK(s)'
<1>1. MirrorStep(t) \/ ServerStep(t, call[t].cred)
  BY DEF PythonStep
<1>2. ClientOK(deployment, call[t], work[t])
  BY OneCall DEF DInv
<1>3. work' = [work EXCEPT ![t] = work'[t]]
  BY <1>1, <1>2, ThreadSteps DEF DInv, ClientsInv, ClientOK, CallOK
<1>4. \A u \in Clients \ {t} : work'[u] = work[u]
  BY <1>3 DEF DInv, ClientsInv
<1>5. CASE MirrorPost(t)
  <2> DEFINE w == work[t]
             r == Request(w.op, w.secret, w.value, ShadowToken)
  <2>1. PICK k \in FirstFree : Connect(k, r) /\ work' = [work EXCEPT ![t].step = "posted", ![t].on = k]
    BY <1>5 DEF MirrorPost
  <2>2. k \in Conns /\ conn' = [conn EXCEPT ![k] = r] /\ w.step = "post" /\ w \in Works
    BY <1>2, <1>5, <2>1, FreeConn DEF Connect, MirrorPost, ClientOK
  <2>3. conn'[k] = r /\ \A c \in Conns : c # k => conn'[c] = conn[c]
    BY <2>2 DEF DInv, GoTypes, GoTypeOK
  <2>4. Pend(r, s) => w.secret = s
    BY DEF Pend, Request
  <2>5. work'[t] = Mirrors(w, k)
    BY <2>1 DEF Mirrors, DInv, ClientsInv
  <2>6. work'[t].step = "posted" /\ work'[t].on = k /\ work'[t].secret = w.secret
    <3> HIDE DEF w
    <3> QED BY <2>2, <2>5, WorkMirrors DEF Kept
  <2> HIDE DEF r
  <2>7. ASSUME NEW c \in Conns, Pend(conn'[c], s)
        PROVE  \E u \in Clients : Mir(work'[u], s) /\ work'[u].step = "posted" /\ work'[u].on = c
    <3>1. CASE c = k
      BY <2>3, <2>4, <2>6, <2>7, <3>1 DEF Mir
    <3>2. CASE c # k
      <4>1. PICK u \in Clients : Mir(work[u], s) /\ work[u].step = "posted" /\ work[u].on = c
        BY <2>3, <2>7, <3>2 DEF PendOK
      <4> QED BY <4>1, <1>4, <2>2
    <3> QED BY <3>1, <3>2
  <2> QED BY <2>7 DEF PendOK
<1>6. CASE work[t].step = "posted"
  <2>1. PICK c \in Conns : c = work[t].on /\ conn[c] # Closed
    BY <1>6 DEF DInv, ClientsInv, ClientOK, CallOK, Links, AtMirror, Held
  <2>2. MirrorAnswer(t) \/ MirrorFails(t)
    BY <1>1, <1>6 DEF MirrorStep, Commit, CommitFails, RecordUsage, MirrorPost, MirrorVerify, ShadowRow,
                      ServerStep, Refuse, Write, Use, Decide, Wake, Collect, Release, Starts
  <2>3. Abandon(c) \/ Disconnect(c)
    BY <1>6, <2>1, <2>2 DEF MirrorAnswer, MirrorFails
  <2>4. \A d \in Conns : Pend(conn'[d], s) => Pend(conn[d], s)
    BY <2>1, <2>3, PendLeft
  <2>5. ~Mir(work[t], s) \/ ~Pend(conn'[c], s)
    <3>1. CASE MirrorAnswer(t)
      <4>1. conn'[c] = Closed
        BY <2>1, <3>1 DEF MirrorAnswer, Disconnect, DInv, GoTypes, GoTypeOK
      <4> QED BY <4>1 DEF Pend, Closed
    <3>2. CASE MirrorFails(t)
      BY <3>2 DEF MirrorFails, AddDivergence, Mir
    <3> QED BY <2>2, <3>1, <3>2
  <2> QED BY <1>4, <2>1, <2>4, <2>5, PendFrame
<1>7. CASE ~MirrorPost(t) /\ work[t].step # "posted"
  <2>1. conn' = conn
    BY <1>1, <1>7 DEF MirrorStep, Commit, CommitFails, RecordUsage, MirrorPost, MirrorAnswer, MirrorVerify, MirrorFails, ShadowRow,
                      ServerStep, Refuse, Write, Use, Decide, Wake, Collect, Release, goVars
  <2> QED BY <1>4, <1>7, <2>1, PendFrame
<1> QED BY <1>5, <1>6, <1>7

LEMMA PendGateway ==
  ASSUME DInv, NEW s \in Names, s \notin excused', PendOK(s), NEW t \in Clients,
         GatewayStep(t) \/ GoFails(t) \/ PythonFails(t)
  PROVE  PendOK(s)'
<1> DEFINE c == call[t]
           k == c.on
<1>1. \A u \in Clients : work[u].step = "posted" => work'[u] = work[u]
  <2>1. \A u \in Clients \ {t} : work'[u] = work[u]
    BY DEF GatewayStep, ServeHTTP, GoAnswers, PythonAnswers, Done, GoFails, PythonFails, ToPython, Receive,
           pythonVars, shadowVars, DInv, ClientsInv
  <2>2. work'[t] = work[t] \/ c.step \in {"arrived", "go"} \/ work[t].step \in {"idle", "queued", "done"}
    BY DEF GatewayStep, ServeHTTP, GoAnswers, PythonAnswers, Done, GoFails, PythonFails, pythonVars, shadowVars
  <2>3. c.step \in {"arrived", "go"} => work[t] = Idle
    BY DEF DInv, ClientsInv, ClientOK, CallOK
  <2> QED BY <2>1, <2>2, <2>3 DEF Idle
<1>2. CASE conn' = conn
  BY <1>1, <1>2, PendFrame
<1>3. CASE GoAnswers(t) \/ GoFails(t)
  <2>1. c.step = "go" /\ (Disconnect(k) \/ Abandon(k))
    BY <1>3 DEF GoAnswers, GoFails
  <2>2. k \in Conns /\ conn[k] # Closed
    BY <2>1, GatewayHolds
  <2> QED BY <1>1, <2>1, <2>2, PendLeft, PendFrame
<1>4. CASE ServeHTTP(t) /\ conn' # conn
  <2> DEFINE r == Request(c.op, c.secret, c.value, c.cred.token)
  <2>1. PICK j \in FirstFree : Connect(j, r) /\ s # c.secret
    BY <1>4 DEF ServeHTTP, Differs
  <2>2. j \in Conns /\ conn' = [conn EXCEPT ![j] = r]
    BY <2>1, FreeConn DEF Connect
  <2>3. ~Pend(r, s)
    BY <2>1 DEF Pend, Request
  <2> HIDE DEF r
  <2>4. \A d \in Conns : Pend(conn'[d], s) => Pend(conn[d], s)
    BY <2>2, <2>3 DEF DInv, GoTypes, GoTypeOK
  <2> QED BY <1>1, <2>4, PendFrame
<1> QED BY <1>2, <1>3, <1>4 DEF GatewayStep, PythonAnswers, Done, PythonFails, goVars

LEMMA PendNext ==
  ASSUME DInv, ~OnTerminal, NEW s \in Names, s \notin divergent' \cup excused', PendOK(s), [Next]_vars
  PROVE  PendOK(s)'
<1>1. CASE CallerNext
  <2>1. CASE \E t \in Clients : GoFails(t) \/ PythonFails(t)
    BY <2>1, PendGateway
  <2>2. CASE \E t \in NextCaller, i \in Inputs[deployment] : Arrive(t, i.op, i.secret, i.value, i.cred)
    BY <2>2, PendStays DEF Arrive, pythonVars, shadowVars, goVars
  <2> QED BY <1>1, <2>1, <2>2 DEF CallerNext
<1>2. CASE CutoverNext
  <2>1. CASE ForgetMirrors
    <3>1. \A c \in Conns :
           \/ conn'[c] = conn[c] /\ (conn[c] = Closed \/ conn[c].step = "answered")
           \/ conn'[c] = Closed
           \/ conn'[c].step = "lost"
      BY <2>1, RestartTypes DEF DInv, ForgetMirrors
    <3>2. \A c \in Conns : ~Pend(conn'[c], s)
      BY <3>1 DEF Pend, Closed
    <3> QED BY <3>2 DEF PendOK
  <2>2. CASE \E p \in Percents : SetGoPercent(p)
    BY <2>2, PendStays DEF SetGoPercent, pythonVars, shadowVars, goVars
  <2> QED BY <1>2, <2>1, <2>2 DEF CutoverNext
<1>3. CASE GoNext
  <2>1. CASE \E c \in Conns : GoStep(c)
    <3>1. PICK c \in Conns : Handle(c) /\ work' = work
      BY <2>1 DEF GoStep, pythonVars, shadowVars
    <3>2. conn' = [conn EXCEPT ![c] = conn'[c]] /\ Moves(conn[c], conn'[c])
      BY <3>1, HandleMoves DEF DInv
    <3>3. ~Pend(conn'[c], s)
      BY <3>2 DEF Moves, Pend, Closed
    <3>4. \A d \in Conns : Pend(conn'[d], s) => Pend(conn[d], s)
      BY <3>2, <3>3 DEF DInv, GoTypes, GoTypeOK
    <3> QED BY <3>1, <3>4, PendFrame
  <2>2. CASE \E t \in Clients : GatewayStep(t)
    BY <2>2, PendGateway
  <2>3. CASE \E t \in Clients : PythonStep(t)
    BY <2>3, PendPython
  <2> QED BY <1>3, <2>1, <2>2, <2>3 DEF GoNext, GoesOn
<1>4. CASE UNCHANGED vars
  BY <1>4, PendStays DEF vars, pythonVars, shadowVars, goVars
<1> QED BY <1>1, <1>2, <1>3, <1>4 DEF Next, TuiNext

-----------------------------------------------------------------------------
LEMMA ShadowGrows ==
  ASSUME [Next]_vars
  PROVE  /\ shadowing' = shadowing /\ divergent \subseteq divergent' /\ excused \subseteq excused'
         /\ unsettled \subseteq unsettled' \/ \E t \in Clients : Commit(t) /\ unsettled \subseteq unsettled' \cup {work[t].secret}
<1>1. ASSUME NEW t \in Clients, GatewayStep(t) \/ GoFails(t) \/ PythonFails(t)
      PROVE  shadowing' = shadowing /\ divergent \subseteq divergent' /\ excused \subseteq excused' /\ unsettled' = unsettled
  BY <1>1 DEF GatewayStep, GoFails, PythonFails, ServeHTTP, Differs, GoAnswers, PythonAnswers, Done, pythonVars, shadowVars
<1>2. ASSUME NEW t \in Clients, PythonStep(t)
      PROVE  /\ shadowing' = shadowing /\ divergent \subseteq divergent' /\ excused \subseteq excused'
             /\ unsettled \subseteq unsettled' \/ (Commit(t) /\ unsettled \subseteq unsettled' \cup {work[t].secret})
  BY <1>2 DEF PythonStep, MirrorStep, Commit, CommitFails, RecordUsage, MirrorPost, MirrorAnswer, MirrorVerify, MirrorFails, ShadowRow, Mirrored,
         AddDivergence, ServerStep, Refuse, Write, Use, Decide, Wake, Collect, Release
<1>3. CASE CallerNext
  <2>1. CASE \E t \in Clients : GoFails(t) \/ PythonFails(t)
    BY <2>1, <1>1
  <2>2. CASE \E t \in NextCaller, i \in Inputs[deployment] : Arrive(t, i.op, i.secret, i.value, i.cred)
    BY <2>2 DEF Arrive, pythonVars, shadowVars
  <2> QED BY <1>3, <2>1, <2>2 DEF CallerNext
<1>4. CASE CutoverNext
  BY <1>4 DEF CutoverNext, SetGoPercent, ForgetMirrors, pythonVars, shadowVars
<1>5. CASE GoNext
  <2>1. CASE \E c \in Conns : GoStep(c)
    BY <2>1 DEF GoStep, pythonVars, shadowVars
  <2>2. CASE \E t \in Clients : GatewayStep(t) \/ PythonStep(t)
    BY <2>2, <1>1, <1>2
  <2>3. CASE \E i \in Inputs[deployment] : GoClient(i)
    BY <2>3 DEF GoClient, pythonVars, shadowVars
  <2> QED BY <1>5, <2>1, <2>2, <2>3 DEF GoNext, GoesOn
<1>6. CASE TuiNext \/ UNCHANGED vars
  BY <1>6 DEF TuiNext, vars, pythonVars, shadowVars
<1> QED BY <1>3, <1>4, <1>5, <1>6 DEF Next

LEMMA MirrorNext ==
  ASSUME KeysDistinct, DInv, MirrorInv, [Next]_vars
  PROVE  MirrorInv'
<1>8. SUFFICES ASSUME shadowing, NEW s \in Names, s \notin divergent' \cup excused', PendOK(s),
                      s \notin unsettled => MirrorOK(s)
               PROVE  PendOK(s)' /\ (s \notin unsettled' => MirrorOK(s)')
  BY ShadowGrows DEF MirrorInv
<1>9. ~OnTerminal
  BY <1>8 DEF DInv, Places, OnTerminal
<1>10. PendOK(s)'
  BY <1>8, <1>9, PendNext
<1>11. CASE s \in unsettled /\ s \notin unsettled'
  <2>1. PICK t \in Clients : Commit(t) /\ work[t].secret = s
    BY <1>11, ShadowGrows
  <2>2. MirrorOK(s)'
    BY <1>8, <1>11, <2>1, MirrorCommits
  <2> QED BY <1>10, <2>2
<1>12. SUFFICES ASSUME s \notin unsettled', s \notin unsettled PROVE MirrorOK(s)'
  BY <1>10, <1>11
<1>1. shadowing /\ s \in Names /\ s \notin divergent' \cup unsettled' /\ PendOK(s) /\ MirrorOK(s)
  BY <1>8, <1>12
<1>2. ~OnTerminal
  BY <1>1 DEF DInv, Places, OnTerminal
<1>3. CASE CallerNext
  <2>1. CASE \E t \in Clients : GoFails(t) \/ PythonFails(t)
    BY <2>1, <1>1, MirrorGateway
  <2>2. CASE \E t \in NextCaller, i \in Inputs[deployment] : Arrive(t, i.op, i.secret, i.value, i.cred)
    <3>1. UNCHANGED <<rows, goStore, conn, work>>
      BY <2>2 DEF Arrive, pythonVars, shadowVars, goVars
    <3> QED BY <3>1, <1>1, MirrorStays
  <2> QED BY <1>3, <2>1, <2>2 DEF CallerNext
<1>4. CASE CutoverNext
  <2>1. CASE ForgetMirrors
    BY <2>1, <1>1, MirrorRestart
  <2>2. CASE \E p \in Percents : SetGoPercent(p)
    <3>1. UNCHANGED <<rows, goStore, conn, work>>
      BY <2>2 DEF SetGoPercent, pythonVars, shadowVars, goVars
    <3> QED BY <3>1, <1>1, MirrorStays
  <2> QED BY <1>4, <2>1, <2>2 DEF CutoverNext
<1>5. CASE GoNext
  <2>1. CASE \E c \in Conns : GoStep(c)
    <3>1. PICK c \in Conns : Handle(c) /\ rows' = rows /\ work' = work
      BY <2>1 DEF GoStep, pythonVars, shadowVars
    <3> QED BY <3>1, <1>1, MirrorHandle
  <2>2. CASE \E t \in Clients : GatewayStep(t)
    BY <2>2, <1>1, MirrorGateway
  <2>3. CASE \E t \in Clients : PythonStep(t)
    BY <2>3, <1>1, MirrorPython
  <2> QED BY <1>2, <1>5, <2>1, <2>2, <2>3 DEF GoNext, GoesOn
<1>6. CASE TuiNext
  BY <1>2, <1>6 DEF TuiNext
<1>7. CASE UNCHANGED vars
  <2>1. UNCHANGED <<rows, goStore, conn, work>>
    BY <1>7 DEF vars, pythonVars, shadowVars, goVars
  <2> QED BY <2>1, <1>1, MirrorStays
<1> QED BY <1>3, <1>4, <1>5, <1>6, <1>7 DEF Next

LEMMA MirrorInit == ASSUME Init PROVE MirrorInv
<1>1. ASSUME NEW s \in Names PROVE PendOK(s) /\ MirrorOK(s)
  <2>1. rows[s] = Absent /\ goStore[secretKey(s)] = Absent
    BY KeyOf DEF Init, ShadowInit, GoInit
  <2>2. rows[s] = GoValue(s)
    BY <2>1 DEF GoValue
  <2>3. \A t \in Clients : ~Mir(work[t], s)
    BY NotMirroring DEF Init, ShadowInit
  <2>4. \A c \in Conns : ~Pend(conn[c], s)
    BY DEF Init, GoInit, Pend, Closed
  <2> QED BY <2>2, <2>3, <2>4 DEF MirrorOK, PendOK
<1> QED BY <1>1 DEF MirrorInv

\* A secret that the two servers hold differently is in the list of
\* divergences, unless its mirror is under way or no mirror of its own settled
\* its last write; given that two secrets have two keys.
THEOREM DivergenceCorrect ==
  ASSUME KeysDistinct
  PROVE  Spec => []DivergenceNoticed
<1>1. DInv /\ MirrorInv => DivergenceNoticed
  <2>1. ASSUME DInv, MirrorInv, shadowing, NEW s \in Names \ (divergent \cup excused \cup unsettled), Mirroring(secretKey(s)) = {}
        PROVE  rows[s] = GoValue(s)
    <3>1. \A t \in Clients : ~Mir(work[t], s)
      BY <2>1 DEF Mirroring, Mir
    <3> QED BY <3>1, <2>1 DEF MirrorInv, MirrorOK
  <2> QED BY <2>1 DEF DivergenceNoticed
<1>2. DInv /\ MirrorInv /\ [Next]_vars => MirrorInv'
  BY MirrorNext
<1> QED BY <1>1, <1>2, MirrorInit, Inductive, PTL DEF Spec

-----------------------------------------------------------------------------
(***************************************************************************)
(* The policy engine.  evaluate is a recursive function over the rules: a   *)
(* least rule at which a statement fails takes the place of induction.      *)
(***************************************************************************)

\* A set of numbers that is not empty has a least one.
LEMMA LeastNumber ==
  ASSUME NEW S \in SUBSET Nat, S # {}
  PROVE  \E m \in S : \A i \in S : m <= i
<1> DEFINE R == {ss \in Nat \X Nat : ss[1] < ss[2]}
<1>1. IsWellFoundedOn(R, Nat)
  BY NatLessThanWellFounded DEF OpToRel
<1> HIDE DEF R
<1>2. PICK m \in S : \A i \in S : <<i, m>> \notin R
  BY <1>1, WFMin
<1>3. ASSUME NEW i \in S PROVE m <= i
  <2>1. <<i, m>> \notin R /\ i \in Nat /\ m \in Nat
    BY <1>2, Zenon
  <2>2. ~(i < m)
    BY <2>1, SMT DEF R
  <2> QED BY <2>1, <2>2
<1> QED BY <1>3

\* One turn of the loop, after the decisions before it.
Turn(rules, request, after, i) ==
  IF i = 0 THEN NoDecision ELSE Consider(request, after[i - 1], rules[i])
Loop(rules, request, after) ==
  after = [i \in 0..Len(rules) |-> Turn(rules, request, after, i)]

\* The loop can be run: evaluate is the decision after the last turn.
LEMMA LoopRuns ==
  ASSUME NEW rules, Len(rules) \in Nat, NEW request
  PROVE  \E after : Loop(rules, request, after) /\ evaluate(rules, request) = after[Len(rules)]
<1> DEFINE Upto(n, f) == f = [i \in 0..n |-> Turn(rules, request, f, i)]
           stuck == {n \in Nat : ~ \E f : Upto(n, f)}
<1>1. ASSUME stuck # {} PROVE FALSE
  <2>1. PICK n \in stuck : \A m \in stuck : n <= m
    <3>1. stuck \in SUBSET Nat
      OBVIOUS
    <3> HIDE DEF stuck
    <3> QED BY <1>1, <3>1, LeastNumber
  <2>2. CASE n = 0
    <3> DEFINE f == [i \in 0..0 |-> NoDecision]
    <3>1. Upto(0, f)
      BY DEF Turn
    <3> QED BY <2>1, <2>2, <3>1
  <2>3. CASE n # 0
    <3>1. n - 1 \in Nat /\ n - 1 \notin stuck
      BY <2>1, <2>3
    <3>2. PICK f : Upto(n - 1, f)
      BY <3>1
    <3> DEFINE g == [i \in 0..n |-> IF i = n THEN Consider(request, f[n - 1], rules[n]) ELSE f[i]]
    <3>3. ASSUME NEW i \in 0..n PROVE g[i] = Turn(rules, request, g, i)
      <4>1. n \in Nat /\ i \in Nat
        BY <2>1
      <4>2. CASE i = n
        <5>1. g[n - 1] = f[n - 1]
          BY <4>1, <2>3
        <5> QED BY <4>1, <4>2, <5>1, <2>3 DEF Turn
      <4>3. CASE i # n
        <5>1. i \in 0..(n - 1) /\ g[i] = f[i]
          BY <4>1, <4>3
        <5>2. f[i] = Turn(rules, request, f, i)
          BY <3>2, <5>1
        <5>3. i # 0 => g[i - 1] = f[i - 1]
          BY <4>1, <4>3
        <5> HIDE DEF g
        <5> QED BY <5>1, <5>2, <5>3 DEF Turn
      <4> QED BY <4>2, <4>3
    <3>4. g = [i \in 0..n |-> g[i]]
      OBVIOUS
    <3> HIDE DEF g
    <3>5. Upto(n, g)
      BY <3>3, <3>4
    <3> QED BY <2>1, <3>5
  <2> QED BY <2>2, <2>3
<1> DEFINE after == CHOOSE f : Upto(Len(rules), f)
<1>2. Upto(Len(rules), after)
  BY <1>1
<1>3. evaluate(rules, request) = after[Len(rules)]
  BY Zenon DEF evaluate, Turn
<1> HIDE DEF after
<1> QED BY <1>2, <1>3 DEF Loop

\* What a decision after the first i rules stands on.
Before(rules, effect, request, i) == \E j \in 1..i : rules[j].effect = effect /\ Matches(rules[j], request)
Decided(rules, request, d, i) ==
  /\ d.done \in BOOLEAN /\ d.allowed \in BOOLEAN
  /\ d.done <=> Before(rules, "deny", request, i)
  /\ d.allowed <=> ~d.done /\ Before(rules, "allow", request, i)
  /\ d.rule = NoRule => ~d.allowed
  /\ d.rule # NoRule => /\ Matches(d.rule, request)
                        /\ d.rule.effect = IF d.allowed THEN "allow" ELSE "deny"

LEMMA DecidedStep ==
  ASSUME NEW rules, NEW request, NEW i \in Nat, NEW d, Decided(rules, request, d, i)
  PROVE  Decided(rules, request, Consider(request, d, rules[i + 1]), i + 1)
<1> DEFINE r == rules[i + 1]
           e == Consider(request, d, r)
<1>1. \A effect : Before(rules, effect, request, i + 1) <=>
                    Before(rules, effect, request, i) \/ (r.effect = effect /\ Matches(r, request))
  <2>1. 1..(i + 1) = (1..i) \cup {i + 1}
    OBVIOUS
  <2> QED BY <2>1, Zenon DEF Before
<1> HIDE DEF r
<1>2. CASE d.done \/ ~Matches(r, request) \/ r.effect \notin {"allow", "deny"}
  <2>1. e = d
    BY <1>2 DEF Consider
  <2>2. Decided(rules, request, d, i + 1)
    BY <1>1, <1>2 DEF Decided
  <2> QED BY <2>1, <2>2 DEF r
<1>3. CASE ~d.done /\ Matches(r, request) /\ r.effect = "deny"
  <2>1. e = [done |-> TRUE, allowed |-> FALSE, rule |-> r]
    BY <1>3 DEF Consider
  <2>2. Decided(rules, request, e, i + 1)
    BY <1>1, <1>3, <2>1 DEF Decided
  <2> QED BY <2>2 DEF r
<1>4. CASE ~d.done /\ Matches(r, request) /\ r.effect = "allow"
  <2>1. e = [done |-> FALSE, allowed |-> TRUE, rule |-> r]
    BY <1>4 DEF Consider
  <2>2. r # NoRule
    BY <1>4 DEF NoRule
  <2>3. Decided(rules, request, e, i + 1)
    BY <1>1, <1>4, <2>1, <2>2 DEF Decided
  <2> QED BY <2>3 DEF r
<1> QED BY <1>2, <1>3, <1>4

LEMMA EvaluateDecides ==
  ASSUME NEW rules, Len(rules) \in Nat, NEW request
  PROVE  Decided(rules, request, evaluate(rules, request), Len(rules))
<1>1. PICK after : Loop(rules, request, after) /\ evaluate(rules, request) = after[Len(rules)]
  BY LoopRuns
<1> DEFINE wrong == {i \in 0..Len(rules) : ~Decided(rules, request, after[i], i)}
<1>2. ASSUME wrong # {} PROVE FALSE
  <2>1. PICK i \in wrong : \A j \in wrong : i <= j
    <3>1. wrong \in SUBSET Nat
      OBVIOUS
    <3> HIDE DEF wrong
    <3> QED BY <1>2, <3>1, LeastNumber
  <2>2. i \in 0..Len(rules) /\ after[i] = Turn(rules, request, after, i)
    BY <1>1 DEF Loop
  <2>3. CASE i = 0
    <3>1. after[0] = NoDecision
      BY <2>2, <2>3 DEF Turn
    <3>2. \A effect : ~Before(rules, effect, request, 0)
      BY DEF Before
    <3>3. Decided(rules, request, NoDecision, 0)
      BY <3>2 DEF Decided, NoDecision
    <3> QED BY <2>3, <3>1, <3>3
  <2>4. CASE i # 0
    <3>1. i - 1 \in 0..Len(rules) /\ i - 1 \notin wrong /\ i - 1 \in Nat /\ (i - 1) + 1 = i
      BY <2>1, <2>2, <2>4
    <3>2. Decided(rules, request, after[i - 1], i - 1)
      BY <3>1
    <3>3. after[i] = Consider(request, after[i - 1], rules[i])
      BY <2>2, <2>4 DEF Turn
    <3>4. Decided(rules, request, Consider(request, after[i - 1], rules[(i - 1) + 1]), (i - 1) + 1)
      BY <3>1, <3>2, DecidedStep
    <3>5. Decided(rules, request, after[i], i)
      BY <3>1, <3>3, <3>4
    <3> QED BY <2>1, <3>5
  <2> QED BY <2>3, <2>4
<1> QED BY <1>1, <1>2

\* "Explicit deny ALWAYS takes precedence over allow", for any rules.
LEMMA DenyOverridesAlways ==
  ASSUME NEW rules, IsPolicy(rules), NEW request
  PROVE  DenyOverrides(rules, request) /\ RuleExplains(rules, request)
<1>1. Len(rules) \in Nat /\ DOMAIN rules = 1..Len(rules)
  BY DEF IsPolicy
<1> DEFINE d == evaluate(rules, request)
<1>2. Decided(rules, request, d, Len(rules))
  BY <1>1, EvaluateDecides
<1> HIDE DEF d
<1>3. \A effect : Before(rules, effect, request, Len(rules)) <=> Named(rules, effect, request) # {}
  BY <1>1 DEF Before, Named
<1>4. d.allowed <=> Named(rules, "deny", request) = {} /\ Named(rules, "allow", request) # {}
  BY <1>2, <1>3 DEF Decided
<1>5. IF d.rule = NoRule THEN ~d.allowed
      ELSE Matches(d.rule, request) /\ d.allowed = (d.rule.effect = "allow")
  BY <1>2 DEF Decided
<1> QED BY <1>4, <1>5 DEF DenyOverrides, RuleExplains, d

\* The ttl of the rules for exactly this agent and capability, if they agree.
LEMMA ExactTtlAlways ==
  ASSUME NEW rules, IsPolicy(rules), NEW agent, NEW capability
  PROVE  ExactTtlWins(rules, agent, capability)
<1> DEFINE all == Candidates(rules, agent, capability)
           rank(i) == Rank(rules[i], agent, capability)
           exact == {i \in all : rank(i) = 0}
           Heads(i) == \A j \in all : rank(i) < rank(j) \/ (rank(i) = rank(j) /\ i <= j)
           f == Foremost(rules, agent, capability)
<1>1. SUFFICES ASSUME NEW i \in exact, \A j \in exact : rules[j].ttl = rules[i].ttl, rules[i].ttl > 0
               PROVE  get_lease_ttl(rules, agent, capability) = rules[i].ttl
  BY DEF ExactTtlWins
<1>2. \A j : rank(j) \in 0..3
  BY DEF Rank
<1>3. all \in SUBSET Nat /\ rules[i].ttl \in Int
  BY DEF Candidates, IsPolicy
<1>4. f = CHOOSE j \in all : Heads(j)
  BY DEF Foremost
<1> HIDE DEF all, rank, f
<1>5. PICK m \in exact : \A j \in exact : m <= j
  BY <1>3, LeastNumber
<1>6. Heads(m)
  <2> SUFFICES ASSUME NEW j \in all PROVE rank(m) < rank(j) \/ (rank(m) = rank(j) /\ m <= j)
    OBVIOUS
  <2>1. rank(m) = 0 /\ rank(j) \in 0..3
    BY <1>2
  <2>2. rank(j) = 0 => m <= j
    BY <1>5
  <2> QED BY <2>1, <2>2
<1>7. f \in all /\ Heads(f)
  BY <1>4, <1>6
<1>8. f \in exact
  <2>1. i \in all /\ rank(i) = 0 /\ rank(f) \in 0..3
    BY <1>2
  <2>2. rank(f) < rank(i) \/ rank(f) = rank(i)
    BY <2>1, <1>7
  <2> QED BY <2>1, <2>2, <1>7
<1>9. rules[f].ttl = rules[i].ttl /\ all # {}
  BY <1>1, <1>8
<1> QED BY <1>1, <1>3, <1>9 DEF get_lease_ttl, NoTtl, all, f

\* The engine's rules are loaded once.
LEMMA PolicyKept ==
  ASSUME [Next]_vars
  PROVE  policy' = policy /\ deployment' = deployment
<1> USE DEF serverVars, pythonVars, Servers, MakeCall
<1>1. ASSUME NEW t \in Clients, GatewayStep(t) PROVE policy' = policy
  BY <1>1 DEF GatewayStep, ServeHTTP, GoAnswers, PythonAnswers, Done
<1>2. ASSUME NEW t \in Clients, PythonStep(t) PROVE policy' = policy
  BY <1>2 DEF PythonStep, ServerStep, Refuse, Write, Use, Decide, Wake, Collect, Release
<1>3. ASSUME NEW c \in Conns, GoStep(c) PROVE policy' = policy
  BY <1>3 DEF GoStep
<1>4. CASE CallerNext
  BY <1>4 DEF CallerNext, Arrive, GoFails, PythonFails
<1>5. CASE CutoverNext
  BY <1>5 DEF CutoverNext, SetGoPercent
<1>6. CASE GoNext
  BY <1>1, <1>2, <1>3, <1>6 DEF GoNext, GoesOn, GoClient
<1>7. CASE TuiNext
  BY <1>7 DEF TuiNext
<1>8. CASE UNCHANGED vars
  BY <1>8 DEF vars
<1> QED BY <1>4, <1>5, <1>6, <1>7, <1>8 DEF Next

\* The engine decides as its docstring says, for any rules, agents and actions.
THEOREM PolicyCorrect == Spec => []PolicyMeansReference
<1> DEFINE Loaded == policy \in Policies[deployment] /\ deployment \in Deployments
<1>1. Init => Loaded
  BY DEF Init
<1>2. Loaded /\ [Next]_vars => Loaded'
  BY PolicyKept
<1>3. Loaded => PolicyMeansReference
  BY DeploymentAssumption, DenyOverridesAlways, ExactTtlAlways DEF PolicyMeansReference
<1> QED BY <1>1, <1>2, <1>3, PTL DEF Spec

-----------------------------------------------------------------------------
(***************************************************************************)
(* Whatever a call under way waits for can go on: the threads of the pool   *)
(* and the connections of the gateway never all wait for each other.        *)
(***************************************************************************)

\* The steps that wait for nothing but their own guard: a handler's of Go, a
\* thread's (it fails, or its wait ends, if nothing else), and a call's.
HandlerReady(c) == conn[c].step \in {"sent", "audit", "epoch"}
ThreadReady(t) == work[t].step \in Running \/ (work[t].step = "queued" /\ ThreadFree)
CallReady(t) ==
  \/ call[t].step = "arrived" /\ ((\E n \in Draws : n >= goPercent) \/ FirstFree # {})
  \/ call[t].step = "go" /\ conn[call[t].on].step = "answered"
  \/ call[t].step = "python" /\ work[t].step = "done"
  \/ call[t].step = "answered" /\ work[t].step \in {"idle", "done"}

StepReady ==
  \/ \E c \in Conns : HandlerReady(c)
  \/ \E t \in Clients : ThreadReady(t) \/ CallReady(t)

Underway == \E t \in Clients : call[t].step # "idle"

\* No connection is left open with nobody to close it: one that somebody waits
\* for belongs to a call or to a mirror, and one that nobody waits for has a
\* handler that closes it.
Awaits(t, c) ==
  (call[t].step = "go" /\ call[t].on = c) \/ (work[t].step = "posted" /\ work[t].on = c)

ConnOK(c) ==
  conn[c] # Closed =>
    /\ conn[c].step \in {"answered", "lost"} => conn[c].awaited
    /\ conn[c].step = "lost" => deployment # "cutover"
    /\ conn[c].awaited => \E t \in Clients : Awaits(t, c)

ConnInv == Served => \A c \in Conns : ConnOK(c)

\* A step of one client, which waits for no connection that it leaves alone.
LEMMA ConnByClient ==
  ASSUME ConnInv, Served, deployment' = deployment, NEW t \in Clients,
         \A u \in Clients \ {t} : call'[u] = call[u] /\ work'[u] = work[u],
         \A c \in Conns : ConnOK(c)' \/ (conn'[c] = conn[c] /\ ~Awaits(t, c))
  PROVE  ConnInv'
<1>1. ASSUME NEW c \in Conns, conn'[c] = conn[c], ~Awaits(t, c) PROVE ConnOK(c)'
  BY <1>1 DEF ConnInv, ConnOK, Awaits
<1> QED BY <1>1 DEF ConnInv

LEMMA ConnHandled ==
  ASSUME DInv, ConnInv, Served, deployment' = deployment, NEW c \in Conns, GoStep(c)
  PROVE  ConnInv'
<1>1. /\ conn[c] \in Opened /\ conn' = [conn EXCEPT ![c] = conn'[c]] /\ Moves(conn[c], conn'[c])
      /\ work' = work
  BY HandleMoves DEF GoStep, DInv, pythonVars, shadowVars
<1>2. \A t \in Clients : call'[t].step = call[t].step /\ call'[t].on = call[t].on
  <2>1. ASSUME NEW u \in Clients, Did(u, "go")
        PROVE  \A t \in Clients : call'[t].step = call[t].step /\ call'[t].on = call[t].on
    <3>1. call' = [call EXCEPT ![u] = Executed(call[u], "go")]
      BY <2>1 DEF Did, Executed
    <3>2. Executed(call[u], "go").step = call[u].step /\ Executed(call[u], "go").on = call[u].on
      BY OneCall, CallExecuted DEF DInv
    <3> QED BY <3>1, <3>2 DEF DInv, ClientsInv
  <2> DEFINE of == {t \in Clients : call[t].on = c}
  <2>2. of # {} => (CHOOSE t \in Clients : call[t].on = c) \in Clients
    OBVIOUS
  <2> QED BY <2>1, <2>2 DEF GoStep
<1>3. \A t \in Clients, d \in Conns : Awaits(t, d)' <=> Awaits(t, d)
  BY <1>1, <1>2 DEF Awaits
<1>4. ASSUME NEW d \in Conns, d # c PROVE ConnOK(d)'
  <2>1. conn'[d] = conn[d]
    BY <1>1, <1>4 DEF DInv, GoTypes, GoTypeOK
  <2> QED BY <1>3, <2>1 DEF ConnInv, ConnOK
<1>5. ConnOK(c)'
  <2>1. conn'[c] = Closed \/ (conn'[c].awaited = conn[c].awaited /\ conn'[c].step # "lost"
                              /\ (conn'[c].step = "answered" => conn[c].awaited))
    BY <1>1 DEF Moves, Same
  <2>2. ConnOK(c) /\ conn[c] # Closed
    BY <1>1, OpenedNotClosed DEF ConnInv
  <2> QED BY <1>3, <2>1, <2>2 DEF ConnOK
<1> QED BY <1>4, <1>5 DEF ConnInv

\* A client opens a connection, and waits for it.
LEMMA ConnOpened ==
  ASSUME DInv, NEW t \in Clients, NEW c \in Conns, NEW r, r.step = "sent",
         Connect(c, r), Awaits(t, c)'
  PROVE  ConnOK(c)' /\ \A d \in Conns \ {c} : conn'[d] = conn[d]
BY DEF Connect, DInv, GoTypes, GoTypeOK, ConnOK

\* A client closes a connection, or leaves it to the handler.
LEMMA ConnLeft ==
  ASSUME DInv, NEW c \in Conns, conn[c] # Closed, Abandon(c) \/ Disconnect(c)
  PROVE  ConnOK(c)' /\ \A d \in Conns \ {c} : conn'[d] = conn[d]
<1>1. conn' = [conn EXCEPT ![c] = conn'[c]] /\ Leaves(conn[c], conn'[c])
  BY AbandonLeaves DEF DInv
<1>2. conn'[c] = Closed \/ (~conn'[c].awaited /\ conn'[c].step \in {"sent", "audit", "epoch"})
  BY <1>1 DEF Leaves
<1> QED BY <1>1, <1>2 DEF ConnOK, DInv, GoTypes, GoTypeOK

LEMMA ConnGateway ==
  ASSUME DInv, ConnInv, Served, deployment' = deployment, NEW t \in Clients,
         GatewayStep(t) \/ GoFails(t) \/ PythonFails(t)
  PROVE  ConnInv'
<1>1. \A u \in Clients \ {t} : call'[u] = call[u] /\ work'[u] = work[u]
  BY DEF GatewayStep, ServeHTTP, GoAnswers, PythonAnswers, Done, GoFails, PythonFails, ToPython, Receive,
         pythonVars, shadowVars, DInv, ClientsInv
<1>2. CallOK(deployment, call[t], work[t])
  BY DEF DInv, ClientsInv, ClientOK
<1>3. CASE ServeHTTP(t)
  <2>1. \A c \in Conns : ~Awaits(t, c)
    BY <1>2, <1>3 DEF ServeHTTP, CallOK, Awaits, Idle
  <2>2. CASE UNCHANGED conn
    BY <1>1, <2>1, <2>2, ConnByClient
  <2>3. CASE \E c \in FirstFree :
               /\ Connect(c, Request(call[t].op, call[t].secret, call[t].value, call[t].cred.token))
               /\ call' = [call EXCEPT ![t].step = "go", ![t].on = c]
    <3>1. PICK c \in FirstFree :
               /\ Connect(c, Request(call[t].op, call[t].secret, call[t].value, call[t].cred.token))
               /\ call' = [call EXCEPT ![t].step = "go", ![t].on = c]
      BY <2>3
    <3>2. c \in Conns
      BY FreeConn
    <3>3. Awaits(t, c)'
      BY <3>1 DEF Awaits, DInv, ClientsInv, Calls
    <3>4. ConnOK(c)' /\ \A d \in Conns \ {c} : conn'[d] = conn[d]
      BY <3>1, <3>2, <3>3, SentRequest, ConnOpened
    <3> QED BY <1>1, <2>1, <3>4, ConnByClient
  <2> QED BY <1>3, <2>2, <2>3 DEF ServeHTTP
<1>4. CASE GoAnswers(t) \/ GoFails(t)
  <2>1. PICK c \in Conns : /\ c = call[t].on /\ conn[c] # Closed
                          /\ work[t] = Idle /\ call[t].step = "go"
    BY <1>2, <1>4, AtConn DEF GoAnswers, GoFails, CallOK, DInv, Links, AtGo, Held
  <2>2. Abandon(c) \/ Disconnect(c)
    BY <1>4, <2>1 DEF GoAnswers, GoFails
  <2>3. ConnOK(c)' /\ \A d \in Conns \ {c} : conn'[d] = conn[d]
    BY <2>1, <2>2, ConnLeft
  <2>4. \A d \in Conns \ {c} : ~Awaits(t, d)
    BY <2>1 DEF Awaits, Idle
  <2> QED BY <1>1, <2>3, <2>4, ConnByClient
<1>5. CASE PythonAnswers(t) \/ Done(t)
  <2>1. conn' = conn /\ call[t].step \in {"python", "answered"} /\ work[t].step \in {"idle", "done"}
    BY <1>2, <1>5 DEF PythonAnswers, Done, CallOK, goVars
  <2>2. \A c \in Conns : ~Awaits(t, c)
    BY <2>1 DEF Awaits
  <2> QED BY <1>1, <2>1, <2>2, ConnByClient
<1>6. CASE PythonFails(t)
  <2>1. conn' = conn /\ call[t].step = "python"
    BY <1>6 DEF PythonFails, goVars
  <2>2. work'[t] = work[t] \/ work[t].step = "queued"
    BY <1>6 DEF PythonFails
  <2>3. CASE work[t].step = "posted"
    <3>1. work' = work
      BY <1>6, <2>3 DEF PythonFails
    <3>2. \A u \in Clients, c \in Conns : Awaits(u, c) => Awaits(u, c)'
      BY <1>1, <2>1, <3>1 DEF Awaits
    <3> QED BY <2>1, <3>2 DEF ConnInv, ConnOK
  <2>4. CASE work[t].step # "posted"
    <3>1. \A c \in Conns : ~Awaits(t, c)
      BY <2>1, <2>4 DEF Awaits
    <3> QED BY <1>1, <2>1, <3>1, ConnByClient
  <2> QED BY <2>3, <2>4
<1> QED BY <1>3, <1>4, <1>5, <1>6 DEF GatewayStep

LEMMA ConnThread ==
  ASSUME DInv, ConnInv, Served, deployment' = deployment, NEW t \in Clients, PythonStep(t)
  PROVE  ConnInv'
<1>1. MirrorStep(t) \/ ServerStep(t, call[t].cred)
  BY DEF PythonStep
<1>2. ClientOK(deployment, call[t], work[t])
  BY OneCall DEF DInv
<1>3. work' = [work EXCEPT ![t] = work'[t]] /\ ThreadMoves(work[t], work'[t], Acts(t))
  BY <1>1, <1>2, ThreadSteps DEF DInv, ClientsInv, ClientOK, CallOK
<1>4. Acts(t) \in BOOLEAN
  BY DEF Acts
<1>5. call[t].step # "go"
  BY <1>2, <1>3, <1>4, ThreadKeeps DEF Left
<1>6. \A u \in Clients \ {t} : call'[u] = call[u] /\ work'[u] = work[u]
  BY <1>3 DEF PythonStep, Did, DInv, ClientsInv
<1>7. CASE MirrorPost(t)
  <2>1. PICK c \in FirstFree :
           /\ Connect(c, Request(work[t].op, work[t].secret, work[t].value, ShadowToken))
           /\ work' = [work EXCEPT ![t].step = "posted", ![t].on = c]
    BY <1>7 DEF MirrorPost
  <2>2. c \in Conns /\ work[t].step = "post"
    BY <1>7, FreeConn DEF MirrorPost
  <2>3. Awaits(t, c)'
    BY <2>1 DEF Awaits, DInv, ClientsInv, Works
  <2>4. ConnOK(c)' /\ \A d \in Conns \ {c} : conn'[d] = conn[d]
    BY <2>1, <2>2, <2>3, SentRequest, ConnOpened
  <2>5. \A d \in Conns : ~Awaits(t, d)
    BY <1>5, <2>2 DEF Awaits
  <2> QED BY <1>6, <2>4, <2>5, ConnByClient
<1>8. CASE work[t].step = "posted"
  <2>1. PICK c \in Conns : c = work[t].on /\ conn[c] # Closed
    BY <1>8 DEF DInv, ClientsInv, ClientOK, CallOK, Links, AtMirror, Held
  <2>2. Abandon(c) \/ Disconnect(c)
    BY <1>1, <1>8, <2>1 DEF MirrorStep, Commit, CommitFails, RecordUsage, MirrorPost, MirrorAnswer, MirrorVerify, MirrorFails, ShadowRow,
                      ServerStep, Refuse, Write, Use, Decide, Wake, Collect, Release, Starts
  <2>3. ConnOK(c)' /\ \A d \in Conns \ {c} : conn'[d] = conn[d]
    BY <2>1, <2>2, ConnLeft
  <2>4. \A d \in Conns \ {c} : ~Awaits(t, d)
    BY <1>5, <2>1 DEF Awaits
  <2> QED BY <1>6, <2>3, <2>4, ConnByClient
<1>9. CASE ~MirrorPost(t) /\ work[t].step # "posted"
  <2>1. conn' = conn
    BY <1>1, <1>9 DEF MirrorStep, Commit, CommitFails, RecordUsage, MirrorPost, MirrorAnswer, MirrorVerify, MirrorFails, ShadowRow,
                      ServerStep, Refuse, Write, Use, Decide, Wake, Collect, Release, goVars
  <2>2. \A c \in Conns : ~Awaits(t, c)
    BY <1>5, <1>9 DEF Awaits
  <2> QED BY <1>6, <2>1, <2>2, ConnByClient
<1> QED BY <1>7, <1>8, <1>9

\* Go starts anew behind the dual write: its handlers' connections break.
LEMMA ConnRestarted ==
  ASSUME DInv, ConnInv, deployment = "dual_write", deployment' = deployment, GoRestart,
         UNCHANGED <<call, work>>
  PROVE  ConnInv'
<1>1. \A c \in Conns :
        \/ conn'[c] = conn[c] /\ (conn[c] = Closed \/ conn[c].step = "answered")
        \/ conn'[c] = Closed
        \/ /\ conn[c] # Closed /\ conn[c].awaited /\ conn'[c] \in Opened
           /\ Same(conn[c], conn'[c]) /\ conn'[c].step = "lost"
  BY RestartTypes DEF DInv
<1>2. \A t \in Clients, c \in Conns : Awaits(t, c)' <=> Awaits(t, c)
  BY DEF Awaits
<1>3. ASSUME NEW c \in Conns PROVE ConnOK(c)'
  BY <1>1, <1>2 DEF ConnInv, ConnOK, Served, Same
<1> QED BY <1>3 DEF ConnInv

LEMMA ConnNext ==
  ASSUME DInv, ConnInv, [Next]_vars
  PROVE  ConnInv'
<1>1. deployment' = deployment
  BY PolicyKept
<1> SUFFICES ASSUME Served PROVE ConnInv'
  BY <1>1 DEF ConnInv, Served
<1>2. ~OnTerminal
  BY DEF Served, OnTerminal
<1>3. CASE UNCHANGED <<conn, call, work>>
  BY <1>1, <1>3 DEF ConnInv, ConnOK, Awaits, Served
<1>4. CASE UNCHANGED vars
  BY <1>3, <1>4 DEF vars, goVars, pythonVars, shadowVars, gatewayVars
<1>5. CASE CallerNext
  <2>1. CASE \E t \in Clients : GoFails(t) \/ PythonFails(t)
    BY <1>1, <2>1, ConnGateway
  <2>2. CASE \E t \in NextCaller, i \in Inputs[deployment] : Arrive(t, i.op, i.secret, i.value, i.cred)
    <3>1. PICK t \in NextCaller, i \in Inputs[deployment] : Arrive(t, i.op, i.secret, i.value, i.cred)
      BY <2>2
    <3>2. t \in Clients
      <4> DEFINE idle == {u \in Clients : call[u].step = "idle"}
      <4>1. idle # {} /\ t = CHOOSE u \in idle : TRUE
        BY DEF NextCaller
      <4>2. t \in idle
        BY <4>1
      <4> QED BY <4>2
    <3>3. /\ call[t].step = "idle" /\ UNCHANGED <<conn, work>>
          /\ \A u \in Clients \ {t} : call'[u] = call[u]
      BY <3>1 DEF Arrive, goVars, pythonVars, shadowVars, DInv, ClientsInv
    <3>4. \A c \in Conns : ~Awaits(t, c)
      BY <3>2, <3>3 DEF Awaits, DInv, ClientsInv, ClientOK, CallOK, Idle
    <3> QED BY <1>1, <3>2, <3>3, <3>4, ConnByClient
  <2> QED BY <1>5, <2>1, <2>2 DEF CallerNext
<1>6. CASE CutoverNext
  <2>1. CASE \E p \in Percents : SetGoPercent(p)
    BY <1>3, <2>1 DEF SetGoPercent, goVars, pythonVars, shadowVars
  <2>2. CASE deployment = "dual_write" /\ ForgetMirrors /\ UNCHANGED <<serverVars, gatewayVars>>
    BY <1>1, <2>2, ConnRestarted DEF ForgetMirrors, gatewayVars
  <2> QED BY <1>6, <2>1, <2>2 DEF CutoverNext
<1>7. CASE GoNext
  BY <1>1, <1>2, <1>7, ConnHandled, ConnGateway, ConnThread DEF GoNext, GoesOn
<1> QED BY <1>2, <1>4, <1>5, <1>6, <1>7 DEF Next, TuiNext

\* Whoever answers a connection, or breaks it, finds a client that awaits it,
\* or closes it: no connection of the two servers stays open behind.
THEOREM ConnAlways == Spec => []ConnInv
<1>1. Init => ConnInv
  BY DEF Init, GoInit, ConnInv, ConnOK
<1>2. DInv /\ ConnInv /\ [Next]_vars => ConnInv'
  BY ConnNext
<1> QED BY <1>1, <1>2, Inductive, PTL DEF Spec

\* Handlers hold all threads of the pool only while one of them can go on.
LEMMA PoolReady ==
  ASSUME DInv, NEW t \in Clients, work[t].step = "queued"
  PROVE  \E u \in Clients : ThreadReady(u)
<1>1. CASE ThreadFree
  BY <1>1 DEF ThreadReady
<1>2. CASE ~ThreadFree
  <2>1. threads \in Nat \ {0}
    BY DEF DInv, ServerTypeOK
  <2>2. Busy # {}
    <3> SUFFICES ASSUME Busy = {} PROVE FALSE
      OBVIOUS
    <3>1. Cardinality(Busy) = 0
      BY FS_EmptySet
    <3> QED BY <1>2, <2>1, <3>1 DEF ThreadFree
  <2> QED BY <2>2 DEF Busy, ThreadReady
<1> QED BY <1>1, <1>2

\* Connections are all taken only while one of them can go on.
LEMMA ConnReady ==
  ASSUME DInv, ConnInv, deployment = "cutover", FirstFree = {}
  PROVE  StepReady
<1>1. PICK c \in Conns : TRUE
  BY GatewayAssumption
<1>2. conn[c] # Closed
  <2> DEFINE free == {d \in Conns : conn[d] = Closed}
  <2>1. free = {}
    BY DEF FirstFree
  <2> QED BY <1>1, <2>1
<1>3. conn[c] \in Opened /\ ConnOK(c)
  BY <1>1, <1>2 DEF DInv, GoTypes, GoTypeOK, ConnInv, Served
<1>4. CASE conn[c].step \in {"sent", "audit", "epoch"}
  BY <1>1, <1>4 DEF StepReady, HandlerReady
<1>5. CASE conn[c].step = "answered"
  <2>1. PICK t \in Clients : Awaits(t, c)
    BY <1>2, <1>3, <1>5 DEF ConnOK
  <2>2. ThreadReady(t) \/ CallReady(t)
    BY <1>5, <2>1 DEF Awaits, ThreadReady, CallReady, Running
  <2> QED BY <2>2 DEF StepReady
<1> QED BY <1>2, <1>3, <1>4, <1>5, OpenedFields DEF ConnOK

LEMMA UnderwayReady ==
  ASSUME DInv, ConnInv, Underway
  PROVE  StepReady
<1>1. PICK t \in Clients : call[t].step # "idle"
  BY DEF Underway
<1>2. /\ call[t] \in Calls /\ work[t] \in Works /\ CallOK(deployment, call[t], work[t])
      /\ call[t].step \in {"arrived", "go", "python", "answered"}
  BY <1>1, OneCall, CallFields DEF DInv, ClientOK
<1>3. Served
  BY <1>1, <1>2 DEF CallOK, Served
<1>4. CASE call[t].step = "answered" /\ work[t].step \in {"idle", "done"}
  BY <1>4 DEF StepReady, CallReady
<1>5. CASE call[t].step \in {"python", "answered"} /\ ~(call[t].step = "answered" /\ work[t].step \in {"idle", "done"})
  <2>1. work[t].step \in Steps \ {"idle"}
    BY <1>2, <1>5, WorkFields DEF CallOK
  <2>2. CASE work[t].step = "queued"
    BY <2>2, PoolReady DEF StepReady
  <2>3. CASE work[t].step = "done"
    BY <1>5, <2>3 DEF StepReady, CallReady
  <2>4. CASE work[t].step \in Running
    BY <2>4 DEF StepReady, ThreadReady
  <2> QED BY <2>1, <2>2, <2>3, <2>4 DEF Steps, Running
<1>6. CASE call[t].step = "go"
  <2> DEFINE c == call[t].on
  <2>1. c \in Conns /\ deployment = "cutover" /\ conn[c] # Closed /\ conn[c] \in Opened
    BY <1>2, <1>6 DEF CallOK, DInv, Links, AtGo, Held, GoTypes, GoTypeOK
  <2>2. conn[c].step \in {"sent", "audit", "epoch", "answered"}
    BY <1>3, <2>1, OpenedFields DEF ConnInv, ConnOK
  <2> QED BY <1>6, <2>1, <2>2 DEF StepReady, HandlerReady, CallReady
<1>7. CASE call[t].step = "arrived"
  <2>1. goPercent \in 0..100 /\ (goPercent > 0 => deployment = "cutover")
    BY DEF DInv, Places
  <2>2. PICK n \in Draws : n \in Nat
    BY GatewayAssumption
  <2>3. CASE n >= goPercent \/ FirstFree # {}
    BY <1>7, <2>3 DEF StepReady, CallReady
  <2>4. CASE ~(n >= goPercent) /\ FirstFree = {}
    BY <2>1, <2>2, <2>4, ConnReady
  <2> QED BY <2>3, <2>4
<1> QED BY <1>2, <1>4, <1>5, <1>6, <1>7

\* While a call is under way the guard of some step of a server or the gateway
\* holds, for a pool and connections of any number: agents that wait for
\* operators whose calls need a thread, and writers that wait for Go, never
\* all wait for each other.
THEOREM WaitsEnd == Spec => [](Underway => StepReady)
<1>1. DInv /\ ConnInv => (Underway => StepReady)
  BY UnderwayReady
<1> QED BY <1>1, Inductive, ConnAlways, PTL

\* The same as the run states it.  ENABLED is an unknown to the provers: that a
\* step can be taken when its guard holds is a hypothesis.
THEOREM CallsGoOnCorrect == Spec /\ [](StepReady => ENABLED GoesOn) => []CallsGoOn
<1>1. CallsGoOn <=> (Underway => ENABLED GoesOn)
  BY DEF CallsGoOn, Underway
<1> QED BY <1>1, WaitsEnd, PTL
=============================================================================
