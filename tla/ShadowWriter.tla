---------------------------- MODULE ShadowWriter ----------------------------
(***************************************************************************)
(* The dual write of python/vault.py (set_secret and revoke_secret) through *)
(* python/shadow.py: the row is committed in the Python vault, the use of   *)
(* the DEK is counted in a transaction of its own, then the write is        *)
(* mirrored to the Go server, outside every lock and transaction.  Anything *)
(* but a confirmed mirror is recorded as a divergence; the caller sees none *)
(* of it.  A count that raises ends the call before its mirror.             *)
(***************************************************************************)
EXTENDS GoServer

CONSTANTS
  Clients,       \* callers; each has one call under way at most
  ShadowToken,   \* RGT_VAULT_SHADOW_TOKEN
  NoConn

VARIABLES
  shadowing,     \* whether RGT_VAULT_SHADOW_URL is set
  rows,          \* the ACTIVE row of each secret in the Python vault
  divergent,     \* secrets named in ShadowWriter._divergences
  unsettled,     \* history: secrets whose last write no mirror of its own settled:
                 \* it ended before it, another one overlapped, or Go forgot it
  work,          \* client -> the Python thread that runs its call
  excused        \* history: secrets that the gateway had Go execute a call on

shadowVars == <<shadowing, rows, divergent, unsettled, work, excused>>

ASSUME ShadowAssumption == ShadowToken \in Tokens /\ NoConn \notin Conns

\* `unrecorded`: an audit row of the call, or the count of the DEK's use,
\* could not be written; `status`: its HTTP status.
Idle == [step |-> "idle", op |-> "none", secret |-> Absent, value |-> Absent,
         on |-> NoConn, ok |-> TRUE, unrecorded |-> FALSE, status |-> 0]

ShadowInit(on) ==
  /\ shadowing = on                \* shadow_from_env
  /\ rows = [s \in Names |-> Absent]
  /\ divergent = {}
  /\ work = [t \in Clients |-> Idle]
  /\ excused = {}
  /\ unsettled = {}

Proceed(t, step) == work' = [work EXCEPT ![t].step = step]
Return(t, status) == work' = [work EXCEPT ![t].step = "done", ![t].status = status]
ReturnUnrecorded(t) ==
  work' = [work EXCEPT ![t].step = "done", ![t].status = 500, ![t].unrecorded = TRUE]

\* Threads whose write of a secret with this key is committed, and whose
\* mirror of it has not ended.
Mirroring(k) ==
  {t \in Clients : work[t].step \in {"count", "post", "posted", "verify"} /\ secretKey(work[t].secret) = k}

Mirror(t) == IF shadowing THEN Proceed(t, "post") ELSE Return(t, 200)

\* set_secret and revoke_secret: the transaction.  Revoking what has no
\* ACTIVE row changes nothing and is no error.
Commit(t) ==
  /\ work[t].step = "commit"
  /\ LET s == work[t].secret IN
     /\ rows' = [rows EXCEPT ![s] = IF work[t].op = "set" THEN work[t].value ELSE Absent]
     /\ unsettled' = IF Mirroring(secretKey(s)) = {} THEN unsettled \ {s} ELSE unsettled \cup {s}
  /\ IF work[t].op = "set" THEN Proceed(t, "count") ELSE Mirror(t)
  /\ UNCHANGED <<shadowing, divergent, excused, goVars>>

\* The transaction is refused, as busy or otherwise, and rolled back.
CommitFails(t) ==
  /\ work[t].step = "commit"
  /\ Return(t, 500)
  /\ UNCHANGED <<goVars, shadowing, rows, divergent, excused, unsettled>>

\* _record_dek_usage_and_maybe_rotate: the tally or the rotation that it
\* calls for may raise, with the row committed.
RecordUsage(t) ==
  /\ work[t].step = "count"
  /\ \/ Mirror(t) /\ UNCHANGED unsettled
     \/ ReturnUnrecorded(t) /\ unsettled' = unsettled \cup {work[t].secret}
  /\ UNCHANGED <<goVars, shadowing, rows, divergent, excused>>

\* The end of mirror_set and mirror_revoke.
Mirrored(t) ==
  /\ work' = [work EXCEPT ![t].step = "row", ![t].ok = TRUE, ![t].on = NoConn]
  /\ UNCHANGED divergent
AddDivergence(t) ==
  /\ work' = [work EXCEPT ![t].step = "row", ![t].ok = FALSE, ![t].on = NoConn]
  /\ divergent' = divergent \cup {work[t].secret}

MirrorPost(t) ==
  /\ work[t].step = "post"
  /\ \E c \in FirstFree :
       /\ Connect(c, Request(work[t].op, work[t].secret, work[t].value, ShadowToken))
       /\ work' = [work EXCEPT ![t].step = "posted", ![t].on = c]
  /\ UNCHANGED <<goStore, goLog, goEpoch, goToken, goRestarts, goMixed, shadowing, rows, divergent, excused, unsettled>>

\* The answer to the POST: mirror_set goes on to read the value back.
MirrorAnswer(t) ==
  /\ work[t].step = "posted"
  /\ conn[work[t].on].step = "answered"
  /\ Disconnect(work[t].on)
  /\ IF conn[work[t].on].status # 200 THEN AddDivergence(t)
     ELSE IF work[t].op = "revoke" THEN Mirrored(t)
     ELSE Proceed(t, "verify") /\ UNCHANGED divergent
  /\ UNCHANGED <<goStore, goLog, goEpoch, goToken, goRestarts, goMixed, shadowing, rows, excused, unsettled>>

\* The first entry of the list with this name, in the order of a Go map.
MirrorVerify(t) ==
  /\ work[t].step = "verify"
  /\ LET s == work[t].secret
         named == {e \in ListSecrets(s.ns) : e.name = s.name}
     IN IF ~Verified(ShadowToken) \/ named = {} THEN AddDivergence(t)
        ELSE \E e \in named : IF e.value = work[t].value THEN Mirrored(t) ELSE AddDivergence(t)
  /\ UNCHANGED <<goVars, shadowing, rows, excused, unsettled>>

\* Mutants of MirrorFails: a time-out is no divergence; it reaches the caller.
TimeoutIsNoDivergence(t) ==
  /\ work[t].step \in {"post", "posted", "verify"}
  /\ IF work[t].step = "posted" THEN Abandon(work[t].on) ELSE UNCHANGED conn
  /\ Mirrored(t)
  /\ UNCHANGED <<goStore, goLog, goEpoch, goToken, goRestarts, goMixed, shadowing, rows, excused, unsettled>>
FailureReachesCaller(t) ==
  /\ work[t].step \in {"post", "posted", "verify"}
  /\ IF work[t].step = "posted" THEN Abandon(work[t].on) ELSE UNCHANGED conn
  /\ Return(t, 500)
  /\ divergent' = divergent \cup {work[t].secret}
  /\ UNCHANGED <<goStore, goLog, goEpoch, goToken, goRestarts, goMixed, shadowing, rows, excused, unsettled>>

\* Refused, reset or timed out: an exception in _http.
MirrorFails(t) ==
  /\ work[t].step \in {"post", "posted", "verify"}
  /\ IF work[t].step = "posted" THEN Abandon(work[t].on) ELSE UNCHANGED conn
  /\ AddDivergence(t)
  /\ UNCHANGED <<goStore, goLog, goEpoch, goToken, goRestarts, goMixed, shadowing, rows, excused, unsettled>>

\* The row SHADOW_WRITE or SHADOW_DIVERGENCE, which is logged outside the
\* shadow's own try: if it fails, so does a call whose write is committed.
ShadowRow(t) ==
  /\ work[t].step = "row"
  /\ Return(t, 200) \/ ReturnUnrecorded(t)
  /\ UNCHANGED <<goVars, shadowing, rows, divergent, excused, unsettled>>

MirrorStep(t) ==
  \/ Commit(t) \/ CommitFails(t) \/ RecordUsage(t) \/ MirrorPost(t) \/ MirrorAnswer(t) \/ MirrorVerify(t)
  \/ MirrorFails(t) \/ ShadowRow(t)

\* A restart of the Go server forgets what was mirrored before it.
ForgetMirrors ==
  /\ GoRestart
  /\ unsettled' = unsettled \cup {s \in Names : goStore[secretKey(s)] # Absent}
  /\ UNCHANGED <<shadowing, rows, divergent, excused, work>>

-----------------------------------------------------------------------------
Operations == {"none", "set", "revoke", "use", "approve", "deny"}
Steps == {"idle", "queued", "commit", "count", "post", "posted", "verify", "row",
          "waiting", "woken", "release", "done"}

Works == [step : Steps, op : Operations, secret : Names \cup {Absent},
          value : Values \cup {Absent}, on : Conns \cup {NoConn},
          ok : BOOLEAN, unrecorded : BOOLEAN, status : {0, 200, 400, 401, 403, 404, 500}]

ShadowTypeOK ==
  /\ shadowing \in BOOLEAN
  /\ rows \in [Names -> Values \cup {Absent}]
  /\ divergent \subseteq Names
  /\ work \in [Clients -> Works]
  /\ excused \subseteq Names
  /\ unsettled \subseteq Names

GoValue(s) == LET e == goStore[secretKey(s)] IN IF e = Absent THEN Absent ELSE e.value

\* A secret that the two servers hold differently is in the list of
\* divergences, unless a mirror of it is under way, or no mirror settled its
\* last write: the call ended with an error before its mirror, a mirror of
\* another write of it overlapped, or Go has restarted since.  The next write
\* that runs alone settles it.  What the gateway has Go execute is left out.
DivergenceNoticed ==
  shadowing =>
    \A s \in Names \ (divergent \cup excused \cup unsettled) :
      Mirroring(secretKey(s)) = {} => rows[s] = GoValue(s)
=============================================================================
