---------------------------- MODULE AuditedStore ----------------------------
(***************************************************************************)
(* What the storage layer promises to the vault: a history of versions per *)
(* name and one log, where every change of the history and the entry that  *)
(* records it are one step, whoever else is writing.  SecretStore is shown *)
(* to implement it.                                                        *)
(***************************************************************************)
EXTENDS Naturals, Sequences

CONSTANTS Names, Nobody

VARIABLES
  history,  \* name -> the statuses of its versions, version 1 first
  log       \* the entries recorded, oldest first

\* The entries that record no change of a history.
Notes == {"GET_SECRET", "GET_SECRET_FAILED", "LEASE_GRANTED", "LEASE_RETURNED",
          "LIST_SECRETS", "IMPORT"}

Entry(action, name, version) == [action |-> action, name |-> name, version |-> version]

\* The statuses of a name whose ACTIVE version, if any, becomes `status`.
Retire(statuses, status) ==
  [v \in DOMAIN statuses |-> IF statuses[v] = "ACTIVE" THEN status ELSE statuses[v]]

Init == history = [n \in Names |-> <<>>] /\ log = <<>>

\* A new version, the only ACTIVE one.
Set(n) ==
  /\ history' = [history EXCEPT ![n] = Append(Retire(@, "SUPERSEDED"), "ACTIVE")]
  /\ log' = Append(log, Entry("SET_SECRET", n, Len(history[n]) + 1))

\* No ACTIVE version; none at all is as good.
Revoke(n) ==
  /\ history' = [history EXCEPT ![n] = Retire(@, "REVOKED")]
  /\ log' = Append(log, Entry("REVOKE_SECRET", n, 0))

\* An entry about anything else.
Note ==
  /\ \E action \in Notes, n \in Names \union {Nobody} : log' = Append(log, Entry(action, n, 0))
  /\ UNCHANGED history

Next == (\E n \in Names : Set(n) \/ Revoke(n)) \/ Note

Spec == Init /\ [][Next]_<<history, log>>

=============================================================================
