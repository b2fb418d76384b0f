----------------------------- MODULE Dashboard -----------------------------
(***************************************************************************)
(* The terminal UI of go/internal/tui as a client of the Go server: Update  *)
(* of model.go with its commands, which run beside it and whose messages    *)
(* come back in any order, and the requests of client.go.  Left out is what  *)
(* is only shown: layout, the tree view, the TOTP countdown, the help, the  *)
(* health of the server and the entries of the audit stream.                *)
(***************************************************************************)
EXTENDS GoServer

CONSTANTS
  Namespace,     \* the namespace shown
  NameOrder,     \* names in the order sort.Slice gives them
  TuiToken,      \* the bearer token of the TUI
  Loaders,       \* loads of the list that run at once
  NoLoad,
  MaxSearch,     \* bound: characters typed into the search
  MaxTimers,     \* bound: timers of one kind armed at once
  MaxRotations   \* bound: rotations asked for

VARIABLES
  running,       \* "no", "yes", or "quitting": QuitMsg is on its way
  mode, secrets, filtered, cursor, search,
  auditValid,
  clipboard,     \* MemoryClipboard.content: the value whose fingerprint it is
  clearTimers,   \* armed timers that send clipboardClearMsg
  auditTicks,    \* armed timers that send auditTickMsg
  loads,         \* the commands of loadCmd that run
  rotating,      \* connections on which rotateCmd waits
  rotations      \* history: rotations asked for

tuiVars == <<running, mode, secrets, filtered, cursor, search, auditValid, clipboard,
             clearTimers, auditTicks, loads, rotating, rotations>>
listVars == <<secrets, filtered, cursor, search>>
clipVars == <<clipboard, clearTimers>>
loadVars == <<loads, auditValid>>
rotateVars == <<rotating, rotations>>

LoadCmd == [step |-> "verify", valid |-> FALSE, list |-> {}]

Load == [step : {"verify", "list", "loaded"}, valid : BOOLEAN, list : SUBSET Stored]

ASSUME DashboardAssumption ==
  /\ TuiToken \in Tokens
  /\ MaxTimers \in Nat /\ MaxRotations \in Nat
  /\ NoLoad \notin Load

FreeLoader(busy) == CHOOSE l \in Loaders : busy[l] = NoLoad

TuiInit(on) ==
  /\ running = IF on THEN "yes" ELSE "no"
  /\ mode = "dashboard" /\ secrets = {} /\ filtered = <<>> /\ cursor = 0 /\ search = <<>>
  /\ auditValid = FALSE
  /\ clipboard = Absent /\ clearTimers = 0
  /\ auditTicks = 0
  /\ loads = [l \in Loaders |-> IF on /\ l = FreeLoader([i \in Loaders |-> NoLoad]) THEN LoadCmd ELSE NoLoad]
  /\ rotating = {} /\ rotations = 0

Awake == running # "no"
Dash == Awake /\ mode = "dashboard"
Shows(m) == mode' = m

-----------------------------------------------------------------------------
(* applyFilter.                                                             *)

NameContains(name, text) == \E i \in 0..(Len(name) - Len(text)) : SubSeq(name, i + 1, i + Len(text)) = text
Position(name) == CHOOSE i \in DOMAIN NameOrder : NameOrder[i] = name

\* sort.Slice leaves the order of equal names open, and the list brings them
\* in the order of a Go map.
Filtered(items, text) ==
  {order \in SetToSeqs({s \in items : NameContains(s.name, text)}) :
     \A i, j \in DOMAIN order : i < j => Position(order[i].name) <= Position(order[j].name)}

\* Mutant of applyFilter: the cursor stays where it is.
FilterKeepsCursor(items, text) == filtered' \in Filtered(items, text) /\ UNCHANGED cursor

applyFilter(items, text) ==
  /\ filtered' \in Filtered(items, text)
  /\ cursor' = IF filtered' = <<>> THEN 0
               ELSE IF cursor >= Len(filtered') THEN Len(filtered') - 1 ELSE cursor

-----------------------------------------------------------------------------
(* Commands, each request of which may fail, and their messages.            *)

\* loadCmd: VerifyAudit and ListSecrets one after the other.  The client decodes a field "valid" that the server's answer does not have.
At(l, step) == Awake /\ loads[l] # NoLoad /\ loads[l].step = step
VerifyAudit(l) ==
  /\ At(l, "verify")
  /\ LET result == IF Verified(TuiToken) THEN AuditVerify ELSE [error |-> AuthStatus]
     IN loads' = [loads EXCEPT ![l].step = "list", ![l].valid = "valid" \in DOMAIN result]
ClientListSecrets(l) ==
  /\ At(l, "list")
  /\ \/ loads' = [loads EXCEPT ![l].step = "loaded", ![l].list = {}]
     \/ /\ Verified(TuiToken)
        /\ loads' = [loads EXCEPT ![l].step = "loaded", ![l].list = ListSecrets(Namespace)]
loadCmd(l) ==
  /\ VerifyAudit(l) \/ ClientListSecrets(l)
  /\ UNCHANGED <<running, mode, listVars, auditValid, clipVars, auditTicks, rotateVars, goVars>>

loadedMsg(l) ==
  /\ At(l, "loaded")
  /\ auditValid' = loads[l].valid
  /\ secrets' = loads[l].list
  /\ applyFilter(loads[l].list, search)
  /\ loads' = [loads EXCEPT ![l] = NoLoad]
  /\ UNCHANGED <<running, mode, search, clipVars, auditTicks, rotateVars, goVars>>

\* rotateCmd's answer, or the lack of one within the client's five seconds.
rotatedMsg ==
  /\ Awake
  /\ \E c \in rotating : rotating' = rotating \ {c} /\ Abandon(c)
  /\ \E l \in Loaders : loads[l] = NoLoad
  /\ loads' = [loads EXCEPT ![FreeLoader(loads)] = LoadCmd]
  /\ UNCHANGED <<running, mode, listVars, auditValid, clipVars, auditTicks, rotations,
                 goStore, goLog, goEpoch, goToken, goRestarts, goMixed>>

clipboardClearMsg ==
  /\ Awake /\ clearTimers > 0
  /\ clearTimers' = clearTimers - 1
  /\ clipboard' = Absent
  /\ UNCHANGED <<running, mode, listVars, loadVars, auditTicks, rotateVars, goVars>>

\* Mutant of auditTickMsg: the next tick is not armed.
TickOnce ==
  /\ Awake /\ auditTicks > 0
  /\ auditTicks' = auditTicks - 1
  /\ UNCHANGED <<running, mode, listVars, loadVars, clipVars, rotateVars, goVars>>

auditTickMsg ==
  /\ Awake /\ auditTicks > 0
  /\ auditTicks' = IF mode = "audit" THEN auditTicks ELSE auditTicks - 1
  /\ UNCHANGED <<running, mode, listVars, loadVars, clipVars, rotateVars, goVars>>

-----------------------------------------------------------------------------
(* Keys.                                                                    *)

\* Quit runs as a command too: what arrives before QuitMsg is still handled.
KeyQuit ==
  /\ Awake /\ mode \in {"dashboard", "audit"}
  /\ running' = "quitting"
  /\ UNCHANGED <<mode, listVars, loadVars, clipVars, auditTicks, rotateVars, goVars>>
KeyPanic ==
  /\ Dash
  /\ running' = "quitting"
  /\ secrets' = {} /\ filtered' = <<>> /\ search' = <<>>
  /\ UNCHANGED <<mode, cursor, loadVars, clipVars, auditTicks, rotateVars, goVars>>
QuitMsg ==
  /\ running = "quitting"
  /\ running' = "no"
  /\ clipboard' = Absent \* it is the memory of the process
  /\ UNCHANGED <<mode, listVars, loadVars, clearTimers, auditTicks, rotateVars, goVars>>

KeyMove ==
  /\ Dash
  /\ \/ cursor > 0 /\ cursor' = cursor - 1
     \/ cursor < Len(filtered) - 1 /\ cursor' = cursor + 1
  /\ UNCHANGED <<running, mode, secrets, filtered, search, loadVars, clipVars, auditTicks, rotateVars, goVars>>

KeyCopy ==
  /\ Dash /\ filtered # <<>> /\ clearTimers < MaxTimers
  /\ clipboard' = filtered[cursor + 1].value
  /\ clearTimers' = clearTimers + 1
  /\ UNCHANGED <<running, mode, listVars, loadVars, auditTicks, rotateVars, goVars>>

\* "a" starts the stream, and one more chain of ticks each time.
KeyAudit ==
  /\ Dash /\ auditTicks < MaxTimers
  /\ Shows("audit")
  /\ auditTicks' = auditTicks + 1
  /\ UNCHANGED <<running, listVars, loadVars, clipVars, rotateVars, goVars>>

\* Keys that only change the mode: "R", and back to the dashboard.
KeyMode ==
  /\ Awake
  /\ \/ mode = "dashboard" /\ Shows("confirm")
     \/ mode \in {"audit", "confirm", "search"} /\ Shows("dashboard")
  /\ UNCHANGED <<running, listVars, loadVars, clipVars, auditTicks, rotateVars, goVars>>

\* "/", a character, backspace and escape: the filter follows the text.
KeySearch ==
  /\ Awake
  /\ \/ mode = "dashboard" /\ Shows("search") /\ search' = <<>>
     \/ mode = "search" /\ Shows("dashboard") /\ search' = <<>>
     \/ mode = "search" /\ Shows("search") /\ search # <<>> /\ search' = Front(search)
     \/ /\ mode = "search" /\ Shows("search") /\ Len(search) < MaxSearch
        /\ \E s \in Names : search' = Append(search, s.name[1])
  /\ applyFilter(secrets, search')
  /\ UNCHANGED <<running, secrets, loadVars, clipVars, auditTicks, rotateVars, goVars>>

KeyRotate ==
  /\ Awake /\ mode = "confirm" /\ rotations < MaxRotations
  /\ Shows("dashboard")
  /\ rotations' = rotations + 1
  /\ \E c \in FirstFree :
       /\ rotating' = rotating \cup {c}
       /\ Connect(c, Request("rotate", CHOOSE s \in Names : TRUE, Absent, TuiToken))
  /\ UNCHANGED <<running, listVars, loadVars, clipVars, auditTicks,
                 goStore, goLog, goEpoch, goToken, goRestarts, goMixed>>

TuiStep ==
  \/ \E l \in Loaders : loadCmd(l) \/ loadedMsg(l)
  \/ rotatedMsg \/ clipboardClearMsg \/ auditTickMsg
  \/ KeyQuit \/ KeyPanic \/ QuitMsg \/ KeyMove \/ KeyCopy \/ KeyAudit \/ KeyMode \/ KeySearch \/ KeyRotate

-----------------------------------------------------------------------------
TuiTypeOK ==
  /\ running \in {"no", "yes", "quitting"}
  /\ mode \in {"dashboard", "audit", "confirm", "search"}
  /\ secrets \subseteq Stored /\ filtered \in Seq(Stored)
  /\ cursor \in Nat
  /\ auditValid \in BOOLEAN
  /\ clipboard \in Values \cup {Absent}
  /\ clearTimers \in 0..MaxTimers /\ auditTicks \in 0..MaxTimers
  /\ loads \in [Loaders -> Load \cup {NoLoad}]
  /\ rotating \subseteq Conns /\ rotations \in 0..MaxRotations

\* The selection exists whenever there is something to select: reloads that
\* shrink the list, filters, the panic key and late messages included.  A key
\* that uses it would otherwise index past the end of the list.
CursorInRange == filtered # <<>> => cursor < Len(filtered)

\* What lasts for a while has the timer that ends or renews it: the audit
\* stream is never left without a tick, nor a copied fingerprint in the
\* clipboard without the timer that clears it, however modes and timers
\* of earlier keys interleave.
TimersArmed ==
  /\ running # "no" /\ mode = "audit" => auditTicks > 0
  /\ clipboard # Absent => clearTimers > 0
=============================================================================
