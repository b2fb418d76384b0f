# TLA+ models and proofs for RGT Vault

RGT Vault keeps secrets for AI agents: an agent asks for a secret or a
capability, the vault checks policy, may ask a human, runs the action and never
hands out the plaintext except as a short-lived lease. This directory holds TLA+
modules translated from the source, TLC configurations that check them on small
instances, and TLAPS proofs of the main results for every value of the
constants. Paths below are relative to the repository.

## 1. The system

| Part | State it keeps | Operations | Talks to |
|---|---|---|---|
| `VaultManager` (`python/vault.py`) | `dek`, `dek_manager`, `key_epoch`, rate limiters, hook, gate, registry | `set_secret`, `lease_secret`, `revoke_secret`, `list_secrets`, `execute_capability`, `rotate_master_key`, `rotate_dek`, `export_vault`, `import_vault`, `verify_audit_chain` | all of the parts below, by direct calls from a pool of server threads |
| Storage (`python/storage/sqlite.py`) | tables `secrets`, `audit_logs`, `metadata`, `honeytokens`; `_audit_lock` | one transaction per operation, each with its audit entry | SQLite, shared by several processes |
| Keychain (`python/keychain.py`, `python/providers/`) | `keychain.json` (the wrapped DEK), the OS keyring entry | `initialize_dek`, `load_dek`, `rewrap_dek`, `rotate_secret` | file system, OS keyring |
| Approval broker (`python/approval.py`) | `_pending`, a decision and an event per request | `consult` (blocks), `approve`, `deny`, `list_pending` | agents' threads, operators' threads |
| TOTP verifier (`python/totp.py`) | `_last_counter` | call: accept a code once | called by `approve`, reads the clock |
| Capabilities (`vault.py`, `capabilities.py`, `token.py`) | registry, failure limiter | `execute_capability` | hook, limiter, storage |
| Audit hook (`python/hook.py`) | frozen flag and file, replay cache of tokens | `pre_op_check`, `freeze`, `unfreeze` | webhooks, signals |
| ABAC policy (`python/auth.py`) | rules | `evaluate`, `get_lease_ttl` | pure |
| Shadow writer (`python/shadow.py`) | list of divergences | `mirror_set`, `mirror_revoke` | Go server over HTTP, after the local transaction |
| Python servers (`python/server/`) | agent and operator token files, pool of threads | HTTP routes, CSRF check, MCP tools | vault, broker |
| Go server (`go/internal/server/`, `go/internal/auth/`) | in-memory store, its own hash-linked audit log, token file | HTTP handlers | shadow, gateway, terminal UI |
| Gateway (`go/internal/gateway/`) | `go_percent` | per call: Go or Python, fallback | both servers |
| Go terminal UI (`go/internal/tui/`) | mode, lists, cursor, clipboard | loads, search, rotation, panic key, ticks | Go server |
| LLM router (`internal/llm/router.py`, `cli.py`) | configuration | `call`, `call_parallel`, `review_pair` | providers over HTTP, in threads |
| Usage log (`internal/llm/usage.py`) | one CSV file under `flock` | `log`, `totals`, `check_burn_rate` | processes of the LLM tools |
| Kanban loop (`internal/llm/kanban_loop.py`) | state file, failures file | passes over the board | router, Multica board |
| Reports (`internal/program/`) | none | release gate, audit of work in progress, `get_issue` | Multica board, page by page |

What is hard in it: four stores of key material that no transaction spans; threads and
processes on one database and one hash chain; waits of minutes for a human between a
check and the use of what was checked; codes valid for several time steps; crashes
between any two steps; two servers that hold the same secrets with nothing between them
but requests that may be lost after they were executed; files that several processes
write without a lock that orders them. `PROJECT.json` lists these hazards, each at its
line, with the properties that would catch it.

What makes each part correct:

- **Keys**: rows, `keychain.json`, keyring, epoch and memory agree whenever the
  vault serves or is restarted; no crash loses a DEK that rows are under; a
  keychain file is never taken for another; a DEK stays within its budget. Each
  of these has races and failures that break it, which the properties name.
- **Storage**: the chain never forks; a name has one current version, its
  latest; the log and the rows say the same at every instant; no lock is kept.
- **Broker and verifier**: a recorded answer is the answer returned, none is a
  denial; every wait ends; a code approves once; a request that needs a second
  factor is approved by a code for that request.
- **Capabilities, hook**: no handler runs unless every gate passed, in order;
  frozen means refused; a token is used once while the cache has it; the rows of
  a call say what it did.
- **Policy**: deny overrides allow, whatever the order of rules.
- **Shadow, Go server, gateway**: a divergence is noticed; the Go log says what
  the store holds; a caller is told what was done, unless the answer was lost,
  and a call is executed twice only if Go's answer was lost.
- **Servers**: something can always go on while a call is under way.
- **Terminal UI**: the cursor is on a row that exists; ticks that are needed are
  armed; nothing stays in the clipboard without one.
- **Start-up**: a process that serves has the whole schema and the identity, key
  and token that the files hold.
- **Router, usage log, kanban loop, reports**: a late answer is not taken for
  another; what was logged is counted; a ticket is commented on once each time it
  comes to a content, and not sooner than its failures allow; a report is true of
  the tickets that stayed.

## 2. Modules

| Module | Models | Status |
|---|---|---|
| `KeyRotation` | key lifecycle: `VaultManager.__init__`, `set_secret`, `lease_secret`, both rotations, `HardenedDEKManager` | built |
| `KeyRotationProofs` | invariant and theorems about it | built |
| `AuditedStore` | abstract: a history per name and one log, changed together | built |
| `SecretStore` | `storage/sqlite.py`'s transactions between threads and processes, backup and restore; implements `AuditedStore` | built |
| `SecretStoreProofs` | invariant and theorems about it | built |
| `ApprovalBroker` | approval broker, TOTP replay guard, the lease around them | built |
| `ApprovalBrokerProofs` | invariant and theorems about it | built |
| `CapabilityGate` | `execute_capability`, its two limiters, the audit hook's freeze and replay cache, the lease of `secrets.use` up to its limiter | built |
| `CapabilityGateProofs` | invariant and theorems about it | built |
| `GoServer` | the Go store, its audit log, handlers, token check, restarts | built |
| `ShadowWriter` (extends `GoServer`) | the vault's writes and their mirrors | built |
| `Policy` | `ABACPolicyEngine` as operators, with what its docstrings promise | built |
| `PythonServer` (extends `ShadowWriter`, `Policy`) | CSRF, tokens, thread pool, the routes that change something | built |
| `Gateway` (extends `PythonServer`) | share, fallback, lost answers | built |
| `Dashboard` (extends `GoServer`) | the terminal UI | built |
| `Deployment` (extends `Gateway`, `Dashboard`) | both servers and their clients together, in six deployments | built |
| `DeploymentProofs` | invariants and theorems about it | built |
| `Startup` | what a process does to the files before it serves | built |
| `StartupProofs` | invariant and theorems about it | built |
| `Router` | one request to the LLM router | built |
| `UsageLog` | the shared CSV file and its readers | built |
| `KanbanLoop` | the review loop with its two files | built |
| `KanbanLoopProofs` | invariant and theorem about it | built |
| `ReleaseGate` | reports on pages of a moving board | built |
| `Operations` (extends these tools and `Startup`) | one of them at a time | built |
| `OperationsProofs` | invariants and theorems about the router, the usage log, the reports and the whole | built |

### KeyRotation

| Variable | In the code |
|---|---|
| `master` | the OS keyring entry |
| `keychain`, `newKeychain` | `keychain.json`, `keychain.json.new` (state, epoch in the AAD, DEK, wrapping key) |
| `dbEpoch`, `dbUsage` | `metadata.key_epoch`, `dek_encrypt_count` and `dek_encrypt_bytes` |
| `active`, `superseded`, `revoked` | the DEKs that a name's rows of each status are sealed with |
| `dek`, `managerDek` | `self.dek`, `self.dek_manager._dek` |
| `pc` and the thread's locals | where a thread is inside `set_secret`, `lease_secret`, `rotate_*` |
| `sealed`, `crashes`, `failures` | history: encryptions under the DEK in use, deaths of the process, calls that raised |
| `history`, `lastRotation`, `named`, `raced` | history: which races there were, how the last rotation ended, epochs of the files that were current, leases that a rotation overtook |

A key is a number and a ciphertext is the DEK it was sealed with, which is what
AES-GCM tells apart: the right key opens it, any other fails. Each action is the
code between two points where another thread or a crash can come in, and any
thread of the server may be in any of them: the code takes no lock around a
rotation. `Crash` may leave the file being written torn. A step that uses the
database, the keyring, a file or the hook may also raise (`Fails`, or the second
disjunct of the action): the transaction is rolled back, what the call did before
stays, and the process goes on. After the epoch's commit that leaves a vault
which serves and cannot be opened again; after the commit of the rewritten rows, a
vault that cannot read them; at the tally or the reset, counters that are
behind or ahead. The audit entries of rotations and the content of hook
consultations are left to `SecretStore` and `CapabilityGate`.

Because two threads can disturb each other, the properties excuse named events,
each defined by where the threads are: `overlap` (two rotations under way),
`interleave` (two threads inside `increment_key_epoch`), `overtake` (a rotation
replaces the DEK while a `set_secret` is between its encryption and its tally) and
`split` (a rotation raises between the commit of the rows and the load of their
DEK). `EpochNamesOneKeychain` excuses `interleave` alone, `RestartKeepsDek`
`overlap` alone. `RestartKeepsDek` speaks of a vault whose last rotation did not
raise half-way, and `LeaseFailsOnlyRaced` says that a lease which gets a
`DecryptionError` was itself overtaken by the publication of a new DEK.

### SecretStore and AuditedStore

`rows` and `log` are the two tables, `auditLock` and `writer` the process's
`_audit_lock` and SQLite's write lock. A call runs as a list of transactions
(`lease_secret` has three: `GET_SECRET`, `LEASE_GRANTED`, `LEASE_RETURNED`); each is
`Lock`, `Begin` (the last hash is read here), `Commit...`. `Busy` is
`busy_timeout` running out. `Kill` takes a whole process. A hash is the sequence
of entries it covers, so SHA-256 is assumed free of collisions; timestamps and
details are left out. `ExportSecrets` and `ExportLog` are the two reads of
`export_data`; `ImportData` takes the write lock and not `_audit_lock`, as the code
does. `AuditedStore` says what the storage layer promises, and `WritesAreAtomic`
is the refinement: `history` is built from `rows` and every step of
`SecretStore` is a step or a stutter of `AuditedStore`, but for `ImportData`.
Rows read by number (`version=`) are in `KeyRotation` and `ApprovalBroker`.

### ApprovalBroker

An agent's `lease_secret` is `Ask` (reads `requires_2fa`, builds the request),
`Register`, `Wake` (event or timeout), `Collect` (pop and read the decision under
`_lock`), `Read`, `EndLease`. Operators' `Approve` and `Deny` are one step each,
as they hold `_lock` throughout; an id that is no longer pending is refused
without a change. A code is the counter of its time step. The clock goes to any
step, also back. `Restart` loses the threads, `_pending` and `_last_counter`;
the history `spent` records which code approved which request in which run of
the server. What comes before the gate in `lease_secret` (hook, rate limiter,
honeytoken, policy) either lets the request through or ends it, and is left out.

### CapabilityGate

| Variable | In the code |
|---|---|
| `mode` | which hook the vault was built with |
| `freezes` | `AuditHook._frozen` and the freeze file |
| `failures`, `window` | `_windows` of `auth_failure_limiter` and `rate_limiter` |
| `seen` | `TwoFactorHook._seen` |
| `pc`, `request`, `token`, `now` | where a thread is in `execute_capability`, its arguments, and the time a limiter read before its lock |
| `rows`, `ran` | the kinds of row the last call wrote, whether its handler ran |
| `halted`, `latest`, `onTime`, `late`, `accepted`, `replayed` | histories of the freeze, of the limiter's admissions and of the cache |

The actions follow the code: `CheckFrozen`, `CountFailures` (`count`), `Verify` or
`RecordFailure` (`record`), `Gate` and `DecideOpen` or `DecideTwoFactor` (the hook),
`Dispatch` (registry, version, payload), `Admit` (`allow`), `Run`, and for
`secrets.use` the lease: `LeaseConsult`, `LeaseAdmit`, `Leased`. Every audit row
may fail to be written, which ends the call with an error where it stands.
Limiters take the time before their lock, so that a step which waits for one
carries the time it read. A nested lease is refused by a two-factor hook: its
consultation carries no token. A list of times is a set of numbered entries.

A token is its claims and its expiry. It is offered before it was signed, too:
nothing in the code looks at when that was. v1 tokens, which no caller in the
repository passes, registration at run time, a vault without a verifier (it refuses
whatever is not bypassed) and arguments that are refused before the first gate
are left out. So is `FreezeWatcher`, which nothing constructs.

### GoServer, ShadowWriter, PythonServer, Gateway

| Variable | In the code |
|---|---|
| `goStore`, `goLog`, `goEpoch` | `Store.secrets`, `auditLog`, `keyEpoch` |
| `goToken` | the token file, which `TokenStore.Read` opens for every request |
| `conn` | a connection: its request, where its handler is, whether the client still waits |
| `work`, `rows`, `divergent` | the handlers of the Python server, the ACTIVE rows, the shadow's list |
| `threads`, `policy`, `operatorStore`, `answer` | the pool, the rules, the second token scope, operators' decisions |
| `goPercent`, `call` | `go_percent`, and what the gateway does with each call |
| `goMixed`, `excused`, `executed`, `lost`, ... | histories |

A Go handler is two critical sections of `Store.mu`, the operation and
`AddAuditEntry`, and its client may give up before either. Python commits a row
(`Commit`, or `CommitFails`), counts the use of the DEK (`RecordUsage`, which may
raise and so end the call before its mirror), then `MirrorPost`, `MirrorAnswer` and
`MirrorVerify` are the shadow's POST and its read-back; `MirrorFails` is any
exception of them, and `ShadowRow` the audit row, which may fail as well. A call
that raises behind a committed row gives its caller a 500 (`unrecorded`) and, before
its mirror, leaves the servers apart with nothing in the list: `unsettled` keeps
such secrets, those whose writes overlapped and those that a restart of Go forgot,
until a write that runs alone settles them. A thread is held from the start
of a handler to its end, `Wake` and the mirror included, which is what
`CallsGoOn` is about. `GoFails` is the gateway's `ErrorHandler`: it cannot tell a
refused connection from a lost answer, and Python serves the call again.
`PythonFails` is Python's transport, before the request arrived or after the call
was executed: its proxy has the default handler, a 502. A key is
the sequence of its segments, because `"namespace/name"` is matched in its escaped
form and listed by prefix. `PythonServer` takes an agent's wait as one step of the
broker that `ApprovalBroker` has in detail.

### Dashboard

`Update` of `model.go`, one action per message and one per group of keys. Commands
(`loadCmd`, `rotateCmd`, ticks) run beside it and their messages arrive in any
order; a load is two requests, either of which may fail. A filtered list is any
order of the secrets that match which the comparison of names allows. `clearTimers` and
`auditTicks` count ticks that are armed. Layout, the tree view and the TOTP
countdown are left out.

### Deployment

`deployment` is chosen in `Init` and says who runs: `dual_write` and `cutover` (Python
with the shadow, without and with the gateway in front), `approval` (agents and
operators on a pool of one or two threads), `dashboard` and `stream` (the terminal
UI and another client on Go), `policy` (the engine by itself). Parts that do not run
stand still.

### Startup

The writes of `serve` and `init` in order: each unit of a migration script, its row,
`vault_id`, `key_epoch`, keyring, `keychain.json`, token file; a process may be
killed between any two and another may start meanwhile. `executescript` commits
statement by statement, so a unit is what is committed at once: some may be run
again, `ALTER TABLE ADD COLUMN` may not.

### Router, UsageLog, KanbanLoop, ReleaseGate

`Router` is one request: `TryNext` walks a chain, `Dispatch` is a worker thread,
`Result` and `Timeout` the turn of each spec in `call_parallel`; workers that were given
up go on and `Exit` still waits for them. What a provider's `complete` comes to is
translated: missing keys and commands, errors with and without a fallback, exceptions,
dry runs. `is_available` is asked outside of every `try`: what it raises ends a chain
(`TryRaises`) and a pair of one spec (`ResultRaises`), while `call_parallel` makes it an
error reply. `ResultRaises` is also the deadline of a pair of one spec before Python
3.11, whose `TimeoutError` is not that of `concurrent.futures`. The remote services
behind it are external and may do any of these at any time. `UsageLog` splits
`_append_row` where another process can come in; `position` is what `tell` returns,
`buffer` what is written at close. `KanbanLoop` has a process's pass ticket by ticket,
both files with the instant at which they are truncated, and `faults`, the count of
events that the files cannot survive. `text` numbers the revisions of a ticket and
`content` says what each of them holds: signatures are compared by content, and an edit
may bring an earlier one back. A failure's stamp is written by `gmtime` and read by
`mktime`: `ahead` is what local time is ahead of UTC, and `Age` what the loop takes for
the age of a failure. `ReleaseGate` reads a board that people change between two pages;
each gate is a predicate of a ticket, and a verdict keeps what was true of the listing
it was made from. The board's server is taken to give pages of the size asked for, as
`list_issues` stops at a page that is shorter. `Operations` chooses one of the tools in
`Init`: they share no file while they run.

## 3. Runs

All runs are small enough for a few minutes. A bound that appears as a guard is
named in the module.

| Run | Bounds | Result |
|---|---|---|
| `keys_serial` | 1 name, 2 threads that do anything, values of 1 or 2 bytes, budget 2 encryptions or 2 bytes, epochs to 3 (2 once something is excused), 1 crash or exception; 490,089 states | passes: `TypeOK`, `ActiveReadable`, `RestartKeepsDek`, `DataRecoverable`, `DekBudget`, `LeaseFailsOnlyRaced`, `EpochNamesOneKeychain` |
| `keys_crash_reopen` | 1 thread, 1 crash | `CrashLeavesVaultOpenable` violated |
| `keys_versions` | 1 thread, no crash, `version=` leases | `EveryVersionReadable` violated |
| `keys_concurrent` | 2 threads, no crash | `StoredReadableAtRest` violated |
| `store` | 2 threads of a server and one of a command line, 1 name, calls start while 3 entries are not reached, 1 kill, 1 restore | passes: `TypeOK`, `ChainIntact`, `LatestActive`, `LogExplainsRows`, `LeasesLogged`, `WritesAreAtomic`, `LocksReleased` |
| `store_backup` | 2 threads, `set_secret` only, 1 restore | `RestoreExplained` violated |
| `approval` | 2 agents, 2 requests, skew window 1, two clock readings, codes of four steps, 1 version, 1 restart | passes: `TypeOK`, `OneCodeOneApproval`, `FlaggedNeedsCode`, `DecisionHonored`, `ListedIffWaiting`, `ConsultEnds` |
| `approval_2fa` | 1 agent, 1 request, 2 versions | `FlaggedReleaseHasCode` violated |
| `capability` | 2 threads, 1 agent, 2 tokens (one bound, one that expires first), a forged one and none, 4 requests, webhook and two-factor hooks, 2 requests a window, 1 failure, windows of a second, cache of 2, clock to 1, one switch | passes: `TypeOK`, `RowsTellOutcome`, `FreezeStopsHandler`, `LockoutOvershoot`, `OnTimeRate`, `ReplayNeedsEviction` |
| `capability_rate` | the same with the hook off | `SlidingWindow` violated |
| `deployment` | 2 clients, 2 connections, 3 secrets (one with a slash in its namespace), 2 calls (`approval`: 3), 1 restart of Go, 2 loads, shares below 0 and of 50, pools of 1 and 2 threads, policies of up to 3 rules; 1,386,445 states | passes: `TypeOK`, `GoLogTellsStore`, `DivergenceNoticed`, `AnswerTrue`, `PolicyMeansReference`, `CursorInRange`, `TimersArmed`, `CallsGoOn` |
| `operations` | 3 starts, 2 at once, the five scripts; 3 providers, pairs and fan-outs with repeated specs; 2 writers, 4 rows; 2 loops on one ticket with two edits between two contents or 1 on two with a longer clock, 2 passes, local time a minute ahead of UTC or, on the second board, behind it; boards of up to 4 tickets, pages of 2, at most 3 of them, 2 changes; 1,903,871 states | passes: `TypeOK`, `RepliesTrue`, `LoopKeepsPace`, `LogTells`, `ReportsTrue`, `StartsAgree` |

Why the bounds are enough. Keys: two threads are the least that race, two
rotations of either kind cover every pair of a stale store and a fresh one, one
fault may fall on any step of either; both thresholds are reached by either count
or bytes. No action tells two names or two threads apart, so the run uses their
symmetry; `MCExcused` cuts off states in which every property is excused, or all but
the one about epochs, which a further rotation would not tell more of. Two faults,
two names and three threads are left to the theorems. Store: three threads in two
processes are the least that have a rival for each of the two locks; a fork of
the chain needs two transactions; a log of three and the calls under way lets a
lease, a write and a revocation overlap. Approval: a replay needs two requests
and one code; the window spans three of the four steps at each clock reading.
Capabilities: an overshoot of the failure cap needs two threads between `count`
and `record`; a late reading needs two seconds and a window of one; the smallest
cache has a half to drop. A webhook allows and denies at will, so it does what
the hooks that always allow do. The freeze flag stands for the file, as a call
reads both under one lock; with both switches the run finds the same in more time.
Deployment: two calls are the least that overlap, a third lets an operator answer
while the pool is full; a fallback needs one share that goes to Go and one draw
that does not. A policy of three rules has a deny before, between and after two
allows. Operations: the third start meets what two others left; a header comes
twice with two writers; a page boundary needs more tickets than a page holds,
and one ticket in each page to be skipped by one removal; the schedule of waits
is cut to its first two and the clock to what they need, as the last wait
repeats; two edits between two contents bring the first one back, and a minute on
each side of UTC shortens or lengthens a wait by what is left of it. The theorems
below hold for every value.

The properties of `keys_serial` hold outside the races that they name, not outside
races: `keys_concurrent` shows what `overtake` does to a row.

**Fairness.** `SecretStore` assumes that a thread inside a transaction is
scheduled: it either begins or gives up (`busy_timeout` is finite), and it
commits. `ApprovalBroker` assumes that an agent's thread is scheduled and that
`event.wait(timeout)` returns, which is what the timeout is for. No caller is
obliged to call and no operator to answer. `KeyRotation` claims no liveness.
`Deployment` and `Operations` state safety only; that nobody waits for everybody is
the invariant `CallsGoOn`, which needs no fairness: a step of a server is enabled
while a call is under way.
Deadlock is not checked where the system may be at rest with its bounds used up.

### What the violated properties show

- `CrashLeavesVaultOpenable` (`vault.py:1083`): `rotate_dek` commits the new
  epoch before the keychain file is replaced. After a crash in between,
  `load_dek` refuses the old file as a rollback and the vault does not open.
  `DataRecoverable` shows what remains: the DEK itself is still in one of the
  two files.
- `EveryVersionReadable` (`docs/guides/api.md:19`): only ACTIVE rows are
  re-encrypted, so earlier versions can no longer be read after a rotation.
- `StoredReadableAtRest` (`tests/test_audit_fixes.py:338`): a `set_secret` that
  encrypted before a rotation and stores after it leaves a row nobody can read,
  and the next rotation fails on that row.
- `RestoreExplained` (`sqlite.py:324`): a backup taken during a write can hold
  the entry without the row.
- `FlaggedReleaseHasCode` (`docs/concepts/trust-boundary.md:83`): the flag is
  read before the wait and the row after it. A version stored with `require_2fa`
  while a request waits is released on an approval without a code. A lease with
  `version=` of a flagged row whose successor is not flagged is released the
  same way.
- `SlidingWindow` (`vault.py:45`): `RateLimiter.allow` reads the clock before its
  lock. A call that waits there while others, at a later second, prune the list
  is judged at its earlier reading, against a list that has forgotten that
  second's admissions. `OnTimeRate` shows what holds: the admissions of calls
  that were not overtaken stay within the limit.

Also met while modelling: the comment in `rotate_dek` (`vault.py:1103`) says that when
anything fails "the vault stays on the old DEK". The process does, but the epoch is
committed by then: after an exception in `get_secret`, `initialize_dek` or the rewrite
it cannot be opened again until a later rotation completes, which is why
`RestartKeepsDek` asks how the last one ended. `execute_capability` promises a
`CAPABILITY_DENIED` row "for any failure path" (`vault.py:470`), but a denial by the
hook leaves only its `HOOK_CAPABILITY` row and an unknown capability none. `hook.py:54`
says every freeze and unfreeze is in the audit chain; `_on_freeze_change` does nothing.
ADR-0003 calls the audit log append-only, and `import_data` replaces it.
`ReplayGuardedVerifier` promises that a code is good for one approval; a restart of the
server within the skew window forgets it, so `OneCodeOneApproval` is stated per run of
the server.

In the servers: the Go key `"namespace/name"` is the same for `a/b` + `x` and `a` +
`b/x`, and a path never matches a key with a slash. The client of the terminal UI
decodes `"valid"` where the Go server sends `"ok"`, so it always shows an invalid
chain. `TokenBindingError` is answered with 500, its docstring says 403. A load that
comes after the panic key shows the list again until the program quits.

In the tools: a crash between a migration script and its row leaves a vault that
does not open again, though the comment (`sqlite.py:74`) speaks of one transaction;
`initialize_if_missing` is called atomic and is not; `cmd_init` says that an empty
token file is recreated, and `load_or_create_token` refuses it. `_append_row` says
two processes cannot both write the header; they can, because `tell()` is the
position at open and the rows are flushed after `LOCK_UN`. `check_burn_rate` fails on
an empty file. In the router, the interpreter's exit still joins the workers that
`call_parallel` gave up; a spec that is named twice is called twice and answered once;
a pair of one spec is an agreement even if the reply is an error; "I disagree" holds
an agreement marker, too, and "incorrect" counts as one. A dry run without a chain
exits 0. In the loop, `reset_state_run` is called one-shot and never cleared, so every
pass of `--loop` comments again; failures are never forgotten after a success; a
content that comes back after another is reviewed again, as only the last signature
is kept; and the cooldown (`kanban_loop.py:234`) is short by what local time is ahead
of UTC, and long by what it is behind, because the stamp of `gmtime` is read by
`mktime` (250). `LoopKeepsPace` states what is left of both promises. The
release gate never passes a milestone, as five gates are skipped, and passes a
workspace without milestones; a ticket that is added while the audit of work in
progress reads its pages is not lost but may make another count twice.

## 4. Proofs

TLAPS checks every theorem below. In each module the argument is the same: an
invariant `IInv` that contains the property, `Init => IInv`,
`IInv /\ [Next]_vars => IInv'` by cases on the action, and a temporal step.

- **KeyRotationProofs** (any threads; crashes and exceptions at any step). The four
  properties about stores need each other's invariants, in this order. `Base`: types,
  that races under way are in `history` (`Recorded`), and that key material comes into
  being with the process (`Lifecycle`). `EpochInv`: as long as no two threads were
  inside `increment_key_epoch` at once, the epochs that files carry, and those that
  threads in a rotation hold, are spent once; it allows rotations to overlap
  otherwise, which is what `EpochsCorrect` is about. `RestartInv`: without an overlap,
  what the one rotating thread knows at each of its steps (`Knows`), and that the four
  stores agree (`Agree`) unless the last rotation raised half-way. `RowsInv`: until
  a race or a split, which DEK the rows are under and which file has it, for each
  step of the rotating thread (`RowsKnown`), also after it raised and after a crash.
  `ReadableCorrect`, `RestartCorrect` and `RecoverableCorrect` follow. `LeaseInv` adds
  that a ciphertext which a lease has read is under the DEK in use unless the lease was
  overtaken; `LeaseCorrect` assumes `ExplicitVersions = FALSE`: `keys_versions` shows
  what `version=` does. `BudgetInv` counts: what is sealed is at most what is tallied,
  the threads that are storing (`Storing`), and what exceptions and crashes left
  (`Forgiven`); a DEK that is full has a thread that replaces it (`Replacing`), or an
  exception or a crash that ended it.
- **SecretStoreProofs**. `ChainIntact` needs that a transaction past `BEGIN
  IMMEDIATE` holds the write lock and that the hash it read is still that of the
  last entry (`HoldsTail`); `LatestActive` needs that a name's versions are
  1, 2, ..., k without a gap (`Dense`), in the tables, in an export under way and
  in the backup. `LogCorrect` is inductive on top of these: a transaction that commits
  holds the write lock, so the rows it saw at `BEGIN` are those it changes.
  `LeasesCorrect` counts a caller that holds a buffer and the one that has begun to
  return it together (`Holding`), so that the commit of `LEASE_RETURNED` takes one off
  each side; the counting needs finitely many threads. `StoreRefines` is the
  refinement: `AuditedStep` shows that each commit is one step of `AuditedStore`, that
  every other step stutters on both tables, and that an import is the one step
  which is neither. `LocksCorrect` is liveness: by `HoldsAlways` who holds the audit
  lock is inside a transaction, each step of which no other thread can undo
  (`TransactionStays`) and its own takes to the next (`TransactionGoes`), so that
  weak fairness of the one thread ends it.
- **ApprovalBrokerProofs**. `FlaggedNeedsCode` needs that no two agents share a
  request and that a collected request is not listed any more, so that its
  decision is final; `OneCodeOneApproval` that all codes accepted in this run of
  the server are at most `_last_counter`. `ConsultCorrect` is liveness: nobody else can
  bring an agent back from a step of its consultation (`ConsultStays`), so that fairness of
  the agent takes it from the registration through the wait to the answer.

- **CapabilityGateProofs**. `IInv` has five parts besides the types and the
  finiteness of the windows. `CallInv` says which rows a call at each step can
  have, and that a call past its last look at the freeze state was not frozen
  throughout. `Throttled` counts failures and the calls between `count` and
  `record` together, which is the inductive form of `LockoutOvershoot`.
  `CacheInv` adds that the cache holds every accepted token until as many as it
  can hold were accepted. `RateInv` adds that the limiter still has every
  admission on time that is in the window of the latest reading. The steps that
  count use the library's facts about finite sets.

- **StartupProofs** (a part of `Operations`, for any scripts of migrations and any
  number of processes). `StartsAgree` needs three groups of facts. `ScriptInv`:
  scripts are run in order, and one is booked only when all its units were run.
  `IdentityInv`: the metadata row is never replaced, and a keychain comes after it
  and after a keyring entry. `AloneInv`, as long as no two starts overlapped: what
  the one process that starts has read is still so, and whatever is half done has
  that process or a kill behind it. The script that comes next is the least one not
  booked, which is where well-foundedness of the numbers is cited.
- **KanbanLoopProofs** (a part of `Operations`, for any boards, processes, edits, passes
  and faults). Counting comments alone is not inductive: `PaidFor` adds, for each
  revision of a ticket, the processes that may still comment on it without a fault, so
  that a comment and the process that stops being one of them cancel out; and it says
  that a comment which neither the file nor a process would remember was paid for by a
  fault, so that a process that starts alone has that much left. `Behind` says that
  revisions only advance, without which an edit would bring back reviewers of the old
  revision; contents may come back. `Paced` says that without a fault one process runs
  and knows every failure, and `Age` and `Wait` differ by the offset alone.
- **OperationsProofs** (the rest of `Operations`; `OperationsTypes` puts the parts
  together). `LogTells` needs that the file only grows, so that a writer which has rows
  to write had opened it at no more than its length (`Positions`), that a writer which
  found it empty writes both lines, and that after the first line nobody is left who
  found it empty unless two had (`Races`). `RepliesTrue` needs two cases: a chain has
  tried a prefix of its specs of which none ended it; a fan-out has, for each reply it
  gave, a worker of that spec that is through or an error in its place, and what a
  worker that was given up answers later changes neither; what is raised
  (`RouterRaises`) leaves none. `ReportsTrue` needs that, between two pages, what stayed
  and lies before the offset is listed if nothing was removed, and what lies behind it
  is not if nothing was added (`InPages`), and that ids are not used again.
- **DeploymentProofs** (both servers and their clients, for any deployments, clients,
  connections, secrets, calls and restarts). `DInv` has the types and, for `AnswerTrue`,
  what a thread has done of its call at each of its steps, also where its count, its row
  or its answer is lost (`Told`), what Go has done of it at each step of the connection
  (`AtGo`), and that a connection has one holder (`Apart`): otherwise a client could
  take another's answer. The terminal's two properties are inductive with its types and
  with lists that are finite, as they are sorted. `GoLogTellsStore` needs `LogInv`: for
  a key whose handlers never overlapped at most one has its entry to write, and what it
  will write tells what the store holds. `DivergenceNoticed` needs `MirrorInv`: of a
  secret that is neither listed, excused nor unsettled at most one mirror is under way,
  the row is what it writes, Go holds the same once it is confirmed, and no other write
  of that secret is on its way on any connection. `WaitsEnd` says what `CallsGoOn` is
  about with the guards spelled out: `ConnInv` finds for each open connection a client
  that awaits it or a handler that closes it, so that a writer which waits for Go, and a
  call for which no connection is free, wait for a handler that can go on; and a queue
  for the pool finds a thread free or one that runs, since one that waits for an
  operator can time out. `GoChainCorrect` says that the chain of hashes of the Go server
  is intact with any handlers at work. `DivergenceCorrect` assumes `KeysDistinct`, that
  two secrets have two keys at Go. The vault validates that neither a namespace nor a
  name contains a slash (`python/input_validation.py:32`), which is what makes it so;
  `Names` of the run has it as well. Go's own clients are not held to it, and the other
  theorems do not need it. `PolicyMeansReference` is about `evaluate`, a recursive
  function over the rules. The library's induction theorems cannot be instantiated here,
  so `LoopRuns` (such a function exists) and `EvaluateDecides` (what a decision stands
  on after each rule) argue from the least rule at which they would fail, which
  `LeastNumber` gives by well-foundedness of the natural numbers. `ExactTtlAlways` does
  the same for the sort.

Assumptions about constants are named in the module that declares them, and TLC
evaluates them in every run of it. Those with content: `SecretStoreAssumption` and
`KanbanLoopAssumption` have finitely many threads and loops (and at least one content
and one wait), `KeyRotationAssumption` finitely many threads and a budget that is not
zero, `CapabilityGateAssumption` finitely many callers, `GoAssumption` finitely many
secrets (a list of them is sorted); `GateAssumption` says that a board starts with
tickets of different ids and that a page and the cap are not zero; `RouterAssumption`
that chains, pairs and fan-outs are lists; `GatewayAssumption` that shares are whole
numbers, draws natural ones, that a draw always gives one and that there is a connection
to open; `DeploymentAssumption` that a pool has a thread, that policies are lists of
rules whose ttl is a whole number and that inputs are well formed; the others
(`ApprovalBrokerAssumption`, `StartupAssumption`, `UsageAssumption`, `ShadowAssumption`,
`DashboardAssumption`) give the bounds their types and keep the values that mean
"nothing" apart from the rest. Hypotheses of single theorems are `ExplicitVersions =
FALSE` and `KeysDistinct`, as said above.

The three theorems about waiting have one more hypothesis. `ConsultCorrect` and
`LocksCorrect` assume `[]Schedulable`, and `CallsGoOnCorrect` assumes
`[](StepReady => ENABLED GoesOn)`: whenever the guard of a step holds, the step is
`ENABLED`. The provers take `ENABLED` as an unknown, so they cannot derive it from
the definitions of the actions. On the constants of `approval`, `store` and `deployment`
TLC evaluated these hypotheses in every reachable state and found them true; the
runs check the three properties themselves, with no such hypothesis. What the theorems
add is the argument for any number of agents, threads, processes, connections and
clients: which steps a wait is made of, that no other actor can send it back, and
that at each of them a guard holds.

Only model-checked, and why: that guards suffice for `ENABLED`, and with it
`LocksReleased`, `ConsultEnds` and `CallsGoOn` without that hypothesis. Every
other property of a run that passes is a theorem. No module here declares a
`RECURSIVE` operator.

## 5. Plan

All modules and proofs of the plan are built but for one extension: restore in
`KeyRotation`, a backup from before a rotation, which changes the invariant that its
proofs rest on.

## 6. Not modelled

Input validation, string handling and encodings; MCP adapters and most of the command
line, which pass calls on; crypto primitives (taken as perfect); layout of the terminal
UIs; honeytokens; migration of legacy rows; a change of the offset of local time while
failures wait; the routes of the Python server that only read, `POST /v1/rotate` and
`/v1/capabilities/execute` (their vault calls are in `KeyRotation` and
`CapabilityGate`); request formats of the LLM providers, the number and the waits of
their retries, streaming and quota burning; `dashboard.py`, which prints. The signal
handler of `hook.py` takes a lock that the interrupted thread may hold; nothing in the
repository installs it. `PROJECT.json` gives the reason for each part.

## 7. Running

    tlc -config keys_serial.cfg MCKeyRotation
    tlc -config store.cfg MCSecretStore
    tlc -config approval.cfg ApprovalBroker
    tlc -config capability.cfg MCCapabilityGate
    tlc -config deployment.cfg MCDeployment
    tlc -config operations.cfg MCOperations
    tlapm KeyRotationProofs.tla      (and the other *Proofs modules)
