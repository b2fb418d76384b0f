------------------------------ MODULE UsageLog ------------------------------
(***************************************************************************)
(* The log of provider calls, internal/llm/usage.py: processes append rows  *)
(* to one CSV file under an advisory lock, the first of them a header.      *)
(* tell() gives the position at which the file was opened, before the lock, *)
(* and what is written stays in the buffer until the file is closed, after  *)
(* the lock: the lock orders nothing that reaches the file.  A close writes *)
(* a header and a row in one append.  Readers are totals in the same file   *)
(* and check_burn_rate of internal/llm/healthcheck.py.                      *)
(***************************************************************************)
EXTENDS Naturals, Sequences, FiniteSets, SequencesExt

CONSTANTS
  Writers,    \* processes; threads of one take turns (usage._lock)
  Providers,
  Nobody,
  MaxRows     \* bound: calls of log

\* No provider is named like the header's first column.
ASSUME UsageAssumption ==
  /\ "header" \notin Providers
  /\ Nobody \notin Writers
  /\ MaxRows \in Nat

VARIABLES
  csv,        \* lines of the file: "header" or the provider of a row
  exists,     \* open(p, "a") creates the file, empty
  writer,     \* writer -> where its call of _append_row is
  flock,      \* who holds the lock
  logged,     \* history: providers of the calls of log that returned
  asked,      \* history: calls of log
  raced       \* history: the file was empty when a second writer opened it

usageVars == <<csv, exists, writer, flock, logged, asked, raced>>

Away == [step |-> "away", provider |-> Nobody, position |-> 0, buffer |-> <<>>]

UsageInit ==
  /\ csv = <<>> /\ exists = FALSE
  /\ writer = [w \in Writers |-> Away]
  /\ flock = Nobody
  /\ logged = <<>> /\ asked = 0 /\ raced = FALSE

Does(w, step) == writer[w].step = step

\* Others that will write a header.
OpenedEmpty(w) == \E v \in Writers \ {w} : ~Does(v, "away") /\ writer[v].position = 0

Open(w, p) ==
  /\ Does(w, "away") /\ asked < MaxRows
  /\ asked' = asked + 1
  /\ exists' = TRUE
  /\ writer' = [writer EXCEPT ![w] = [step |-> "opened", provider |-> p, position |-> Len(csv), buffer |-> <<>>]]
  /\ raced' = (raced \/ (csv = <<>> /\ OpenedEmpty(w)))
  /\ UNCHANGED <<csv, flock, logged>>

TakeFlock(w) ==
  /\ Does(w, "opened") /\ flock = Nobody
  /\ flock' = w
  /\ writer' = [writer EXCEPT ![w].step = "locked"]
  /\ UNCHANGED <<csv, exists, logged, asked, raced>>

\* Mutant of WriteRows: the header is written by who created the file.
WriteRowsIfCreated(w) ==
  /\ Does(w, "locked")
  /\ writer' = [writer EXCEPT ![w].step = "written",
                              ![w].buffer = IF asked = 1 THEN <<"header", writer[w].provider>>
                                            ELSE <<writer[w].provider>>]
  /\ UNCHANGED <<csv, exists, flock, logged, asked, raced>>

WriteRows(w) ==
  /\ Does(w, "locked")
  /\ writer' = [writer EXCEPT ![w].step = "written",
                              ![w].buffer = IF writer[w].position = 0 THEN <<"header", writer[w].provider>>
                                            ELSE <<writer[w].provider>>]
  /\ UNCHANGED <<csv, exists, flock, logged, asked, raced>>

Unflock(w) ==
  /\ Does(w, "written")
  /\ flock' = Nobody
  /\ writer' = [writer EXCEPT ![w].step = "unlocked"]
  /\ UNCHANGED <<csv, exists, logged, asked, raced>>

\* The end of "with open": the buffer is appended and log returns.
Close(w) ==
  /\ Does(w, "unlocked")
  /\ csv' = csv \o writer[w].buffer
  /\ logged' = Append(logged, writer[w].provider)
  /\ writer' = [writer EXCEPT ![w] = Away]
  /\ UNCHANGED <<exists, flock, asked, raced>>

\* A process that dies takes its buffer along; the system frees its lock.
KillWriter(w) ==
  /\ ~Does(w, "away")
  /\ writer' = [writer EXCEPT ![w] = Away]
  /\ flock' = IF flock = w THEN Nobody ELSE flock
  /\ UNCHANGED <<csv, exists, logged, asked, raced>>

UsageNext ==
  \E w \in Writers :
    \/ \E p \in Providers : Open(w, p)
    \/ TakeFlock(w) \/ WriteRows(w) \/ Unflock(w) \/ Close(w) \/ KillWriter(w)

-----------------------------------------------------------------------------
(* Readers.                                                                 *)

\* totals: DictReader takes the first line for the header, any further one
\* for a row of a provider called "provider".
totals(p) == Cardinality({i \in 2..Len(csv) : csv[i] = p})
Phantom == csv # <<>> /\ totals("header") > 0

\* check_burn_rate: no file, no usage; next(f) raises on an empty file; a
\* header further down has no numbers and is skipped.
check_burn_rate ==
  IF ~exists THEN "nothing" ELSE IF csv = <<>> THEN "StopIteration" ELSE "read"

-----------------------------------------------------------------------------
UsageTypeOK ==
  /\ \A i \in DOMAIN csv : csv[i] \in Providers \cup {"header"}
  /\ writer \in [Writers -> [step : {"away", "opened", "locked", "written", "unlocked"},
                             provider : Providers \cup {Nobody}, position : Nat,
                             buffer : Seq(Providers \cup {"header"})]]
  /\ flock \in Writers \cup {Nobody}
  /\ asked \in 0..MaxRows

\* What totals counts is what was logged, although nothing that reaches the
\* file is ordered by the lock: every call of log that returned is one row,
\* under a header and not in its place, whoever dies on the way.  A phantom
\* provider appears only if two writers had the file open while it was
\* empty, and the health check fails only before the first row.
LogTells ==
  /\ csv # <<>> =>
       \A p \in Providers : totals(p) = Cardinality({i \in DOMAIN logged : logged[i] = p})
  /\ Phantom => raced
  /\ check_burn_rate = "StopIteration" => logged = <<>>
  /\ \A w \in Writers : writer[w].step \in {"locked", "written"} => flock = w
=============================================================================
