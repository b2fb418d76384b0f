----------------------------- MODULE KanbanLoop -----------------------------
(***************************************************************************)
(* The review loop of internal/llm/kanban_loop.py over the Multica board:   *)
(* passes that comment on every ticket whose content they have not seen,    *)
(* with a state file that is read when a process starts and written at the  *)
(* end of each pass, and a second file of failures that is read and written *)
(* ticket by ticket.  Neither write is atomic.  Cron starts processes       *)
(* whether or not an earlier one still runs, and any of them may die.       *)
(*                                                                         *)
(* The router's fan-out is taken for what module Router shows of it: it     *)
(* ends, and some of the models have answered or none has.  Every ticket    *)
(* may be passed over (an exception is caught ticket by ticket), so the     *)
(* filters of the selection would allow nothing new and are left out.       *)
(***************************************************************************)
EXTENDS Integers, Sequences, FiniteSets, SequencesExt

CONSTANTS
  Loops,      \* processes
  Boards,     \* possible boards: sequences of tickets in the order they are listed
  NoEntry,    \* no file, no entry
  Torn,       \* a file that was opened for writing and has no text yet
  Schedule,   \* _backoff_minutes: the waits after 1, 2, ... failures
  Contents,   \* contents of a ticket: a description with labels
  Aheads,     \* minutes by which the local time may be ahead of UTC
  MaxEdits,   \* bound: edits of a ticket
  MaxTime,    \* bound: the clock
  MaxLoops,   \* bound: processes at once; all three for a board of 1, 2, ... tickets
  MaxRuns,    \* bound: processes started
  MaxPasses   \* bound: passes of a process with --loop

VARIABLES
  board,      \* the tickets
  text,       \* ticket -> its revision: the edits it has had
  content,    \* ticket -> revision -> content
  comments,   \* ticket -> revision -> comments that review it
  stateFile,  \* the JSON of save_state: ticket -> the revision of the signature
  failFile,   \* the failures file: ticket -> count and time of the last
  clock,      \* minutes
  ahead,      \* of the local time of the host that runs the loop
  loop,       \* process -> its locals
  runs,       \* history: processes started
  faults,     \* history: events after which a comment may be repeated
  failed,     \* history: ticket -> failed attempts and the time of the last
  early       \* history: tickets tried within the wait, with no fault before

boardVars == <<board, text, content, comments>>
loopVars == <<boardVars, stateFile, failFile, clock, ahead, loop, runs, faults, failed, early>>

AllTickets == UNION {Range(b) : b \in Boards}
TicketSet == Range(board)

\* A board lists a ticket once; what is missing is not taken for what is there.
ASSUME KanbanLoopAssumption ==
  /\ IsFiniteSet(Loops) /\ MaxPasses \in Nat
  /\ Contents # {} /\ Aheads \subseteq Int /\ Schedule \in Seq(Nat) /\ Schedule # <<>>
  /\ \A b \in Boards : b \in Seq(AllTickets) /\ IsInjective(b) /\ MaxEdits[Len(b)] \in Nat
  /\ NoEntry # Torn
  /\ \A none \in {NoEntry, Torn} :
       /\ none \notin Nat /\ none \notin [AllTickets -> Nat \cup {NoEntry}]
       /\ none \notin [AllTickets -> [count : Nat, at : Nat]]

Unseen == [t \in AllTickets |-> NoEntry]
Signatures == 0..MaxEdits[Len(board)]
NoFailures == [t \in AllTickets |-> [count |-> 0, at |-> 0]]

Off == [step |-> "off", reset |-> FALSE, passes |-> 0, processed |-> Unseen, dirty |-> FALSE,
        todo |-> <<>>, sig |-> 0, failures |-> NoFailures]

LoopInit ==
  /\ board \in Boards
  /\ text = [t \in AllTickets |-> 0]
  /\ content = [t \in AllTickets |-> [v \in Signatures |-> CHOOSE c \in Contents : TRUE]]
  /\ comments = [t \in AllTickets |-> [v \in Signatures |-> 0]]
  /\ stateFile = NoEntry /\ failFile = NoEntry
  /\ clock = 0 /\ ahead \in Aheads
  /\ loop = [p \in Loops |-> Off]
  /\ runs = 0 /\ faults = 0 /\ failed = NoFailures /\ early = {}

In(p, step) == loop[p].step = step
Ticket(p) == Head(loop[p].todo)
Running(except) == {p \in Loops \ {except} : ~In(p, "off")}
FreeLoop ==                                  \* processes are alike
  LET free == {p \in Loops : In(p, "off")}
  IN IF free = {} THEN {} ELSE {CHOOSE p \in free : TRUE}
Fault(happened) == faults' = IF happened THEN faults + 1 ELSE faults

\* A file that is missing or does not parse is taken for an empty one.
Read(file, empty) == IF file \in {NoEntry, Torn} THEN empty ELSE file

Backoff(count) ==
  IF count <= 0 THEN 1
  ELSE IF count > Len(Schedule) THEN Last(Schedule) ELSE Schedule[count]

\* Content only: description and labels, whatever revision brings them.  What
\* is kept of it names the revision, for the history; signatures are compared
\* by the content.
signature(t) == text[t]
SameContent(t, v, w) == content[t][v] = content[t][w]

-----------------------------------------------------------------------------
(* main.                                                                    *)

\* --reset-state removes the file; `reset` is args.reset_state_run, which
\* nothing clears.
StartLoop(p, once, reset) ==
  /\ p \in FreeLoop /\ runs < MaxRuns
  /\ Cardinality(Running(p)) < MaxLoops[Len(board)]
  /\ runs' = runs + 1
  /\ LET resets == reset /\ stateFile # NoEntry IN
     /\ stateFile' = IF resets THEN NoEntry ELSE stateFile
     /\ loop' = [loop EXCEPT ![p] =
                   [Off EXCEPT !.step = "list", !.reset = resets,
                               !.passes = IF once THEN 1 ELSE MaxPasses,
                               !.processed = IF resets THEN Unseen ELSE Read(stateFile, Unseen)]]
     /\ Fault(resets \/ Running(p) # {})
  /\ UNCHANGED <<boardVars, failFile, clock, ahead, failed, early>>

\* list_issues; an error of it is caught by nobody.
ListTickets(p) ==
  /\ In(p, "list")
  /\ \/ loop' = [loop EXCEPT ![p].step = "ticket", ![p].todo = board]
     \/ loop' = [loop EXCEPT ![p] = Off]
  /\ UNCHANGED <<boardVars, stateFile, failFile, clock, ahead, runs, faults, failed, early>>

NextTicket(q) == [q EXCEPT !.step = "ticket", !.todo = Tail(@)]

\* The end of a pass: save_state truncates the file and then writes it.
SaveState(p) ==
  /\ In(p, "ticket") /\ loop[p].todo = <<>>
  /\ stateFile' = Torn
  /\ loop' = [loop EXCEPT ![p].step = "saving"]
  /\ UNCHANGED <<boardVars, failFile, clock, ahead, runs, faults, failed, early>>
Saved(p) ==
  /\ In(p, "saving")
  /\ stateFile' = loop[p].processed
  /\ IF loop[p].passes > 1
     THEN /\ loop' = [loop EXCEPT ![p].step = "list", ![p].passes = @ - 1, ![p].dirty = FALSE]
          /\ Fault(loop[p].reset)
     ELSE loop' = [loop EXCEPT ![p] = Off] /\ UNCHANGED faults
  /\ UNCHANGED <<boardVars, failFile, clock, ahead, runs, failed, early>>

-----------------------------------------------------------------------------
(* _process_one_ticket.                                                     *)

\* The stamp is written by gmtime and read by mktime, which takes it for
\* local time: a failure looks older by what it is ahead of UTC.
Age(at) == clock - (at - ahead)
CoolingDown(p, failures, t) ==
  /\ failures[t].count > 0 /\ ~loop[p].reset
  /\ Age(failures[t].at) < Backoff(failures[t].count)

Unchanged(p, t) ==
  /\ loop[p].processed[t] # NoEntry /\ ~loop[p].reset
  /\ SameContent(t, loop[p].processed[t], signature(t))

\* What is left of a wait where the local time is ahead of UTC.
Wait(count) == Backoff(count) - (IF ahead > 0 THEN ahead ELSE 0)
TooEarly(t) == faults = 0 /\ failed[t].count > 0 /\ clock - failed[t].at < Wait(failed[t].count)

\* Whatever fails with an exception is passed over.
PassOver(p) ==
  /\ \/ In(p, "ticket") /\ loop[p].todo # <<>>
     \/ In(p, "call") \/ In(p, "post")
  /\ loop' = [loop EXCEPT ![p] = NextTicket(@)]
  /\ UNCHANGED <<boardVars, stateFile, failFile, clock, ahead, runs, faults, failed, early>>

Skip(p) ==
  /\ In(p, "ticket") /\ loop[p].todo # <<>>
  /\ \/ CoolingDown(p, Read(failFile, NoFailures), Ticket(p))
     \/ Unchanged(p, Ticket(p))
  /\ loop' = [loop EXCEPT ![p] = NextTicket(@)]
  /\ UNCHANGED <<boardVars, stateFile, failFile, clock, ahead, runs, faults, failed, early>>

CallModels(p) ==
  /\ In(p, "ticket") /\ loop[p].todo # <<>>
  /\ LET t == Ticket(p)
         failures == Read(failFile, NoFailures)
     IN /\ ~CoolingDown(p, failures, t)
        /\ ~Unchanged(p, t)
        /\ loop' = [loop EXCEPT ![p].step = "call", ![p].sig = signature(t), ![p].failures = failures]
        /\ early' = IF TooEarly(t) THEN early \cup {t} ELSE early
  /\ UNCHANGED <<boardVars, stateFile, failFile, clock, ahead, runs, faults, failed>>

\* All models failed: the failures that were read before the call are
\* written back with one more.
AllFail(p) ==
  /\ In(p, "call")
  /\ LET t == Ticket(p)
         more(f) == [count |-> f.count + 1, at |-> clock]
     IN /\ loop' = [loop EXCEPT ![p].step = "failing", ![p].failures[t] = more(@)]
        /\ failed' = [failed EXCEPT ![t] = more(@)]
  /\ failFile' = Torn
  /\ UNCHANGED <<boardVars, stateFile, clock, ahead, runs, faults, early>>
FailureSaved(p) ==
  /\ In(p, "failing")
  /\ failFile' = loop[p].failures
  /\ loop' = [loop EXCEPT ![p] = NextTicket(@)]
  /\ UNCHANGED <<boardVars, stateFile, clock, ahead, runs, faults, failed, early>>

SomeAnswer(p) ==
  /\ In(p, "call")
  /\ loop' = [loop EXCEPT ![p].step = "post"]
  /\ UNCHANGED <<boardVars, stateFile, failFile, clock, ahead, runs, faults, failed, early>>

\* Mutant of Post: the signature is that of the ticket as it is after the call.
PostMarksCurrent(p) ==
  /\ In(p, "post")
  /\ LET t == Ticket(p)
         done == [NextTicket(loop[p]) EXCEPT !.processed[t] = signature(t), !.dirty = TRUE]
     IN /\ comments' = [comments EXCEPT ![t][loop[p].sig] = @ + 1]
        /\ \/ loop' = [loop EXCEPT ![p] = done] /\ UNCHANGED faults
           \/ loop' = [loop EXCEPT ![p] = NextTicket(@)] /\ Fault(TRUE)
  /\ UNCHANGED <<board, text, content, stateFile, failFile, clock, ahead, runs, failed, early>>

\* post_comment: done and answered; done with the answer lost, which is
\* status 0; refused, which leaves no trace and is PassOver.
Post(p) ==
  /\ In(p, "post")
  /\ LET t == Ticket(p)
         done == [NextTicket(loop[p]) EXCEPT !.processed[t] = loop[p].sig, !.dirty = TRUE]
     IN /\ comments' = [comments EXCEPT ![t][loop[p].sig] = @ + 1]
        /\ \/ loop' = [loop EXCEPT ![p] = done] /\ UNCHANGED faults
           \/ loop' = [loop EXCEPT ![p] = NextTicket(@)] /\ Fault(TRUE)
  /\ UNCHANGED <<board, text, content, stateFile, failFile, clock, ahead, runs, failed, early>>

-----------------------------------------------------------------------------
\* A process dies: it matters if it has posted since it last saved, or is
\* writing one of the files.
KillLoop(p) ==
  /\ ~In(p, "off")
  /\ loop' = [loop EXCEPT ![p] = Off]
  /\ Fault(loop[p].dirty \/ loop[p].step \in {"saving", "failing"})
  /\ UNCHANGED <<boardVars, stateFile, failFile, clock, ahead, runs, failed, early>>

\* An edit may bring an earlier content back, as a label that is toggled does.
Edit(t) ==
  /\ text[t] < MaxEdits[Len(board)]
  /\ text' = [text EXCEPT ![t] = @ + 1]
  /\ \E c \in Contents \ {content[t][text[t]]} :
       content' = [content EXCEPT ![t][text[t] + 1] = c]
  /\ UNCHANGED <<board, comments, stateFile, failFile, clock, ahead, loop, runs, faults, failed, early>>

Minute ==
  /\ clock < MaxTime[Len(board)]
  /\ clock' = clock + 1
  /\ UNCHANGED <<boardVars, stateFile, failFile, ahead, loop, runs, faults, failed, early>>

LoopNext ==
  \/ \E p \in Loops :
       \/ \E once, reset \in BOOLEAN : StartLoop(p, once, reset)
       \/ ListTickets(p) \/ SaveState(p) \/ Saved(p)
       \/ PassOver(p) \/ Skip(p) \/ CallModels(p) \/ AllFail(p) \/ FailureSaved(p)
       \/ SomeAnswer(p) \/ Post(p) \/ KillLoop(p)
  \/ \E t \in TicketSet : Edit(t)
  \/ Minute

-----------------------------------------------------------------------------
LoopTypeOK ==
  /\ board \in Boards
  /\ text \in [AllTickets -> Signatures]
  /\ content \in [AllTickets -> [Signatures -> Contents]]
  /\ stateFile \in {NoEntry, Torn} \cup [AllTickets -> Signatures \cup {NoEntry}]
  /\ clock \in Nat /\ ahead \in Aheads
  /\ \A t \in AllTickets : failed[t].at <= clock
  /\ faults \in Nat

\* The loop is idempotent as its docstring says, so far as it can be: each
\* time a ticket comes to a content, new or had before, it is commented on
\* once, and once more at most for each event that the two files cannot
\* survive: a start beside another process or with --reset-state and each of
\* its passes, a death with unsaved comments or in a write, an answer of the
\* board that is lost.  And without such an event no ticket is tried again
\* before the wait that its failures ask for, less what the local time is
\* ahead of UTC, however passes, edits and exceptions interleave; at and west
\* of Greenwich that is the whole wait.  What the state file says was reviewed
\* has its comment: an edit during the review is not lost.
LoopKeepsPace ==
  /\ \A t \in AllTickets, v \in Signatures :
       Read(stateFile, Unseen)[t] = v => comments[t][v] > 0
  /\ \A t \in AllTickets, v \in Signatures : comments[t][v] <= 1 + faults
  /\ early = {}
=============================================================================
