-------------------------- MODULE KanbanLoopProofs --------------------------
(***************************************************************************)
(* Proofs about KanbanLoop, for any boards, processes, edits, passes and   *)
(* faults, as a part of Operations.                                        *)
(***************************************************************************)
EXTENDS Operations, FiniteSetTheorems, TLAPS

-----------------------------------------------------------------------------
(***************************************************************************)
(* The inductive invariant.                                                *)
(***************************************************************************)

Failure == [count : Nat, at : Nat]
LoopSteps == {"off", "list", "ticket", "call", "failing", "post", "saving"}
Seen == [AllTickets -> Signatures \cup {NoEntry}]
Locals == [step : LoopSteps, reset : BOOLEAN, passes : Int, processed : Seen, dirty : BOOLEAN,
           todo : Seq(AllTickets), sig : Signatures, failures : [AllTickets -> Failure]]

LoopTypes ==
  /\ board \in Boards
  /\ text \in [AllTickets -> Signatures]
  /\ content \in [AllTickets -> [Signatures -> Contents]]
  /\ comments \in [AllTickets -> [Signatures -> Nat]]
  /\ stateFile \in {NoEntry, Torn} \cup Seen
  /\ failFile \in {NoEntry, Torn} \cup [AllTickets -> Failure]
  /\ clock \in Nat /\ ahead \in Aheads /\ faults \in Nat
  /\ loop \in [Loops -> Locals]
  /\ failed \in [AllTickets -> Failure] /\ \A t \in AllTickets : failed[t].at <= clock

\* A pass takes each ticket once, and calls only for a revision it has not seen.
PassOK(q) ==
  /\ IsInjective(q.todo)
  /\ q.step \in {"call", "post", "failing"} => q.todo # <<>>
  /\ q.step \in {"call", "post"} /\ ~q.reset => q.processed[Head(q.todo)] # q.sig
  /\ q.step = "list" => ~q.dirty

\* Contents return, revisions only advance: no one has seen a later one than
\* there is, and one that a call is about is not earlier than the last seen.
Past(seen, v) == seen # NoEntry /\ v <= seen
Seeing(processed) == \A t \in AllTickets : processed[t] # NoEntry => processed[t] <= text[t]
Behind(q) ==
  /\ Seeing(q.processed)
  /\ q.step \in {"call", "post"} =>
       LET t == Head(q.todo) IN
       /\ q.sig <= text[t]
       /\ q.processed[t] # NoEntry => q.processed[t] <= q.sig

\* What is taken for reviewed has its comment.
Commented ==
  \A t \in AllTickets, v \in Signatures :
    Read(stateFile, Unseen)[t] = v \/ (\E p \in Loops : loop[p].processed[t] = v) =>
      comments[t][v] > 0

\* Processes that may still comment on revision v of t without a fault, and
\* those that know of a comment which the state file may not yet hold.
Repeats(q, t) == q.reset /\ (q.step = "list" \/ \E i \in DOMAIN q.todo : q.todo[i] = t)
May(q, t, v) == q.step # "off" /\ (~Past(q.processed[t], v) \/ Repeats(q, t))
Keeps(q, t, v) == q.step # "off" /\ Past(q.processed[t], v) /\ (q.dirty \/ q.step = "saving")
Reviewers(t, v) == {p \in Loops : May(loop[p], t, v)}

\* Each of them is paid for, the first by the comment that may be there; and
\* a comment that nobody would remember was paid for by a fault.
PaidFor(t, v) ==
  /\ comments[t][v] + Cardinality(Reviewers(t, v)) <= 1 + faults
  /\ ~Past(Read(stateFile, Unseen)[t], v) /\ (\A p \in Loops : ~Keeps(loop[p], t, v)) =>
       comments[t][v] <= faults

\* Without a fault one process runs at a time, and knows all failures.
Paced ==
  /\ early = {}
  /\ faults = 0 =>
       /\ \A p \in Loops : ~loop[p].reset
       /\ \A p, r \in Loops : ~In(p, "off") /\ ~In(r, "off") => p = r
       /\ \A p \in Loops : In(p, "call") \/ In(p, "failing") => loop[p].failures = failed
       /\ (\A p \in Loops : ~In(p, "failing")) => Read(failFile, NoFailures) = failed

LoopInv ==
  /\ LoopTypes /\ \A p \in Loops : PassOK(loop[p])
  /\ Seeing(Read(stateFile, Unseen)) /\ \A p \in Loops : Behind(loop[p])
  /\ Commented /\ Paced
  /\ \A t \in AllTickets, v \in Signatures : PaidFor(t, v)

-----------------------------------------------------------------------------
(***************************************************************************)
(* Types.                                                                  *)
(***************************************************************************)

LEMMA Constant ==
  ASSUME board \in Boards
  PROVE  /\ Signatures \subseteq Nat /\ 0 \in Signatures /\ NoEntry \notin Signatures
         /\ Unseen \in Seen /\ NoFailures \in [AllTickets -> Failure]
         /\ board \in Seq(AllTickets) /\ IsInjective(board)
         /\ Torn \notin Seen /\ NoEntry \notin Seen
<1>1. MaxEdits[Len(board)] \in Nat /\ NoEntry \notin Nat
  BY KanbanLoopAssumption
<1>2. Signatures \subseteq Nat /\ 0 \in Signatures
  BY <1>1 DEF Signatures
<1>3. Seen \subseteq [AllTickets -> Nat \cup {NoEntry}]
  BY <1>2 DEF Seen
<1>4. Torn \notin Seen /\ NoEntry \notin Seen
  BY <1>3, KanbanLoopAssumption
<1> QED BY <1>1, <1>2, <1>4, KanbanLoopAssumption DEF Seen, Unseen, NoFailures, Failure

\* A file that is read holds what it holds, or nothing.
LEMMA ReadTypes ==
  ASSUME LoopTypes
  PROVE  /\ Read(stateFile, Unseen) \in Seen
         /\ Read(failFile, NoFailures) \in [AllTickets -> Failure]
BY Constant DEF LoopTypes, Read

\* What is left of a pass after its first ticket.
LEMMA Rest ==
  ASSUME NEW S, NEW s \in Seq(S), s # <<>>
  PROVE  /\ Tail(s) \in Seq(S) /\ Head(s) \in S
         /\ \A i \in DOMAIN Tail(s) : i + 1 \in DOMAIN s /\ Tail(s)[i] = s[i + 1]
         /\ IsInjective(s) => IsInjective(Tail(s))
         /\ IsInjective(s) => \A i \in DOMAIN Tail(s) : Tail(s)[i] # Head(s)
<1>1. /\ Tail(s) \in Seq(S) /\ Head(s) \in S /\ Head(s) = s[1] /\ 1 \in DOMAIN s
      /\ \A i \in DOMAIN Tail(s) : i \in Nat /\ i >= 1 /\ i + 1 \in DOMAIN s /\ Tail(s)[i] = s[i + 1]
  OBVIOUS
<1>2. ASSUME IsInjective(s), NEW i \in DOMAIN Tail(s), NEW j \in DOMAIN Tail(s), Tail(s)[i] = Tail(s)[j]
      PROVE  i = j
  <2>1. i + 1 = j + 1
    BY <1>1, <1>2 DEF IsInjective
  <2> QED BY <1>1, <2>1
<1>3. ASSUME IsInjective(s), NEW i \in DOMAIN Tail(s) PROVE Tail(s)[i] # Head(s)
  <2>1. i + 1 # 1 /\ i + 1 \in DOMAIN s
    BY <1>1
  <2> QED BY <1>1, <1>3, <2>1 DEF IsInjective
<1> QED BY <1>1, <1>2, <1>3 DEF IsInjective

LEMMA LoopTypesInit == LoopInit => LoopTypes
<1> SUFFICES ASSUME LoopInit PROVE LoopTypes
  OBVIOUS
<1>1. board \in Boards
  BY DEF LoopInit
<1>2. Off \in Locals
  BY <1>1, Constant DEF Off, Locals, LoopSteps
<1>3. (CHOOSE c \in Contents : TRUE) \in Contents
  BY KanbanLoopAssumption
<1>4. content \in [AllTickets -> [Signatures -> Contents]]
  BY <1>3 DEF LoopInit
<1> QED BY <1>1, <1>2, <1>4, Constant DEF LoopInit, LoopTypes, NoFailures, Failure

LoopMoved(p) ==
  \/ \E once, reset \in BOOLEAN : StartLoop(p, once, reset)
  \/ ListTickets(p) \/ SaveState(p) \/ Saved(p)
  \/ PassOver(p) \/ Skip(p) \/ CallModels(p) \/ AllFail(p) \/ FailureSaved(p)
  \/ SomeAnswer(p) \/ Post(p) \/ KillLoop(p)

LEMMA LocalUpdates ==
  ASSUME LoopTypes, NEW q \in Locals
  PROVE  /\ \A step \in LoopSteps : [q EXCEPT !.step = step] \in Locals
         /\ q.todo # <<>> => NextTicket(q) \in Locals
         /\ Off \in Locals /\ board \in Seq(AllTickets)
<1>1. board \in Seq(AllTickets)
  BY Constant DEF LoopTypes
<1>2. Off \in Locals
  BY Constant DEF LoopTypes, Off, Locals, LoopSteps
<1>3. ASSUME q.todo # <<>> PROVE NextTicket(q) \in Locals
  <2>1. Tail(q.todo) \in Seq(AllTickets)
    BY <1>3, Rest DEF Locals
  <2> QED BY <2>1 DEF NextTicket, Locals, LoopSteps
<1> QED BY <1>1, <1>2, <1>3 DEF Locals

\* What every action leaves alone.
LEMMA BoardFixed ==
  ASSUME LoopTypes, LoopNext
  PROVE  board' = board /\ Signatures' = Signatures
<1>1. ASSUME NEW p \in Loops, LoopMoved(p) PROVE board' = board
  BY <1>1 DEF LoopMoved, boardVars, StartLoop, ListTickets, SaveState, Saved, PassOver, Skip,
              CallModels, AllFail, FailureSaved, SomeAnswer, Post, KillLoop
<1>2. board' = board
  BY <1>1 DEF LoopNext, LoopMoved, Edit, Minute, boardVars
<1> QED BY <1>2 DEF Signatures

LEMMA OthersStay ==
  ASSUME LoopTypes, NEW p \in Loops, LoopMoved(p)
  PROVE  \A r \in Loops \ {p} : loop'[r] = loop[r]
BY DEF LoopTypes, LoopMoved, StartLoop, ListTickets, SaveState, Saved, PassOver, Skip,
       CallModels, AllFail, FailureSaved, SomeAnswer, Post, KillLoop

LEMMA LoopTypesStep ==
  ASSUME LoopTypes, NEW p \in Loops, PassOK(loop[p]), LoopMoved(p), board' = board
  PROVE  LoopTypes'
<1> DEFINE q == loop[p]
<1>1. q \in Locals /\ loop \in [Loops -> Locals] /\ faults \in Nat
  BY DEF LoopTypes
<1>2. Signatures' = Signatures /\ Seen' = Seen
  BY DEF Signatures, Seen
<1>3. Locals' = Locals
  BY <1>2 DEF Locals
<1>4. Read(stateFile, Unseen) \in Seen /\ Read(failFile, NoFailures) \in [AllTickets -> Failure]
  BY ReadTypes
<1>5. /\ \A step \in LoopSteps : [q EXCEPT !.step = step] \in Locals
      /\ q.todo # <<>> => NextTicket(q) \in Locals
      /\ Off \in Locals /\ board \in Seq(AllTickets)
  BY <1>1, LocalUpdates
<1>6. Unseen \in Seen /\ Signatures \subseteq Nat
  BY Constant DEF LoopTypes
\* The clock and what was failed by it.
<1>7. ASSUME UNCHANGED <<board, clock, ahead, failed>>, text' = text, content' = content,
             stateFile' \in {NoEntry, Torn} \cup Seen,
             failFile' \in {NoEntry, Torn} \cup [AllTickets -> Failure],
             comments' \in [AllTickets -> [Signatures -> Nat]], faults' \in Nat,
             NEW r \in Locals, loop' = [loop EXCEPT ![p] = r]
      PROVE  LoopTypes'
  BY <1>1, <1>2, <1>3, <1>7 DEF LoopTypes
<1> USE DEF boardVars, Fault, In
<1>8. ASSUME NEW once \in BOOLEAN, NEW reset \in BOOLEAN, StartLoop(p, once, reset) PROVE LoopTypes'
  <2> DEFINE resets == reset /\ stateFile # NoEntry
             r == [Off EXCEPT !.step = "list", !.reset = resets,
                              !.passes = IF once THEN 1 ELSE MaxPasses,
                              !.processed = IF resets THEN Unseen ELSE Read(stateFile, Unseen)]
  <2>1. r \in Locals
    <3>1. (IF once THEN 1 ELSE MaxPasses) \in Int /\ resets \in BOOLEAN
      BY KanbanLoopAssumption
    <3>2. (IF resets THEN Unseen ELSE Read(stateFile, Unseen)) \in Seen
      BY <1>4, <1>6
    <3> HIDE DEF resets
    <3> QED BY <1>5, <3>1, <3>2 DEF Locals, LoopSteps
  <2>2. loop' = [loop EXCEPT ![p] = r]
    BY <1>8 DEF StartLoop
  <2>3. /\ UNCHANGED <<board, text, content, comments, clock, ahead, failed, failFile>>
        /\ stateFile' \in {NoEntry, stateFile} /\ faults' \in Nat
    BY <1>1, <1>8 DEF StartLoop
  <2> HIDE DEF r
  <2> QED BY <1>7, <2>1, <2>2, <2>3 DEF LoopTypes
<1>9. CASE ListTickets(p)
  <2>1. [q EXCEPT !.step = "ticket", !.todo = board] \in Locals
    <3>1. "ticket" \in LoopSteps /\ board \in Seq(AllTickets)
      BY <1>5 DEF LoopSteps
    <3> QED BY <1>1, <3>1 DEF Locals
  <2>2. \/ loop' = [loop EXCEPT ![p] = [q EXCEPT !.step = "ticket", !.todo = board]]
        \/ loop' = [loop EXCEPT ![p] = Off]
    BY <1>9 DEF ListTickets
  <2>3. UNCHANGED <<boardVars, stateFile, failFile, clock, ahead, faults, failed>>
    BY <1>9 DEF ListTickets
  <2> QED BY <1>5, <1>7, <2>1, <2>2, <2>3 DEF LoopTypes
<1>10. CASE SaveState(p)
  BY <1>5, <1>7, <1>10 DEF SaveState, LoopTypes, LoopSteps
<1>11. CASE Saved(p)
  <2> DEFINE r == [q EXCEPT !.step = "list", !.passes = @ - 1, !.dirty = FALSE]
  <2>1. r \in Locals
    <3>1. "list" \in LoopSteps /\ q.passes - 1 \in Int
      BY <1>1 DEF Locals, LoopSteps
    <3>2. \A n \in Int : [q EXCEPT !.step = "list", !.passes = n, !.dirty = FALSE] \in Locals
      BY <1>1, <3>1 DEF Locals
    <3> QED BY <3>1, <3>2
  <2>2. stateFile' \in Seen
    BY <1>1, <1>11 DEF Saved, Locals
  <2>3. loop' = [loop EXCEPT ![p] = r] \/ loop' = [loop EXCEPT ![p] = Off]
    BY <1>11 DEF Saved
  <2>4. UNCHANGED <<boardVars, failFile, clock, ahead, failed>> /\ faults' \in Nat
    BY <1>1, <1>11 DEF Saved
  <2> HIDE DEF r
  <2> QED BY <1>5, <1>7, <2>1, <2>2, <2>3, <2>4 DEF LoopTypes
<1>12. CASE PassOver(p) \/ Skip(p)
  <2>1. q.todo # <<>>
    BY <1>12 DEF PassOver, Skip, PassOK
  <2> QED BY <1>5, <1>7, <1>12, <2>1 DEF PassOver, Skip, LoopTypes
<1>13. CASE CallModels(p)
  <2>1. signature(Ticket(p)) \in Signatures
    <3>1. Ticket(p) \in AllTickets
      BY <1>1, <1>13, Rest DEF CallModels, Ticket, Locals
    <3> QED BY <3>1 DEF signature, LoopTypes
  <2>2. [q EXCEPT !.step = "call", !.sig = signature(Ticket(p)),
                  !.failures = Read(failFile, NoFailures)] \in Locals
    BY <1>1, <1>4, <2>1 DEF Locals, LoopSteps
  <2> QED BY <1>7, <1>13, <2>2 DEF CallModels, LoopTypes
<1>14. CASE AllFail(p)
  <2> DEFINE t == Ticket(p)
             more(f) == [count |-> f.count + 1, at |-> clock]
  <2>1. t \in AllTickets
    BY <1>1, <1>14, Rest DEF AllFail, Ticket, Locals, PassOK
  <2>2. \A f \in Failure : more(f) \in Failure
    BY DEF LoopTypes, Failure
  <2>3. q.failures \in [AllTickets -> Failure] /\ failed \in [AllTickets -> Failure]
    BY <1>1 DEF Locals, LoopTypes
  <2>4. [q.failures EXCEPT ![t] = more(@)] \in [AllTickets -> Failure]
    BY <2>1, <2>2, <2>3
  <2>5. /\ failed' = [failed EXCEPT ![t] = more(@)]
        /\ loop' = [loop EXCEPT ![p].step = "failing", ![p].failures[t] = more(@)]
    BY <1>14 DEF AllFail
  <2>6. failed' \in [AllTickets -> Failure]
    BY <2>1, <2>2, <2>3, <2>5
  <2>7. \A u \in AllTickets : failed'[u].at <= clock
    BY <2>1, <2>3, <2>5 DEF LoopTypes
  <2>8. [q EXCEPT !.step = "failing", !.failures[t] = more(@)] \in Locals
    <3> HIDE DEF t, more
    <3> QED BY <1>1, <2>4 DEF Locals, LoopSteps
  <2>9. loop' \in [Loops -> Locals]
    BY <1>1, <2>5, <2>8
  <2> QED BY <1>2, <1>3, <1>14, <2>6, <2>7, <2>9 DEF AllFail, LoopTypes
<1>15. CASE FailureSaved(p)
  <2>1. q.failures \in [AllTickets -> Failure] /\ q.todo # <<>>
    BY <1>1, <1>15 DEF FailureSaved, Locals, PassOK
  <2> QED BY <1>5, <1>7, <1>15, <2>1 DEF FailureSaved, LoopTypes
<1>16. CASE SomeAnswer(p)
  BY <1>5, <1>7, <1>16 DEF SomeAnswer, LoopTypes, LoopSteps
<1>17. CASE Post(p)
  <2> DEFINE t == Ticket(p)
             done == [NextTicket(q) EXCEPT !.processed[t] = q.sig, !.dirty = TRUE]
  <2>1. t \in AllTickets /\ q.todo # <<>> /\ q.sig \in Signatures
    BY <1>1, <1>17, Rest DEF Post, Ticket, Locals, PassOK
  <2>2. NextTicket(q) \in Locals
    BY <1>5, <2>1
  <2>3. done \in Locals
    <3> HIDE DEF t
    <3>1. [NextTicket(q).processed EXCEPT ![t] = q.sig] \in Seen
      BY <2>1, <2>2 DEF Locals, Seen
    <3> QED BY <2>2, <3>1 DEF Locals
  <2>4. comments' \in [AllTickets -> [Signatures -> Nat]]
    BY <1>17, <2>1 DEF Post, LoopTypes
  <2>5. loop' = [loop EXCEPT ![p] = done] \/ loop' = [loop EXCEPT ![p] = NextTicket(q)]
    BY <1>17 DEF Post
  <2>6. UNCHANGED <<board, text, content, stateFile, failFile, clock, ahead, failed>> /\ faults' \in Nat
    BY <1>1, <1>17 DEF Post
  <2> HIDE DEF t, done
  <2> QED BY <1>7, <2>2, <2>3, <2>4, <2>5, <2>6 DEF LoopTypes
<1>18. CASE KillLoop(p)
  <2>1. /\ UNCHANGED <<boardVars, stateFile, failFile, clock, ahead, failed>> /\ faults' \in Nat
        /\ loop' = [loop EXCEPT ![p] = Off]
    BY <1>1, <1>18 DEF KillLoop
  <2> QED BY <1>5, <1>7, <2>1 DEF LoopTypes
<1> QED BY <1>8, <1>9, <1>10, <1>11, <1>12, <1>13, <1>14, <1>15, <1>16, <1>17, <1>18 DEF LoopMoved

-----------------------------------------------------------------------------
(***************************************************************************)
(* Passes.                                                                 *)
(***************************************************************************)

LEMMA NextTicketIs ==
  ASSUME NEW q \in Locals, q.todo # <<>>
  PROVE  LET r == NextTicket(q) IN
         /\ r.step = "ticket" /\ r.todo = Tail(q.todo)
         /\ r.reset = q.reset /\ r.processed = q.processed /\ r.dirty = q.dirty
         /\ r.failures = q.failures
BY DEF NextTicket, Locals

LEMMA DoneIs ==
  ASSUME NEW r \in Locals, NEW t, NEW v
  PROVE  LET d == [r EXCEPT !.processed[t] = v, !.dirty = TRUE] IN
         /\ d.step = r.step /\ d.todo = r.todo /\ d.reset = r.reset /\ d.dirty
         /\ d.processed = [r.processed EXCEPT ![t] = v]
BY DEF Locals

\* Both ends of a comment that was made.
LEMMA PostIs ==
  ASSUME LoopTypes, NEW p \in Loops, PassOK(loop[p]), Post(p)
  PROVE  LET q == loop[p]
             r == loop'[p]
             t == Head(q.todo) IN
         /\ q.todo # <<>> /\ q.step = "post" /\ t \in AllTickets /\ q.sig \in Signatures
         /\ r.step = "ticket" /\ r.todo = Tail(q.todo) /\ r.reset = q.reset
         /\ \/ r.processed = [q.processed EXCEPT ![t] = q.sig] /\ r.dirty /\ faults' = faults
            \/ r.processed = q.processed /\ r.dirty = q.dirty /\ faults' = faults + 1
         /\ comments' = [comments EXCEPT ![t][q.sig] = @ + 1]
<1> DEFINE q == loop[p]
           t == Head(q.todo)
           n == NextTicket(q)
<1>1. q \in Locals /\ loop \in [Loops -> Locals] /\ q.step = "post" /\ q.todo # <<>>
  BY DEF LoopTypes, Post, In, PassOK
<1>2. t \in AllTickets /\ q.sig \in Signatures
  BY <1>1, Rest DEF Locals
<1>3. n \in Locals
  BY <1>1, LocalUpdates
<1>4. n.step = "ticket" /\ n.todo = Tail(q.todo) /\ n.reset = q.reset /\ n.dirty = q.dirty
      /\ n.processed = q.processed
  BY <1>1, NextTicketIs
<1>5. /\ comments' = [comments EXCEPT ![t][q.sig] = @ + 1]
      /\ \/ loop'[p] = [n EXCEPT !.processed[t] = q.sig, !.dirty = TRUE] /\ faults' = faults
         \/ loop'[p] = n /\ faults' = faults + 1
  BY <1>1 DEF Post, Ticket, Fault
<1> HIDE DEF n, t
<1>6. CASE loop'[p] = [n EXCEPT !.processed[t] = q.sig, !.dirty = TRUE] /\ faults' = faults
  <2>1. /\ loop'[p].step = n.step /\ loop'[p].todo = n.todo /\ loop'[p].reset = n.reset
        /\ loop'[p].dirty /\ loop'[p].processed = [n.processed EXCEPT ![t] = q.sig]
    BY <1>3, <1>6, DoneIs
  <2> QED BY <1>1, <1>2, <1>4, <1>5, <1>6, <2>1 DEF t
<1>7. CASE loop'[p] = n /\ faults' = faults + 1
  BY <1>1, <1>2, <1>4, <1>5, <1>7 DEF t
<1> QED BY <1>5, <1>6, <1>7

LEMMA PassStep ==
  ASSUME LoopTypes, NEW p \in Loops, PassOK(loop[p]), LoopMoved(p)
  PROVE  PassOK(loop'[p])
<1> DEFINE q == loop[p]
<1>1. q \in Locals /\ loop \in [Loops -> Locals] /\ board \in Seq(AllTickets) /\ IsInjective(board)
  BY Constant DEF LoopTypes
<1>2. PassOK(Off)
  BY DEF PassOK, Off, IsInjective
<1>3. ASSUME q.todo # <<>> PROVE PassOK(NextTicket(q))
  <2>1. IsInjective(Tail(q.todo))
    BY <1>1, <1>3, Rest DEF PassOK, Locals
  <2> QED BY <1>1, <1>3, <2>1, NextTicketIs DEF PassOK
<1> USE DEF In
<1>4. ASSUME NEW once \in BOOLEAN, NEW reset \in BOOLEAN, StartLoop(p, once, reset)
      PROVE  PassOK(loop'[p])
  <2>1. loop'[p].todo = <<>> /\ loop'[p].step = "list" /\ ~loop'[p].dirty
    BY <1>1, <1>4 DEF StartLoop, Off
  <2> QED BY <2>1 DEF PassOK, IsInjective
<1>5. CASE ListTickets(p)
  <2>1. loop'[p] = Off \/ (loop'[p].todo = board /\ loop'[p].step = "ticket")
    BY <1>1, <1>5 DEF ListTickets, Locals
  <2> QED BY <1>1, <1>2, <2>1 DEF PassOK
<1>6. CASE SaveState(p)
  <2>1. loop'[p].todo = q.todo /\ loop'[p].step = "saving"
    BY <1>1, <1>6 DEF SaveState, Locals
  <2> QED BY <2>1 DEF PassOK
<1>7. CASE Saved(p)
  <2>1. loop'[p] = Off \/ (loop'[p].todo = q.todo /\ loop'[p].step = "list" /\ ~loop'[p].dirty)
    BY <1>1, <1>7 DEF Saved, Locals
  <2> QED BY <1>2, <2>1 DEF PassOK
<1>8. CASE PassOver(p) \/ Skip(p) \/ FailureSaved(p)
  <2>1. q.todo # <<>> /\ loop'[p] = NextTicket(q)
    BY <1>1, <1>8 DEF PassOver, Skip, FailureSaved, PassOK
  <2> QED BY <1>3, <2>1
<1>9. CASE CallModels(p)
  <2>1. /\ q.todo # <<>> /\ loop'[p].todo = q.todo /\ loop'[p].step = "call"
        /\ loop'[p].sig = signature(Ticket(p)) /\ loop'[p].reset = q.reset
        /\ loop'[p].processed = q.processed
    BY <1>1, <1>9 DEF CallModels, Locals
  <2>2. signature(Ticket(p)) # NoEntry
    <3>1. Ticket(p) \in AllTickets
      BY <1>1, <2>1, Rest DEF Ticket, Locals
    <3> QED BY <3>1, Constant DEF signature, LoopTypes
  <2>3. ~q.reset => q.processed[Ticket(p)] # signature(Ticket(p))
    BY <1>9, <2>2 DEF CallModels, Unchanged, SameContent
  <2> QED BY <2>1, <2>3 DEF PassOK, Ticket
<1>10. CASE AllFail(p)
  <2>1. loop'[p].todo = q.todo /\ loop'[p].step = "failing" /\ q.todo # <<>>
    BY <1>1, <1>10 DEF AllFail, Locals, PassOK
  <2> QED BY <2>1 DEF PassOK
<1>11. CASE SomeAnswer(p)
  <2>1. /\ loop'[p].todo = q.todo /\ loop'[p].step = "post" /\ q.step = "call"
        /\ loop'[p].reset = q.reset /\ loop'[p].processed = q.processed /\ loop'[p].sig = q.sig
    BY <1>1, <1>11 DEF SomeAnswer, Locals
  <2> QED BY <2>1 DEF PassOK
<1>12. CASE Post(p)
  <2>1. q.todo # <<>> /\ loop'[p].todo = NextTicket(q).todo /\ loop'[p].step = "ticket"
    BY <1>1, <1>12, PostIs, NextTicketIs
  <2> QED BY <1>3, <2>1 DEF PassOK
<1>13. CASE KillLoop(p)
  BY <1>1, <1>2, <1>13 DEF KillLoop
<1> QED BY <1>4, <1>5, <1>6, <1>7, <1>8, <1>9, <1>10, <1>11, <1>12, <1>13 DEF LoopMoved

-----------------------------------------------------------------------------
(***************************************************************************)
(* What is taken for reviewed.                                             *)
(***************************************************************************)

LEMMA CommentedStep ==
  ASSUME LoopTypes, LoopTypes', NEW p \in Loops, PassOK(loop[p]), Commented, LoopMoved(p),
         board' = board
  PROVE  Commented'
<1> DEFINE q == loop[p]
<1>1. q \in Locals /\ loop \in [Loops -> Locals] /\ Signatures' = Signatures
  BY DEF LoopTypes, Signatures
<1>2. \A r \in Loops \ {p} : loop'[r] = loop[r]
  BY OthersStay
<1>3. Unseen \in Seen /\ NoEntry \notin Signatures /\ Signatures \subseteq Nat
      /\ NoEntry \notin Seen /\ Torn \notin Seen
  BY Constant DEF LoopTypes
<1>4. \A t \in AllTickets : Unseen[t] \notin Signatures
  BY <1>3 DEF Unseen
\* Either file or process knows no more than before, and no comment goes.
<1>5. ASSUME \A t \in AllTickets, v \in Signatures : comments'[t][v] >= comments[t][v],
             \A t \in AllTickets, v \in Signatures :
               Read(stateFile, Unseen)'[t] = v =>
                 Read(stateFile, Unseen)[t] = v \/ \E r \in Loops : loop[r].processed[t] = v,
             \A t \in AllTickets, v \in Signatures :
               loop'[p].processed[t] = v =>
                 comments'[t][v] > 0 \/ Read(stateFile, Unseen)[t] = v \/ q.processed[t] = v
      PROVE  Commented'
  <2> SUFFICES ASSUME NEW t \in AllTickets, NEW v \in Signatures,
                      Read(stateFile, Unseen)'[t] = v \/ \E r \in Loops : loop'[r].processed[t] = v
               PROVE  comments'[t][v] > 0
    BY <1>1 DEF Commented
  <2>1. comments[t][v] \in Nat /\ comments'[t][v] \in Nat /\ comments'[t][v] >= comments[t][v]
    BY <1>1, <1>5 DEF LoopTypes
  <2>2. Read(stateFile, Unseen)[t] = v \/ (\E r \in Loops : loop[r].processed[t] = v) =>
          comments[t][v] > 0
    BY DEF Commented
  <2>3. CASE Read(stateFile, Unseen)'[t] = v
    BY <1>5, <2>1, <2>2, <2>3
  <2>4. ASSUME NEW r \in Loops, loop'[r].processed[t] = v PROVE comments'[t][v] > 0
    BY <1>2, <1>5, <2>1, <2>2, <2>4
  <2> QED BY <2>3, <2>4
<1>6. \A t \in AllTickets, v \in Signatures : comments[t][v] >= comments[t][v]
  <2>1. \A t \in AllTickets, v \in Signatures : comments[t][v] \in Nat
    BY DEF LoopTypes
  <2> QED BY <2>1
\* A file that is removed or torn says nothing.
<1>7. ASSUME stateFile' \in {NoEntry, Torn, stateFile} PROVE
        \A t \in AllTickets, v \in Signatures :
          Read(stateFile, Unseen)'[t] = v => Read(stateFile, Unseen)[t] = v
  <2>1. CASE stateFile' \in {NoEntry, Torn}
    BY <1>4, <2>1 DEF Read
  <2>2. CASE stateFile' = stateFile
    BY <2>2 DEF Read
  <2>3. stateFile' \in {NoEntry, Torn} \/ stateFile' = stateFile
    BY <1>7
  <2> QED BY <2>1, <2>2, <2>3
<1>8. \A t \in AllTickets, v \in Signatures : Off.processed[t] # v
  BY <1>4 DEF Off
<1> USE DEF In, boardVars
<1>9. ASSUME NEW once \in BOOLEAN, NEW reset \in BOOLEAN, StartLoop(p, once, reset)
      PROVE  Commented'
  <2>1. stateFile' \in {NoEntry, stateFile} /\ comments' = comments
    BY <1>9 DEF StartLoop
  <2>2. loop'[p].processed \in {Unseen, Read(stateFile, Unseen)}
    BY <1>1, <1>9 DEF StartLoop, Off
  <2> QED BY <1>4, <1>5, <1>6, <1>7, <2>1, <2>2
<1>10. CASE ListTickets(p) \/ KillLoop(p)
  <2>1. stateFile' = stateFile /\ comments' = comments
        /\ (loop'[p] = Off \/ loop'[p].processed = q.processed)
    BY <1>1, <1>10 DEF ListTickets, KillLoop, Locals
  <2> QED BY <1>5, <1>6, <1>7, <1>8, <2>1
<1>11. CASE SaveState(p)
  <2>1. stateFile' = Torn /\ comments' = comments /\ loop'[p].processed = q.processed
    BY <1>1, <1>11 DEF SaveState, Locals
  <2> QED BY <1>5, <1>6, <1>7, <2>1
<1>12. CASE Saved(p)
  <2>1. /\ stateFile' = q.processed /\ comments' = comments
        /\ loop'[p] = Off \/ loop'[p].processed = q.processed
    BY <1>1, <1>12 DEF Saved, Locals
  <2>2. Read(stateFile, Unseen)' = q.processed
    BY <1>1, <1>3, <2>1 DEF Read, Locals
  <2> QED BY <1>5, <1>6, <1>8, <2>1, <2>2
<1>13. CASE PassOver(p) \/ Skip(p) \/ FailureSaved(p)
  <2>1. q.todo # <<>> /\ loop'[p] = NextTicket(q) /\ stateFile' = stateFile /\ comments' = comments
    BY <1>1, <1>13 DEF PassOver, Skip, FailureSaved, PassOK
  <2> QED BY <1>1, <1>5, <1>6, <1>7, <2>1, NextTicketIs
<1>14. CASE CallModels(p) \/ AllFail(p) \/ SomeAnswer(p)
  <2>1. stateFile' = stateFile /\ comments' = comments /\ loop'[p].processed = q.processed
    BY <1>1, <1>14 DEF CallModels, AllFail, SomeAnswer, Locals
  <2> QED BY <1>5, <1>6, <1>7, <2>1
<1>15. CASE Post(p)
  <2> DEFINE t == Head(q.todo)
  <2>1. t \in AllTickets /\ q.sig \in Signatures
    BY <1>15, PostIs
  <2>2. comments' = [comments EXCEPT ![t][q.sig] = @ + 1] /\ stateFile' = stateFile
    BY <1>15, PostIs DEF Post
  <2>3. comments'[t][q.sig] > 0
    BY <1>1, <2>1, <2>2 DEF LoopTypes
  <2>4. \A u \in AllTickets, v \in Signatures : comments'[u][v] >= comments[u][v]
    BY <1>3, <2>1, <2>2 DEF LoopTypes
  <2>5. loop'[p].processed \in {q.processed, [q.processed EXCEPT ![t] = q.sig]}
    BY <1>15, PostIs
  <2>6. \A u \in AllTickets, v \in Signatures :
          loop'[p].processed[u] = v => comments'[u][v] > 0 \/ q.processed[u] = v
    BY <1>1, <2>1, <2>3, <2>5 DEF Locals, Seen
  <2> QED BY <1>5, <1>7, <2>2, <2>4, <2>6
<1> QED BY <1>9, <1>10, <1>11, <1>12, <1>13, <1>14, <1>15 DEF LoopMoved

-----------------------------------------------------------------------------
(***************************************************************************)
(* Comments.                                                               *)
(***************************************************************************)

\* Every move but the first and those that comment or save.
QuietMove(p) ==
  \/ ListTickets(p) \/ PassOver(p) \/ Skip(p) \/ CallModels(p) \/ AllFail(p)
  \/ FailureSaved(p) \/ SomeAnswer(p) \/ KillLoop(p)

Stops(q, r) ==
  /\ r = Off
  /\ faults' = faults => ~q.dirty /\ q.step # "saving"
GoesOn(q, r) ==
  /\ q.step \notin {"off", "saving"} /\ r.step \notin {"off", "list"}
  /\ r.reset = q.reset /\ r.processed = q.processed /\ r.dirty = q.dirty /\ faults' = faults
  /\ \/ q.step = "list" /\ r.step = "ticket"
     \/ r.todo = q.todo
     \/ q.todo # <<>> /\ r.todo = Tail(q.todo) /\ r.step = "ticket"

LEMMA QuietIs ==
  ASSUME LoopTypes, NEW p \in Loops, PassOK(loop[p]), QuietMove(p)
  PROVE  /\ UNCHANGED <<board, text, comments, stateFile>> /\ faults' \in {faults, faults + 1}
         /\ Stops(loop[p], loop'[p]) \/ GoesOn(loop[p], loop'[p])
<1> DEFINE q == loop[p]
           r == loop'[p]
<1>1. q \in Locals /\ loop \in [Loops -> Locals]
  BY DEF LoopTypes
<1> USE DEF In, boardVars, Fault
<1>2. CASE ListTickets(p)
  <2>1. q.step = "list" /\ ~q.dirty
    BY <1>2 DEF ListTickets, PassOK
  <2>2. r = Off \/ r = [q EXCEPT !.step = "ticket", !.todo = board]
    BY <1>1, <1>2 DEF ListTickets
  <2> QED BY <1>1, <1>2, <2>1, <2>2 DEF ListTickets, Locals, Stops, GoesOn
<1>3. CASE PassOver(p) \/ Skip(p) \/ FailureSaved(p)
  <2>1. /\ q.todo # <<>> /\ r = NextTicket(q) /\ q.step \in {"ticket", "call", "post", "failing"}
        /\ UNCHANGED <<board, text, comments, stateFile, faults>>
    BY <1>1, <1>3 DEF PassOver, Skip, FailureSaved, PassOK
  <2> QED BY <1>1, <2>1, NextTicketIs DEF GoesOn
<1>4. CASE CallModels(p) \/ AllFail(p) \/ SomeAnswer(p)
  <2>1. /\ q.step \in {"ticket", "call"} /\ UNCHANGED <<board, text, comments, stateFile, faults>>
        /\ r.step \in {"call", "failing", "post"} /\ r.todo = q.todo /\ r.reset = q.reset
        /\ r.processed = q.processed /\ r.dirty = q.dirty
    BY <1>1, <1>4 DEF CallModels, AllFail, SomeAnswer, Locals
  <2> QED BY <2>1 DEF GoesOn
<1>5. CASE KillLoop(p)
  BY <1>1, <1>5 DEF KillLoop, Stops, LoopTypes
<1> QED BY <1>2, <1>3, <1>4, <1>5 DEF QuietMove

LEMMA SavedIs ==
  ASSUME LoopTypes, NEW p \in Loops, Saved(p)
  PROVE  LET q == loop[p]
             r == loop'[p] IN
         /\ UNCHANGED <<board, text, comments>> /\ q.step = "saving"
         /\ stateFile' = q.processed /\ Read(stateFile, Unseen)' = q.processed
         /\ \/ r = Off /\ faults' = faults
            \/ /\ r.step = "list" /\ r.processed = q.processed /\ r.reset = q.reset /\ ~r.dirty
               /\ r.todo = q.todo /\ faults' = IF q.reset THEN faults + 1 ELSE faults
<1> DEFINE q == loop[p]
<1>1. q \in Locals /\ loop \in [Loops -> Locals] /\ Torn \notin Seen /\ NoEntry \notin Seen
  BY Constant DEF LoopTypes
<1>2. stateFile' = q.processed /\ q.processed \in Seen
  BY <1>1 DEF Saved, Locals
<1>3. Read(stateFile, Unseen)' = q.processed
  BY <1>1, <1>2 DEF Read
<1> QED BY <1>1, <1>2, <1>3 DEF Saved, Locals, boardVars, Fault, In

LEMMA StartIs ==
  ASSUME LoopTypes, NEW p \in Loops, NEW once \in BOOLEAN, NEW reset \in BOOLEAN,
         StartLoop(p, once, reset)
  PROVE  LET r == loop'[p] IN
         /\ UNCHANGED <<board, text, comments, failFile, early, failed>>
         /\ loop[p].step = "off" /\ r.step = "list" /\ ~r.dirty /\ r.todo = <<>>
         /\ \/ /\ ~r.reset /\ stateFile' = stateFile /\ r.processed = Read(stateFile, Unseen)
               /\ faults' = faults /\ Running(p) = {}
            \/ /\ faults' = faults + 1 /\ stateFile' \in {NoEntry, stateFile}
               /\ r.processed \in {Unseen, Read(stateFile, Unseen)}
<1>1. loop \in [Loops -> Locals]
  BY DEF LoopTypes
<1>2. loop[p].step = "off"
  BY DEF StartLoop, FreeLoop, In
<1> QED BY <1>1, <1>2 DEF StartLoop, Off, boardVars, Fault

\* How the reviewers of a content change with one process.
LEMMA Counts ==
  ASSUME LoopTypes, LoopTypes', NEW p \in Loops, \A r \in Loops \ {p} : loop'[r] = loop[r],
         NEW t \in AllTickets, NEW v
  PROVE  LET before == Cardinality(Reviewers(t, v))
             after == Cardinality(Reviewers(t, v)')
             may == May(loop[p], t, v)
             mayStill == May(loop'[p], t, v) IN
         /\ before \in Nat /\ after \in Nat /\ after <= before + 1
         /\ may => before >= 1
         /\ (mayStill => may) => after <= before
         /\ may /\ ~mayStill => after + 1 <= before
<1> DEFINE R == Reviewers(t, v)
           S == {r \in Loops : May(loop'[r], t, v)}
           T == R \ {p}
<1>1. Reviewers(t, v)' = S
  BY DEF Reviewers, May, Past, Repeats
<1>2. IsFiniteSet(R) /\ IsFiniteSet(S) /\ IsFiniteSet(T)
  BY KanbanLoopAssumption, FS_Subset DEF Reviewers
<1>3. Cardinality(R) \in Nat /\ Cardinality(S) \in Nat /\ Cardinality(T) \in Nat
  BY <1>2, FS_CardinalityType
<1>4. T = S \ {p}
  BY DEF Reviewers
<1>5. Cardinality(R) = IF p \in R THEN Cardinality(T) + 1 ELSE Cardinality(T)
  <2>1. CASE p \in R
    BY <1>2, <1>3, <2>1, FS_RemoveElement
  <2>2. CASE p \notin R
    <3>1. R = T
      BY <2>2
    <3> QED BY <2>2, <3>1
  <2> QED BY <2>1, <2>2
<1>6. Cardinality(S) = IF p \in S THEN Cardinality(T) + 1 ELSE Cardinality(T)
  <2>1. CASE p \in S
    BY <1>2, <1>3, <1>4, <2>1, FS_RemoveElement
  <2>2. CASE p \notin S
    <3>1. S = T
      BY <1>4, <2>2
    <3> QED BY <2>2, <3>1
  <2> QED BY <2>1, <2>2
<1>7. (p \in R <=> May(loop[p], t, v)) /\ (p \in S <=> May(loop'[p], t, v))
  BY DEF Reviewers
<1> HIDE DEF R, S, T
<1> QED BY <1>1, <1>3, <1>5, <1>6, <1>7 DEF R

\* A process that neither starts, comments nor saves repeats nothing, and
\* forgets a comment only by a fault.
LEMMA QuietPays ==
  ASSUME LoopTypes, LoopTypes', NEW p \in Loops, \A r \in Loops \ {p} : loop'[r] = loop[r],
         NEW t \in AllTickets, NEW v \in Signatures, PaidFor(t, v), board' = board,
         comments'[t][v] = comments[t][v], stateFile' = stateFile, faults' \in {faults, faults + 1},
         May(loop'[p], t, v) => May(loop[p], t, v),
         faults' = faults /\ Keeps(loop[p], t, v) => Keeps(loop'[p], t, v)
  PROVE  PaidFor(t, v)'
<1>1. faults \in Nat /\ comments[t][v] \in Nat
  BY DEF LoopTypes
<1>2. /\ Cardinality(Reviewers(t, v)) \in Nat /\ Cardinality(Reviewers(t, v)') \in Nat
      /\ Cardinality(Reviewers(t, v)') <= Cardinality(Reviewers(t, v))
  BY Counts
<1>3. (comments[t][v] + Cardinality(Reviewers(t, v)) <= 1 + faults)'
  BY <1>1, <1>2 DEF PaidFor
<1>4. Read(stateFile, Unseen)' = Read(stateFile, Unseen)
  BY DEF Read
<1>5. ASSUME ~Past(Read(stateFile, Unseen)[t], v), \A r \in Loops : ~Keeps(loop'[r], t, v)
      PROVE  comments[t][v] <= faults'
  <2>1. CASE faults' = faults + 1
    BY <1>1, <1>2, <2>1 DEF PaidFor
  <2>2. CASE faults' = faults
    <3>1. \A r \in Loops : ~Keeps(loop[r], t, v)
      BY <1>5, <2>2
    <3> QED BY <1>5, <2>2, <3>1 DEF PaidFor
  <2> QED BY <2>1, <2>2
<1>6. (~Past(Read(stateFile, Unseen)[t], v) /\ (\A r \in Loops : ~Keeps(loop[r], t, v)))' =>
        comments[t][v] <= faults'
  BY <1>4, <1>5 DEF Past, Keeps
<1> QED BY <1>3, <1>6 DEF PaidFor

LEMMA PaidForStep ==
  ASSUME LoopTypes, LoopTypes', NEW p \in Loops, PassOK(loop[p]), Behind(loop[p]), LoopMoved(p),
         board' = board, NEW t \in AllTickets, NEW v \in Signatures, PaidFor(t, v)
  PROVE  PaidFor(t, v)'
<1> DEFINE q == loop[p]
           r == loop'[p]
           before == Cardinality(Reviewers(t, v))
           after == Cardinality(Reviewers(t, v)')
<1>1. /\ q \in Locals /\ r \in Locals /\ faults \in Nat /\ comments[t][v] \in Nat
      /\ Signatures \subseteq Nat /\ NoEntry \notin Signatures /\ v \in Nat
  <2>1. board \in Boards /\ loop \in [Loops -> Locals] /\ loop' \in [Loops -> Locals']
    BY DEF LoopTypes
  <2>2. Signatures' = Signatures
    BY DEF Signatures
  <2>3. Locals' = Locals
    BY <2>2 DEF Locals, Seen
  <2>4. faults \in Nat /\ comments[t][v] \in Nat
    BY DEF LoopTypes
  <2> QED BY <2>1, <2>3, <2>4, Constant
<1>2. \A s \in Loops \ {p} : loop'[s] = loop[s]
  BY OthersStay
<1>3. /\ before \in Nat /\ after \in Nat /\ after <= before + 1
      /\ May(q, t, v) => before >= 1
      /\ (May(r, t, v) => May(q, t, v)) => after <= before
      /\ May(q, t, v) /\ ~May(r, t, v) => after + 1 <= before
  BY <1>2, Counts
<1>4. ~May(Off, t, v) /\ ~Keeps(Off, t, v)
  BY DEF May, Keeps, Off
<1>5. comments[t][v] + before <= 1 + faults
  BY DEF PaidFor
<1>6. ASSUME comments'[t][v] + after <= 1 + faults',
             comments'[t][v] <= faults' \/ Past(Read(stateFile, Unseen)'[t], v) \/
               \E s \in Loops : Keeps(loop'[s], t, v)
      PROVE  PaidFor(t, v)'
  BY <1>6 DEF PaidFor, Past, Keeps
<1> HIDE DEF before, after
<1>7. CASE QuietMove(p)
  <2>1. /\ UNCHANGED <<board, text, comments, stateFile>> /\ faults' \in {faults, faults + 1}
        /\ Stops(q, r) \/ GoesOn(q, r)
    BY <1>7, QuietIs
  <2>2. CASE Stops(q, r)
    <3>1. faults' = faults => ~Keeps(q, t, v)
      BY <2>2 DEF Stops, Keeps
    <3>2. ~May(r, t, v)
      BY <1>4, <2>2 DEF Stops
    <3> QED BY <1>2, <2>1, <3>1, <3>2, QuietPays
  <2>3. CASE GoesOn(q, r)
    <3>1. faults' = faults /\ (Keeps(q, t, v) => Keeps(r, t, v))
      BY <2>3 DEF GoesOn, Keeps
    <3>2. Repeats(r, t) => Repeats(q, t)
      <4>1. CASE q.step = "list" /\ r.step = "ticket"
        BY <2>3, <4>1 DEF GoesOn, Repeats
      <4>2. CASE r.todo = q.todo
        BY <2>3, <4>2 DEF GoesOn, Repeats
      <4>3. CASE q.todo # <<>> /\ r.todo = Tail(q.todo)
        <5>1. \A i \in DOMAIN Tail(q.todo) : i + 1 \in DOMAIN q.todo /\ Tail(q.todo)[i] = q.todo[i + 1]
          BY <1>1, <4>3, Rest DEF Locals
        <5> QED BY <2>3, <4>3, <5>1 DEF GoesOn, Repeats
      <4> QED BY <2>3, <4>1, <4>2, <4>3 DEF GoesOn
    <3>3. May(r, t, v) => May(q, t, v)
      BY <2>3, <3>2 DEF GoesOn, May
    <3> QED BY <1>2, <2>1, <3>1, <3>3, QuietPays
  <2> QED BY <2>1, <2>2, <2>3
\* A start without a fault is alone, and knows what the file says.
<1>8. ASSUME NEW once \in BOOLEAN, NEW reset \in BOOLEAN, StartLoop(p, once, reset)
      PROVE  PaidFor(t, v)'
  <2>1. /\ comments' = comments /\ q.step = "off" /\ r.step = "list" /\ ~r.dirty /\ r.todo = <<>>
        /\ \/ /\ ~r.reset /\ stateFile' = stateFile /\ r.processed = Read(stateFile, Unseen)
              /\ faults' = faults /\ Running(p) = {}
           \/ faults' = faults + 1
    BY <1>8, StartIs
  <2>2. CASE faults' = faults + 1
    BY <1>1, <1>3, <1>5, <1>6, <2>1, <2>2
  <2>3. CASE /\ ~r.reset /\ stateFile' = stateFile /\ r.processed = Read(stateFile, Unseen)
             /\ faults' = faults /\ Running(p) = {}
    <3>1. \A s \in Loops : loop[s].step = "off"
      BY <2>1, <2>3 DEF Running, In
    <3>2. \A s \in Loops : ~Keeps(loop[s], t, v) /\ ~May(loop[s], t, v)
      BY <3>1 DEF Keeps, May
    <3>3. Past(Read(stateFile, Unseen)[t], v) \/ comments[t][v] <= faults
      BY <3>2 DEF PaidFor
    <3>4. before = 0
      <4>1. Reviewers(t, v) = {}
        BY <3>2 DEF Reviewers
      <4> QED BY <4>1, FS_EmptySet DEF before
    <3>5. May(r, t, v) => ~Past(Read(stateFile, Unseen)[t], v)
      BY <2>3 DEF May, Repeats
    <3>6. comments[t][v] + after <= 1 + faults
      BY <1>1, <1>3, <1>5, <3>3, <3>4, <3>5
    <3>7. Read(stateFile, Unseen)' = Read(stateFile, Unseen)
      BY <2>3 DEF Read
    <3> QED BY <1>6, <2>1, <2>3, <3>3, <3>6, <3>7
  <2> QED BY <2>1, <2>2, <2>3
\* Who saves has reviewed what he does not know to be, or may still do it.
<1>9. ASSUME q.step = "saving" \/ (q.step = "ticket" /\ SaveState(p)), ~Past(q.processed[t], v)
      PROVE  comments[t][v] <= faults
  BY <1>1, <1>3, <1>5, <1>9 DEF May
<1>10. CASE SaveState(p)
  <2>1. /\ q.step = "ticket" /\ r.step = "saving" /\ r.processed = q.processed /\ r.todo = q.todo
        /\ r.reset = q.reset /\ comments' = comments /\ faults' = faults
    BY <1>1, <1>10 DEF SaveState, In, boardVars, LoopTypes, Locals
  <2>2. May(r, t, v) => May(q, t, v)
    BY <2>1 DEF May, Repeats
  <2>3. Past(q.processed[t], v) => Keeps(r, t, v)
    BY <2>1 DEF Keeps
  <2> QED BY <1>1, <1>3, <1>5, <1>6, <1>9, <1>10, <2>1, <2>2, <2>3
<1>11. CASE Saved(p)
  <2>1. /\ comments' = comments /\ q.step = "saving" /\ Read(stateFile, Unseen)' = q.processed
        /\ \/ r = Off /\ faults' = faults
           \/ /\ r.step = "list" /\ r.processed = q.processed /\ r.reset = q.reset
              /\ faults' = IF q.reset THEN faults + 1 ELSE faults
    BY <1>11, SavedIs
  <2>2. \/ q.reset /\ faults' = faults + 1
        \/ faults' = faults /\ (May(r, t, v) => May(q, t, v))
    BY <1>4, <2>1 DEF May, Repeats
  <2>3. comments[t][v] + after <= 1 + faults'
    BY <1>1, <1>3, <1>5, <2>2
  <2>4. Past(q.processed[t], v) \/ comments[t][v] <= faults'
    BY <1>1, <1>9, <2>1, <2>2
  <2> QED BY <1>6, <2>1, <2>3, <2>4
<1>12. CASE Post(p)
  <2> DEFINE u == Head(q.todo)
  <2>1. /\ q.todo # <<>> /\ q.step = "post" /\ u \in AllTickets /\ q.sig \in Signatures
        /\ r.step = "ticket" /\ r.todo = Tail(q.todo) /\ r.reset = q.reset
        /\ \/ r.processed = [q.processed EXCEPT ![u] = q.sig] /\ r.dirty /\ faults' = faults
           \/ r.processed = q.processed /\ r.dirty = q.dirty /\ faults' = faults + 1
        /\ comments' = [comments EXCEPT ![u][q.sig] = @ + 1]
    BY <1>12, PostIs
  <2>2. stateFile' = stateFile
    BY <1>12 DEF Post
  <2>3. /\ \A i \in DOMAIN r.todo : i + 1 \in DOMAIN q.todo /\ r.todo[i] = q.todo[i + 1]
        /\ \A i \in DOMAIN r.todo : r.todo[i] # u
        /\ 1 \in DOMAIN q.todo /\ q.todo[1] = u
    <3>1. q.todo \in Seq(AllTickets) /\ IsInjective(q.todo)
      BY <1>1 DEF Locals, PassOK
    <3> QED BY <2>1, <3>1, Rest
  <2>4. (Repeats(r, t) => Repeats(q, t)) /\ ~Repeats(r, u) /\ (q.reset => Repeats(q, u))
    BY <2>1, <2>3 DEF Repeats
  \* It had not seen this content, and none later.
  <2>5. q.processed[u] # NoEntry => q.processed[u] <= q.sig
    BY <2>1 DEF Behind
  <2>6. q.processed \in [AllTickets -> Signatures \cup {NoEntry}]
    BY <1>1 DEF Locals, Seen
  <2>7. May(q, u, q.sig)
    <3>1. CASE q.reset
      BY <2>1, <2>4, <3>1 DEF May
    <3>2. CASE ~q.reset
      <4>1. q.processed[u] # q.sig
        BY <2>1, <3>2 DEF PassOK
      <4>2. ~Past(q.processed[u], q.sig)
        BY <1>1, <2>1, <2>5, <2>6, <4>1 DEF Past
      <4> QED BY <2>1, <4>2 DEF May
    <3> QED BY <3>1, <3>2
  <2>8. Past(q.processed[t], v) => Past(r.processed[t], v)
    BY <1>1, <2>1, <2>5, <2>6 DEF Past
  <2>9. (May(r, t, v) => May(q, t, v))
    BY <2>1, <2>4, <2>8 DEF May
  <2>10. CASE t = u /\ v = q.sig
    <3>1. comments'[t][v] = comments[t][v] + 1
      BY <2>1, <2>10 DEF LoopTypes
    <3>2. before >= 1
      BY <1>3, <2>7, <2>10
    <3>3. CASE faults' = faults + 1
      BY <1>1, <1>3, <1>5, <1>6, <2>9, <3>1, <3>2, <3>3
    <3>4. CASE r.processed = [q.processed EXCEPT ![u] = q.sig] /\ r.dirty /\ faults' = faults
      <4>1. Past(r.processed[t], v)
        BY <1>1, <2>6, <2>10, <3>4 DEF Past
      <4>2. ~May(r, t, v) /\ Keeps(r, t, v)
        BY <2>1, <2>4, <2>10, <3>4, <4>1 DEF May, Keeps
      <4> QED BY <1>1, <1>3, <1>5, <1>6, <2>7, <2>10, <3>1, <3>4, <4>2
    <3> QED BY <2>1, <3>3, <3>4
  <2>11. CASE ~(t = u /\ v = q.sig)
    <3>1. comments'[t][v] = comments[t][v]
      BY <2>1, <2>11 DEF LoopTypes
    <3>2. Keeps(q, t, v) => Keeps(r, t, v)
      BY <2>1, <2>8 DEF Keeps
    <3>3. faults' \in {faults, faults + 1}
      BY <2>1
    <3> QED BY <1>2, <2>2, <2>9, <3>1, <3>2, <3>3, QuietPays
  <2> QED BY <2>10, <2>11
<1> QED BY <1>7, <1>8, <1>10, <1>11, <1>12 DEF LoopMoved, QuietMove

-----------------------------------------------------------------------------
(***************************************************************************)
(* Contents.                                                               *)
(***************************************************************************)

LEMMA BehindStep ==
  ASSUME LoopTypes, LoopTypes', NEW p \in Loops, PassOK(loop[p]), LoopMoved(p), board' = board,
         Seeing(Read(stateFile, Unseen)), \A r \in Loops : Behind(loop[r])
  PROVE  /\ Seeing(Read(stateFile, Unseen))' /\ \A r \in Loops : Behind(loop[r])'
<1> DEFINE q == loop[p]
           r == loop'[p]
<1>1. /\ q \in Locals /\ loop \in [Loops -> Locals] /\ board \in Boards /\ Signatures \subseteq Nat
      /\ text \in [AllTickets -> Signatures] /\ NoEntry \notin Signatures
  BY Constant DEF LoopTypes
<1>2. \A s \in Loops \ {p} : loop'[s] = loop[s]
  BY OthersStay
<1>3. Seeing(Unseen) /\ Seeing(q.processed) /\ Seeing(Off.processed)
  BY <1>1 DEF Seeing, Unseen, Behind, Off
<1>4. text' = text
  BY DEF LoopMoved, boardVars, StartLoop, ListTickets, SaveState, Saved, PassOver, Skip,
         CallModels, AllFail, FailureSaved, SomeAnswer, Post, KillLoop
<1>5. ASSUME Seeing(Read(stateFile, Unseen)'), Behind(r)
      PROVE  /\ Seeing(Read(stateFile, Unseen))' /\ \A s \in Loops : Behind(loop[s])'
  <2>1. \A s \in Loops : Behind(loop'[s])
    BY <1>2, <1>5
  <2> QED BY <1>4, <1>5, <2>1 DEF Seeing, Behind
<1>6. stateFile' \in {NoEntry, Torn, stateFile} => Seeing(Read(stateFile, Unseen)')
  BY <1>3 DEF Read
<1>7. Behind(Off)
  BY <1>3 DEF Behind, Off
<1>8. Seeing(r.processed) /\ r.step \notin {"call", "post"} => Behind(r)
  BY DEF Behind
<1> USE DEF In
<1>9. ASSUME NEW once \in BOOLEAN, NEW reset \in BOOLEAN, StartLoop(p, once, reset)
      PROVE  Seeing(Read(stateFile, Unseen)') /\ Behind(r)
  <2>1. /\ r.step = "list" /\ stateFile' \in {NoEntry, stateFile}
        /\ r.processed \in {Unseen, Read(stateFile, Unseen)}
    BY <1>9, StartIs
  <2> QED BY <1>3, <1>6, <1>8, <2>1
<1>10. CASE CallModels(p)
  <2>1. /\ r.processed = q.processed /\ r.todo = q.todo /\ q.todo # <<>> /\ stateFile' = stateFile
        /\ r.sig = text[Head(q.todo)]
    BY <1>1, <1>10 DEF CallModels, Locals, signature, Ticket
  <2>2. Head(q.todo) \in AllTickets
    BY <1>1, <2>1, Rest DEF Locals
  <2>3. text[Head(q.todo)] \in Nat
    BY <1>1, <2>2
  <2>4. Behind(r)
    BY <1>3, <2>1, <2>2, <2>3 DEF Behind, Seeing
  <2> QED BY <1>5, <1>6, <2>1, <2>4
<1>11. CASE SomeAnswer(p)
  <2>1. /\ r.processed = q.processed /\ r.todo = q.todo /\ r.sig = q.sig /\ q.step = "call"
        /\ stateFile' = stateFile
    BY <1>1, <1>11 DEF SomeAnswer, Locals
  <2>2. Behind(r)
    BY <2>1 DEF Behind
  <2> QED BY <1>5, <1>6, <2>1, <2>2
<1>12. CASE QuietMove(p) /\ ~CallModels(p) /\ ~SomeAnswer(p)
  <2>1. stateFile' = stateFile /\ (r = Off \/ r.processed = q.processed)
    BY <1>12, QuietIs DEF Stops, GoesOn
  <2>2. r.step \notin {"call", "post"}
    <3>1. ASSUME q.todo # <<>> PROVE NextTicket(q).step = "ticket"
      BY <1>1, <3>1, NextTicketIs
    <3> QED BY <1>1, <1>12, <3>1 DEF QuietMove, ListTickets, PassOver, Skip, AllFail,
                                     FailureSaved, KillLoop, Locals, Off, PassOK
  <2> QED BY <1>3, <1>5, <1>6, <1>8, <2>1, <2>2
<1>13. CASE SaveState(p)
  <2>1. r.step = "saving" /\ r.processed = q.processed /\ stateFile' = Torn
    BY <1>1, <1>13 DEF SaveState, Locals
  <2> QED BY <1>3, <1>5, <1>6, <1>8, <2>1
<1>14. CASE Saved(p)
  <2>1. /\ Read(stateFile, Unseen)' = q.processed
        /\ r = Off \/ (r.step = "list" /\ r.processed = q.processed)
    BY <1>14, SavedIs
  <2> QED BY <1>3, <1>5, <1>7, <1>8, <2>1
<1>15. CASE Post(p)
  <2> DEFINE t == Head(q.todo)
  <2>1. /\ r.step = "ticket" /\ t \in AllTickets /\ q.step = "post"
        /\ r.processed \in {q.processed, [q.processed EXCEPT ![t] = q.sig]}
    BY <1>15, PostIs
  <2>2. q.sig <= text[t]
    BY <2>1 DEF Behind
  <2>3. Seeing(r.processed)
    BY <1>1, <1>3, <2>1, <2>2 DEF Seeing, Locals, Seen
  <2>4. stateFile' = stateFile
    BY <1>15 DEF Post
  <2> QED BY <1>5, <1>6, <1>8, <2>1, <2>3, <2>4
<1> QED BY <1>5, <1>9, <1>10, <1>11, <1>12, <1>13, <1>14, <1>15 DEF LoopMoved, QuietMove

-----------------------------------------------------------------------------
(***************************************************************************)
(* Waits.                                                                  *)
(***************************************************************************)

LEMMA BackoffType ==
  ASSUME NEW count \in Nat
  PROVE  Backoff(count) \in Nat
<1>1. Schedule \in Seq(Nat) /\ Len(Schedule) \in Nat /\ Len(Schedule) > 0
  BY KanbanLoopAssumption
<1> QED BY <1>1 DEF Backoff, Last

LEMMA PacedStep ==
  ASSUME LoopTypes, LoopTypes', NEW p \in Loops, PassOK(loop[p]), LoopMoved(p), board' = board, Paced
  PROVE  Paced'
<1> DEFINE q == loop[p]
           r == loop'[p]
           known == Read(failFile, NoFailures)
<1>1. /\ q \in Locals /\ loop \in [Loops -> Locals] /\ faults \in Nat /\ faults' \in Nat
      /\ NoEntry \notin [AllTickets -> Failure] /\ Torn \notin [AllTickets -> Failure]
  BY KanbanLoopAssumption DEF LoopTypes, Failure
<1>2. \A s \in Loops \ {p} : loop'[s] = loop[s]
  BY OthersStay
<1>3. early = {}
  BY DEF Paced
\* Without a fault so far, what goes on is alone.
<1>4. ASSUME faults = 0, q.step # "off"
      PROVE  ~q.reset /\ \A s \in Loops \ {p} : loop[s].step = "off"
  BY <1>4 DEF Paced, In
<1>5. ASSUME q.step # "off", faults' >= faults, early' = {}, 
             faults' = 0 =>
               /\ ~r.reset
               /\ r.step \in {"call", "failing"} => r.failures = failed'
               /\ r.step # "failing" => Read(failFile, NoFailures)' = failed'
      PROVE  Paced'
  <2>1. ASSUME faults' = 0
        PROVE  /\ \A s \in Loops : ~loop'[s].reset
               /\ \A s, u \in Loops : loop'[s].step # "off" /\ loop'[u].step # "off" => s = u
               /\ \A s \in Loops : loop'[s].step \in {"call", "failing"} =>
                                     loop'[s].failures = failed'
               /\ (\A s \in Loops : loop'[s].step # "failing") =>
                    Read(failFile, NoFailures)' = failed'
    <3>1. faults = 0
      BY <1>1, <1>5, <2>1
    <3>2. \A s \in Loops \ {p} : ~loop[s].reset /\ loop[s].step = "off"
      BY <1>4, <1>5, <3>1 DEF Paced
    <3> QED BY <1>2, <1>5, <2>1, <3>2
  <2> QED BY <1>5, <2>1 DEF Paced, In
<1> USE DEF In
<1>6. ASSUME NEW once \in BOOLEAN, NEW reset \in BOOLEAN, StartLoop(p, once, reset) PROVE Paced'
  <2>1. /\ UNCHANGED <<failFile, early, failed>> /\ q.step = "off" /\ r.step = "list"
        /\ faults' = 0 => faults = 0 /\ ~r.reset /\ Running(p) = {}
    BY <1>1, <1>6, StartIs
  <2>2. ASSUME faults' = 0
        PROVE  /\ \A s \in Loops : ~loop'[s].reset
               /\ \A s, u \in Loops : loop'[s].step # "off" /\ loop'[u].step # "off" => s = u
               /\ \A s \in Loops : loop'[s].step \notin {"call", "failing"}
               /\ Read(failFile, NoFailures)' = failed'
    <3>1. \A s \in Loops : loop[s].step = "off" /\ ~loop[s].reset
      BY <2>1, <2>2 DEF Paced, Running
    <3>2. known = failed
      BY <2>1, <2>2, <3>1 DEF Paced
    <3> QED BY <1>2, <2>1, <2>2, <3>1, <3>2 DEF Read
  <2> QED BY <1>3, <2>1, <2>2 DEF Paced
\* What is read of the failures without a fault.
<1>7. ASSUME faults = 0, q.step \notin {"off", "failing"} PROVE known = failed
  <2>1. \A s \in Loops : ~In(s, "failing")
    BY <1>4, <1>7
  <2> QED BY <1>7, <2>1 DEF Paced
<1>8. CASE CallModels(p)
  <2>1. /\ q.step = "ticket" /\ r.step = "call" /\ r.reset = q.reset /\ r.failures = known
        /\ UNCHANGED <<failFile, failed, faults>>
    BY <1>1, <1>8 DEF CallModels, Locals
  <2>2. ~TooEarly(Ticket(p))
    <3> SUFFICES ASSUME TooEarly(Ticket(p)) PROVE FALSE
      OBVIOUS
    <3> DEFINE f == failed[Ticket(p)]
    <3>1. faults = 0 /\ f.count > 0 /\ clock - f.at < Wait(f.count)
      BY DEF TooEarly
    <3>2. ~q.reset /\ known = failed
      BY <1>4, <1>7, <2>1, <3>1
    <3>3. ~(Age(f.at) < Backoff(f.count))
      BY <1>8, <3>1, <3>2 DEF CallModels, CoolingDown
    <3>4. Ticket(p) \in AllTickets
      BY <1>1, <1>8, Rest DEF CallModels, Ticket, Locals
    <3>5. f \in Failure /\ clock \in Nat /\ ahead \in Int
      BY <3>4, KanbanLoopAssumption DEF LoopTypes
    <3>6. f.at \in Nat /\ f.count \in Nat
      BY <3>5 DEF Failure
    <3>7. Backoff(f.count) \in Int
      BY <3>6, BackoffType
    <3> HIDE DEF f
    <3> QED BY <3>1, <3>3, <3>5, <3>6, <3>7 DEF Wait, Age
  <2>3. early' = {}
    BY <1>3, <1>8, <2>2 DEF CallModels
  <2>4. faults' = 0 => ~r.reset /\ r.failures = failed /\ known = failed
    BY <1>4, <1>7, <2>1
  <2>5. Read(failFile, NoFailures)' = known
    BY <2>1 DEF Read
  <2>6. q.step # "off" /\ faults' >= faults
    BY <1>1, <2>1
  <2> HIDE DEF known
  <2> QED BY <1>5, <2>1, <2>3, <2>4, <2>5, <2>6
<1>9. CASE AllFail(p)
  <2> DEFINE t == Ticket(p)
             more(f) == [count |-> f.count + 1, at |-> clock]
  <2>1. /\ q.step = "call" /\ r.step = "failing" /\ r.reset = q.reset /\ UNCHANGED <<faults, early>>
        /\ r.failures = [q.failures EXCEPT ![t] = more(@)]
        /\ failed' = [failed EXCEPT ![t] = more(@)]
    <3>1. /\ loop' = [loop EXCEPT ![p].step = "failing", ![p].failures[t] = more(@)]
          /\ failed' = [failed EXCEPT ![t] = more(@)]
      BY <1>9 DEF AllFail
    <3>2. q.step = "call" /\ UNCHANGED <<faults, early>>
      BY <1>9 DEF AllFail
    <3> HIDE DEF t, more
    <3>3. r = [q EXCEPT !.step = "failing", !.failures[t] = more(@)]
      BY <1>1, <3>1
    <3>4. r.step = "failing" /\ r.reset = q.reset /\ r.failures = [q.failures EXCEPT ![t] = more(@)]
      BY <1>1, <3>3 DEF Locals
    <3> QED BY <3>1, <3>2, <3>4
  <2>2. faults = 0 => ~q.reset /\ q.failures = failed
    BY <1>4, <2>1 DEF Paced
  <2>3. q.step # "off" /\ faults' >= faults
    BY <1>1, <2>1
  <2> HIDE DEF t, more
  <2> QED BY <1>3, <1>5, <2>1, <2>2, <2>3
<1>10. CASE FailureSaved(p)
  <2>1. /\ q.step = "failing" /\ q.todo # <<>> /\ r = NextTicket(q) /\ failFile' = q.failures
        /\ UNCHANGED <<faults, early, failed>>
    BY <1>1, <1>10 DEF FailureSaved, PassOK
  <2>2. Read(failFile, NoFailures)' = q.failures
    BY <1>1, <2>1 DEF Read, Locals
  <2>3. faults = 0 => ~q.reset /\ q.failures = failed
    BY <1>4, <2>1 DEF Paced
  <2>4. r.reset = q.reset /\ r.step = "ticket"
    BY <1>1, <2>1, NextTicketIs
  <2>5. q.step # "off" /\ faults' >= faults
    BY <1>1, <2>1
  <2> QED BY <1>3, <1>5, <2>1, <2>2, <2>3, <2>4, <2>5
\* The others leave the failures alone.
<1>11. ASSUME q.step \notin {"off", "failing"}, UNCHANGED <<early, failed, failFile>>,
              faults' >= faults, faults' = 0 => ~r.reset,
              r.step \in {"call", "failing"} => q.step = r.step /\ r.failures = q.failures
       PROVE  Paced'
  <2>1. Read(failFile, NoFailures)' = known
    BY <1>11 DEF Read
  <2>2. faults' = 0 => faults = 0
    BY <1>1, <1>11
  <2>3. faults = 0 /\ q.step = "call" => q.failures = failed
    BY DEF Paced
  <2> HIDE DEF known
  <2> QED BY <1>3, <1>5, <1>7, <1>11, <2>1, <2>2, <2>3
<1>12. CASE PassOver(p) \/ Skip(p)
  <2>1. /\ q.todo # <<>> /\ r = NextTicket(q) /\ q.step \notin {"off", "failing"}
        /\ UNCHANGED <<early, failed, failFile, faults>>
    BY <1>1, <1>12 DEF PassOver, Skip, PassOK
  <2>2. r.reset = q.reset /\ r.step = "ticket" /\ faults' >= faults
    BY <1>1, <2>1, NextTicketIs
  <2> QED BY <1>4, <1>11, <2>1, <2>2
<1>13. CASE ListTickets(p) \/ SaveState(p) \/ SomeAnswer(p)
  <2>1. /\ q.step \in {"list", "ticket", "call"} /\ UNCHANGED <<early, failed, failFile, faults>>
        /\ r = Off \/ (r.reset = q.reset /\ r.step \in {"ticket", "saving", "post"})
    BY <1>1, <1>13 DEF ListTickets, SaveState, SomeAnswer, Locals
  <2>2. (r.reset => q.reset) /\ r.step \notin {"call", "failing"} /\ faults' >= faults
    BY <1>1, <2>1 DEF Off
  <2> QED BY <1>4, <1>11, <2>1, <2>2
<1>14. CASE Saved(p)
  <2>1. /\ q.step = "saving" /\ faults' >= faults
        /\ r = Off \/ (r.step = "list" /\ r.reset = q.reset)
    BY <1>1, <1>14, SavedIs
  <2>2. UNCHANGED <<early, failed, failFile>>
    BY <1>14 DEF Saved
  <2>3. (r.reset => q.reset) /\ r.step \notin {"call", "failing"}
    BY <2>1 DEF Off
  <2>4. faults' = 0 => faults = 0
    BY <1>1, <2>1
  <2> QED BY <1>4, <1>11, <2>1, <2>2, <2>3, <2>4
<1>15. CASE Post(p)
  <2>1. /\ q.step = "post" /\ faults' >= faults /\ r.step = "ticket" /\ r.reset = q.reset
    <3>1. /\ q.step = "post" /\ r.step = "ticket" /\ r.reset = q.reset
          /\ faults' = faults \/ faults' = faults + 1
      BY <1>15, PostIs
    <3> QED BY <1>1, <3>1
  <2>2. UNCHANGED <<early, failed, failFile>>
    BY <1>15 DEF Post
  <2>3. faults' = 0 => faults = 0
    BY <1>1, <2>1
  <2> QED BY <1>4, <1>11, <2>1, <2>2, <2>3
\* A death in the write of the failures is a fault.
<1>16. CASE KillLoop(p)
  <2>1. /\ r = Off /\ q.step # "off" /\ UNCHANGED <<early, failed, failFile>> /\ faults' >= faults
        /\ q.step = "failing" => faults' = faults + 1
    BY <1>1, <1>16 DEF KillLoop, Fault
  <2>2. ~r.reset /\ r.step \notin {"call", "failing"}
    BY <2>1 DEF Off
  <2>3. CASE q.step = "failing"
    BY <1>1, <1>3, <1>5, <2>1, <2>2, <2>3
  <2>4. CASE q.step # "failing"
    BY <1>11, <2>1, <2>2, <2>4
  <2> QED BY <2>3, <2>4
<1> QED BY <1>6, <1>8, <1>9, <1>10, <1>12, <1>13, <1>14, <1>15, <1>16 DEF LoopMoved

-----------------------------------------------------------------------------
(***************************************************************************)
(* The invariant.                                                          *)
(***************************************************************************)

LEMMA LoopInvInit == LoopInit => LoopInv
<1> SUFFICES ASSUME LoopInit PROVE LoopInv
  OBVIOUS
<1>1. LoopTypes /\ Signatures \subseteq Nat /\ NoEntry \notin Signatures
  BY LoopTypesInit, Constant DEF LoopInit
<1>2. /\ loop = [p \in Loops |-> Off] /\ stateFile = NoEntry /\ failFile = NoEntry /\ faults = 0
      /\ failed = NoFailures /\ early = {} /\ \A t \in AllTickets, v \in Signatures : comments[t][v] = 0
  BY DEF LoopInit
<1>3. Read(stateFile, Unseen) = Unseen /\ Read(failFile, NoFailures) = NoFailures
  BY <1>2 DEF Read
<1>4. \A t \in AllTickets, v \in Signatures : Unseen[t] # v
  BY <1>1 DEF Unseen
<1>5. \A p \in Loops : PassOK(loop[p]) /\ Behind(loop[p])
  BY <1>2 DEF Off, PassOK, Behind, Seeing, Unseen, IsInjective
<1>6. Seeing(Read(stateFile, Unseen))
  BY <1>3 DEF Seeing, Unseen
<1>7. Commented
  BY <1>2, <1>3, <1>4 DEF Commented, Off
<1>8. Paced
  BY <1>2, <1>3 DEF Paced, In, Off
<1>9. ASSUME NEW t \in AllTickets, NEW v \in Signatures PROVE PaidFor(t, v)
  <2>1. Reviewers(t, v) = {}
    BY <1>2 DEF Reviewers, May, Off
  <2> QED BY <1>2, <1>9, <2>1, FS_EmptySet DEF PaidFor
<1> QED BY <1>1, <1>5, <1>6, <1>7, <1>8, <1>9 DEF LoopInv

\* A step of a process.
LEMMA ProcessStep ==
  ASSUME LoopInv, LoopNext, NEW p \in Loops, LoopMoved(p)
  PROVE  LoopInv'
<1>1. /\ LoopTypes /\ PassOK(loop[p]) /\ Behind(loop[p]) /\ Commented /\ Paced
      /\ Seeing(Read(stateFile, Unseen)) /\ \A r \in Loops : PassOK(loop[r]) /\ Behind(loop[r])
      /\ \A t \in AllTickets, v \in Signatures : PaidFor(t, v)
  BY DEF LoopInv
<1>2. board' = board /\ Signatures' = Signatures
  BY <1>1, BoardFixed
<1>3. LoopTypes'
  BY <1>1, <1>2, LoopTypesStep
<1>4. \A r \in Loops : PassOK(loop[r])'
  <2>1. PassOK(loop'[p])
    BY <1>1, PassStep
  <2>2. \A r \in Loops : PassOK(loop'[r])
    BY <1>1, <2>1, OthersStay
  <2> QED BY <2>2 DEF PassOK
<1>5. Commented'
  BY <1>1, <1>2, <1>3, CommentedStep
<1>6. Seeing(Read(stateFile, Unseen))' /\ \A r \in Loops : Behind(loop[r])'
  BY <1>1, <1>2, <1>3, BehindStep
<1>7. Paced'
  BY <1>1, <1>2, <1>3, PacedStep
<1>8. \A t \in AllTickets, v \in Signatures : PaidFor(t, v)'
  BY <1>1, <1>2, <1>3, PaidForStep
<1> QED BY <1>2, <1>3, <1>4, <1>5, <1>6, <1>7, <1>8 DEF LoopInv

\* Edits and the clock.
LEMMA WorldStep ==
  ASSUME LoopInv, board' = board, stateFile' = stateFile, failFile' = failFile, loop' = loop,
         comments' = comments, faults' = faults, failed' = failed, early' = early,
         content' \in [AllTickets -> [Signatures -> Contents]], ahead' = ahead,
         clock' \in Nat, clock' >= clock, text' \in [AllTickets -> Signatures],
         \A t \in AllTickets : text'[t] >= text[t]
  PROVE  LoopInv'
<1>1. Signatures' = Signatures /\ Seen' = Seen
  BY DEF Signatures, Seen
<1>2. Locals' = Locals
  BY <1>1 DEF Locals
<1>3. /\ LoopTypes /\ \A p \in Loops : PassOK(loop[p]) /\ Behind(loop[p])
      /\ Commented /\ Paced /\ Seeing(Read(stateFile, Unseen))
      /\ \A t \in AllTickets, v \in Signatures : PaidFor(t, v)
  BY DEF LoopInv
<1>4. /\ Signatures \subseteq Nat /\ NoEntry \notin Signatures /\ loop \in [Loops -> Locals]
      /\ text \in [AllTickets -> Signatures] /\ Read(stateFile, Unseen) \in Seen
  BY <1>3, Constant, ReadTypes DEF LoopTypes
<1>5. LoopTypes'
  <2>1. \A t \in AllTickets : failed[t].at \in Nat /\ failed[t].at <= clock /\ clock \in Nat
    BY <1>3 DEF LoopTypes, Failure
  <2>2. \A t \in AllTickets : failed[t].at <= clock'
    BY <2>1
  <2> QED BY <1>1, <1>2, <1>3, <2>2 DEF LoopTypes
<1>6. ASSUME NEW s \in Seen, Seeing(s) PROVE Seeing(s)'
  <2>1. \A t \in AllTickets : s[t] # NoEntry => s[t] \in Nat /\ text[t] \in Nat /\ text'[t] \in Nat
    BY <1>4 DEF Seen
  <2> QED BY <1>6, <2>1 DEF Seeing
<1>7. Seeing(Read(stateFile, Unseen))'
  <2>1. Read(stateFile, Unseen)' = Read(stateFile, Unseen)
    BY DEF Read
  <2>2. \A t \in AllTickets : LET s == Read(stateFile, Unseen) IN s[t] # NoEntry => s[t] <= text'[t]
    BY <1>3, <1>4, <1>6 DEF Seeing
  <2> QED BY <2>1, <2>2 DEF Seeing
<1>8. ASSUME NEW p \in Loops PROVE Behind(loop[p])'
  <2> DEFINE q == loop[p]
             t == Head(q.todo)
  <2>1. q \in Locals /\ Behind(q) /\ PassOK(q)
    BY <1>3, <1>4
  <2>2. Seeing(q.processed)'
    BY <1>6, <2>1 DEF Behind, Locals
  <2>3. ASSUME q.step \in {"call", "post"} PROVE q.sig <= text'[t]
    <3>1. t \in AllTickets
      BY <2>1, <2>3, Rest DEF Locals, PassOK
    <3>2. q.sig \in Nat /\ text[t] \in Nat /\ text'[t] \in Nat /\ text'[t] >= text[t] /\ q.sig <= text[t]
      BY <1>4, <2>1, <2>3, <3>1 DEF Locals, Behind
    <3> QED BY <3>2
  <2> QED BY <2>1, <2>2, <2>3 DEF Behind, Seeing
<1>9. \A p \in Loops : PassOK(loop[p])'
  BY <1>3 DEF PassOK
<1>10. Commented' /\ Paced'
  BY <1>1, <1>3 DEF Commented, Paced, Read, In
<1>11. ASSUME NEW t \in AllTickets, NEW v \in Signatures PROVE PaidFor(t, v)'
  BY <1>3, <1>11 DEF PaidFor, Reviewers, May, Repeats, Keeps, Past, Read
<1> QED BY <1>1, <1>5, <1>7, <1>8, <1>9, <1>10, <1>11 DEF LoopInv

LEMMA LoopInvStep ==
  ASSUME LoopInv, LoopNext \/ UNCHANGED loopVars
  PROVE  LoopInv'
<1>1. /\ text \in [AllTickets -> Signatures] /\ clock \in Nat /\ Signatures \subseteq Nat
      /\ board \in Seq(AllTickets) /\ MaxEdits[Len(board)] \in Nat
  BY Constant, KanbanLoopAssumption DEF LoopInv, LoopTypes
<1>2. /\ \A t \in AllTickets : text[t] \in Nat
      /\ content \in [AllTickets -> [Signatures -> Contents]]
  BY <1>1 DEF LoopInv, LoopTypes
<1>3. ASSUME NEW p \in Loops, LoopMoved(p), LoopNext PROVE LoopInv'
  BY <1>3, ProcessStep
<1>4. ASSUME NEW t \in TicketSet, Edit(t) PROVE LoopInv'
  <2>1. t \in AllTickets
    BY <1>1 DEF TicketSet, Range
  <2>2. text[t] + 1 \in Signatures
    BY <1>1, <1>2, <1>4, <2>1 DEF Edit, Signatures
  <2>3. text' \in [AllTickets -> Signatures] /\ \A u \in AllTickets : text'[u] >= text[u]
    BY <1>1, <1>2, <1>4, <2>1, <2>2 DEF Edit
  <2>4. UNCHANGED <<board, comments, stateFile, failFile, clock, ahead, loop, faults, failed, early>>
    BY <1>4 DEF Edit
  <2>6. content' \in [AllTickets -> [Signatures -> Contents]]
    BY <1>2, <1>4, <2>1, <2>2 DEF Edit
  <2>5. clock' \in Nat /\ clock' >= clock
    BY <1>1, <2>4
  <2> QED BY <2>3, <2>4, <2>5, <2>6, WorldStep
<1>5. CASE Minute \/ UNCHANGED loopVars
  <2>1. UNCHANGED <<board, comments, text, content, stateFile, failFile, ahead, loop, faults, failed, early>>
    BY <1>5 DEF Minute, loopVars, boardVars
  <2>2. clock' \in Nat /\ clock' >= clock
    BY <1>1, <1>5 DEF Minute, loopVars
  <2>3. text' \in [AllTickets -> Signatures] /\ \A u \in AllTickets : text'[u] >= text[u]
    BY <1>1, <1>2, <2>1
  <2> QED BY <1>2, <2>1, <2>2, <2>3, WorldStep
<1> QED BY <1>3, <1>4, <1>5 DEF LoopNext, LoopMoved

LEMMA LoopInvSays == LoopInv => LoopKeepsPace
<1> SUFFICES ASSUME LoopInv PROVE LoopKeepsPace
  OBVIOUS
<1>1. LoopTypes /\ Commented /\ early = {} /\ \A t \in AllTickets, v \in Signatures : PaidFor(t, v)
  BY DEF LoopInv, Paced
<1>2. ASSUME NEW t \in AllTickets, NEW v \in Signatures
      PROVE  /\ comments[t][v] <= 1 + faults
             /\ Read(stateFile, Unseen)[t] = v => comments[t][v] > 0
  <2>1. comments[t][v] \in Nat /\ faults \in Nat
    BY <1>1 DEF LoopTypes
  <2>2. Cardinality(Reviewers(t, v)) \in Nat
    <3>1. IsFiniteSet(Reviewers(t, v))
      BY KanbanLoopAssumption, FS_Subset DEF Reviewers
    <3> QED BY <3>1, FS_CardinalityType
  <2>3. comments[t][v] + Cardinality(Reviewers(t, v)) <= 1 + faults
    BY <1>1 DEF PaidFor
  <2> QED BY <1>1, <2>1, <2>2, <2>3 DEF Commented
<1> QED BY <1>1, <1>2 DEF LoopKeepsPace

LEMMA LoopInvHolds == Spec => []LoopInv
<1>1. Init => LoopInv
  BY LoopInvInit DEF Init
<1>2. LoopInv /\ [Next]_vars => LoopInv'
  <2> SUFFICES ASSUME LoopInv, [Next]_vars PROVE LoopInv'
    OBVIOUS
  <2>1. LoopNext \/ UNCHANGED loopVars
    BY DEF Next, vars
  <2> QED BY <2>1, LoopInvStep
<1> QED BY <1>1, <1>2, PTL DEF Spec

\* The types of the loop's state, and that no failure is of the future.
LEMMA LoopTypesCorrect == Spec => []LoopTypeOK
<1>1. LoopInv => LoopTypeOK
  BY DEF LoopInv, LoopTypes, LoopTypeOK, Seen
<1> QED BY <1>1, LoopInvHolds, PTL

\* The review loop is idempotent for any board, processes, passes and edits,
\* such as bring an earlier content back: each comment on a revision beyond
\* the first goes with an event that the state file cannot survive, what the
\* file says was reviewed has its comment, and without such an event no ticket
\* is tried again before its wait is over, less what the local time of the
\* host is ahead of UTC.
THEOREM LoopKeepsPaceCorrect == Spec => []LoopKeepsPace
BY LoopInvHolds, LoopInvSays, PTL
=============================================================================
