-------------------------- MODULE OperationsProofs --------------------------
(***************************************************************************)
(* Proofs about the other parts of Operations: UsageLog, Router and         *)
(* ReleaseGate, for any writers, routes, providers' answers, boards and    *)
(* changes of a board; and the types of the whole.                         *)
(***************************************************************************)
EXTENDS StartupProofs, KanbanLoopProofs, SequenceTheorems

-----------------------------------------------------------------------------
(***************************************************************************)
(* UsageLog: the inductive invariant.                                      *)
(***************************************************************************)

Lines == Providers \cup {"header"}
Writer == [step : {"away", "opened", "locked", "written", "unlocked"},
           provider : Providers \cup {Nobody}, position : Nat, buffer : Seq(Lines)]

UsageTypes ==
  /\ csv \in Seq(Lines) /\ logged \in Seq(Providers)
  /\ writer \in [Writers -> Writer]
  /\ flock \in Writers \cup {Nobody}
  /\ asked \in 0..MaxRows
  /\ exists \in BOOLEAN /\ raced \in BOOLEAN

\* The file only grows: who found it empty writes the header, and nobody who
\* finds it empty when it closes it found it otherwise.
Buffered(q) == IF q.position = 0 THEN <<"header", q.provider>> ELSE <<q.provider>>
WriterOK(w, q, f) ==
  /\ q.step \in {"locked", "written"} => f = w
  /\ q.step # "away" => q.provider \in Providers
  /\ q.step \in {"written", "unlocked"} => q.buffer = Buffered(q)
Positions == \A w \in Writers : writer[w].step # "away" => writer[w].position <= Len(csv)

\* Every row is a call that returned.
CountFrom(k, s, p) == Cardinality({i \in k..Len(s) : s[i] = p})
Told ==
  /\ csv = <<>> => logged = <<>>
  /\ csv # <<>> => /\ csv[1] = "header"
                   /\ \A p \in Providers : CountFrom(2, csv, p) = CountFrom(1, logged, p)

\* A second header needs two writers that found the file empty.
Empty(w) == writer[w].step # "away" /\ writer[w].position = 0
Races ==
  ~raced =>
    /\ \A i \in 2..Len(csv) : csv[i] # "header"
    /\ csv # <<>> => \A w \in Writers : ~Empty(w)
    /\ \A v, w \in Writers : Empty(v) /\ Empty(w) => v = w

UsageInv ==
  /\ UsageTypes
  /\ \A w \in Writers : WriterOK(w, writer[w], flock)
  /\ Positions /\ Told /\ Races

-----------------------------------------------------------------------------
LEMMA CountAppend ==
  ASSUME NEW S, NEW s \in Seq(S), NEW x \in S, NEW p, NEW k \in 1..(Len(s) + 1)
  PROVE  /\ CountFrom(k, s, p) \in Nat
         /\ CountFrom(k, Append(s, x), p) = CountFrom(k, s, p) + (IF x = p THEN 1 ELSE 0)
<1> DEFINE A == {i \in k..Len(s) : s[i] = p}
           B == {i \in k..Len(Append(s, x)) : Append(s, x)[i] = p}
           n == Len(s) + 1
<1>1. Len(s) \in Nat /\ Len(Append(s, x)) = n /\ Append(s, x)[n] = x
  OBVIOUS
<1>2. \A i \in k..Len(s) : Append(s, x)[i] = s[i]
  OBVIOUS
<1>3. IsFiniteSet(A) /\ Cardinality(A) \in Nat /\ n \notin A
  <2>1. IsFiniteSet(k..Len(s))
    BY <1>1, FS_Interval
  <2> QED BY <1>1, <2>1, FS_Subset, FS_CardinalityType
<1>4. B = IF x = p THEN A \cup {n} ELSE A
  BY <1>1, <1>2
<1> HIDE DEF A, B, n
<1>5. Cardinality(A \cup {n}) = Cardinality(A) + 1
  BY <1>3, FS_AddElement
<1>6. Cardinality(B) = Cardinality(A) + (IF x = p THEN 1 ELSE 0)
  BY <1>3, <1>4, <1>5
<1> QED BY <1>3, <1>6 DEF CountFrom, A, B

LEMMA UsageInvInit == UsageInit => UsageInv
<1> SUFFICES ASSUME UsageInit PROVE UsageInv
  OBVIOUS
<1>1. UsageTypes
  <2>1. <<>> \in Seq(Lines) /\ <<>> \in Seq(Providers)
    OBVIOUS
  <2>2. Away \in Writer
    BY <2>1 DEF Away, Writer
  <2>3. writer \in [Writers -> Writer] /\ asked \in 0..MaxRows
    BY <2>2, UsageAssumption DEF UsageInit
  <2> QED BY <2>1, <2>3 DEF UsageInit, UsageTypes
<1>2. \A w \in Writers : writer[w].step = "away"
  BY DEF UsageInit, Away
<1>3. Told
  BY DEF UsageInit, Told
<1>4. csv = <<>> /\ Len(csv) = 0
  BY DEF UsageInit
<1>5. Races
  BY <1>2, <1>4 DEF Races, Empty
<1> QED BY <1>1, <1>2, <1>3, <1>5 DEF UsageInv, WriterOK, Positions

LEMMA UsageOpen ==
  ASSUME UsageInv, NEW w \in Writers, NEW p \in Providers, Open(w, p)
  PROVE  UsageInv'
<1> DEFINE q == [step |-> "opened", provider |-> p, position |-> Len(csv), buffer |-> <<>>]
<1>1. /\ csv \in Seq(Lines) /\ Len(csv) \in Nat /\ q \in Writer
      /\ writer \in [Writers -> Writer] /\ writer[w].step = "away"
  BY DEF UsageInv, UsageTypes, Open, Does, Writer
<1>2. /\ writer' = [writer EXCEPT ![w] = q] /\ UNCHANGED <<csv, flock, logged>>
      /\ asked' = asked + 1 /\ asked < MaxRows /\ exists' = TRUE
      /\ raced' = (raced \/ (csv = <<>> /\ OpenedEmpty(w)))
  BY DEF Open
<1>3. UsageTypes'
  BY <1>1, <1>2, UsageAssumption DEF UsageInv, UsageTypes
<1>4. q.step = "opened" /\ q.provider = p /\ q.position = Len(csv)
  OBVIOUS
<1> HIDE DEF q
<1>5. writer'[w] = q /\ \A v \in Writers \ {w} : writer'[v] = writer[v]
  BY <1>1, <1>2
<1>6. \A v \in Writers : WriterOK(v, writer[v], flock)'
  BY <1>2, <1>4, <1>5 DEF UsageInv, WriterOK
<1>7. Positions'
  BY <1>1, <1>2, <1>4, <1>5 DEF UsageInv, Positions
<1>8. Told'
  BY <1>2 DEF UsageInv, Told, CountFrom
<1>9. ASSUME ~raced' PROVE Races'
  <2>1. ~raced /\ (csv = <<>> => \A v \in Writers \ {w} : ~Empty(v))
    BY <1>2, <1>9 DEF OpenedEmpty, Does, Empty
  <2>2. csv # <<>> => Len(csv) # 0
    BY <1>1
  <2>3. \A v \in Writers \ {w} : Empty(v)' <=> Empty(v)
    BY <1>5 DEF Empty
  <2>4. Empty(w)' <=> Len(csv) = 0
    BY <1>4, <1>5 DEF Empty
  <2>5. csv = <<>> => Len(csv) = 0
    OBVIOUS
  <2> QED BY <1>2, <2>1, <2>2, <2>3, <2>4 DEF UsageInv, Races
<1> QED BY <1>3, <1>6, <1>7, <1>8, <1>9 DEF UsageInv, Races

\* A step of a writer that leaves the file and the calls alone, and at most
\* changes its buffer, the lock, or goes away.
LEMMA UsageAside ==
  ASSUME UsageInv, NEW w \in Writers, NEW q \in Writer,
         writer' = [writer EXCEPT ![w] = q], UNCHANGED <<csv, exists, logged, asked, raced>>,
         q.step = "away" \/ (writer[w].step # "away" /\ q.position = writer[w].position),
         flock' \in Writers \cup {Nobody}, WriterOK(w, q, flock'),
         \A v \in Writers \ {w} : flock = v => flock' = v
  PROVE  UsageInv'
<1>1. writer \in [Writers -> Writer]
  BY DEF UsageInv, UsageTypes
<1>2. writer'[w] = q /\ \A v \in Writers \ {w} : writer'[v] = writer[v]
  BY <1>1
<1>3. UsageTypes'
  BY <1>1 DEF UsageInv, UsageTypes
<1>4. \A v \in Writers : WriterOK(v, writer[v], flock)'
  BY <1>2 DEF UsageInv, WriterOK
<1>5. Positions'
  BY <1>2 DEF UsageInv, Positions
<1>6. Told'
  BY DEF UsageInv, Told, CountFrom
<1>7. \A v \in Writers : Empty(v)' => Empty(v)
  BY <1>2 DEF Empty
<1>8. Races'
  BY <1>7 DEF UsageInv, Races
<1> QED BY <1>3, <1>4, <1>5, <1>6, <1>8 DEF UsageInv

LEMMA UsageClose ==
  ASSUME UsageInv, NEW w \in Writers, Close(w)
  PROVE  UsageInv'
<1> DEFINE p == writer[w].provider
<1>1. /\ csv \in Seq(Lines) /\ logged \in Seq(Providers) /\ p \in Providers /\ p \in Lines
      /\ "header" \in Lines /\ p # "header" /\ Len(csv) \in Nat
      /\ writer \in [Writers -> Writer] /\ writer[w].step = "unlocked"
      /\ writer[w].position \in Nat /\ writer[w].position <= Len(csv)
  BY UsageAssumption DEF UsageInv, UsageTypes, WriterOK, Positions, Close, Does, Writer, Lines
<1>2. /\ csv' = csv \o Buffered(writer[w]) /\ logged' = Append(logged, p)
      /\ writer' = [writer EXCEPT ![w] = Away] /\ UNCHANGED <<exists, flock, asked, raced>>
  BY <1>1 DEF UsageInv, WriterOK, Close, Does
<1> HIDE DEF p
<1>3. csv' = IF Empty(w) THEN Append(Append(csv, "header"), p) ELSE Append(csv, p)
  BY <1>1, <1>2 DEF Empty, Buffered, p
<1>4. Away \in Writer /\ Away.step = "away"
  BY DEF Away, Writer
<1>5. UsageTypes'
  BY <1>1, <1>2, <1>3, <1>4 DEF UsageInv, UsageTypes
<1>6. writer'[w] = Away /\ \A v \in Writers \ {w} : writer'[v] = writer[v]
  BY <1>1, <1>2
<1>7. \A v \in Writers : WriterOK(v, writer[v], flock)'
  BY <1>2, <1>4, <1>6 DEF UsageInv, WriterOK
<1>8. Len(csv') > Len(csv)
  BY <1>1, <1>3
<1>9. Positions'
  <2> SUFFICES ASSUME NEW v \in Writers, writer'[v].step # "away"
               PROVE  writer'[v].position <= Len(csv')
    BY DEF Positions
  <2>1. v # w /\ writer[v].position \in Nat /\ writer[v].position <= Len(csv)
    BY <1>1, <1>4, <1>6 DEF UsageInv, Positions, Writer
  <2>2. Len(csv') \in Nat
    BY <1>1, <1>3
  <2> QED BY <1>1, <1>6, <1>8, <2>1, <2>2
<1>10. Told'
  <2>1. csv' # <<>>
    BY <1>1, <1>3
  <2>2. csv = <<>> => Empty(w)
    BY <1>1 DEF Empty
  <2>3. csv'[1] = "header"
    BY <1>1, <1>3, <2>2 DEF UsageInv, Told
  <2>4. ASSUME NEW r \in Providers
        PROVE  CountFrom(2, csv', r) = CountFrom(1, logged', r)
    <3> DEFINE one == IF p = r THEN 1 ELSE 0
    <3>1. CountFrom(1, logged, r) \in Nat /\ CountFrom(1, logged', r) = CountFrom(1, logged, r) + one
      BY <1>1, <1>2, CountAppend
    <3>2. CASE csv # <<>>
      <4>1. CountFrom(2, csv, r) = CountFrom(1, logged, r)
        BY <3>2 DEF UsageInv, Told
      <4>2. 2 \in 1..(Len(csv) + 1)
        BY <1>1, <3>2
      <4>3. r # "header"
        BY UsageAssumption
      <4>4. CountFrom(2, Append(csv, "header"), r) = CountFrom(2, csv, r)
        BY <1>1, <4>1, <4>2, <4>3, <3>1, CountAppend
      <4>5. Append(csv, "header") \in Seq(Lines) /\ 2 \in 1..(Len(Append(csv, "header")) + 1)
        BY <1>1
      <4>6. CountFrom(2, Append(csv, p), r) = CountFrom(2, csv, r) + one
        BY <1>1, <4>2, CountAppend
      <4> DEFINE two == Append(csv, "header")
      <4>7. two \in Seq(Lines) /\ 2 \in 1..(Len(two) + 1)
        BY <4>5
      <4> HIDE DEF two
      <4>8. CountFrom(2, Append(two, p), r) = CountFrom(2, two, r) + one
        BY <1>1, <4>7, CountAppend
      <4> QED BY <1>3, <3>1, <4>1, <4>4, <4>6, <4>8 DEF two
    <3>3. CASE csv = <<>>
      <4>1. csv' = Append(<<"header">>, p) /\ logged = <<>>
        BY <1>1, <1>3, <2>2, <3>3 DEF UsageInv, Told
      <4>2. <<"header">> \in Seq(Lines) /\ Len(<<"header">>) = 1
        BY <1>1
      <4> DEFINE top == <<"header">>
      <4>5. top \in Seq(Lines) /\ 2 \in 1..(Len(top) + 1)
        BY <4>2
      <4> HIDE DEF top
      <4>6. CountFrom(2, Append(top, p), r) = CountFrom(2, top, r) + one
        BY <1>1, <4>5, CountAppend
      <4>3. CountFrom(2, csv', r) = CountFrom(2, <<"header">>, r) + one
        BY <4>1, <4>6 DEF top
      <4>4. CountFrom(2, <<"header">>, r) = 0 /\ CountFrom(1, logged, r) = 0
        <5>1. {i \in 2..Len(<<"header">>) : <<"header">>[i] = r} = {}
          BY <4>2
        <5>2. {i \in 1..Len(logged) : logged[i] = r} = {}
          BY <4>1
        <5> QED BY <5>1, <5>2, FS_EmptySet DEF CountFrom
      <4> QED BY <3>1, <4>3, <4>4
    <3> QED BY <3>2, <3>3
  <2> QED BY <2>1, <2>3, <2>4 DEF Told
<1>11. ASSUME ~raced' PROVE Races'
  <2>1. ~raced /\ \A v \in Writers : Empty(v)' => Empty(v) /\ v # w
    BY <1>2, <1>4, <1>6, <1>11 DEF Empty
  <2>2. \A v \in Writers : ~Empty(v)'
    <3> SUFFICES ASSUME NEW v \in Writers, Empty(v)' PROVE FALSE
      OBVIOUS
    <3>1. Empty(v) /\ v # w /\ csv = <<>>
      BY <2>1 DEF UsageInv, Races
    <3>2. Empty(w)
      BY <1>1, <3>1 DEF Empty
    <3> QED BY <2>1, <3>1, <3>2 DEF UsageInv, Races
  <2>3. \A i \in 2..Len(csv') : csv'[i] # "header"
    <3>1. \A i \in 2..Len(csv) : csv[i] # "header"
      BY <2>1 DEF UsageInv, Races
    <3>2. Empty(w) => csv = <<>>
      BY <2>1 DEF UsageInv, Races
    <3>3. CASE Empty(w)
      <4>1. csv' = Append(Append(<<>>, "header"), p)
        BY <1>3, <3>2, <3>3
      <4>2. Len(csv') = 2 /\ csv'[2] = p
        BY <1>1, <4>1
      <4> QED BY <1>1, <4>2
    <3>4. CASE ~Empty(w)
      BY <1>1, <1>3, <3>1, <3>4
    <3> QED BY <3>3, <3>4
  <2> QED BY <2>2, <2>3 DEF Races
<1> QED BY <1>5, <1>7, <1>9, <1>10, <1>11 DEF UsageInv, Races

LEMMA UsageInvNext == UsageInv /\ UsageNext => UsageInv'
<1> SUFFICES ASSUME UsageInv, NEW w \in Writers,
                    \/ \E p \in Providers : Open(w, p)
                    \/ TakeFlock(w) \/ WriteRows(w) \/ Unflock(w) \/ Close(w) \/ KillWriter(w)
             PROVE  UsageInv'
  BY DEF UsageNext
<1> DEFINE q == writer[w]
<1>1. /\ writer \in [Writers -> Writer] /\ q \in Writer /\ flock \in Writers \cup {Nobody}
      /\ Nobody \notin Writers /\ \A v \in Writers : WriterOK(v, writer[v], flock)
  BY UsageAssumption DEF UsageInv, UsageTypes
<1>2. CASE \E p \in Providers : Open(w, p)
  BY <1>2, UsageOpen
<1>3. CASE TakeFlock(w)
  <2> DEFINE r == [q EXCEPT !.step = "locked"]
  <2>1. writer' = [writer EXCEPT ![w] = r] /\ r \in Writer /\ q.step = "opened" /\ flock' = w
        /\ UNCHANGED <<csv, exists, logged, asked, raced>> /\ flock = Nobody
    BY <1>1, <1>3 DEF TakeFlock, Does, Writer
  <2>2. r.position = q.position /\ WriterOK(w, r, flock')
    BY <1>1, <2>1 DEF WriterOK, Writer
  <2> HIDE DEF r
  <2> QED BY <1>1, <2>1, <2>2, UsageAside
<1>4. CASE WriteRows(w)
  <2> DEFINE r == [q EXCEPT !.step = "written", !.buffer = Buffered(q)]
  <2>1. q.step = "locked" /\ q.provider \in Providers /\ flock = w
    BY <1>1, <1>4 DEF WriteRows, Does, WriterOK
  <2>2. Buffered(q) \in Seq(Lines)
    <3> DEFINE p == q.provider
    <3>1. p \in Lines /\ "header" \in Lines
      BY <2>1 DEF Lines
    <3> HIDE DEF p
    <3>2. <<p>> \in Seq(Lines) /\ <<"header", p>> \in Seq(Lines)
      BY <3>1
    <3> QED BY <3>2 DEF Buffered, p
  <2>3. r \in Writer /\ r.position = q.position /\ WriterOK(w, r, flock)
    BY <1>1, <2>1, <2>2 DEF WriterOK, Writer, Buffered
  <2>4. writer' = [writer EXCEPT ![w] = r] /\ UNCHANGED <<csv, exists, flock, logged, asked, raced>>
    BY <1>1, <1>4 DEF WriteRows, Buffered
  <2> HIDE DEF r
  <2> QED BY <1>1, <2>1, <2>3, <2>4, UsageAside
<1>5. CASE Unflock(w)
  <2> DEFINE r == [q EXCEPT !.step = "unlocked"]
  <2>1. q.step = "written" /\ flock = w
    BY <1>1, <1>5 DEF Unflock, Does, WriterOK
  <2>2. r \in Writer /\ r.position = q.position /\ WriterOK(w, r, flock')
    BY <1>1, <2>1 DEF WriterOK, Writer, Buffered
  <2>3. /\ writer' = [writer EXCEPT ![w] = r] /\ flock' = Nobody
        /\ UNCHANGED <<csv, exists, logged, asked, raced>>
    BY <1>1, <1>5 DEF Unflock
  <2> HIDE DEF r
  <2> QED BY <1>1, <2>1, <2>2, <2>3, UsageAside
<1>6. CASE Close(w)
  BY <1>6, UsageClose
<1>7. CASE KillWriter(w)
  <2>1. Away \in Writer /\ Away.step = "away" /\ WriterOK(w, Away, flock')
    BY DEF Away, Writer, WriterOK
  <2>2. /\ writer' = [writer EXCEPT ![w] = Away] /\ flock' = (IF flock = w THEN Nobody ELSE flock)
        /\ UNCHANGED <<csv, exists, logged, asked, raced>>
    BY <1>7 DEF KillWriter
  <2> QED BY <1>1, <2>1, <2>2, UsageAside
<1> QED BY <1>2, <1>3, <1>4, <1>5, <1>6, <1>7

LEMMA UsageInvHolds == Spec => []UsageInv
<1>1. Init => UsageInv
  BY UsageInvInit DEF Init
<1>2. UsageInv /\ [Next]_vars => UsageInv'
  <2> SUFFICES ASSUME UsageInv, [Next]_vars PROVE UsageInv'
    OBVIOUS
  <2>1. UsageNext \/ UNCHANGED usageVars
    BY DEF Next, vars
  <2>2. CASE UNCHANGED usageVars
    BY <2>2 DEF usageVars, UsageInv, UsageTypes, WriterOK, Positions, Told, CountFrom, Races, Empty
  <2> QED BY <2>1, <2>2, UsageInvNext
<1> QED BY <1>1, <1>2, PTL DEF Spec

\* However writers interleave between opening, locking and closing the log, and
\* whoever is killed: totals counts each call of log that returned as one row,
\* a phantom provider needs two writers that found the file empty, and the
\* health check fails only before the first row.
THEOREM LogTellsCorrect == Spec => []LogTells
<1>1. ASSUME UsageInv PROVE LogTells
  <2>1. csv \in Seq(Lines) /\ Len(csv) \in Nat /\ logged \in Seq(Providers)
    BY <1>1 DEF UsageInv, UsageTypes
  <2>2. csv # <<>> => \A p \in Providers : totals(p) = Cardinality({i \in DOMAIN logged : logged[i] = p})
    <3>1. DOMAIN logged = 1..Len(logged)
      BY <2>1
    <3> QED BY <1>1, <3>1 DEF UsageInv, Told, totals, CountFrom
  <2>3. Phantom => raced
    <3> SUFFICES ASSUME ~raced, csv # <<>> PROVE ~(totals("header") > 0)
      BY DEF Phantom
    <3>1. {i \in 2..Len(csv) : csv[i] = "header"} = {}
      BY <1>1 DEF UsageInv, Races
    <3> QED BY <3>1, FS_EmptySet DEF totals
  <2>4. check_burn_rate = "StopIteration" => logged = <<>>
    BY <1>1 DEF UsageInv, Told, check_burn_rate
  <2> QED BY <1>1, <2>2, <2>3, <2>4 DEF LogTells, UsageInv, WriterOK
<1> QED BY <1>1, UsageInvHolds, PTL

-----------------------------------------------------------------------------
(***************************************************************************)
(* Router: the inductive invariant.                                        *)
(***************************************************************************)

Reply == Outcomes \cup {Raised, DryRun, Error("none"), Error("no providers"),
                        Error("all providers failed"), Error("executor timeout")}
Worker == [running : BOOLEAN, reply : Reply]

RouterTypes ==
  /\ phase \in {"begin", "chain", "wait", "done", "exited", "raised"}
  /\ tried \in Seq(Outcomes \cup {DryRun})
  /\ replies \in Seq(Reply)
  /\ verdict \in {"unknown", "agree", "disagree", "partial"}
  /\ List(Chain) /\ List(Submitted)

\* A chain has neither workers nor a verdict.  It goes on while nothing has
\* ended it, and is over by an answer or by the last failure.
NoneEnds(k) == \A i \in 1..k : ~Ends(tried[i])
Answered ==
  /\ Chain # <<>> /\ tried # <<>> /\ NoneEnds(Len(tried) - 1)
  /\ replies = <<Last(tried)>>
  /\ Last(tried).ok \/ (request.mode = "dry_run" /\ Last(tried) = DryRun)
Exhausted ==
  /\ Chain # <<>> /\ Len(tried) = Len(Chain) /\ NoneEnds(Len(tried))
  /\ replies = <<Error("all providers failed")>>
NoChain == Chain = <<>> /\ tried = <<>>
InChain ==
  /\ phase # "wait" /\ verdict = "unknown" /\ late = {} /\ worker = <<>>
  /\ phase = "begin" => tried = <<>> /\ replies = <<>>
  /\ phase = "chain" => Len(tried) < Len(Chain) /\ NoneEnds(Len(tried)) /\ replies = <<>>
  /\ phase = "raised" => replies = <<>>
  /\ Over => Answered \/ Exhausted \/ NoChain

\* Of a fan-out, replies come in turn, each of a worker that is through or an
\* error in its place.
Given(i) == IF i \in late THEN ~replies[i].ok
            ELSE ~worker[Future(i)].running /\ replies[i] = worker[Future(i)].reply
Judged ==
  verdict # "unknown" /\ ~SameSpec =>
    /\ Len(replies) = 2 /\ replies[1].ok /\ replies[2].ok
    /\ verdict = quick_agreement(replies[1].text, replies[2].text)
Fanned ==
  /\ phase # "chain" /\ late \subseteq 1..Len(replies)
  /\ phase = "begin" => replies = <<>>
  /\ phase = "raised" => replies = <<>> /\ SameSpec
  /\ phase # "begin" => worker \in [DOMAIN Submitted -> Worker]
  /\ phase # "begin" => Len(replies) <= Len(Submitted)
  /\ phase = "wait" => Len(replies) < Len(Submitted)
  /\ Over => Len(replies) = Len(Submitted)
  /\ \A i \in 1..Len(replies) : Given(i)
  /\ ~Over => verdict = "unknown"
  /\ Judged

RouterInv ==
  /\ RouterTypes
  /\ Sequential => InChain
  /\ ~Sequential => Fanned

-----------------------------------------------------------------------------
(***************************************************************************)
(* What is asked does not change while it is answered.                     *)
(***************************************************************************)

LEMMA Single ==
  \A x : /\ Len(<<x>>) = 1 /\ DOMAIN <<x>> = {1} /\ <<x>>[1] = x
         /\ \A S : x \in S => <<x>> \in Seq(S)
OBVIOUS

LEMMA SameRequest ==
  ASSUME UNCHANGED <<routes, request>>
  PROVE  /\ Chain' = Chain /\ Pair' = Pair /\ Submitted' = Submitted
         /\ (Sequential' <=> Sequential) /\ (SameSpec' <=> SameSpec)
         /\ \A i : Future(i)' = Future(i)
<1>1. Chain' = Chain /\ Pair' = Pair
  BY DEF Chain, Pair, chain_for, pair_for, Entry, OrElse
<1>2. (SameSpec' <=> SameSpec)
  BY <1>1 DEF SameSpec
<1>3. (Sequential' <=> Sequential)
  BY <1>1 DEF Sequential
<1>4. Submitted' = Submitted
  BY <1>1, <1>2 DEF Submitted
<1>5. \A i : Future(i)' = Future(i)
  BY <1>4 DEF Future
<1> QED BY <1>1, <1>2, <1>3, <1>4, <1>5

LEMMA EntryList ==
  ASSUME NEW section, Section(section), NEW task
  PROVE  List(Entry(section, task))
<1>1. List(<<>>)
  BY DEF List
<1>2. \A t \in DOMAIN section : List(section[t])
  BY DEF Section
<1> QED BY <1>1, <1>2 DEF Entry, OrElse

\* The worker that answers for the i-th spec was given this spec.
LEMMA FutureOfSpec ==
  ASSUME List(Submitted), NEW i \in DOMAIN Submitted
  PROVE  Future(i) \in DOMAIN Submitted /\ Submitted[Future(i)] = Submitted[i]
<1> DEFINE n == Len(Submitted)
           Same == {w \in DOMAIN Submitted : Submitted[w] = Submitted[i]}
           Below == {n - w : w \in Same}
<1>1. DOMAIN Submitted = 1..n /\ n \in Nat
  BY DEF List
<1>2. Below \in SUBSET Nat /\ Below # {}
  BY <1>1
<1>3. PICK r \in Below : \A q \in Below : r <= q
  BY <1>2, Least
<1>4. PICK w \in Same : r = n - w
  BY <1>3
<1>5. ASSUME NEW j \in Same PROVE j <= w
  <2>1. n - j \in Below /\ j \in Nat /\ w \in Nat /\ r \in Nat
    BY <1>1, <1>2
  <2> HIDE DEF n, Below, Same
  <2>2. n - w <= n - j
    BY <1>3, <1>4, <2>1
  <2> QED BY <1>1, <2>1, <2>2
<1>6. \A j \in DOMAIN Submitted : Submitted[j] = Submitted[i] => j <= w
  BY <1>5
<1>7. w \in DOMAIN Submitted /\ Submitted[w] = Submitted[i]
  BY <1>4
<1> HIDE DEF n, Same, Below
<1> QED BY <1>6, <1>7 DEF Future

LEMMA EndsOK ==
  /\ DryRun \notin Outcomes
  /\ \A why : ~Error(why).ok
  /\ Error("all providers failed") # DryRun
  /\ \A reply \in Outcomes : Ends(reply) <=> reply.ok
  /\ ~DryRun.ok /\ Ends(DryRun)
<1>1. \A why : ~Error(why).ok
  BY DEF Error
<1>2. ~DryRun.ok /\ DryRun.why = "dry-run" /\ Ends(DryRun)
  BY DEF DryRun, Error, Ends
<1>3. Error("all providers failed").why = "all providers failed"
  BY DEF Error
<1>4. ASSUME NEW reply \in Outcomes PROVE reply.why # "dry-run"
  <2>1. CASE reply \in Answers
    BY <2>1 DEF Answers, Ok
  <2>2. CASE reply \notin Answers
    <3>1. \/ reply = Error("build failed") \/ reply = Error("unavailable")
          \/ reply = Error("refused") \/ reply = Error("exception")
      BY <2>2 DEF Outcomes, Completions, Unavailable, Refused
    <3>2. \A why : Error(why).why = why
      BY DEF Error
    <3>3. \/ reply.why = "build failed" \/ reply.why = "unavailable"
          \/ reply.why = "refused" \/ reply.why = "exception"
      BY <3>1, <3>2, Zenon
    <3> QED BY <3>3
  <2> QED BY <2>1, <2>2, Zenon
<1> QED BY <1>1, <1>2, <1>3, <1>4 DEF Ends

LEMMA RouterInvInit == RouterInit => RouterInv
<1> SUFFICES ASSUME RouterInit PROVE RouterInv
  OBVIOUS
<1>1. Section(routes.chains) /\ Section(routes.pairs)
  <2>1. PICK file \in Files : routes = Load(file)
    BY DEF RouterInit
  <2>2. /\ Section(Default.chains) /\ Section(Default.pairs)
        /\ file # MissingFile => Section(file.chains) /\ Section(file.pairs)
    BY RouterAssumption
  <2> QED BY <2>1, <2>2 DEF Load, OrElse
<1>2. List(request.specs)
  <2>1. request.specs \in {<<>>} \cup Fanouts
    BY DEF RouterInit, RouterRequests
  <2>2. List(<<>>)
    BY DEF List
  <2> QED BY <2>1, <2>2, RouterAssumption
<1>3. List(Chain) /\ List(Pair)
  BY <1>1, EntryList DEF Chain, Pair, chain_for, pair_for
<1>4. List(Submitted)
  <2>1. List(<<>>) /\ List(<<Pair[1]>>)
    <3>1. \A x : <<x>> \in Seq(Range(<<x>>))
      BY DEF Range
    <3> QED BY <3>1 DEF List
  <2> QED BY <1>2, <1>3, <2>1 DEF Submitted
<1>5. RouterTypes
  BY <1>3, <1>4 DEF RouterInit, RouterTypes
<1>6. phase = "begin" /\ tried = <<>> /\ worker = <<>> /\ replies = <<>> /\ verdict = "unknown"
      /\ late = {} /\ Len(replies) = 0
  BY DEF RouterInit
<1>7. InChain
  BY <1>6 DEF InChain, Over
<1>8. Fanned
  BY <1>6 DEF Fanned, Over, Judged
<1> QED BY <1>5, <1>7, <1>8 DEF RouterInv

-----------------------------------------------------------------------------
LEMMA RouterBegin ==
  ASSUME RouterInv, Begin
  PROVE  RouterInv'
<1>1. /\ phase = "begin" /\ UNCHANGED <<routes, request, tried, verdict, late>>
      /\ Error("no providers") \in Reply
  BY DEF Begin, Reply
<1>2. /\ Chain' = Chain /\ Submitted' = Submitted /\ (Sequential' <=> Sequential)
      /\ (SameSpec' <=> SameSpec) /\ \A i : Future(i)' = Future(i)
  BY <1>1, SameRequest
<1>3. List(Chain) /\ List(Submitted) /\ Len(Chain) \in Nat /\ Len(Submitted) \in Nat
  BY DEF RouterInv, RouterTypes, List
<1>4. CASE Sequential
  <2>1. /\ phase' = (IF Chain = <<>> THEN "done" ELSE "chain")
        /\ replies' = (IF Chain = <<>> THEN <<Error("no providers")>> ELSE <<>>)
        /\ UNCHANGED worker
    BY <1>4 DEF Begin
  <2>2. tried = <<>> /\ late = {} /\ verdict = "unknown" /\ worker = <<>>
    BY <1>1, <1>4 DEF RouterInv, InChain
  <2>3. Chain # <<>> => Len(Chain) > 0
    BY <1>3 DEF List
  <2>6. replies' \in Seq(Reply) /\ <<>> \in Seq(Reply)
    <3> DEFINE e == Error("no providers")
    <3>1. e \in Reply
      BY <1>1
    <3> HIDE DEF e
    <3>2. <<e>> \in Seq(Reply) /\ <<>> \in Seq(Reply)
      BY <3>1, Single
    <3> QED BY <2>1, <3>2, Zenon DEF e
  <2>4. RouterTypes'
    BY <1>1, <1>2, <2>1, <2>6 DEF RouterInv, RouterTypes
  <2>7. Len(tried') = 0 /\ 1..0 = {}
    <3>1. tried' = <<>>
      BY <1>1, <2>2, Zenon
    <3> QED BY <3>1
  <2>8. NoneEnds(Len(tried))'
    BY <2>7 DEF NoneEnds
  <2>5. InChain'
    BY <1>1, <1>2, <1>3, <2>1, <2>2, <2>3, <2>7, <2>8 DEF InChain, Over, NoChain
  <2> QED BY <1>2, <1>4, <2>4, <2>5 DEF RouterInv
<1>5. CASE ~Sequential
  <2>1. /\ phase' = (IF Submitted = <<>> THEN "done" ELSE "wait")
        /\ worker' = [i \in DOMAIN Submitted |-> [NoWorker EXCEPT !.running = TRUE]]
        /\ UNCHANGED replies
    BY <1>5 DEF Begin
  <2>2. replies = <<>> /\ late = {} /\ verdict = "unknown" /\ Len(replies) = 0
    <3>1. replies = <<>> /\ verdict = "unknown" /\ late \subseteq 1..Len(replies)
      BY <1>1, <1>5 DEF RouterInv, Fanned, Over
    <3>2. Len(replies) = 0 /\ 1..0 = {}
      BY <3>1
    <3> QED BY <3>1, <3>2
  <2>3. [NoWorker EXCEPT !.running = TRUE] \in Worker
    BY DEF NoWorker, Worker, Reply
  <2>4. worker' \in [DOMAIN Submitted -> Worker]
    BY <2>1, <2>3
  <2>5. Submitted # <<>> => Len(Submitted) > 0
    BY <1>3 DEF List
  <2>6. RouterTypes'
    BY <1>1, <1>2, <2>1 DEF RouterInv, RouterTypes
  <2>7. Fanned'
    <3>1. 1..0 = {} /\ replies' = <<>> /\ Len(replies') = 0
      BY <2>1, <2>2
    <3>2. phase' = "wait" => 0 < Len(Submitted)
      BY <2>1, <2>5
    <3>3. Over' => Len(Submitted) = 0
      BY <2>1 DEF Over
    <3>4. phase' # "chain" /\ phase' # "begin" /\ phase' # "raised" /\ 0 <= Len(Submitted)
      BY <1>3, <2>1
    <3>5. \A i \in 1..Len(replies') : Given(i)'
      BY <3>1
    <3>6. Judged' /\ verdict' = "unknown" /\ late' = {}
      BY <1>1, <2>2 DEF Judged
    <3> QED BY <1>2, <2>4, <3>1, <3>2, <3>3, <3>4, <3>5, <3>6 DEF Fanned
  <2> QED BY <1>2, <1>5, <2>6, <2>7 DEF RouterInv
<1> QED BY <1>4, <1>5

LEMMA RouterTryNext ==
  ASSUME RouterInv, TryNext
  PROVE  RouterInv'
<1>1. phase = "chain" /\ UNCHANGED <<routes, request, worker, verdict, late>> /\ Sequential
  BY DEF TryNext, RouterInv, Fanned
<1>2. PICK reply \in Attempts :
        /\ tried' = Append(tried, reply)
        /\ IF Ends(reply) THEN phase' = "done" /\ replies' = <<reply>>
           ELSE IF Len(tried') = Len(Chain)
           THEN phase' = "done" /\ replies' = <<Error("all providers failed")>>
           ELSE UNCHANGED <<phase, replies>>
  BY DEF TryNext
<1>3. /\ Chain' = Chain /\ Submitted' = Submitted /\ (Sequential' <=> Sequential)
  BY <1>1, SameRequest
<1>4. /\ InChain /\ RouterTypes /\ Len(tried) < Len(Chain) /\ NoneEnds(Len(tried)) /\ replies = <<>>
      /\ Len(Chain) \in Nat /\ tried \in Seq(Outcomes \cup {DryRun}) /\ Len(tried) \in Nat
  BY <1>1 DEF RouterInv, InChain, RouterTypes, List
<1>5. reply \in Outcomes \cup {DryRun} /\ reply \in Reply
  BY DEF Attempts, Outcomes, Reply
<1>6. Ends(reply) => reply.ok \/ (request.mode = "dry_run" /\ reply = DryRun)
  BY EndsOK, <1>5 DEF Attempts
<1>7. /\ Len(tried') = Len(tried) + 1 /\ tried'[Len(tried')] = reply /\ Last(tried') = reply
      /\ tried' \in Seq(Outcomes \cup {DryRun}) /\ tried' # <<>>
      /\ \A i \in 1..Len(tried) : tried'[i] = tried[i]
  <2> DEFINE S == Outcomes \cup {DryRun}
  <2>1. tried \in Seq(S) /\ reply \in S /\ tried' = Append(tried, reply)
    BY <1>2, <1>4, <1>5
  <2> HIDE DEF S
  <2>2. /\ Len(tried') = Len(tried) + 1 /\ tried'[Len(tried')] = reply
        /\ tried' \in Seq(S) /\ \A i \in 1..Len(tried) : tried'[i] = tried[i]
    BY <2>1
  <2>3. tried' # <<>>
    BY <1>4, <2>2
  <2> QED BY <2>2, <2>3 DEF Last, S
<1>8. Error("all providers failed") \in Reply
  BY DEF Reply
<1>9. replies' \in Seq(Reply) /\ phase' \in {"chain", "done"}
  <2> DEFINE e == Error("all providers failed")
  <2>1. <<reply>> \in Seq(Reply) /\ <<e>> \in Seq(Reply) /\ <<>> \in Seq(Reply)
    <3>1. \A x \in Reply : <<x>> \in Seq(Reply)
      BY Single
    <3>2. <<>> \in Seq(Reply)
      OBVIOUS
    <3> QED BY <1>5, <1>8, <3>1, <3>2, Zenon
  <2>2. replies' \in {<<reply>>, <<e>>, <<>>} /\ phase' \in {"chain", "done"}
    BY <1>1, <1>2, <1>4, Zenon
  <2> HIDE DEF e
  <2> QED BY <2>1, <2>2
<1>10. RouterTypes'
  BY <1>1, <1>3, <1>4, <1>7, <1>9 DEF RouterTypes
<1>11. \A i \in 1..Len(tried) : ~Ends(tried'[i])
  BY <1>4, <1>7 DEF NoneEnds
<1>12. Chain # <<>>
  BY <1>4
<1>13. CASE Ends(reply)
  <2>1. phase' = "done" /\ replies' = <<reply>>
    BY <1>2, <1>13
  <2>2. Answered'
    BY <1>1, <1>3, <1>4, <1>6, <1>7, <1>11, <1>12, <1>13, <2>1 DEF Answered, NoneEnds
  <2> QED BY <1>1, <1>3, <1>4, <1>10, <2>1, <2>2 DEF RouterInv, InChain, Over
<1>14. CASE ~Ends(reply)
  <2>1. NoneEnds(Len(tried))' /\ \A i \in 1..Len(tried') : ~Ends(tried'[i])
    BY <1>4, <1>7, <1>11, <1>14 DEF NoneEnds
  <2>2. CASE Len(tried') = Len(Chain)
    <3>1. phase' = "done" /\ replies' = <<Error("all providers failed")>>
      BY <1>2, <1>14, <2>2
    <3>2. Exhausted'
      BY <1>3, <1>12, <2>1, <2>2, <3>1 DEF Exhausted, NoneEnds
    <3> QED BY <1>1, <1>3, <1>4, <1>10, <3>1, <3>2 DEF RouterInv, InChain, Over
  <2>3. CASE Len(tried') # Len(Chain)
    <3>1. UNCHANGED <<phase, replies>>
      BY <1>2, <1>14, <2>3
    <3>2. Len(tried') < Len(Chain)
      BY <1>4, <1>7, <2>3
    <3> QED BY <1>1, <1>3, <1>4, <1>10, <2>1, <3>1, <3>2 DEF RouterInv, InChain, Over, NoneEnds
  <2> QED BY <2>2, <2>3
<1> QED BY <1>13, <1>14

\* An exception leaves no reply, and ends no fan-out.
LEMMA RouterRaises ==
  ASSUME RouterInv, TryRaises \/ ResultRaises
  PROVE  RouterInv'
<1>1. /\ phase \in {"chain", "wait"} /\ phase' = "raised"
      /\ UNCHANGED <<routes, request, tried, worker, replies, verdict, late>>
  BY DEF TryRaises, ResultRaises
<1>2. /\ Chain' = Chain /\ Submitted' = Submitted /\ (Sequential' <=> Sequential)
      /\ (SameSpec' <=> SameSpec) /\ \A i : Future(i)' = Future(i)
  BY <1>1, SameRequest
<1>3. RouterTypes'
  BY <1>1, <1>2 DEF RouterInv, RouterTypes
<1>4. ASSUME Sequential PROVE InChain'
  <2>1. InChain /\ phase = "chain" /\ replies = <<>>
    BY <1>1, <1>4 DEF RouterInv, InChain
  <2> QED BY <1>1, <2>1 DEF InChain, Over
<1>5. ASSUME ~Sequential PROVE Fanned'
  <2>1. Fanned /\ phase = "wait" /\ SameSpec
    BY <1>1, <1>5 DEF RouterInv, Fanned, ResultRaises, TryRaises
  <2>2. Len(Submitted) = 1 /\ Len(replies) \in Nat
    <3>1. request.mode # "fanout" /\ Submitted = <<Pair[1]>>
      BY <2>1 DEF SameSpec, Submitted
    <3> QED BY <3>1, Single DEF RouterInv, RouterTypes
  <2>3. Len(replies) = 0
    BY <2>1, <2>2 DEF Fanned
  <2>4. replies = <<>>
    BY <2>3 DEF RouterInv, RouterTypes
  <2>5. \A i \in 1..Len(replies) : Given(i)'
    BY <2>3
  <2>6. Len(replies) <= Len(Submitted)
    BY <2>2, <2>3
  <2> QED BY <1>1, <1>2, <2>1, <2>4, <2>5, <2>6 DEF Fanned, Over, Judged
<1> QED BY <1>2, <1>3, <1>4, <1>5 DEF RouterInv

\* The next reply of a fan-out, and with the last one the verdict.
LEMMA RouterCollected ==
  ASSUME RouterInv, phase = "wait", NEW reply \in Reply,
         Collected(Append(replies, reply)), UNCHANGED <<routes, request, tried, worker>>,
         \/ late' = late /\ ~worker[Future(Turn)].running /\ reply = worker[Future(Turn)].reply
         \/ late' = late \cup {Turn} /\ ~reply.ok
  PROVE  RouterInv'
<1>1. /\ ~Sequential /\ Fanned /\ RouterTypes
      /\ replies \in Seq(Reply) /\ Len(replies) \in Nat /\ Len(Submitted) \in Nat
      /\ Len(replies) < Len(Submitted) /\ late \subseteq 1..Len(replies)
      /\ verdict = "unknown" /\ \A i \in 1..Len(replies) : Given(i)
  BY DEF RouterInv, InChain, Fanned, RouterTypes, Over, List
<1>2. /\ Chain' = Chain /\ Submitted' = Submitted /\ (Sequential' <=> Sequential)
      /\ (SameSpec' <=> SameSpec) /\ \A i : Future(i)' = Future(i)
  BY SameRequest
<1> DEFINE got == Append(replies, reply)
<1>3. /\ got \in Seq(Reply) /\ Len(got) = Len(replies) + 1 /\ got[Turn] = reply
      /\ \A i \in 1..Len(replies) : got[i] = replies[i]
  BY <1>1 DEF Turn
<1> HIDE DEF got
<1>4. /\ replies' = got /\ phase' = (IF Len(got) = Len(Submitted) THEN "done" ELSE "wait")
      /\ verdict' = IF request.mode = "pair" /\ Len(got) = Len(Submitted)
                    THEN Agreement(got) ELSE verdict
  BY DEF Collected, got
<1>5. verdict' \in {"unknown", "agree", "disagree", "partial"}
  BY <1>1, <1>4 DEF Agreement, quick_agreement
<1>6. RouterTypes'
  BY <1>1, <1>2, <1>3, <1>4, <1>5 DEF RouterTypes
<1>7. \A i \in 1..Len(replies') : Given(i)'
  <2> SUFFICES ASSUME NEW i \in 1..Len(replies') PROVE Given(i)'
    OBVIOUS
  <2>1. worker'[Future(i)'] = worker[Future(i)]
    BY <1>2
  <2>2. CASE i = Turn
    <3>1. replies'[i] = reply /\ i \notin late
      BY <1>1, <1>3, <1>4, <2>2 DEF Turn
    <3> QED BY <2>1, <2>2, <3>1 DEF Given
  <2>3. CASE i # Turn
    <3>1. i \in 1..Len(replies) /\ replies'[i] = replies[i] /\ (i \in late' <=> i \in late)
      BY <1>1, <1>3, <1>4, <2>3 DEF Turn
    <3>2. Given(i)
      BY <1>1, <3>1
    <3> QED BY <2>1, <3>1, <3>2 DEF Given
  <2> QED BY <2>2, <2>3
<1>8. Judged'
  <2> SUFFICES ASSUME verdict' # "unknown", ~SameSpec
               PROVE  /\ Len(got) = 2 /\ got[1].ok /\ got[2].ok
                      /\ verdict' = quick_agreement(got[1].text, got[2].text)
    BY <1>2, <1>4 DEF Judged, quick_agreement
  <2> QED BY <1>1, <1>4 DEF Agreement
<1>9. late' \subseteq 1..Len(replies')
  <2>1. Len(replies') = Len(replies) + 1 /\ Turn = Len(replies) + 1
    BY <1>3, <1>4 DEF Turn
  <2>2. 1..Len(replies) \subseteq 1..Len(replies') /\ Turn \in 1..Len(replies')
    BY <1>1, <2>1
  <2> QED BY <1>1, <2>2
<1>10. Fanned'
  BY <1>1, <1>2, <1>3, <1>4, <1>7, <1>8, <1>9 DEF Fanned, Over
<1> QED BY <1>1, <1>2, <1>6, <1>10 DEF RouterInv

LEMMA RouterDispatch ==
  ASSUME RouterInv, NEW w \in DOMAIN worker, Dispatch(w)
  PROVE  RouterInv'
<1>1. PICK reply \in Outcomes \cup {Raised} :
        worker' = [worker EXCEPT ![w] = [running |-> FALSE, reply |-> reply]]
  BY DEF Dispatch
<1>2. worker[w].running /\ UNCHANGED <<routes, request, phase, tried, replies, verdict, late>>
  BY DEF Dispatch
<1>3. /\ Chain' = Chain /\ Submitted' = Submitted /\ (Sequential' <=> Sequential)
      /\ (SameSpec' <=> SameSpec) /\ \A i : Future(i)' = Future(i)
  BY <1>2, SameRequest
<1>4. ~Sequential
  BY DEF RouterInv, InChain
<1>5. RouterTypes'
  BY <1>2, <1>3 DEF RouterInv, RouterTypes
<1>6. [running |-> FALSE, reply |-> reply] \in Worker
  BY DEF Worker, Reply
<1>7. phase # "begin" => worker' \in [DOMAIN Submitted -> Worker]
  BY <1>1, <1>4, <1>6 DEF RouterInv, Fanned
<1>8. ASSUME NEW i \in 1..Len(replies) PROVE Given(i)'
  <2>1. Given(i)
    BY <1>4 DEF RouterInv, Fanned
  <2>2. i \notin late => Future(i) # w
    BY <1>2, <2>1 DEF Given
  <2>3. i \notin late => worker'[Future(i)] = worker[Future(i)]
    <3>1. \A v : v # w => worker'[v] = worker[v]
      BY <1>1
    <3> QED BY <2>2, <3>1
  <2> QED BY <1>2, <1>3, <2>1, <2>3 DEF Given
<1>9. Fanned'
  BY <1>2, <1>3, <1>4, <1>7, <1>8 DEF RouterInv, Fanned, Over, Judged
<1> QED BY <1>3, <1>4, <1>5, <1>9 DEF RouterInv

LEMMA RouterInvNext == RouterInv /\ RouterNext => RouterInv'
<1> SUFFICES ASSUME RouterInv, RouterNext PROVE RouterInv'
  OBVIOUS
<1>1. CASE Begin
  BY <1>1, RouterBegin
<1>2. CASE TryNext
  BY <1>2, RouterTryNext
<1>3. ASSUME phase = "wait"
      PROVE  Turn \in 1..Len(Submitted) /\ worker[Future(Turn)] \in Worker
  <2>1. /\ ~Sequential /\ Fanned /\ Len(replies) \in Nat /\ List(Submitted)
        /\ Len(Submitted) \in Nat /\ DOMAIN Submitted = 1..Len(Submitted)
    BY <1>3 DEF RouterInv, InChain, RouterTypes, List
  <2>2. Turn \in DOMAIN Submitted /\ worker \in [DOMAIN Submitted -> Worker]
    BY <1>3, <2>1 DEF Fanned, Turn
  <2> QED BY <2>1, <2>2, FutureOfSpec
<1>4. CASE Result
  <2>1. worker[Future(Turn)].reply \in Reply
    BY <1>3, <1>4 DEF Result, Worker
  <2> QED BY <1>4, <2>1, RouterCollected DEF Result
<1>5. CASE Timeout
  <2>1. Error("executor timeout") \in Reply /\ ~Error("executor timeout").ok
    BY EndsOK DEF Reply
  <2> QED BY <1>5, <2>1, RouterCollected DEF Timeout
<1>6. CASE Exit
  <2>1. phase = "done" /\ phase' = "exited"
        /\ UNCHANGED <<routes, request, tried, worker, replies, verdict, late>>
    BY <1>6 DEF Exit
  <2>2. /\ Chain' = Chain /\ Submitted' = Submitted /\ (Sequential' <=> Sequential)
        /\ (SameSpec' <=> SameSpec) /\ \A i : Future(i)' = Future(i)
    BY <2>1, SameRequest
  <2>3. RouterTypes'
    BY <2>1, <2>2 DEF RouterInv, RouterTypes
  <2>4. InChain => InChain'
    BY <2>1, <2>2 DEF InChain, Over, Answered, Exhausted, NoChain, NoneEnds
  <2>5. Fanned => Fanned'
    BY <2>1, <2>2 DEF Fanned, Over, Judged, Given
  <2> QED BY <2>2, <2>3, <2>4, <2>5 DEF RouterInv
<1>7. CASE \E w \in DOMAIN worker : Dispatch(w)
  BY <1>7, RouterDispatch
<1>8. CASE TryRaises \/ ResultRaises
  BY <1>8, RouterRaises
<1> QED BY <1>1, <1>2, <1>4, <1>5, <1>6, <1>7, <1>8 DEF RouterNext

LEMMA RouterInvHolds == Spec => []RouterInv
<1>1. Init => RouterInv
  BY RouterInvInit DEF Init
<1>2. RouterInv /\ [Next]_vars => RouterInv'
  <2> SUFFICES ASSUME RouterInv, [Next]_vars PROVE RouterInv'
    OBVIOUS
  <2>1. RouterNext \/ UNCHANGED routerVars
    BY DEF Next, vars
  <2>2. CASE UNCHANGED routerVars
    <3>1. UNCHANGED <<routes, request, phase, tried, worker, replies, verdict, late>>
      BY <2>2 DEF routerVars
    <3>2. /\ Chain' = Chain /\ Submitted' = Submitted /\ (Sequential' <=> Sequential)
          /\ (SameSpec' <=> SameSpec) /\ \A i : Future(i)' = Future(i)
      BY <3>1, SameRequest
    <3>3. RouterTypes'
      BY <3>1, <3>2 DEF RouterInv, RouterTypes
    <3>4. InChain => InChain'
      BY <3>1, <3>2 DEF InChain, Over, Answered, Exhausted, NoChain, NoneEnds
    <3>5. Fanned => Fanned'
      BY <3>1, <3>2 DEF Fanned, Over, Judged, Given
    <3> QED BY <3>2, <3>3, <3>4, <3>5 DEF RouterInv
  <2> QED BY <2>1, <2>2, RouterInvNext
<1> QED BY <1>1, <1>2, PTL DEF Spec

\* For any routes, any request, any answers and any order of the workers and
\* the deadline: a fan-out replies for each spec in order, with what a worker
\* of this spec answered in time or an error; a chain stops at its first
\* answer and fails only when all have failed; a verdict is about two answers
\* and does not depend on their roles.
THEOREM RepliesTrueCorrect == Spec => []RepliesTrue
<1>1. ASSUME RouterInv PROVE RepliesTrue
  <2>1. /\ List(Submitted) /\ Len(Submitted) \in Nat /\ DOMAIN Submitted = 1..Len(Submitted)
        /\ replies \in Seq(Reply) /\ DOMAIN replies = 1..Len(replies) /\ Len(tried) \in Nat
        /\ tried \in Seq(Outcomes \cup {DryRun}) /\ DOMAIN tried = 1..Len(tried)
    BY <1>1 DEF RouterInv, RouterTypes, List
  <2>2. ASSUME Over, ~Sequential, NEW i \in DOMAIN replies
        PROVE  \E w \in DOMAIN Submitted :
                 /\ Submitted[w] = Submitted[i]
                 /\ IF i \in late THEN ~replies[i].ok
                    ELSE ~worker[w].running /\ replies[i] = worker[w].reply
    <3>1. i \in DOMAIN Submitted /\ Given(i)
      BY <1>1, <2>1, <2>2 DEF RouterInv, Fanned
    <3>2. Future(i) \in DOMAIN Submitted /\ Submitted[Future(i)] = Submitted[i]
      BY <2>1, <3>1, FutureOfSpec
    <3> QED BY <3>1, <3>2 DEF Given
  <2>3. ASSUME Over, ~Sequential PROVE Len(replies) = Len(Submitted)
    BY <1>1, <2>3 DEF RouterInv, Fanned
  <2>4. ASSUME Over, Sequential
        PROVE  /\ \A i \in 1..(Len(tried) - 1) : ~Ends(tried[i])
               /\ IF Chain # <<>> /\ ExitStatus = 0 THEN replies[1] = Last(tried) /\ Ends(replies[1])
                  ELSE Len(tried) = Len(Chain) /\ \A i \in DOMAIN tried : ~Ends(tried[i])
    <3>1. Answered \/ Exhausted \/ NoChain
      BY <1>1, <2>4 DEF RouterInv, InChain
    <3>2. CASE Answered
      <4>1. replies[1] = Last(tried) /\ 1 \in DOMAIN replies
        BY <3>2 DEF Answered
      <4>2. Ends(replies[1])
        BY <3>2, <4>1 DEF Answered, Ends
      <4>3. ExitStatus = 0
        BY <3>2, <4>1, EndsOK DEF Answered, ExitStatus
      <4> QED BY <3>2, <4>1, <4>2, <4>3 DEF Answered, NoneEnds
    <3>3. CASE Exhausted
      <4>1. replies[1] = Error("all providers failed") /\ DOMAIN replies = {1}
        BY <3>3, Single DEF Exhausted
      <4>2. ExitStatus = 1
        BY <4>1, EndsOK DEF ExitStatus
      <4>3. Len(tried) = Len(Chain) /\ \A i \in DOMAIN tried : ~Ends(tried[i])
        BY <2>1, <3>3 DEF Exhausted, NoneEnds
      <4>4. \A i \in 1..(Len(tried) - 1) : i \in DOMAIN tried
        BY <2>1
      <4> QED BY <4>2, <4>3, <4>4
    <3>4. CASE NoChain
      BY <3>4 DEF NoChain
    <3> QED BY <3>1, <3>2, <3>3, <3>4
  <2>5. ASSUME verdict # "unknown", ~SameSpec
        PROVE  /\ replies[1].ok /\ replies[2].ok
               /\ verdict = quick_agreement(replies[2].text, replies[1].text)
    <3>1. \A a, b : quick_agreement(a, b) = quick_agreement(b, a)
      BY DEF quick_agreement
    <3> QED BY <1>1, <2>5, <3>1 DEF RouterInv, InChain, Fanned, Judged
  <2>6. ASSUME phase = "raised" PROVE replies = <<>> /\ verdict = "unknown" /\ (Sequential \/ SameSpec)
    BY <1>1, <2>6 DEF RouterInv, InChain, Fanned, Over
  <2> QED BY <2>2, <2>3, <2>4, <2>5, <2>6 DEF RepliesTrue
<1> QED BY <1>1, RouterInvHolds, PTL
-----------------------------------------------------------------------------
(***************************************************************************)
(* ReleaseGate: the inductive invariant.                                   *)
(***************************************************************************)

Issue == [id : Nat, kind : AllKinds]

GateTypes ==
  /\ tickets \in Seq(Issue) /\ listed \in Seq(Issue)
  /\ report \in {"gate", "wip", "get"}
  /\ at \in {"lookup", "page", "listed", "done", "failed"}
  /\ pages \in 0..PageCap
  /\ exitCode \in {0, 1}
  /\ changes \in Nat
  /\ List(verdicts)
  /\ shrunk \in BOOLEAN /\ grown \in BOOLEAN

\* Ids are of one ticket only, and are not used again.
Unique ==
  /\ \A i, j \in 1..Len(tickets) : tickets[i].id = tickets[j].id => i = j
  /\ \A i \in 1..Len(tickets) : tickets[i].id < 100 + changes

\* Between two pages: the part of the board before the offset has been read
\* if nothing was removed, and the part after it has not if nothing was added.
Steady == IsFiniteSet(steady) /\ \A t \in steady : \E i \in 1..Len(tickets) : tickets[i] = t
Listed(t) == \E i \in 1..Len(listed) : listed[i] = t
InPages ==
  /\ Len(listed) = pages * Limit /\ pages < PageCap
  /\ ~shrunk => \A i \in 1..Len(tickets) : i <= Len(listed) /\ tickets[i] \in steady => Listed(tickets[i])
  /\ ~grown => \A i \in 1..Len(tickets), j \in 1..Len(listed) :
                 i > Len(listed) => tickets[i].id # listed[j].id
Once == \A i, j \in 1..Len(listed) : listed[i].id = listed[j].id => i = j
Complete == Missed \/ \A t \in steady : Listed(t)

\* What the report says is true of the listing it was made from.
VerdictOK(kind, v, code) ==
  /\ IsFiniteSet(v.steady)
  /\ kind = "gate" => v.passed \subseteq Gates
  /\ \/ v.missed
     \/ CASE kind = "gate" ->
               \A g \in v.passed, t \in v.steady : t.kind.project = v.what => ~Offends(t.kind)[g]
          [] kind = "wip" ->
               LET stayed == [t \in v.steady |-> t]
               IN /\ \A e \in Engineers(stayed) : Overflow(stayed, e) => e \in v.passed
                  /\ code = 0 => \A t \in v.steady : ~Stale(t.kind)
          [] OTHER -> v.passed = {} => \A t \in v.steady : t.id # v.what

GateInv ==
  /\ GateTypes /\ Unique /\ Steady
  /\ at = "page" => InPages
  /\ at \in {"page", "listed"} /\ ~grown => Once
  /\ at = "listed" => Complete
  /\ report # "gate" => at # "lookup" /\ (at # "done" => verdicts = <<>>)
  /\ \A i \in 1..Len(verdicts) : VerdictOK(report, verdicts[i], exitCode)
  /\ at = "done" /\ report = "gate" /\ exitCode = 0 => verdicts = <<>>

-----------------------------------------------------------------------------
(***************************************************************************)
(* Sequences and counts.                                                   *)
(***************************************************************************)

LEMMA ListAppend ==
  ASSUME NEW s, List(s), NEW x
  PROVE  /\ List(Append(s, x)) /\ Len(s) \in Nat /\ Len(Append(s, x)) = Len(s) + 1
         /\ Append(s, x)[Len(s) + 1] = x
         /\ \A i \in 1..Len(s) : Append(s, x)[i] = s[i]
<1> DEFINE S == Range(s) \cup {x}
           t == Append(s, x)
<1>1. s \in Seq(S) /\ x \in S
  BY SeqMonotonic DEF List
<1> HIDE DEF S
<1>2. /\ Len(s) \in Nat /\ Len(t) = Len(s) + 1 /\ t[Len(s) + 1] = x
      /\ \A i \in 1..Len(s) : t[i] = s[i]
      /\ t \in [1..Len(t) -> S]
  <2>1. t \in Seq(S) /\ Len(s) \in Nat /\ Len(t) = Len(s) + 1
    BY <1>1
  <2>2. t[Len(s) + 1] = x /\ \A i \in 1..Len(s) : t[i] = s[i]
    BY <1>1
  <2>3. t \in [1..Len(t) -> S]
    BY <2>1, LenProperties
  <2> QED BY <2>1, <2>2, <2>3
<1> HIDE DEF t
<1>3. t \in [1..Len(t) -> Range(t)] /\ Len(t) \in Nat
  BY <1>2 DEF Range
<1>4. t \in Seq(Range(t))
  BY <1>3
<1> QED BY <1>2, <1>4 DEF List, t

\* Things that are all on a list are no more than their places on it.
LEMMA Places ==
  ASSUME NEW s, NEW n \in Nat, NEW A, \A t \in A : \E i \in 1..n : s[i] = t,
         NEW B \in SUBSET (1..n), \A i \in 1..n : s[i] \in A => i \in B
  PROVE  Cardinality(A) \in Nat /\ Cardinality(B) \in Nat /\ Cardinality(A) <= Cardinality(B)
<1> DEFINE place == [t \in A |-> CHOOSE i \in 1..n : s[i] = t]
<1>1. \A t \in A : place[t] \in 1..n /\ s[place[t]] = t
  OBVIOUS
<1>2. place \in [A -> B]
  BY <1>1
<1>3. IsInjective(place)
  BY <1>1, <1>2 DEF IsInjective
<1>4. place \in Injection(A, B)
  BY <1>2, <1>3 DEF Injection
<1>5. IsFiniteSet(B)
  <2>1. IsFiniteSet(1..n)
    BY FS_Interval
  <2> QED BY <2>1, FS_Subset
<1> HIDE DEF place
<1> QED BY <1>4, <1>5, FS_Injection, FS_CardinalityType

\* What is too much of the tickets that stayed is too much of the listing.
LEMMA OverflowListed ==
  ASSUME listed \in Seq(Issue), NEW S, \A t \in S : Listed(t), NEW e,
         Overflow([t \in S |-> t], e)
  PROVE  Overflow(listed, e)
<1> DEFINE stayed == [t \in S |-> t]
           A == ActiveOf(stayed, e)
           B == ActiveOf(listed, e)
           AX == {t \in A : "effort:XL" \in stayed[t].kind.labels}
           BX == {i \in B : "effort:XL" \in listed[i].kind.labels}
           n == Len(listed)
<1>1. n \in Nat /\ DOMAIN listed = 1..n
  OBVIOUS
<1>2. \A t \in S : \E i \in 1..n : listed[i] = t
  BY DEF Listed
<1>3. A = {t \in S : t.kind.assignee = e /\ is_active(t.kind)}
  BY DEF ActiveOf
<1>4. B = {i \in 1..n : listed[i].kind.assignee = e /\ is_active(listed[i].kind)}
  BY <1>1 DEF ActiveOf
<1>5. AX = {t \in A : "effort:XL" \in t.kind.labels}
  BY <1>3
<1>6. BX = {i \in B : "effort:XL" \in listed[i].kind.labels}
  OBVIOUS
<1>7. Cardinality(A) > MaxWork \/ Cardinality(AX) > MaxXL
  BY DEF Overflow
<1> HIDE DEF stayed, A, B, AX, BX, n
<1>8. Cardinality(A) \in Nat /\ Cardinality(B) \in Nat /\ Cardinality(A) <= Cardinality(B)
  <2>1. \A t \in A : \E i \in 1..n : listed[i] = t
    BY <1>2, <1>3
  <2>2. B \in SUBSET (1..n) /\ \A i \in 1..n : listed[i] \in A => i \in B
    BY <1>3, <1>4
  <2> QED BY <1>1, <2>1, <2>2, Places
<1>9. Cardinality(AX) \in Nat /\ Cardinality(BX) \in Nat /\ Cardinality(AX) <= Cardinality(BX)
  <2>1. \A t \in AX : \E i \in 1..n : listed[i] = t
    BY <1>2, <1>3, <1>5
  <2>2. BX \in SUBSET (1..n) /\ \A i \in 1..n : listed[i] \in AX => i \in BX
    BY <1>3, <1>4, <1>5, <1>6
  <2> QED BY <1>1, <2>1, <2>2, Places
<1>10. Cardinality(B) > MaxWork \/ Cardinality(BX) > MaxXL
  BY <1>7, <1>8, <1>9, GateAssumption
<1> QED BY <1>10 DEF Overflow, B, BX

-----------------------------------------------------------------------------
LEMMA BoardSteady ==
  ASSUME NEW s \in Seq(Issue)
  PROVE  /\ IsFiniteSet(Range(s))
         /\ \A t : t \in Range(s) <=> \E i \in 1..Len(s) : s[i] = t
<1> DEFINE n == Len(s)
<1>1. n \in Nat /\ DOMAIN s = 1..n
  OBVIOUS
<1>2. \A t : t \in Range(s) <=> \E i \in 1..n : s[i] = t
  BY <1>1 DEF Range
<1>3. IsFiniteSet(Range(s))
  <2>1. IsFiniteSet(1..n)
    BY <1>1, FS_Interval
  <2>2. [i \in 1..n |-> s[i]] \in Surjection(1..n, Range(s))
    BY <1>2 DEF Surjection
  <2> QED BY <2>1, <2>2, FS_Surjection
<1> QED BY <1>2, <1>3

LEMMA GateInvInit == GateInit => GateInv
<1> SUFFICES ASSUME GateInit PROVE GateInv
  OBVIOUS
<1>1. /\ tickets \in StartBoards /\ report \in {"gate", "wip", "get"}
      /\ at = (IF report = "gate" THEN "lookup" ELSE "page")
      /\ listed = <<>> /\ pages = 0 /\ verdicts = <<>> /\ exitCode = 0 /\ changes = 0
      /\ steady = Range(tickets) /\ shrunk = FALSE /\ grown = FALSE
  BY DEF GateInit
<1>2. tickets \in Seq([id : 0..99, kind : AllKinds]) /\ IsInjective(Ids(tickets))
  BY <1>1, GateAssumption
<1>3. tickets \in Seq(Issue)
  <2>1. [id : 0..99, kind : AllKinds] \subseteq Issue
    BY DEF Issue
  <2> QED BY <1>2, <2>1, SeqMonotonic
<1>4. List(verdicts) /\ Len(verdicts) = 0 /\ Len(listed) = 0 /\ listed \in Seq(Issue)
  BY <1>1 DEF List
<1>5. GateTypes
  <2>1. 0 \in 0..PageCap
    BY GateAssumption
  <2> QED BY <1>1, <1>3, <1>4, <2>1 DEF GateTypes
<1>6. Unique
  <2>1. \A i \in 1..Len(tickets) : tickets[i].id \in 0..99
    <3> DEFINE S == [id : 0..99, kind : AllKinds]
    <3>1. \A t \in S : t.id \in 0..99
      OBVIOUS
    <3>2. tickets \in Seq(S)
      BY <1>2
    <3> HIDE DEF S
    <3>3. \A i \in 1..Len(tickets) : tickets[i] \in S
      BY <3>2
    <3> QED BY <3>1, <3>3
  <2>2. DOMAIN tickets = 1..Len(tickets)
    BY <1>3
  <2>3. \A i, j \in 1..Len(tickets) : tickets[i].id = tickets[j].id => i = j
    BY <1>2, <2>2 DEF IsInjective, Ids
  <2>4. \A i \in 1..Len(tickets) : tickets[i].id < 100 + changes
    <3>1. changes = 0
      BY <1>1, Zenon
    <3>2. \A x \in 0..99 : x < 100 + changes
      BY <3>1
    <3> QED BY <2>1, <3>2, Zenon
  <2> QED BY <2>3, <2>4 DEF Unique
<1>7. Steady
  BY <1>1, <1>3, BoardSteady DEF Steady
<1>8. InPages /\ Once
  <2>1. 0 * Limit = 0 /\ 0 < PageCap
    BY GateAssumption
  <2> QED BY <1>1, <1>4, <2>1 DEF InPages, Once
<1> QED BY <1>1, <1>4, <1>5, <1>6, <1>7, <1>8 DEF GateInv

-----------------------------------------------------------------------------
(***************************************************************************)
(* A page.                                                                 *)
(***************************************************************************)

\* What GetPage appends is the board from the offset on, up to the limit.
LEMMA Batch ==
  ASSUME tickets \in Seq(Issue), NEW o \in Nat
  PROVE  LET rest == SubSeq(tickets, o + 1, Len(tickets))
             batch == SubSeq(rest, 1, IF Len(rest) < Limit THEN Len(rest) ELSE Limit)
         IN /\ batch \in Seq(Issue) /\ Len(batch) \in 0..Limit
            /\ Len(batch) < Limit => o + Len(batch) >= Len(tickets)
            /\ \A i \in 1..Len(batch) : o + i <= Len(tickets) /\ batch[i] = tickets[o + i]
<1> DEFINE n == Len(tickets)
           rest == SubSeq(tickets, o + 1, n)
           m == IF Len(rest) < Limit THEN Len(rest) ELSE Limit
           batch == SubSeq(rest, 1, m)
<1>1. n \in Nat /\ \A i \in (o + 1)..n : tickets[i] \in Issue
  OBVIOUS
<1>2. /\ rest \in Seq(Issue) /\ Len(rest) = (IF o + 1 <= n THEN n - o ELSE 0)
      /\ \A i \in 1..(n - o) : rest[i] = tickets[o + i]
  <2> HIDE DEF n, rest
  <2>1. /\ SubSeq(tickets, o + 1, n) \in Seq(Issue)
        /\ Len(SubSeq(tickets, o + 1, n)) = IF o + 1 <= n THEN n - (o + 1) + 1 ELSE 0
        /\ \A i \in 1..(n - (o + 1) + 1) : SubSeq(tickets, o + 1, n)[i] = tickets[o + 1 + i - 1]
    BY <1>1, SubSeqProperties
  <2> QED BY <1>1, <2>1 DEF rest
<1> HIDE DEF n, rest
<1>3. m \in Nat /\ m <= Limit /\ m <= Len(rest) /\ Len(rest) \in Nat /\ Limit \in Nat \ {0}
  BY <1>1, <1>2, GateAssumption
<1>4. m < Limit => m = Len(rest)
  BY <1>3
<1> HIDE DEF m
<1>5. /\ batch \in Seq(Issue) /\ Len(batch) = m /\ \A i \in 1..m : batch[i] = rest[i]
  <2>1. \A i \in 1..m : rest[i] \in Issue
    BY <1>2, <1>3
  <2>2. /\ SubSeq(rest, 1, m) \in Seq(Issue)
        /\ Len(SubSeq(rest, 1, m)) = IF 1 <= m THEN m - 1 + 1 ELSE 0
        /\ \A i \in 1..(m - 1 + 1) : SubSeq(rest, 1, m)[i] = rest[1 + i - 1]
    BY <1>3, <2>1, SubSeqProperties
  <2>3. \A i \in 1..m : i \in 1..(m - 1 + 1) /\ 1 + i - 1 = i
    BY <1>3
  <2> QED BY <1>3, <2>2, <2>3
<1> HIDE DEF batch
<1>6. Len(batch) \in 0..Limit /\ (Len(batch) < Limit => o + Len(batch) >= n)
  BY <1>1, <1>2, <1>3, <1>4, <1>5
<1>7. \A i \in 1..Len(batch) : o + i <= n /\ batch[i] = tickets[o + i]
  <2> SUFFICES ASSUME NEW i \in 1..Len(batch) PROVE o + i <= n /\ batch[i] = tickets[o + i]
    OBVIOUS
  <2>1. i \in Nat /\ i <= m /\ i <= Len(rest) /\ i \in 1..m /\ i >= 1
    BY <1>3, <1>5
  <2>2. o + 1 <= n /\ i <= n - o
    BY <1>1, <1>2, <2>1
  <2>3. i \in 1..(n - o)
    BY <1>1, <2>1, <2>2
  <2> QED BY <1>1, <1>2, <1>5, <2>1, <2>2, <2>3
<1> QED BY <1>5, <1>6, <1>7 DEF n, rest, m, batch

LEMMA GatePage ==
  ASSUME GateInv, GetPage
  PROVE  GateInv'
<1> DEFINE o == Len(listed)
           n == Len(tickets)
           rest == SubSeq(tickets, o + 1, n)
           batch == SubSeq(rest, 1, IF Len(rest) < Limit THEN Len(rest) ELSE Limit)
           full == o + Len(batch)
<1>1. /\ at = "page" /\ pages' = pages + 1
      /\ UNCHANGED <<tickets, report, milestones, verdicts, exitCode, changes, steady, shrunk, grown>>
  BY DEF GetPage, historyVars
<1>2. PICK total \in Total(n) :
        /\ listed' = listed \o batch
        /\ at' = IF LastPage(batch, total) \/ pages + 1 = PageCap THEN "listed" ELSE "page"
  BY DEF GetPage
<1>3. /\ GateTypes /\ Unique /\ Steady /\ InPages
      /\ tickets \in Seq(Issue) /\ listed \in Seq(Issue) /\ n \in Nat /\ o \in Nat
      /\ o = pages * Limit /\ pages \in Nat /\ pages < PageCap
      /\ Limit \in Nat \ {0} /\ PageCap \in Nat \ {0}
  BY <1>1, GateAssumption DEF GateInv, GateTypes, InPages
<1>4. /\ batch \in Seq(Issue) /\ Len(batch) \in 0..Limit
      /\ Len(batch) < Limit => o + Len(batch) >= n
      /\ \A i \in 1..Len(batch) : o + i <= n /\ batch[i] = tickets[o + i]
  BY <1>3, Batch
<1> HIDE DEF rest, batch
<1>5. full \in Nat /\ (LastPage(batch, total) => full >= n)
  <2>1. full \in Nat
    BY <1>3, <1>4
  <2>2. total = n \/ total = NoTotal
    BY DEF Total
  <2> QED BY <1>3, <1>4, <2>1, <2>2 DEF LastPage
<1>6. ~LastPage(batch, total) => full = (pages + 1) * Limit
  <2>1. ~LastPage(batch, total) => Len(batch) = Limit
    BY <1>3, <1>4 DEF LastPage
  <2>2. (pages + 1) * Limit = pages * Limit + Limit
    BY <1>3
  <2> QED BY <1>3, <2>1, <2>2
<1>7. /\ listed' \in Seq(Issue) /\ Len(listed') = full /\ full >= o
      /\ \A i \in 1..o : listed'[i] = listed[i]
      /\ \A i \in (o + 1)..full : i \in 1..n /\ listed'[i] = tickets[i]
  <2>1. /\ listed' \in Seq(Issue) /\ Len(listed') = full
        /\ \A i \in 1..(o + Len(batch)) :
             listed'[i] = IF i <= o THEN listed[i] ELSE batch[i - o]
    <3>1. /\ listed \o batch \in Seq(Issue) /\ Len(listed \o batch) = Len(listed) + Len(batch)
          /\ \A i \in 1..(Len(listed) + Len(batch)) :
               (listed \o batch)[i] = IF i <= Len(listed) THEN listed[i] ELSE batch[i - Len(listed)]
      BY <1>3, <1>4, ConcatProperties
    <3> QED BY <1>2, <3>1
  <2>2. Len(batch) \in Nat
    BY <1>4
  <2>3. \A i \in 1..o : listed'[i] = listed[i]
    BY <1>3, <2>1, <2>2
  <2>4. ASSUME NEW i \in (o + 1)..full PROVE i \in 1..n /\ listed'[i] = tickets[i]
    <3>1. i - o \in 1..Len(batch) /\ i \in 1..(o + Len(batch)) /\ ~(i <= o) /\ i = o + (i - o)
      BY <1>3, <2>2
    <3>2. o + (i - o) <= n /\ batch[i - o] = tickets[o + (i - o)]
      BY <1>4, <3>1
    <3> QED BY <1>3, <2>1, <3>1, <3>2
  <2> QED BY <1>3, <2>1, <2>2, <2>3, <2>4
<1> HIDE DEF full, o, n
<1>8. \A i \in 1..full : (i \in 1..o /\ listed'[i] = listed[i])
                         \/ (i > o /\ i \in 1..n /\ listed'[i] = tickets[i])
  <2> SUFFICES ASSUME NEW i \in 1..full, ~(i \in 1..o) PROVE i \in (o + 1)..full
    BY <1>3, <1>5, <1>7
  <2> QED BY <1>3, <1>5
<1>9. \A t : Listed(t) => Listed(t)'
  <2> SUFFICES ASSUME NEW t, NEW i \in 1..o, listed[i] = t PROVE Listed(t)'
    BY DEF Listed, o
  <2>1. i \in 1..full /\ listed'[i] = t
    BY <1>3, <1>5, <1>7
  <2> QED BY <1>7, <2>1 DEF Listed
<1>10. ASSUME ~shrunk, NEW t \in steady, NEW i \in 1..n, i <= full, tickets[i] = t
       PROVE  Listed(t)'
  <2>1. CASE i <= o
    <3>1. Listed(t)
      BY <1>3, <1>10, <2>1 DEF InPages, n, o
    <3> QED BY <1>9, <3>1
  <2>2. CASE ~(i <= o)
    <3>1. i \in (o + 1)..full /\ i \in 1..full
      BY <1>3, <1>5, <1>10, <2>2
    <3>2. listed'[i] = t /\ i \in 1..Len(listed')
      BY <1>7, <1>10, <3>1
    <3> QED BY <3>2 DEF Listed
  <2> QED BY <2>1, <2>2
<1>11. ASSUME ~grown PROVE Once'
  <2> SUFFICES ASSUME NEW i \in 1..full, NEW j \in 1..full, listed'[i].id = listed'[j].id
               PROVE  i = j
    BY <1>7 DEF Once
  <2>1. CASE i \in 1..o /\ j \in 1..o
    BY <1>1, <1>7, <1>11, <2>1 DEF GateInv, Once, o
  <2>2. CASE i \notin 1..o /\ j \notin 1..o
    BY <1>3, <1>8, <2>2 DEF Unique, n
  <2>3. CASE i \in 1..o /\ j \notin 1..o
    <3>1. j > o /\ j \in 1..n /\ listed'[j] = tickets[j] /\ listed'[i] = listed[i]
      BY <1>7, <1>8, <2>3
    <3> QED BY <1>3, <1>11, <2>3, <3>1 DEF InPages, n, o
  <2>4. CASE i \notin 1..o /\ j \in 1..o
    <3>1. i > o /\ i \in 1..n /\ listed'[i] = tickets[i] /\ listed'[j] = listed[j]
      BY <1>7, <1>8, <2>4
    <3> QED BY <1>3, <1>11, <2>4, <3>1 DEF InPages, n, o
  <2> QED BY <2>1, <2>2, <2>3, <2>4
<1>12. ASSUME at' = "page" PROVE InPages'
  <2>1. ~LastPage(batch, total) /\ pages + 1 # PageCap
    BY <1>2, <1>12
  <2>2. full = pages' * Limit /\ pages' < PageCap
    BY <1>1, <1>3, <1>6, <2>1
  <2>3. ASSUME ~grown, NEW i \in 1..n, NEW j \in 1..full, i > full
        PROVE  tickets[i].id # listed'[j].id
    <3>1. i > o /\ i # j
      BY <1>3, <1>5, <1>7, <2>3
    <3>2. CASE j \in 1..o
      BY <1>3, <1>7, <2>3, <3>1, <3>2 DEF InPages, n, o
    <3>3. CASE j \notin 1..o
      BY <1>3, <1>8, <3>1, <3>3 DEF Unique, n
    <3> QED BY <3>2, <3>3
  <2>4. ASSUME ~shrunk, NEW i \in 1..n, i <= full, tickets[i] \in steady
        PROVE  Listed(tickets[i])'
    <3>1. PICK t \in steady : t = tickets[i]
      BY <2>4
    <3>2. Listed(t)'
      BY <1>10, <2>4, <3>1
    <3> QED BY <1>1, <3>1, <3>2
  <2> QED BY <1>1, <1>7, <2>2, <2>3, <2>4 DEF InPages, n
<1>13. ASSUME at' = "listed" PROVE Complete'
  <2>1. CASE shrunk
    BY <1>1, <2>1 DEF Complete, Missed
  <2>2. CASE LastPage(batch, total) /\ ~shrunk
    <3>1. full >= n
      BY <1>5, <2>2
    <3>2. ASSUME NEW t \in steady PROVE Listed(t)'
      <4>1. PICK i \in 1..n : tickets[i] = t
        BY <1>3 DEF Steady, n
      <4>2. i <= full
        BY <1>3, <1>5, <3>1
      <4> QED BY <1>10, <2>2, <4>1, <4>2
    <3> QED BY <1>1, <3>2 DEF Complete
  <2>3. CASE ~LastPage(batch, total)
    <3>1. pages + 1 = PageCap
      BY <1>2, <1>13, <2>3
    <3>2. full = PageCap * Limit
      BY <1>6, <2>3, <3>1
    <3> QED BY <1>7, <3>2 DEF Complete, Missed
  <2> QED BY <2>1, <2>2, <2>3
<1>14. GateTypes'
  <2>1. pages + 1 \in 0..PageCap
    BY <1>3
  <2> QED BY <1>1, <1>2, <1>3, <1>7, <2>1 DEF GateTypes
<1>15. at' \in {"page", "listed"}
  BY <1>2
<1>16. Unique' /\ Steady'
  BY <1>1, <1>3 DEF Unique, Steady
<1> QED BY <1>1, <1>11, <1>12, <1>13, <1>14, <1>15, <1>16 DEF GateInv

-----------------------------------------------------------------------------
(***************************************************************************)
(* Verdicts.                                                               *)
(***************************************************************************)

LEMMA GateVerdict ==
  ASSUME GateInv, NEW what, NEW passed, verdicts' = Verdict(what, passed), report' = report,
         VerdictOK(report, [what |-> what, passed |-> passed, missed |-> Missed, steady |-> steady],
                   exitCode'),
         report # "gate" => at # "done"
  PROVE  List(verdicts)' /\ \A i \in 1..Len(verdicts') : VerdictOK(report', verdicts'[i], exitCode')
<1> DEFINE v == [what |-> what, passed |-> passed, missed |-> Missed, steady |-> steady]
           n == Len(verdicts)
<1>1. verdicts' = Append(verdicts, v) /\ List(verdicts)
  BY DEF Verdict, GateInv, GateTypes
<1>2. VerdictOK(report, v, exitCode')
  OBVIOUS
<1> HIDE DEF v
<1>3. /\ List(verdicts') /\ n \in Nat /\ Len(verdicts') = n + 1 /\ verdicts'[n + 1] = v
      /\ \A i \in 1..n : verdicts'[i] = verdicts[i]
  BY <1>1, ListAppend
<1>4. ASSUME NEW i \in 1..Len(verdicts') PROVE VerdictOK(report', verdicts'[i], exitCode')
  <2>1. CASE i = n + 1
    BY <1>2, <1>3, <2>1
  <2>2. CASE i # n + 1
    <3>1. i \in 1..n
      BY <1>3, <2>2
    <3>2. report = "gate" /\ VerdictOK(report, verdicts[i], exitCode)
      <4>1. verdicts # <<>>
        BY <3>1
      <4> QED BY <3>1, <4>1 DEF GateInv
    <3>3. VerdictOK("gate", verdicts[i], exitCode')
      BY <3>2 DEF VerdictOK
    <3> QED BY <1>3, <3>1, <3>2, <3>3
  <2> QED BY <2>1, <2>2
<1>5. List(verdicts)'
  BY <1>3 DEF List
<1> QED BY <1>4, <1>5

\* Steps that leave the board, the listing and what is known of it alone.
Still == UNCHANGED <<tickets, report, listed, pages, changes, steady, shrunk, grown>>

LEMMA GateStill ==
  ASSUME GateInv, Still, at' \in {"lookup", "done", "failed"}, exitCode' \in {0, 1},
         report # "gate" => at' # "lookup",
         \/ UNCHANGED verdicts /\ (report # "gate" => at' = "failed" /\ at # "done")
         \/ report # "gate" => at' = "done",
         List(verdicts)', \A i \in 1..Len(verdicts') : VerdictOK(report', verdicts'[i], exitCode'),
         at' = "done" /\ report = "gate" /\ exitCode' = 0 => verdicts' = <<>>
  PROVE  GateInv'
<1>1. UNCHANGED <<tickets, report, listed, pages, changes, steady, shrunk, grown>>
  BY DEF Still
<1>2. GateTypes'
  BY <1>1 DEF GateInv, GateTypes
<1>3. Unique' /\ Steady'
  BY <1>1 DEF GateInv, Unique, Steady
<1> QED BY <1>1, <1>2, <1>3 DEF GateInv

LEMMA GateFails == GateInv /\ PageFails => GateInv'
<1> SUFFICES ASSUME GateInv, PageFails PROVE GateInv'
  OBVIOUS
<1>1. /\ at \in {"lookup", "page"} /\ at' = "failed" /\ exitCode' = 1 /\ Still /\ UNCHANGED verdicts
      /\ report' = report
  BY DEF PageFails, historyVars, Still
<1>2. List(verdicts)'
  BY <1>1 DEF GateInv, GateTypes, List
<1>3. ASSUME NEW i \in 1..Len(verdicts') PROVE VerdictOK(report', verdicts'[i], exitCode')
  <2>1. verdicts # <<>>
    BY <1>1
  <2>2. report = "gate" /\ VerdictOK("gate", verdicts[i], exitCode)
    BY <1>1, <2>1 DEF GateInv
  <2>3. VerdictOK("gate", verdicts[i], exitCode')
    BY <2>2 DEF VerdictOK
  <2> QED BY <1>1, <2>2, <2>3
<1> QED BY <1>1, <1>2, <1>3, GateStill

LEMMA GateLookup == GateInv /\ Lookup => GateInv'
<1> SUFFICES ASSUME GateInv, Lookup PROVE GateInv'
  OBVIOUS
<1>1. at = "lookup" /\ report = "gate" /\ UNCHANGED <<tickets, report, exitCode, changes>>
  BY DEF Lookup, GateInv
<1>2. CASE Head(milestones) \in Projects
  <2>1. /\ at' = "page" /\ listed' = <<>> /\ pages' = 0 /\ UNCHANGED <<milestones, verdicts>>
        /\ steady' = Range(tickets) /\ shrunk' = FALSE /\ grown' = FALSE
    BY <1>2 DEF Lookup
  <2>2. Len(listed') = 0 /\ listed' \in Seq(Issue) /\ 0 \in 0..PageCap /\ 0 * Limit = 0 /\ 0 < PageCap
    BY <2>1, GateAssumption
  <2>3. GateTypes'
    BY <1>1, <2>1, <2>2 DEF GateInv, GateTypes, List
  <2>4. Unique'
    BY <1>1 DEF GateInv, Unique
  <2>5. Steady'
    <3>1. tickets \in Seq(Issue)
      BY DEF GateInv, GateTypes
    <3> QED BY <1>1, <2>1, <3>1, BoardSteady DEF Steady
  <2>6. InPages' /\ Once'
    BY <2>1, <2>2 DEF InPages, Once
  <2> QED BY <1>1, <2>1, <2>3, <2>4, <2>5, <2>6 DEF GateInv
<1>3. CASE Head(milestones) \notin Projects
  <2> DEFINE v == [what |-> Head(milestones), passed |-> {}, missed |-> Missed, steady |-> steady]
  <2>1. verdicts' = Verdict(Head(milestones), {}) /\ UNCHANGED <<at, listed, pages, steady, shrunk, grown>>
    BY <1>3 DEF Lookup
  <2>2. v.passed = {} /\ v.steady = steady /\ IsFiniteSet(steady)
    BY DEF GateInv, Steady
  <2>3. VerdictOK("gate", v, exitCode')
    BY <2>2 DEF VerdictOK
  <2>4. List(verdicts)' /\ \A i \in 1..Len(verdicts') : VerdictOK(report', verdicts'[i], exitCode')
    BY <1>1, <2>1, <2>3, GateVerdict
  <2>5. Still /\ exitCode' \in {0, 1}
    BY <1>1, <2>1 DEF Still, GateInv, GateTypes
  <2> QED BY <1>1, <2>1, <2>4, <2>5, GateStill
<1> QED BY <1>2, <1>3

LEMMA GateCheck == GateInv /\ CheckMilestone => GateInv'
<1> SUFFICES ASSUME GateInv, CheckMilestone PROVE GateInv'
  OBVIOUS
<1> DEFINE ms == Head(milestones)
           v == [what |-> ms, passed |-> Passed(ms, listed), missed |-> Missed, steady |-> steady]
<1>1. /\ at = "listed" /\ report = "gate" /\ at' = "lookup" /\ verdicts' = Verdict(ms, Passed(ms, listed))
      /\ Still /\ UNCHANGED exitCode /\ report' = report
  BY DEF CheckMilestone, historyVars, Still
<1>2. /\ v.passed = Passed(ms, listed) /\ v.steady = steady /\ v.missed = Missed /\ v.what = ms
      /\ IsFiniteSet(steady) /\ Complete /\ exitCode \in {0, 1} /\ DOMAIN listed = 1..Len(listed)
  BY <1>1 DEF GateInv, GateTypes, Steady
<1>3. v.passed \subseteq Gates
  BY <1>2 DEF Passed
<1>4. ASSUME ~Missed, NEW g \in Passed(ms, listed), NEW t \in steady, t.kind.project = ms
      PROVE  ~Offends(t.kind)[g]
  <2>1. PICK i \in 1..Len(listed) : listed[i] = t
    BY <1>2, <1>4 DEF Complete, Listed
  <2>2. t \in OfMilestone(ms, listed)
    BY <1>2, <1>4, <2>1 DEF OfMilestone, Range
  <2> QED BY <2>2 DEF Passed
<1> HIDE DEF v
<1>5. VerdictOK("gate", v, exitCode')
  BY <1>2, <1>3, <1>4 DEF VerdictOK
<1>6. List(verdicts)' /\ \A i \in 1..Len(verdicts') : VerdictOK(report', verdicts'[i], exitCode')
  BY <1>1, <1>5, GateVerdict DEF v
<1> QED BY <1>1, <1>2, <1>6, GateStill

LEMMA GateOverall == GateInv /\ Overall => GateInv'
<1> SUFFICES ASSUME GateInv, Overall PROVE GateInv'
  OBVIOUS
<1>1. /\ at = "lookup" /\ report = "gate" /\ at' = "done" /\ UNCHANGED verdicts /\ Still
      /\ exitCode' = (IF \A i \in DOMAIN verdicts : AllPass(verdicts[i]) THEN 0 ELSE 1)
      /\ report' = report
  BY DEF Overall, GateInv, historyVars, Still
<1>2. List(verdicts) /\ DOMAIN verdicts = 1..Len(verdicts) /\ Len(verdicts) \in Nat
      /\ \A i \in 1..Len(verdicts) : VerdictOK("gate", verdicts[i], exitCode)
  BY <1>1 DEF GateInv, GateTypes, List
<1>3. \A i \in 1..Len(verdicts) : VerdictOK("gate", verdicts[i], exitCode')
  BY <1>2 DEF VerdictOK
<1>4. ASSUME verdicts # <<>> PROVE exitCode' = 1
  <2>1. 1 \in DOMAIN verdicts
    BY <1>2, <1>4 DEF List
  <2>2. verdicts[1].passed \subseteq Gates
    BY <1>2, <2>1 DEF VerdictOK
  <2>3. ~AllPass(verdicts[1])
    BY <2>2 DEF AllPass, Gates, Skipped
  <2> QED BY <1>1, <2>1, <2>3
<1>5. exitCode' \in {0, 1} /\ List(verdicts)'
  BY <1>1, <1>2 DEF List
<1> QED BY <1>1, <1>3, <1>4, <1>5, GateStill

LEMMA GateAudit == GateInv /\ AuditWork => GateInv'
<1> SUFFICES ASSUME GateInv, AuditWork PROVE GateInv'
  OBVIOUS
<1> DEFINE over == {e \in Engineers(listed) : Overflow(listed, e)}
           stayed == [t \in steady |-> t]
           v == [what |-> "wip", passed |-> over, missed |-> Missed, steady |-> steady]
<1>1. /\ at = "listed" /\ report = "wip" /\ at' = "done" /\ verdicts' = Verdict("wip", over)
      /\ exitCode' = (IF over # {} \/ \E t \in Range(listed) : Stale(t.kind) THEN 1 ELSE 0)
      /\ Still /\ report' = report
  BY DEF AuditWork, historyVars, Still
<1>2. /\ v.passed = over /\ v.steady = steady /\ v.missed = Missed
      /\ IsFiniteSet(steady) /\ Complete /\ listed \in Seq(Issue) /\ DOMAIN listed = 1..Len(listed)
  BY <1>1 DEF GateInv, GateTypes, Steady
<1>3. ASSUME ~Missed
      PROVE  /\ \A e \in Engineers(stayed) : Overflow(stayed, e) => e \in over
             /\ exitCode' = 0 => \A t \in steady : ~Stale(t.kind)
  <2>1. \A t \in steady : Listed(t)
    BY <1>2, <1>3 DEF Complete
  <2>2. \A t \in steady : t \in Range(listed)
    BY <1>2, <2>1 DEF Listed, Range
  <2>3. ASSUME NEW e \in Engineers(stayed), Overflow(stayed, e) PROVE e \in over
    <3>1. Range(stayed) = steady
      BY DEF Range
    <3>2. e \in Engineers(listed)
      BY <2>2, <3>1 DEF Engineers
    <3>3. Overflow(listed, e)
      BY <1>2, <2>1, <2>3, OverflowListed
    <3> QED BY <3>2, <3>3
  <2> QED BY <1>1, <2>2, <2>3
<1> HIDE DEF v, over
<1>4. VerdictOK("wip", v, exitCode')
  BY <1>2, <1>3 DEF VerdictOK
<1>5. List(verdicts)' /\ \A i \in 1..Len(verdicts') : VerdictOK(report', verdicts'[i], exitCode')
  BY <1>1, <1>4, GateVerdict DEF v
<1>6. exitCode' \in {0, 1}
  BY <1>1
<1> QED BY <1>1, <1>5, <1>6, GateStill

LEMMA GateGet ==
  ASSUME GateInv, NEW id, get_issue(id)
  PROVE  GateInv'
<1> DEFINE now == {t \in Range(tickets) : t.id = id}
<1>1. /\ at = "listed" /\ report = "get" /\ Still /\ UNCHANGED exitCode /\ report' = report
      /\ IF \A t \in Range(listed) : t.id # id
         THEN at' = "done" /\ verdicts' = Verdict(id, {})
         ELSE IF now = {} THEN at' = "failed" /\ UNCHANGED verdicts
                          ELSE at' = "done" /\ verdicts' = Verdict(id, now)
  BY DEF get_issue, historyVars, Still
<1>2. /\ IsFiniteSet(steady) /\ Complete /\ exitCode \in {0, 1} /\ DOMAIN listed = 1..Len(listed)
      /\ List(verdicts)
      /\ \A i \in 1..Len(verdicts) : VerdictOK(report, verdicts[i], exitCode)
  BY <1>1 DEF GateInv, GateTypes, Steady
<1>3. CASE UNCHANGED verdicts /\ at' = "failed"
  <2>1. List(verdicts)' /\ \A i \in 1..Len(verdicts') : VerdictOK(report', verdicts'[i], exitCode')
    BY <1>1, <1>2, <1>3 DEF List
  <2> QED BY <1>1, <1>2, <1>3, <2>1, GateStill
<1>4. ASSUME NEW passed, verdicts' = Verdict(id, passed), at' = "done",
             passed = {} => \A t \in Range(listed) : t.id # id
      PROVE  GateInv'
  <2> DEFINE v == [what |-> id, passed |-> passed, missed |-> Missed, steady |-> steady]
  <2>1. v.what = id /\ v.passed = passed /\ v.missed = Missed /\ v.steady = steady
    OBVIOUS
  <2>2. ~Missed => \A t \in steady : t \in Range(listed)
    BY <1>2 DEF Complete, Listed, Range
  <2> HIDE DEF v
  <2>3. VerdictOK("get", v, exitCode')
    BY <1>2, <1>4, <2>1, <2>2 DEF VerdictOK
  <2>4. List(verdicts)' /\ \A i \in 1..Len(verdicts') : VerdictOK(report', verdicts'[i], exitCode')
    BY <1>1, <1>4, <2>3, GateVerdict DEF v
  <2> QED BY <1>1, <1>2, <1>4, <2>4, GateStill
<1> QED BY <1>1, <1>3, <1>4

-----------------------------------------------------------------------------
(***************************************************************************)
(* The board meanwhile.                                                    *)
(***************************************************************************)

LEMMA GateChanged ==
  ASSUME GateInv, Changed, tickets' \in Seq(Issue), Unique', at = "page" => InPages',
         shrunk' \in BOOLEAN, grown' \in BOOLEAN, shrunk => shrunk', grown => grown'
  PROVE  GateInv'
<1>1. /\ at \in {"page", "listed"} /\ changes' = changes + 1 /\ steady' = steady \cap Range(tickets')
      /\ UNCHANGED <<report, milestones, at, listed, pages, verdicts, exitCode>>
  BY DEF Changed
<1>2. GateTypes'
  BY <1>1 DEF GateInv, GateTypes, List
<1>3. Steady'
  <2>1. IsFiniteSet(steady')
    BY <1>1, FS_Subset DEF GateInv, Steady
  <2>2. \A t \in steady' : \E i \in 1..Len(tickets') : tickets'[i] = t
    BY <1>1, BoardSteady
  <2> QED BY <2>1, <2>2 DEF Steady
<1>4. Once => Once'
  BY <1>1 DEF Once
<1>5. Complete => Complete'
  BY <1>1 DEF Complete, Missed, Listed
<1> QED BY <1>1, <1>2, <1>3, <1>4, <1>5 DEF GateInv

\* What every change of the board starts from.
LEMMA GateBoard ==
  ASSUME GateInv, Changed
  PROVE  /\ tickets \in Seq(Issue) /\ Len(tickets) \in Nat /\ Len(listed) \in Nat /\ changes \in Nat
         /\ DOMAIN tickets = 1..Len(tickets)
         /\ \A i \in 1..Len(tickets) : tickets[i] \in Issue
         /\ changes' = changes + 1 /\ steady' \subseteq steady
         /\ Steady /\ Unique /\ (at = "page" => InPages)
         /\ UNCHANGED <<at, listed, pages>>
         /\ \A k \in Kinds : k \in AllKinds
         /\ \A t : Listed(t)' <=> Listed(t)
BY DEF GateInv, GateTypes, Changed, AllKinds, Listed

LEMMA GateAdd ==
  ASSUME GateInv, Changed, NEW k \in Kinds, AddTicket(k)
  PROVE  GateInv'
<1> DEFINE n == Len(tickets)
           t == [id |-> 100 + changes, kind |-> k]
<1>1. /\ tickets \in Seq(Issue) /\ n \in Nat /\ Len(listed) \in Nat /\ changes \in Nat
      /\ \A i \in 1..n : tickets[i] \in Issue
      /\ changes' = changes + 1 /\ steady' \subseteq steady
      /\ Steady /\ Unique /\ (at = "page" => InPages)
      /\ UNCHANGED <<at, listed, pages>>
      /\ k \in AllKinds /\ \A u : Listed(u)' <=> Listed(u)
  BY GateBoard
<1>2. /\ tickets' = <<t>> \o tickets \/ tickets' = Append(tickets, t)
      /\ grown' = TRUE /\ shrunk' = shrunk
  BY DEF AddTicket
<1>3. t \in Issue /\ t.id = 100 + changes
  BY <1>1 DEF Issue
<1>4. t \notin steady
  BY <1>1, <1>3 DEF Steady, Unique
<1>5. \A i \in 1..n : tickets[i].id \in Nat /\ tickets[i].id < 100 + changes
  BY <1>1 DEF Unique, Issue
<1> HIDE DEF t, n
<1>6. PICK first \in BOOLEAN :
        /\ tickets' \in Seq(Issue) /\ Len(tickets') = n + 1
        /\ first => tickets'[1] = t /\ \A i \in 2..(n + 1) : i - 1 \in 1..n /\ tickets'[i] = tickets[i - 1]
        /\ ~first => tickets'[n + 1] = t /\ \A i \in 1..n : tickets'[i] = tickets[i]
  <2>1. CASE tickets' = <<t>> \o tickets
    <3>1. <<t>> \in Seq(Issue) /\ Len(<<t>>) = 1 /\ <<t>>[1] = t
      BY <1>3
    <3>2. /\ <<t>> \o tickets \in Seq(Issue) /\ Len(<<t>> \o tickets) = Len(<<t>>) + Len(tickets)
          /\ \A i \in 1..(Len(<<t>>) + Len(tickets)) :
               (<<t>> \o tickets)[i] = IF i <= Len(<<t>>) THEN <<t>>[i] ELSE tickets[i - Len(<<t>>)]
      BY <1>1, <3>1, ConcatProperties
    <3>3. /\ tickets' \in Seq(Issue) /\ Len(tickets') = n + 1
          /\ \A i \in 1..(n + 1) : tickets'[i] = IF i <= 1 THEN <<t>>[i] ELSE tickets[i - 1]
      BY <1>1, <2>1, <3>1, <3>2 DEF n
    <3>4. tickets'[1] = t /\ \A i \in 2..(n + 1) : i - 1 \in 1..n /\ tickets'[i] = tickets[i - 1]
      BY <1>1, <3>1, <3>3
    <3> QED BY <3>3, <3>4
  <2>2. CASE tickets' = Append(tickets, t)
    <3>1. /\ tickets' \in Seq(Issue) /\ Len(tickets') = n + 1
          /\ tickets'[n + 1] = t /\ \A i \in 1..n : tickets'[i] = tickets[i]
      BY <1>1, <1>3, <2>2 DEF n
    <3> QED BY <3>1
  <2> QED BY <1>2, <2>1, <2>2
<1>7. Unique'
  <2>1. ASSUME NEW i \in 1..(n + 1), NEW j \in 1..(n + 1), tickets'[i].id = tickets'[j].id
        PROVE  i = j
    <3>1. CASE first
      <4>1. i = 1 \/ (i \in 2..(n + 1) /\ i - 1 \in 1..n)
        BY <1>1
      <4>2. j = 1 \/ (j \in 2..(n + 1) /\ j - 1 \in 1..n)
        BY <1>1
      <4>3. CASE i = 1 /\ j # 1
        BY <1>1, <1>3, <1>5, <1>6, <2>1, <3>1, <4>2, <4>3
      <4>4. CASE i # 1 /\ j = 1
        <5>1. tickets'[j] = t /\ tickets'[i] = tickets[i - 1] /\ i - 1 \in 1..n
          BY <1>6, <3>1, <4>1, <4>4
        <5>2. tickets[i - 1].id < 100 + changes /\ tickets[i - 1].id \in Nat
          BY <1>5, <5>1
        <5> QED BY <1>1, <1>3, <2>1, <5>1, <5>2
      <4>5. CASE i # 1 /\ j # 1
        <5>1. tickets[i - 1].id = tickets[j - 1].id
          BY <1>6, <2>1, <3>1, <4>1, <4>2, <4>5
        <5>2. i - 1 = j - 1
          BY <1>1, <4>1, <4>2, <4>5, <5>1 DEF Unique, n
        <5> QED BY <1>1, <5>2
      <4> QED BY <4>3, <4>4, <4>5
    <3>2. CASE ~first
      <4>1. i = n + 1 \/ i \in 1..n
        BY <1>1
      <4>2. j = n + 1 \/ j \in 1..n
        BY <1>1
      <4>3. CASE i = n + 1 /\ j \in 1..n
        BY <1>1, <1>3, <1>5, <1>6, <2>1, <3>2, <4>3
      <4>4. CASE i \in 1..n /\ j = n + 1
        BY <1>1, <1>3, <1>5, <1>6, <2>1, <3>2, <4>4
      <4>5. CASE i \in 1..n /\ j \in 1..n
        BY <1>1, <1>6, <2>1, <3>2, <4>5 DEF Unique, n
      <4> QED BY <4>1, <4>2, <4>3, <4>4, <4>5
    <3> QED BY <3>1, <3>2
  <2>2. ASSUME NEW i \in 1..(n + 1) PROVE tickets'[i].id < 100 + changes'
    <3>1. tickets'[i] = t \/ \E j \in 1..n : tickets'[i] = tickets[j]
      BY <1>1, <1>6
    <3> QED BY <1>1, <1>3, <1>5, <3>1
  <2> QED BY <1>6, <2>1, <2>2 DEF Unique
<1>8. ASSUME at = "page" PROVE InPages'
  <2>1. ASSUME ~shrunk, NEW i \in 1..(n + 1), i <= Len(listed), tickets'[i] \in steady'
        PROVE  Listed(tickets[i])'
    <3>1. tickets'[i] \in steady /\ tickets'[i] # t
      BY <1>1, <1>4, <2>1
    <3>2. PICK j \in 1..n : j <= i /\ tickets'[i] = tickets[j]
      <4>1. CASE first
        BY <1>1, <1>6, <3>1, <4>1
      <4>2. CASE ~first
        BY <1>1, <1>6, <3>1, <4>2
      <4> QED BY <4>1, <4>2
    <3>3. j <= Len(listed) /\ tickets[j] \in steady
      BY <1>1, <2>1, <3>1, <3>2
    <3>4. PICK u : u = tickets[j]
      OBVIOUS
    <3>5. Listed(u)
      BY <1>1, <1>8, <2>1, <3>3, <3>4 DEF InPages, n
    <3> QED BY <1>1, <3>2, <3>4, <3>5
  <2> QED BY <1>1, <1>2, <1>6, <1>8, <2>1 DEF InPages
<1> QED BY <1>2, <1>6, <1>7, <1>8, GateChanged DEF GateInv, GateTypes

LEMMA GateRemove ==
  ASSUME GateInv, Changed, NEW r \in DOMAIN tickets, RemoveTicket(r)
  PROVE  GateInv'
<1> DEFINE n == Len(tickets)
           left == SubSeq(tickets, 1, r - 1)
           right == SubSeq(tickets, r + 1, n)
           from(i) == IF i < r THEN i ELSE i + 1
<1>1. /\ tickets \in Seq(Issue) /\ n \in Nat /\ Len(listed) \in Nat /\ changes \in Nat
      /\ r \in 1..n /\ \A i \in 1..n : tickets[i] \in Issue
      /\ changes' = changes + 1 /\ Unique /\ (at = "page" => InPages)
      /\ UNCHANGED <<at, listed, pages>>
  BY GateBoard
<1>2. tickets' = left \o right /\ shrunk' = TRUE /\ grown' = grown
  BY DEF RemoveTicket, RemoveAt
<1> HIDE DEF n
<1>3. /\ left \in Seq(Issue) /\ Len(left) = r - 1
      /\ \A i \in 1..(r - 1) : left[i] = tickets[i]
  <2>1. \A i \in 1..(r - 1) : tickets[i] \in Issue
    BY <1>1
  <2>2. /\ SubSeq(tickets, 1, r - 1) \in Seq(Issue)
        /\ Len(SubSeq(tickets, 1, r - 1)) = IF 1 <= r - 1 THEN (r - 1) - 1 + 1 ELSE 0
        /\ \A i \in 1..((r - 1) - 1 + 1) : SubSeq(tickets, 1, r - 1)[i] = tickets[1 + i - 1]
    BY <1>1, <2>1, SubSeqProperties
  <2>3. \A i \in 1..(r - 1) : i \in 1..((r - 1) - 1 + 1) /\ 1 + i - 1 = i
    BY <1>1
  <2> QED BY <1>1, <2>2, <2>3
<1>4. /\ right \in Seq(Issue) /\ Len(right) = n - r
      /\ \A i \in 1..(n - r) : right[i] = tickets[r + i]
  <2>1. \A i \in (r + 1)..n : tickets[i] \in Issue
    BY <1>1
  <2>2. /\ SubSeq(tickets, r + 1, n) \in Seq(Issue)
        /\ Len(SubSeq(tickets, r + 1, n)) = IF r + 1 <= n THEN n - (r + 1) + 1 ELSE 0
        /\ \A i \in 1..(n - (r + 1) + 1) : SubSeq(tickets, r + 1, n)[i] = tickets[r + 1 + i - 1]
    <3> DEFINE m == r + 1
    <3>1. m \in Int /\ n \in Int /\ \A i \in m..n : tickets[i] \in Issue
      BY <1>1, <2>1
    <3> HIDE DEF m
    <3>2. /\ SubSeq(tickets, m, n) \in Seq(Issue)
          /\ Len(SubSeq(tickets, m, n)) = IF m <= n THEN n - m + 1 ELSE 0
          /\ \A i \in 1..(n - m + 1) : SubSeq(tickets, m, n)[i] = tickets[m + i - 1]
      BY <3>1, SubSeqProperties
    <3> QED BY <3>2 DEF m
  <2>3. \A i \in 1..(n - r) : i \in 1..(n - (r + 1) + 1) /\ r + 1 + i - 1 = r + i
    BY <1>1
  <2> QED BY <1>1, <2>2, <2>3
<1> HIDE DEF left, right
<1>5. /\ tickets' \in Seq(Issue) /\ Len(tickets') = n - 1
      /\ \A i \in 1..(n - 1) : from(i) \in 1..n /\ from(i) >= i /\ tickets'[i] = tickets[from(i)]
  <2>1. /\ left \o right \in Seq(Issue) /\ Len(left \o right) = Len(left) + Len(right)
        /\ \A i \in 1..(Len(left) + Len(right)) :
             (left \o right)[i] = IF i <= Len(left) THEN left[i] ELSE right[i - Len(left)]
    BY <1>3, <1>4, ConcatProperties
  <2>2. Len(left) + Len(right) = n - 1
    BY <1>1, <1>3, <1>4
  <2>3. ASSUME NEW i \in 1..(n - 1)
        PROVE  from(i) \in 1..n /\ from(i) >= i /\ tickets'[i] = tickets[from(i)]
    <3>1. tickets'[i] = IF i <= r - 1 THEN left[i] ELSE right[i - (r - 1)]
      BY <1>2, <1>3, <2>1, <2>2
    <3>2. CASE i < r
      BY <1>1, <1>3, <3>1, <3>2
    <3>3. CASE ~(i < r)
      <4>1. i - (r - 1) \in 1..(n - r) /\ r + (i - (r - 1)) = i + 1 /\ ~(i <= r - 1)
        BY <1>1, <3>3
      <4>2. right[i - (r - 1)] = tickets[i + 1]
        BY <1>4, <4>1
      <4> QED BY <1>1, <3>1, <3>3, <4>1, <4>2
    <3> QED BY <3>2, <3>3
  <2> QED BY <1>2, <2>1, <2>2, <2>3
<1>6. \A i, j \in 1..(n - 1) : from(i) = from(j) => i = j
  BY <1>1
<1> HIDE DEF from
<1>7. Unique'
  <2>1. \A i, j \in 1..(n - 1) : tickets'[i].id = tickets'[j].id => i = j
    <3> SUFFICES ASSUME NEW i \in 1..(n - 1), NEW j \in 1..(n - 1), tickets'[i].id = tickets'[j].id
                 PROVE  i = j
      OBVIOUS
    <3>1. /\ from(i) \in 1..n /\ from(j) \in 1..n
          /\ tickets[from(i)].id = tickets[from(j)].id
      BY <1>5
    <3>2. from(i) = from(j)
      BY <1>1, <3>1 DEF Unique, n
    <3> QED BY <1>6, <3>2
  <2>2. ASSUME NEW i \in 1..(n - 1) PROVE tickets'[i].id < 100 + changes'
    <3>1. tickets[from(i)].id \in Nat /\ tickets[from(i)].id < 100 + changes
      BY <1>1, <1>5 DEF Unique, Issue, n
    <3> QED BY <1>1, <1>5, <3>1
  <2> QED BY <1>5, <2>1, <2>2 DEF Unique
<1>8. ASSUME at = "page" PROVE InPages'
  <2>1. ASSUME ~grown, NEW i \in 1..(n - 1), NEW j \in 1..Len(listed), i > Len(listed)
        PROVE  tickets'[i].id # listed[j].id
    <3>1. from(i) \in 1..n /\ from(i) > Len(listed) /\ tickets'[i] = tickets[from(i)]
      BY <1>1, <1>5, <2>1
    <3> QED BY <1>1, <1>8, <2>1, <3>1 DEF InPages, n
  <2> QED BY <1>1, <1>2, <1>5, <1>8, <2>1 DEF InPages
<1> QED BY <1>2, <1>5, <1>7, <1>8, GateChanged DEF GateInv, GateTypes

LEMMA GateUpdate ==
  ASSUME GateInv, Changed, NEW u \in DOMAIN tickets, NEW k \in Kinds, UpdateTicket(u, k)
  PROVE  GateInv'
<1> DEFINE n == Len(tickets)
           t == [tickets[u] EXCEPT !.kind = k]
<1>1. /\ tickets \in Seq(Issue) /\ n \in Nat /\ Len(listed) \in Nat /\ changes \in Nat
      /\ u \in 1..n /\ \A i \in 1..n : tickets[i] \in Issue
      /\ changes' = changes + 1 /\ steady' \subseteq steady
      /\ Steady /\ Unique /\ (at = "page" => InPages)
      /\ UNCHANGED <<at, listed, pages>>
      /\ k \in AllKinds /\ \A v : Listed(v)' <=> Listed(v)
  BY GateBoard
<1>2. tickets' = [tickets EXCEPT ![u] = t] /\ UNCHANGED <<shrunk, grown>>
  BY DEF UpdateTicket
<1>3. t \in Issue /\ t.id = tickets[u].id
  <2>1. tickets[u] \in Issue
    BY <1>1
  <2> QED BY <1>1, <2>1 DEF Issue
<1> HIDE DEF n, t
<1>4. /\ tickets' \in Seq(Issue) /\ Len(tickets') = n
      /\ \A i \in 1..n : tickets'[i] = IF i = u THEN t ELSE tickets[i]
  BY <1>1, <1>2, <1>3, ExceptSeq DEF n
<1>5. \A i \in 1..n : tickets'[i].id = tickets[i].id /\ tickets[i].id \in Nat
  BY <1>1, <1>3, <1>4 DEF Issue
<1>6. Unique'
  <2>1. \A i, j \in 1..n : tickets'[i].id = tickets'[j].id => i = j
    BY <1>1, <1>5 DEF Unique, n
  <2>2. \A i \in 1..n : tickets'[i].id < 100 + changes'
    BY <1>1, <1>5 DEF Unique, n
  <2> QED BY <1>4, <2>1, <2>2 DEF Unique
<1>7. ASSUME at = "page" PROVE InPages'
  <2>1. ASSUME ~shrunk, NEW i \in 1..n, i <= Len(listed), tickets'[i] \in steady'
        PROVE  Listed(tickets[i])'
    <3>1. PICK v : v = tickets'[i]
      OBVIOUS
    <3>2. PICK m \in 1..n : tickets[m] = v
      BY <1>1, <2>1, <3>1 DEF Steady, n
    <3>3. m = i
      BY <1>1, <1>5, <3>1, <3>2 DEF Unique, n
    <3>4. Listed(v)
      BY <1>1, <1>7, <2>1, <3>1, <3>2, <3>3 DEF InPages, n
    <3> QED BY <1>1, <3>1, <3>4
  <2>2. ASSUME ~grown, NEW i \in 1..n, NEW j \in 1..Len(listed), i > Len(listed)
        PROVE  tickets'[i].id # listed[j].id
    BY <1>1, <1>5, <1>7, <2>2 DEF InPages, n
  <2> QED BY <1>1, <1>2, <1>4, <1>7, <2>1, <2>2 DEF InPages
<1> QED BY <1>2, <1>4, <1>6, <1>7, GateChanged DEF GateInv, GateTypes

LEMMA GateInvNext == GateInv /\ GateNext => GateInv'
<1> SUFFICES ASSUME GateInv, GateNext PROVE GateInv'
  OBVIOUS
<1>1. CASE GetPage
  BY <1>1, GatePage
<1>2. CASE PageFails \/ Lookup \/ CheckMilestone \/ Overall \/ AuditWork
  BY <1>2, GateFails, GateLookup, GateCheck, GateOverall, GateAudit
<1>3. CASE \E t \in UNION {Range(b) : b \in StartBoards} : get_issue(t.id)
  BY <1>3, GateGet
<1>4. CASE (\E k \in Kinds : AddTicket(k)) /\ Changed
  BY <1>4, GateAdd
<1>5. CASE (\E i \in DOMAIN tickets : RemoveTicket(i)) /\ Changed
  BY <1>5, GateRemove
<1>6. CASE (\E i \in DOMAIN tickets, k \in Kinds : UpdateTicket(i, k)) /\ Changed
  BY <1>6, GateUpdate
<1> QED BY <1>1, <1>2, <1>3, <1>4, <1>5, <1>6 DEF GateNext

LEMMA GateInvHolds == Spec => []GateInv
<1>1. Init => GateInv
  BY GateInvInit DEF Init
<1>2. GateInv /\ [Next]_vars => GateInv'
  <2> SUFFICES ASSUME GateInv, [Next]_vars PROVE GateInv'
    OBVIOUS
  <2>1. GateNext \/ UNCHANGED gateVars
    BY DEF Next, vars
  <2>2. CASE UNCHANGED gateVars
    <3>1. UNCHANGED <<tickets, report, milestones, at, listed, pages, verdicts, exitCode, changes,
                      steady, shrunk, grown>>
      BY <2>2 DEF gateVars
    <3>2. GateTypes' /\ Unique' /\ Steady'
      BY <3>1 DEF GateInv, GateTypes, List, Unique, Steady
    <3>3. (InPages => InPages') /\ (Once => Once') /\ (Complete => Complete')
      BY <3>1 DEF InPages, Once, Complete, Missed, Listed
    <3> QED BY <3>1, <3>2, <3>3 DEF GateInv
  <2> QED BY <2>1, <2>2, GateInvNext
<1> QED BY <1>1, <1>2, PTL DEF Spec

\* For any board and any changes of it between two pages: a gate passes, an
\* engineer is within the limits, no ticket is stale and nothing is found only
\* if that is true of the tickets that stayed as they were, unless tickets were
\* removed or the cap was reached; no ticket is listed twice unless some were
\* added; and the gate never ends with exit code 0 over a milestone.
THEOREM ReportsTrueCorrect == Spec => []ReportsTrue
<1>1. ASSUME GateInv PROVE ReportsTrue
  <2>1. /\ DOMAIN verdicts = 1..Len(verdicts) /\ DOMAIN listed = 1..Len(listed)
        /\ listed \in Seq(Issue)
    BY <1>1 DEF GateInv, GateTypes, List
  <2>2. ASSUME NEW i \in DOMAIN verdicts, ~verdicts[i].missed
        PROVE  LET v == verdicts[i] IN
               CASE report = "gate" ->
                     \A g \in v.passed, t \in v.steady : t.kind.project = v.what => ~Offends(t.kind)[g]
                [] report = "wip" ->
                     LET stayed == [t \in v.steady |-> t]
                     IN /\ \A e \in Engineers(stayed) : Overflow(stayed, e) => e \in v.passed
                        /\ exitCode = 0 => \A t \in v.steady : ~Stale(t.kind)
                [] OTHER -> v.passed = {} => \A t \in v.steady : t.id # v.what
    <3>1. VerdictOK(report, verdicts[i], exitCode)
      BY <1>1, <2>1 DEF GateInv
    <3> QED BY <2>2, <3>1 DEF VerdictOK
  <2>3. ASSUME at = "listed", ~grown PROVE IsInjective(Ids(listed))
    <3>1. Once
      BY <1>1, <2>3 DEF GateInv
    <3> QED BY <2>1, <3>1 DEF Once, IsInjective, Ids
  <2>4. at = "done" /\ report = "gate" /\ exitCode = 0 => verdicts = <<>>
    BY <1>1 DEF GateInv
  <2> QED BY <2>2, <2>3, <2>4 DEF ReportsTrue
<1> QED BY <1>1, GateInvHolds, PTL

-----------------------------------------------------------------------------
\* The types of the whole, and that ids on a board stay distinct.
THEOREM OperationsTypes == Spec => []TypeOK
<1>1. UsageInv => UsageTypeOK
  <2> SUFFICES ASSUME UsageInv PROVE UsageTypeOK
    OBVIOUS
  <2>1. UsageTypes
    BY DEF UsageInv
  <2>2. \A i \in DOMAIN csv : csv[i] \in Providers \cup {"header"}
    BY <2>1 DEF UsageTypes, Lines
  <2> QED BY <2>1, <2>2 DEF UsageTypes, UsageTypeOK, Writer, Lines
<1>2. RouterInv => RouterTypeOK
  <2> SUFFICES ASSUME RouterInv PROVE RouterTypeOK
    OBVIOUS
  <2>1. RouterTypes /\ DOMAIN Submitted = 1..Len(Submitted) /\ Len(Submitted) \in Nat
        /\ Len(replies) \in Nat
    BY DEF RouterInv, RouterTypes, List
  <2>2. late \subseteq DOMAIN Submitted
    <3>1. CASE Sequential
      BY <3>1 DEF RouterInv, InChain
    <3>2. CASE ~Sequential
      <4>1. late \subseteq 1..Len(replies)
        BY <3>2 DEF RouterInv, Fanned
      <4>2. phase = "begin" => Len(replies) = 0
        BY <3>2 DEF RouterInv, Fanned
      <4>3. phase # "begin" => Len(replies) <= Len(Submitted)
        BY <3>2 DEF RouterInv, Fanned
      <4> QED BY <2>1, <4>1, <4>2, <4>3
    <3> QED BY <3>1, <3>2
  <2>3. \A i \in DOMAIN tried : tried[i] \in Outcomes \cup {DryRun}
    BY <2>1 DEF RouterTypes
  <2> QED BY <2>1, <2>2, <2>3 DEF RouterTypes, RouterTypeOK
<1>3. GateInv => GateTypeOK
  <2> SUFFICES ASSUME GateInv PROVE GateTypeOK
    OBVIOUS
  <2>1. DOMAIN tickets = 1..Len(tickets)
    BY DEF GateInv, GateTypes
  <2>2. IsInjective(Ids(tickets))
    BY <2>1 DEF GateInv, Unique, IsInjective, Ids
  <2> QED BY <2>2 DEF GateInv, GateTypes, GateTypeOK
<1>4. StartTypeOK /\ LoopTypeOK /\ UsageTypeOK /\ RouterTypeOK /\ GateTypeOK => TypeOK
  BY DEF TypeOK
<1> QED BY <1>1, <1>2, <1>3, <1>4, StartTypes, LoopTypesCorrect, UsageInvHolds, RouterInvHolds,
           GateInvHolds, PTL
=============================================================================
