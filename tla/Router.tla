------------------------------- MODULE Router -------------------------------
(***************************************************************************)
(* One request to the router of internal/llm/router.py, made by a command   *)
(* of internal/llm/cli.py: a chain that falls back from provider to         *)
(* provider, a fan-out whose workers outlive the deadline of the executor,  *)
(* or the review of a pair.  A provider may take for ever; what it answers  *)
(* is abstracted to the markers that quick_agreement looks for.            *)
(***************************************************************************)
EXTENDS Naturals, Sequences, SequencesExt

CONSTANTS
  Default,    \* RouteConfig.default()
  Files,      \* routes.yaml: MissingFile or its sections
  MissingFile,
  Tasks,      \* task types
  Fanouts     \* lists of specs that "fanout" and "review" are called with

\* A section gives a task its specs: the chain, or the two of a pair.
List(s) == s \in Seq(Range(s))
Section(section) == \A task \in DOMAIN section : List(section[task])
ASSUME RouterAssumption ==
  /\ \A config \in {Default} \cup (Files \ {MissingFile}) :
       Section(config.chains) /\ Section(config.pairs)
  /\ \A specs \in Fanouts : List(specs)

VARIABLES
  routes,     \* Router.config
  request,    \* the command, its task or its specs
  phase,      \* "begin", "chain", "wait", "done", "exited"; "raised" by an exception
  tried,      \* call: the attempts so far
  worker,     \* the executor's threads, one for each submit, in order
  replies,    \* the replies in the order of the specs
  verdict,    \* review_pair's agreement
  late        \* history: replies that were given up while their worker ran

routerVars == <<routes, request, phase, tried, worker, replies, verdict, late>>

-----------------------------------------------------------------------------
(* Configuration.                                                           *)

OrElse(section, fallback) == IF section = <<>> THEN fallback ELSE section

\* Without chains the built-in ones are taken, and only then built-in pairs.
Load(file) ==
  IF file = MissingFile THEN Default
  ELSE IF file.chains = <<>>
       THEN [chains |-> Default.chains, pairs |-> OrElse(file.pairs, Default.pairs)]
       ELSE [chains |-> file.chains, pairs |-> file.pairs]

\* A task without an entry, or with an empty one, uses that of "general".
Entry(section, task) ==
  LET get(t) == IF t \in DOMAIN section THEN section[t] ELSE <<>>
  IN OrElse(get(task), get("general"))
chain_for(task) == Entry(routes.chains, task)
pair_for(task) == Entry(routes.pairs, task)    \* <<primary, secondary>> or <<>>

-----------------------------------------------------------------------------
(* Replies.                                                                 *)

\* A text is the set of markers in it.  "I disagree" holds a word of the
\* first list too, "this is wrong" does not.
Texts == SUBSET {"agree_re", "disagree_re"}
Ok(text) == [ok |-> TRUE, text |-> text, why |-> "none"]
Error(why) == [ok |-> FALSE, text |-> {}, why |-> why]

\* is_available is false, or complete finds no key or no binary.
Unavailable == Error("unavailable")

\* A status that post_json does not retry, or its last retry of one that it
\* does; of a command line, see below.
Refused == Error("refused")

\* What the provider said, if there is anything where its reply should be.
Answers == {Ok(text) : text \in Texts}

\* complete: a binary that exits with an error or prints nothing has refused,
\* and so has one whose process group is killed at the timeout.  A provider
\* may also raise (a body that is no JSON, a binary that is gone).
Completions == {Unavailable, Refused, Error("exception")} \cup Answers

\* _dispatch, and an attempt of call: built, available, complete.
Outcomes == {Error("build failed"), Unavailable} \cup Completions

\* is_available itself raises (a daemon that answers with some other JSON, a
\* log that cannot be written): it is asked outside of both try blocks.
Raised == Error("raised")

quick_agreement(a, b) ==
  IF "disagree_re" \in a \cup b THEN "disagree"
  ELSE IF "agree_re" \in a \cap b THEN "agree" ELSE "partial"

NoWorker == [running |-> FALSE, reply |-> Error("none")]

\* cmd_run, cmd_review and cmd_fanout; the loop calls for a fan-out, too.
RouterRequests == [mode : {"call", "dry_run", "pair"}, task : Tasks, specs : {<<>>}]
                  \cup [mode : {"fanout"}, task : {"general"}, specs : Fanouts]

RouterInit ==
  /\ routes \in {Load(file) : file \in Files}
  /\ request \in RouterRequests
  /\ phase = "begin" /\ tried = <<>> /\ worker = <<>> /\ replies = <<>>
  /\ verdict = "unknown" /\ late = {}

-----------------------------------------------------------------------------
Chain == chain_for(request.task)
Pair == pair_for(request.task)
SameSpec == request.mode = "pair" /\ Len(Pair) = 2 /\ Pair[1] = Pair[2]

\* The specs that are submitted; of a pair with one spec twice, one.
Submitted ==
  CASE request.mode = "fanout" -> request.specs
    [] SameSpec -> <<Pair[1]>>
    [] OTHER -> IF request.mode = "pair" THEN Pair ELSE <<>>

Sequential == request.mode \in {"call", "dry_run"} \/ (request.mode = "pair" /\ Pair = <<>>)

\* call with an empty chain, call_parallel without specs.
Begin ==
  /\ phase = "begin"
  /\ IF Sequential
     THEN /\ phase' = IF Chain = <<>> THEN "done" ELSE "chain"
          /\ replies' = IF Chain = <<>> THEN <<Error("no providers")>> ELSE <<>>
          /\ UNCHANGED worker
     ELSE /\ phase' = IF Submitted = <<>> THEN "done" ELSE "wait"
          /\ worker' = [i \in DOMAIN Submitted |-> [NoWorker EXCEPT !.running = TRUE]]
          /\ UNCHANGED replies
  /\ UNCHANGED <<routes, request, tried, verdict, late>>

\* With --dry-run the first provider that is available ends the chain.
DryRun == Error("dry-run")
Attempts == IF request.mode = "dry_run"
            THEN {Error("build failed"), Unavailable, DryRun} ELSE Outcomes
Ends(reply) == reply.ok \/ reply = DryRun

\* Mutant of TryNext: the first attempt is returned, whatever it gave.
TryFirst ==
  /\ phase = "chain"
  /\ \E reply \in Attempts :
       /\ tried' = Append(tried, reply)
       /\ phase' = "done"
       /\ replies' = <<reply>>
  /\ UNCHANGED <<routes, request, worker, verdict, late>>

\* One spec of the chain, in the caller's thread and with no deadline but
\* the provider's own: built, available, complete.
TryNext ==
  /\ phase = "chain"
  /\ \E reply \in Attempts :
       /\ tried' = Append(tried, reply)
       /\ IF Ends(reply) THEN phase' = "done" /\ replies' = <<reply>>
          ELSE IF Len(tried') = Len(Chain)
          THEN phase' = "done" /\ replies' = <<Error("all providers failed")>>
          ELSE UNCHANGED <<phase, replies>>
  /\ UNCHANGED <<routes, request, worker, verdict, late>>

\* The exception ends call, and the command with it.
TryRaises ==
  /\ phase = "chain"
  /\ phase' = "raised"
  /\ UNCHANGED <<routes, request, tried, worker, replies, verdict, late>>

\* _dispatch in its worker thread, also after everybody stopped waiting.
Dispatch(w) ==
  /\ worker[w].running
  /\ \E reply \in Outcomes \cup {Raised} :
       worker' = [worker EXCEPT ![w] = [running |-> FALSE, reply |-> reply]]
  /\ UNCHANGED <<routes, request, phase, tried, replies, verdict, late>>

\* The futures are kept by spec: of a spec that is submitted twice the
\* second worker answers for both.
Future(i) == CHOOSE w \in DOMAIN Submitted :
               /\ Submitted[w] = Submitted[i]
               /\ \A j \in DOMAIN Submitted : Submitted[j] = Submitted[i] => j <= w

\* The role's reply; a pair of one spec has one reply for both.
Agreement(got) ==
  IF SameSpec THEN "agree"
  ELSE IF Len(got) = 2 /\ got[1].ok /\ got[2].ok THEN quick_agreement(got[1].text, got[2].text) ELSE "unknown"

Collected(got) ==
  /\ replies' = got
  /\ phase' = IF Len(got) = Len(Submitted) THEN "done" ELSE "wait"
  /\ verdict' = IF request.mode = "pair" /\ Len(got) = Len(Submitted) THEN Agreement(got) ELSE verdict

\* The turn of the next spec: result(timeout), which is the deadline of the
\* executor counted from the beginning of the turn.  call_parallel turns all
\* that is raised into an error reply.
Turn == Len(replies) + 1
Result ==
  /\ phase = "wait" /\ ~worker[Future(Turn)].running
  /\ SameSpec => worker[Future(Turn)].reply # Raised
  /\ Collected(Append(replies, worker[Future(Turn)].reply))
  /\ UNCHANGED <<routes, request, tried, worker, late>>
Timeout ==
  /\ phase = "wait" /\ worker[Future(Turn)].running
  /\ Collected(Append(replies, Error("executor timeout")))
  /\ late' = late \cup {Turn}
  /\ UNCHANGED <<routes, request, tried, worker>>

\* _run_with_timeout lets pass what its worker raised, and before Python 3.11
\* the deadline too: that TimeoutError is not the one it catches.
ResultRaises ==
  /\ phase = "wait" /\ SameSpec
  /\ worker[Future(Turn)].running \/ worker[Future(Turn)].reply = Raised
  /\ phase' = "raised"
  /\ UNCHANGED <<routes, request, tried, worker, replies, verdict, late>>

\* The interpreter joins the workers of every executor, shut down or not.
Exit ==
  /\ phase = "done"
  /\ \A w \in DOMAIN worker : ~worker[w].running
  /\ phase' = "exited"
  /\ UNCHANGED <<routes, request, tried, worker, replies, verdict, late>>

RouterNext ==
  \/ Begin \/ TryNext \/ TryRaises \/ Result \/ Timeout \/ ResultRaises \/ Exit
  \/ \E w \in DOMAIN worker : Dispatch(w)

\* cmd_run, cmd_review and cmd_fanout: 0 if any model answered; a dry run is 0
\* unless the chain was exhausted, and so it is if there is no chain.
ExitStatus ==
  IF \/ \E i \in DOMAIN replies : replies[i].ok
     \/ request.mode = "dry_run" /\ replies[1] # Error("all providers failed")
  THEN 0 ELSE 1

-----------------------------------------------------------------------------
RouterTypeOK ==
  /\ phase \in {"begin", "chain", "wait", "done", "exited", "raised"}
  /\ \A i \in DOMAIN tried : tried[i] \in Outcomes \cup {DryRun}
  /\ verdict \in {"unknown", "agree", "disagree", "partial"}
  /\ late \subseteq DOMAIN Submitted

Over == phase \in {"done", "exited"}

\* What a caller is told is what providers said in time.  A fan-out has one
\* reply for each spec, in order: the answer of a worker of this spec, or an
\* error if it failed or was given up, however late it answers after that.
\* A chain asks no provider after the first that answers, and reports
\* failure only when all have failed.  A verdict is about two answers, and
\* is the same if the roles are exchanged.  What a provider raises may end a
\* chain, or a pair of one spec, without a reply; a fan-out, and a pair of
\* two, it leaves to the others.
RepliesTrue ==
  /\ Over /\ ~Sequential =>
       /\ Len(replies) = Len(Submitted)
       /\ \A i \in DOMAIN replies :
            \E w \in DOMAIN Submitted :
              /\ Submitted[w] = Submitted[i]
              /\ IF i \in late THEN ~replies[i].ok ELSE ~worker[w].running /\ replies[i] = worker[w].reply
  /\ Over /\ Sequential =>
       /\ \A i \in 1..(Len(tried) - 1) : ~Ends(tried[i])
       /\ IF Chain # <<>> /\ ExitStatus = 0 THEN replies[1] = Last(tried) /\ Ends(replies[1])
          ELSE Len(tried) = Len(Chain) /\ \A i \in DOMAIN tried : ~Ends(tried[i])
  /\ verdict # "unknown" /\ ~SameSpec =>
       /\ replies[1].ok /\ replies[2].ok
       /\ verdict = quick_agreement(replies[2].text, replies[1].text)
  /\ phase = "raised" => replies = <<>> /\ verdict = "unknown" /\ (Sequential \/ SameSpec)
=============================================================================
