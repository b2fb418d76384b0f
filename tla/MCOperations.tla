---------------------------- MODULE MCOperations ----------------------------
\* Constant values for the run of Operations.
EXTENDS Operations

\* The five scripts of python/storage/migrations.  A unit is what is committed
\* at once: CREATE TABLE IF NOT EXISTS may be run again, ALTER TABLE ADD COLUMN
\* and the transaction that is the whole second script may not.
MCMigrations == << <<"again">>, <<"once">>, <<"again", "once">>, <<"once", "once">>, <<"once">> >>

\* Specs a, b, c: chains and pairs of two tasks, built in and from a file.
MCDefault ==
  [chains |-> [review |-> <<"a", "b">>, general |-> <<"b">>],
   pairs |-> [review |-> <<"a", "b">>, general |-> <<"b", "c">>]]
MCFiles ==
  {MissingFile,
   [chains |-> <<>>, pairs |-> [general |-> <<"a", "a">>, review |-> <<"c">>]],
   [chains |-> [review |-> <<"a", "b", "c">>], pairs |-> <<>>]}
MCFanouts == {<<>>, <<"a">>, <<"a", "b", "a">>}

\* One ticket that is edited under two processes, or two tickets under one.
MCBoards == {<<"t1">>, <<"t1", "t2">>}
MCSchedule == <<1, 2>>
MCAheads == {-1, 1}
MCMaxEdits == <<2, 0>>
MCMaxTime == <<0, 2>>
\* On the first board the clock stands still: one offset tells as much as two.
MCOneOffset == tool = "loop" /\ Len(board) = 1 => ahead = 1
MCMaxLoops == <<2, 1>>

Kind(project, status, labels, assignee) ==
  [project |-> project, status |-> status, labels |-> labels, assignee |-> assignee,
   old |-> status = "in_review"]
Plain == Kind("m1", "todo", {}, "ann")
Large == Kind("m1", "in_progress", {"effort:XL"}, "ann")
Blocker == Kind("m1", "blocked", {"pri:blocker"}, Unassigned)
Critical == Kind("m1", "in_review", {"security", "review:security", "pri:critical", "sev:critical"}, Unassigned)
Unread == Kind("m2", "done", {"security"}, Unassigned)
Queued == Kind("m2", "backlog", {"security"}, Unassigned)
MCKinds == {Blocker, Large, Unread}

Board(kinds) == [i \in DOMAIN kinds |-> [id |-> i, kind |-> kinds[i]]]
MCStartBoards ==
  {Board(kinds) : kinds \in {<<>>, <<Plain, Unread, Plain>>, <<Queued, Critical, Large>>,
                             <<Plain, Large, Blocker, Plain>>, <<Large, Plain, Plain, Plain>>}}
MCAsked == {<<>>, <<"m1", "v9">>, <<"m2">>}
=============================================================================
