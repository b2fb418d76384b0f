---------------------------- MODULE ReleaseGate ----------------------------
(***************************************************************************)
(* The reports of internal/program over the Multica board: the release gate *)
(* of release_gate.py, the audit of work in progress of wip_audit.py, and   *)
(* get_issue.  Each reads the board page by page, by offset, while people   *)
(* add, remove and change tickets.  The board itself is external: it is     *)
(* modelled as list_issues sees it, an ordered list that a page is cut from.*)
(***************************************************************************)
EXTENDS Naturals, Sequences, FiniteSets, SequencesExt

CONSTANTS
  StartBoards,  \* boards at the start: sequences of tickets
  Kinds,        \* what a ticket may be: [project, status, labels, assignee, old]
  Projects,     \* milestones of the workspace
  Asked,        \* sequences of milestones that the gate is run for
  Unassigned,   \* no assignee, or one that is not a member
  NoTotal,      \* a page that does not say how many tickets there are
  Limit,        \* list_issues: tickets of a page
  PageCap,      \* list_issues: max_pages
  MaxWork,      \* wip_audit: active tickets of an engineer
  MaxXL,        \* wip_audit: those with effort:XL
  MaxChanges    \* bound: changes of the board

\* Tickets have ids of their own; those of the start are below 100.
AllKinds == Kinds \cup {t.kind : t \in UNION {Range(b) : b \in StartBoards}}
Ids(all) == [i \in DOMAIN all |-> all[i].id]
ASSUME GateAssumption ==
  /\ \A b \in StartBoards : b \in Seq([id : 0..99, kind : AllKinds]) /\ IsInjective(Ids(b))
  /\ Limit \in Nat \ {0} /\ PageCap \in Nat \ {0} /\ MaxWork \in Nat /\ MaxXL \in Nat

VARIABLES
  tickets,      \* the board: sequence of [id, kind]
  report,       \* "gate", "wip" or "get"
  milestones,   \* gate: milestones still to check
  at,           \* "lookup", "page", "listed", "done" or "failed"
  listed,       \* the issues read so far
  pages,        \* pages asked for
  verdicts,     \* what the report says
  exitCode,
  changes,      \* history: changes of the board
  steady,       \* history: tickets unchanged since the listing began
  shrunk, grown \* history: tickets were removed, added since then

gateVars == <<tickets, report, milestones, at, listed, pages, verdicts, exitCode, changes,
              steady, shrunk, grown>>
historyVars == <<changes, steady, shrunk, grown>>

GateInit ==
  /\ tickets \in StartBoards
  /\ report \in {"gate", "wip", "get"}
  /\ milestones \in IF report = "gate" THEN Asked ELSE {<<>>}
  /\ at = IF report = "gate" THEN "lookup" ELSE "page"
  /\ listed = <<>> /\ pages = 0
  /\ verdicts = <<>> /\ exitCode = 0
  /\ changes = 0 /\ steady = Range(tickets) /\ shrunk = FALSE /\ grown = FALSE

-----------------------------------------------------------------------------
(* list_issues.                                                             *)

Total(n) == {n, NoTotal}    \* the server may leave it out

\* Mutant of LastPage: the first page is taken for all there is.
OnlyPage(batch, total) == TRUE

\* A short page, or the offset has reached the total.
LastPage(batch, total) ==
  \/ Len(batch) < Limit
  \/ total # NoTotal /\ Len(listed) + Len(batch) >= total

\* Mutant of GetPage: without max_pages.
GetPageUncapped ==
  /\ at = "page"
  /\ LET offset == Len(listed)
         rest == SubSeq(tickets, offset + 1, Len(tickets))
         batch == SubSeq(rest, 1, IF Len(rest) < Limit THEN Len(rest) ELSE Limit)
     IN \E total \in Total(Len(tickets)) :
          /\ listed' = listed \o batch
          /\ at' = IF LastPage(batch, total) THEN "listed" ELSE "page"
  /\ pages' = pages + 1
  /\ UNCHANGED <<tickets, report, milestones, verdicts, exitCode, historyVars>>

GetPage ==
  /\ at = "page"
  /\ LET offset == Len(listed)
         rest == SubSeq(tickets, offset + 1, Len(tickets))
         batch == SubSeq(rest, 1, IF Len(rest) < Limit THEN Len(rest) ELSE Limit)
     IN \E total \in Total(Len(tickets)) :
          /\ listed' = listed \o batch
          /\ at' = IF LastPage(batch, total) \/ pages + 1 = PageCap THEN "listed" ELSE "page"
  /\ pages' = pages + 1
  /\ UNCHANGED <<tickets, report, milestones, verdicts, exitCode, historyVars>>

\* An error of the board is caught by none of the reports.
PageFails ==
  /\ at \in {"lookup", "page"}
  /\ at' = "failed" /\ exitCode' = 1
  /\ UNCHANGED <<tickets, report, milestones, listed, pages, verdicts, historyVars>>

\* What the listing cannot be trusted to hold.
Missed == shrunk \/ Len(listed) = PageCap * Limit

-----------------------------------------------------------------------------
(* release_gate.py.                                                         *)

is_active(k) == k.status \in {"todo", "in_progress", "in_review", "backlog", "blocked"}
Security(k) == "security" \in k.labels
Unreviewed(k) == Security(k) /\ "review:security" \notin k.labels

\* The tickets that make a gate fail.
Offends(k) ==
  [no_blocker_issues |-> is_active(k) /\ k.labels \cap {"sev:blocker", "pri:blocker"} # {},
   no_critical_security |->
     is_active(k) /\ Security(k) /\ k.labels \cap {"pri:critical", "pri:blocker"} # {},
   dod_compliance |-> k.status = "done" /\ Unreviewed(k),
   security_reviews |-> k.status # "done" /\ Unreviewed(k),
   no_sev_critical_security |-> is_active(k) /\ Security(k) /\ "sev:critical" \in k.labels]
Gates == {"no_blocker_issues", "no_critical_security", "dod_compliance", "security_reviews",
          "no_sev_critical_security"}
Skipped == {"changelog_updated", "threat_model_current", "dependency_audit", "secret_scan",
            "sbom_generated"}

OfMilestone(ms, all) == {t \in Range(all) : t.kind.project = ms}
Passed(ms, all) == {g \in Gates : \A t \in OfMilestone(ms, all) : ~Offends(t.kind)[g]}

\* A verdict, with what was true of the listing it was made from.
Verdict(what, passed) ==
  Append(verdicts, [what |-> what, passed |-> passed, missed |-> Missed, steady |-> steady])

\* check_milestone: the projects first, then all the issues again for each.
Lookup ==
  /\ at = "lookup" /\ milestones # <<>>
  /\ IF Head(milestones) \in Projects
     THEN /\ at' = "page" /\ listed' = <<>> /\ pages' = 0
          /\ steady' = Range(tickets) /\ shrunk' = FALSE /\ grown' = FALSE
          /\ UNCHANGED <<milestones, verdicts>>
     ELSE /\ verdicts' = Verdict(Head(milestones), {})    \* the gate milestone_lookup, failed
          /\ milestones' = Tail(milestones)
          /\ UNCHANGED <<at, listed, pages, steady, shrunk, grown>>
  /\ UNCHANGED <<tickets, report, exitCode, changes>>

CheckMilestone ==
  /\ at = "listed" /\ report = "gate"
  /\ verdicts' = Verdict(Head(milestones), Passed(Head(milestones), listed))
  /\ milestones' = Tail(milestones)
  /\ at' = "lookup"
  /\ UNCHANGED <<tickets, report, listed, pages, exitCode, historyVars>>

\* main: a gate that was skipped fails its milestone.
AllPass(v) == v.passed = Gates \cup Skipped
Overall ==
  /\ at = "lookup" /\ milestones = <<>>
  /\ exitCode' = IF \A i \in DOMAIN verdicts : AllPass(verdicts[i]) THEN 0 ELSE 1
  /\ at' = "done"
  /\ UNCHANGED <<tickets, report, milestones, listed, pages, verdicts, historyVars>>

-----------------------------------------------------------------------------
(* wip_audit.py and get_issue.                                              *)

\* Active tickets of an engineer, as often as they are listed.
ActiveOf(all, engineer) ==
  {i \in DOMAIN all : all[i].kind.assignee = engineer /\ is_active(all[i].kind)}
Overflow(all, engineer) ==
  \/ Cardinality(ActiveOf(all, engineer)) > MaxWork
  \/ Cardinality({i \in ActiveOf(all, engineer) : "effort:XL" \in all[i].kind.labels}) > MaxXL
Engineers(all) == {t.kind.assignee : t \in Range(all)} \ {Unassigned}

\* Unchanged for too long while queued or in review.
Stale(k) == k.old /\ k.status \in {"todo", "in_review"}

AuditWork ==
  /\ at = "listed" /\ report = "wip"
  /\ LET over == {e \in Engineers(listed) : Overflow(listed, e)}
     IN /\ verdicts' = Verdict("wip", over)
        /\ exitCode' = IF over # {} \/ \E t \in Range(listed) : Stale(t.kind) THEN 1 ELSE 0
  /\ at' = "done"
  /\ UNCHANGED <<tickets, report, milestones, listed, pages, historyVars>>

\* The ticket that is sought may be on the list and deleted since: an error.
get_issue(id) ==
  /\ at = "listed" /\ report = "get"
  /\ LET now == {t \in Range(tickets) : t.id = id}
     IN IF \A t \in Range(listed) : t.id # id
        THEN at' = "done" /\ verdicts' = Verdict(id, {})
        ELSE IF now = {} THEN at' = "failed" /\ UNCHANGED verdicts
                         ELSE at' = "done" /\ verdicts' = Verdict(id, now)
  /\ UNCHANGED <<tickets, report, milestones, listed, pages, exitCode, historyVars>>

-----------------------------------------------------------------------------
(* The board meanwhile.                                                     *)

Changed ==
  /\ at \in {"page", "listed"} /\ changes < MaxChanges
  /\ changes' = changes + 1
  /\ steady' = steady \cap Range(tickets')
  /\ UNCHANGED <<report, milestones, at, listed, pages, verdicts, exitCode>>

AddTicket(k) ==
  /\ LET t == [id |-> 100 + changes, kind |-> k]    \* a new id
     IN tickets' = <<t>> \o tickets \/ tickets' = Append(tickets, t)
  /\ grown' = TRUE /\ UNCHANGED shrunk
RemoveTicket(i) ==
  /\ tickets' = RemoveAt(tickets, i)
  /\ shrunk' = TRUE /\ UNCHANGED grown
UpdateTicket(i, k) ==
  /\ tickets' = [tickets EXCEPT ![i].kind = k]
  /\ UNCHANGED <<shrunk, grown>>

GateNext ==
  \/ GetPage \/ PageFails \/ Lookup \/ CheckMilestone \/ Overall \/ AuditWork
  \/ \E t \in UNION {Range(b) : b \in StartBoards} : get_issue(t.id)
  \/ /\ \/ \E k \in Kinds : AddTicket(k)
        \/ \E i \in DOMAIN tickets : RemoveTicket(i) \/ \E k \in Kinds : UpdateTicket(i, k)
     /\ Changed

-----------------------------------------------------------------------------
GateTypeOK ==
  /\ at \in {"lookup", "page", "listed", "done", "failed"}
  /\ pages \in 0..PageCap
  /\ exitCode \in {0, 1}
  /\ IsInjective(Ids(tickets))

\* A report on pages that were cut from a moving board: a gate passes, an
\* engineer is within the limits, no ticket is stale and get_issue finds
\* nothing only if that is true of the tickets that stayed as they were while
\* the pages were read, unless tickets were removed meanwhile or the cap on
\* pages was reached; and no ticket counts twice unless tickets were added.
\* Exit code 0 of the gate means that no milestone was checked at all, as five
\* gates are skipped.
ReportsTrue ==
  /\ \A i \in DOMAIN verdicts :
       LET v == verdicts[i] IN
       v.missed
       \/ CASE report = "gate" ->
                 \A g \in v.passed, t \in v.steady : t.kind.project = v.what => ~Offends(t.kind)[g]
            [] report = "wip" ->
                 LET stayed == [t \in v.steady |-> t]    \* each once
                 IN /\ \A e \in Engineers(stayed) : Overflow(stayed, e) => e \in v.passed
                    /\ exitCode = 0 => \A t \in v.steady : ~Stale(t.kind)
            [] OTHER -> v.passed = {} => \A t \in v.steady : t.id # v.what
  /\ at = "listed" /\ ~grown => IsInjective(Ids(listed))
  /\ at = "done" /\ report = "gate" /\ exitCode = 0 => verdicts = <<>>
=============================================================================
