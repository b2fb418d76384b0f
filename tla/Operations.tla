---------------------------- MODULE Operations ----------------------------
(***************************************************************************)
(* What runs beside the servers, each alone with its own files: the start   *)
(* of the vault's processes, a request to the LLM router, the log of usage  *)
(* that its processes share, the review loop over the board, and the        *)
(* reports on the same board.  They share no state that changes while one   *)
(* of them runs, so a behaviour is that of one of them.                     *)
(***************************************************************************)
EXTENDS Startup, Router, UsageLog, KanbanLoop, ReleaseGate

CONSTANT Tools    \* "startup", "router", "usage", "loop", "report"

VARIABLE tool

vars == <<tool, startVars, routerVars, usageVars, loopVars, gateVars>>

\* The tools that do not run stand still in one initial state each.
Init ==
  /\ tool \in Tools
  /\ StartInit /\ RouterInit /\ UsageInit /\ LoopInit /\ GateInit
  /\ tool # "router" => routes = Default /\ request = CHOOSE r \in RouterRequests : TRUE
  /\ tool # "loop" => board = (CHOOSE b \in Boards : TRUE) /\ ahead = CHOOSE a \in Aheads : TRUE
  /\ tool # "report" => report = "get" /\ tickets = CHOOSE b \in StartBoards : TRUE

Next ==
  \/ tool = "startup" /\ StartNext /\ UNCHANGED <<tool, routerVars, usageVars, loopVars, gateVars>>
  \/ tool = "router" /\ RouterNext /\ UNCHANGED <<tool, startVars, usageVars, loopVars, gateVars>>
  \/ tool = "usage" /\ UsageNext /\ UNCHANGED <<tool, startVars, routerVars, loopVars, gateVars>>
  \/ tool = "loop" /\ LoopNext /\ UNCHANGED <<tool, startVars, routerVars, usageVars, gateVars>>
  \/ tool = "report" /\ GateNext /\ UNCHANGED <<tool, startVars, routerVars, usageVars, loopVars>>

Spec == Init /\ [][Next]_vars

TypeOK == StartTypeOK /\ RouterTypeOK /\ UsageTypeOK /\ LoopTypeOK /\ GateTypeOK
=============================================================================
