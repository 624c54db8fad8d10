------------------------------ MODULE MCTurns ------------------------------
(***************************************************************************)
(* What runs outside the store, checked side by side: the turns of a       *)
(* lineage with their mutations, their containers and workspaces, the      *)
(* state of their Session (which this module extends), and what they       *)
(* publish.                                                                *)
(*                                                                         *)
(* Each has an abstraction of the state they share, so that a behaviour    *)
(* has one focus: the part that moves, with its own bounds.                *)
(***************************************************************************)
EXTENDS AgentTurn, Publication, Execution, Workspaces, SessionState

VARIABLE focus

publication == <<branch, visited, pulls, foreign, made, mutations, devTurn, bound, progress, call, proposal>>
execution   == <<reservation, containers, request, creator, removal, epoch>>
workspaces  == <<turn, at, files, container, revoked, left, evidence>>

\* Beside two commits and three mutations of two turns, undisturbed: fewer of either, beside a person.
Disturbed == INSTANCE Publication WITH MaxCommit <- 1, MaxRow <- 3, MaxForeign <- 1
Rewritten == INSTANCE Publication WITH MaxCommit <- 2, MaxRow <- 2, MaxForeign <- 1

-----------------------------------------------------------------------------
TurnsInit ==
  /\ focus \in {"turns", "undisturbed", "disturbed", "rewritten", "execution", "workspaces", "sessions"}
  /\ Init /\ PublicationInit /\ ExecutionInit /\ WorkspacesInit
  /\ StateInit

\* The parts that are not in focus rest.
Rest(part) ==
  /\ UNCHANGED focus
  /\ IF part = "turns" THEN TRUE ELSE UNCHANGED vars
  /\ IF part = "publication" THEN TRUE ELSE UNCHANGED publication
  /\ IF part = "execution" THEN TRUE ELSE UNCHANGED execution
  /\ IF part = "workspaces" THEN TRUE ELSE UNCHANGED workspaces
  /\ IF part = "sessions" THEN TRUE ELSE UNCHANGED stateVars

TurnsNext ==
  \/ focus = "turns" /\ Next /\ Rest("turns")
  \/ focus = "undisturbed" /\ PublicationNext /\ Rest("publication")
  \/ focus = "disturbed" /\ Disturbed!PublicationNext /\ Rest("publication")
  \/ focus = "rewritten" /\ Rewritten!PublicationNext /\ Rest("publication")
  \/ focus = "execution" /\ ExecutionNext /\ Rest("execution")
  \/ focus = "workspaces" /\ WorkspacesNext /\ Rest("workspaces")
  \/ focus = "sessions" /\ StateNext /\ Rest("sessions")

TurnsSpec == TurnsInit /\ [][TurnsNext]_<<vars, publication, execution, workspaces, stateVars, focus>>
=============================================================================
