------------------------------ MODULE MCWork ------------------------------
(***************************************************************************)
(* What an issue and its people are promised, checked side by side: the    *)
(* webhook inbox and the retention of the issue, the control of a session, *)
(* the planning with its people, and the labels and handoffs GitHub shows. *)
(*                                                                         *)
(* Each has an abstraction of the rows they share, so that a behaviour has *)
(* one focus: the part that moves, with its own bounds.                    *)
(***************************************************************************)
EXTENDS Retention, SessionControl, GitHubEffects, Collaboration

VARIABLE focus

control  == <<session, turn, runner, person, writing, exporting, turns>>
effects  == <<shown, labels, labelJobs, labeller, gaveUp, handoffs, comments, publisher>>

\* Beside answers and a confirmation of one plan: answers that are amended; two rounds of questions.
Amending == INSTANCE Collaboration WITH Commands <- {"answer", "amend"},
  MaxInput <- 2, MaxRound <- 1, MaxDecision <- 2, MaxCheckpoint <- 0, MaxTurn <- 2
Asking   == INSTANCE Collaboration WITH Commands <- {"answer"},
  MaxInput <- 1, MaxRound <- 2, MaxDecision <- 2, MaxCheckpoint <- 0, MaxTurn <- 3

-----------------------------------------------------------------------------
WorkInit ==
  /\ focus \in {"issue", "confirming", "amending", "asking", "control", "labels", "handoffs"}
  /\ Init /\ CollaborationInit /\ ControlInit /\ EffectsInit
  /\ focus # "issue" => stage = CHOOSE s \in Stages : TRUE

\* The parts that are not in focus rest.
Rest(part) ==
  /\ UNCHANGED focus
  /\ IF part = "issue" THEN TRUE ELSE UNCHANGED vars
  /\ IF part = "planning" THEN TRUE ELSE UNCHANGED planningVars
  /\ IF part = "control" THEN TRUE ELSE UNCHANGED control
  /\ IF part = "effects" THEN TRUE ELSE UNCHANGED effects

WorkNext ==
  \/ focus = "issue" /\ Next /\ Rest("issue")
  \/ focus = "confirming" /\ CollaborationNext /\ Rest("planning")
  \/ focus = "amending" /\ Amending!CollaborationNext /\ Rest("planning")
  \/ focus = "asking" /\ Asking!CollaborationNext /\ Rest("planning")
  \/ focus = "control" /\ ControlNext /\ Rest("control")
  \/ focus = "labels" /\ LabelsNext /\ Rest("effects")
  \/ focus = "handoffs" /\ HandoffsNext /\ Rest("effects")

WorkSpec == WorkInit /\ [][WorkNext]_<<vars, planningVars, control, effects, focus>>
=============================================================================
