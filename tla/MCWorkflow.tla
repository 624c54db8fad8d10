---------------------------- MODULE MCWorkflow ----------------------------
(* Instances of Workflow for TLC. *)
EXTENDS Workflow, TLC

\* Commits are interchangeable; used by the runs without liveness properties.
Symmetry == Permutations(Heads)
=============================================================================
