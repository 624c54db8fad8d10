--------------------------- MODULE MutationPromise ---------------------------
(***************************************************************************)
(* What the mutation ledger of an operation lineage promises, whatever      *)
(* process executes, dies or recovers: an operation is asked for once and   *)
(* performed at most once; it is decided once, and the decision is the      *)
(* truth about the outside world from then on, unless it says that the      *)
(* truth could not be established; the next turn begins only when nothing   *)
(* is undecided.                                                           *)
(***************************************************************************)
EXTENDS Naturals

CONSTANT Ops

VARIABLES
    verdict,     \* unasked, undecided, applied, refused or unknowable
    world,       \* whether the operation has been performed: clean or applied
    epoch        \* the turns that have begun

promise == <<verdict, world, epoch>>

Verdicts == {"applied", "refused", "unknowable"}

Init ==
    /\ verdict = [o \in Ops |-> "unasked"]
    /\ world   = [o \in Ops |-> "clean"]
    /\ epoch   = 0

Begin ==
    /\ \A o \in Ops : verdict[o] # "undecided"
    /\ epoch' = epoch + 1
    /\ UNCHANGED <<verdict, world>>

Ask(o) ==
    /\ verdict[o] = "unasked" /\ epoch > 0
    /\ verdict' = [verdict EXCEPT ![o] = "undecided"]
    /\ UNCHANGED <<world, epoch>>

\* Only an operation nobody has decided yet, or one given up as unknowable, may still be performed.
Perform(o) ==
    /\ verdict[o] \in {"undecided", "unknowable"} /\ world[o] = "clean"
    /\ world' = [world EXCEPT ![o] = "applied"]
    /\ UNCHANGED <<verdict, epoch>>

\* Some undecided operations are decided together.
Decide ==
    /\ \A o \in Ops : \/ verdict'[o] = verdict[o]
                      \/ /\ verdict[o] = "undecided" /\ verdict'[o] \in Verdicts
                         /\ verdict'[o] = "applied" => world[o] = "applied"
                         /\ verdict'[o] = "refused" => world[o] = "clean"
    /\ verdict' \in [Ops -> Verdicts \cup {"unasked", "undecided"}]
    /\ UNCHANGED <<world, epoch>>

Next == Begin \/ Decide \/ \E o \in Ops : Ask(o) \/ Perform(o)

Spec == Init /\ [][Next]_promise
=============================================================================
