------------------------------ MODULE Workspaces ------------------------------
(***************************************************************************)
(* The workspace of an Assignment across its Agent Turns, and the evidence  *)
(* each turn leaves (src/internal/workspace: git.go, workspace_swap.go,     *)
(* lifecycle.go, turn_paths.go, capture.go; their callers are the launcher, *)
(* src/internal/agentturn/runtime.go, and the stop worker of a recovery,    *)
(* src/internal/agentturn/stop_worker.go).                                  *)
(*                                                                         *)
(* All turns of the Assignment share one directory.  A turn stages its      *)
(* checkout beside it and swaps the two under a fence: a transaction that   *)
(* locks the row of the turn while the actor that works on it holds its     *)
(* lease.  A launcher that has lost its lease is not stopped: it goes on to *)
(* its next fence.  What is on disk survives the death of any process.      *)
(***************************************************************************)
EXTENDS Naturals

CONSTANTS
    MaxEpoch,  \* bound of the model on the turns
    MaxWrite   \* bound of the model on what an agent writes

ASSUME WorkspacesAssumption == MaxEpoch \in Nat \ {0}

VARIABLES
    turn,       \* the execution epoch of the current turn, and who holds its authority
    at,         \* where the launcher and the recovery of each turn are
    files,      \* the workspace, the staged and the retired directories, the scratch directories
    container,  \* the container of each turn
    revoked,    \* the executions whose creation is revoked
    left,       \* history: the workspace as each turn left it when its container stopped
    evidence    \* of each turn: what its actors have read, the artifact on disk, the row in the ledger

Epochs  == 1..MaxEpoch
Actors  == {"launcher", "recovery"}
Absent  == [of |-> 0, v |-> 0]      \* no workspace
Nothing == [of |-> 0, v |-> 99]     \* no evidence

WorkspacesInit ==
    /\ turn = [n |-> 1, holder |-> "launcher"]
    /\ at = [e \in Epochs |-> [a \in Actors |-> IF a = "launcher" /\ e = 1 THEN "clean" ELSE "none"]]
    /\ files = [active |-> Absent, staged |-> {}, retired |-> {}, scratch |-> {}]
    /\ container = [e \in Epochs |-> "none"] /\ revoked = {}
    /\ left = [e \in Epochs |-> Nothing]
    /\ evidence = [e \in Epochs |-> [read |-> [a \in Actors |-> Nothing], artifact |-> Nothing, seal |-> Nothing]]

\* WithAgentTurnFence, WithAgentTurnCleanupFence, WithRecoveredRuntimeCleanupFence.
Holds(a, e) == turn = [n |-> e, holder |-> a]

Goes(a, e, where) == at' = [at EXCEPT ![e][a] = where]
\* Under the fence, or not at all.
UnderFence(a, e, where, operation) ==
    \/ Holds(a, e) /\ operation /\ Goes(a, e, where)
    \/ ~Holds(a, e) /\ Goes(a, e, "lost") /\ UNCHANGED files

\* cleanupOldEpochDirectories: all the directories of older epochs go, or the pass fails part of the way: on an error,
\* on its budget of time, or on a backlog of more than it takes.
Passes(old) == {p \in [gone : SUBSET old, ok : BOOLEAN] : p.ok => p.gone = old}

-----------------------------------------------------------------------------
(* The launch.                                                             *)

\* PrepareWorkspace: the abandoned checkouts of older epochs go first; a backlog fails the launch.
CleanStaged(e) ==
    /\ at[e]["launcher"] = "clean"
    /\ LET old == {s \in files.staged : s < e} IN
       \E pass \in Passes(old) :
           /\ files' = [files EXCEPT !.staged = @ \ pass.gone]
           /\ Goes("launcher", e, IF pass.ok THEN "clone" ELSE "failed")
    /\ UNCHANGED <<turn, container, revoked, left, evidence>>

\* The clone, or what is left of it.
Clone(e) ==
    /\ at[e]["launcher"] = "clone"
    /\ \/ files' = [files EXCEPT !.staged = @ \cup {e}] /\ Goes("launcher", e, "detach")
       \/ Goes("launcher", e, "failed") /\ UNCHANGED files
    /\ UNCHANGED <<turn, container, revoked, left, evidence>>

Detached(e) == [files EXCEPT !.active = Absent,
                             !.retired = @ \cup IF files.active = Absent THEN {} ELSE {[by |-> e, tree |-> files.active]}]

\* swapAssignmentWorkspace, under the fence: the workspace is renamed away ...
Detach(e) ==
    /\ at[e]["launcher"] = "detach"
    /\ \/ Holds("launcher", e) /\ files' = Detached(e) /\ Goes("launcher", e, "activate")
       \/ ~Holds("launcher", e) /\ files' = [files EXCEPT !.staged = @ \ {e}] /\ Goes("launcher", e, "lost")
    /\ UNCHANGED <<turn, container, revoked, left, evidence>>

\* ... and the checkout in its place; or the first rename is undone.
Activate(e) ==
    /\ at[e]["launcher"] = "activate"
    /\ \/ /\ files' = [files EXCEPT !.active = [of |-> e, v |-> 0], !.staged = @ \ {e}]
          /\ Goes("launcher", e, "drop")
       \/ LET mine == {r \in files.retired : r.by = e} IN
          /\ files' = [files EXCEPT !.active = IF mine = {} THEN Absent ELSE (CHOOSE r \in mine : TRUE).tree,
                                    !.retired = @ \ mine, !.staged = @ \ {e}]
          /\ Goes("launcher", e, "failed")
    /\ UNCHANGED <<turn, container, revoked, left, evidence>>

\* The workspace it took away, and what older turns have left of theirs.
Drop(e) ==
    /\ at[e]["launcher"] = "drop"
    /\ LET old == {r \in files.retired : r.by < e} IN
       \E pass \in Passes(old) :
           /\ files' = [files EXCEPT !.retired = {r \in @ \ pass.gone : r.by # e}]
           /\ Goes("launcher", e, IF pass.ok THEN "paths" ELSE "failed")
    /\ UNCHANGED <<turn, container, revoked, left, evidence>>

PreparePaths(e) ==
    /\ at[e]["launcher"] = "paths"
    /\ UnderFence("launcher", e, "create", files' = [files EXCEPT !.scratch = @ \cup {e}])
    /\ UNCHANGED <<turn, container, revoked, left, evidence>>

\* The reservation of the execution admits the creation until it is revoked.
Create(e) ==
    /\ at[e]["launcher"] = "create"
    /\ IF e \in revoked THEN Goes("launcher", e, "lost") /\ UNCHANGED container
       ELSE Goes("launcher", e, "run") /\ container' = [container EXCEPT ![e] = "running"]
    /\ UNCHANGED <<turn, files, revoked, left, evidence>>

\* The agent writes into the workspace its container has mounted.
Write(e) ==
    /\ container[e] = "running" /\ files.active.of = e /\ files.active.v < MaxWrite
    /\ files' = [files EXCEPT !.active.v = @ + 1]
    /\ UNCHANGED <<turn, at, container, revoked, left, evidence>>

-----------------------------------------------------------------------------
(* The end of a turn: the launcher's Cleanup, or the stop worker's.         *)

Stopped(e) == IF container[e] = "running"
              THEN container' = [container EXCEPT ![e] = "stopped"] /\ left' = [left EXCEPT ![e] = files.active]
              ELSE UNCHANGED <<container, left>>

Stop(a, e) ==
    /\ at[e][a] = IF a = "launcher" THEN "run" ELSE "stop"
    /\ Stopped(e)
    /\ revoked' = IF a = "launcher" THEN revoked ELSE revoked \cup {e}
    /\ Goes(a, e, "admit")
    /\ UNCHANGED <<turn, files, evidence>>

\* captureTerminalWorkspace: the fence is taken to admit the capture and to adopt it, not between.  A turn whose
\* container was never created leaves none.
AdmitCapture(a, e) ==
    /\ at[e][a] = "admit"
    /\ UnderFence(a, e, IF left[e] = Nothing THEN "remove" ELSE "load", UNCHANGED files)
    /\ UNCHANGED <<turn, container, revoked, left, evidence>>

\* A mutant of Load: an artifact on disk is taken for a sealed one.
LoadUnsealed(a, e) ==
    /\ at[e][a] = "load"
    /\ IF evidence[e].artifact # Nothing
       THEN Goes(a, e, "adopt") /\ UNCHANGED evidence
       ELSE container[e] = "stopped" /\ Goes(a, e, "publish") /\ evidence' = [evidence EXCEPT ![e].read[a] = files.active]
    /\ UNCHANGED <<turn, files, container, revoked, left>>
\* Capture: what is sealed is returned, what is only on disk is sealed, and a workspace is read once, from its container.
Load(a, e) ==
    /\ at[e][a] = "load"
    /\ IF evidence[e].seal # Nothing
       THEN Goes(a, e, IF evidence[e].artifact = evidence[e].seal THEN "adopt" ELSE "admit") /\ UNCHANGED evidence
       ELSE IF evidence[e].artifact # Nothing
       THEN Goes(a, e, "seal") /\ evidence' = [evidence EXCEPT ![e].read[a] = evidence[e].artifact]
       ELSE IF container[e] = "stopped"
       THEN Goes(a, e, "publish") /\ evidence' = [evidence EXCEPT ![e].read[a] = files.active]
       ELSE Goes(a, e, "admit") /\ UNCHANGED evidence
    /\ UNCHANGED <<turn, files, container, revoked, left>>

\* The rename of the artifact: it never replaces another.  The lock of its destination is the process's own.
PublishArtifact(a, e) ==
    /\ at[e][a] = "publish"
    /\ IF evidence[e].artifact = Nothing
       THEN evidence' = [evidence EXCEPT ![e].artifact = evidence[e].read[a]] /\ Goes(a, e, "seal")
       ELSE Goes(a, e, "admit") /\ UNCHANGED evidence
    /\ UNCHANGED <<turn, files, container, revoked, left>>

\* SealCapture: the first seal wins, another of the same content is the same.
Seal(a, e) ==
    /\ at[e][a] = "seal"
    /\ IF evidence[e].seal \in {Nothing, evidence[e].read[a]}
       THEN evidence' = [evidence EXCEPT ![e].seal = evidence[e].read[a]] /\ Goes(a, e, "adopt")
       ELSE Goes(a, e, "admit") /\ UNCHANGED evidence
    /\ UNCHANGED <<turn, files, container, revoked, left>>

Adopt(a, e) ==
    /\ at[e][a] = "adopt"
    /\ UnderFence(a, e, "remove", UNCHANGED files)
    /\ UNCHANGED <<turn, container, revoked, left, evidence>>

RemoveContainer(a, e) ==
    /\ at[e][a] = "remove"
    /\ container' = [container EXCEPT ![e] = "gone"]
    /\ Goes(a, e, "scratch")
    /\ UNCHANGED <<turn, files, revoked, left, evidence>>

CleanupPaths(a, e) ==
    /\ at[e][a] = "scratch"
    /\ UnderFence(a, e, "discard", files' = [files EXCEPT !.scratch = @ \ {e}])
    /\ UNCHANGED <<turn, container, revoked, left, evidence>>

\* DiscardWorkspaceFenced: whatever is the workspace is detached under the fence ...
Discard(a, e) ==
    /\ at[e][a] = "discard"
    /\ UnderFence(a, e, "retire", files' = Detached(e))
    /\ UNCHANGED <<turn, container, revoked, left, evidence>>

\* ... then what this epoch has detached must go, and what older ones have, a pass at a time.
Retire(a, e) ==
    /\ at[e][a] = "retire"
    /\ LET old == {r \in files.retired : r.by < e} IN
       \E pass \in Passes(old) :
           /\ files' = [files EXCEPT !.retired = {r \in @ \ pass.gone : r.by # e}]
           /\ Goes(a, e, IF pass.ok THEN "settle" ELSE "discard")
    /\ UNCHANGED <<turn, container, revoked, left, evidence>>

\* SettleAgentTurn, or AcknowledgeRecoveredRuntimeStopped and the end of the recovery.
SettleTurn(a, e) ==
    /\ at[e][a] \in {"settle", "failed"}
    /\ IF Holds(a, e) THEN turn' = [turn EXCEPT !.holder = "nobody"] /\ Goes(a, e, "over") ELSE Goes(a, e, "lost") /\ UNCHANGED turn
    /\ UNCHANGED <<files, container, revoked, left, evidence>>

-----------------------------------------------------------------------------
(* What happens to the actors.                                             *)

\* The lease of the turn expires and its recovery begins; not while a fence holds the row of the turn.
ExpireTurn ==
    /\ turn.holder = "launcher" /\ at[turn.n]["launcher"] # "activate"
    /\ turn' = [turn EXCEPT !.holder = "recovery"]
    /\ Goes("recovery", turn.n, "stop")
    /\ UNCHANGED <<files, container, revoked, left, evidence>>

\* A launcher dies wherever it is; the worker of a recovery starts again.
Die(a, e) ==
    /\ at[e][a] \notin {"none", "lost", "over", "dead"}
    /\ Goes(a, e, IF a = "launcher" THEN "dead" ELSE "stop")
    /\ UNCHANGED <<turn, files, container, revoked, left, evidence>>

\* The next turn of the Assignment, once this one is settled.
NextTurn ==
    /\ turn.holder = "nobody" /\ turn.n < MaxEpoch
    /\ turn' = [n |-> turn.n + 1, holder |-> "launcher"]
    /\ Goes("launcher", turn.n + 1, "clean")
    /\ UNCHANGED <<files, container, revoked, left, evidence>>

LaunchStep(e) == \/ CleanStaged(e) \/ Clone(e) \/ Detach(e) \/ Activate(e) \/ Drop(e) \/ PreparePaths(e) \/ Create(e) \/ Write(e)
StopStep(a, e) ==
    \/ Stop(a, e) \/ AdmitCapture(a, e) \/ Load(a, e) \/ PublishArtifact(a, e) \/ Seal(a, e) \/ Adopt(a, e) \/ RemoveContainer(a, e)
    \/ CleanupPaths(a, e) \/ Discard(a, e) \/ Retire(a, e) \/ SettleTurn(a, e) \/ Die(a, e)

WorkspacesNext ==
    \/ ExpireTurn \/ NextTurn
    \/ \E e \in Epochs : LaunchStep(e) \/ \E a \in Actors : StopStep(a, e)

-----------------------------------------------------------------------------
(* Properties.                                                             *)

\* A container that runs works on the checkout and the scratch directory of its own turn: no earlier turn, whose
\* launcher goes on without its lease or whose recovery comes late, takes them away or puts its own there.
SuccessorKeepsItsWorkspace ==
    \A e \in Epochs : container[e] = "running" => files.active.of = e /\ e \in files.scratch

\* A container is removed only when what it left is sealed, as it left it, whichever actor has sealed it and however
\* often either was interrupted.
EvidenceIsWhatWasLeft ==
    \A e \in Epochs : container[e] = "gone" /\ left[e] # Nothing => evidence[e].seal = left[e] /\ evidence[e].artifact = left[e]

\* Neither the work of a turn nor the evidence of an earlier one is lost to an actor that comes late.
WorkIsNotLost == SuccessorKeepsItsWorkspace /\ EvidenceIsWhatWasLeft
==============================================================================
