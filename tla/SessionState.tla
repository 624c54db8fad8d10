---------------------------- MODULE SessionState ----------------------------
(***************************************************************************)
(* The directory that keeps the Agent Sessions of one Participant: made by *)
(* the first launch of a Turn, written by the Runtime Process, restored    *)
(* from an archive by an operator, and collected with the Participant.     *)
(*                                                                         *)
(* A launch reads whether the state was initialized, makes the directory   *)
(* and records that, in steps; its Turn may be recovered and settled in    *)
(* between.  A restore unpacks the archive beside the directory and then   *)
(* renames it.  Processes die at any step, and disks lose directories while*)
(* nothing runs.                                                           *)
(***************************************************************************)
EXTENDS Naturals, FiniteSets

CONSTANTS Launchers, Operators,
          MaxLoss        \* directories lost

VARIABLES row,         \* the Participant's rows: retained_runtime_states, its Turn, its collection
          directory,   \* what is at the location
          staging,     \* the restore directories beside it
          lock,        \* the operator whose transaction holds off Turns and collection
          launcher,    \* the calls of Launch
          operator,    \* the calls of Restore
          lost         \* directories lost so far

stateVars == <<row, directory, staging, lock, launcher, operator, lost>>

Nobody  == "nobody"

ASSUME SessionAssumption == Nobody \notin Launchers \cup Operators

Missing == directory \in {"absent", "lost"}

StateInit ==
  /\ row = [initialized |-> FALSE, turn |-> Nobody, collecting |-> FALSE, deleted |-> FALSE]
  /\ directory = "absent" /\ staging = {} /\ lock = Nobody
  /\ launcher = [l \in Launchers |-> "idle"]
  /\ operator = [o \in Operators |-> "idle"]
  /\ lost = 0

-----------------------------------------------------------------------------
(* A Turn                                                                  *)

Steps(l, from, to) == launcher[l] = from /\ launcher' = [launcher EXCEPT ![l] = to]

(* AgentTurnState waits for an operator's transaction, which would find    *)
(* the Turn active.                                                        *)
Bind(l) ==
  /\ row.turn = Nobody /\ ~row.collecting /\ lock = Nobody
  /\ Steps(l, "idle", "bound") /\ row' = [row EXCEPT !.turn = l]
  /\ UNCHANGED <<directory, staging, lock, operator, lost>>

ReadMetadata(l) ==
  /\ Steps(l, "bound", IF row.initialized THEN "inspecting" ELSE "making")
  /\ UNCHANGED <<row, directory, staging, lock, operator, lost>>

(* A state that was there is never made again.                             *)
Inspect(l) ==
  /\ Steps(l, "inspecting", IF Missing THEN "failed" ELSE "ready")
  /\ UNCHANGED <<row, directory, staging, lock, operator, lost>>

Make(l) ==
  /\ Steps(l, "making", "ready")
  /\ directory' = IF Missing THEN "empty" ELSE directory
  /\ UNCHANGED <<row, staging, lock, operator, lost>>

(* Recorded under the Turn's fence, then the Runtime Process runs.         *)
MarkInitialized(l) ==
  /\ Steps(l, "ready", IF row.turn = l THEN "running" ELSE "failed")
  /\ row' = IF row.turn = l THEN [row EXCEPT !.initialized = TRUE] ELSE row
  /\ UNCHANGED <<directory, staging, lock, operator, lost>>

WriteSession(l) ==
  /\ launcher[l] = "running" /\ row.turn = l /\ ~Missing
  /\ directory' = "session"
  /\ UNCHANGED <<row, staging, lock, launcher, operator, lost>>

(* The Turn ends with its launch, or is recovered without its launcher.    *)
EndTurn(l) ==
  /\ row.turn = l /\ row' = [row EXCEPT !.turn = Nobody]
  /\ launcher' = IF launcher[l] \in {"running", "failed"} THEN [launcher EXCEPT ![l] = "idle"] ELSE launcher
  /\ UNCHANGED <<directory, staging, lock, operator, lost>>

LaunchEnds(l) ==
  /\ row.turn # l /\ launcher[l] # "idle" /\ launcher' = [launcher EXCEPT ![l] = "idle"]
  /\ UNCHANGED <<row, directory, staging, lock, operator, lost>>

-----------------------------------------------------------------------------
(* A restore                                                               *)

Does(o, from, to) == operator[o] = from /\ operator' = [operator EXCEPT ![o] = to]

(* A mutant of BeginRestore: whatever runs.                               *)
BeginRestoreAtOnce(o) ==
  /\ lock = Nobody /\ ~row.deleted
  /\ Does(o, "idle", "begun") /\ lock' = o
  /\ UNCHANGED <<row, directory, staging, launcher, lost>>

BeginRestore(o) ==
  /\ lock = Nobody /\ row.turn = Nobody /\ ~row.collecting /\ ~row.deleted
  /\ Does(o, "idle", "begun") /\ lock' = o
  /\ UNCHANGED <<row, directory, staging, launcher, lost>>

(* The archive is unpacked under a name of its own.                        *)
Stage(o) ==
  /\ Does(o, "begun", "unpacking") /\ staging' = staging \cup {o}
  /\ UNCHANGED <<row, directory, lock, launcher, lost>>

(* It is whole and of this state, or it is refused.                        *)
Unpack(o) ==
  /\ Does(o, "unpacking", "unpacked") \/ Does(o, "unpacking", "leaving")
  /\ UNCHANGED <<row, directory, staging, lock, launcher, lost>>

(* What is there stays: it is the archive, and the restore was acknowledged*)
(* in vain before, or it is in conflict with it.                           *)
Compare(o) ==
  /\ Does(o, "unpacked", IF Missing THEN "renaming" ELSE "leaving")
  /\ UNCHANGED <<row, directory, staging, lock, launcher, lost>>

(* A directory can be renamed to an empty one.                             *)
RenameStage(o) ==
  /\ Does(o, "renaming", "leaving")
  /\ IF Missing \/ directory = "empty"
     THEN directory' = "archive" /\ staging' = staging \ {o}
     ELSE UNCHANGED <<directory, staging>>
  /\ UNCHANGED <<row, lock, launcher, lost>>

(* The staging directory goes, and then the transaction.                   *)
EndRestore(o) ==
  /\ Does(o, "leaving", "idle") /\ staging' = staging \ {o} /\ lock' = Nobody
  /\ UNCHANGED <<row, directory, launcher, lost>>

(* The operator's process dies, and its connection with it.                *)
KillRestore(o) ==
  /\ operator[o] # "idle" /\ operator' = [operator EXCEPT ![o] = "idle"] /\ lock' = Nobody
  /\ UNCHANGED <<row, directory, staging, launcher, lost>>

-----------------------------------------------------------------------------
(* The collection of the Participant                                       *)

Authorize ==
  /\ lock = Nobody /\ row.turn = Nobody /\ ~row.collecting
  /\ row' = [row EXCEPT !.collecting = TRUE]
  /\ UNCHANGED <<directory, staging, lock, launcher, operator, lost>>

(* Collect looks for restores that were cut off, then removes the state;   *)
(* it may stop in between and is done again.                               *)
CollectStaging ==
  /\ row.collecting /\ ~row.deleted /\ staging # {} /\ staging' = {}
  /\ UNCHANGED <<row, directory, lock, launcher, operator, lost>>

Collect ==
  /\ row.collecting /\ ~row.deleted /\ staging = {} /\ directory' = "absent"
  /\ row' \in {row, [row EXCEPT !.deleted = TRUE]}
  /\ UNCHANGED <<staging, lock, launcher, operator, lost>>

-----------------------------------------------------------------------------
(* A volume is lost while nothing runs on it.                              *)
Lose ==
  /\ lost < MaxLoss /\ lock = Nobody /\ \A l \in Launchers : launcher[l] = "idle"
  /\ ~Missing /\ row.initialized /\ directory' = "lost" /\ lost' = lost + 1
  /\ UNCHANGED <<row, staging, lock, launcher, operator>>

StateNext ==
  \/ \E l \in Launchers : \/ Bind(l) \/ ReadMetadata(l) \/ Inspect(l) \/ Make(l)
                          \/ MarkInitialized(l) \/ WriteSession(l) \/ EndTurn(l) \/ LaunchEnds(l)
  \/ \E o \in Operators : \/ BeginRestore(o) \/ Stage(o) \/ Unpack(o) \/ Compare(o)
                          \/ RenameStage(o) \/ EndRestore(o) \/ KillRestore(o)
  \/ Authorize \/ CollectStaging \/ Collect \/ Lose

-----------------------------------------------------------------------------
(* Nothing of the Participant is left when its state counts as deleted,    *)
(* what a restore that was cut off left beside it neither.                 *)
(* A launch long recovered may still make the directory: it stays empty.   *)
NothingOutlivesCollection ==
  row.deleted => staging = {} /\ directory \notin {"session", "archive"}

(* And a state that was initialized and lost is not made again as an empty *)
(* directory, in which a Turn would begin without its Session and not      *)
(* know; nor is what a running Turn works on replaced by a restore         *)
(* (Bind, Launch, WithStateRecovery, Restore, Collect).                    *)
SessionIsKept ==
  [][/\ directory = "lost" => directory' # "empty"
     /\ \A l \in Launchers : launcher[l] = "running" /\ row.turn = l => directory' \in {directory, "session"}
     /\ NothingOutlivesCollection'
    ]_stateVars
=============================================================================
