---------------------------- MODULE SessionControl ----------------------------
(***************************************************************************)
(* Who may write to the state of an Agent Session: a turn of the           *)
(* automation, a person who prompts it, or an export of its retained state  *)
(* (TransferAgentSessionControl and the human prompt lease of               *)
(* src/internal/store/preparation.go, src/internal/runtime/session,        *)
(* src/internal/store/runtime_sessions.go, retained_state.go).              *)
(*                                                                         *)
(* A prompt runs in the runtime, outside of the process that sent it: when  *)
(* the process dies, the prompt goes on until the runtime is stopped.  The  *)
(* recovery of a turn is one step here, after its stop (AgentTurn shows     *)
(* the rest); mutations and intents left unsettled are theirs too.          *)
(***************************************************************************)
EXTENDS Naturals

CONSTANTS
    Persons,      \* processes that prompt for a person
    MaxRevision,  \* bound of the model on the transfers of control
    MaxTurns      \* bound of the model on the turns

VARIABLES
    session,   \* agent_sessions: owner and revision of the control, the runtime's identity, the human prompt's token and lease
    turn,      \* the turn of the Workflow: whether it is active, its lease live, and the revision it was admitted with
    runner,    \* what the process of the turn does
    person,    \* what each process of a person does, and the revision it has read
    writing,   \* prompts that run in a runtime: of the turn, or of a person
    exporting, \* WithStateRecovery holds its locks
    turns

ControlInit ==
    /\ session = [owner |-> "automation", revision |-> 1, runtime |-> "none", bound |-> FALSE, token |-> "none", live |-> FALSE]
    /\ turn = [active |-> FALSE, live |-> FALSE, revision |-> 0]
    /\ runner = "idle"
    /\ person = [p \in Persons |-> [at |-> "idle", revision |-> 0]]
    /\ writing = {} /\ exporting = FALSE /\ turns = 0

\* SHARE locks on turns, sessions and participants: nobody writes a row while the state is exported.
Unlocked == ~exporting

-----------------------------------------------------------------------------
(* Control.                                                                *)

\* TransferAgentSessionControl
TransferAgentSessionControl(owner) ==
    /\ Unlocked /\ session.revision < MaxRevision
    /\ session.token = "none" /\ ~turn.active
    /\ session' = [session EXCEPT !.owner = owner, !.revision = @ + 1]
    /\ UNCHANGED <<turn, runner, person, writing, exporting, turns>>

-----------------------------------------------------------------------------
(* A turn of the automation: RuntimeCoordinator.Prepare and Prompt.        *)

StartTurn ==
    /\ Unlocked /\ turns < MaxTurns /\ turns' = turns + 1
    /\ ~turn.active /\ runner = "idle" /\ session.owner = "automation"
    /\ turn' = [active |-> TRUE, live |-> TRUE, revision |-> session.revision]
    /\ runner' = "reserve"
    /\ UNCHANGED <<session, person, writing, exporting>>

\* withLockedAgentTurnLease
TurnFence == turn.active /\ turn.live /\ turn.revision = session.revision /\ session.owner = "automation"

RunnerGoes(from, to) == runner = from /\ (IF TurnFence THEN runner' = to ELSE runner' = "idle")

\* ReserveAgentSessionRuntime: the identity is recorded before the runtime is contacted.
Reserve ==
    /\ Unlocked /\ RunnerGoes("reserve", "connect")
    /\ session' = IF TurnFence /\ session.runtime = "none" THEN [session EXCEPT !.runtime = "reserved"] ELSE session
    /\ UNCHANGED <<turn, person, writing, exporting, turns>>

\* Connect and Prepare of the connection, outside of any transaction.
ConnectRuntime ==
    /\ runner = "connect" /\ \E ok \in BOOLEAN : runner' = IF ok THEN "bind" ELSE "idle"
    /\ UNCHANGED <<session, turn, person, writing, exporting, turns>>

\* BindAgentSessionRuntime and MarkAgentTurnStateInitialized
Bind ==
    /\ Unlocked /\ RunnerGoes("bind", "validate")
    /\ session' = IF TurnFence THEN [session EXCEPT !.bound = TRUE] ELSE session
    /\ UNCHANGED <<turn, person, writing, exporting, turns>>

\* ValidateRuntimeSessionPromptFence, and then the prompt.
ValidatePrompt ==
    /\ Unlocked /\ RunnerGoes("validate", "prompt")
    /\ UNCHANGED <<session, turn, person, writing, exporting, turns>>

\* The prompt is sent over the connection: a runtime that was stopped meanwhile does not take it.
PromptTurn ==
    /\ runner = "prompt" /\ runner' = "idle"
    /\ writing' = IF turn.active THEN writing \cup {"turn"} ELSE writing
    /\ UNCHANGED <<session, turn, person, exporting, turns>>

\* The runtime is stopped and the turn settled: by its worker, or after its lease is lost by the recovery.
EndTurn ==
    /\ Unlocked /\ turn.active /\ (turn.live => runner = "idle")
    /\ turn' = [turn EXCEPT !.active = FALSE, !.live = FALSE]
    /\ writing' = writing \ {"turn"}
    /\ UNCHANGED <<session, runner, person, exporting, turns>>

LoseTurnLease ==
    /\ turn.live /\ turn' = [turn EXCEPT !.live = FALSE]
    /\ UNCHANGED <<session, runner, person, writing, exporting, turns>>

-----------------------------------------------------------------------------
(* A person: RuntimeCoordinator.HumanPrompt.                               *)

ReadSession(p) ==
    /\ person[p].at = "idle" /\ session.owner = "human"
    /\ person' = [person EXCEPT ![p] = [at |-> "acquire", revision |-> session.revision]]
    /\ UNCHANGED <<session, turn, runner, writing, exporting, turns>>

PersonGoes(p, step) == person' = [person EXCEPT ![p].at = step]

\* A mutant of Admissible: an admission whose lease has expired is taken over.
AdmissibleAfterExpiry(p) ==
    /\ session.owner = "human" /\ session.revision = person[p].revision
    /\ session.bound /\ ~turn.active /\ (session.token = "none" \/ ~session.live)
\* AcquireHumanPromptLease: an admission that is there, expired or not, is never replaced.
Admissible(p) ==
    /\ session.owner = "human" /\ session.revision = person[p].revision
    /\ session.bound /\ ~turn.active /\ session.token = "none"

AcquireHumanPromptLease(p) ==
    /\ Unlocked /\ person[p].at = "acquire"
    /\ IF Admissible(p)
       THEN session' = [session EXCEPT !.token = p, !.live = TRUE] /\ PersonGoes(p, "connect")
       ELSE UNCHANGED session /\ PersonGoes(p, "idle")
    /\ UNCHANGED <<turn, runner, writing, exporting, turns>>

HumanFence(p) ==
    /\ session.owner = "human" /\ session.revision = person[p].revision
    /\ session.token = p /\ session.live /\ ~turn.active

\* The heartbeat comes in time; or it does not, and the lease runs out for good: only an admission makes one live.
ExpireHumanPromptLease ==
    /\ session.live /\ session' = [session EXCEPT !.live = FALSE]
    /\ UNCHANGED <<turn, runner, person, writing, exporting, turns>>

\* The runtime is opened, its history replayed; HeartbeatHumanPromptLease is the last look before the prompt.
ReplayHistory(p) ==
    /\ Unlocked /\ person[p].at = "connect"
    /\ \E ok \in BOOLEAN : PersonGoes(p, IF ok /\ HumanFence(p) THEN "prompt" ELSE "release")
    /\ UNCHANGED <<session, turn, runner, writing, exporting, turns>>

PromptPerson(p) ==
    /\ person[p].at = "prompt" /\ PersonGoes(p, "prompting")
    /\ writing' = writing \cup {p}
    /\ UNCHANGED <<session, turn, runner, exporting, turns>>

\* The answer comes, or the prompt is cancelled because its heartbeat failed; what was not answered is unknown.
PromptReturns(p) ==
    /\ person[p].at = "prompting"
    /\ \/ writing' = writing \ {p} /\ PersonGoes(p, "release")
       \/ PersonGoes(p, "unknown") /\ UNCHANGED writing
    /\ UNCHANGED <<session, turn, runner, exporting, turns>>

Releases(p) == person[p].at = "release"

\* The end of HumanPrompt and ReleaseHumanPromptLease: what is unknown keeps its token.
Release(p) ==
    /\ person[p].at \in {"release", "unknown"}
    /\ Releases(p) => Unlocked
    /\ session' = IF Releases(p) /\ session.token = p THEN [session EXCEPT !.token = "none", !.live = FALSE] ELSE session
    /\ PersonGoes(p, "idle")
    /\ UNCHANGED <<turn, runner, writing, exporting, turns>>

\* The process dies; the runtime goes on with the prompt, and nobody releases the token.
PersonDies(p) ==
    /\ person[p].at # "idle" /\ PersonGoes(p, "idle")
    /\ UNCHANGED <<session, turn, runner, writing, exporting, turns>>

\* A prompt whose process is gone ends some time.
PromptEndsAlone(p) ==
    /\ p \in writing /\ person[p].at \notin {"prompting"}
    /\ writing' = writing \ {p}
    /\ UNCHANGED <<session, turn, runner, person, exporting, turns>>

-----------------------------------------------------------------------------
Busy == turn.active \/ session.token # "none"

\* WithStateRecovery: the retained state is read while its locks are held, then they are released.
Export ==
    /\ IF exporting THEN exporting' = FALSE ELSE ~Busy /\ exporting' = TRUE
    /\ UNCHANGED <<session, turn, runner, person, writing, turns>>

-----------------------------------------------------------------------------
ControlNext ==
    \/ \E owner \in {"automation", "human"} : TransferAgentSessionControl(owner)
    \/ StartTurn \/ Reserve \/ ConnectRuntime \/ Bind \/ ValidatePrompt \/ PromptTurn \/ EndTurn \/ LoseTurnLease
    \/ ExpireHumanPromptLease \/ Export
    \/ \E p \in Persons : \/ ReadSession(p) \/ AcquireHumanPromptLease(p) \/ ReplayHistory(p) \/ PromptPerson(p)
                          \/ PromptReturns(p) \/ Release(p) \/ PersonDies(p) \/ PromptEndsAlone(p)

-----------------------------------------------------------------------------
(* Properties.                                                             *)

\* The state of a session has one writer at a time, a turn or a person, and none while it is exported, although a
\* prompt outlives the lease and the process that sent it (HumanPrompt, AcquireHumanPromptLease, WithStateRecovery).
OneWriter ==
    /\ \A a, b \in writing : a = b
    /\ exporting => writing = {}
=============================================================================
