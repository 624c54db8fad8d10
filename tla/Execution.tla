------------------------------- MODULE Execution -------------------------------
(***************************************************************************)
(* The environment of one execution epoch of an Agent Turn: its creation   *)
(* at the container daemon, in two phases, against the ledger of           *)
(* execution_reservations, and its removal by the worker that created it or *)
(* by the recovery of the turn (src/internal/store/execution_reservations.go, *)
(* src/internal/runtime/docker, src/internal/agentturn/stop_worker.go).     *)
(*                                                                         *)
(* The daemon carries out a create request some time after it was sent,    *)
(* also when the sender gave up or died.  Each transaction is one step, and *)
(* so is each request to the daemon.  A container is named after its turn,  *)
(* epoch and phase: there is one of each phase.                             *)
(***************************************************************************)

Phases == {"setup", "main"}
Removers == {"owner", "recovery"}

VARIABLES
    reservation, \* the row: phase, the resources bound, and whether it is revoked, settled
    containers,  \* the containers that exist
    request,     \* the create request the daemon has not answered, or how it answered
    creator,     \* where executionEngine.Create is in the worker of the turn
    removal,     \* where EnsureKeyStopped and EnsureKeyAbsent are, and the reservation read when it was revoked
    epoch        \* the turn: "live" while its worker has the lease, "recovery" after, "settled" once its end is recorded

NoRow == [phase |-> "none", main |-> FALSE, setup |-> FALSE, setupSettled |-> FALSE, revoked |-> FALSE, settled |-> FALSE]

ExecutionInit ==
    /\ reservation = NoRow /\ containers = {} /\ request = "none"
    /\ creator = "launch" /\ epoch = "live"
    /\ removal = [a \in Removers |-> [at |-> "idle", seen |-> NoRow]]

-----------------------------------------------------------------------------
(* Creation: executionEngine.Create of the worker.                         *)

\* The ledger admits an operation of a live turn; a refusal, or any failure, leaves the removal to the recovery.
Admits(from, ok, to) == creator = from /\ creator' = IF epoch = "live" /\ ok THEN to ELSE "failed"
Admitted(ok, row) == reservation' = IF epoch = "live" /\ ok THEN row ELSE reservation

ReserveExecution ==
    /\ Admits("launch", ~reservation.revoked, "reserved")
    /\ Admitted(~reservation.revoked, [reservation EXCEPT !.phase = "reserved"])
    /\ UNCHANGED <<containers, request, removal, epoch>>

MayBegin(phase) ==
    /\ ~reservation.revoked /\ ~reservation.settled
    /\ reservation.phase = "reserved" \/ (phase = "main" /\ reservation.phase = "setup" /\ reservation.setupSettled)

\* beginExecutionPhase: the phase is recorded before its request is sent.  Without attachments there is no setup.
BeginExecutionPhase(phase) ==
    /\ \E from \in {"reserved"} \cup (IF phase = "main" THEN {"prepared"} ELSE {}) :
         Admits(from, MayBegin(phase), phase)
    /\ Admitted(MayBegin(phase), [reservation EXCEPT !.phase = phase])
    /\ UNCHANGED <<containers, request, removal, epoch>>

SendCreate(phase) ==
    /\ creator = phase /\ request = "none"
    /\ request' = phase /\ creator' = "wait"
    /\ UNCHANGED <<reservation, containers, removal, epoch>>

\* The daemon: it creates the container, or answers that it has not (its image is missing).
CreateLands ==
    /\ request \in Phases
    /\ containers' = containers \cup {request} /\ request' = "created"
    /\ UNCHANGED <<reservation, creator, removal, epoch>>
CreateRefused ==
    /\ request \in Phases /\ request' = "refused"
    /\ UNCHANGED <<reservation, containers, creator, removal, epoch>>

\* updateExecutionFact: what the daemon answered is recorded without the lease.
SetupBindable == reservation.phase = "setup" /\ ~reservation.setupSettled
MainBindable  == reservation.phase = "main" /\ (reservation.main \/ ~reservation.settled)
SetupBound == [reservation EXCEPT !.setup = TRUE]
MainBound  == [reservation EXCEPT !.main = TRUE, !.settled = TRUE]

\* The setup container is recorded before it is started; the main one even if that fails is the worker's to remove.
CreateAnswered ==
    /\ creator = "wait" /\ request = "created" /\ request' = "none"
    /\ IF reservation.phase = "setup"
       THEN /\ reservation' = IF SetupBindable THEN SetupBound ELSE reservation
            /\ creator' = IF SetupBindable THEN "setup up" ELSE "failed"
       ELSE /\ reservation' = IF MainBindable THEN MainBound ELSE reservation
            /\ creator' = "main up"
    /\ UNCHANGED <<containers, removal, epoch>>

\* RecordNoExecution
NoExecution == ~reservation.main /\ (reservation.setup => reservation.setupSettled)

Effectless == creator = "wait" /\ request = "refused"

\* recordCreationFailure: only what conclusively had no effect is recorded as such.
CreateFails ==
    /\ creator = "wait" /\ creator' = "failed"
    /\ reservation' = IF Effectless /\ NoExecution THEN [reservation EXCEPT !.settled = TRUE] ELSE reservation
    /\ request' = IF request = "refused" THEN "none" ELSE request
    /\ UNCHANGED <<containers, removal, epoch>>

\* runManagedOneShotContainer: the setup ran, or not; its container is removed, and that is recorded.
FinishSetup ==
    /\ creator = "setup up"
    /\ \/ /\ containers' = containers \ {"setup"}
          /\ \E ok \in BOOLEAN :
               /\ creator' = IF ok THEN "prepared" ELSE "failed"
               /\ reservation' = IF ok THEN [reservation EXCEPT !.setupSettled = TRUE]
                                 ELSE [reservation EXCEPT !.setupSettled = TRUE, !.settled = @ \/ ~reservation.main]
       \/ creator' = "failed" /\ UNCHANGED <<reservation, containers>>
    /\ UNCHANGED <<request, removal, epoch>>

\* The worker dies.
CreatorDies ==
    /\ creator \notin {"failed", "gone"} /\ creator' = "gone"
    /\ removal' = [removal EXCEPT !["owner"].at = "idle"]
    /\ UNCHANGED <<reservation, containers, request, epoch>>

-----------------------------------------------------------------------------
(* Removal: EnsureKeyStopped and EnsureKeyAbsent.                          *)

StepsTo(a, step) == removal' = [removal EXCEPT ![a].at = step]

\* RuntimeHandle.Cleanup removes what it created, or what it never began to create; the stop worker a turn in recovery.
MayRemove(a) ==
    IF a = "owner" THEN creator \in {"launch", "main up", "cleaning"} ELSE epoch = "recovery"

\* RevokeExecution: a tombstone when there is no row; a phase that was only reserved dispatched nothing.
Revoked(row) == [row EXCEPT !.revoked = TRUE, !.settled = @ \/ row.phase \in {"none", "reserved"}]

RevokeExecution(a) ==
    /\ removal[a].at \in {"idle", "stopped"} /\ MayRemove(a)
    /\ reservation' = Revoked(reservation)
    /\ removal' = [removal EXCEPT ![a] = [at |-> IF a = "recovery" /\ @.at = "idle" THEN "stop" ELSE "resolve", seen |-> Revoked(reservation)]]
    /\ creator' = IF a = "owner" THEN "cleaning" ELSE creator
    /\ UNCHANGED <<containers, request, epoch>>

\* What the ledger read may have dispatched and has not bound.
Unresolved(a) ==
    {phase \in Phases : /\ removal[a].seen.phase = phase /\ ~removal[a].seen.settled
                        /\ IF phase = "setup" THEN ~removal[a].seen.setup ELSE ~removal[a].seen.main}

\* A mutant of Resolvable: what the daemon does not have is taken for what it will never have.
ResolvableIfAbsent(a) == TRUE
\* resolveCreation: the container is found by its name, or the effect is still unknown.
Resolvable(a) == Unresolved(a) \subseteq containers

\* The ledger read, with what was found.
Looked(a) == LET seen == removal[a].seen
            IN  [seen EXCEPT !.setup = seen.setup \/ "setup" \in Unresolved(a), !.main = seen.main \/ "main" \in Unresolved(a)]

\* The resource that was found is bound, then the containers are stopped (EnsureKeyStopped) or removed (EnsureKeyAbsent).
Resolve(a) ==
    /\ removal[a].at \in {"stop", "resolve"} /\ Resolvable(a)
    /\ \A phase \in Unresolved(a) : IF phase = "setup" THEN SetupBindable ELSE MainBindable
    /\ reservation' = IF "setup" \in Unresolved(a) THEN SetupBound
                      ELSE IF "main" \in Unresolved(a) THEN MainBound ELSE reservation
    /\ removal' = [removal EXCEPT ![a] = [at |-> IF @.at = "stop" THEN "stopped" ELSE "remove", seen |-> Looked(a)]]
    /\ UNCHANGED <<containers, request, creator, epoch>>

\* ErrUnknownEffect, or a failure of the daemon or the database: the attempt ends, another one begins with the revocation.
RemovalFails(a) ==
    /\ removal[a].at # "idle" /\ StepsTo(a, "idle")
    /\ UNCHANGED <<reservation, containers, request, creator, epoch>>

\* EnsureAbsent: until the daemon lists no container with the labels of the turn.
RemoveListed(a) ==
    /\ removal[a].at = "remove" /\ StepsTo(a, "confirm")
    /\ containers' = {}
    /\ UNCHANGED <<reservation, request, creator, epoch>>

\* The resources bound are gone, each by its identifier; a setup that is settled so settles the creation.
ConfirmAbsent(a) ==
    LET seen == removal[a].seen
        row  == [reservation EXCEPT !.setupSettled = @ \/ seen.setup]
    IN /\ removal[a].at = "confirm"
       /\ seen.setup => "setup" \notin containers
       /\ seen.main => "main" \notin containers
       /\ seen.phase = "setup" => ~row.main /\ (row.setup => row.setupSettled)
       /\ reservation' = [row EXCEPT !.settled = @ \/ seen.phase = "setup"]
       /\ StepsTo(a, "absent")
       /\ UNCHANGED <<containers, request, creator, epoch>>

\* The end of the turn is recorded: by its worker while it has the lease, or by the stop worker of its recovery.
SettleExecution(a) ==
    /\ removal[a].at = "absent" /\ epoch = (IF a = "owner" THEN "live" ELSE "recovery")
    /\ epoch' = "settled" /\ StepsTo(a, "idle")
    /\ creator' = IF a = "owner" THEN "gone" ELSE creator
    /\ UNCHANGED <<reservation, containers, request>>

\* The lease expires and the turn enters its recovery (Monitor, Reconciler); its worker may not know.
Recover ==
    /\ epoch = "live" /\ epoch' = "recovery"
    /\ UNCHANGED <<reservation, containers, request, creator, removal>>

-----------------------------------------------------------------------------
ExecutionNext ==
    \/ ReserveExecution \/ CreateLands \/ CreateRefused \/ CreateAnswered \/ CreateFails \/ FinishSetup \/ CreatorDies \/ Recover
    \/ \E phase \in Phases : BeginExecutionPhase(phase) \/ SendCreate(phase)
    \/ \E a \in Removers : RevokeExecution(a) \/ Resolve(a) \/ RemovalFails(a) \/ RemoveListed(a) \/ ConfirmAbsent(a) \/ SettleExecution(a)

-----------------------------------------------------------------------------
(* Properties.                                                             *)

\* Once the end of a turn is recorded no container of it is there, and none comes: no request is left that the daemon
\* may still carry out (ErrUnknownEffect "must never be interpreted as a confirmed stop or absence receipt").
AbsenceIsFinal == epoch = "settled" => containers = {} /\ request \notin Phases

=============================================================================
