------------------------------ MODULE AgentTurn ------------------------------
(***************************************************************************)
(* The life of the Agent Turns of one session (src/internal/store/turns.go, *)
(* mutation_recovery.go, settlement.go, startup_recovery.go), the worker    *)
(* that runs each of them (agentturn/execution_worker.go, runtime.go), the  *)
(* MCP gateway through which its agent changes GitHub (mcp/gateway.go), the *)
(* workers that recover a turn, and the closure of the issue.               *)
(*                                                                         *)
(* Turn n + 1 retries turn n: they share an operation lineage.  A turn is   *)
(* run by one process; the gate of its gateway admits one mutation at a     *)
(* time, so that pc[t] is the mutation turn t's gateway is executing, but   *)
(* the gateways of two turns may be two processes.  Each action is one      *)
(* transaction, one external call, or one step of a process.  lease[t]      *)
(* stands for the leases of the job, its attempt, the turn and the slot,    *)
(* which are written, renewed and released together.                        *)
(***************************************************************************)
EXTENDS Naturals, FiniteSets

CONSTANTS
    MaxTurn,      \* bound of the model on the number of turns
    Ops,          \* the mutations of the lineage: (tool, operation_id) pairs
    Frozen,       \* those that freeze a collaboration artifact under the fence of the turn before they are sent
    MaxAttempts,  \* max_attempts of a mutation reconciliation job
    MayClose      \* whether the issue may be closed

ASSUME ConstantsAssumption == /\ MaxTurn \in Nat \ {0} /\ Frozen \subseteq Ops
                              /\ MaxAttempts \in Nat \ {0} /\ MayClose \in BOOLEAN

Turns == 1..MaxTurn
NoOp  == "none"

VARIABLES
    status,       \* agent_turns.status, ABSENT before the row is inserted
    admission,    \* mutation_admission_open
    lease,        \* none, live or expired
    recovery,     \* recovery_continuation: none, pending, handoff (a person will decide), settled
    stopJob,      \* the STOP_STALE_RUNTIME job: none, open or done (runtime_stopped_at)
    mutationJob,  \* the RECONCILE_AGENT_TURN_MUTATIONS job: none, open or done
    tries,        \* its failed attempts
    worker,       \* where the process that runs the turn is
    grant,        \* the registration of the turn at its gateway: none, open or closed
    dirty,        \* grant.unresolved
    runtime,      \* the Runtime Process: none, running, stopped or removed
    captured,     \* the terminal capture of its workspace is sealed
    ledger,       \* tool_invocations.state of a mutation, NONE before the row is inserted
    owner,        \* the turn that owns the row, 0 before
    why,          \* why a row is FAILED
    artifact,     \* the collaboration artifact of the mutation is frozen
    effect,       \* the external effect: none, sent, landed, refused, twice
    pc, op,       \* the call the gateway of a turn is executing, and its mutation
    issue,        \* the Workflow: open, closing or closed
    barrier,      \* the source turn of the closure, 0 when there is none
    stopped       \* the closure has acknowledged that its turn is stopped

turnRow  == <<status, admission, lease>>
jobs     == <<recovery, stopJob, mutationJob, tries>>
process  == <<worker, grant, dirty>>
box      == <<runtime, captured>>
rows     == <<ledger, owner, why>>
world    == <<artifact, effect>>
gateway  == <<pc, op>>
closure  == <<issue, barrier, stopped>>
vars     == <<turnRow, jobs, process, box, rows, world, gateway, closure>>

Undecided == {"RESERVED", "IN_FLIGHT", "UNKNOWN", "RECONCILING"}

RowsOf(t)    == {o \in Ops : owner[o] = t}
Unsettled(t) == \E o \in RowsOf(t) : ledger[o] \in Undecided

\* agent_turns.active
Active(t) == \/ status[t] \in {"QUEUED", "RUNNING", "SETTLING", "CANCELLING"}
             \/ status[t] = "RECONCILING" /\ recovery[t] = "none"

\* validateAgentTurnLeaseTx: the lease holds and the Workflow allows turns.
Fenced(t) == lease[t] = "live" /\ issue = "open"

-----------------------------------------------------------------------------
(* What a transaction that ends or fences a turn does to its mutations.     *)

\* A row that was not started fails; one that was is UNKNOWN.
Orphan(t) ==
    /\ ledger' = [o \in Ops |-> CASE owner[o] = t /\ ledger[o] = "RESERVED"  -> "FAILED"
                                  [] owner[o] = t /\ ledger[o] = "IN_FLIGHT" -> "UNKNOWN"
                                  [] OTHER -> ledger[o]]
    /\ why'    = [o \in Ops |-> IF owner[o] = t /\ ledger[o] = "RESERVED" THEN "unstarted" ELSE why[o]]

\* The recovery barrier: the runtime must stop, and what the turn may have done must be reconciled.
RaiseBarrier(t, continuation) ==
    LET reconcile == \E o \in RowsOf(t) : ledger'[o] \in {"UNKNOWN", "RECONCILING", "SUCCEEDED"}
    IN  /\ status'      = [status EXCEPT ![t] = IF reconcile THEN "RECONCILING" ELSE "INTERRUPTED"]
        /\ admission'   = [admission EXCEPT ![t] = FALSE]
        /\ lease'       = [lease EXCEPT ![t] = "none"]
        /\ recovery'    = [recovery EXCEPT ![t] = continuation]
        /\ stopJob'     = [stopJob EXCEPT ![t] = "open"]
        /\ mutationJob' = [mutationJob EXCEPT ![t] = IF reconcile THEN "open" ELSE "none"]
        /\ UNCHANGED tries

-----------------------------------------------------------------------------
(* The turn and the worker that runs it.                                    *)

Step(t, where) == worker' = [worker EXCEPT ![t] = where]

\* A mutant of PriorSettled: the rows of the predecessor are not looked at.
PriorTurnEnded(t) ==
    /\ \A u \in Turns : ~Active(u)
    /\ t > 1 => status[t - 1] \in {"FAILED", "INTERRUPTED", "RECONCILING"}
\* The guards on a successor: no active turn, a retryable predecessor, no recovery and no mutation outstanding.
PriorSettled(t) ==
    /\ \A u \in Turns : ~Active(u) /\ ~Unsettled(u) /\ recovery[u] \in {"none", "settled"}
    /\ t > 1 => \/ status[t - 1] \in {"FAILED", "INTERRUPTED"}
                \/ status[t - 1] = "RECONCILING" /\ recovery[t - 1] = "settled"

Prepare(t) ==
    /\ status[t] = "ABSENT" /\ issue = "open" /\ PriorSettled(t)
    /\ status' = [status EXCEPT ![t] = "QUEUED"]
    /\ UNCHANGED <<admission, lease, jobs, process, box, rows, world, gateway, closure>>

\* ClaimAndAcquireAgentTurn
Claim(t) ==
    /\ status[t] = "QUEUED" /\ issue = "open"
    /\ status' = [status EXCEPT ![t] = "RUNNING"]
    /\ lease'  = [lease EXCEPT ![t] = "live"]
    /\ Step(t, "launching")
    /\ UNCHANGED <<admission, jobs, grant, dirty, box, rows, world, gateway, closure>>

\* Launch: the runtime starts and the turn is registered at the gateway; or it fails, and may have left a runtime.
\* (Execution.tla shows that none is created once the recovery has stopped it.)
Launch(t) ==
    /\ worker[t] = "launching" /\ Fenced(t)
    /\ runtime' = [runtime EXCEPT ![t] = "running"]
    /\ grant'   = [grant EXCEPT ![t] = "open"]
    /\ Step(t, "opening")
    /\ UNCHANGED <<turnRow, jobs, dirty, captured, rows, world, gateway, closure>>

LaunchFails(t) ==
    /\ worker[t] = "launching"
    /\ \/ UNCHANGED runtime
       \/ Fenced(t) /\ runtime' = [runtime EXCEPT ![t] = "running"]
    /\ Step(t, "closing")
    /\ UNCHANGED <<turnRow, jobs, grant, dirty, captured, rows, world, gateway, closure>>

OpenAdmission(t) ==
    /\ worker[t] = "opening" /\ Fenced(t) /\ status[t] = "RUNNING"
    /\ admission' = [admission EXCEPT ![t] = TRUE]
    /\ Step(t, "prompting")
    /\ UNCHANGED <<status, lease, jobs, grant, dirty, box, rows, world, gateway, closure>>

\* The prompt ends, in whatever way; the runtime may have died with it.
PromptEnds(t) ==
    /\ worker[t] \in {"opening", "prompting"}
    /\ Step(t, "closing")
    /\ UNCHANGED <<turnRow, jobs, grant, dirty, box, rows, world, gateway, closure>>

\* CloseMutationAdmission, CloseMutationAdmissionWithPromptEvidence
CloseAdmission(t) ==
    /\ worker[t] = "closing" /\ Fenced(t) /\ status[t] = "RUNNING"
    /\ status' = [status EXCEPT ![t] = IF \E o \in RowsOf(t) : ledger[o] \in {"UNKNOWN", "RECONCILING"}
                                       THEN "RECONCILING" ELSE "SETTLING"]
    /\ admission' = [admission EXCEPT ![t] = FALSE]
    /\ Step(t, "draining")
    /\ UNCHANGED <<lease, jobs, grant, dirty, box, rows, world, gateway, closure>>

\* CloseMCP closes the grant and waits for the call it admitted.
CloseGrant(t) ==
    /\ worker[t] \in {"draining", "abandoned"} /\ grant[t] = "open"
    /\ grant' = [grant EXCEPT ![t] = "closed"]
    /\ UNCHANGED <<turnRow, jobs, worker, dirty, box, rows, world, gateway, closure>>

\* The channel "drained" of the grant.
Drained(t) == grant[t] # "open" /\ pc[t] = "idle"

Drain(t) ==
    /\ worker[t] = "draining" /\ Drained(t)
    /\ Step(t, "listing")
    /\ UNCHANGED <<turnRow, jobs, grant, dirty, box, rows, world, gateway, closure>>

\* waitForRecoverableMutations: residual rows are repaired when the drain reported an unresolved call, waited for
\* when it did not.
ListMutations(t) ==
    /\ worker[t] = "listing" /\ Fenced(t)
    /\ IF dirty[t] THEN Orphan(t)
       ELSE /\ \A o \in RowsOf(t) : ledger[o] \notin {"RESERVED", "IN_FLIGHT"}
            /\ UNCHANGED <<ledger, why>>
    /\ Step(t, "cleaning")
    /\ UNCHANGED <<turnRow, jobs, grant, dirty, box, owner, world, gateway, closure>>

\* Cleanup of the runtime: stop, capture under the fence, remove.  A worker that lost its fence tries it too.
CleanStop(t) ==
    /\ worker[t] \in {"cleaning", "abandoned"} /\ runtime[t] = "running" /\ grant[t] # "open"
    /\ runtime' = [runtime EXCEPT ![t] = "stopped"]
    /\ UNCHANGED <<turnRow, jobs, process, captured, rows, world, gateway, closure>>

CleanCapture(t) ==
    /\ worker[t] \in {"cleaning", "abandoned"} /\ runtime[t] = "stopped" /\ Drained(t)
    /\ Fenced(t) /\ status[t] \in {"RUNNING", "SETTLING", "RECONCILING"}
    /\ captured' = [captured EXCEPT ![t] = TRUE]
    /\ UNCHANGED <<turnRow, jobs, process, runtime, rows, world, gateway, closure>>

CleanRemove(t) ==
    /\ worker[t] \in {"cleaning", "abandoned"} /\ runtime[t] = "stopped" /\ captured[t]
    /\ runtime' = [runtime EXCEPT ![t] = "removed"]
    /\ UNCHANGED <<turnRow, jobs, process, captured, rows, world, gateway, closure>>

Cleaned(t) == runtime[t] \in {"none", "removed"}

\* SettleAgentTurn with an outcome of the turn.
Settle(t) ==
    /\ worker[t] = "cleaning" /\ Cleaned(t) /\ Fenced(t)
    /\ ~dirty[t] /\ ~Unsettled(t) /\ status[t] = "SETTLING"
    /\ \E result \in {"SUCCEEDED", "FAILED"} : status' = [status EXCEPT ![t] = result]
    /\ lease' = [lease EXCEPT ![t] = "none"]
    /\ Step(t, "gone")
    /\ UNCHANGED <<admission, jobs, grant, dirty, box, rows, world, gateway, closure>>

\* BeginAgentTurnRecovery, when the cleanup failed, the drain or a row is unresolved, or the outcome cannot be
\* established.
BeginRecovery(t) ==
    /\ worker[t] = "cleaning" /\ Fenced(t) /\ status[t] \in {"SETTLING", "RECONCILING"} /\ ~admission[t]
    /\ \A o \in RowsOf(t) : ledger[o] \notin {"RESERVED", "IN_FLIGHT"}
    /\ ledger' = [o \in Ops |-> IF owner[o] = t /\ ledger[o] = "UNKNOWN" THEN "RECONCILING" ELSE ledger[o]]
    /\ RaiseBarrier(t, "pending")
    /\ Step(t, "gone")
    /\ UNCHANGED <<grant, dirty, box, owner, why, world, gateway, closure>>

\* The heartbeat fails or a step finds its fence lost: the worker cleans up without it and leaves the job.
Abandon(t) ==
    /\ worker[t] \notin {"none", "gone", "abandoned"}
    /\ Step(t, "abandoned")
    /\ UNCHANGED <<turnRow, jobs, grant, dirty, box, rows, world, gateway, closure>>

Leave(t) ==
    /\ worker[t] = "abandoned" /\ grant[t] # "open"
    /\ Step(t, "gone")
    /\ UNCHANGED <<turnRow, jobs, grant, dirty, box, rows, world, gateway, closure>>

\* The process is killed: its gateway and the call it was executing are gone, what was sent is not.
Crash(t) ==
    /\ worker[t] \notin {"none", "gone"} \/ pc[t] # "idle"
    /\ Step(t, "gone")
    /\ grant' = [grant EXCEPT ![t] = IF @ = "open" THEN "closed" ELSE @]
    /\ pc'    = [pc EXCEPT ![t] = "idle"]
    /\ op'    = [op EXCEPT ![t] = NoOp]
    /\ UNCHANGED <<turnRow, jobs, dirty, box, rows, world, closure>>

\* lease_expires_at passes: the worker is gone or too slow to renew it.
Expire(t) ==
    /\ lease[t] = "live"
    /\ lease' = [lease EXCEPT ![t] = "expired"]
    /\ UNCHANGED <<status, admission, jobs, process, box, rows, world, gateway, closure>>

-----------------------------------------------------------------------------
(* Recovery by another process.                                             *)

\* A mutant of RecoverExpired: only a turn that is running is recovered.
RecoverRunning(t) ==
    /\ lease[t] = "expired" /\ status[t] = "RUNNING"
    /\ Orphan(t)
    /\ RaiseBarrier(t, "pending")
    /\ UNCHANGED <<process, box, owner, world, gateway, closure>>
\* RecoverExpiredAgentTurn, ClaimAndRecoverExpiredAgentTurn: the status of the Workflow is not looked at.
RecoverExpired(t) ==
    /\ lease[t] = "expired" /\ Active(t)
    /\ Orphan(t)
    /\ RaiseBarrier(t, "pending")
    /\ UNCHANGED <<process, box, owner, world, gateway, closure>>

\* FenceDuplicateAgentTurnRuntime: the runtime of a live turn was found twice.
FenceDuplicate(t) ==
    /\ lease[t] = "live" /\ Active(t) /\ runtime[t] = "running"
    /\ Orphan(t)
    /\ RaiseBarrier(t, "pending")
    /\ UNCHANGED <<process, box, owner, world, gateway, closure>>

\* interruptTurnForHumanHandoffTx: an event finds that the Definition of the Workflow no longer applies, and a
\* person takes over.  A turn nobody has claimed leaves nothing to recover.
InterruptForHandoff(t) ==
    /\ issue = "open" /\ Active(t)
    /\ \/ /\ status[t] = "QUEUED"
          /\ status' = [status EXCEPT ![t] = "INTERRUPTED"]
          /\ UNCHANGED <<admission, lease, jobs, ledger, why>>
       \/ /\ lease[t] # "none"
          /\ Orphan(t)
          /\ RaiseBarrier(t, "handoff")
    /\ UNCHANGED <<process, box, owner, world, gateway, closure>>

\* A mutant of SettleRecovery: it waits for a reconciliation that is not always needed.
SettleWhenReconciled(t, stop, job, continuation, undecided) ==
    IF stop = "done" /\ job = "done" /\ ~undecided
    THEN /\ continuation = "pending" => issue = "open"
         /\ recovery' = [recovery EXCEPT ![t] = "settled"]
         /\ status' = [status EXCEPT ![t] = "INTERRUPTED"]
    ELSE /\ recovery' = [recovery EXCEPT ![t] = continuation]
         /\ UNCHANGED status
\* settleAgentTurnRecoveryTx, in the transaction of the recovery worker; its arguments are the barrier that
\* transaction leaves.  TURN_SETTLED is not legal while the issue is closing: the transaction then fails.
\* (A recovered turn ends INTERRUPTED, FAILED or TIMED_OUT, which nothing here tells apart.)
SettleRecovery(t, stop, job, continuation, undecided) ==
    IF stop = "done" /\ job # "open" /\ ~undecided
    THEN /\ continuation = "pending" => issue = "open"
         /\ recovery' = [recovery EXCEPT ![t] = "settled"]
         /\ status' = [status EXCEPT ![t] = "INTERRUPTED"]
    ELSE /\ recovery' = [recovery EXCEPT ![t] = continuation]
         /\ UNCHANGED status

Recovering(t) == recovery[t] \in {"pending", "handoff"}

StaleStop(t) ==
    /\ Recovering(t) /\ stopJob[t] = "open" /\ runtime[t] = "running"
    /\ runtime' = [runtime EXCEPT ![t] = "stopped"]
    /\ UNCHANGED <<turnRow, jobs, process, captured, rows, world, gateway, closure>>

StaleCapture(t) ==
    /\ Recovering(t) /\ stopJob[t] = "open" /\ runtime[t] = "stopped" /\ ~captured[t]
    /\ captured' = [captured EXCEPT ![t] = TRUE]
    /\ UNCHANGED <<turnRow, jobs, process, runtime, rows, world, gateway, closure>>

StaleRemove(t) ==
    /\ Recovering(t) /\ stopJob[t] = "open" /\ runtime[t] = "stopped" /\ captured[t]
    /\ runtime' = [runtime EXCEPT ![t] = "removed"]
    /\ UNCHANGED <<turnRow, jobs, process, captured, rows, world, gateway, closure>>

\* AcknowledgeRecoveredRuntimeStopped
AcknowledgeStopped(t) ==
    /\ Recovering(t) /\ stopJob[t] = "open" /\ Cleaned(t)
    /\ stopJob' = [stopJob EXCEPT ![t] = "done"]
    /\ SettleRecovery(t, "done", mutationJob[t], recovery[t], Unsettled(t))
    /\ UNCHANGED <<admission, lease, mutationJob, tries, process, box, rows, world, gateway, closure>>

\* The guard of a reconciliation: its job is live and the stop of the runtime is durable.
MayReconcile(t, o) ==
    /\ Recovering(t) /\ mutationJob[t] = "open" /\ stopJob[t] = "done"
    /\ owner[o] = t /\ ledger[o] \in {"UNKNOWN", "RECONCILING"}

\* The search of the reconciler for the exact effect of a mutation: by its operation marker, head or reviewer.
Found(o) == effect[o] \in {"landed", "twice"}

\* ReconcileRecoveredMutation
ReconcileFound(t, o) ==
    /\ MayReconcile(t, o) /\ Found(o)
    /\ ledger' = [ledger EXCEPT ![o] = "SUCCEEDED"]
    /\ UNCHANGED <<turnRow, jobs, process, box, owner, why, world, gateway, closure>>

\* A mutant of ReconcileAbsent: a search that finds nothing is an answer.
ReconcileMissing(t, o) ==
    /\ MayReconcile(t, o) /\ ~Found(o)
    /\ ledger' = [ledger EXCEPT ![o] = "FAILED"]
    /\ why'    = [why EXCEPT ![o] = "absent"]
    /\ UNCHANGED <<turnRow, jobs, process, box, owner, world, gateway, closure>>
\* ReconcileClarificationNonPublication: the runtime is stopped, admission closed and no artifact was frozen.
ReconcileAbsent(t, o) ==
    /\ MayReconcile(t, o) /\ o \in Frozen /\ ~artifact[o] /\ ~admission[t]
    /\ ledger' = [ledger EXCEPT ![o] = "FAILED"]
    /\ why'    = [why EXCEPT ![o] = "absent"]
    /\ UNCHANGED <<turnRow, jobs, process, box, owner, world, gateway, closure>>

\* AcknowledgeAgentTurnMutationReconciliationFailure, also when a mutation that succeeded cannot be confirmed: the
\* last attempt gives the others up and asks a person.
Candidates(t) == {o \in RowsOf(t) : ledger[o] \in {"UNKNOWN", "RECONCILING", "SUCCEEDED"}}

ReconcileFails(t) ==
    /\ Recovering(t) /\ mutationJob[t] = "open" /\ stopJob[t] = "done" /\ Candidates(t) # {}
    /\ tries[t] + 1 < MaxAttempts
    /\ tries' = [tries EXCEPT ![t] = @ + 1]
    /\ UNCHANGED <<turnRow, recovery, stopJob, mutationJob, process, box, rows, world, gateway, closure>>

ReconcileExhausted(t) ==
    /\ Recovering(t) /\ mutationJob[t] = "open" /\ stopJob[t] = "done" /\ Candidates(t) # {}
    /\ tries[t] + 1 >= MaxAttempts
    /\ recovery[t] = "pending" => issue = "open"
    /\ tries'  = [tries EXCEPT ![t] = @ + 1]
    /\ ledger' = [o \in Ops |-> IF owner[o] = t /\ ledger[o] \in {"UNKNOWN", "RECONCILING"} THEN "FAILED"
                                ELSE ledger[o]]
    /\ why'    = [o \in Ops |-> IF owner[o] = t /\ ledger[o] \in {"UNKNOWN", "RECONCILING"} THEN "exhausted"
                                ELSE why[o]]
    /\ mutationJob' = [mutationJob EXCEPT ![t] = "done"]
    /\ SettleRecovery(t, stopJob[t], "done", "handoff", FALSE)
    /\ UNCHANGED <<admission, lease, stopJob, process, box, owner, world, gateway, closure>>

\* CompleteAgentTurnMutationReconciliation
CompleteReconciliation(t) ==
    /\ Recovering(t) /\ mutationJob[t] = "open" /\ stopJob[t] = "done" /\ ~Unsettled(t)
    /\ mutationJob' = [mutationJob EXCEPT ![t] = "done"]
    /\ SettleRecovery(t, stopJob[t], "done", recovery[t], FALSE)
    /\ UNCHANGED <<admission, lease, stopJob, tries, process, box, rows, world, gateway, closure>>

-----------------------------------------------------------------------------
(* The gateway: one mutation of turn t.                                     *)

Call(t, where) == pc' = [pc EXCEPT ![t] = where] /\ UNCHANGED op

\* finishCall: the call leaves, and says whether its mutation is durably resolved.
Finish(t, resolved) ==
    /\ pc' = [pc EXCEPT ![t] = "idle"]
    /\ op' = [op EXCEPT ![t] = NoOp]
    /\ dirty' = [dirty EXCEPT ![t] = @ \/ ~resolved]

Record(o, state, reason) ==
    /\ ledger' = [ledger EXCEPT ![o] = state]
    /\ why'    = [why EXCEPT ![o] = reason]

Admit(t, o) ==
    /\ pc[t] = "idle" /\ grant[t] = "open" /\ Fenced(t)
    /\ pc' = [pc EXCEPT ![t] = "admitted"]
    /\ op' = [op EXCEPT ![t] = o]
    /\ UNCHANGED <<turnRow, jobs, process, box, rows, world, closure>>

\* Planning fails; the row of this turn or of an ancestor answers.
Replay(t) ==
    /\ pc[t] = "admitted"
    /\ Finish(t, TRUE)
    /\ UNCHANGED <<turnRow, jobs, worker, grant, box, rows, world, closure>>

\* ReserveMutation is refused, or fails, with or without its row.
ReserveRefused(t) ==
    /\ pc[t] = "admitted"
    /\ Finish(t, FALSE)
    /\ UNCHANGED <<turnRow, jobs, worker, grant, box, rows, world, closure>>

Admissible(t) == Fenced(t) /\ admission[t] /\ status[t] = "RUNNING"

\* A mutant of Fresh: a mutation that failed is tried again under its operation_id.
FreshOrFailed(o) == ledger[o] \in {"NONE", "FAILED"}
\* getMutationByOperation finds no row in the lineage.
Fresh(o) == ledger[o] = "NONE"

Reserve(t) ==
    /\ pc[t] = "admitted" /\ Fresh(op[t]) /\ Admissible(t)
    /\ ledger' = [ledger EXCEPT ![op[t]] = "RESERVED"]
    /\ owner'  = [owner EXCEPT ![op[t]] = t]
    /\ \/ Call(t, "reserved") /\ UNCHANGED dirty
       \/ Finish(t, FALSE)                            \* the reply is lost
    /\ UNCHANGED <<turnRow, jobs, worker, grant, box, why, world, closure>>

\* A row this turn reserved before is executed.
ReserveReuse(t) ==
    /\ pc[t] = "admitted" /\ Fenced(t) /\ owner[op[t]] = t /\ ledger[op[t]] = "RESERVED"
    /\ Call(t, "reserved")
    /\ UNCHANGED <<turnRow, jobs, process, box, rows, world, closure>>

Startable(t) == Fenced(t) /\ owner[op[t]] = t /\ ledger[op[t]] = "RESERVED"

Start(t) ==
    /\ pc[t] = "reserved" /\ Startable(t)
    /\ ledger' = [ledger EXCEPT ![op[t]] = "IN_FLIGHT"]
    /\ \/ Call(t, "started")
       \/ Call(t, "abandoning")                       \* the reply is lost
    /\ UNCHANGED <<turnRow, jobs, process, box, owner, why, world, closure>>

StartFails(t) ==
    /\ pc[t] = "reserved"
    /\ Call(t, "abandoning")
    /\ UNCHANGED <<turnRow, jobs, process, box, rows, world, closure>>

\* The mutation could not start: it is failed, when the store still accepts it.
AbandonCall(t) ==
    /\ pc[t] = "abandoning"
    /\ \/ /\ Fenced(t) /\ owner[op[t]] = t /\ ledger[op[t]] \in {"RESERVED", "IN_FLIGHT", "RECONCILING"}
          /\ Record(op[t], "FAILED", "unstarted")
          /\ Finish(t, TRUE)
       \/ /\ Finish(t, FALSE)
          /\ UNCHANGED <<ledger, why>>
    /\ UNCHANGED <<turnRow, jobs, worker, grant, box, owner, world, closure>>

\* The clarification freezes its artifact while it holds the fence of the turn; it may not see the reply.
Freeze(t) ==
    /\ pc[t] = "started" /\ op[t] \in Frozen /\ Admissible(t)
    /\ artifact' = [artifact EXCEPT ![op[t]] = TRUE]
    /\ \/ Call(t, "frozen")
       \/ Call(t, "err")
    /\ UNCHANGED <<turnRow, jobs, process, box, rows, effect, closure>>

FreezeFails(t) ==
    /\ pc[t] = "started" /\ op[t] \in Frozen
    /\ Call(t, "err")
    /\ UNCHANGED <<turnRow, jobs, process, box, rows, world, closure>>

\* The operation context is cancelled before the backend is called, or the backend gives up before it sends.
CancelBeforeSend(t) ==
    /\ pc[t] \in {"started", "frozen"}
    /\ \/ Call(t, "unsure")
       \/ Call(t, "err")
    /\ UNCHANGED <<turnRow, jobs, process, box, rows, world, closure>>

\* The request leaves the process: no fence is held.
Send(t) ==
    /\ pc[t] = (IF op[t] \in Frozen THEN "frozen" ELSE "started")
    /\ effect' = [effect EXCEPT ![op[t]] = IF @ = "none" THEN "sent" ELSE "twice"]
    /\ Call(t, "sent")
    /\ UNCHANGED <<turnRow, jobs, process, box, rows, artifact, closure>>

\* GitHub decides, at any time after the request was sent.
Land(o) ==
    /\ effect[o] = "sent"
    /\ \E outcome \in {"landed", "refused"} : effect' = [effect EXCEPT ![o] = outcome]
    /\ UNCHANGED <<turnRow, jobs, process, box, rows, artifact, gateway, closure>>

Answer(t) ==
    /\ pc[t] = "sent"
    /\ \/ effect[op[t]] = "landed"  /\ Call(t, "ok")
       \/ effect[op[t]] = "refused" /\ Call(t, "err")
       \/ Call(t, "unsure")                           \* cancelled, timed out, or an ambiguous answer
    /\ UNCHANGED <<turnRow, jobs, process, box, rows, world, closure>>

\* CompleteMutation
RecordOk(t) ==
    /\ pc[t] = "ok"
    /\ \/ /\ Fenced(t) /\ owner[op[t]] = t /\ ledger[op[t]] \in {"IN_FLIGHT", "RECONCILING"}
          /\ Record(op[t], "SUCCEEDED", why[op[t]])
          /\ \/ Finish(t, TRUE)
             \/ Call(t, "unsure") /\ UNCHANGED dirty  \* the reply is lost
       \/ /\ Call(t, "unsure")
          /\ UNCHANGED <<ledger, why, dirty>>
    /\ UNCHANGED <<turnRow, jobs, worker, grant, box, owner, world, closure>>

\* FailMutation
RecordErr(t) ==
    /\ pc[t] = "err"
    /\ \/ /\ Fenced(t) /\ owner[op[t]] = t /\ ledger[op[t]] \in {"RESERVED", "IN_FLIGHT", "RECONCILING"}
          /\ Record(op[t], "FAILED", "rejected")
          /\ Finish(t, TRUE)
       \/ Finish(t, FALSE) /\ UNCHANGED <<ledger, why>>
    /\ UNCHANGED <<turnRow, jobs, worker, grant, box, owner, world, closure>>

\* A mutant of RecordUnsure: the call reports itself resolved although the store refused.
RecordUnsureResolved(t) ==
    /\ pc[t] = "unsure"
    /\ \/ /\ Fenced(t) /\ owner[op[t]] = t /\ ledger[op[t]] = "IN_FLIGHT"
          /\ Record(op[t], "UNKNOWN", why[op[t]])
       \/ UNCHANGED <<ledger, why>>
    /\ Finish(t, TRUE)
    /\ UNCHANGED <<turnRow, jobs, worker, grant, box, owner, world, closure>>
\* MarkMutationUnknown
RecordUnsure(t) ==
    /\ pc[t] = "unsure"
    /\ \/ /\ Fenced(t) /\ owner[op[t]] = t /\ ledger[op[t]] = "IN_FLIGHT"
          /\ Record(op[t], "UNKNOWN", why[op[t]])
          /\ Finish(t, TRUE)
       \/ Finish(t, FALSE) /\ UNCHANGED <<ledger, why>>
    /\ UNCHANGED <<turnRow, jobs, worker, grant, box, owner, world, closure>>

-----------------------------------------------------------------------------
(* The closure of the issue.                                                *)

\* ISSUE_CLOSED: the active turn is cancelled, its mutations are fenced, and the barrier names it.
CloseIssue ==
    /\ MayClose /\ issue = "open"
    /\ issue' = "closing"
    /\ stopped' = FALSE
    /\ \/ \E t \in Turns :
              /\ Active(t) /\ barrier' = t
              /\ Orphan(t)
              /\ status'    = [status EXCEPT ![t] = "CANCELLING"]
              /\ admission' = [admission EXCEPT ![t] = FALSE]
       \/ /\ \A t \in Turns : ~Active(t)
          /\ barrier' = 0
          /\ UNCHANGED <<status, admission, ledger, why>>
    /\ UNCHANGED <<lease, jobs, process, box, owner, world, gateway>>

Closing(t) == issue = "closing" /\ barrier = t /\ status[t] = "CANCELLING"

\* The stop worker removes the runtime of the turn; nothing is captured.
ClosureKill(t) ==
    /\ Closing(t) /\ ~stopped /\ runtime[t] \in {"running", "stopped"}
    /\ runtime' = [runtime EXCEPT ![t] = "removed"]
    /\ UNCHANGED <<turnRow, jobs, process, captured, rows, world, gateway, closure>>

\* AcknowledgeClosureTurnStopped
ClosureStopped(t) ==
    /\ Closing(t) /\ ~stopped /\ Cleaned(t)
    /\ stopped' = TRUE
    /\ UNCHANGED <<turnRow, jobs, process, box, rows, world, gateway, issue, barrier>>

\* ReconcileClosureMutation: an effect found on GitHub.  That one was never published is not established here:
\* ReconcileClarificationNonPublication demands the runtime stop of a recovery, which a closure does not record.
ClosureFound(t, o) ==
    /\ Closing(t) /\ stopped
    /\ owner[o] = t /\ ledger[o] \in {"UNKNOWN", "RECONCILING"} /\ Found(o)
    /\ ledger' = [ledger EXCEPT ![o] = "SUCCEEDED"]
    /\ UNCHANGED <<turnRow, jobs, process, box, owner, why, world, gateway, closure>>

\* CompleteClosureSettlement
CompleteClosure ==
    /\ issue = "closing"
    /\ \/ barrier = 0 /\ UNCHANGED <<status, lease>>
       \/ \E t \in Turns : /\ Closing(t) /\ stopped /\ ~Unsettled(t)
                           /\ status' = [status EXCEPT ![t] = "INTERRUPTED"]
                           /\ lease'  = [lease EXCEPT ![t] = "none"]
    /\ issue' = "closed"
    /\ UNCHANGED <<admission, jobs, process, box, rows, world, gateway, barrier, stopped>>

-----------------------------------------------------------------------------
Init ==
    /\ status = [t \in Turns |-> "ABSENT"] /\ admission = [t \in Turns |-> FALSE]
    /\ lease = [t \in Turns |-> "none"] /\ recovery = [t \in Turns |-> "none"]
    /\ stopJob = [t \in Turns |-> "none"] /\ mutationJob = [t \in Turns |-> "none"]
    /\ tries = [t \in Turns |-> 0] /\ worker = [t \in Turns |-> "none"]
    /\ grant = [t \in Turns |-> "none"] /\ dirty = [t \in Turns |-> FALSE]
    /\ runtime = [t \in Turns |-> "none"] /\ captured = [t \in Turns |-> FALSE]
    /\ ledger = [o \in Ops |-> "NONE"] /\ owner = [o \in Ops |-> 0]
    /\ why = [o \in Ops |-> "undecided"] /\ artifact = [o \in Ops |-> FALSE]
    /\ effect = [o \in Ops |-> "none"]
    /\ pc = [t \in Turns |-> "idle"] /\ op = [t \in Turns |-> NoOp]
    /\ issue = "open" /\ barrier = 0 /\ stopped = FALSE

WorkerStep(t) ==
    \/ Claim(t) \/ Launch(t) \/ LaunchFails(t) \/ OpenAdmission(t) \/ PromptEnds(t) \/ CloseAdmission(t)
    \/ CloseGrant(t) \/ Drain(t) \/ ListMutations(t) \/ CleanStop(t) \/ CleanCapture(t) \/ CleanRemove(t)
    \/ Settle(t) \/ BeginRecovery(t) \/ Leave(t)

RecoveryStep(t) ==
    \/ RecoverExpired(t) \/ StaleStop(t) \/ StaleCapture(t) \/ StaleRemove(t) \/ AcknowledgeStopped(t)
    \/ \E o \in Ops : ReconcileFound(t, o) \/ ReconcileAbsent(t, o)
    \/ ReconcileFails(t) \/ ReconcileExhausted(t) \/ CompleteReconciliation(t)

\* A call that was admitted runs to its end.
CallStep(t) ==
    \/ Replay(t) \/ ReserveRefused(t) \/ Reserve(t) \/ ReserveReuse(t)
    \/ Start(t) \/ StartFails(t) \/ AbandonCall(t) \/ Freeze(t) \/ FreezeFails(t) \/ CancelBeforeSend(t)
    \/ Send(t) \/ Answer(t) \/ RecordOk(t) \/ RecordErr(t) \/ RecordUnsure(t)

ClosureStep(t) ==
    ClosureKill(t) \/ ClosureStopped(t) \/ \E o \in Ops : ClosureFound(t, o)

Next ==
    \/ \E t \in Turns : \/ Prepare(t) \/ WorkerStep(t) \/ Abandon(t) \/ Crash(t) \/ Expire(t)
                        \/ RecoveryStep(t) \/ FenceDuplicate(t) \/ InterruptForHandoff(t)
                        \/ CallStep(t) \/ ClosureStep(t)
                        \/ \E o \in Ops : Admit(t, o)
    \/ \E o \in Ops : Land(o)
    \/ CloseIssue \/ CompleteClosure

Spec == Init /\ [][Next]_vars

\* Workers poll for jobs, an admitted call ends (its context has a deadline), a lease nobody renews expires, and a
\* worker that has lost its fence learns it from its heartbeat.
Fairness ==
    /\ \A t \in Turns : /\ WF_vars(WorkerStep(t)) /\ WF_vars(RecoveryStep(t)) /\ WF_vars(CallStep(t))
                        /\ WF_vars(ClosureStep(t)) /\ WF_vars(worker[t] = "gone" /\ Expire(t))
                        /\ WF_vars(~Fenced(t) /\ Abandon(t))
    /\ WF_vars(CompleteClosure)

FairSpec == Spec /\ Fairness

-----------------------------------------------------------------------------
(* Correctness.                                                             *)

\* The variables have their types.
TypeOK ==
    /\ status \in [Turns -> {"ABSENT", "QUEUED", "RUNNING", "SETTLING", "RECONCILING", "CANCELLING",
                              "INTERRUPTED", "SUCCEEDED", "FAILED"}]
    /\ admission \in [Turns -> BOOLEAN] /\ lease \in [Turns -> {"none", "live", "expired"}]
    /\ recovery \in [Turns -> {"none", "pending", "handoff", "settled"}]
    /\ stopJob \in [Turns -> {"none", "open", "done"}] /\ mutationJob \in [Turns -> {"none", "open", "done"}]
    /\ tries \in [Turns -> 0..MaxAttempts]
    /\ worker \in [Turns -> {"none", "launching", "opening", "prompting", "closing", "draining", "listing",
                              "cleaning", "abandoned", "gone"}]
    /\ grant \in [Turns -> {"none", "open", "closed"}] /\ dirty \in [Turns -> BOOLEAN]
    /\ runtime \in [Turns -> {"none", "running", "stopped", "removed"}] /\ captured \in [Turns -> BOOLEAN]
    /\ ledger \in [Ops -> {"NONE", "SUCCEEDED", "FAILED"} \cup Undecided] /\ owner \in [Ops -> 0..MaxTurn]
    /\ why \in [Ops -> {"undecided", "unstarted", "rejected", "absent", "exhausted"}]
    /\ artifact \in [Ops -> BOOLEAN]
    /\ effect \in [Ops -> {"none", "sent", "landed", "refused", "twice"}]
    /\ pc \in [Turns -> {"idle", "admitted", "reserved", "abandoning", "started", "frozen", "sent", "ok", "err",
                          "unsure"}]
    /\ op \in [Turns -> Ops \cup {NoOp}]
    /\ issue \in {"open", "closing", "closed"} /\ barrier \in 0..MaxTurn /\ stopped \in BOOLEAN

\* Whatever dies or is fenced between two steps of a call, its row tells the truth: SUCCEEDED only for an effect
\* that is on GitHub, FAILED only for one that is not and will never be there, unless reconciliation gave it up.
\* (CompleteMutation, FailMutation, the fencing of rows by a recovery, ReconcileRecoveredMutation.)
LedgerTellsTheTruth ==
    \A o \in Ops : /\ ledger[o] = "SUCCEEDED" => effect[o] = "landed"
                   /\ ledger[o] = "FAILED" /\ why[o] # "exhausted" => effect[o] \in {"none", "refused"}

\* No mutation is sent twice, by a call repeated after a lost reply, a stale process or a retry of the turn
\* (StartMutation, ReserveMutation).
NeverTwice == \A o \in Ops : effect[o] # "twice"

\* A turn starts only over a settled predecessor: its mutations are decided and its runtime is gone, so that
\* nothing of it can still reach the workspace or the ledger (the guards of PrepareAgentTurn, the recovery barrier).
SuccessorFindsNothingOpen ==
    \A t \in Turns : t > 1 /\ status[t] # "ABSENT" =>
        \A u \in 1..(t - 1) : ~Unsettled(u) /\ Cleaned(u) /\ lease[u] = "none"

\* A worker that drained its gateway and was told that every call is resolved finds no row it would wait for
\* for ever (drainResult against waitForRecoverableMutations).
DrainedMeansDurable ==
    \A t \in Turns : worker[t] \in {"listing", "cleaning"} /\ ~dirty[t] /\ Fenced(t) =>
        \A o \in RowsOf(t) : ledger[o] \notin {"RESERVED", "IN_FLIGHT"}

\* Only a closure removes a runtime whose workspace was not captured, and a captured workspace does not change:
\* its runtime has stopped (Cleanup of the runtime, stopRuntime of the stop worker).
CaptureSurvives ==
    \A t \in Turns : /\ runtime[t] = "removed" => captured[t] \/ barrier = t
                     /\ captured[t] => runtime[t] \in {"stopped", "removed"}

\* The abstract ledger this module implements.
verdictOf(o) == CASE ledger[o] = "NONE"       -> "unasked"
                  [] ledger[o] \in Undecided  -> "undecided"
                  [] ledger[o] = "SUCCEEDED"  -> "applied"
                  [] ledger[o] = "FAILED"     -> IF why[o] = "exhausted" THEN "unknowable" ELSE "refused"
Promise == INSTANCE MutationPromise WITH
               verdict <- [o \in Ops |-> verdictOf(o)],
               world   <- [o \in Ops |-> IF effect[o] \in {"landed", "twice"} THEN "applied" ELSE "clean"],
               epoch   <- Cardinality({t \in Turns : status[t] # "ABSENT"})
\* Every execution of the ledger, its calls and its recoveries is one the promise allows.
KeepsPromise == Promise!Spec

\* A turn that was claimed ends, by its own settlement or by a recovery (leases, recovery workers).
TurnsEnd == \A t \in Turns : status[t] = "RUNNING" ~> ~Active(t)

\* A recovery settles, unless the issue is closed meanwhile (stop and reconciliation workers; the reconciliation
\* budget).
RecoverySettles == \A t \in Turns : Recovering(t) ~> recovery[t] = "settled" \/ issue # "open"

\* A closure completes (docs/implementation-plan.md:420).
ClosureSettles == issue = "closing" ~> issue = "closed"

\* What a turn leaves to its successor, to a recovery or to a closure is settled, decided and captured.
HandoverIsClean == SuccessorFindsNothingOpen /\ DrainedMeansDurable /\ CaptureSurvives
=============================================================================
