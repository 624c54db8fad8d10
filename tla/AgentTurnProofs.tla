--------------------------- MODULE AgentTurnProofs ---------------------------
(***************************************************************************)
(* Theorems about Agent Turns, for every number of turns, mutations,        *)
(* launchers, operators and writes: their ledger, and what they leave       *)
(* outside the store.                                                      *)
(*                                                                         *)
(* The ledger: a row is owned by one turn, and the gateway of that turn     *)
(* executes one call at a time, so that at most one call can ever send the  *)
(* effect of a row (CallInv).  A row fails without being given up only      *)
(* before its call has started, by the call itself, or by a reconciliation   *)
(* that knows the call cannot send any more: its artifact is not frozen,    *)
(* and a turn under recovery never has a fence again (TurnInv), which       *)
(* freezing needs.                                                         *)
(*                                                                         *)
(* Outside the store: the containers of its execution, the workspace it     *)
(* shares with the turns before and after it, and the state of its          *)
(* Session.  In all three a process that has lost its authority goes on,    *)
(* and the daemon or the disk does what it is asked.  The invariants say    *)
(* how far such a process can have come, and what stands in its way.        *)
(***************************************************************************)
EXTENDS AgentTurn, Execution, Workspaces, SessionState, FiniteSetTheorems, TLAPS

Started == {"started", "frozen", "sent", "ok", "err", "unsure"}

\* A turn under recovery has no lease and does not become claimable again; only it has reconciliation attempts.
TurnOk(t) ==
    /\ recovery[t] # "none" => lease[t] = "none" /\ status[t] \notin {"ABSENT", "QUEUED"}
    /\ recovery[t] = "none" => tries[t] = 0
    /\ mutationJob[t] = "open" => tries[t] < MaxAttempts
TurnInv == \A t \in Turns : TurnOk(t)

RowOk(o) ==
    /\ ledger[o] = "NONE" <=> owner[o] = 0
    /\ ledger[o] \in {"NONE", "RESERVED"} => effect[o] = "none" /\ ~artifact[o]
    /\ ledger[o] = "FAILED" <=> why[o] # "undecided"
    /\ ledger[o] = "SUCCEEDED" => effect[o] = "landed"
    /\ ledger[o] = "FAILED" /\ why[o] # "exhausted" => effect[o] \in {"none", "refused"}
    /\ why[o] = "absent" => o \in Frozen /\ ~artifact[o] /\ recovery[owner[o]] # "none"
    /\ o \in Frozen /\ effect[o] # "none" => artifact[o]
    /\ effect[o] # "twice"
RowInv == \A o \in Ops : RowOk(o)

CallOk(t) ==
    /\ pc[t] # "idle" => op[t] \in Ops
    /\ pc[t] \in {"reserved", "abandoning"} \cup Started => owner[op[t]] = t
    /\ pc[t] \in Started => ledger[op[t]] \notin {"NONE", "RESERVED"}
    /\ pc[t] \in {"reserved", "abandoning", "started", "frozen"} => effect[op[t]] = "none"
    /\ pc[t] = "frozen" => artifact[op[t]]
    /\ pc[t] = "ok" => effect[op[t]] = "landed"
    /\ pc[t] = "err" => effect[op[t]] \in {"none", "refused"}
    /\ pc[t] \in {"started", "frozen"} => why[op[t]] \in {"undecided", "exhausted", "absent"}
CallInv == \A t \in Turns : CallOk(t)

IInv == TypeOK /\ TurnInv /\ RowInv /\ CallInv

-----------------------------------------------------------------------------
\* The types.
Statuses == {"ABSENT", "QUEUED", "RUNNING", "SETTLING", "RECONCILING", "CANCELLING", "INTERRUPTED",
             "SUCCEEDED", "FAILED"}
States   == {"NONE", "SUCCEEDED", "FAILED"} \cup Undecided
Reasons  == {"undecided", "unstarted", "rejected", "absent", "exhausted"}
PCs      == {"idle", "admitted", "reserved", "abandoning", "started", "frozen", "sent", "ok", "err", "unsure"}

TurnTypes ==
    /\ status \in [Turns -> Statuses] /\ admission \in [Turns -> BOOLEAN]
    /\ lease \in [Turns -> {"none", "live", "expired"}]
    /\ recovery \in [Turns -> {"none", "pending", "handoff", "settled"}]
    /\ stopJob \in [Turns -> {"none", "open", "done"}] /\ mutationJob \in [Turns -> {"none", "open", "done"}]
    /\ tries \in [Turns -> 0..MaxAttempts]
ProcessTypes ==
    /\ worker \in [Turns -> {"none", "launching", "opening", "prompting", "closing", "draining", "listing",
                              "cleaning", "abandoned", "gone"}]
    /\ grant \in [Turns -> {"none", "open", "closed"}] /\ dirty \in [Turns -> BOOLEAN]
    /\ runtime \in [Turns -> {"none", "running", "stopped", "removed"}] /\ captured \in [Turns -> BOOLEAN]
    /\ pc \in [Turns -> PCs] /\ op \in [Turns -> Ops \cup {NoOp}]
RowTypes ==
    /\ ledger \in [Ops -> States] /\ owner \in [Ops -> 0..MaxTurn] /\ why \in [Ops -> Reasons]
    /\ artifact \in [Ops -> BOOLEAN] /\ effect \in [Ops -> {"none", "sent", "landed", "refused", "twice"}]
IssueTypes == issue \in {"open", "closing", "closed"} /\ barrier \in 0..MaxTurn /\ stopped \in BOOLEAN

\* The types in four groups: the rows of the turns, the processes, the rows of the mutations, the issue.
LEMMA TypeGroups == TypeOK <=> TurnTypes /\ ProcessTypes /\ RowTypes /\ IssueTypes
BY DEF TypeOK, TurnTypes, ProcessTypes, RowTypes, IssueTypes, Statuses, States, Reasons, PCs

\* The initial states satisfy the invariant.
LEMMA InitInv == Init => IInv
<1> SUFFICES ASSUME Init PROVE IInv
  OBVIOUS
<1>1. TypeOK
  <2> USE ConstantsAssumption DEF Init, Turns
  <2>1. TurnTypes
    BY DEF TurnTypes, Statuses
  <2>2. ProcessTypes
    BY DEF ProcessTypes, PCs, NoOp
  <2>3. RowTypes
    BY DEF RowTypes, States, Reasons
  <2>4. IssueTypes
    <3>1. stopped \in BOOLEAN
      BY Zenon
    <3> QED BY <3>1 DEF IssueTypes, ConstantsAssumption
  <2> QED BY <2>1, <2>2, <2>3, <2>4, TypeGroups
<1>2. TurnInv /\ RowInv /\ CallInv
  BY DEF Init, TurnInv, TurnOk, RowInv, RowOk, CallInv, CallOk, Started
<1> QED BY <1>1, <1>2 DEF IInv

\* Raising the recovery barrier keeps the types of the turn row and of its jobs (persistRecoveryBarrierTx).
LEMMA BarrierTypes ==
    ASSUME TypeOK, NEW t \in Turns, NEW c \in {"pending", "handoff"}, RaiseBarrier(t, c)
    PROVE  /\ status' \in [Turns -> Statuses]
           /\ admission' \in [Turns -> BOOLEAN] /\ lease' \in [Turns -> {"none", "live", "expired"}]
           /\ recovery' \in [Turns -> {"none", "pending", "handoff", "settled"}]
           /\ stopJob' \in [Turns -> {"none", "open", "done"}]
           /\ mutationJob' \in [Turns -> {"none", "open", "done"}]
           /\ tries' \in [Turns -> 0..MaxAttempts]
BY DEF TypeOK, RaiseBarrier, Statuses

\* A step of a call keeps the types of the gateway.
LEMMA CallTypes ==
    ASSUME TypeOK, NEW t \in Turns, NEW where \in PCs, Call(t, where)
    PROVE  pc' \in [Turns -> PCs] /\ op' \in [Turns -> Ops \cup {NoOp}]
BY DEF TypeOK, Call, PCs

\* So does its end (finishCall).
LEMMA FinishTypes ==
    ASSUME TypeOK, NEW t \in Turns, NEW resolved \in BOOLEAN, Finish(t, resolved)
    PROVE  pc' \in [Turns -> PCs] /\ op' \in [Turns -> Ops \cup {NoOp}] /\ dirty' \in [Turns -> BOOLEAN]
BY DEF TypeOK, Finish, PCs

\* Recording the result of a mutation keeps the types of its row.
LEMMA RecordTypes ==
    ASSUME TypeOK, NEW o, NEW state \in {"SUCCEEDED", "FAILED", "UNKNOWN"},
           NEW reason, reason \in Reasons \/ reason = why[o], Record(o, state, reason)
    PROVE  /\ ledger' \in [Ops -> States]
           /\ why' \in [Ops -> Reasons]
<1>1. ledger \in [Ops -> States] /\ why \in [Ops -> Reasons]
  BY TypeGroups DEF RowTypes
<1>2. ledger' \in [Ops -> States]
  BY <1>1 DEF Record, Undecided, States
<1>3. CASE reason \in Reasons
  BY <1>1, <1>2, <1>3 DEF Record
<1>4. CASE reason = why[o]
  BY <1>1, <1>2, <1>4 DEF Record
<1> QED BY <1>3, <1>4

\* So does fencing the rows of a turn (closeMutationAdmissionTx).
LEMMA OrphanTypes ==
    ASSUME TypeOK, NEW t \in Turns, Orphan(t)
    PROVE  /\ ledger' \in [Ops -> States]
           /\ why' \in [Ops -> Reasons]
BY DEF TypeOK, Orphan, Undecided, States, Reasons

\* Every action keeps the types; TurnInv bounds the reconciliation attempts.
LEMMA TypeStep == ASSUME TypeOK, TurnInv, [Next]_vars PROVE TypeOK'
<1> USE ConstantsAssumption DEF Turns
<1>1. ASSUME NEW t \in Turns, Prepare(t) PROVE TypeOK'
  BY <1>1 DEF TypeOK, Prepare, Step, Call, Finish, Record, SettleRecovery, turnRow, jobs, process, box, rows, world, gateway, closure, Undecided
<1>2. ASSUME NEW t \in Turns, Claim(t) PROVE TypeOK'
  BY <1>2 DEF TypeOK, Claim, Step, Call, Finish, Record, SettleRecovery, turnRow, jobs, process, box, rows, world, gateway, closure, Undecided
<1>3. ASSUME NEW t \in Turns, Launch(t) PROVE TypeOK'
  BY <1>3 DEF TypeOK, Launch, Step, Call, Finish, Record, SettleRecovery, turnRow, jobs, process, box, rows, world, gateway, closure, Undecided
<1>4. ASSUME NEW t \in Turns, LaunchFails(t) PROVE TypeOK'
  BY <1>4 DEF TypeOK, LaunchFails, Step, Call, Finish, Record, SettleRecovery, turnRow, jobs, process, box, rows, world, gateway, closure, Undecided
<1>5. ASSUME NEW t \in Turns, OpenAdmission(t) PROVE TypeOK'
  BY <1>5 DEF TypeOK, OpenAdmission, Step, Call, Finish, Record, SettleRecovery, turnRow, jobs, process, box, rows, world, gateway, closure, Undecided
<1>6. ASSUME NEW t \in Turns, PromptEnds(t) PROVE TypeOK'
  BY <1>6 DEF TypeOK, PromptEnds, Step, Call, Finish, Record, SettleRecovery, turnRow, jobs, process, box, rows, world, gateway, closure, Undecided
<1>7. ASSUME NEW t \in Turns, CloseAdmission(t) PROVE TypeOK'
  BY <1>7 DEF TypeOK, CloseAdmission, Step, Call, Finish, Record, SettleRecovery, turnRow, jobs, process, box, rows, world, gateway, closure, Undecided
<1>8. ASSUME NEW t \in Turns, CloseGrant(t) PROVE TypeOK'
  BY <1>8 DEF TypeOK, CloseGrant, Step, Call, Finish, Record, SettleRecovery, turnRow, jobs, process, box, rows, world, gateway, closure, Undecided
<1>9. ASSUME NEW t \in Turns, Drain(t) PROVE TypeOK'
  BY <1>9 DEF TypeOK, Drain, Step, Call, Finish, Record, SettleRecovery, turnRow, jobs, process, box, rows, world, gateway, closure, Undecided
<1>10. ASSUME NEW t \in Turns, ListMutations(t) PROVE TypeOK'
  BY <1>10 DEF TypeOK, ListMutations, Orphan, Step, turnRow, jobs, process, box, rows, world, gateway, closure, Undecided
<1>11. ASSUME NEW t \in Turns, CleanStop(t) PROVE TypeOK'
  BY <1>11 DEF TypeOK, CleanStop, Step, Call, Finish, Record, SettleRecovery, turnRow, jobs, process, box, rows, world, gateway, closure, Undecided
<1>12. ASSUME NEW t \in Turns, CleanCapture(t) PROVE TypeOK'
  BY <1>12 DEF TypeOK, CleanCapture, Step, Call, Finish, Record, SettleRecovery, turnRow, jobs, process, box, rows, world, gateway, closure, Undecided
<1>13. ASSUME NEW t \in Turns, CleanRemove(t) PROVE TypeOK'
  BY <1>13 DEF TypeOK, CleanRemove, Step, Call, Finish, Record, SettleRecovery, turnRow, jobs, process, box, rows, world, gateway, closure, Undecided
<1>14. ASSUME NEW t \in Turns, Settle(t) PROVE TypeOK'
  BY <1>14 DEF TypeOK, Settle, Step, Call, Finish, Record, SettleRecovery, turnRow, jobs, process, box, rows, world, gateway, closure, Undecided
<1>15. ASSUME NEW t \in Turns, BeginRecovery(t) PROVE TypeOK'
  <2>1. TurnTypes'
    BY <1>15, TypeGroups, BarrierTypes DEF BeginRecovery, TurnTypes
  <2>2. ProcessTypes'
    BY <1>15, TypeGroups DEF BeginRecovery, ProcessTypes, process, box, gateway, Step
  <2>3. RowTypes'
    BY <1>15, TypeGroups, OrphanTypes DEF BeginRecovery, RowTypes, rows, world, States, Undecided
  <2>4. IssueTypes'
    BY <1>15, TypeGroups DEF BeginRecovery, IssueTypes, closure
  <2> QED BY <2>1, <2>2, <2>3, <2>4 DEF TypeOK, TurnTypes, ProcessTypes, RowTypes, IssueTypes, Statuses, States,
         Reasons, PCs
<1>16. ASSUME NEW t \in Turns, Leave(t) PROVE TypeOK'
  BY <1>16 DEF TypeOK, Leave, Step, Call, Finish, Record, SettleRecovery, turnRow, jobs, process, box, rows, world, gateway, closure, Undecided
<1>17. ASSUME NEW t \in Turns, Abandon(t) PROVE TypeOK'
  BY <1>17 DEF TypeOK, Abandon, Step, Call, Finish, Record, SettleRecovery, turnRow, jobs, process, box, rows, world, gateway, closure, Undecided
<1>18. ASSUME NEW t \in Turns, Crash(t) PROVE TypeOK'
  BY <1>18 DEF TypeOK, Crash, Step, Call, Finish, Record, SettleRecovery, turnRow, jobs, process, box, rows, world, gateway, closure, Undecided
<1>19. ASSUME NEW t \in Turns, Expire(t) PROVE TypeOK'
  BY <1>19 DEF TypeOK, Expire, Step, Call, Finish, Record, SettleRecovery, turnRow, jobs, process, box, rows, world, gateway, closure, Undecided
<1>20. ASSUME NEW t \in Turns, RecoverExpired(t) PROVE TypeOK'
  <2>1. TurnTypes'
    BY <1>20, TypeGroups, BarrierTypes DEF RecoverExpired, TurnTypes
  <2>2. ProcessTypes'
    BY <1>20, TypeGroups DEF RecoverExpired, ProcessTypes, process, box, gateway, Step
  <2>3. RowTypes'
    BY <1>20, TypeGroups, OrphanTypes DEF RecoverExpired, RowTypes, rows, world, States, Undecided
  <2>4. IssueTypes'
    BY <1>20, TypeGroups DEF RecoverExpired, IssueTypes, closure
  <2> QED BY <2>1, <2>2, <2>3, <2>4 DEF TypeOK, TurnTypes, ProcessTypes, RowTypes, IssueTypes, Statuses, States,
         Reasons, PCs
<1>21. ASSUME NEW t \in Turns, FenceDuplicate(t) PROVE TypeOK'
  <2>1. TurnTypes'
    BY <1>21, TypeGroups, BarrierTypes DEF FenceDuplicate, TurnTypes
  <2>2. ProcessTypes'
    BY <1>21, TypeGroups DEF FenceDuplicate, ProcessTypes, process, box, gateway, Step
  <2>3. RowTypes'
    BY <1>21, TypeGroups, OrphanTypes DEF FenceDuplicate, RowTypes, rows, world, States, Undecided
  <2>4. IssueTypes'
    BY <1>21, TypeGroups DEF FenceDuplicate, IssueTypes, closure
  <2> QED BY <2>1, <2>2, <2>3, <2>4 DEF TypeOK, TurnTypes, ProcessTypes, RowTypes, IssueTypes, Statuses, States,
         Reasons, PCs
<1>22. ASSUME NEW t \in Turns, InterruptForHandoff(t) PROVE TypeOK'
  <2>1. TurnTypes'
    <3>1. CASE RaiseBarrier(t, "handoff")
      BY <1>22, <3>1, TypeGroups, BarrierTypes DEF TurnTypes
    <3>2. CASE status' = [status EXCEPT ![t] = "INTERRUPTED"] /\ UNCHANGED <<admission, lease, jobs>>
      BY <1>22, <3>2, TypeGroups DEF TurnTypes, jobs, Statuses
    <3> QED BY <1>22, <3>1, <3>2 DEF InterruptForHandoff
  <2>2. ProcessTypes'
    BY <1>22, TypeGroups DEF InterruptForHandoff, ProcessTypes, process, box, gateway
  <2>3. RowTypes'
    BY <1>22, TypeGroups, OrphanTypes DEF InterruptForHandoff, RowTypes, rows, world
  <2>4. IssueTypes'
    BY <1>22, TypeGroups DEF InterruptForHandoff, IssueTypes, closure
  <2> QED BY <2>1, <2>2, <2>3, <2>4 DEF TypeOK, TurnTypes, ProcessTypes, RowTypes, IssueTypes, Statuses, States,
         Reasons, PCs
<1>23. ASSUME NEW t \in Turns, StaleStop(t) PROVE TypeOK'
  BY <1>23 DEF TypeOK, StaleStop, Step, Call, Finish, Record, SettleRecovery, turnRow, jobs, process, box, rows, world, gateway, closure, Undecided
<1>24. ASSUME NEW t \in Turns, StaleCapture(t) PROVE TypeOK'
  BY <1>24 DEF TypeOK, StaleCapture, Step, Call, Finish, Record, SettleRecovery, turnRow, jobs, process, box, rows, world, gateway, closure, Undecided
<1>25. ASSUME NEW t \in Turns, StaleRemove(t) PROVE TypeOK'
  BY <1>25 DEF TypeOK, StaleRemove, Step, Call, Finish, Record, SettleRecovery, turnRow, jobs, process, box, rows, world, gateway, closure, Undecided
<1>26. ASSUME NEW t \in Turns, AcknowledgeStopped(t) PROVE TypeOK'
  <2>1. TurnTypes'
    <3>1. status' \in [Turns -> Statuses] /\ recovery' \in [Turns -> {"none", "pending", "handoff", "settled"}]
      BY <1>26 DEF TypeOK, AcknowledgeStopped, SettleRecovery, Statuses, Recovering
    <3> QED BY <1>26, <3>1, TypeGroups DEF AcknowledgeStopped, TurnTypes
  <2>2. ProcessTypes'
    BY <1>26, TypeGroups DEF AcknowledgeStopped, ProcessTypes, process, box, gateway
  <2>3. RowTypes'
    BY <1>26, TypeGroups DEF AcknowledgeStopped, RowTypes, rows, world
  <2>4. IssueTypes'
    BY <1>26, TypeGroups DEF AcknowledgeStopped, IssueTypes, closure
  <2> QED BY <2>1, <2>2, <2>3, <2>4 DEF TypeOK, TurnTypes, ProcessTypes, RowTypes, IssueTypes, Statuses, States,
         Reasons, PCs
<1>27. ASSUME NEW t \in Turns, ReconcileFails(t) PROVE TypeOK'
  BY <1>27 DEF TypeOK, ReconcileFails, Step, Call, Finish, Record, SettleRecovery, turnRow, jobs, process, box, rows, world, gateway, closure, Undecided
<1>28. ASSUME NEW t \in Turns, ReconcileExhausted(t) PROVE TypeOK'
  <2>1. TurnTypes'
    <3>1. status' \in [Turns -> Statuses] /\ recovery' \in [Turns -> {"none", "pending", "handoff", "settled"}]
      BY <1>28 DEF TypeOK, ReconcileExhausted, SettleRecovery, Statuses, Recovering
    <3> QED BY <1>28, <3>1, TypeGroups DEF ReconcileExhausted, TurnTypes, TurnInv, TurnOk
  <2>2. ProcessTypes'
    BY <1>28, TypeGroups DEF ReconcileExhausted, ProcessTypes, process, box, gateway
  <2>3. RowTypes'
    BY <1>28, TypeGroups DEF ReconcileExhausted, RowTypes, rows, world, States, Reasons
  <2>4. IssueTypes'
    BY <1>28, TypeGroups DEF ReconcileExhausted, IssueTypes, closure
  <2> QED BY <2>1, <2>2, <2>3, <2>4 DEF TypeOK, TurnTypes, ProcessTypes, RowTypes, IssueTypes, Statuses, States,
         Reasons, PCs
<1>29. ASSUME NEW t \in Turns, CompleteReconciliation(t) PROVE TypeOK'
  <2>1. TurnTypes'
    <3>1. status' \in [Turns -> Statuses] /\ recovery' \in [Turns -> {"none", "pending", "handoff", "settled"}]
      <4>1. recovery[t] \in {"pending", "handoff"} /\ SettleRecovery(t, stopJob[t], "done", recovery[t], FALSE)
        BY <1>29 DEF CompleteReconciliation, Recovering
      <4> QED BY <4>1 DEF TypeOK, SettleRecovery, Statuses
    <3> QED BY <1>29, <3>1, TypeGroups DEF CompleteReconciliation, TurnTypes
  <2>2. ProcessTypes'
    BY <1>29, TypeGroups DEF CompleteReconciliation, ProcessTypes, process, box, gateway
  <2>3. RowTypes'
    BY <1>29, TypeGroups DEF CompleteReconciliation, RowTypes, rows, world
  <2>4. IssueTypes'
    BY <1>29, TypeGroups DEF CompleteReconciliation, IssueTypes, closure
  <2> QED BY <2>1, <2>2, <2>3, <2>4 DEF TypeOK, TurnTypes, ProcessTypes, RowTypes, IssueTypes, Statuses, States,
         Reasons, PCs
<1>30. ASSUME NEW t \in Turns, Replay(t) PROVE TypeOK'
  BY <1>30 DEF TypeOK, Replay, Step, Call, Finish, Record, SettleRecovery, turnRow, jobs, process, box, rows, world, gateway, closure, Undecided
<1>31. ASSUME NEW t \in Turns, ReserveRefused(t) PROVE TypeOK'
  BY <1>31 DEF TypeOK, ReserveRefused, Step, Call, Finish, Record, SettleRecovery, turnRow, jobs, process, box, rows, world, gateway, closure, Undecided
<1>32. ASSUME NEW t \in Turns, Reserve(t) PROVE TypeOK'
  <2>1. TurnTypes'
    BY <1>32, TypeGroups DEF Reserve, TurnTypes, ProcessTypes, turnRow, jobs
  <2>2. ProcessTypes'
    BY <1>32, TypeGroups, CallTypes, FinishTypes DEF Reserve, ProcessTypes, process, box, gateway, PCs
  <2>3. RowTypes'
    <3>1. RowTypes
      BY TypeGroups
    <3>2. ledger' \in [Ops -> States] /\ owner' \in [Ops -> 0..MaxTurn]
      <4>1. /\ ledger' = [ledger EXCEPT ![op[t]] = "RESERVED"]
            /\ owner'  = [owner EXCEPT ![op[t]] = t]
        BY <1>32 DEF Reserve
      <4>2. t \in 0..MaxTurn
        BY DEF ConstantsAssumption
      <4> QED BY <3>1, <4>1, <4>2, Zenon DEF RowTypes, States, Undecided
    <3> QED BY <1>32, <3>1, <3>2 DEF Reserve, RowTypes, world
  <2>4. IssueTypes'
    BY <1>32, TypeGroups DEF Reserve, IssueTypes, closure
  <2> QED BY <2>1, <2>2, <2>3, <2>4 DEF TypeOK, TurnTypes, ProcessTypes, RowTypes, IssueTypes, Statuses, States,
         Reasons, PCs
<1>33. ASSUME NEW t \in Turns, ReserveReuse(t) PROVE TypeOK'
  BY <1>33 DEF TypeOK, ReserveReuse, Step, Call, Finish, Record, SettleRecovery, turnRow, jobs, process, box, rows, world, gateway, closure, Undecided
<1>34. ASSUME NEW t \in Turns, Start(t) PROVE TypeOK'
  <2>1. TurnTypes'
    BY <1>34, TypeGroups DEF Start, TurnTypes, ProcessTypes, turnRow, jobs
  <2>2. ProcessTypes'
    BY <1>34, TypeGroups, CallTypes, FinishTypes DEF Start, ProcessTypes, process, box, gateway, PCs
  <2>3. RowTypes'
    BY <1>34, TypeGroups, RecordTypes DEF Start, RowTypes, rows, world, States, Reasons, Undecided
  <2>4. IssueTypes'
    BY <1>34, TypeGroups DEF Start, IssueTypes, closure
  <2> QED BY <2>1, <2>2, <2>3, <2>4 DEF TypeOK, TurnTypes, ProcessTypes, RowTypes, IssueTypes, Statuses, States,
         Reasons, PCs
<1>35. ASSUME NEW t \in Turns, StartFails(t) PROVE TypeOK'
  BY <1>35 DEF TypeOK, StartFails, Step, Call, Finish, Record, SettleRecovery, turnRow, jobs, process, box, rows, world, gateway, closure, Undecided
<1>36. ASSUME NEW t \in Turns, AbandonCall(t) PROVE TypeOK'
  <2>1. TurnTypes'
    BY <1>36, TypeGroups DEF AbandonCall, TurnTypes, ProcessTypes, turnRow, jobs
  <2>2. ProcessTypes'
    BY <1>36, TypeGroups, CallTypes, FinishTypes DEF AbandonCall, ProcessTypes, process, box, gateway, PCs
  <2>3. RowTypes'
    BY <1>36, TypeGroups, RecordTypes DEF AbandonCall, RowTypes, rows, world, States, Reasons, Undecided
  <2>4. IssueTypes'
    BY <1>36, TypeGroups DEF AbandonCall, IssueTypes, closure
  <2> QED BY <2>1, <2>2, <2>3, <2>4 DEF TypeOK, TurnTypes, ProcessTypes, RowTypes, IssueTypes, Statuses, States,
         Reasons, PCs
<1>37. ASSUME NEW t \in Turns, Freeze(t) PROVE TypeOK'
  BY <1>37 DEF TypeOK, Freeze, Step, Call, Finish, Record, SettleRecovery, turnRow, jobs, process, box, rows, world, gateway, closure, Undecided
<1>38. ASSUME NEW t \in Turns, FreezeFails(t) PROVE TypeOK'
  BY <1>38 DEF TypeOK, FreezeFails, Step, Call, Finish, Record, SettleRecovery, turnRow, jobs, process, box, rows, world, gateway, closure, Undecided
<1>39. ASSUME NEW t \in Turns, CancelBeforeSend(t) PROVE TypeOK'
  <2>1. TurnTypes'
    BY <1>39, TypeGroups DEF CancelBeforeSend, TurnTypes, ProcessTypes, turnRow, jobs
  <2>2. ProcessTypes'
    BY <1>39, TypeGroups, CallTypes, FinishTypes DEF CancelBeforeSend, ProcessTypes, process, box, gateway, PCs
  <2>3. RowTypes'
    BY <1>39, TypeGroups, RecordTypes DEF CancelBeforeSend, RowTypes, rows, world, States, Reasons, Undecided
  <2>4. IssueTypes'
    BY <1>39, TypeGroups DEF CancelBeforeSend, IssueTypes, closure
  <2> QED BY <2>1, <2>2, <2>3, <2>4 DEF TypeOK, TurnTypes, ProcessTypes, RowTypes, IssueTypes, Statuses, States,
         Reasons, PCs
<1>40. ASSUME NEW t \in Turns, Send(t) PROVE TypeOK'
  BY <1>40 DEF TypeOK, Send, Step, Call, Finish, Record, SettleRecovery, turnRow, jobs, process, box, rows, world, gateway, closure, Undecided
<1>41. ASSUME NEW t \in Turns, Answer(t) PROVE TypeOK'
  BY <1>41 DEF TypeOK, Answer, Step, Call, Finish, Record, SettleRecovery, turnRow, jobs, process, box, rows, world, gateway, closure, Undecided
<1>42. ASSUME NEW t \in Turns, RecordOk(t) PROVE TypeOK'
  <2>1. TurnTypes'
    BY <1>42, TypeGroups DEF RecordOk, TurnTypes, ProcessTypes, turnRow, jobs
  <2>2. ProcessTypes'
    BY <1>42, TypeGroups, CallTypes, FinishTypes DEF RecordOk, ProcessTypes, process, box, gateway, PCs
  <2>3. RowTypes'
    BY <1>42, TypeGroups, RecordTypes DEF RecordOk, RowTypes, rows, world, States, Reasons, Undecided
  <2>4. IssueTypes'
    BY <1>42, TypeGroups DEF RecordOk, IssueTypes, closure
  <2> QED BY <2>1, <2>2, <2>3, <2>4 DEF TypeOK, TurnTypes, ProcessTypes, RowTypes, IssueTypes, Statuses, States,
         Reasons, PCs
<1>43. ASSUME NEW t \in Turns, RecordErr(t) PROVE TypeOK'
  <2>1. TurnTypes'
    BY <1>43, TypeGroups DEF RecordErr, TurnTypes, ProcessTypes, turnRow, jobs
  <2>2. ProcessTypes'
    BY <1>43, TypeGroups, CallTypes, FinishTypes DEF RecordErr, ProcessTypes, process, box, gateway, PCs
  <2>3. RowTypes'
    BY <1>43, TypeGroups, RecordTypes DEF RecordErr, RowTypes, rows, world, States, Reasons, Undecided
  <2>4. IssueTypes'
    BY <1>43, TypeGroups DEF RecordErr, IssueTypes, closure
  <2> QED BY <2>1, <2>2, <2>3, <2>4 DEF TypeOK, TurnTypes, ProcessTypes, RowTypes, IssueTypes, Statuses, States,
         Reasons, PCs
<1>44. ASSUME NEW t \in Turns, RecordUnsure(t) PROVE TypeOK'
  <2>1. TurnTypes'
    BY <1>44, TypeGroups DEF RecordUnsure, TurnTypes, ProcessTypes, turnRow, jobs
  <2>2. ProcessTypes'
    BY <1>44, TypeGroups, CallTypes, FinishTypes DEF RecordUnsure, ProcessTypes, process, box, gateway, PCs
  <2>3. RowTypes'
    BY <1>44, TypeGroups, RecordTypes DEF RecordUnsure, RowTypes, rows, world, States, Reasons, Undecided
  <2>4. IssueTypes'
    BY <1>44, TypeGroups DEF RecordUnsure, IssueTypes, closure
  <2> QED BY <2>1, <2>2, <2>3, <2>4 DEF TypeOK, TurnTypes, ProcessTypes, RowTypes, IssueTypes, Statuses, States,
         Reasons, PCs
<1>45. ASSUME NEW t \in Turns, ClosureKill(t) PROVE TypeOK'
  BY <1>45 DEF TypeOK, ClosureKill, Step, Call, Finish, Record, SettleRecovery, turnRow, jobs, process, box, rows, world, gateway, closure, Undecided
<1>46. ASSUME NEW t \in Turns, ClosureStopped(t) PROVE TypeOK'
  BY <1>46 DEF TypeOK, ClosureStopped, Step, Call, Finish, Record, SettleRecovery, turnRow, jobs, process, box, rows, world, gateway, closure, Undecided
<1>47. ASSUME NEW t \in Turns, NEW o \in Ops, ReconcileFound(t, o) PROVE TypeOK'
  BY <1>47 DEF TypeOK, ReconcileFound, turnRow, jobs, process, box, rows, world, gateway, closure, Undecided
<1>48. ASSUME NEW t \in Turns, NEW o \in Ops, ReconcileAbsent(t, o) PROVE TypeOK'
  BY <1>48 DEF TypeOK, ReconcileAbsent, turnRow, jobs, process, box, rows, world, gateway, closure, Undecided
<1>49. ASSUME NEW t \in Turns, NEW o \in Ops, Admit(t, o) PROVE TypeOK'
  BY <1>49 DEF TypeOK, Admit, turnRow, jobs, process, box, rows, world, gateway, closure, Undecided
<1>50. ASSUME NEW t \in Turns, NEW o \in Ops, ClosureFound(t, o) PROVE TypeOK'
  BY <1>50 DEF TypeOK, ClosureFound, turnRow, jobs, process, box, rows, world, gateway, closure, Undecided
<1>51. ASSUME NEW o \in Ops, Land(o) PROVE TypeOK'
  BY <1>51 DEF TypeOK, Land, turnRow, jobs, process, box, rows, world, gateway, closure, Undecided
<1>52. ASSUME CloseIssue PROVE TypeOK'
  <2>1. TurnTypes'
    <3>1. CASE \E t \in Turns : /\ status' = [status EXCEPT ![t] = "CANCELLING"]
                               /\ admission' = [admission EXCEPT ![t] = FALSE]
      BY <1>52, <3>1, TypeGroups DEF CloseIssue, TurnTypes, jobs, Statuses
    <3>2. CASE UNCHANGED <<status, admission>>
      BY <1>52, <3>2, TypeGroups DEF CloseIssue, TurnTypes, jobs
    <3> QED BY <1>52, <3>1, <3>2 DEF CloseIssue
  <2>2. ProcessTypes'
    BY <1>52, TypeGroups DEF CloseIssue, ProcessTypes, process, box, gateway
  <2>3. RowTypes'
    BY <1>52, TypeGroups, OrphanTypes DEF CloseIssue, RowTypes, rows, world
  <2>4. IssueTypes'
    <3>1. stopped' \in BOOLEAN
      BY <1>52, Zenon DEF CloseIssue
    <3>2. issue' \in {"open", "closing", "closed"} /\ barrier' \in 0..MaxTurn
      BY <1>52 DEF CloseIssue, ConstantsAssumption
    <3> QED BY <3>1, <3>2 DEF IssueTypes
  <2> QED BY <2>1, <2>2, <2>3, <2>4 DEF TypeOK, TurnTypes, ProcessTypes, RowTypes, IssueTypes, Statuses, States,
         Reasons, PCs
<1>53. ASSUME CompleteClosure PROVE TypeOK'
  <2>1. TurnTypes'
    <3>1. CASE \E t \in Turns : status' = [status EXCEPT ![t] = "INTERRUPTED"] /\ lease' = [lease EXCEPT ![t] = "none"]
      BY <1>53, <3>1, TypeGroups DEF CompleteClosure, TurnTypes, jobs, Statuses
    <3>2. CASE UNCHANGED <<status, lease>>
      BY <1>53, <3>2, TypeGroups DEF CompleteClosure, TurnTypes, jobs
    <3> QED BY <1>53, <3>1, <3>2 DEF CompleteClosure
  <2>2. ProcessTypes'
    BY <1>53, TypeGroups DEF CompleteClosure, ProcessTypes, process, box, gateway
  <2>3. RowTypes'
    BY <1>53, TypeGroups DEF CompleteClosure, RowTypes, rows, world
  <2>4. IssueTypes'
    BY <1>53, TypeGroups DEF CompleteClosure, IssueTypes, closure
  <2> QED BY <2>1, <2>2, <2>3, <2>4 DEF TypeOK, TurnTypes, ProcessTypes, RowTypes, IssueTypes, Statuses, States,
         Reasons, PCs
<1>54. CASE UNCHANGED vars
  BY <1>54 DEF TypeOK, vars, turnRow, jobs, process, box, rows, world, gateway, closure, Undecided
<1> QED
  BY <1>1, <1>2, <1>3, <1>4, <1>5, <1>6, <1>7, <1>8, <1>9, <1>10, <1>11, <1>12, <1>13, <1>14, <1>15, <1>16, <1>17, <1>18, <1>19, <1>20, <1>21, <1>22, <1>23, <1>24, <1>25, <1>26, <1>27, <1>28, <1>29, <1>30, <1>31, <1>32, <1>33, <1>34, <1>35, <1>36, <1>37, <1>38, <1>39, <1>40, <1>41, <1>42, <1>43, <1>44, <1>45, <1>46, <1>47, <1>48, <1>49, <1>50, <1>51, <1>52, <1>53, <1>54
     DEF Next, WorkerStep, RecoveryStep, CallStep, ClosureStep
-----------------------------------------------------------------------------
\* The rows and the calls.

\* A step that touches no mutation and no call, and ends no recovery, keeps what is known of both.
LEMMA Frame ==
    ASSUME TypeOK, RowInv, CallInv, UNCHANGED <<rows, world, gateway>>,
           \A t \in Turns : recovery[t] # "none" => recovery'[t] # "none"
    PROVE  RowInv' /\ CallInv'
<1>1. /\ UNCHANGED <<ledger, owner, why, artifact, effect, pc, op>>
  BY DEF rows, world, gateway
<1>2. ASSUME NEW o \in Ops PROVE RowOk(o)'
  <2>1. RowOk(o)
    BY DEF RowInv
  <2>2. owner[o] # 0 => owner[o] \in Turns
    BY ConstantsAssumption DEF TypeOK, Turns, ConstantsAssumption
  <2> QED BY <1>1, <2>1, <2>2 DEF RowOk
<1>3. CallInv'
  BY <1>1 DEF CallInv, CallOk
<1> QED BY <1>2, <1>3 DEF RowInv

\* A step that touches neither a turn row nor a job keeps what is known of the turns.
LEMMA TurnFrame == ASSUME TurnInv, UNCHANGED <<turnRow, jobs>> PROVE TurnInv'
BY DEF TurnInv, TurnOk, turnRow, jobs

\* A step about one mutation that is nobody else's concerns that mutation and the calls of that turn only.
LEMMA OneRow ==
    ASSUME RowInv, CallInv, NEW t \in Turns, NEW o \in Ops, owner[o] \in {0, t}, recovery' = recovery,
           \A x \in Ops \ {o} : /\ ledger'[x] = ledger[x] /\ owner'[x] = owner[x] /\ why'[x] = why[x]
                                /\ artifact'[x] = artifact[x] /\ effect'[x] = effect[x],
           \A u \in Turns \ {t} : pc'[u] = pc[u] /\ op'[u] = op[u],
           RowOk(o)', CallOk(t)'
    PROVE  RowInv' /\ CallInv'
<1>1. ASSUME NEW x \in Ops PROVE RowOk(x)'
  <2>1. CASE x = o
    BY <2>1
  <2>2. CASE x # o
    BY <2>2 DEF RowInv, RowOk
  <2> QED BY <2>1, <2>2
<1>2. ASSUME NEW u \in Turns PROVE CallOk(u)'
  <2>1. CASE u = t
    BY <2>1
  <2>2. CASE u # t
    <3>1. CallOk(u) /\ pc'[u] = pc[u] /\ op'[u] = op[u] /\ u # 0
      BY <2>2 DEF CallInv, Turns
    <3>2. CASE pc[u] \in {"reserved", "abandoning"} \cup Started
      <4>1. op[u] \in Ops \ {o}
        BY <2>2, <3>1, <3>2 DEF CallOk, Started
      <4> QED BY <3>1, <4>1 DEF CallOk
    <3>3. CASE pc[u] \notin {"reserved", "abandoning"} \cup Started
      BY <3>1, <3>3 DEF CallOk, Started
    <3> QED BY <3>2, <3>3
  <2> QED BY <2>1, <2>2
<1> QED BY <1>1, <1>2 DEF RowInv, CallInv

\* Fencing the mutations of a turn keeps what is known, since a mutation that is only reserved has no call that may
\* send it.
LEMMA OrphanInv ==
    ASSUME TypeOK, RowInv, CallInv, NEW t \in Turns, Orphan(t), UNCHANGED <<owner, world, gateway>>,
           \A u \in Turns : recovery[u] # "none" => recovery'[u] # "none"
    PROVE  RowInv' /\ CallInv'
<1>1. UNCHANGED <<owner, artifact, effect, pc, op>>
  BY DEF world, gateway
<1>2. ASSUME NEW o \in Ops PROVE RowOk(o)'
  <2>1. RowOk(o)
    BY DEF RowInv
  <2>2. owner[o] # 0 => owner[o] \in Turns
    BY ConstantsAssumption DEF TypeOK, Turns, ConstantsAssumption
  <2> QED BY <1>1, <2>1, <2>2 DEF RowOk, Orphan
<1>3. ASSUME NEW u \in Turns PROVE CallOk(u)'
  <2>1. CallOk(u)
    BY DEF CallInv
  <2>2. CASE pc[u] = "idle"
    BY <1>1, <2>1, <2>2 DEF CallOk, Started
  <2>3. CASE pc[u] # "idle"
    <3>1. op[u] \in Ops /\ RowOk(op[u])
      BY <2>1, <2>3 DEF CallOk, RowInv
    <3> QED BY <1>1, <2>1, <3>1 DEF CallOk, RowOk, Orphan, Started
  <2> QED BY <2>2, <2>3
<1> QED BY <1>2, <1>3 DEF RowInv, CallInv

\* The three parts are preserved together.
LEMMA InvStep == ASSUME IInv, [Next]_vars PROVE TurnInv' /\ RowInv' /\ CallInv'
<1> USE DEF IInv
<1>1. ASSUME NEW t \in Turns,
                Launch(t) \/ LaunchFails(t) \/ PromptEnds(t) \/ CloseGrant(t) \/ Drain(t) \/ CleanStop(t)
                 \/ CleanCapture(t) \/ CleanRemove(t) \/ Leave(t) \/ Abandon(t) \/ StaleStop(t) \/ StaleCapture(t)
                 \/ StaleRemove(t) \/ ClosureKill(t) \/ ClosureStopped(t) PROVE TurnInv' /\ RowInv' /\ CallInv'
  <2>1. UNCHANGED <<turnRow, jobs, rows, world, gateway>>
    BY <1>1 DEF Launch, LaunchFails, PromptEnds, CloseGrant, Drain, CleanStop, CleanCapture, CleanRemove, Leave, Abandon, StaleStop, StaleCapture, StaleRemove, ClosureKill, ClosureStopped, box
  <2>2. recovery' = recovery
    BY <2>1 DEF jobs
  <2> QED BY <2>1, <2>2, Frame, TurnFrame
<1>2. ASSUME NEW t \in Turns,
                Prepare(t) \/ Claim(t) \/ OpenAdmission(t) \/ CloseAdmission(t) \/ Settle(t) \/ Expire(t) PROVE TurnInv' /\ RowInv' /\ CallInv'
  <2>1. UNCHANGED <<jobs, rows, world, gateway>>
    BY <1>2 DEF Prepare, Claim, OpenAdmission, CloseAdmission, Settle, Expire
  <2>2. recovery' = recovery
    BY <2>1 DEF jobs
  <2>3. TurnInv'
    BY <1>2, <2>1 DEF Prepare, Claim, OpenAdmission, CloseAdmission, Settle, Expire, TypeOK, TurnInv, TurnOk, Fenced, jobs
  <2> QED BY <2>1, <2>2, <2>3, Frame
<1>3. ASSUME NEW t \in Turns, ListMutations(t) PROVE TurnInv' /\ RowInv' /\ CallInv'
  <2>1. UNCHANGED <<turnRow, jobs, owner, world, gateway>> /\ recovery' = recovery
    BY <1>3 DEF ListMutations, jobs
  <2>2. CASE Orphan(t)
    BY <2>1, <2>2, OrphanInv, TurnFrame
  <2>3. CASE UNCHANGED <<ledger, why>>
    BY <2>1, <2>3, Frame, TurnFrame DEF rows
  <2> QED BY <1>3, <2>2, <2>3 DEF ListMutations
<1>4. ASSUME NEW t \in Turns, RecoverExpired(t) \/ FenceDuplicate(t) PROVE TurnInv' /\ RowInv' /\ CallInv'
  <2>1. recovery[t] = "none" /\ tries[t] = 0
    BY <1>4 DEF TurnInv, TurnOk, RecoverExpired, FenceDuplicate
  <2>2. TurnInv'
    BY <1>4, <2>1, ConstantsAssumption DEF RecoverExpired, FenceDuplicate, RaiseBarrier, TypeOK, TurnInv, TurnOk, ConstantsAssumption
  <2>3. \A u \in Turns : recovery[u] # "none" => recovery'[u] # "none"
    BY <1>4 DEF RecoverExpired, FenceDuplicate, RaiseBarrier, TypeOK
  <2> QED BY <1>4, <2>2, <2>3, OrphanInv DEF RecoverExpired, FenceDuplicate
<1>5. ASSUME NEW t \in Turns, BeginRecovery(t) PROVE TurnInv' /\ RowInv' /\ CallInv'
  <2>1. recovery[t] = "none" /\ tries[t] = 0
    BY <1>5 DEF TurnInv, TurnOk, BeginRecovery, Fenced
  <2>2. TurnInv'
    BY <1>5, <2>1, ConstantsAssumption DEF BeginRecovery, RaiseBarrier, TypeOK, TurnInv, TurnOk, ConstantsAssumption
  <2>3. \A u \in Turns : recovery[u] # "none" => recovery'[u] # "none"
    BY <1>5 DEF BeginRecovery, RaiseBarrier, TypeOK
  <2>4. ASSUME NEW o \in Ops PROVE RowOk(o)'
    <3>1. RowOk(o) /\ (owner[o] # 0 => owner[o] \in Turns)
      BY ConstantsAssumption DEF RowInv, TypeOK, Turns, ConstantsAssumption
    <3> QED BY <1>5, <2>3, <3>1 DEF BeginRecovery, RowOk, world
  <2>5. ASSUME NEW u \in Turns PROVE CallOk(u)'
    <3>1. CallOk(u) /\ UNCHANGED <<owner, why, artifact, effect, pc, op>>
      BY <1>5 DEF CallInv, BeginRecovery, world, gateway
    <3>2. op[u] \in Ops /\ ledger[op[u]] \notin {"NONE", "RESERVED"} => ledger'[op[u]] \notin {"NONE", "RESERVED"}
      BY <1>5 DEF BeginRecovery
    <3> QED BY <3>1, <3>2 DEF CallOk, Started
  <2> QED BY <2>2, <2>4, <2>5 DEF RowInv, CallInv
<1>6. ASSUME NEW t \in Turns, InterruptForHandoff(t) PROVE TurnInv' /\ RowInv' /\ CallInv'
  <2>1. CASE status[t] = "QUEUED" /\ status' = [status EXCEPT ![t] = "INTERRUPTED"]
             /\ UNCHANGED <<admission, lease, jobs, ledger, why>>
    <3>1. TurnInv' /\ recovery' = recovery
      BY <2>1 DEF TypeOK, TurnInv, TurnOk, jobs
    <3> QED BY <1>6, <2>1, <3>1, Frame DEF InterruptForHandoff, rows
  <2>2. CASE lease[t] # "none" /\ Orphan(t) /\ RaiseBarrier(t, "handoff")
    <3>1. recovery[t] = "none" /\ tries[t] = 0
      BY <2>2 DEF TurnInv, TurnOk
    <3>2. TurnInv'
      BY <2>2, <3>1, ConstantsAssumption DEF RaiseBarrier, TypeOK, TurnInv, TurnOk, ConstantsAssumption
    <3>3. \A u \in Turns : recovery[u] # "none" => recovery'[u] # "none"
      BY <2>2 DEF RaiseBarrier, TypeOK
    <3> QED BY <1>6, <2>2, <3>2, <3>3, OrphanInv DEF InterruptForHandoff
  <2> QED BY <1>6, <2>1, <2>2 DEF InterruptForHandoff
<1>7. ASSUME NEW t \in Turns, AcknowledgeStopped(t) \/ CompleteReconciliation(t) PROVE TurnInv' /\ RowInv' /\ CallInv'
  <2>1. UNCHANGED <<rows, world, gateway>>
    BY <1>7 DEF AcknowledgeStopped, CompleteReconciliation
  <2>2. /\ recovery[t] # "none" /\ lease' = lease /\ tries' = tries
        /\ mutationJob' = mutationJob \/ mutationJob' = [mutationJob EXCEPT ![t] = "done"]
        /\ \/ status' = [status EXCEPT ![t] = "INTERRUPTED"] /\ recovery' = [recovery EXCEPT ![t] = "settled"]
           \/ UNCHANGED status /\ recovery' = [recovery EXCEPT ![t] = recovery[t]]
    BY <1>7 DEF AcknowledgeStopped, CompleteReconciliation, SettleRecovery, Recovering
  <2>3. TurnInv' /\ \A u \in Turns : recovery[u] # "none" => recovery'[u] # "none"
    BY <2>2 DEF TypeOK, TurnInv, TurnOk
  <2> QED BY <2>1, <2>3, Frame
<1>8. ASSUME NEW t \in Turns, ReconcileFails(t) PROVE TurnInv' /\ RowInv' /\ CallInv'
  <2>1. UNCHANGED <<rows, world, gateway>> /\ recovery' = recovery
    BY <1>8 DEF ReconcileFails
  <2>2. TurnInv'
    BY <1>8, ConstantsAssumption DEF ReconcileFails, Recovering, TypeOK, TurnInv, TurnOk, turnRow, ConstantsAssumption
  <2> QED BY <2>1, <2>2, Frame
<1>9. ASSUME NEW t \in Turns, ReconcileExhausted(t) PROVE TurnInv' /\ RowInv' /\ CallInv'
  <2>1. /\ recovery[t] # "none" /\ UNCHANGED <<owner, artifact, effect, pc, op, lease>>
        /\ mutationJob' = [mutationJob EXCEPT ![t] = "done"] /\ tries' = [tries EXCEPT ![t] = @ + 1]
        /\ \/ status' = [status EXCEPT ![t] = "INTERRUPTED"] /\ recovery' = [recovery EXCEPT ![t] = "settled"]
           \/ UNCHANGED status /\ recovery' = [recovery EXCEPT ![t] = "handoff"]
    BY <1>9 DEF ReconcileExhausted, SettleRecovery, Recovering, world, gateway
  <2>2. TurnInv' /\ \A u \in Turns : recovery[u] # "none" => recovery'[u] # "none"
    BY <2>1 DEF TypeOK, TurnInv, TurnOk
  <2>3. ASSUME NEW o \in Ops PROVE RowOk(o)'
    <3>1. RowOk(o) /\ (owner[o] # 0 => owner[o] \in Turns)
      BY ConstantsAssumption DEF RowInv, TypeOK, Turns, ConstantsAssumption
    <3> QED BY <1>9, <2>1, <2>2, <3>1 DEF ReconcileExhausted, RowOk
  <2>4. ASSUME NEW u \in Turns PROVE CallOk(u)'
    <3>1. CallOk(u)
      BY DEF CallInv
    <3>2. op[u] \in Ops => /\ ledger[op[u]] \notin {"NONE", "RESERVED"} => ledger'[op[u]] \notin {"NONE", "RESERVED"}
                          /\ why'[op[u]] \in {why[op[u]], "exhausted"}
      BY <1>9 DEF ReconcileExhausted
    <3> QED BY <2>1, <3>1, <3>2 DEF CallOk, Started
  <2> QED BY <2>2, <2>3, <2>4 DEF RowInv, CallInv
<1>10. ASSUME NEW t \in Turns, NEW o \in Ops, ReconcileFound(t, o) \/ ReconcileAbsent(t, o) \/ ClosureFound(t, o) PROVE TurnInv' /\ RowInv' /\ CallInv'
  <2>1. /\ UNCHANGED <<turnRow, jobs, owner, artifact, effect, pc, op>> /\ recovery' = recovery
        /\ owner[o] = t /\ ledger[o] \in {"UNKNOWN", "RECONCILING"}
        /\ \A x \in Ops \ {o} : ledger'[x] = ledger[x] /\ why'[x] = why[x]
    BY <1>10 DEF ReconcileFound, ReconcileAbsent, ClosureFound, MayReconcile, TypeOK, world, gateway, jobs
  <2>2. RowOk(o) /\ CallOk(t)
    BY DEF RowInv, CallInv
  <2>3. CASE ledger'[o] = "SUCCEEDED" /\ why'[o] = why[o] /\ Found(o)
    <3>1. RowOk(o)'
      BY <2>1, <2>2, <2>3 DEF RowOk, Found
    <3>2. CallOk(t)'
      BY <2>1, <2>2, <2>3 DEF CallOk, Started
    <3> QED BY <2>1, <3>1, <3>2, OneRow, TurnFrame
  <2>4. CASE ledger'[o] = "FAILED" /\ why'[o] = "absent" /\ o \in Frozen /\ ~artifact[o] /\ recovery[t] # "none"
    <3>1. RowOk(o)'
      BY <2>1, <2>2, <2>4 DEF RowOk
    <3>2. CallOk(t)'
      BY <2>1, <2>2, <2>4 DEF CallOk, Started
    <3> QED BY <2>1, <3>1, <3>2, OneRow, TurnFrame
  <2> QED BY <1>10, <2>3, <2>4 DEF ReconcileFound, ReconcileAbsent, ClosureFound, MayReconcile, Recovering, TypeOK
<1>11. ASSUME NEW t \in Turns, NEW o \in Ops, Admit(t, o) PROVE TurnInv' /\ RowInv' /\ CallInv'
  <2>1. UNCHANGED <<turnRow, jobs, rows, world>> /\ recovery' = recovery
    BY <1>11 DEF Admit, jobs
  <2>2. TurnInv' /\ RowInv'
    BY <2>1, TurnFrame DEF RowInv, RowOk, rows, world
  <2>3. CallInv'
    BY <1>11, <2>1 DEF Admit, CallInv, CallOk, TypeOK, Started, rows, world
  <2> QED BY <2>2, <2>3
<1>12. ASSUME NEW t \in Turns, Crash(t) \/ Replay(t) \/ ReserveRefused(t) PROVE TurnInv' /\ RowInv' /\ CallInv'
  <2>1. /\ UNCHANGED <<turnRow, jobs, rows, world>> /\ recovery' = recovery
        /\ pc' = [pc EXCEPT ![t] = "idle"] /\ op' = [op EXCEPT ![t] = NoOp]
    BY <1>12 DEF Crash, Replay, ReserveRefused, Finish, jobs
  <2>2. TurnInv' /\ RowInv'
    BY <2>1, TurnFrame DEF RowInv, RowOk, rows, world
  <2>3. CallInv'
    BY <2>1 DEF CallInv, CallOk, TypeOK, Started, rows, world
  <2> QED BY <2>2, <2>3
<1>13. ASSUME NEW t \in Turns, Reserve(t) PROVE TurnInv' /\ RowInv' /\ CallInv'
  <2>1. PICK o \in Ops : o = op[t] /\ RowOk(o) /\ CallOk(t)
    BY <1>13 DEF Reserve, RowInv, CallInv, CallOk
  <2>2. /\ UNCHANGED <<turnRow, jobs>> /\ recovery' = recovery /\ owner[o] \in {0, t}
        /\ \A x \in Ops \ {o} : /\ ledger'[x] = ledger[x] /\ owner'[x] = owner[x] /\ why'[x] = why[x]
                               /\ artifact'[x] = artifact[x] /\ effect'[x] = effect[x]
        /\ \A u \in Turns \ {t} : pc'[u] = pc[u] /\ op'[u] = op[u]
    BY <1>13, <2>1 DEF Reserve, Fresh, TypeOK, RowOk, CallOk, Started, Call, Finish, Record, rows, world, jobs
  <2>3. RowOk(o)'
    <3>1. /\ ledger[o] = "NONE" /\ ledger'[o] = "RESERVED" /\ owner'[o] = t /\ t # 0
          /\ why'[o] = why[o] /\ effect'[o] = effect[o] /\ artifact'[o] = artifact[o]
      BY <1>13, <2>1 DEF Reserve, Fresh, TypeOK, world, Turns
    <3> QED BY <2>1, <3>1 DEF RowOk
  <2>4. CallOk(t)'
    <3>1. \/ pc'[t] = "idle"
          \/ pc'[t] = "reserved" /\ op'[t] = o /\ owner'[o] = t /\ effect'[o] = "none"
      BY <1>13, <2>1 DEF Reserve, Fresh, RowOk, CallOk, TypeOK, Started, Call, Finish, rows, world
    <3> QED BY <2>1, <3>1 DEF CallOk, RowOk, Started
  <2> QED BY <2>2, <2>3, <2>4, OneRow, TurnFrame, <2>1
<1>14. ASSUME NEW t \in Turns, ReserveReuse(t) PROVE TurnInv' /\ RowInv' /\ CallInv'
  <2>1. PICK o \in Ops : o = op[t] /\ RowOk(o) /\ CallOk(t)
    BY <1>14 DEF ReserveReuse, RowInv, CallInv, CallOk
  <2>2. /\ UNCHANGED <<turnRow, jobs>> /\ recovery' = recovery /\ owner[o] \in {0, t}
        /\ \A x \in Ops \ {o} : /\ ledger'[x] = ledger[x] /\ owner'[x] = owner[x] /\ why'[x] = why[x]
                               /\ artifact'[x] = artifact[x] /\ effect'[x] = effect[x]
        /\ \A u \in Turns \ {t} : pc'[u] = pc[u] /\ op'[u] = op[u]
    BY <1>14, <2>1 DEF ReserveReuse, TypeOK, RowOk, CallOk, Started, Call, Finish, Record, rows, world, jobs
  <2>3. RowOk(o)'
    BY <1>14, <2>1, <2>2 DEF ReserveReuse, RowOk, CallOk, TypeOK, Started, Call, Finish, Record, rows, world, NoOp
  <2>4. CallOk(t)'
    BY <1>14, <2>1 DEF ReserveReuse, RowOk, CallOk, TypeOK, Started, Call, Finish, Record, rows, world, NoOp
  <2> QED BY <2>2, <2>3, <2>4, OneRow, TurnFrame, <2>1
<1>15. ASSUME NEW t \in Turns, Start(t) PROVE TurnInv' /\ RowInv' /\ CallInv'
  <2>1. PICK o \in Ops : o = op[t] /\ RowOk(o) /\ CallOk(t)
    BY <1>15 DEF Start, RowInv, CallInv, CallOk
  <2>2. /\ UNCHANGED <<turnRow, jobs>> /\ recovery' = recovery /\ owner[o] \in {0, t}
        /\ \A x \in Ops \ {o} : /\ ledger'[x] = ledger[x] /\ owner'[x] = owner[x] /\ why'[x] = why[x]
                               /\ artifact'[x] = artifact[x] /\ effect'[x] = effect[x]
        /\ \A u \in Turns \ {t} : pc'[u] = pc[u] /\ op'[u] = op[u]
    BY <1>15, <2>1 DEF Start, Startable, TypeOK, RowOk, CallOk, Started, Call, Finish, Record, rows, world, jobs
  <2>3. RowOk(o)'
    BY <1>15, <2>1, <2>2 DEF Start, Startable, RowOk, CallOk, TypeOK, Started, Call, Finish, Record, rows, world, NoOp
  <2>4. CallOk(t)'
    BY <1>15, <2>1 DEF Start, Startable, RowOk, CallOk, TypeOK, Started, Call, Finish, Record, rows, world, NoOp
  <2> QED BY <2>2, <2>3, <2>4, OneRow, TurnFrame, <2>1
<1>16. ASSUME NEW t \in Turns, StartFails(t) \/ FreezeFails(t) \/ CancelBeforeSend(t) PROVE TurnInv' /\ RowInv' /\ CallInv'
  <2>1. PICK o \in Ops : o = op[t] /\ RowOk(o) /\ CallOk(t)
    BY <1>16 DEF StartFails, FreezeFails, CancelBeforeSend, RowInv, CallInv, CallOk
  <2>2. /\ UNCHANGED <<turnRow, jobs>> /\ recovery' = recovery /\ owner[o] \in {0, t}
        /\ \A x \in Ops \ {o} : /\ ledger'[x] = ledger[x] /\ owner'[x] = owner[x] /\ why'[x] = why[x]
                               /\ artifact'[x] = artifact[x] /\ effect'[x] = effect[x]
        /\ \A u \in Turns \ {t} : pc'[u] = pc[u] /\ op'[u] = op[u]
    BY <1>16, <2>1 DEF StartFails, FreezeFails, CancelBeforeSend, TypeOK, RowOk, CallOk, Started, Call, Finish, Record, rows, world, jobs
  <2>3. RowOk(o)'
    BY <1>16, <2>1, <2>2 DEF StartFails, FreezeFails, CancelBeforeSend, RowOk, CallOk, TypeOK, Started, Call, Finish, Record, rows, world, NoOp
  <2>4. CallOk(t)'
    <3>1. /\ op'[t] = o /\ ledger'[o] = ledger[o] /\ owner'[o] = t /\ effect'[o] = "none"
          /\ \/ pc'[t] = "abandoning"
             \/ pc'[t] \in {"err", "unsure"} /\ ledger[o] \notin {"NONE", "RESERVED"}
      BY <1>16, <2>1 DEF StartFails, FreezeFails, CancelBeforeSend, RowOk, CallOk, TypeOK, Started, Call, Finish, rows, world
    <3> QED BY <2>1, <3>1 DEF CallOk, RowOk, Started
  <2> QED BY <2>2, <2>3, <2>4, OneRow, TurnFrame, <2>1
<1>17. ASSUME NEW t \in Turns, AbandonCall(t) PROVE TurnInv' /\ RowInv' /\ CallInv'
  <2>1. PICK o \in Ops : o = op[t] /\ RowOk(o) /\ CallOk(t)
    BY <1>17 DEF AbandonCall, RowInv, CallInv, CallOk
  <2>2. /\ UNCHANGED <<turnRow, jobs>> /\ recovery' = recovery /\ owner[o] \in {0, t}
        /\ \A x \in Ops \ {o} : /\ ledger'[x] = ledger[x] /\ owner'[x] = owner[x] /\ why'[x] = why[x]
                               /\ artifact'[x] = artifact[x] /\ effect'[x] = effect[x]
        /\ \A u \in Turns \ {t} : pc'[u] = pc[u] /\ op'[u] = op[u]
    BY <1>17, <2>1 DEF AbandonCall, TypeOK, RowOk, CallOk, Started, Call, Finish, Record, rows, world, jobs
  <2>3. RowOk(o)'
    BY <1>17, <2>1, <2>2 DEF AbandonCall, RowOk, CallOk, TypeOK, Started, Call, Finish, Record, rows, world, NoOp
  <2>4. CallOk(t)'
    <3>1. pc'[t] = "idle"
      BY <1>17, <2>1 DEF AbandonCall, RowOk, CallOk, TypeOK, Started, Call, Finish, rows, world
    <3> QED BY <2>1, <3>1 DEF CallOk, RowOk, Started
  <2> QED BY <2>2, <2>3, <2>4, OneRow, TurnFrame, <2>1
<1>18. ASSUME NEW t \in Turns, Freeze(t) PROVE TurnInv' /\ RowInv' /\ CallInv'
  <2>1. PICK o \in Ops : o = op[t] /\ RowOk(o) /\ CallOk(t)
    BY <1>18 DEF Freeze, RowInv, CallInv, CallOk
  <2>2. /\ UNCHANGED <<turnRow, jobs>> /\ recovery' = recovery /\ owner[o] \in {0, t}
        /\ \A x \in Ops \ {o} : /\ ledger'[x] = ledger[x] /\ owner'[x] = owner[x] /\ why'[x] = why[x]
                               /\ artifact'[x] = artifact[x] /\ effect'[x] = effect[x]
        /\ \A u \in Turns \ {t} : pc'[u] = pc[u] /\ op'[u] = op[u]
    BY <1>18, <2>1 DEF Freeze, TypeOK, RowOk, CallOk, Started, Call, Finish, Record, rows, world, jobs
  <2>3. recovery[t] = "none"
    BY <1>18 DEF Freeze, Admissible, Fenced, TurnInv, TurnOk
  <2>4. RowOk(o)'
    BY <1>18, <2>1, <2>3 DEF Freeze, RowOk, CallOk, TypeOK, Started, Call, rows
  <2>5. CallOk(t)'
    BY <1>18, <2>1 DEF Freeze, RowOk, CallOk, TypeOK, Started, Call, rows
  <2> QED BY <2>2, <2>4, <2>5, OneRow, TurnFrame, <2>1
<1>19. ASSUME NEW t \in Turns, Send(t) PROVE TurnInv' /\ RowInv' /\ CallInv'
  <2>1. PICK o \in Ops : o = op[t] /\ RowOk(o) /\ CallOk(t)
    BY <1>19 DEF Send, RowInv, CallInv, CallOk
  <2>2. /\ UNCHANGED <<turnRow, jobs>> /\ recovery' = recovery /\ owner[o] \in {0, t}
        /\ \A x \in Ops \ {o} : /\ ledger'[x] = ledger[x] /\ owner'[x] = owner[x] /\ why'[x] = why[x]
                               /\ artifact'[x] = artifact[x] /\ effect'[x] = effect[x]
        /\ \A u \in Turns \ {t} : pc'[u] = pc[u] /\ op'[u] = op[u]
    BY <1>19, <2>1 DEF Send, TypeOK, RowOk, CallOk, Started, Call, Finish, Record, rows, world, jobs
  <2>3. RowOk(o)'
    BY <1>19, <2>1, <2>2 DEF Send, RowOk, CallOk, TypeOK, Started, Call, Finish, Record, rows, world, NoOp
  <2>4. CallOk(t)'
    BY <1>19, <2>1 DEF Send, RowOk, CallOk, TypeOK, Started, Call, Finish, Record, rows, world, NoOp
  <2> QED BY <2>2, <2>3, <2>4, OneRow, TurnFrame, <2>1
<1>20. ASSUME NEW t \in Turns, Answer(t) PROVE TurnInv' /\ RowInv' /\ CallInv'
  <2>1. PICK o \in Ops : o = op[t] /\ RowOk(o) /\ CallOk(t)
    BY <1>20 DEF Answer, RowInv, CallInv, CallOk
  <2>2. /\ UNCHANGED <<turnRow, jobs>> /\ recovery' = recovery /\ owner[o] \in {0, t}
        /\ \A x \in Ops \ {o} : /\ ledger'[x] = ledger[x] /\ owner'[x] = owner[x] /\ why'[x] = why[x]
                               /\ artifact'[x] = artifact[x] /\ effect'[x] = effect[x]
        /\ \A u \in Turns \ {t} : pc'[u] = pc[u] /\ op'[u] = op[u]
    BY <1>20, <2>1 DEF Answer, TypeOK, RowOk, CallOk, Started, Call, Finish, Record, rows, world, jobs
  <2>3. RowOk(o)'
    BY <1>20, <2>1, <2>2 DEF Answer, RowOk, CallOk, TypeOK, Started, Call, Finish, Record, rows, world, NoOp
  <2>4. CallOk(t)'
    <3>1. /\ op'[t] = o /\ ledger'[o] = ledger[o] /\ ledger[o] \notin {"NONE", "RESERVED"} /\ owner'[o] = t
          /\ \/ pc'[t] = "ok" /\ effect'[o] = "landed"
             \/ pc'[t] = "err" /\ effect'[o] = "refused"
             \/ pc'[t] = "unsure"
      BY <1>20, <2>1 DEF Answer, RowOk, CallOk, TypeOK, Started, Call, Finish, rows, world
    <3> QED BY <2>1, <3>1 DEF CallOk, RowOk, Started
  <2> QED BY <2>2, <2>3, <2>4, OneRow, TurnFrame, <2>1
<1>21. ASSUME NEW t \in Turns, RecordOk(t) PROVE TurnInv' /\ RowInv' /\ CallInv'
  <2>1. PICK o \in Ops : o = op[t] /\ RowOk(o) /\ CallOk(t)
    BY <1>21 DEF RecordOk, RowInv, CallInv, CallOk
  <2>2. /\ UNCHANGED <<turnRow, jobs>> /\ recovery' = recovery /\ owner[o] \in {0, t}
        /\ \A x \in Ops \ {o} : /\ ledger'[x] = ledger[x] /\ owner'[x] = owner[x] /\ why'[x] = why[x]
                               /\ artifact'[x] = artifact[x] /\ effect'[x] = effect[x]
        /\ \A u \in Turns \ {t} : pc'[u] = pc[u] /\ op'[u] = op[u]
    BY <1>21, <2>1 DEF RecordOk, TypeOK, RowOk, CallOk, Started, Call, Finish, Record, rows, world, jobs
  <2>3. RowOk(o)'
    BY <1>21, <2>1, <2>2 DEF RecordOk, RowOk, CallOk, TypeOK, Started, Call, Finish, Record, rows, world, NoOp
  <2>4. CallOk(t)'
    BY <1>21, <2>1 DEF RecordOk, RowOk, CallOk, TypeOK, Started, Call, Finish, Record, rows, world, NoOp
  <2> QED BY <2>2, <2>3, <2>4, OneRow, TurnFrame, <2>1
<1>22. ASSUME NEW t \in Turns, RecordErr(t) PROVE TurnInv' /\ RowInv' /\ CallInv'
  <2>1. PICK o \in Ops : o = op[t] /\ RowOk(o) /\ CallOk(t)
    BY <1>22 DEF RecordErr, RowInv, CallInv, CallOk
  <2>2. /\ UNCHANGED <<turnRow, jobs>> /\ recovery' = recovery /\ owner[o] \in {0, t}
        /\ \A x \in Ops \ {o} : /\ ledger'[x] = ledger[x] /\ owner'[x] = owner[x] /\ why'[x] = why[x]
                               /\ artifact'[x] = artifact[x] /\ effect'[x] = effect[x]
        /\ \A u \in Turns \ {t} : pc'[u] = pc[u] /\ op'[u] = op[u]
    BY <1>22, <2>1 DEF RecordErr, TypeOK, RowOk, CallOk, Started, Call, Finish, Record, rows, world, jobs
  <2>3. RowOk(o)'
    BY <1>22, <2>1, <2>2 DEF RecordErr, RowOk, CallOk, TypeOK, Started, Call, Finish, Record, rows, world, NoOp
  <2>4. CallOk(t)'
    <3>1. pc'[t] = "idle"
      BY <1>22, <2>1 DEF RecordErr, RowOk, CallOk, TypeOK, Started, Call, Finish, rows, world
    <3> QED BY <2>1, <3>1 DEF CallOk, RowOk, Started
  <2> QED BY <2>2, <2>3, <2>4, OneRow, TurnFrame, <2>1
<1>23. ASSUME NEW t \in Turns, RecordUnsure(t) PROVE TurnInv' /\ RowInv' /\ CallInv'
  <2>1. PICK o \in Ops : o = op[t] /\ RowOk(o) /\ CallOk(t)
    BY <1>23 DEF RecordUnsure, RowInv, CallInv, CallOk
  <2>2. /\ UNCHANGED <<turnRow, jobs>> /\ recovery' = recovery /\ owner[o] \in {0, t}
        /\ \A x \in Ops \ {o} : /\ ledger'[x] = ledger[x] /\ owner'[x] = owner[x] /\ why'[x] = why[x]
                               /\ artifact'[x] = artifact[x] /\ effect'[x] = effect[x]
        /\ \A u \in Turns \ {t} : pc'[u] = pc[u] /\ op'[u] = op[u]
    BY <1>23, <2>1 DEF RecordUnsure, TypeOK, RowOk, CallOk, Started, Call, Finish, Record, rows, world, jobs
  <2>3. RowOk(o)'
    BY <1>23, <2>1, <2>2 DEF RecordUnsure, RowOk, CallOk, TypeOK, Started, Call, Finish, Record, rows, world, NoOp
  <2>4. CallOk(t)'
    <3>1. pc'[t] = "idle"
      BY <1>23, <2>1 DEF RecordUnsure, RowOk, CallOk, TypeOK, Started, Call, Finish, rows, world
    <3> QED BY <2>1, <3>1 DEF CallOk, RowOk, Started
  <2> QED BY <2>2, <2>3, <2>4, OneRow, TurnFrame, <2>1
<1>24. ASSUME NEW o \in Ops, Land(o) PROVE TurnInv' /\ RowInv' /\ CallInv'
  <2>1. /\ UNCHANGED <<turnRow, jobs, rows, artifact, pc, op>> /\ recovery' = recovery
        /\ effect[o] = "sent" /\ effect'[o] \in {"landed", "refused"}
        /\ \A x \in Ops \ {o} : effect'[x] = effect[x]
    BY <1>24 DEF Land, TypeOK, gateway, jobs
  <2>2. ASSUME NEW x \in Ops PROVE RowOk(x)'
    <3>1. RowOk(x)
      BY DEF RowInv
    <3> QED BY <2>1, <3>1 DEF RowOk, rows
  <2>3. ASSUME NEW u \in Turns PROVE CallOk(u)'
    <3>1. CallOk(u)
      BY DEF CallInv
    <3> QED BY <2>1, <3>1 DEF CallOk, Started, rows
  <2> QED BY <2>1, <2>2, <2>3, TurnFrame DEF RowInv, CallInv
<1>25. ASSUME CloseIssue PROVE TurnInv' /\ RowInv' /\ CallInv'
  <2>1. UNCHANGED <<lease, jobs, owner, world, gateway>> /\ recovery' = recovery
    BY <1>25 DEF CloseIssue, jobs
  <2>2. CASE \E t \in Turns : /\ Active(t) /\ Orphan(t) /\ status' = [status EXCEPT ![t] = "CANCELLING"]
    <3>1. TurnInv'
      BY <2>1, <2>2 DEF TypeOK, TurnInv, TurnOk, jobs
    <3> QED BY <2>1, <2>2, <3>1, OrphanInv
  <2>3. CASE UNCHANGED <<status, ledger, why>>
    <3>1. TurnInv'
      BY <2>1, <2>3 DEF TurnInv, TurnOk, jobs
    <3> QED BY <2>1, <2>3, <3>1, Frame DEF rows
  <2> QED BY <1>25, <2>2, <2>3 DEF CloseIssue
<1>26. ASSUME CompleteClosure PROVE TurnInv' /\ RowInv' /\ CallInv'
  <2>1. UNCHANGED <<jobs, rows, world, gateway>> /\ recovery' = recovery
    BY <1>26 DEF CompleteClosure, jobs
  <2>2. \/ UNCHANGED <<status, lease>>
        \/ \E t \in Turns : /\ status' = [status EXCEPT ![t] = "INTERRUPTED"]
                            /\ lease'  = [lease EXCEPT ![t] = "none"]
    BY <1>26 DEF CompleteClosure
  <2>3. TurnInv'
    BY <2>1, <2>2 DEF TypeOK, TurnInv, TurnOk, jobs
  <2> QED BY <2>1, <2>3, Frame
<1>27. CASE UNCHANGED vars
  BY <1>27, Frame, TurnFrame DEF vars, jobs
<1> QED
  BY <1>1, <1>2, <1>3, <1>4, <1>5, <1>6, <1>7, <1>8, <1>9, <1>10, <1>11, <1>12, <1>13, <1>14, <1>15, <1>16, <1>17, <1>18, <1>19, <1>20, <1>21, <1>22, <1>23, <1>24, <1>25, <1>26, <1>27
     DEF Next, WorkerStep, RecoveryStep, CallStep, ClosureStep

-----------------------------------------------------------------------------
\* The inductive invariant holds of every behaviour (the transactions of the store, the calls of the gateway).
THEOREM Invariance == Spec => []IInv
<1>1. IInv /\ [Next]_vars => IInv'
  BY TypeStep, InvStep DEF IInv
<1> QED BY <1>1, InitInv, PTL DEF Spec

\* Every variable keeps its type, and no reconciliation job exceeds its budget (reconciliation attempts).
THEOREM TypeCorrect == Spec => []TypeOK
<1>1. IInv => TypeOK
  BY DEF IInv
<1> QED BY <1>1, Invariance, PTL

\* The ledger tells the truth about GitHub (CompleteMutation, FailMutation, recovery, reconciliation).
THEOREM Truth == Spec => []LedgerTellsTheTruth
<1>1. IInv => LedgerTellsTheTruth
  BY DEF IInv, RowInv, RowOk, LedgerTellsTheTruth
<1> QED BY <1>1, Invariance, PTL

\* No mutation is sent twice, whatever dies, is fenced or is retried (ReserveMutation, StartMutation).
THEOREM Once == Spec => []NeverTwice
<1>1. IInv => NeverTwice
  BY DEF IInv, RowInv, RowOk, NeverTwice
<1> QED BY <1>1, Invariance, PTL
-----------------------------------------------------------------------------
\* The refinement.

Begun == {t \in Turns : status[t] # "ABSENT"}

\* Only Prepare begins a turn.
LEMMA BegunStep == ASSUME IInv, [Next]_vars, \A t \in Turns : ~Prepare(t) PROVE Begun' = Begun
<1>1. ASSUME UNCHANGED status PROVE Begun' = Begun
  BY <1>1 DEF Begun
<1>2. ASSUME NEW t \in Turns, NEW s, s # "ABSENT", status[t] # "ABSENT", status' = [status EXCEPT ![t] = s]
      PROVE  Begun' = Begun
  BY <1>2 DEF Begun, IInv, TypeOK
<1>3. ASSUME NEW t \in Turns,
                Launch(t) \/ LaunchFails(t) \/ PromptEnds(t) \/ CloseGrant(t) \/ Drain(t) \/ CleanStop(t)
                 \/ CleanCapture(t) \/ CleanRemove(t) \/ Leave(t) \/ Abandon(t) \/ StaleStop(t) \/ StaleCapture(t)
                 \/ StaleRemove(t) \/ ClosureKill(t) \/ ClosureStopped(t) \/ Crash(t) \/ OpenAdmission(t) \/ Expire(t)
                 \/ ListMutations(t) \/ ReconcileFails(t) PROVE Begun' = Begun
  BY <1>3, <1>1 DEF Launch, LaunchFails, PromptEnds, CloseGrant, Drain, CleanStop, CleanCapture, CleanRemove, Leave
                   , Abandon, StaleStop, StaleCapture, StaleRemove, ClosureKill, ClosureStopped, Crash, OpenAdmission
                   , Expire, ListMutations, ReconcileFails, turnRow
<1>4. ASSUME NEW t \in Turns,
                Reserve(t) \/ Replay(t) \/ ReserveRefused(t) \/ ReserveReuse(t) \/ Start(t) \/ StartFails(t)
                 \/ AbandonCall(t) \/ Freeze(t) \/ FreezeFails(t) \/ CancelBeforeSend(t) \/ Send(t) \/ Answer(t)
                 \/ RecordOk(t) \/ RecordErr(t) \/ RecordUnsure(t) PROVE Begun' = Begun
  BY <1>4, <1>1 DEF Reserve, Replay, ReserveRefused, ReserveReuse, Start, StartFails, AbandonCall, Freeze, FreezeFails
                   , CancelBeforeSend, Send, Answer, RecordOk, RecordErr, RecordUnsure, turnRow
<1>5. ASSUME NEW t \in Turns, NEW o \in Ops, ReconcileFound(t, o) \/ ReconcileAbsent(t, o) \/ ClosureFound(t, o) \/ Admit(t, o) PROVE Begun' = Begun
  BY <1>5, <1>1 DEF ReconcileFound, ReconcileAbsent, ClosureFound, Admit, turnRow
<1>6. ASSUME NEW o \in Ops, Land(o) PROVE Begun' = Begun
  BY <1>6, <1>1 DEF Land, turnRow
<1>7. ASSUME NEW t \in Turns, Claim(t) \/ CloseAdmission(t) \/ Settle(t) PROVE Begun' = Begun
  <2>1. PICK s : s # "ABSENT" /\ status' = [status EXCEPT ![t] = s] /\ status[t] # "ABSENT"
    BY <1>7 DEF Claim, CloseAdmission, Settle
  <2> QED BY <2>1, <1>2
<1>8. ASSUME NEW t \in Turns, NEW c, Active(t), RaiseBarrier(t, c) PROVE Begun' = Begun
  <2>1. status' = [status EXCEPT ![t] = "RECONCILING"] \/ status' = [status EXCEPT ![t] = "INTERRUPTED"]
    BY <1>8 DEF RaiseBarrier
  <2> QED BY <1>8, <2>1, <1>2 DEF Active
<1>9. ASSUME NEW t \in Turns, BeginRecovery(t) \/ RecoverExpired(t) \/ FenceDuplicate(t) \/ InterruptForHandoff(t) PROVE Begun' = Begun
  <2>1. CASE BeginRecovery(t)
    <3>1. Active(t)
      BY <2>1 DEF BeginRecovery, Fenced, Active, IInv, TurnInv, TurnOk
    <3> QED BY <2>1, <3>1, <1>8 DEF BeginRecovery
  <2>2. CASE RecoverExpired(t) \/ FenceDuplicate(t)
    BY <2>2, <1>8 DEF RecoverExpired, FenceDuplicate
  <2>3. CASE InterruptForHandoff(t)
    <3>1. CASE status[t] = "QUEUED" /\ status' = [status EXCEPT ![t] = "INTERRUPTED"]
      BY <3>1, <1>2
    <3> QED BY <2>3, <3>1, <1>8 DEF InterruptForHandoff
  <2> QED BY <1>9, <2>1, <2>2, <2>3
<1>10. ASSUME NEW t \in Turns, AcknowledgeStopped(t) \/ CompleteReconciliation(t) \/ ReconcileExhausted(t) PROVE Begun' = Begun
  <2>1. status[t] # "ABSENT" /\ (UNCHANGED status \/ status' = [status EXCEPT ![t] = "INTERRUPTED"])
    BY <1>10 DEF AcknowledgeStopped, CompleteReconciliation, ReconcileExhausted, SettleRecovery, Recovering, IInv,
              TurnInv, TurnOk
  <2> QED BY <2>1, <1>1, <1>2
<1>11. ASSUME CloseIssue \/ CompleteClosure PROVE Begun' = Begun
  <2>1. \/ UNCHANGED status
        \/ \E t \in Turns, s \in {"CANCELLING", "INTERRUPTED"} :
              status[t] # "ABSENT" /\ status' = [status EXCEPT ![t] = s]
    BY <1>11 DEF CloseIssue, CompleteClosure, Active, Closing
  <2> QED BY <2>1, <1>1, <1>2
<1>12. CASE UNCHANGED vars
  BY <1>12, <1>1 DEF vars, turnRow
<1> QED
  BY <1>3, <1>4, <1>5, <1>6, <1>7, <1>9, <1>10, <1>11, <1>12 DEF Next, WorkerStep, RecoveryStep, CallStep, ClosureStep

\* Only Reserve asks for a mutation; every other step leaves a row, or moves one that is undecided.
Moved(o) == \/ ledger'[o] = ledger[o] /\ why'[o] = why[o]
            \/ ledger[o] \in Undecided /\ ledger'[o] \in Undecided \cup {"SUCCEEDED", "FAILED"}
LEMMA LedgerStep == ASSUME IInv, [Next]_vars, \A t \in Turns : ~Reserve(t), NEW o \in Ops PROVE Moved(o)
<1>1. ASSUME UNCHANGED <<ledger, why>> PROVE Moved(o)
  BY <1>1 DEF Moved
<1>2. ASSUME NEW t \in Turns, Orphan(t) PROVE Moved(o)
  BY <1>2 DEF Moved, Orphan, Undecided
<1>3. ASSUME NEW t \in Turns,
                Launch(t) \/ LaunchFails(t) \/ PromptEnds(t) \/ CloseGrant(t) \/ Drain(t) \/ CleanStop(t)
                 \/ CleanCapture(t) \/ CleanRemove(t) \/ Leave(t) \/ Abandon(t) \/ StaleStop(t) \/ StaleCapture(t)
                 \/ StaleRemove(t) \/ ClosureKill(t) \/ ClosureStopped(t) \/ Crash(t) \/ Prepare(t) \/ Claim(t)
                 \/ OpenAdmission(t) \/ CloseAdmission(t) \/ Settle(t) \/ Expire(t) \/ AcknowledgeStopped(t)
                 \/ CompleteReconciliation(t) \/ ReconcileFails(t) PROVE Moved(o)
  BY <1>3, <1>1 DEF Launch, LaunchFails, PromptEnds, CloseGrant, Drain, CleanStop, CleanCapture, CleanRemove, Leave
                   , Abandon, StaleStop, StaleCapture, StaleRemove, ClosureKill, ClosureStopped, Crash, Prepare, Claim
                   , OpenAdmission, CloseAdmission, Settle, Expire, AcknowledgeStopped, CompleteReconciliation
                   , ReconcileFails, rows
<1>4. ASSUME NEW t \in Turns,
                Replay(t) \/ ReserveRefused(t) \/ ReserveReuse(t) \/ StartFails(t) \/ Freeze(t) \/ FreezeFails(t)
                 \/ CancelBeforeSend(t) \/ Send(t) \/ Answer(t) PROVE Moved(o)
  BY <1>4, <1>1 DEF Replay, ReserveRefused, ReserveReuse, StartFails, Freeze, FreezeFails, CancelBeforeSend, Send, Answer, rows
<1>5. ASSUME NEW t \in Turns, NEW x \in Ops, Admit(t, x) PROVE Moved(o)
  BY <1>5, <1>1 DEF Admit, rows
<1>6. ASSUME NEW x \in Ops, Land(x) PROVE Moved(o)
  BY <1>6, <1>1 DEF Land, rows
<1>7. ASSUME NEW t \in Turns, Start(t) \/ AbandonCall(t) \/ RecordOk(t) \/ RecordErr(t) \/ RecordUnsure(t) PROVE Moved(o)
  <2>1. ASSUME NEW s \in {"SUCCEEDED", "FAILED", "UNKNOWN"}, NEW r, ledger[op[t]] \in Undecided, Record(op[t], s, r)
        PROVE  Moved(o)
    BY <2>1 DEF Record, Moved, Undecided, IInv, TypeOK
  <2>2. CASE Start(t)
    BY <2>2 DEF Start, Startable, Moved, Undecided, IInv, TypeOK
  <2>3. CASE AbandonCall(t) \/ RecordErr(t)
    <3>1. \/ UNCHANGED <<ledger, why>>
          \/ ledger[op[t]] \in Undecided /\ \E r \in {"unstarted", "rejected"} : Record(op[t], "FAILED", r)
      BY <2>3 DEF AbandonCall, RecordErr, Undecided
    <3> QED BY <3>1, <2>1, <1>1
  <2>4. CASE RecordOk(t) \/ RecordUnsure(t)
    <3>1. \/ UNCHANGED <<ledger, why>>
          \/ ledger[op[t]] \in Undecided /\ \E s \in {"SUCCEEDED", "UNKNOWN"} : Record(op[t], s, why[op[t]])
      BY <2>4 DEF RecordOk, RecordUnsure, Undecided
    <3> QED BY <3>1, <2>1, <1>1
  <2> QED BY <1>7, <2>2, <2>3, <2>4
<1>8. ASSUME NEW t \in Turns, NEW x \in Ops, ReconcileFound(t, x) \/ ReconcileAbsent(t, x) \/ ClosureFound(t, x) PROVE Moved(o)
  BY <1>8 DEF ReconcileFound, ReconcileAbsent, ClosureFound, MayReconcile, Moved, Undecided, IInv, TypeOK
<1>9. ASSUME NEW t \in Turns, ListMutations(t) \/ RecoverExpired(t) \/ FenceDuplicate(t) \/ InterruptForHandoff(t) PROVE Moved(o)
  BY <1>9, <1>1, <1>2 DEF ListMutations, RecoverExpired, FenceDuplicate, InterruptForHandoff
<1>10. ASSUME NEW t \in Turns, BeginRecovery(t) \/ ReconcileExhausted(t) PROVE Moved(o)
  BY <1>10 DEF BeginRecovery, ReconcileExhausted, Moved, Undecided
<1>11. ASSUME CloseIssue \/ CompleteClosure PROVE Moved(o)
  BY <1>11, <1>1, <1>2 DEF CloseIssue, CompleteClosure, rows
<1>12. CASE UNCHANGED vars
  BY <1>12, <1>1 DEF vars, rows
<1> QED
  BY <1>3, <1>4, <1>5, <1>6, <1>7, <1>8, <1>9, <1>10, <1>11, <1>12 DEF Next, WorkerStep, RecoveryStep, CallStep, ClosureStep

\* Only Land performs a mutation.
Performed(o) == effect[o] \in {"landed", "twice"}
LEMMA EffectStep ==
    ASSUME IInv, [Next]_vars, \A o \in Ops : ~Land(o), NEW o \in Ops
    PROVE  Performed(o)' <=> Performed(o)
<1>1. ASSUME UNCHANGED effect PROVE Performed(o)' <=> Performed(o)
  BY <1>1 DEF Performed
<1>2. ASSUME NEW t \in Turns, Send(t) PROVE Performed(o)' <=> Performed(o)
  <2>1. effect[op[t]] = "none" /\ effect' = [effect EXCEPT ![op[t]] = "sent"]
    BY <1>2 DEF Send, IInv, CallInv, CallOk
  <2> QED BY <2>1 DEF Performed, IInv, TypeOK
<1>3. ASSUME NEW t \in Turns,
                Launch(t) \/ LaunchFails(t) \/ PromptEnds(t) \/ CloseGrant(t) \/ Drain(t) \/ CleanStop(t)
                 \/ CleanCapture(t) \/ CleanRemove(t) \/ Leave(t) \/ Abandon(t) \/ StaleStop(t) \/ StaleCapture(t)
                 \/ StaleRemove(t) \/ ClosureKill(t) \/ ClosureStopped(t) \/ Crash(t) \/ Prepare(t) \/ Claim(t)
                 \/ OpenAdmission(t) \/ CloseAdmission(t) \/ Settle(t) \/ Expire(t) \/ AcknowledgeStopped(t)
                 \/ CompleteReconciliation(t) \/ ReconcileFails(t) \/ ListMutations(t) \/ RecoverExpired(t)
                 \/ FenceDuplicate(t) \/ InterruptForHandoff(t) \/ BeginRecovery(t) \/ ReconcileExhausted(t) PROVE Performed(o)' <=> Performed(o)
  BY <1>3, <1>1 DEF Launch, LaunchFails, PromptEnds, CloseGrant, Drain, CleanStop, CleanCapture, CleanRemove, Leave
                   , Abandon, StaleStop, StaleCapture, StaleRemove, ClosureKill, ClosureStopped, Crash, Prepare, Claim
                   , OpenAdmission, CloseAdmission, Settle, Expire, AcknowledgeStopped, CompleteReconciliation
                   , ReconcileFails, ListMutations, RecoverExpired, FenceDuplicate, InterruptForHandoff, BeginRecovery
                   , ReconcileExhausted, world
<1>4. ASSUME NEW t \in Turns,
                Reserve(t) \/ Replay(t) \/ ReserveRefused(t) \/ ReserveReuse(t) \/ Start(t) \/ StartFails(t)
                 \/ AbandonCall(t) \/ Freeze(t) \/ FreezeFails(t) \/ CancelBeforeSend(t) \/ Answer(t) \/ RecordOk(t)
                 \/ RecordErr(t) \/ RecordUnsure(t) PROVE Performed(o)' <=> Performed(o)
  BY <1>4, <1>1 DEF Reserve, Replay, ReserveRefused, ReserveReuse, Start, StartFails, AbandonCall, Freeze, FreezeFails
                   , CancelBeforeSend, Answer, RecordOk, RecordErr, RecordUnsure, world
<1>5. ASSUME NEW t \in Turns, NEW x \in Ops, ReconcileFound(t, x) \/ ReconcileAbsent(t, x) \/ ClosureFound(t, x) \/ Admit(t, x) PROVE Performed(o)' <=> Performed(o)
  BY <1>5, <1>1 DEF ReconcileFound, ReconcileAbsent, ClosureFound, Admit, world
<1>6. ASSUME CloseIssue \/ CompleteClosure PROVE Performed(o)' <=> Performed(o)
  BY <1>6, <1>1 DEF CloseIssue, CompleteClosure, world
<1>7. CASE UNCHANGED vars
  BY <1>7, <1>1 DEF vars, world
<1> QED
  BY <1>2, <1>3, <1>4, <1>5, <1>6, <1>7 DEF Next, WorkerStep, RecoveryStep, CallStep, ClosureStep

\* The epoch of the promise counts a finite set.
LEMMA BegunFinite == ASSUME TypeOK PROVE IsFiniteSet(Begun)
<1>1. IsFiniteSet(Turns)
  BY FS_Interval, ConstantsAssumption DEF Turns, ConstantsAssumption
<1> QED BY <1>1, FS_Subset DEF Begun

\* A step that begins no turn, asks for nothing and performs nothing decides some mutations, truly, or stutters.
LEMMA DecideStep ==
    ASSUME IInv, IInv', Begun' = Begun, \A o \in Ops : Moved(o), \A o \in Ops : Performed(o)' <=> Performed(o)
    PROVE  Promise!Next
<1>1. ASSUME NEW o \in Ops
      PROVE  /\ \/ verdictOf(o)' = verdictOf(o)
                \/ /\ verdictOf(o) = "undecided" /\ verdictOf(o)' \in {"applied", "refused", "unknowable"}
                   /\ verdictOf(o)' = "applied" => Performed(o)
                   /\ verdictOf(o)' = "refused" => ~Performed(o)
             /\ verdictOf(o)' \in {"applied", "refused", "unknowable", "unasked", "undecided"}
  <2>1. RowOk(o)' /\ Moved(o) /\ (Performed(o)' <=> Performed(o))
    BY DEF IInv, RowInv
  <2>2. ledger[o] \in States /\ ledger'[o] \in States
    BY DEF IInv, TypeOK, States
  <2> QED BY <2>1, <2>2 DEF verdictOf, RowOk, Moved, Performed, States, Undecided
<1>2. [o \in Ops |-> IF effect[o] \in {"landed", "twice"} THEN "applied" ELSE "clean"]'
      = [o \in Ops |-> IF effect[o] \in {"landed", "twice"} THEN "applied" ELSE "clean"]
  BY DEF Performed
<1>3. Cardinality({t \in Turns : status[t] # "ABSENT"})' = Cardinality({t \in Turns : status[t] # "ABSENT"})
  BY DEF Begun
<1> QED BY <1>1, <1>2, <1>3 DEF Promise!Next, Promise!Decide, Promise!Verdicts, Performed

\* Every execution of the ledger, with its crashes and recoveries, is one that the promise of MutationPromise allows.
THEOREM Implements == Spec => KeepsPromise
<1>1. Init => Promise!Init
  <2> SUFFICES ASSUME Init PROVE Promise!Init
    OBVIOUS
  <2>1. {t \in Turns : status[t] # "ABSENT"} = {}
    BY DEF Init
  <2>2. [o \in Ops |-> verdictOf(o)] = [o \in Ops |-> "unasked"]
    BY DEF Init, verdictOf, Undecided
  <2>3. [o \in Ops |-> IF effect[o] \in {"landed", "twice"} THEN "applied" ELSE "clean"] = [o \in Ops |-> "clean"]
    BY DEF Init
  <2> QED BY <2>1, <2>2, <2>3, FS_EmptySet DEF Promise!Init
<1>2. ASSUME IInv, IInv', [Next]_vars PROVE [Promise!Next]_(Promise!promise)
  <2>1. CASE \E t \in Turns : Prepare(t)
    <3>1. PICK t \in Turns : Prepare(t)
      BY <2>1
    <3>2. Begun' = Begun \cup {t} /\ t \notin Begun
      BY <1>2, <3>1 DEF Prepare, Begun, IInv, TypeOK
    <3>3. Cardinality(Begun') = Cardinality(Begun) + 1
      BY <1>2, <3>2, BegunFinite, FS_AddElement DEF IInv
    <3>4. ASSUME NEW o \in Ops PROVE verdictOf(o) # "undecided"
      <4>1. ledger[o] # "NONE" => owner[o] \in Turns
        BY <1>2, ConstantsAssumption DEF IInv, RowInv, RowOk, TypeOK, Turns, ConstantsAssumption
      <4>2. ledger[o] \notin Undecided
        BY <3>1, <4>1 DEF Prepare, PriorSettled, Unsettled, RowsOf, Undecided
      <4> QED BY <1>2, <4>2 DEF verdictOf, IInv, TypeOK, Undecided
    <3>5. UNCHANGED <<ledger, why, effect>>
      BY <3>1 DEF Prepare, rows, world
    <3>6. UNCHANGED <<[o \in Ops |-> verdictOf(o)],
                      [o \in Ops |-> IF effect[o] \in {"landed", "twice"} THEN "applied" ELSE "clean"]>>
      BY <3>5 DEF verdictOf
    <3> QED BY <3>3, <3>4, <3>6 DEF Promise!Next, Promise!Begin, Begun
  <2>2. CASE \E t \in Turns : Reserve(t)
    <3>1. PICK t \in Turns : Reserve(t)
      BY <2>2
    <3>2. PICK o \in Ops : o = op[t]
      BY <1>2, <3>1 DEF Reserve, IInv, CallInv, CallOk
    <3>3. Begun' = Begun /\ t \in Begun /\ UNCHANGED effect
      BY <3>1 DEF Reserve, Begun, Admissible, turnRow, world
    <3>4. Cardinality(Begun) > 0
      BY <1>2, <3>3, BegunFinite, FS_EmptySet, FS_CardinalityType DEF IInv
    <3>5. /\ verdictOf(o) = "unasked" /\ verdictOf(o)' = "undecided"
          /\ \A x \in Ops \ {o} : verdictOf(x)' = verdictOf(x)
      BY <1>2, <3>1, <3>2 DEF Reserve, Fresh, verdictOf, Undecided, IInv, TypeOK
    <3>6. [x \in Ops |-> verdictOf(x)]' = [[x \in Ops |-> verdictOf(x)] EXCEPT ![o] = "undecided"]
      BY <3>5
    <3> QED BY <3>2, <3>3, <3>4, <3>5, <3>6 DEF Promise!Next, Promise!Ask, Begun
  <2>3. CASE \E o \in Ops : Land(o)
    <3>1. PICK o \in Ops : Land(o)
      BY <2>3
    <3>2. UNCHANGED <<ledger, why, status>>
      BY <3>1 DEF Land, rows, turnRow
    <3>3. UNCHANGED <<[x \in Ops |-> verdictOf(x)], Cardinality({t \in Turns : status[t] # "ABSENT"})>>
      BY <3>2 DEF verdictOf
    <3>4. verdictOf(o) \in {"undecided", "unknowable"} /\ effect[o] = "sent"
      <4>1. RowOk(o) /\ ledger[o] \in States /\ effect[o] = "sent"
        BY <1>2, <3>1 DEF Land, IInv, RowInv, TypeOK, States
      <4> QED BY <4>1 DEF RowOk, States, verdictOf, Undecided
    <3>5. CASE effect' = [effect EXCEPT ![o] = "landed"]
      <4>1. [x \in Ops |-> IF effect[x] \in {"landed", "twice"} THEN "applied" ELSE "clean"]'
            = [[x \in Ops |-> IF effect[x] \in {"landed", "twice"} THEN "applied" ELSE "clean"]
                EXCEPT ![o] = "applied"]
        BY <1>2, <3>5 DEF IInv, TypeOK
      <4> QED BY <3>3, <3>4, <4>1 DEF Promise!Next, Promise!Perform
    <3>6. CASE effect' = [effect EXCEPT ![o] = "refused"]
      <4>1. UNCHANGED [x \in Ops |-> IF effect[x] \in {"landed", "twice"} THEN "applied" ELSE "clean"]
        BY <1>2, <3>4, <3>6 DEF IInv, TypeOK
      <4> QED BY <3>3, <4>1 DEF Promise!promise
    <3> QED BY <3>1, <3>5, <3>6 DEF Land
  <2>4. CASE /\ \A t \in Turns : ~Prepare(t) /\ ~Reserve(t)
             /\ \A o \in Ops : ~Land(o)
    BY <1>2, <2>4, BegunStep, LedgerStep, EffectStep, DecideStep
  <2> QED BY <2>1, <2>2, <2>3, <2>4
<1> QED BY <1>1, <1>2, Invariance, PTL DEF Spec, KeepsPromise, Promise!Spec

-----------------------------------------------------------------------------
\* The handover between turns.  The guards of PrepareAgentTurn look at rows only; that the runtime is gone too, that no
\* process still has a fence, and that a drained worker waits for nothing, follow from what each end of a turn leaves.

\* What a turn has, by where its worker is.
LifeOk(t) ==
    /\ status[t] \in {"ABSENT", "QUEUED"} => worker[t] = "none" /\ lease[t] = "none"
    /\ worker[t] \in {"none", "launching"} =>
           runtime[t] = "none" /\ ~captured[t] /\ grant[t] = "none" /\ pc[t] = "idle"
    /\ worker[t] \in {"listing", "cleaning"} => Drained(t)
    /\ runtime[t] = "removed" => captured[t] \/ barrier = t
    /\ captured[t] => runtime[t] \in {"stopped", "removed"}
LifeInv == \A t \in Turns : LifeOk(t)

\* What the end of a turn and of a recovery leave.
EndOk(t) ==
    /\ stopJob[t] = "done" => Cleaned(t) /\ recovery[t] # "none"
    /\ recovery[t] = "settled" => stopJob[t] = "done"
    /\ status[t] \in {"SUCCEEDED", "FAILED", "INTERRUPTED"} => lease[t] = "none" /\ (recovery[t] = "none" => Cleaned(t))
EndInv == \A t \in Turns : EndOk(t)

\* What a closure has acknowledged.
ClosureOk ==
    /\ issue = "open" => barrier = 0 /\ ~stopped
    /\ \A t \in Turns : stopped /\ barrier = t => Cleaned(t)

\* A row that may still move belongs to the call its gateway is executing.
OpenRowOk(o) ==
    \A t \in Turns : owner[o] = t /\ ledger[o] \in {"RESERVED", "IN_FLIGHT"} /\ worker[t] # "gone" /\ ~dirty[t] =>
        op[t] = o /\ pc[t] \notin {"idle", "admitted"}
OpenRowInv == \A o \in Ops : OpenRowOk(o)

\* The turns before a turn that exists.
Settled(u) == status[u] \notin {"ABSENT", "QUEUED"} /\ ~Unsettled(u) /\ Cleaned(u) /\ lease[u] = "none"
Ended(u) == status[u] \notin {"ABSENT", "QUEUED"} /\ Cleaned(u) /\ lease[u] = "none"
OrderInv == \A t \in Turns : status[t] # "ABSENT" => \A u \in 1..(t - 1) : Settled(u)

HInv == LifeInv /\ EndInv /\ ClosureOk /\ OpenRowInv /\ OrderInv

\* Where the worker of a turn is, what it has created and what its runtime has become stay in step.
LEMMA LifeStep == ASSUME IInv, HInv, [Next]_vars PROVE LifeInv'
<1> USE DEF IInv, HInv, TypeOK, TurnInv, TurnOk, LifeInv, LifeOk, ClosureOk
<1>1. ASSUME NEW t \in Turns, 
             Prepare(t) \/ Claim(t) \/ Launch(t) \/ LaunchFails(t) \/ OpenAdmission(t)
             \/ PromptEnds(t) \/ CloseAdmission(t) \/ CloseGrant(t)
      PROVE  LifeInv'
  BY <1>1 DEF Prepare, Claim, Launch, LaunchFails, OpenAdmission, PromptEnds, CloseAdmission, CloseGrant, Step,
          Call, Finish, RaiseBarrier, SettleRecovery, Recovering, Drained, Cleaned, Closing, Active,
          Fenced, turnRow, jobs, process, box, rows, gateway, closure, world
<1>2. ASSUME NEW t \in Turns, 
             Drain(t) \/ CleanStop(t) \/ CleanCapture(t) \/ CleanRemove(t) \/ Settle(t)
             \/ Leave(t) \/ Abandon(t) \/ Crash(t) \/ Expire(t)
      PROVE  LifeInv'
  BY <1>2 DEF Drain, CleanStop, CleanCapture, CleanRemove, Settle, Leave, Abandon, Crash, Expire, Step, Call,
          Finish, RaiseBarrier, SettleRecovery, Recovering, Drained, Cleaned, Closing, Active, Fenced,
          turnRow, jobs, process, box, rows, gateway, closure, world
<1>3. ASSUME NEW t \in Turns, ListMutations(t)
      PROVE  LifeInv'
  BY <1>3 DEF ListMutations, Step, Call, Finish, RaiseBarrier, SettleRecovery, Recovering, Drained, Cleaned,
          Closing, Active, Fenced, turnRow, jobs, process, box, rows, gateway, closure, world
<1>4. ASSUME NEW t \in Turns, 
             BeginRecovery(t) \/ RecoverExpired(t) \/ FenceDuplicate(t) \/ InterruptForHandoff(t)
      PROVE  LifeInv'
  BY <1>4 DEF BeginRecovery, RecoverExpired, FenceDuplicate, InterruptForHandoff, Step, Call, Finish,
          RaiseBarrier, SettleRecovery, Recovering, Drained, Cleaned, Closing, Active, Fenced, turnRow,
          jobs, process, box, rows, gateway, closure, world
<1>5. ASSUME NEW t \in Turns, 
             StaleStop(t) \/ StaleCapture(t) \/ StaleRemove(t) \/ AcknowledgeStopped(t)
             \/ ReconcileFails(t) \/ ReconcileExhausted(t) \/ CompleteReconciliation(t)
      PROVE  LifeInv'
  BY <1>5 DEF StaleStop, StaleCapture, StaleRemove, AcknowledgeStopped, ReconcileFails, ReconcileExhausted,
          CompleteReconciliation, Step, Call, Finish, RaiseBarrier, SettleRecovery, Recovering, Drained,
          Cleaned, Closing, Active, Fenced, turnRow, jobs, process, box, rows, gateway, closure, world
<1>6. ASSUME NEW t \in Turns, 
             Replay(t) \/ ReserveRefused(t) \/ Reserve(t) \/ ReserveReuse(t) \/ Start(t)
             \/ StartFails(t) \/ AbandonCall(t) \/ Freeze(t)
      PROVE  LifeInv'
  BY <1>6 DEF Replay, ReserveRefused, Reserve, ReserveReuse, Start, StartFails, AbandonCall, Freeze, Step, Call,
          Finish, RaiseBarrier, SettleRecovery, Recovering, Drained, Cleaned, Closing, Active, Fenced,
          turnRow, jobs, process, box, rows, gateway, closure, world
<1>7. ASSUME NEW t \in Turns, 
             FreezeFails(t) \/ CancelBeforeSend(t) \/ Send(t) \/ Answer(t) \/ RecordOk(t)
             \/ RecordErr(t) \/ RecordUnsure(t)
      PROVE  LifeInv'
  BY <1>7 DEF FreezeFails, CancelBeforeSend, Send, Answer, RecordOk, RecordErr, RecordUnsure, Step, Call, Finish,
          RaiseBarrier, SettleRecovery, Recovering, Drained, Cleaned, Closing, Active, Fenced, turnRow,
          jobs, process, box, rows, gateway, closure, world
<1>8. ASSUME NEW t \in Turns, NEW o \in Ops, 
             ReconcileFound(t, o) \/ ReconcileAbsent(t, o) \/ Admit(t, o) \/ ClosureFound(t, o)
      PROVE  LifeInv'
  BY <1>8 DEF ReconcileFound, ReconcileAbsent, Admit, ClosureFound, Step, Call, Finish, RaiseBarrier,
          SettleRecovery, Recovering, Drained, Cleaned, Closing, Active, Fenced, turnRow, jobs, process,
          box, rows, gateway, closure, world
<1>9. ASSUME NEW o \in Ops, Land(o)
      PROVE  LifeInv'
  BY <1>9 DEF Land, Step, Call, Finish, RaiseBarrier, SettleRecovery, Recovering, Drained, Cleaned, Closing,
          Active, Fenced, turnRow, jobs, process, box, rows, gateway, closure, world
<1>10. ASSUME NEW t \in Turns, ClosureKill(t) \/ ClosureStopped(t)
       PROVE  LifeInv'
  BY <1>10 DEF ClosureKill, ClosureStopped, Step, Call, Finish, RaiseBarrier, SettleRecovery, Recovering, Drained,
          Cleaned, Closing, Active, Fenced, turnRow, jobs, process, box, rows, gateway, closure, world
<1>11. ASSUME CloseIssue
       PROVE  LifeInv'
  <2>1. /\ barrier = 0 /\ UNCHANGED <<worker, lease, runtime, captured, grant, pc>> /\ status \in [Turns -> Statuses]
        /\ \/ UNCHANGED status
           \/ \E t \in Turns : status' = [status EXCEPT ![t] = "CANCELLING"]
    BY <1>11 DEF CloseIssue, process, box, gateway, Statuses
  <2>2. \A t \in Turns : t # barrier
    BY <2>1 DEF Turns
  <2>3. \A t \in Turns : status'[t] \in {"ABSENT", "QUEUED"} => status[t] \in {"ABSENT", "QUEUED"}
    BY <2>1
  <2> QED BY <2>1, <2>2, <2>3 DEF Drained
<1>12. ASSUME CompleteClosure
       PROVE  LifeInv'
  BY <1>12 DEF CompleteClosure, Step, Call, Finish, RaiseBarrier, SettleRecovery, Recovering, Drained, Cleaned,
          Closing, Active, Fenced, turnRow, jobs, process, box, rows, gateway, closure, world
<1>13. CASE UNCHANGED vars
  BY <1>13 DEF vars, Step, Call, Finish, RaiseBarrier, SettleRecovery, Recovering, Drained, Cleaned, Closing, Active, Fenced,
          turnRow, jobs, process, box, rows, gateway, closure, world
<1> QED
  BY ONLY [Next]_vars, <1>1, <1>2, <1>3, <1>4, <1>5, <1>6, <1>7, <1>8, <1>9, <1>10, <1>11, <1>12, <1>13
  DEF Next, WorkerStep, RecoveryStep, CallStep, ClosureStep

\* A turn or a recovery that has ended has released its lease and removed its runtime.
LEMMA EndStep == ASSUME IInv, HInv, [Next]_vars PROVE EndInv'
<1> USE DEF IInv, HInv, TypeOK, TurnInv, TurnOk, LifeInv, LifeOk, EndInv, EndOk, ClosureOk
<1>1. ASSUME NEW t \in Turns, 
             Prepare(t) \/ Claim(t) \/ Launch(t) \/ LaunchFails(t) \/ OpenAdmission(t)
             \/ PromptEnds(t) \/ CloseAdmission(t) \/ CloseGrant(t)
      PROVE  EndInv'
  BY <1>1 DEF Prepare, Claim, Launch, LaunchFails, OpenAdmission, PromptEnds, CloseAdmission, CloseGrant, Step,
          Call, Finish, RaiseBarrier, SettleRecovery, Recovering, Drained, Cleaned, Closing, Active,
          Fenced, turnRow, jobs, process, box, rows, gateway, closure, world
<1>2. ASSUME NEW t \in Turns, 
             Drain(t) \/ CleanStop(t) \/ CleanCapture(t) \/ CleanRemove(t) \/ Settle(t)
             \/ Leave(t) \/ Abandon(t) \/ Crash(t) \/ Expire(t)
      PROVE  EndInv'
  BY <1>2 DEF Drain, CleanStop, CleanCapture, CleanRemove, Settle, Leave, Abandon, Crash, Expire, Step, Call,
          Finish, RaiseBarrier, SettleRecovery, Recovering, Drained, Cleaned, Closing, Active, Fenced,
          turnRow, jobs, process, box, rows, gateway, closure, world
<1>3. ASSUME NEW t \in Turns, ListMutations(t)
      PROVE  EndInv'
  BY <1>3 DEF ListMutations, Step, Call, Finish, RaiseBarrier, SettleRecovery, Recovering, Drained, Cleaned,
          Closing, Active, Fenced, turnRow, jobs, process, box, rows, gateway, closure, world
<1>4. ASSUME NEW t \in Turns, 
             BeginRecovery(t) \/ RecoverExpired(t) \/ FenceDuplicate(t) \/ InterruptForHandoff(t)
      PROVE  EndInv'
  BY <1>4 DEF BeginRecovery, RecoverExpired, FenceDuplicate, InterruptForHandoff, Step, Call, Finish,
          RaiseBarrier, SettleRecovery, Recovering, Drained, Cleaned, Closing, Active, Fenced, turnRow,
          jobs, process, box, rows, gateway, closure, world
<1>5. ASSUME NEW t \in Turns, 
             StaleStop(t) \/ StaleCapture(t) \/ StaleRemove(t) \/ AcknowledgeStopped(t)
             \/ ReconcileFails(t) \/ ReconcileExhausted(t) \/ CompleteReconciliation(t)
      PROVE  EndInv'
  BY <1>5 DEF StaleStop, StaleCapture, StaleRemove, AcknowledgeStopped, ReconcileFails, ReconcileExhausted,
          CompleteReconciliation, Step, Call, Finish, RaiseBarrier, SettleRecovery, Recovering, Drained,
          Cleaned, Closing, Active, Fenced, turnRow, jobs, process, box, rows, gateway, closure, world
<1>6. ASSUME NEW t \in Turns, 
             Replay(t) \/ ReserveRefused(t) \/ Reserve(t) \/ ReserveReuse(t) \/ Start(t)
             \/ StartFails(t) \/ AbandonCall(t) \/ Freeze(t)
      PROVE  EndInv'
  BY <1>6 DEF Replay, ReserveRefused, Reserve, ReserveReuse, Start, StartFails, AbandonCall, Freeze, Step, Call,
          Finish, RaiseBarrier, SettleRecovery, Recovering, Drained, Cleaned, Closing, Active, Fenced,
          turnRow, jobs, process, box, rows, gateway, closure, world
<1>7. ASSUME NEW t \in Turns, 
             FreezeFails(t) \/ CancelBeforeSend(t) \/ Send(t) \/ Answer(t) \/ RecordOk(t)
             \/ RecordErr(t) \/ RecordUnsure(t)
      PROVE  EndInv'
  BY <1>7 DEF FreezeFails, CancelBeforeSend, Send, Answer, RecordOk, RecordErr, RecordUnsure, Step, Call, Finish,
          RaiseBarrier, SettleRecovery, Recovering, Drained, Cleaned, Closing, Active, Fenced, turnRow,
          jobs, process, box, rows, gateway, closure, world
<1>8. ASSUME NEW t \in Turns, NEW o \in Ops, 
             ReconcileFound(t, o) \/ ReconcileAbsent(t, o) \/ Admit(t, o) \/ ClosureFound(t, o)
      PROVE  EndInv'
  BY <1>8 DEF ReconcileFound, ReconcileAbsent, Admit, ClosureFound, Step, Call, Finish, RaiseBarrier,
          SettleRecovery, Recovering, Drained, Cleaned, Closing, Active, Fenced, turnRow, jobs, process,
          box, rows, gateway, closure, world
<1>9. ASSUME NEW o \in Ops, Land(o)
      PROVE  EndInv'
  BY <1>9 DEF Land, Step, Call, Finish, RaiseBarrier, SettleRecovery, Recovering, Drained, Cleaned, Closing,
          Active, Fenced, turnRow, jobs, process, box, rows, gateway, closure, world
<1>10. ASSUME NEW t \in Turns, ClosureKill(t) \/ ClosureStopped(t)
       PROVE  EndInv'
  BY <1>10 DEF ClosureKill, ClosureStopped, Step, Call, Finish, RaiseBarrier, SettleRecovery, Recovering, Drained,
          Cleaned, Closing, Active, Fenced, turnRow, jobs, process, box, rows, gateway, closure, world
<1>11. ASSUME CloseIssue \/ CompleteClosure
       PROVE  EndInv'
  BY <1>11 DEF CloseIssue, CompleteClosure, Step, Call, Finish, RaiseBarrier, SettleRecovery, Recovering, Drained,
          Cleaned, Closing, Active, Fenced, turnRow, jobs, process, box, rows, gateway, closure, world
<1>12. CASE UNCHANGED vars
  BY <1>12 DEF vars, Step, Call, Finish, RaiseBarrier, SettleRecovery, Recovering, Drained, Cleaned, Closing, Active, Fenced,
          turnRow, jobs, process, box, rows, gateway, closure, world
<1> QED
  BY ONLY [Next]_vars, <1>1, <1>2, <1>3, <1>4, <1>5, <1>6, <1>7, <1>8, <1>9, <1>10, <1>11, <1>12
  DEF Next, WorkerStep, RecoveryStep, CallStep, ClosureStep

\* The closure acknowledges the stop of a turn only when its runtime is gone, and nothing starts it again.
LEMMA ClosureOkStep == ASSUME IInv, HInv, [Next]_vars PROVE ClosureOk'
<1> USE DEF IInv, HInv, TypeOK, TurnInv, TurnOk, LifeInv, LifeOk
<1>1. ASSUME NEW t \in Turns, 
             Prepare(t) \/ Claim(t) \/ Launch(t) \/ LaunchFails(t) \/ OpenAdmission(t)
             \/ PromptEnds(t) \/ CloseAdmission(t) \/ CloseGrant(t)
      PROVE  ClosureOk'
  BY <1>1 DEF Prepare, Claim, Launch, LaunchFails, OpenAdmission, PromptEnds, CloseAdmission, CloseGrant, Step,
          Call, Finish, RaiseBarrier, SettleRecovery, Recovering, Drained, Cleaned, Closing, Active,
          Fenced, turnRow, jobs, process, box, rows, gateway, closure, world, ClosureOk
<1>2. ASSUME NEW t \in Turns, 
             Drain(t) \/ CleanStop(t) \/ CleanCapture(t) \/ CleanRemove(t) \/ Settle(t)
             \/ Leave(t) \/ Abandon(t) \/ Crash(t) \/ Expire(t)
      PROVE  ClosureOk'
  BY <1>2 DEF Drain, CleanStop, CleanCapture, CleanRemove, Settle, Leave, Abandon, Crash, Expire, Step, Call,
          Finish, RaiseBarrier, SettleRecovery, Recovering, Drained, Cleaned, Closing, Active, Fenced,
          turnRow, jobs, process, box, rows, gateway, closure, world, ClosureOk
<1>3. ASSUME NEW t \in Turns, ListMutations(t)
      PROVE  ClosureOk'
  BY <1>3 DEF ListMutations, Step, Call, Finish, RaiseBarrier, SettleRecovery, Recovering, Drained, Cleaned,
          Closing, Active, Fenced, turnRow, jobs, process, box, rows, gateway, closure, world, ClosureOk
<1>4. ASSUME NEW t \in Turns, 
             BeginRecovery(t) \/ RecoverExpired(t) \/ FenceDuplicate(t) \/ InterruptForHandoff(t)
      PROVE  ClosureOk'
  BY <1>4 DEF BeginRecovery, RecoverExpired, FenceDuplicate, InterruptForHandoff, Step, Call, Finish,
          RaiseBarrier, SettleRecovery, Recovering, Drained, Cleaned, Closing, Active, Fenced, turnRow,
          jobs, process, box, rows, gateway, closure, world, ClosureOk
<1>5. ASSUME NEW t \in Turns, 
             StaleStop(t) \/ StaleCapture(t) \/ StaleRemove(t) \/ AcknowledgeStopped(t)
             \/ ReconcileFails(t) \/ ReconcileExhausted(t) \/ CompleteReconciliation(t)
      PROVE  ClosureOk'
  BY <1>5 DEF StaleStop, StaleCapture, StaleRemove, AcknowledgeStopped, ReconcileFails, ReconcileExhausted,
          CompleteReconciliation, Step, Call, Finish, RaiseBarrier, SettleRecovery, Recovering, Drained,
          Cleaned, Closing, Active, Fenced, turnRow, jobs, process, box, rows, gateway, closure, world,
          ClosureOk
<1>6. ASSUME NEW t \in Turns, 
             Replay(t) \/ ReserveRefused(t) \/ Reserve(t) \/ ReserveReuse(t) \/ Start(t)
             \/ StartFails(t) \/ AbandonCall(t) \/ Freeze(t)
      PROVE  ClosureOk'
  BY <1>6 DEF Replay, ReserveRefused, Reserve, ReserveReuse, Start, StartFails, AbandonCall, Freeze, Step, Call,
          Finish, RaiseBarrier, SettleRecovery, Recovering, Drained, Cleaned, Closing, Active, Fenced,
          turnRow, jobs, process, box, rows, gateway, closure, world, ClosureOk
<1>7. ASSUME NEW t \in Turns, 
             FreezeFails(t) \/ CancelBeforeSend(t) \/ Send(t) \/ Answer(t) \/ RecordOk(t)
             \/ RecordErr(t) \/ RecordUnsure(t)
      PROVE  ClosureOk'
  BY <1>7 DEF FreezeFails, CancelBeforeSend, Send, Answer, RecordOk, RecordErr, RecordUnsure, Step, Call, Finish,
          RaiseBarrier, SettleRecovery, Recovering, Drained, Cleaned, Closing, Active, Fenced, turnRow,
          jobs, process, box, rows, gateway, closure, world, ClosureOk
<1>8. ASSUME NEW t \in Turns, NEW o \in Ops, 
             ReconcileFound(t, o) \/ ReconcileAbsent(t, o) \/ Admit(t, o) \/ ClosureFound(t, o)
      PROVE  ClosureOk'
  BY <1>8 DEF ReconcileFound, ReconcileAbsent, Admit, ClosureFound, Step, Call, Finish, RaiseBarrier,
          SettleRecovery, Recovering, Drained, Cleaned, Closing, Active, Fenced, turnRow, jobs, process,
          box, rows, gateway, closure, world, ClosureOk
<1>9. ASSUME NEW o \in Ops, Land(o)
      PROVE  ClosureOk'
  BY <1>9 DEF Land, Step, Call, Finish, RaiseBarrier, SettleRecovery, Recovering, Drained, Cleaned, Closing,
          Active, Fenced, turnRow, jobs, process, box, rows, gateway, closure, world, ClosureOk
<1>10. ASSUME NEW t \in Turns, ClosureKill(t) \/ ClosureStopped(t)
       PROVE  ClosureOk'
  BY <1>10 DEF ClosureKill, ClosureStopped, Step, Call, Finish, RaiseBarrier, SettleRecovery, Recovering, Drained,
          Cleaned, Closing, Active, Fenced, turnRow, jobs, process, box, rows, gateway, closure, world,
          ClosureOk
<1>11. ASSUME CloseIssue \/ CompleteClosure
       PROVE  ClosureOk'
  BY <1>11 DEF CloseIssue, CompleteClosure, Step, Call, Finish, RaiseBarrier, SettleRecovery, Recovering, Drained,
          Cleaned, Closing, Active, Fenced, turnRow, jobs, process, box, rows, gateway, closure, world,
          ClosureOk
<1>12. CASE UNCHANGED vars
  BY <1>12 DEF vars, Step, Call, Finish, RaiseBarrier, SettleRecovery, Recovering, Drained, Cleaned, Closing, Active, Fenced,
          turnRow, jobs, process, box, rows, gateway, closure, world, ClosureOk
<1> QED
  BY ONLY [Next]_vars, <1>1, <1>2, <1>3, <1>4, <1>5, <1>6, <1>7, <1>8, <1>9, <1>10, <1>11, <1>12
  DEF Next, WorkerStep, RecoveryStep, CallStep, ClosureStep

\* An unfinished row of a turn whose gateway has reported every call resolved is the row of its current call.
LEMMA OpenRowStep == ASSUME IInv, HInv, [Next]_vars PROVE OpenRowInv'
<1> USE DEF IInv, HInv, TypeOK, CallInv, CallOk, Started, LifeInv, LifeOk, OpenRowInv, OpenRowOk, Orphan, Record
<1>1. ASSUME NEW t \in Turns, 
             Prepare(t) \/ Claim(t) \/ Launch(t) \/ LaunchFails(t) \/ OpenAdmission(t)
             \/ PromptEnds(t) \/ CloseAdmission(t) \/ CloseGrant(t)
      PROVE  OpenRowInv'
  BY <1>1 DEF Prepare, Claim, Launch, LaunchFails, OpenAdmission, PromptEnds, CloseAdmission, CloseGrant, Step,
          Call, Finish, RaiseBarrier, SettleRecovery, Recovering, Drained, Cleaned, Closing, Active,
          Fenced, turnRow, jobs, process, box, rows, gateway, closure, world
<1>2. ASSUME NEW t \in Turns, 
             Drain(t) \/ CleanStop(t) \/ CleanCapture(t) \/ CleanRemove(t) \/ Settle(t)
             \/ Leave(t) \/ Abandon(t) \/ Crash(t) \/ Expire(t)
      PROVE  OpenRowInv'
  BY <1>2 DEF Drain, CleanStop, CleanCapture, CleanRemove, Settle, Leave, Abandon, Crash, Expire, Step, Call,
          Finish, RaiseBarrier, SettleRecovery, Recovering, Drained, Cleaned, Closing, Active, Fenced,
          turnRow, jobs, process, box, rows, gateway, closure, world
<1>3. ASSUME NEW t \in Turns, ListMutations(t)
      PROVE  OpenRowInv'
  BY <1>3 DEF ListMutations, Step, Call, Finish, RaiseBarrier, SettleRecovery, Recovering, Drained, Cleaned,
          Closing, Active, Fenced, turnRow, jobs, process, box, rows, gateway, closure, world
<1>4. ASSUME NEW t \in Turns, 
             BeginRecovery(t) \/ RecoverExpired(t) \/ FenceDuplicate(t) \/ InterruptForHandoff(t)
      PROVE  OpenRowInv'
  BY <1>4 DEF BeginRecovery, RecoverExpired, FenceDuplicate, InterruptForHandoff, Step, Call, Finish,
          RaiseBarrier, SettleRecovery, Recovering, Drained, Cleaned, Closing, Active, Fenced, turnRow,
          jobs, process, box, rows, gateway, closure, world
<1>5. ASSUME NEW t \in Turns, 
             StaleStop(t) \/ StaleCapture(t) \/ StaleRemove(t) \/ AcknowledgeStopped(t)
             \/ ReconcileFails(t) \/ CompleteReconciliation(t) \/ ClosureKill(t)
             \/ ClosureStopped(t)
      PROVE  OpenRowInv'
  BY <1>5 DEF StaleStop, StaleCapture, StaleRemove, AcknowledgeStopped, ReconcileFails, CompleteReconciliation,
          ClosureKill, ClosureStopped, Step, Call, Finish, RaiseBarrier, SettleRecovery, Recovering,
          Drained, Cleaned, Closing, Active, Fenced, turnRow, jobs, process, box, rows, gateway, closure,
          world
<1>6. ASSUME NEW t \in Turns, ReconcileExhausted(t)
      PROVE  OpenRowInv'
  BY <1>6 DEF ReconcileExhausted, Step, Call, Finish, RaiseBarrier, SettleRecovery, Recovering, Drained, Cleaned,
          Closing, Active, Fenced, turnRow, jobs, process, box, rows, gateway, closure, world
<1>7. ASSUME NEW t \in Turns, 
             Replay(t) \/ ReserveRefused(t) \/ ReserveReuse(t) \/ StartFails(t)
      PROVE  OpenRowInv'
  BY <1>7 DEF Replay, ReserveRefused, ReserveReuse, StartFails, Step, Call, Finish, RaiseBarrier, SettleRecovery,
          Recovering, Drained, Cleaned, Closing, Active, Fenced, turnRow, jobs, process, box, rows,
          gateway, closure, world
<1>8. ASSUME NEW t \in Turns, Reserve(t)
      PROVE  OpenRowInv'
  <2>1. /\ op[t] \in Ops /\ pc[t] # "idle" /\ worker' = worker
        /\ dirty \in [Turns -> BOOLEAN] /\ pc \in [Turns -> PCs] /\ op \in [Turns -> Ops \cup {NoOp}]
        /\ owner \in [Ops -> 0..MaxTurn] /\ ledger \in [Ops -> States]
    BY <1>8 DEF Reserve, process, PCs, States
  <2>2. /\ \A u \in Turns : dirty[u] => dirty'[u]
        /\ \A u \in Turns \ {t} : pc'[u] = pc[u] /\ op'[u] = op[u]
    BY <1>8, <2>1 DEF Reserve, Call, Finish, process
  <2>3. ASSUME NEW x \in Ops, x # op[t] PROVE owner'[x] = owner[x] /\ ledger'[x] = ledger[x]
    <3> HIDE DEF IInv, HInv
    <3> QED BY <1>8, <2>1, <2>3 DEF Reserve, rows
  <2>4. owner'[op[t]] = t
    BY <1>8, <2>1 DEF Reserve, rows
  <2>5. (pc'[t] = "reserved" /\ op'[t] = op[t]) \/ dirty'[t]
    <3> HIDE DEF IInv, HInv
    <3> QED BY <1>8, <2>1 DEF Reserve, Call, Finish
  <2> QED BY <2>1, <2>2, <2>3, <2>4, <2>5
<1>9. ASSUME NEW t \in Turns, Start(t)
      PROVE  OpenRowInv'
  BY <1>9 DEF Start, Step, Call, Finish, RaiseBarrier, SettleRecovery, Recovering, Drained, Cleaned, Closing,
          Active, Fenced, turnRow, jobs, process, box, rows, gateway, closure, world
<1>10. ASSUME NEW t \in Turns, 
              Freeze(t) \/ FreezeFails(t) \/ CancelBeforeSend(t) \/ Send(t) \/ Answer(t)
       PROVE  OpenRowInv'
  BY <1>10 DEF Freeze, FreezeFails, CancelBeforeSend, Send, Answer, Step, Call, Finish, RaiseBarrier,
          SettleRecovery, Recovering, Drained, Cleaned, Closing, Active, Fenced, turnRow, jobs, process,
          box, rows, gateway, closure, world
<1>11. ASSUME NEW t \in Turns, AbandonCall(t)
       PROVE  OpenRowInv'
  <2>1. /\ op[t] \in Ops /\ pc[t] # "idle" /\ worker' = worker
        /\ dirty \in [Turns -> BOOLEAN] /\ pc \in [Turns -> PCs] /\ op \in [Turns -> Ops \cup {NoOp}]
        /\ owner \in [Ops -> 0..MaxTurn] /\ ledger \in [Ops -> States]
    BY <1>11 DEF AbandonCall, process, PCs, States
  <2>2. /\ \A u \in Turns : dirty[u] => dirty'[u]
        /\ \A u \in Turns \ {t} : pc'[u] = pc[u] /\ op'[u] = op[u]
    BY <1>11, <2>1 DEF AbandonCall, Call, Finish, process
  <2>3. ASSUME NEW x \in Ops, x # op[t] PROVE owner'[x] = owner[x] /\ ledger'[x] = ledger[x]
    <3> HIDE DEF IInv, HInv
    <3> QED BY <1>11, <2>1, <2>3 DEF AbandonCall, rows
  <2>4. owner'[op[t]] = t
    BY <1>11, <2>1 DEF AbandonCall, rows
  <2>5. ledger'[op[t]] \notin {"RESERVED", "IN_FLIGHT"} \/ dirty'[t]
    <3> HIDE DEF IInv, HInv
    <3> QED BY <1>11, <2>1 DEF AbandonCall, Call, Finish
  <2> QED BY <2>1, <2>2, <2>3, <2>4, <2>5
<1>12. ASSUME NEW t \in Turns, RecordOk(t)
       PROVE  OpenRowInv'
  BY <1>12 DEF RecordOk, Step, Call, Finish, RaiseBarrier, SettleRecovery, Recovering, Drained, Cleaned, Closing,
          Active, Fenced, turnRow, jobs, process, box, rows, gateway, closure, world
<1>13. ASSUME NEW t \in Turns, RecordErr(t)
       PROVE  OpenRowInv'
  <2>1. /\ op[t] \in Ops /\ pc[t] # "idle" /\ worker' = worker
        /\ dirty \in [Turns -> BOOLEAN] /\ pc \in [Turns -> PCs] /\ op \in [Turns -> Ops \cup {NoOp}]
        /\ owner \in [Ops -> 0..MaxTurn] /\ ledger \in [Ops -> States]
    BY <1>13 DEF RecordErr, process, PCs, States
  <2>2. /\ \A u \in Turns : dirty[u] => dirty'[u]
        /\ \A u \in Turns \ {t} : pc'[u] = pc[u] /\ op'[u] = op[u]
    BY <1>13, <2>1 DEF RecordErr, Call, Finish, process
  <2>3. ASSUME NEW x \in Ops, x # op[t] PROVE owner'[x] = owner[x] /\ ledger'[x] = ledger[x]
    <3> HIDE DEF IInv, HInv
    <3> QED BY <1>13, <2>1, <2>3 DEF RecordErr, rows
  <2>4. owner'[op[t]] = t
    BY <1>13, <2>1 DEF RecordErr, rows
  <2>5. ledger'[op[t]] \notin {"RESERVED", "IN_FLIGHT"} \/ dirty'[t]
    <3> HIDE DEF IInv, HInv
    <3> QED BY <1>13, <2>1 DEF RecordErr, Call, Finish
  <2> QED BY <2>1, <2>2, <2>3, <2>4, <2>5
<1>14. ASSUME NEW t \in Turns, RecordUnsure(t)
       PROVE  OpenRowInv'
  <2>1. /\ op[t] \in Ops /\ pc[t] # "idle" /\ worker' = worker
        /\ dirty \in [Turns -> BOOLEAN] /\ pc \in [Turns -> PCs] /\ op \in [Turns -> Ops \cup {NoOp}]
        /\ owner \in [Ops -> 0..MaxTurn] /\ ledger \in [Ops -> States]
    BY <1>14 DEF RecordUnsure, process, PCs, States
  <2>2. /\ \A u \in Turns : dirty[u] => dirty'[u]
        /\ \A u \in Turns \ {t} : pc'[u] = pc[u] /\ op'[u] = op[u]
    BY <1>14, <2>1 DEF RecordUnsure, Call, Finish, process
  <2>3. ASSUME NEW x \in Ops, x # op[t] PROVE owner'[x] = owner[x] /\ ledger'[x] = ledger[x]
    <3> HIDE DEF IInv, HInv
    <3> QED BY <1>14, <2>1, <2>3 DEF RecordUnsure, rows
  <2>4. owner'[op[t]] = t
    BY <1>14, <2>1 DEF RecordUnsure, rows
  <2>5. ledger'[op[t]] \notin {"RESERVED", "IN_FLIGHT"} \/ dirty'[t]
    <3> HIDE DEF IInv, HInv
    <3> QED BY <1>14, <2>1 DEF RecordUnsure, Call, Finish
  <2> QED BY <2>1, <2>2, <2>3, <2>4, <2>5
<1>15. ASSUME NEW t \in Turns, NEW o \in Ops, 
              ReconcileFound(t, o) \/ ReconcileAbsent(t, o) \/ Admit(t, o) \/ ClosureFound(t, o)
       PROVE  OpenRowInv'
  BY <1>15 DEF ReconcileFound, ReconcileAbsent, Admit, ClosureFound, Step, Call, Finish, RaiseBarrier,
          SettleRecovery, Recovering, Drained, Cleaned, Closing, Active, Fenced, turnRow, jobs, process,
          box, rows, gateway, closure, world
<1>16. ASSUME NEW o \in Ops, Land(o)
       PROVE  OpenRowInv'
  BY <1>16 DEF Land, Step, Call, Finish, RaiseBarrier, SettleRecovery, Recovering, Drained, Cleaned, Closing,
          Active, Fenced, turnRow, jobs, process, box, rows, gateway, closure, world
<1>17. ASSUME CloseIssue \/ CompleteClosure
       PROVE  OpenRowInv'
  BY <1>17 DEF CloseIssue, CompleteClosure, Step, Call, Finish, RaiseBarrier, SettleRecovery, Recovering, Drained,
          Cleaned, Closing, Active, Fenced, turnRow, jobs, process, box, rows, gateway, closure, world
<1>18. CASE UNCHANGED vars
  BY <1>18 DEF vars, Step, Call, Finish, RaiseBarrier, SettleRecovery, Recovering, Drained, Cleaned, Closing, Active, Fenced,
          turnRow, jobs, process, box, rows, gateway, closure, world
<1> QED
  BY ONLY [Next]_vars, <1>1, <1>2, <1>3, <1>4, <1>5, <1>6, <1>7, <1>8, <1>9, <1>10, <1>11, <1>12, <1>13, <1>14, <1>15,
     <1>16, <1>17, <1>18
  DEF Next, WorkerStep, RecoveryStep, CallStep, ClosureStep
\* Only Reserve gives a row its owner.
LEMMA OwnerStep == ASSUME [Next]_vars, \A t \in Turns : ~Reserve(t) PROVE UNCHANGED owner
<1>1. ASSUME NEW t \in Turns, 
             Prepare(t) \/ Claim(t) \/ Launch(t) \/ LaunchFails(t) \/ OpenAdmission(t)
             \/ PromptEnds(t) \/ CloseAdmission(t) \/ CloseGrant(t)
      PROVE  UNCHANGED owner
  BY <1>1 DEF Prepare, Claim, Launch, LaunchFails, OpenAdmission, PromptEnds, CloseAdmission, CloseGrant, rows
<1>2. ASSUME NEW t \in Turns, 
             Drain(t) \/ ListMutations(t) \/ CleanStop(t) \/ CleanCapture(t) \/ CleanRemove(t)
             \/ Settle(t) \/ BeginRecovery(t) \/ Leave(t) \/ Abandon(t) \/ Crash(t) \/ Expire(t)
      PROVE  UNCHANGED owner
  BY <1>2 DEF Drain, ListMutations, CleanStop, CleanCapture, CleanRemove, Settle, BeginRecovery, Leave, Abandon,
          Crash, Expire, rows
<1>3. ASSUME NEW t \in Turns, 
             RecoverExpired(t) \/ FenceDuplicate(t) \/ InterruptForHandoff(t) \/ StaleStop(t)
             \/ StaleCapture(t) \/ StaleRemove(t) \/ AcknowledgeStopped(t)
      PROVE  UNCHANGED owner
  BY <1>3 DEF RecoverExpired, FenceDuplicate, InterruptForHandoff, StaleStop, StaleCapture, StaleRemove,
          AcknowledgeStopped, rows
<1>4. ASSUME NEW t \in Turns, 
             ReconcileFails(t) \/ ReconcileExhausted(t) \/ CompleteReconciliation(t)
             \/ ClosureKill(t) \/ ClosureStopped(t)
      PROVE  UNCHANGED owner
  BY <1>4 DEF ReconcileFails, ReconcileExhausted, CompleteReconciliation, ClosureKill, ClosureStopped, rows
<1>5. ASSUME NEW t \in Turns, 
             Replay(t) \/ ReserveRefused(t) \/ ReserveReuse(t) \/ Start(t) \/ StartFails(t)
             \/ AbandonCall(t) \/ Freeze(t) \/ FreezeFails(t)
      PROVE  UNCHANGED owner
  BY <1>5 DEF Replay, ReserveRefused, ReserveReuse, Start, StartFails, AbandonCall, Freeze, FreezeFails, rows
<1>6. ASSUME NEW t \in Turns, 
             CancelBeforeSend(t) \/ Send(t) \/ Answer(t) \/ RecordOk(t) \/ RecordErr(t)
             \/ RecordUnsure(t)
      PROVE  UNCHANGED owner
  BY <1>6 DEF CancelBeforeSend, Send, Answer, RecordOk, RecordErr, RecordUnsure, rows
<1>7. ASSUME NEW t \in Turns, NEW o \in Ops, 
             ReconcileFound(t, o) \/ ReconcileAbsent(t, o) \/ Admit(t, o) \/ ClosureFound(t, o)
      PROVE  UNCHANGED owner
  BY <1>7 DEF ReconcileFound, ReconcileAbsent, Admit, ClosureFound, rows
<1>8. ASSUME NEW o \in Ops, Land(o)
      PROVE  UNCHANGED owner
  BY <1>8 DEF Land, rows
<1>9. ASSUME CloseIssue \/ CompleteClosure
      PROVE  UNCHANGED owner
  BY <1>9 DEF CloseIssue, CompleteClosure, rows
<1>10. CASE UNCHANGED vars
  BY <1>10 DEF vars, rows
<1> QED
  BY ONLY [Next]_vars, <1>1, <1>2, <1>3, <1>4, <1>5, <1>6, <1>7, <1>8, <1>9, <1>10, <1>10, \A t \in Turns : ~Reserve(t)
  DEF Next, WorkerStep, RecoveryStep, CallStep, ClosureStep

\* A turn that has ended without a lease and a runtime never gets one again.
LEMMA EndedStays ==
    ASSUME IInv, HInv, [Next]_vars, NEW u \in Turns, Ended(u)
    PROVE  Ended(u)'
<1> USE DEF IInv, HInv, TypeOK, TurnInv, TurnOk, Ended
<1>1. ASSUME NEW t \in Turns, 
             Prepare(t) \/ Claim(t) \/ Launch(t) \/ LaunchFails(t) \/ OpenAdmission(t)
             \/ PromptEnds(t) \/ CloseAdmission(t) \/ CloseGrant(t)
      PROVE  Ended(u)'
  BY <1>1 DEF Prepare, Claim, Launch, LaunchFails, OpenAdmission, PromptEnds, CloseAdmission, CloseGrant, Step,
          Call, Finish, RaiseBarrier, SettleRecovery, Recovering, Drained, Cleaned, Closing, Active,
          Fenced, turnRow, jobs, process, box, rows, gateway, closure, world
<1>2. ASSUME NEW t \in Turns, 
             Drain(t) \/ CleanStop(t) \/ CleanCapture(t) \/ CleanRemove(t) \/ Settle(t)
             \/ Leave(t) \/ Abandon(t) \/ Crash(t) \/ Expire(t)
      PROVE  Ended(u)'
  BY <1>2 DEF Drain, CleanStop, CleanCapture, CleanRemove, Settle, Leave, Abandon, Crash, Expire, Step, Call,
          Finish, RaiseBarrier, SettleRecovery, Recovering, Drained, Cleaned, Closing, Active, Fenced,
          turnRow, jobs, process, box, rows, gateway, closure, world
<1>3. ASSUME NEW t \in Turns, ListMutations(t)
      PROVE  Ended(u)'
  BY <1>3 DEF ListMutations, Step, Call, Finish, RaiseBarrier, SettleRecovery, Recovering, Drained, Cleaned,
          Closing, Active, Fenced, turnRow, jobs, process, box, rows, gateway, closure, world
<1>4. ASSUME NEW t \in Turns, 
             BeginRecovery(t) \/ RecoverExpired(t) \/ FenceDuplicate(t) \/ InterruptForHandoff(t)
      PROVE  Ended(u)'
  BY <1>4 DEF BeginRecovery, RecoverExpired, FenceDuplicate, InterruptForHandoff, Step, Call, Finish,
          RaiseBarrier, SettleRecovery, Recovering, Drained, Cleaned, Closing, Active, Fenced, turnRow,
          jobs, process, box, rows, gateway, closure, world
<1>5. ASSUME NEW t \in Turns, 
             StaleStop(t) \/ StaleCapture(t) \/ StaleRemove(t) \/ AcknowledgeStopped(t)
             \/ ReconcileFails(t) \/ ReconcileExhausted(t) \/ CompleteReconciliation(t)
      PROVE  Ended(u)'
  BY <1>5 DEF StaleStop, StaleCapture, StaleRemove, AcknowledgeStopped, ReconcileFails, ReconcileExhausted,
          CompleteReconciliation, Step, Call, Finish, RaiseBarrier, SettleRecovery, Recovering, Drained,
          Cleaned, Closing, Active, Fenced, turnRow, jobs, process, box, rows, gateway, closure, world
<1>6. ASSUME NEW t \in Turns, 
             Replay(t) \/ ReserveRefused(t) \/ Reserve(t) \/ ReserveReuse(t) \/ Start(t)
             \/ StartFails(t) \/ AbandonCall(t) \/ Freeze(t)
      PROVE  Ended(u)'
  BY <1>6 DEF Replay, ReserveRefused, Reserve, ReserveReuse, Start, StartFails, AbandonCall, Freeze, Step, Call,
          Finish, RaiseBarrier, SettleRecovery, Recovering, Drained, Cleaned, Closing, Active, Fenced,
          turnRow, jobs, process, box, rows, gateway, closure, world
<1>7. ASSUME NEW t \in Turns, 
             FreezeFails(t) \/ CancelBeforeSend(t) \/ Send(t) \/ Answer(t) \/ RecordOk(t)
             \/ RecordErr(t) \/ RecordUnsure(t)
      PROVE  Ended(u)'
  BY <1>7 DEF FreezeFails, CancelBeforeSend, Send, Answer, RecordOk, RecordErr, RecordUnsure, Step, Call, Finish,
          RaiseBarrier, SettleRecovery, Recovering, Drained, Cleaned, Closing, Active, Fenced, turnRow,
          jobs, process, box, rows, gateway, closure, world
<1>8. ASSUME NEW t \in Turns, NEW o \in Ops, 
             ReconcileFound(t, o) \/ ReconcileAbsent(t, o) \/ Admit(t, o) \/ ClosureFound(t, o)
      PROVE  Ended(u)'
  BY <1>8 DEF ReconcileFound, ReconcileAbsent, Admit, ClosureFound, Step, Call, Finish, RaiseBarrier,
          SettleRecovery, Recovering, Drained, Cleaned, Closing, Active, Fenced, turnRow, jobs, process,
          box, rows, gateway, closure, world
<1>9. ASSUME NEW o \in Ops, Land(o)
      PROVE  Ended(u)'
  BY <1>9 DEF Land, Step, Call, Finish, RaiseBarrier, SettleRecovery, Recovering, Drained, Cleaned, Closing,
          Active, Fenced, turnRow, jobs, process, box, rows, gateway, closure, world
<1>10. ASSUME NEW t \in Turns, ClosureKill(t) \/ ClosureStopped(t)
       PROVE  Ended(u)'
  BY <1>10 DEF ClosureKill, ClosureStopped, Step, Call, Finish, RaiseBarrier, SettleRecovery, Recovering, Drained,
          Cleaned, Closing, Active, Fenced, turnRow, jobs, process, box, rows, gateway, closure, world
<1>11. ASSUME CloseIssue \/ CompleteClosure
       PROVE  Ended(u)'
  BY <1>11 DEF CloseIssue, CompleteClosure, Step, Call, Finish, RaiseBarrier, SettleRecovery, Recovering, Drained,
          Cleaned, Closing, Active, Fenced, turnRow, jobs, process, box, rows, gateway, closure, world
<1>12. CASE UNCHANGED vars
  BY <1>12 DEF vars, Step, Call, Finish, RaiseBarrier, SettleRecovery, Recovering, Drained, Cleaned, Closing, Active, Fenced,
          turnRow, jobs, process, box, rows, gateway, closure, world
<1> QED
  BY ONLY [Next]_vars, <1>1, <1>2, <1>3, <1>4, <1>5, <1>6, <1>7, <1>8, <1>9, <1>10, <1>11, <1>12, <1>12
  DEF Next, WorkerStep, RecoveryStep, CallStep, ClosureStep

LEMMA SettledStays ==
    ASSUME IInv, HInv, [Next]_vars, NEW u \in Turns, Settled(u)
    PROVE  Settled(u)'
<1>1. Ended(u)'
  BY EndedStays DEF Settled, Ended
<1>2. ASSUME NEW t \in Turns, Reserve(t) PROVE ~Unsettled(u)'
  <2>1. t # u /\ op[t] \in Ops
    BY <1>2 DEF Reserve, Admissible, Fenced, Settled, IInv, CallInv, CallOk
  <2>2. owner'[op[t]] = t /\ \A x \in Ops \ {op[t]} : owner'[x] = owner[x] /\ ledger'[x] = ledger[x]
    BY <1>2, <2>1 DEF Reserve, IInv, TypeOK
  <2> QED BY <2>1, <2>2 DEF Settled, Unsettled, RowsOf
<1>3. ASSUME \A t \in Turns : ~Reserve(t) PROVE ~Unsettled(u)'
  <2>1. UNCHANGED owner /\ \A o \in Ops : Moved(o)
    BY <1>3, OwnerStep, LedgerStep
  <2>2. ASSUME NEW o \in Ops, owner[o] = u PROVE ledger'[o] \notin Undecided
    BY <2>1, <2>2 DEF Settled, Unsettled, RowsOf, Moved
  <2> QED BY <2>1, <2>2 DEF Unsettled, RowsOf
<1> QED BY <1>1, <1>2, <1>3 DEF Settled, Ended

\* The turns before one that exists are settled: the guards of PrepareAgentTurn look at the last one, and the
\* others were settled when that one began.
LEMMA OrderStep == ASSUME IInv, HInv, [Next]_vars PROVE OrderInv'
<1> SUFFICES ASSUME NEW t \in Turns, status'[t] # "ABSENT", NEW u \in 1..(t - 1) PROVE Settled(u)'
  BY DEF OrderInv
<1>1. u \in Turns
  BY ConstantsAssumption DEF Turns, ConstantsAssumption
<1>2. CASE status[t] # "ABSENT"
  <2>1. Settled(u)
    BY <1>2 DEF HInv, OrderInv
  <2> QED BY <1>1, <2>1, SettledStays
<1>3. CASE status[t] = "ABSENT"
  <2>1. PICK s \in Turns : Prepare(s)
    BY <1>3, BegunStep DEF Begun
  <2>2. s = t
    BY <1>3, <2>1 DEF Prepare, IInv, TypeOK
  <2> DEFINE p == t - 1
  <2>3. p \in Turns /\ u <= p /\ t > 1
    BY ConstantsAssumption DEF Turns, ConstantsAssumption
  <2>4. /\ status[p] \in {"FAILED", "INTERRUPTED"} \/ recovery[p] = "settled"
        /\ status[p] # "ABSENT" /\ ~Unsettled(p)
    BY <2>1, <2>2, <2>3 DEF Prepare, PriorSettled
  <2>5. Settled(p)
    <3>1. TurnOk(p) /\ EndOk(p) /\ recovery[p] \in {"none", "settled"}
      BY <2>1, <2>3 DEF IInv, HInv, TurnInv, EndInv, Prepare, PriorSettled
    <3> QED BY <2>4, <3>1 DEF Settled, TurnOk, EndOk
  <2>6. u # p => Settled(u)
    <3> SUFFICES ASSUME u # p PROVE Settled(u)
      OBVIOUS
    <3>1. u \in 1..(p - 1)
      BY <2>3 DEF Turns
    <3> QED BY <2>3, <2>4, <3>1 DEF HInv, OrderInv
  <2> QED BY <1>1, <2>5, <2>6, SettledStays
<1> QED BY <1>2, <1>3

\* Initially no turn exists.
LEMMA HInitially == Init => HInv
BY DEF Init, HInv, LifeInv, LifeOk, EndInv, EndOk, ClosureOk, OpenRowInv, OpenRowOk, OrderInv, Drained, Cleaned

\* A turn that is retried, recovered or closed leaves nothing open behind it (HandoverIsClean).
THEOREM CleanHandover == Spec => []HandoverIsClean
<1>1. IInv /\ HInv /\ [Next]_vars => HInv'
  BY LifeStep, EndStep, ClosureOkStep, OpenRowStep, OrderStep DEF HInv
<1>2. IInv /\ HInv => HandoverIsClean
  <2> SUFFICES ASSUME IInv, HInv PROVE HandoverIsClean
    OBVIOUS
  <2>1. SuccessorFindsNothingOpen
    BY DEF HInv, OrderInv, Settled, SuccessorFindsNothingOpen
  <2>2. DrainedMeansDurable
    BY DEF HInv, LifeInv, LifeOk, OpenRowInv, OpenRowOk, Drained, DrainedMeansDurable, RowsOf
  <2>3. CaptureSurvives
    BY DEF HInv, LifeInv, LifeOk, CaptureSurvives
  <2> QED BY <2>1, <2>2, <2>3 DEF HandoverIsClean
<1> QED BY <1>1, <1>2, HInitially, Invariance, PTL DEF Spec

-----------------------------------------------------------------------------
(* Outside the store.                                                      *)

ExecutionVars  == <<reservation, containers, request, creator, removal, epoch>>
WorkspacesVars == <<turn, at, files, container, revoked, left, evidence>>

ExecutionSpec  == ExecutionInit /\ [][ExecutionNext]_ExecutionVars
WorkspacesSpec == WorkspacesInit /\ [][WorkspacesNext]_WorkspacesVars
StateSpec      == StateInit /\ [][StateNext]_stateVars

-----------------------------------------------------------------------------
(* The containers of an execution.                                         *)

Rows     == [phase : Phases \cup {"none", "reserved"}, main : BOOLEAN, setup : BOOLEAN, setupSettled : BOOLEAN,
             revoked : BOOLEAN, settled : BOOLEAN]
Removals == [at : {"idle", "stop", "stopped", "resolve", "remove", "confirm", "absent"}, seen : Rows]

ExecutionTypes ==
    /\ reservation \in Rows /\ containers \in SUBSET Phases
    /\ request \in Phases \cup {"none", "created", "refused"}
    /\ removal \in [Removers -> Removals]

\* The resource of a phase is bound to the row.
BoundIn(record, phase) == IF phase = "setup" THEN record.setup ELSE record.main

\* A create request that is about to be sent, or that the daemon may still carry out, is on record and unresolved.
Recorded ==
    \A phase \in Phases :
        creator = phase \/ request = phase =>
            /\ reservation.phase = phase /\ ~BoundIn(reservation, phase) /\ ~reservation.settled
            /\ phase \notin containers

\* A creation that has not come to a phase has left nothing of it.
CreatesInOrder ==
    /\ creator \in {"launch", "reserved", "prepared", "setup up"} \cup Phases => request = "none"
    /\ creator \in {"launch", "reserved"} => reservation.phase \in {"none", "reserved"}
    /\ creator \in {"prepared", "setup up"} => reservation.phase = "setup"
    /\ "main" \in containers \/ reservation.main => reservation.phase = "main"
    /\ "setup" \in containers \/ reservation.setup => reservation.phase \in Phases

\* What a remover read when it revoked the execution still holds: the row is frozen, but for what is bound and settled.
SeenStands ==
    \A a \in Removers : removal[a].at # "idle" =>
        LET seen == removal[a].seen
        IN  /\ reservation.revoked /\ seen.phase = reservation.phase
            /\ seen.settled => reservation.settled
            /\ seen.setup => reservation.setup
            /\ seen.main => reservation.main
            /\ seen.phase \in {"none", "reserved"} => seen.settled

\* From its removal on, nothing is unresolved any more; once listed, nothing is there.
Removed ==
    \A a \in Removers :
        /\ removal[a].at \in {"remove", "confirm", "absent"} => Unresolved(a) = {}
        /\ removal[a].at \in {"confirm", "absent"} => containers = {}

\* The end of a turn stands.
Over == epoch = "settled" => containers = {} /\ request \notin Phases /\ creator \notin Phases

ExecutionInv == ExecutionTypes /\ Recorded /\ CreatesInOrder /\ SeenStands /\ Removed /\ Over

\* A row only ever grows, once its phase is settled on.
Grows(r, t) ==
    /\ t \in Rows /\ t.phase = r.phase
    /\ r.revoked => t.revoked
    /\ r.settled => t.settled
    /\ r.setup => t.setup
    /\ r.main => t.main

LEMMA GrowsReflexive == ASSUME NEW r \in Rows PROVE Grows(r, r)
BY DEF Grows

LEMMA RowPhase ==
    ASSUME NEW r \in Rows, NEW phase \in Phases \cup {"reserved"}
    PROVE  LET t == [r EXCEPT !.phase = phase]
           IN  /\ t \in Rows /\ t.phase = phase
               /\ t.revoked = r.revoked /\ t.settled = r.settled /\ t.setup = r.setup /\ t.main = r.main
BY DEF Rows

LEMMA RowSettled ==
    ASSUME NEW r \in Rows
    PROVE  LET t == [r EXCEPT !.settled = TRUE]
           IN  Grows(r, t) /\ t.settled /\ t.setup = r.setup /\ t.main = r.main
BY DEF Rows, Grows

\* The setup container is bound.
LEMMA RowSetupBound ==
    ASSUME reservation \in Rows
    PROVE  Grows(reservation, SetupBound) /\ SetupBound.setup /\ SetupBound.main = reservation.main
             /\ SetupBound.settled = reservation.settled
BY DEF Rows, Grows, SetupBound

\* The main container is bound.
LEMMA RowMainBound ==
    ASSUME reservation \in Rows
    PROVE  Grows(reservation, MainBound) /\ MainBound.main /\ MainBound.setup = reservation.setup
BY DEF Rows, Grows, MainBound

\* The setup is settled, and perhaps the execution with it.
LEMMA RowSetupSettled ==
    ASSUME NEW r \in Rows, NEW over \in BOOLEAN, NEW done \in BOOLEAN
    PROVE  LET t == [r EXCEPT !.setupSettled = done, !.settled = over]
           IN  /\ t \in Rows /\ t.phase = r.phase /\ t.revoked = r.revoked /\ t.settled = over
               /\ t.setup = r.setup /\ t.main = r.main
BY DEF Rows

\* RevokeExecution: nothing is lost, and what was only reserved is settled.
LEMMA RowRevoked ==
    ASSUME NEW r \in Rows
    PROVE  /\ Grows(r, Revoked(r)) /\ Revoked(r).revoked
           /\ Revoked(r).setup = r.setup /\ Revoked(r).main = r.main
           /\ r.phase \in {"none", "reserved"} => Revoked(r).settled
           /\ r.phase \in Phases => Revoked(r).settled = r.settled
<1> DEFINE over == r.settled \/ r.phase \in {"none", "reserved"}
           t == [r EXCEPT !.revoked = TRUE, !.settled = over]
<1>1. Revoked(r) = t
  BY DEF Revoked
<1>2. over \in BOOLEAN /\ r.settled \in BOOLEAN
  BY DEF Rows
<1>3. /\ r.settled => over
      /\ r.phase \in {"none", "reserved"} => over
      /\ r.phase \in Phases => over = r.settled
  BY <1>2, Zenon DEF Phases
<1> HIDE DEF over
<1>4. /\ t \in Rows /\ t.phase = r.phase /\ t.revoked = TRUE /\ t.settled = over
      /\ t.setup = r.setup /\ t.main = r.main
  BY <1>2 DEF Rows
<1> HIDE DEF t
<1> QED BY <1>1, <1>2, <1>3, <1>4 DEF Grows

-----------------------------------------------------------------------------
(* The steps of the worker that creates.                                   *)

LEMMA ExecutionInitially == ASSUME ExecutionInit PROVE ExecutionInv
<1>1. NoRow \in Rows /\ NoRow.phase = "none" /\ ~NoRow.main /\ ~NoRow.setup
  BY DEF NoRow, Rows
<1>2. [at |-> "idle", seen |-> NoRow] \in Removals
  BY <1>1 DEF Removals
<1> QED BY <1>1, <1>2 DEF ExecutionInit, ExecutionInv, ExecutionTypes, Recorded, CreatesInOrder, SeenStands, Removed, Over,
        Phases

\* The creator is stopped by the ledger, or fails: nothing else changes.
LEMMA CreatorFails ==
    ASSUME ExecutionInv, UNCHANGED <<reservation, containers, request, removal, epoch>>, creator' \in {"failed", "gone"}
    PROVE  ExecutionInv'
BY DEF ExecutionInv, ExecutionTypes, Recorded, CreatesInOrder, SeenStands, Removed, Over, Phases, BoundIn, Unresolved

\* A row that only grows, or is not revoked, is still what was seen of it.
LEMMA SeenStill ==
    ASSUME ExecutionInv, removal' = removal, ~reservation.revoked \/ Grows(reservation, reservation')
    PROVE  SeenStands' /\ \A a \in Removers : Unresolved(a)' = Unresolved(a)
BY DEF ExecutionInv, SeenStands, Grows, Unresolved

LEMMA ReserveKeeps == ASSUME ExecutionInv, ReserveExecution PROVE ExecutionInv'
<1> DEFINE t == [reservation EXCEPT !.phase = "reserved"]
<1>1. reservation \in Rows
  BY DEF ExecutionInv, ExecutionTypes
<1>2. /\ t \in Rows /\ t.phase = "reserved"
      /\ t.revoked = reservation.revoked /\ t.settled = reservation.settled
      /\ t.setup = reservation.setup /\ t.main = reservation.main
  BY <1>1, RowPhase
<1>3. UNCHANGED <<containers, request, removal, epoch>>
  BY DEF ReserveExecution
<1>4. \/ creator' = "failed" /\ reservation' = reservation
      \/ /\ creator = "launch" /\ creator' = "reserved" /\ epoch = "live" /\ ~reservation.revoked
         /\ reservation' = t
  BY DEF ReserveExecution, Admits, Admitted
<1> HIDE DEF t
<1>5. CASE creator' = "failed" /\ reservation' = reservation
  BY <1>3, <1>5, CreatorFails
<1>6. CASE creator' = "reserved" /\ reservation' = t
  <2>1. SeenStands' /\ \A a \in Removers : Unresolved(a)' = Unresolved(a)
    BY <1>3, <1>4, <1>6, SeenStill
  <2>2. reservation.phase \in {"none", "reserved"} /\ containers = {} /\ ~reservation.main /\ ~reservation.setup
    BY <1>4, <1>6 DEF ExecutionInv, ExecutionTypes, CreatesInOrder, Phases
  <2>3. ~reservation'.main /\ ~reservation'.setup /\ reservation' \in Rows /\ reservation'.phase = "reserved"
    BY <1>2, <1>6, <2>2
  <2>4. request = "none" /\ epoch = "live"
    BY <1>4, <1>6 DEF ExecutionInv, CreatesInOrder
  <2> QED BY <1>3, <1>6, <2>1, <2>2, <2>3, <2>4 DEF ExecutionInv, ExecutionTypes, Recorded, CreatesInOrder, Removed, Over,
          Phases
<1> QED BY <1>4, <1>5, <1>6

\* A phase begins only when nothing of it can be there.
LEMMA BeginKeeps == ASSUME ExecutionInv, NEW phase \in Phases, BeginExecutionPhase(phase) PROVE ExecutionInv'
<1> DEFINE t == [reservation EXCEPT !.phase = phase]
<1>1. reservation \in Rows
  BY DEF ExecutionInv, ExecutionTypes
<1>2. /\ t \in Rows /\ t.phase = phase
      /\ t.revoked = reservation.revoked /\ t.settled = reservation.settled
      /\ t.setup = reservation.setup /\ t.main = reservation.main
  BY <1>1, RowPhase
<1>3. UNCHANGED <<containers, request, removal, epoch>>
  BY DEF BeginExecutionPhase
<1>4. \/ creator' = "failed" /\ reservation' = reservation
      \/ /\ creator = "reserved" \/ (phase = "main" /\ creator = "prepared")
         /\ creator' = phase /\ epoch = "live" /\ MayBegin(phase)
         /\ reservation' = t
  BY DEF BeginExecutionPhase, Admits, Admitted
<1> HIDE DEF t
<1>5. CASE creator' = "failed" /\ reservation' = reservation
  BY <1>3, <1>5, CreatorFails
<1>6. CASE /\ creator = "reserved" \/ (phase = "main" /\ creator = "prepared")
           /\ creator' = phase /\ epoch = "live" /\ MayBegin(phase)
           /\ reservation' = t
  <2>1. ~reservation.revoked /\ ~reservation.settled
    BY <1>6 DEF MayBegin
  <2>2. SeenStands' /\ \A a \in Removers : Unresolved(a)' = Unresolved(a)
    BY <1>3, <2>1, SeenStill
  <2>3. /\ phase \notin containers /\ ~BoundIn(reservation, phase) /\ request = "none"
        /\ ~reservation.main /\ "main" \notin containers
        /\ "setup" \in containers \/ reservation.setup => phase = "main"
    BY <1>6 DEF ExecutionInv, ExecutionTypes, CreatesInOrder, Phases, BoundIn
  <2>4. ~reservation'.main /\ reservation' \in Rows /\ reservation'.phase = phase /\ ~reservation'.settled
        /\ ~BoundIn(reservation', phase)
    BY <1>2, <1>6, <2>1, <2>3 DEF BoundIn
  <2>5. Recorded'
    BY <1>3, <1>6, <2>3, <2>4 DEF Recorded, Phases
  <2>6. CreatesInOrder'
    BY <1>2, <1>3, <1>6, <2>3, <2>4 DEF CreatesInOrder, Phases
  <2> QED BY <1>3, <1>6, <2>2, <2>4, <2>5, <2>6 DEF ExecutionInv, ExecutionTypes, Removed, Over
<1> QED BY <1>4, <1>5, <1>6

LEMMA SendKeeps == ASSUME ExecutionInv, NEW phase \in Phases, SendCreate(phase) PROVE ExecutionInv'
<1>1. /\ UNCHANGED <<reservation, containers, removal, epoch>>
      /\ creator = phase /\ creator' = "wait" /\ request' = phase /\ phase \in Phases
  BY DEF SendCreate
<1> QED BY <1>1 DEF ExecutionInv, ExecutionTypes, Recorded, CreatesInOrder, SeenStands, Removed, Over, Phases, BoundIn,
        Unresolved

\* Past its resolution, no create request is outstanding.
LEMMA NoneOutstanding ==
    ASSUME ExecutionInv, NEW a \in Removers, removal[a].at \in {"remove", "confirm", "absent"}
    PROVE  request \notin Phases /\ creator \notin Phases
<1> SUFFICES ASSUME NEW phase \in Phases, request = phase \/ creator = phase PROVE FALSE
  OBVIOUS
<1>1. /\ reservation.phase = phase /\ ~BoundIn(reservation, phase) /\ ~reservation.settled
  BY DEF ExecutionInv, Recorded
<1>2. /\ removal[a].seen.phase = phase /\ ~removal[a].seen.settled
      /\ (removal[a].seen.setup => reservation.setup) /\ (removal[a].seen.main => reservation.main)
  BY <1>1 DEF ExecutionInv, SeenStands
<1>3. phase \notin Unresolved(a)
  BY DEF ExecutionInv, Removed
<1> QED BY <1>1, <1>2, <1>3 DEF Unresolved, BoundIn, Phases

\* The daemon answers, whoever still listens.  A container it creates is on record, and so no removal is past it.
LEMMA DaemonKeeps == ASSUME ExecutionInv, CreateLands \/ CreateRefused PROVE ExecutionInv'
<1>1. /\ UNCHANGED <<reservation, removal, creator, epoch>> /\ request \in Phases
      /\ \/ request' = "created" /\ containers' = containers \cup {request}
         \/ request' = "refused" /\ containers' = containers
  BY DEF CreateLands, CreateRefused
<1>2. /\ reservation.phase = request /\ ~BoundIn(reservation, request) /\ ~reservation.settled
  BY <1>1 DEF ExecutionInv, Recorded
<1>3. creator \notin {"launch", "reserved", "prepared", "setup up"} \cup Phases
  BY <1>1 DEF ExecutionInv, CreatesInOrder, Phases
<1>4. \A a \in Removers : removal[a].at \notin {"remove", "confirm", "absent"}
  BY <1>1, NoneOutstanding
<1>5. epoch # "settled"
  BY <1>1 DEF ExecutionInv, Over
<1> QED BY <1>1, <1>2, <1>3, <1>4, <1>5 DEF ExecutionInv, ExecutionTypes, Recorded, CreatesInOrder, SeenStands, Removed, Over,
        Phases, Unresolved

\* What the daemon answered is bound, or comes too late to be.
LEMMA AnsweredKeeps == ASSUME ExecutionInv, CreateAnswered PROVE ExecutionInv'
<1>1. /\ UNCHANGED <<containers, removal, epoch>>
      /\ creator = "wait" /\ creator' \in {"failed", "setup up", "main up"} /\ request' = "none"
      /\ creator' = "setup up" => reservation.phase = "setup"
      /\ \/ reservation' = reservation
         \/ reservation' = SetupBound /\ reservation.phase = "setup"
         \/ reservation' = MainBound /\ reservation.phase = "main"
  BY DEF CreateAnswered, SetupBindable, MainBindable
<1>2. reservation \in Rows
  BY DEF ExecutionInv, ExecutionTypes
<1>3. /\ Grows(reservation, reservation')
      /\ reservation'.main => reservation.main \/ reservation.phase = "main"
      /\ reservation'.setup => reservation.setup \/ reservation.phase = "setup"
  BY <1>1, <1>2, GrowsReflexive, RowSetupBound, RowMainBound
<1>4. SeenStands' /\ \A a \in Removers : Unresolved(a)' = Unresolved(a)
  BY <1>1, <1>3, SeenStill
<1>5. reservation' \in Rows /\ reservation'.phase = reservation.phase
  BY <1>3 DEF Grows
<1> QED BY <1>1, <1>3, <1>4, <1>5 DEF ExecutionInv, ExecutionTypes, Recorded, CreatesInOrder, Removed, Over, Phases

\* Only what had no effect is recorded as such.
LEMMA FailureKeeps == ASSUME ExecutionInv, CreateFails PROVE ExecutionInv'
<1>1. /\ UNCHANGED <<containers, removal, epoch>> /\ creator = "wait" /\ creator' = "failed"
      /\ request' = IF request = "refused" THEN "none" ELSE request
      /\ \/ reservation' = reservation
         \/ reservation' = [reservation EXCEPT !.settled = TRUE] /\ request = "refused"
  BY DEF CreateFails, Effectless
<1>2. reservation \in Rows
  BY DEF ExecutionInv, ExecutionTypes
<1>3. Grows(reservation, reservation') /\ reservation'.setup = reservation.setup /\ reservation'.main = reservation.main
  BY <1>1, <1>2, GrowsReflexive, RowSettled
<1>4. SeenStands' /\ \A a \in Removers : Unresolved(a)' = Unresolved(a)
  BY <1>1, <1>3, SeenStill
<1>5. reservation' \in Rows /\ reservation'.phase = reservation.phase
  BY <1>3 DEF Grows
<1> QED BY <1>1, <1>3, <1>4, <1>5 DEF ExecutionInv, ExecutionTypes, Recorded, CreatesInOrder, Removed, Over, Phases, BoundIn

LEMMA FinishSetupKeeps == ASSUME ExecutionInv, FinishSetup PROVE ExecutionInv'
<1> DEFINE over == reservation.settled \/ ~reservation.main
<1>1. /\ UNCHANGED <<request, removal, epoch>> /\ creator = "setup up"
      /\ containers' \in {containers, containers \ {"setup"}}
      /\ \/ creator' = "prepared" /\ reservation' = [reservation EXCEPT !.setupSettled = TRUE]
         \/ creator' = "failed" /\ reservation' = [reservation EXCEPT !.setupSettled = TRUE, !.settled = over]
         \/ creator' = "failed" /\ reservation' = reservation
  BY DEF FinishSetup
<1>2. reservation \in Rows /\ over \in BOOLEAN /\ (reservation.settled => over)
  BY DEF ExecutionInv, ExecutionTypes
<1> HIDE DEF over
<1>3. Grows(reservation, reservation') /\ reservation'.setup = reservation.setup /\ reservation'.main = reservation.main
  BY <1>1, <1>2 DEF Rows, Grows
<1>4. SeenStands' /\ \A a \in Removers : Unresolved(a)' = Unresolved(a)
  BY <1>1, <1>3, SeenStill
<1>5. reservation' \in Rows /\ reservation'.phase = reservation.phase
  BY <1>3 DEF Grows
<1>6. request = "none" /\ reservation.phase = "setup"
  BY <1>1 DEF ExecutionInv, CreatesInOrder
<1> QED BY <1>1, <1>3, <1>4, <1>5, <1>6 DEF ExecutionInv, ExecutionTypes, Recorded, CreatesInOrder, Removed, Over, Phases, BoundIn

-----------------------------------------------------------------------------
(* The steps of the removal.                                               *)

\* A process that dies or fails in its removal starts again from its beginning.
LEMMA IdleKeeps ==
    ASSUME ExecutionInv, NEW a \in Removers, removal' = [removal EXCEPT ![a].at = "idle"],
           UNCHANGED <<reservation, containers, request>>, creator' \in {creator, "gone"},
           \/ epoch' \in {epoch, "recovery"} /\ epoch # "settled"
           \/ epoch' = epoch
           \/ epoch' = "settled" /\ removal[a].at = "absent"
    PROVE  ExecutionInv'
<1>1. removal \in [Removers -> Removals]
  BY DEF ExecutionInv, ExecutionTypes
<1>2. [removal[a] EXCEPT !.at = "idle"] \in Removals /\ [removal[a] EXCEPT !.at = "idle"].at = "idle"
  BY <1>1 DEF Removals
<1>3. /\ removal' \in [Removers -> Removals]
      /\ removal'[a].at = "idle" /\ \A b \in Removers \ {a} : removal'[b] = removal[b]
  BY <1>1, <1>2
<1>4. SeenStands' /\ Removed'
  BY <1>3 DEF ExecutionInv, SeenStands, Removed, Unresolved
<1>5. removal[a].at = "absent" => containers = {} /\ request \notin Phases /\ creator \notin Phases
  BY NoneOutstanding DEF ExecutionInv, Removed
<1>6. Recorded' /\ CreatesInOrder' /\ Over'
  BY <1>5 DEF ExecutionInv, Recorded, CreatesInOrder, Over, Phases, BoundIn
<1> QED BY <1>3, <1>4, <1>6 DEF ExecutionInv, ExecutionTypes

\* Revoking the execution freezes the row, and reads it.
LEMMA RevokeKeeps == ASSUME ExecutionInv, NEW a \in Removers, RevokeExecution(a) PROVE ExecutionInv'
<1> DEFINE next == [at |-> IF a = "recovery" /\ removal[a].at = "idle" THEN "stop" ELSE "resolve", seen |-> Revoked(reservation)]
<1>1. /\ UNCHANGED <<containers, request, epoch>> /\ creator' \in {creator, "cleaning"}
      /\ reservation' = Revoked(reservation) /\ removal' = [removal EXCEPT ![a] = next]
  BY DEF RevokeExecution
<1>2. reservation \in Rows /\ removal \in [Removers -> Removals]
  BY DEF ExecutionInv, ExecutionTypes
<1>3. /\ Grows(reservation, Revoked(reservation)) /\ Revoked(reservation).revoked
      /\ Revoked(reservation).setup = reservation.setup /\ Revoked(reservation).main = reservation.main
      /\ reservation.phase \in {"none", "reserved"} => Revoked(reservation).settled
      /\ reservation.phase \in Phases => Revoked(reservation).settled = reservation.settled
  BY <1>2, RowRevoked
<1>4. next \in Removals /\ next.at \in {"stop", "resolve"} /\ next.seen = Revoked(reservation)
  BY <1>3 DEF Removals, Grows
<1> HIDE DEF next
<1>5. /\ removal' \in [Removers -> Removals]
      /\ removal'[a].at \in {"stop", "resolve"} /\ removal'[a].seen = reservation'
      /\ \A b \in Removers \ {a} : removal'[b] = removal[b]
  BY <1>1, <1>2, <1>4
<1>6. reservation' \in Rows /\ reservation'.phase = reservation.phase
  BY <1>1, <1>3 DEF Grows
<1>7. SeenStands'
  BY <1>1, <1>3, <1>5, <1>6 DEF ExecutionInv, SeenStands, Grows
<1>8. Removed'
  BY <1>1, <1>5 DEF ExecutionInv, Removed, Unresolved
<1>9. Recorded'
  BY <1>1, <1>3, <1>6 DEF ExecutionInv, Recorded, Phases, BoundIn
<1>10. CreatesInOrder' /\ Over'
  BY <1>1, <1>3, <1>6 DEF ExecutionInv, CreatesInOrder, Over, Phases
<1> QED BY <1>1, <1>5, <1>6, <1>7, <1>8, <1>9, <1>10 DEF ExecutionInv, ExecutionTypes

\* What is resolved was found: the container is there, and so its request is not outstanding.
LEMMA ResolveKeeps == ASSUME ExecutionInv, NEW a \in Removers, Resolve(a) PROVE ExecutionInv'
<1> DEFINE seen == removal[a].seen
           setup == seen.setup \/ "setup" \in Unresolved(a)
           main == seen.main \/ "main" \in Unresolved(a)
           then == [seen EXCEPT !.setup = setup, !.main = main]
           at2  == IF removal[a].at = "stop" THEN "stopped" ELSE "remove"
           next == [at |-> at2, seen |-> then]
<1>1. /\ UNCHANGED <<containers, request, creator, epoch>> /\ removal[a].at \in {"stop", "resolve"}
      /\ Unresolved(a) \subseteq containers
      /\ removal' = [removal EXCEPT ![a] = next]
  <2>1. removal' = [removal EXCEPT ![a] = next]
    BY Zenon DEF Resolve, Looked
  <2>2. UNCHANGED <<containers, request, creator, epoch>> /\ removal[a].at \in {"stop", "resolve"} /\ Resolvable(a)
    BY Zenon DEF Resolve
  <2> QED BY <2>1, <2>2, Zenon DEF Resolvable
<1>2. /\ reservation \in Rows /\ removal \in [Removers -> Removals] /\ seen \in Rows /\ removal[a] \in Removals
      /\ reservation.revoked /\ seen.phase = reservation.phase /\ (seen.settled => reservation.settled)
      /\ (seen.setup => reservation.setup) /\ (seen.main => reservation.main)
      /\ (seen.phase \in {"none", "reserved"} => seen.settled)
  BY <1>1 DEF ExecutionInv, ExecutionTypes, SeenStands, Removals
<1>3. /\ \/ Unresolved(a) = {} /\ reservation' = reservation
         \/ Unresolved(a) = {"setup"} /\ reservation' = SetupBound /\ reservation.phase = "setup"
         \/ Unresolved(a) = {"main"} /\ reservation' = MainBound /\ reservation.phase = "main"
  <2>1. /\ Unresolved(a) \subseteq {"setup", "main"}
        /\ \A phase \in Unresolved(a) : phase = seen.phase
    BY DEF Unresolved, Phases
  <2>2. /\ "setup" \in Unresolved(a) => reservation' = SetupBound
        /\ "main" \in Unresolved(a) => reservation' = MainBound
        /\ "setup" \notin Unresolved(a) /\ "main" \notin Unresolved(a) => reservation' = reservation
    <3>1. reservation' = IF "setup" \in Unresolved(a) THEN SetupBound
                         ELSE IF "main" \in Unresolved(a) THEN MainBound ELSE reservation
      BY Zenon DEF Resolve
    <3>2. ~("setup" \in Unresolved(a) /\ "main" \in Unresolved(a))
      BY <2>1
    <3> QED BY ONLY <3>1, <3>2
  <2> QED BY <1>2, <2>1, <2>2
<1>4. setup \in BOOLEAN /\ main \in BOOLEAN /\ at2 \in {"stopped", "remove"}
      /\ (setup <=> seen.setup \/ "setup" \in Unresolved(a)) /\ (main <=> seen.main \/ "main" \in Unresolved(a))
  BY <1>2, Zenon DEF Rows
<1>5. \A phase \in Phases : seen.phase = phase /\ ~seen.settled => IF phase = "setup" THEN setup ELSE main
  BY <1>4, Zenon DEF Unresolved, Phases
<1> HIDE DEF setup, main, at2
<1>6. /\ then \in Rows /\ then.phase = seen.phase /\ then.settled = seen.settled /\ then.setup = setup /\ then.main = main
  BY <1>2, <1>4 DEF Rows
<1> HIDE DEF then, seen
<1>7. next \in Removals /\ next.at = at2 /\ next.seen = then
  BY <1>4, <1>6 DEF Removals
<1> HIDE DEF next
<1>8. /\ removal' \in [Removers -> Removals]
      /\ removal'[a].at = at2 /\ removal'[a].seen = then
      /\ \A b \in Removers \ {a} : removal'[b] = removal[b]
  BY <1>1, <1>2, <1>7
<1>9. /\ Grows(reservation, reservation')
      /\ reservation'.main => reservation.main \/ reservation.phase = "main"
      /\ reservation'.setup => reservation.setup \/ reservation.phase = "setup"
      /\ "setup" \in Unresolved(a) => reservation'.setup
      /\ "main" \in Unresolved(a) => reservation'.main
  BY <1>2, <1>3, GrowsReflexive, RowSetupBound, RowMainBound
<1>10. reservation' \in Rows /\ reservation'.phase = reservation.phase
  BY <1>9 DEF Grows
<1>11. SeenStands'
  <2>1. setup => reservation'.setup
    BY <1>2, <1>4, <1>9 DEF Grows
  <2>2. main => reservation'.main
    BY <1>2, <1>4, <1>9 DEF Grows
  <2>3. \A b \in Removers \ {a} : removal[b].at # "idle" =>
            /\ reservation'.revoked /\ removal[b].seen.phase = reservation'.phase
            /\ removal[b].seen.settled => reservation'.settled
            /\ removal[b].seen.setup => reservation'.setup
            /\ removal[b].seen.main => reservation'.main
            /\ removal[b].seen.phase \in {"none", "reserved"} => removal[b].seen.settled
    BY <1>9 DEF ExecutionInv, SeenStands, Grows
  <2>4. /\ reservation'.revoked /\ then.phase = reservation'.phase
        /\ then.settled => reservation'.settled
        /\ then.setup => reservation'.setup
        /\ then.main => reservation'.main
        /\ then.phase \in {"none", "reserved"} => then.settled
    BY <1>2, <1>6, <1>9, <1>10, <2>1, <2>2 DEF Grows, seen
  <2> QED BY <1>8, <2>3, <2>4 DEF SeenStands
<1>12. Removed'
  <2>1. Unresolved(a)' = {}
    BY <1>5, <1>6, <1>8 DEF Unresolved, Phases
  <2>2. \A b \in Removers \ {a} : Unresolved(b)' = Unresolved(b)
    BY <1>8 DEF Unresolved
  <2> QED BY <1>1, <1>4, <1>8, <2>1, <2>2 DEF ExecutionInv, Removed
<1>13. Recorded'
  <2> SUFFICES ASSUME NEW phase \in Phases, creator = phase \/ request = phase
               PROVE  /\ reservation'.phase = phase /\ ~BoundIn(reservation', phase) /\ ~reservation'.settled
                      /\ phase \notin containers
    BY <1>1 DEF Recorded
  <2>1. /\ reservation.phase = phase /\ ~BoundIn(reservation, phase) /\ ~reservation.settled
        /\ phase \notin containers
    BY DEF ExecutionInv, Recorded
  <2>2. reservation' = reservation
    BY <1>1, <1>3, <2>1
  <2> QED BY <2>1, <2>2
<1>14. CreatesInOrder' /\ Over'
  BY <1>1, <1>9, <1>10 DEF ExecutionInv, CreatesInOrder, Over, Phases
<1> QED BY <1>1, <1>8, <1>10, <1>11, <1>12, <1>13, <1>14 DEF ExecutionInv, ExecutionTypes

\* Everything with the labels of the turn is removed.
LEMMA RemoveListedKeeps == ASSUME ExecutionInv, NEW a \in Removers, RemoveListed(a) PROVE ExecutionInv'
<1>1. /\ UNCHANGED <<reservation, request, creator, epoch>> /\ containers' = {} /\ removal[a].at = "remove"
      /\ removal' = [removal EXCEPT ![a].at = "confirm"]
  BY DEF RemoveListed, StepsTo
<1>2. removal \in [Removers -> Removals]
  BY DEF ExecutionInv, ExecutionTypes
<1>3. LET next == [removal[a] EXCEPT !.at = "confirm"]
      IN  next \in Removals /\ next.at = "confirm" /\ next.seen = removal[a].seen
  BY <1>2 DEF Removals
<1>4. /\ removal' \in [Removers -> Removals]
      /\ removal'[a].at = "confirm" /\ removal'[a].seen = removal[a].seen
      /\ \A b \in Removers \ {a} : removal'[b] = removal[b]
  BY <1>1, <1>2, <1>3
<1>5. SeenStands'
  BY <1>1, <1>4 DEF ExecutionInv, SeenStands
<1>6. Removed'
  BY <1>1, <1>4 DEF ExecutionInv, Removed, Unresolved
<1> QED BY <1>1, <1>4, <1>5, <1>6 DEF ExecutionInv, ExecutionTypes, Recorded, CreatesInOrder, Over, Phases, BoundIn

\* The absence is confirmed: what is settled by it was resolved before.
LEMMA ConfirmKeeps == ASSUME ExecutionInv, NEW a \in Removers, ConfirmAbsent(a) PROVE ExecutionInv'
<1> DEFINE done == reservation.setupSettled \/ removal[a].seen.setup
           over == reservation.settled \/ removal[a].seen.phase = "setup"
<1>1. /\ UNCHANGED <<containers, request, creator, epoch>> /\ removal[a].at = "confirm"
      /\ reservation' = [[reservation EXCEPT !.setupSettled = done] EXCEPT !.settled = over]
      /\ removal' = [removal EXCEPT ![a].at = "absent"]
  <2>1. [reservation EXCEPT !.setupSettled = done].settled = reservation.settled
    BY DEF ExecutionInv, ExecutionTypes, Rows
  <2> QED BY <2>1 DEF ConfirmAbsent, StepsTo
<1>2. removal \in [Removers -> Removals] /\ reservation \in Rows
  BY DEF ExecutionInv, ExecutionTypes
<1>3. done \in BOOLEAN /\ over \in BOOLEAN /\ (reservation.settled => over)
  BY <1>2
<1> HIDE DEF done, over
<1>4. Grows(reservation, reservation') /\ reservation'.setup = reservation.setup /\ reservation'.main = reservation.main
  BY <1>1, <1>2, <1>3 DEF Rows, Grows
<1>5. LET next == [removal[a] EXCEPT !.at = "absent"]
      IN  next \in Removals /\ next.at = "absent" /\ next.seen = removal[a].seen
  BY <1>2 DEF Removals
<1>6. /\ removal' \in [Removers -> Removals]
      /\ removal'[a].at = "absent" /\ removal'[a].seen = removal[a].seen
      /\ \A b \in Removers \ {a} : removal'[b] = removal[b]
  BY <1>1, <1>2, <1>5
<1>7. reservation' \in Rows /\ reservation'.phase = reservation.phase
  BY <1>4 DEF Grows
<1>8. SeenStands'
  BY <1>1, <1>4, <1>6 DEF ExecutionInv, SeenStands, Grows
<1>9. Removed'
  BY <1>1, <1>6 DEF ExecutionInv, Removed, Unresolved
<1>10. request \notin Phases /\ creator \notin Phases
  BY <1>1, NoneOutstanding
<1> QED BY <1>1, <1>4, <1>6, <1>7, <1>8, <1>9, <1>10 DEF ExecutionInv, ExecutionTypes, Recorded, CreatesInOrder, Over, Phases

LEMMA ExecutionKeeps == ASSUME ExecutionInv, ExecutionNext PROVE ExecutionInv'
<1>1. CASE CreatorDies
  BY <1>1, IdleKeeps DEF CreatorDies, Removers
<1>2. CASE Recover
  BY <1>2 DEF Recover, ExecutionInv, ExecutionTypes, Recorded, CreatesInOrder, SeenStands, Removed, Over, Phases, BoundIn,
       Unresolved
<1>3. ASSUME NEW a \in Removers, RemovalFails(a) PROVE ExecutionInv'
  BY <1>3, IdleKeeps DEF RemovalFails, StepsTo
<1>4. ASSUME NEW a \in Removers, SettleExecution(a) PROVE ExecutionInv'
  BY <1>4, IdleKeeps DEF SettleExecution, StepsTo
<1> QED BY <1>1, <1>2, <1>3, <1>4, ReserveKeeps, BeginKeeps, SendKeeps, DaemonKeeps, AnsweredKeeps, FailureKeeps, FinishSetupKeeps,
        RevokeKeeps, ResolveKeeps, RemoveListedKeeps, ConfirmKeeps DEF ExecutionNext

\* Once the end of a turn is recorded no container of it is there and none comes, whatever its worker, its recovery and
\* the daemon were doing (EnsureKeyAbsent, resolveCreation, RevokeExecution).
THEOREM AbsenceIsFinalAlways == ExecutionSpec => []AbsenceIsFinal
<1>1. ExecutionInit => ExecutionInv
  BY ExecutionInitially
<1>2. ExecutionInv /\ [ExecutionNext]_ExecutionVars => ExecutionInv'
  <2> SUFFICES ASSUME ExecutionInv, [ExecutionNext]_ExecutionVars PROVE ExecutionInv'
    OBVIOUS
  <2>1. CASE UNCHANGED ExecutionVars
    BY <2>1 DEF ExecutionVars, ExecutionInv, ExecutionTypes, Recorded, CreatesInOrder, SeenStands, Removed, Over, Phases,
         BoundIn, Unresolved
  <2> QED BY <2>1, ExecutionKeeps
<1>3. ExecutionInv => AbsenceIsFinal
  BY DEF ExecutionInv, Over, AbsenceIsFinal
<1> QED BY <1>1, <1>2, <1>3, PTL DEF ExecutionSpec

-----------------------------------------------------------------------------
(* The state of a Session.                                                 *)

\* Where an operator is on the way of a restore, it holds its transaction, and no turn and no collection is there.
StateTypes ==
    /\ row \in [initialized : BOOLEAN, turn : Launchers \cup {Nobody}, collecting : BOOLEAN, deleted : BOOLEAN]
    /\ launcher \in [Launchers -> {"idle", "bound", "inspecting", "making", "ready", "running", "failed"}]
    /\ operator \in [Operators -> {"idle", "begun", "unpacking", "unpacked", "renaming", "leaving"}]
LockSound ==
    /\ \A o \in Operators : operator[o] # "idle" => lock = o
    /\ lock # Nobody => row.turn = Nobody /\ ~row.collecting
CollectionRests ==
    /\ row.collecting => row.turn = Nobody /\ lock = Nobody
    /\ row.deleted => row.collecting
    /\ NothingOutlivesCollection

\* A state that was lost was recorded before, and no launch that began before that is on its way to make it.
LostIsKnown == directory = "lost" => row.initialized /\ \A l \in Launchers : launcher[l] # "making"

\* The turn that has found or made its state still has it.
TurnHasState == \A l \in Launchers : row.turn = l /\ launcher[l] \in {"ready", "running"} => ~Missing

StateInv == StateTypes /\ LockSound /\ CollectionRests /\ LostIsKnown /\ TurnHasState

\* What a step may do to the state (SessionIsKept).
Keeps ==
    /\ directory = "lost" => directory' # "empty"
    /\ \A l \in Launchers : launcher[l] = "running" /\ row.turn = l => directory' \in {directory, "session"}
    /\ NothingOutlivesCollection'

LEMMA StateInitially == ASSUME StateInit PROVE StateInv
BY DEF StateInit, StateInv, StateTypes, LockSound, CollectionRests, NothingOutlivesCollection, LostIsKnown, TurnHasState, Nobody

\* A launch takes a step on its way.
LEMMA LaunchKeeps ==
    ASSUME StateInv, NEW l \in Launchers, Bind(l) \/ ReadMetadata(l) \/ Inspect(l) \/ Make(l) \/ MarkInitialized(l)
    PROVE  StateInv' /\ Keeps
<1> USE SessionAssumption
<1>1. UNCHANGED <<staging, lock, operator, lost>>
  BY DEF Bind, ReadMetadata, Inspect, Make, MarkInitialized
<1>2. CASE Bind(l)
  BY <1>1, <1>2 DEF Bind, Steps, StateInv, StateTypes, LockSound, CollectionRests, NothingOutlivesCollection, LostIsKnown,
       TurnHasState, Missing, Keeps
<1>3. CASE ReadMetadata(l)
  BY <1>1, <1>3 DEF ReadMetadata, Steps, StateInv, StateTypes, LockSound, CollectionRests, NothingOutlivesCollection, LostIsKnown,
       TurnHasState, Missing, Keeps
<1>4. CASE Inspect(l)
  BY <1>1, <1>4 DEF Inspect, Steps, StateInv, StateTypes, LockSound, CollectionRests, NothingOutlivesCollection, LostIsKnown,
       TurnHasState, Missing, Keeps
<1>5. CASE Make(l)
  BY <1>1, <1>5 DEF Make, Steps, StateInv, StateTypes, LockSound, CollectionRests, NothingOutlivesCollection, LostIsKnown,
       TurnHasState, Missing, Keeps
<1>6. CASE MarkInitialized(l)
  BY <1>1, <1>6 DEF MarkInitialized, Steps, StateInv, StateTypes, LockSound, CollectionRests, NothingOutlivesCollection, LostIsKnown,
       TurnHasState, Missing, Keeps
<1> QED BY <1>2, <1>3, <1>4, <1>5, <1>6

\* A turn writes, ends, or is recovered without its launcher.
LEMMA TurnKeeps ==
    ASSUME StateInv, NEW l \in Launchers, WriteSession(l) \/ EndTurn(l) \/ LaunchEnds(l) PROVE StateInv' /\ Keeps
<1> USE SessionAssumption
<1>1. CASE WriteSession(l)
  BY <1>1 DEF WriteSession, StateInv, StateTypes, LockSound, CollectionRests, NothingOutlivesCollection, LostIsKnown,
       TurnHasState, Missing, Keeps
<1>2. CASE EndTurn(l)
  BY <1>2 DEF EndTurn, StateInv, StateTypes, LockSound, CollectionRests, NothingOutlivesCollection, LostIsKnown,
       TurnHasState, Missing, Keeps
<1>3. CASE LaunchEnds(l)
  BY <1>3 DEF LaunchEnds, StateInv, StateTypes, LockSound, CollectionRests, NothingOutlivesCollection, LostIsKnown,
       TurnHasState, Missing, Keeps
<1> QED BY <1>1, <1>2, <1>3

\* A restore takes a step: whatever it does to the state, no turn is there.
LEMMA RestoreKeeps ==
    ASSUME StateInv, NEW o \in Operators,
           BeginRestore(o) \/ Stage(o) \/ Unpack(o) \/ Compare(o) \/ RenameStage(o) \/ EndRestore(o) \/ KillRestore(o)
    PROVE  StateInv' /\ Keeps
<1> USE SessionAssumption
<1>1. /\ UNCHANGED <<row, launcher, lost>>
      /\ operator' \in [Operators -> {"idle", "begun", "unpacking", "unpacked", "renaming", "leaving"}]
      /\ \A p \in Operators \ {o} : operator'[p] = operator[p]
      /\ operator'[o] # "idle" => lock' = o
      /\ lock' \in {o, Nobody}
      /\ lock \in {o, Nobody}
      /\ lock' = o => row.turn = Nobody /\ ~row.collecting
  BY DEF BeginRestore, Stage, Unpack, Compare, RenameStage, EndRestore, KillRestore, Does, StateInv, StateTypes, LockSound
<1>2. \/ directory' = directory
      \/ directory' = "archive" /\ lock = o
  BY DEF BeginRestore, Stage, Unpack, Compare, RenameStage, EndRestore, KillRestore, Does, StateInv, LockSound
<1>3. \/ staging' \subseteq staging
      \/ lock = o
  BY DEF BeginRestore, Stage, Unpack, Compare, RenameStage, EndRestore, KillRestore, Does, StateInv, LockSound
<1>4. LockSound' /\ StateTypes'
  BY <1>1 DEF StateInv, StateTypes, LockSound
<1>5. lock = o => row.turn = Nobody /\ ~row.collecting /\ ~row.deleted
  BY DEF StateInv, LockSound, CollectionRests
<1>6. CollectionRests'
  BY <1>1, <1>2, <1>3, <1>5 DEF StateInv, CollectionRests, NothingOutlivesCollection
<1>7. LostIsKnown' /\ TurnHasState' /\ Keeps
  BY <1>1, <1>2, <1>5, <1>6 DEF StateInv, LostIsKnown, TurnHasState, Missing, Keeps, CollectionRests
<1> QED BY <1>4, <1>6, <1>7 DEF StateInv

\* The Participant is collected, or a disk is lost: no turn is there, or none that runs.
LEMMA CollectKeeps ==
    ASSUME StateInv, Authorize \/ CollectStaging \/ Collect \/ Lose PROVE StateInv' /\ Keeps
<1> USE SessionAssumption
<1>1. CASE Authorize
  BY <1>1 DEF Authorize, StateInv, StateTypes, LockSound, CollectionRests, NothingOutlivesCollection, LostIsKnown,
       TurnHasState, Missing, Keeps
<1>2. CASE CollectStaging
  BY <1>2 DEF CollectStaging, StateInv, StateTypes, LockSound, CollectionRests, NothingOutlivesCollection, LostIsKnown,
       TurnHasState, Missing, Keeps
<1>3. CASE Collect
  <2>1. /\ UNCHANGED <<staging, lock, launcher, operator, lost>> /\ directory' = "absent" /\ staging = {}
        /\ row.collecting /\ row.turn = Nobody /\ row' \in {row, [row EXCEPT !.deleted = TRUE]}
    BY <1>3 DEF Collect, StateInv, CollectionRests
  <2>2. /\ row' \in [initialized : BOOLEAN, turn : Launchers \cup {Nobody}, collecting : BOOLEAN, deleted : BOOLEAN]
        /\ row'.turn = Nobody /\ row'.collecting
    BY <2>1 DEF StateInv, StateTypes
  <2> QED BY <2>1, <2>2 DEF StateInv, StateTypes, LockSound, CollectionRests, NothingOutlivesCollection, LostIsKnown,
         TurnHasState, Missing, Keeps
<1>4. CASE Lose
  BY <1>4 DEF Lose, StateInv, StateTypes, LockSound, CollectionRests, NothingOutlivesCollection, LostIsKnown,
       TurnHasState, Missing, Keeps
<1> QED BY <1>1, <1>2, <1>3, <1>4

\* The state of a Session is kept: what was lost is not replaced by an empty directory, what a running turn works on not
\* by a restore, and nothing is left, nor comes, of a Participant that is deleted (RetainedState.Ensure, Restore,
\* Collect, Store.WithStateRecovery).
THEOREM SessionIsKeptAlways == StateSpec => SessionIsKept
<1>1. StateInit => StateInv
  BY StateInitially
<1>2. StateInv /\ [StateNext]_stateVars => StateInv'
  <2> SUFFICES ASSUME StateInv, [StateNext]_stateVars PROVE StateInv'
    OBVIOUS
  <2>1. CASE UNCHANGED stateVars
    BY <2>1 DEF stateVars, StateInv, StateTypes, LockSound, CollectionRests, NothingOutlivesCollection, LostIsKnown,
       TurnHasState, Missing
  <2> QED BY <2>1, LaunchKeeps, TurnKeeps, RestoreKeeps, CollectKeeps DEF StateNext
<1>3. StateInv /\ [StateNext]_stateVars => [Keeps]_stateVars
  BY LaunchKeeps, TurnKeeps, RestoreKeeps, CollectKeeps DEF StateNext
<1>4. StateSpec => [][Keeps]_stateVars
  BY <1>1, <1>2, <1>3, PTL DEF StateSpec
<1> QED BY <1>4 DEF SessionIsKept, Keeps

-----------------------------------------------------------------------------
(* The workspace of an Assignment.                                         *)

Trees   == [of : Epochs \cup {0}, v : Nat]
Storage == [active : Trees, staged : SUBSET Epochs, retired : SUBSET [by : Epochs, tree : Trees], scratch : SUBSET Epochs]
Records == [read : [Actors -> Trees], artifact : Trees, seal : Trees]
Early   == {"clean", "clone", "detach", "activate", "drop", "paths", "create", "failed"}
Last    == {"scratch", "discard", "retire", "settle"}
Late    == {"admit", "load", "publish", "seal", "adopt", "remove"} \cup Last
Places  == {"none", "run", "stop", "lost", "over", "dead"} \cup Early \cup Late

WorkspacesTypes ==
    /\ turn \in [n : Epochs, holder : Actors \cup {"nobody"}]
    /\ at \in [Epochs -> [Actors -> Places]]
    /\ files \in Storage
    /\ container \in [Epochs -> {"none", "running", "stopped", "gone"}]
    /\ revoked \in SUBSET Epochs
    /\ left \in [Epochs -> Trees]
    /\ evidence \in [Epochs -> Records]

\* A turn that has not begun has done nothing; a recovery never launches; only the holder is between its two renames.
InTurn ==
    \A e \in Epochs :
        /\ e > turn.n => container[e] = "none" /\ \A a \in Actors : at[e][a] = "none"
        /\ at[e]["recovery"] \notin Early \cup {"run"}
        /\ at[e]["launcher"] # "stop"
        /\ at[e]["launcher"] = "activate" => Holds("launcher", e)

\* Until its container is created a turn has left nothing; past its stop it is not created any more.
Launches ==
    \A e \in Epochs :
        /\ at[e]["launcher"] \in Early => left[e] = Nothing /\ container[e] \notin {"running", "stopped"}
        /\ container[e] \in {"none", "running"} => left[e] = Nothing
        /\ at[e]["recovery"] \in Late => e \in revoked
        /\ \A a \in Actors :
            /\ at[e][a] \in Late => container[e] # "running"
            /\ at[e][a] \in Last => container[e] = "gone"

\* A turn whose container runs, or may still be created, or has stopped and is not removed, is not over; the workspace is
\* its own, and as its container left it.
MayRun(e) == at[e]["launcher"] = "create" /\ e \notin revoked
Works ==
    \A e \in Epochs :
        /\ container[e] \in {"running", "stopped"} \/ MayRun(e) => turn.n = e /\ turn.holder # "nobody"
        /\ container[e] = "running" \/ MayRun(e) => files.active.of = e /\ e \in files.scratch
        /\ container[e] = "stopped" => files.active = left[e]
        /\ at[e]["launcher"] \in {"drop", "paths"} /\ Holds("launcher", e) => files.active.of = e

\* What is kept of a turn is what it left, at every step of its capture.
Captured(e) ==
    /\ evidence[e].artifact \in {Nothing, left[e]}
    /\ evidence[e].seal # Nothing => evidence[e].seal = left[e] /\ evidence[e].artifact = left[e]
    /\ container[e] = "gone" /\ left[e] # Nothing => evidence[e].seal = left[e]
    /\ \A a \in Actors :
        /\ at[e][a] \in {"load", "publish", "seal", "adopt"} => left[e] # Nothing
        /\ at[e][a] \in {"publish", "seal"} => evidence[e].read[a] = left[e]
        /\ at[e][a] = "seal" => evidence[e].artifact = left[e]
        /\ at[e][a] = "adopt" => evidence[e].seal = left[e]
        /\ at[e][a] \in {"remove"} \cup Last /\ left[e] # Nothing => evidence[e].seal = left[e]
Captures == \A e \in Epochs : Captured(e)

WorkspacesInv == WorkspacesTypes /\ InTurn /\ Launches /\ Works /\ Captures

LEMMA FirstTurn == 1 \in Epochs /\ Epochs \subseteq Nat \ {0}
BY WorkspacesAssumption DEF Epochs

LEMMA WorkspacesInitially == ASSUME WorkspacesInit PROVE WorkspacesInv
<1>1. Absent \in Trees /\ Nothing \in Trees
  BY DEF Absent, Nothing, Trees
<1>2. /\ turn.n = 1 /\ turn.holder = "launcher" /\ turn \in [n : Epochs, holder : Actors \cup {"nobody"}]
  BY FirstTurn DEF WorkspacesInit, Actors
<1>3. /\ at \in [Epochs -> [Actors -> Places]]
      /\ \A e \in Epochs, a \in Actors :
          at[e][a] = (IF a = "launcher" /\ e = 1 THEN "clean" ELSE "none")
  BY DEF WorkspacesInit, Places, Early
<1>4. files \in Storage
  BY <1>1 DEF WorkspacesInit, Storage
<1>5. /\ [a \in Actors |-> Nothing] \in [Actors -> Trees]
      /\ evidence \in [Epochs -> Records]
      /\ \A e \in Epochs : evidence[e].artifact = Nothing /\ evidence[e].seal = Nothing
  BY <1>1 DEF WorkspacesInit, Records
<1>6. /\ container \in [Epochs -> {"none", "running", "stopped", "gone"}] /\ revoked \in SUBSET Epochs
      /\ left \in [Epochs -> Trees]
      /\ \A e \in Epochs : container[e] = "none" /\ left[e] = Nothing
  BY <1>1 DEF WorkspacesInit
<1>7. WorkspacesTypes
  BY <1>2, <1>3, <1>4, <1>5, <1>6 DEF WorkspacesTypes
<1>8. InTurn
  BY <1>2, <1>3, <1>6, FirstTurn DEF InTurn, Early, Actors
<1>9. Launches /\ Works
  BY <1>2, <1>3, <1>6 DEF Launches, Works, MayRun, Actors, Late, Last
<1>10. Captures
  BY <1>3, <1>5, <1>6 DEF Captures, Captured, Last
<1> QED BY <1>7, <1>8, <1>9, <1>10 DEF WorkspacesInv

\* An actor goes on, and no other does.
LEMMA GoesOn ==
    ASSUME WorkspacesTypes, NEW a \in Actors, NEW e \in Epochs, NEW where \in Places, Goes(a, e, where)
    PROVE  /\ at' \in [Epochs -> [Actors -> Places]]
           /\ at'[e][a] = where
           /\ \A d \in Epochs, b \in Actors : d # e \/ b # a => at'[d][b] = at[d][b]
BY DEF WorkspacesTypes, Goes

\* The fields of the files that a step may touch without touching a turn's work.
LEMMA Staging ==
    ASSUME files \in Storage, NEW stage \in SUBSET Epochs
    PROVE  LET next == [files EXCEPT !.staged = stage]
           IN  next \in Storage /\ next.active = files.active /\ next.scratch = files.scratch
BY DEF Storage

LEMMA Retiring ==
    ASSUME files \in Storage, NEW kept \in SUBSET [by : Epochs, tree : Trees]
    PROVE  LET next == [files EXCEPT !.retired = kept]
           IN  next \in Storage /\ next.active = files.active /\ next.scratch = files.scratch
BY DEF Storage

LEMMA Scratch ==
    ASSUME files \in Storage, NEW kept \in SUBSET Epochs
    PROVE  LET next == [files EXCEPT !.scratch = kept]
           IN  next \in Storage /\ next.active = files.active /\ next.scratch = kept
BY DEF Storage

\* The workspace is detached.
LEMMA Detaching ==
    ASSUME files \in Storage, NEW e \in Epochs
    PROVE  Detached(e) \in Storage /\ Detached(e).scratch = files.scratch
<1> DEFINE kept == files.retired \cup IF files.active = Absent THEN {} ELSE {[by |-> e, tree |-> files.active]}
<1>1. Absent \in Trees
  BY DEF Absent, Trees
<1>2. files.active \in Trees /\ files.retired \in SUBSET [by : Epochs, tree : Trees]
  BY DEF Storage
<1>3. kept \in SUBSET [by : Epochs, tree : Trees]
  BY <1>2
<1>4. [files EXCEPT !.active = Absent].retired = files.retired
  BY DEF Storage
<1>5. Detached(e) = [files EXCEPT !.active = Absent, !.retired = kept]
  BY <1>4 DEF Detached
<1> HIDE DEF kept
<1> QED BY <1>1, <1>3, <1>5 DEF Storage

\* An actor goes on to where it relies on nothing it has not already, or on what the ledger and the disk show.
MayGo(a, e, where) ==
    /\ where \in Places \ {"activate", "create", "publish", "seal", "none"} /\ at[e][a] # "none"
    /\ IF a = "launcher" THEN where # "stop" ELSE where \notin Early \cup {"run"}
    /\ where \in Early => at[e][a] \in Early
    /\ where \in {"drop", "paths"} => at[e][a] \in {"drop", "paths"}
    /\ where \in Late => at[e][a] \in Late
    /\ where \in Last => at[e][a] \in Last
    /\ where \in {"load", "adopt"} => left[e] # Nothing
    /\ where = "adopt" => evidence[e].seal = left[e]
    /\ where = "remove" /\ left[e] # Nothing => evidence[e].seal = left[e]

LEMMA MoveKeeps ==
    ASSUME WorkspacesInv, NEW a \in Actors, NEW e \in Epochs, NEW where, MayGo(a, e, where), Goes(a, e, where),
           UNCHANGED <<turn, container, revoked, left, evidence>>,
           files' \in Storage, files'.active = files.active, files'.scratch = files.scratch
    PROVE  WorkspacesInv'
<1>1. where \in Places
  BY DEF MayGo
<1>2. /\ at' \in [Epochs -> [Actors -> Places]]
      /\ at'[e][a] = where
      /\ \A d \in Epochs, b \in Actors : d # e \/ b # a => at'[d][b] = at[d][b]
  BY <1>1, GoesOn DEF WorkspacesInv
<1>3. WorkspacesTypes'
  BY <1>2 DEF WorkspacesInv, WorkspacesTypes
<1>4. InTurn'
  BY <1>2 DEF WorkspacesInv, InTurn, MayGo, Holds, Actors, Early
<1>5. Launches'
  BY <1>2 DEF WorkspacesInv, Launches, MayGo, Actors
<1>6. Works'
  BY <1>2 DEF WorkspacesInv, Works, MayRun, MayGo, Holds, Actors
<1>7. Captures'
  BY <1>2 DEF WorkspacesInv, Captures, Captured, MayGo, Late, Last
<1> QED BY <1>3, <1>4, <1>5, <1>6, <1>7 DEF WorkspacesInv

-----------------------------------------------------------------------------
(* The steps of a launch.                                                  *)

LEMMA CleanStagedKeeps == ASSUME WorkspacesInv, NEW e \in Epochs, CleanStaged(e) PROVE WorkspacesInv'
<1>1. PICK stage \in SUBSET Epochs, where \in {"clone", "failed"} :
        files' = [files EXCEPT !.staged = stage] /\ Goes("launcher", e, where)
  BY DEF CleanStaged, WorkspacesInv, WorkspacesTypes, Storage
<1>2. files' \in Storage /\ files'.active = files.active /\ files'.scratch = files.scratch
  BY <1>1, Staging DEF WorkspacesInv, WorkspacesTypes
<1>3. MayGo("launcher", e, where)
  BY <1>1 DEF MayGo, CleanStaged, Places, Early, Late, Last
<1> QED BY <1>1, <1>2, <1>3, MoveKeeps DEF CleanStaged, Actors

LEMMA CloneKeeps == ASSUME WorkspacesInv, NEW e \in Epochs, Clone(e) PROVE WorkspacesInv'
<1>1. PICK where \in {"detach", "failed"} :
        (files' = files \/ files' = [files EXCEPT !.staged = files.staged \cup {e}]) /\ Goes("launcher", e, where)
  BY DEF Clone
<1>2. files.staged \cup {e} \in SUBSET Epochs
  BY DEF WorkspacesInv, WorkspacesTypes, Storage
<1> DEFINE more == files.staged \cup {e}
<1>3. files' \in Storage /\ files'.active = files.active /\ files'.scratch = files.scratch
  <2>1. files \in Storage /\ more \in SUBSET Epochs /\ (files' = files \/ files' = [files EXCEPT !.staged = more])
    BY <1>1, <1>2 DEF WorkspacesInv, WorkspacesTypes
  <2> HIDE DEF more
  <2>2. CASE files' = files
    BY <2>1, <2>2
  <2>3. CASE files' = [files EXCEPT !.staged = more]
    BY <2>1, <2>3, Staging
  <2> QED BY <2>1, <2>2, <2>3
<1>4. MayGo("launcher", e, where)
  BY <1>1 DEF MayGo, Clone, Places, Early, Late, Last
<1> QED BY <1>1, <1>3, <1>4, MoveKeeps DEF Clone, Actors

\* The holder of the turn is at its first rename: no container has the workspace.
LEMMA DetachKeeps == ASSUME WorkspacesInv, NEW e \in Epochs, Detach(e) PROVE WorkspacesInv'
<1>1. CASE ~Holds("launcher", e)
  <2>1. files' = [files EXCEPT !.staged = files.staged \ {e}] /\ Goes("launcher", e, "lost")
    BY <1>1 DEF Detach
  <2>2. files.staged \ {e} \in SUBSET Epochs
    BY DEF WorkspacesInv, WorkspacesTypes, Storage
  <2>3. files' \in Storage /\ files'.active = files.active /\ files'.scratch = files.scratch
    BY <2>1, <2>2, Staging DEF WorkspacesInv, WorkspacesTypes
  <2>4. MayGo("launcher", e, "lost")
    BY DEF MayGo, Detach, Places, Early, Late, Last
  <2> QED BY <2>1, <2>3, <2>4, MoveKeeps DEF Detach, Actors
<1>2. CASE Holds("launcher", e)
  <2>1. /\ files' = Detached(e) /\ Goes("launcher", e, "activate") /\ at[e]["launcher"] = "detach"
        /\ UNCHANGED <<turn, container, revoked, left, evidence>>
    BY <1>2 DEF Detach
  <2>2. files' \in Storage /\ files'.scratch = files.scratch
    BY <2>1, Detaching DEF WorkspacesInv, WorkspacesTypes
  <2>3. /\ at' \in [Epochs -> [Actors -> Places]]
        /\ at'[e]["launcher"] = "activate"
        /\ \A d \in Epochs, b \in Actors : d # e \/ b # "launcher" => at'[d][b] = at[d][b]
    BY <2>1, GoesOn DEF WorkspacesInv, Actors, Places, Early
  <2>4. /\ turn.n = e /\ turn.holder = "launcher"
        /\ container[e] \notin {"running", "stopped"}
        /\ \A d \in Epochs : container[d] \notin {"running", "stopped"} /\ ~MayRun(d)
    BY <1>2, <2>1 DEF Holds, WorkspacesInv, Launches, Works, MayRun, Early
  <2>5. WorkspacesTypes'
    BY <2>1, <2>2, <2>3 DEF WorkspacesInv, WorkspacesTypes
  <2>6. InTurn' /\ Launches'
    BY <1>2, <2>1, <2>3, <2>4 DEF WorkspacesInv, InTurn, Launches, Holds, Actors, Early, Late, Last
  <2>7. Works'
    <3>1. \A d \in Epochs : container'[d] \notin {"running", "stopped"} /\ ~(at'[d]["launcher"] = "create" /\ d \notin revoked')
      BY <2>1, <2>3, <2>4 DEF MayRun, Actors
    <3>2. \A d \in Epochs : ~(at'[d]["launcher"] \in {"drop", "paths"} /\ turn'.n = d)
      BY <2>1, <2>3, <2>4
    <3> QED BY <3>1, <3>2, <2>1, <2>4 DEF Works, MayRun, Holds
  <2>8. Captures'
    BY <2>1, <2>3 DEF WorkspacesInv, Captures, Captured, Last
  <2> QED BY <2>5, <2>6, <2>7, <2>8 DEF WorkspacesInv
<1> QED BY <1>1, <1>2

\* The checkout is in its place, or what was there before is.
LEMMA ActivateKeeps == ASSUME WorkspacesInv, NEW e \in Epochs, Activate(e) PROVE WorkspacesInv'
<1>1. Absent \in Trees /\ [of |-> e, v |-> 0] \in Trees
  BY DEF Absent, Trees
<1>2. PICK tree \in Trees, where \in {"drop", "failed"}, kept \in SUBSET [by : Epochs, tree : Trees] :
        /\ Goes("launcher", e, where) /\ (where = "drop" => tree.of = e)
        /\ files' = [files EXCEPT !.active = tree, !.retired = kept, !.staged = files.staged \ {e}]
  <2>0. files \in Storage
    BY DEF WorkspacesInv, WorkspacesTypes
  <2>1. CASE files' = [files EXCEPT !.active = [of |-> e, v |-> 0], !.staged = files.staged \ {e}] /\ Goes("launcher", e, "drop")
    <3>1. files' = [files EXCEPT !.active = [of |-> e, v |-> 0], !.retired = files.retired, !.staged = files.staged \ {e}]
      BY <2>0, <2>1 DEF Storage
    <3>2. files.retired \in SUBSET [by : Epochs, tree : Trees] /\ [of |-> e, v |-> 0].of = e
      BY <2>0 DEF Storage
    <3> QED BY <1>1, <2>1, <3>1, <3>2
  <2>2. CASE ~(files' = [files EXCEPT !.active = [of |-> e, v |-> 0], !.staged = files.staged \ {e}] /\ Goes("launcher", e, "drop"))
    <3> DEFINE mine == {r \in files.retired : r.by = e}
               tree == IF mine = {} THEN Absent ELSE (CHOOSE r \in mine : TRUE).tree
               kept == files.retired \ mine
    <3>1. mine \subseteq [by : Epochs, tree : Trees] /\ kept \in SUBSET [by : Epochs, tree : Trees]
      BY <2>0 DEF Storage
    <3>2. tree \in Trees
      BY <1>1, <3>1
    <3>3. files' = [files EXCEPT !.active = tree, !.retired = kept, !.staged = files.staged \ {e}] /\ Goes("launcher", e, "failed")
      <4>1. /\ [files EXCEPT !.active = tree].retired = files.retired
            /\ [files EXCEPT !.active = tree, !.retired = kept].staged = files.staged
        BY <2>0 DEF Storage
      <4> QED BY <2>2, <4>1 DEF Activate
    <3> HIDE DEF mine, tree, kept
    <3> QED BY <3>1, <3>2, <3>3
  <2> QED BY <2>1, <2>2
<1>3. files' \in Storage /\ files'.active = tree /\ files'.scratch = files.scratch
  <2>1. files \in Storage /\ files.staged \ {e} \in SUBSET Epochs
    BY DEF WorkspacesInv, WorkspacesTypes, Storage
  <2> QED BY <1>2, <2>1 DEF Storage
<1>4. /\ at[e]["launcher"] = "activate" /\ UNCHANGED <<turn, container, revoked, left, evidence>>
      /\ turn.n = e /\ turn.holder = "launcher"
  BY DEF Activate, WorkspacesInv, InTurn, Holds
<1>5. /\ at' \in [Epochs -> [Actors -> Places]]
      /\ at'[e]["launcher"] = where
      /\ \A d \in Epochs, b \in Actors : d # e \/ b # "launcher" => at'[d][b] = at[d][b]
  BY <1>2, GoesOn DEF WorkspacesInv, Actors, Places, Early
<1>6. \A d \in Epochs : container[d] \notin {"running", "stopped"} /\ ~MayRun(d)
  BY <1>4 DEF WorkspacesInv, Launches, Works, MayRun, Early
<1>7. WorkspacesTypes'
  BY <1>3, <1>4, <1>5 DEF WorkspacesInv, WorkspacesTypes
<1>8. InTurn' /\ Launches'
  BY <1>4, <1>5 DEF WorkspacesInv, InTurn, Launches, Holds, Actors, Early, Late, Last
<1>9. Works'
  <2>1. \A d \in Epochs : container'[d] \notin {"running", "stopped"} /\ ~(at'[d]["launcher"] = "create" /\ d \notin revoked')
    BY <1>4, <1>5, <1>6 DEF MayRun, Actors
  <2>2. \A d \in Epochs : at'[d]["launcher"] \in {"drop", "paths"} /\ turn'.n = d => files'.active.of = d
    BY <1>2, <1>3, <1>4, <1>5
  <2> QED BY <2>1, <2>2 DEF Works, MayRun, Holds
<1>10. Captures'
  BY <1>4, <1>5 DEF WorkspacesInv, Captures, Captured, Last
<1> QED BY <1>7, <1>8, <1>9, <1>10 DEF WorkspacesInv

LEMMA DropKeeps == ASSUME WorkspacesInv, NEW e \in Epochs, Drop(e) PROVE WorkspacesInv'
<1>1. PICK kept \in SUBSET [by : Epochs, tree : Trees], where \in {"paths", "failed"} :
        files' = [files EXCEPT !.retired = kept] /\ Goes("launcher", e, where)
  BY DEF Drop, WorkspacesInv, WorkspacesTypes, Storage
<1>2. files' \in Storage /\ files'.active = files.active /\ files'.scratch = files.scratch
  BY <1>1, Retiring DEF WorkspacesInv, WorkspacesTypes
<1>3. MayGo("launcher", e, where)
  BY <1>1 DEF MayGo, Drop, Places, Early, Late, Last
<1> QED BY <1>1, <1>2, <1>3, MoveKeeps DEF Drop, Actors

\* Its own scratch directory, once the workspace is its own.
LEMMA PreparePathsKeeps == ASSUME WorkspacesInv, NEW e \in Epochs, PreparePaths(e) PROVE WorkspacesInv'
<1>0. /\ at[e]["launcher"] = "paths" /\ UNCHANGED <<turn, container, revoked, left, evidence>> /\ files \in Storage
  BY DEF PreparePaths, WorkspacesInv, WorkspacesTypes
<1>1. CASE ~Holds("launcher", e)
  <2>1. files' = files /\ Goes("launcher", e, "lost")
    BY <1>1 DEF PreparePaths, UnderFence
  <2>2. MayGo("launcher", e, "lost")
    BY <1>0 DEF MayGo, Places, Early, Late, Last
  <2> QED BY <1>0, <2>1, <2>2, MoveKeeps DEF Actors
<1>2. CASE Holds("launcher", e)
  <2> DEFINE more == files.scratch \cup {e}
  <2>1. files' = [files EXCEPT !.scratch = more] /\ Goes("launcher", e, "create")
    BY <1>2 DEF PreparePaths, UnderFence
  <2>2. more \in SUBSET Epochs
    BY <1>0 DEF Storage
  <2>3. files' \in Storage /\ files'.active = files.active /\ files'.scratch = more
    <3> HIDE DEF more
    <3> QED BY <1>0, <2>1, <2>2, Scratch
  <2>4. /\ at' \in [Epochs -> [Actors -> Places]]
        /\ at'[e]["launcher"] = "create"
        /\ \A d \in Epochs, b \in Actors : d # e \/ b # "launcher" => at'[d][b] = at[d][b]
    BY <2>1, GoesOn DEF WorkspacesInv, Actors, Places, Early
  <2>5. /\ turn.n = e /\ turn.holder = "launcher" /\ files.active.of = e
        /\ \A d \in Epochs : container[d] \notin {"running", "stopped"} /\ ~MayRun(d)
    BY <1>0, <1>2 DEF Holds, WorkspacesInv, Launches, Works, MayRun, Early
  <2>6. WorkspacesTypes'
    BY <1>0, <2>3, <2>4 DEF WorkspacesInv, WorkspacesTypes
  <2>7. InTurn' /\ Launches'
    BY <1>0, <2>4, <2>5 DEF WorkspacesInv, InTurn, Launches, Holds, Actors, Early, Late, Last
  <2>8. Works'
    <3>1. \A d \in Epochs : container'[d] \notin {"running", "stopped"}
                            /\ (at'[d]["launcher"] = "create" /\ d \notin revoked' => d = e)
      BY <1>0, <2>4, <2>5 DEF MayRun, Actors
    <3>2. \A d \in Epochs : ~(at'[d]["launcher"] \in {"drop", "paths"} /\ turn'.n = d)
      BY <1>0, <2>4, <2>5
    <3> QED BY <1>0, <2>3, <2>5, <3>1, <3>2 DEF Works, MayRun, Holds
  <2>9. Captures'
    BY <1>0, <2>4 DEF WorkspacesInv, Captures, Captured, Last
  <2> QED BY <2>6, <2>7, <2>8, <2>9 DEF WorkspacesInv
<1> QED BY <1>1, <1>2

LEMMA CreateKeeps == ASSUME WorkspacesInv, NEW e \in Epochs, Create(e) PROVE WorkspacesInv'
<1>0. /\ at[e]["launcher"] = "create" /\ UNCHANGED <<turn, files, revoked, left, evidence>> /\ files \in Storage
  BY DEF Create, WorkspacesInv, WorkspacesTypes
<1>1. CASE e \in revoked
  <2>1. container' = container /\ Goes("launcher", e, "lost")
    BY <1>1 DEF Create
  <2>2. MayGo("launcher", e, "lost")
    BY <1>0 DEF MayGo, Places, Early, Late, Last
  <2> QED BY <1>0, <2>1, <2>2, MoveKeeps DEF Actors
<1>2. CASE e \notin revoked
  <2>1. container' = [container EXCEPT ![e] = "running"] /\ Goes("launcher", e, "run")
    BY <1>2 DEF Create
  <2>2. /\ container' \in [Epochs -> {"none", "running", "stopped", "gone"}]
        /\ container'[e] = "running"
        /\ \A d \in Epochs \ {e} : container'[d] = container[d]
    BY <2>1 DEF WorkspacesInv, WorkspacesTypes
  <2>3. /\ at' \in [Epochs -> [Actors -> Places]]
        /\ at'[e]["launcher"] = "run"
        /\ \A d \in Epochs, b \in Actors : d # e \/ b # "launcher" => at'[d][b] = at[d][b]
    BY <2>1, GoesOn DEF WorkspacesInv, Actors, Places
  <2>4. /\ turn.n = e /\ turn.holder # "nobody" /\ files.active.of = e /\ e \in files.scratch /\ left[e] = Nothing
        /\ at[e]["recovery"] \notin Late
        /\ \A d \in Epochs \ {e} : container[d] \notin {"running", "stopped"} /\ ~MayRun(d)
    BY <1>0, <1>2 DEF WorkspacesInv, Launches, Works, MayRun, Early
  <2>5. WorkspacesTypes'
    BY <1>0, <2>2, <2>3 DEF WorkspacesInv, WorkspacesTypes
  <2>6. InTurn'
    <3>1. ~(e > turn.n)
      BY <2>4, FirstTurn
    <3>2. \A d \in Epochs : d > turn.n => d # e
      BY <3>1
    <3> QED BY <1>0, <2>2, <2>3, <2>4, <3>1, <3>2 DEF WorkspacesInv, InTurn, Holds, Actors, Early
  <2>10. Launches'
    <3>1. \A d \in Epochs : container'[d] \in {"stopped", "gone"} => container'[d] = container[d] /\ d # e
      BY <2>2
    <3>2. \A d \in Epochs, b \in Actors : at'[d][b] \in Early \cup Late => at'[d][b] = at[d][b] /\ (d # e \/ b = "recovery")
      BY <2>3 DEF Actors, Early, Late, Last
    <3> QED BY <1>0, <2>2, <2>4, <3>1, <3>2 DEF WorkspacesInv, Launches, Actors, Late
  <2>7. Works'
    <3>1. \A d \in Epochs \ {e} : container'[d] \notin {"running", "stopped"}
                                  /\ ~(at'[d]["launcher"] = "create" /\ d \notin revoked')
      BY <1>0, <2>2, <2>3, <2>4 DEF MayRun, Actors
    <3> QED BY <1>0, <2>2, <2>3, <2>4, <3>1 DEF Works, MayRun, Holds
  <2>8. Captures'
    <3>1. ASSUME NEW d \in Epochs PROVE Captured(d)'
      <4>1. /\ Captured(d)
            /\ container'[d] = "gone" => container[d] = "gone"
            /\ \A b \in Actors : at'[d][b] # "run" => at'[d][b] = at[d][b]
        BY <2>2, <2>3 DEF WorkspacesInv, Captures
      <4> QED BY <1>0, <4>1 DEF Captured, Last
    <3> QED BY <3>1 DEF Captures
  <2> QED BY <2>5, <2>6, <2>7, <2>8, <2>10 DEF WorkspacesInv
<1> QED BY <1>1, <1>2

\* The agent writes: no other container of the Assignment is there.
LEMMA WriteKeeps == ASSUME WorkspacesInv, NEW e \in Epochs, Write(e) PROVE WorkspacesInv'
<1>1. /\ container[e] = "running" /\ files.active.of = e /\ files \in Storage
      /\ UNCHANGED <<turn, at, container, revoked, left, evidence>>
      /\ files' = [files EXCEPT !.active.v = files.active.v + 1]
  BY DEF Write, WorkspacesInv, WorkspacesTypes
<1>2. files' \in Storage /\ files'.active.of = files.active.of /\ files'.scratch = files.scratch
  BY <1>1 DEF Storage, Trees
<1>3. \A d \in Epochs : container[d] # "stopped"
  BY <1>1 DEF WorkspacesInv, Works
<1> QED BY <1>1, <1>2, <1>3 DEF WorkspacesInv, WorkspacesTypes, InTurn, Launches, Works, Captures, Captured, MayRun, Holds

-----------------------------------------------------------------------------
(* The end of a turn.                                                      *)

\* The first to stop the container sees what it leaves; no other actor of the turn can be past its own stop.
LEMMA StopKeeps == ASSUME WorkspacesInv, NEW a \in Actors, NEW e \in Epochs, Stop(a, e) PROVE WorkspacesInv'
<1>1. /\ UNCHANGED <<turn, files, evidence>> /\ files \in Storage /\ files.active \in Trees
      /\ at[e][a] = IF a = "launcher" THEN "run" ELSE "stop"
      /\ Goes(a, e, "admit")
      /\ revoked' = IF a = "launcher" THEN revoked ELSE revoked \cup {e}
  BY DEF Stop, WorkspacesInv, WorkspacesTypes, Storage
<1>2. /\ at' \in [Epochs -> [Actors -> Places]]
      /\ at'[e][a] = "admit"
      /\ \A d \in Epochs, b \in Actors : d # e \/ b # a => at'[d][b] = at[d][b]
  BY <1>1, GoesOn DEF WorkspacesInv, Places, Late
<1>3. /\ revoked' \in SUBSET Epochs /\ revoked \subseteq revoked'
      /\ a = "recovery" => e \in revoked'
      /\ \A d \in Epochs \ {e} : d \in revoked' => d \in revoked
  BY <1>1 DEF WorkspacesInv, WorkspacesTypes, Actors
<1>4. /\ container' \in [Epochs -> {"none", "running", "stopped", "gone"}] /\ left' \in [Epochs -> Trees]
      /\ \A d \in Epochs \ {e} : container'[d] = container[d] /\ left'[d] = left[d]
      /\ \/ container[e] # "running" /\ container'[e] = container[e] /\ left'[e] = left[e]
         \/ container[e] = "running" /\ container'[e] = "stopped" /\ left'[e] = files.active
  BY <1>1 DEF Stop, Stopped, WorkspacesInv, WorkspacesTypes
<1>5. container[e] = "running" =>
        /\ left[e] = Nothing /\ files.active # Nothing
        /\ \A b \in Actors : at[e][b] \notin Late \cup Early
  <2> SUFFICES ASSUME container[e] = "running" PROVE left[e] = Nothing /\ files.active # Nothing
                                                     /\ \A b \in Actors : at[e][b] \notin Late \cup Early
    OBVIOUS
  <2>1. files.active.of = e /\ e # 0 /\ left[e] = Nothing
    BY FirstTurn DEF WorkspacesInv, Works, Launches
  <2>2. files.active # Nothing
    BY <2>1 DEF Nothing
  <2> QED BY <2>1, <2>2 DEF WorkspacesInv, Launches, InTurn, Actors
<1>6. WorkspacesTypes'
  BY <1>1, <1>2, <1>3, <1>4 DEF WorkspacesInv, WorkspacesTypes
<1>7. InTurn'
  BY <1>1, <1>2, <1>4 DEF WorkspacesInv, InTurn, Holds, Actors, Early
<1>8. Launches'
  BY <1>1, <1>2, <1>3, <1>4, <1>5 DEF WorkspacesInv, Launches, Actors, Early, Late, Last
<1>9. Works'
  <2>1. \A d \in Epochs : /\ container'[d] = "running" => container[d] = "running"
                          /\ container'[d] = "stopped" /\ container[d] # "stopped" => left'[d] = files.active
                                                                               /\ container[d] = "running"
                          /\ container'[d] = "stopped" /\ container[d] = "stopped" => left'[d] = left[d]
                          /\ at'[d]["launcher"] = "create" /\ d \notin revoked' => MayRun(d)
                          /\ at'[d]["launcher"] \in {"drop", "paths"} => at'[d]["launcher"] = at[d]["launcher"]
    BY <1>2, <1>3, <1>4 DEF MayRun, Actors
  <2> QED BY <1>1, <2>1 DEF WorkspacesInv, Works, MayRun, Holds
<1>10. Captures'
  <2>0. ASSUME NEW d \in Epochs \ {e} PROVE Captured(d)'
    BY <1>1, <1>2, <1>4, SMTT(60) DEF WorkspacesInv, Captures, Captured
  <2>1. CASE container[e] # "running"
    <3>1. Captured(e)
      BY DEF WorkspacesInv, Captures
    <3>2. Captured(e)'
      BY <1>1, <1>2, <1>4, <2>1, <3>1, SMTT(60) DEF Captured, Last
    <3> QED BY <2>0, <3>2 DEF Captures
  <2>2. CASE container[e] = "running"
    <3>1. evidence[e].artifact = Nothing /\ evidence[e].seal = Nothing
      BY <1>5, <2>2 DEF WorkspacesInv, Captures, Captured
    <3>2. \A b \in Actors : at'[e][b] \notin Late \ {"admit"}
      BY <1>2, <1>5, <2>2 DEF Late
    <3>3. Captured(e)'
      BY <1>1, <1>4, <2>2, <3>1, <3>2 DEF Captured, Last, Late
    <3> QED BY <2>0, <3>3 DEF Captures
  <2> QED BY <2>1, <2>2
<1> QED BY <1>6, <1>7, <1>8, <1>9, <1>10 DEF WorkspacesInv

LEMMA AdmitKeeps ==
    ASSUME WorkspacesInv, NEW a \in Actors, NEW e \in Epochs, AdmitCapture(a, e) \/ Adopt(a, e) PROVE WorkspacesInv'
<1>1. PICK where \in {"remove", "load", "lost"} : Goes(a, e, where) /\ MayGo(a, e, where)
  BY DEF AdmitCapture, Adopt, UnderFence, MayGo, Places, Early, Late, Last, WorkspacesInv, Captures, Captured
<1>2. UNCHANGED <<turn, container, revoked, left, evidence>> /\ files' = files /\ files \in Storage
  BY DEF AdmitCapture, Adopt, UnderFence, WorkspacesInv, WorkspacesTypes
<1> QED BY <1>1, <1>2, MoveKeeps

\* An actor at its capture records what the turn left, and goes on with it.
LEMMA RecordKeeps ==
    ASSUME WorkspacesInv, NEW a \in Actors, NEW e \in Epochs, NEW where \in {"publish", "seal", "adopt"},
           at[e][a] \in {"load", "publish", "seal"}, Goes(a, e, where),
           UNCHANGED <<turn, files, container, revoked, left>>,
           evidence' \in [Epochs -> Records],
           \A d \in Epochs \ {e} : evidence'[d] = evidence[d],
           \A b \in Actors \ {a} : evidence'[e].read[b] = evidence[e].read[b],
           evidence'[e].read[a] = left[e],
           evidence'[e].artifact = left[e] \/ evidence'[e].artifact = evidence[e].artifact,
           evidence'[e].seal = evidence[e].seal \/ (evidence'[e].seal = left[e] /\ evidence'[e].artifact = left[e]),
           where = "seal" => evidence'[e].artifact = left[e],
           where = "adopt" => evidence'[e].seal = left[e]
    PROVE  WorkspacesInv'
<1>1. /\ at' \in [Epochs -> [Actors -> Places]]
      /\ at'[e][a] = where
      /\ \A d \in Epochs, b \in Actors : d # e \/ b # a => at'[d][b] = at[d][b]
  BY GoesOn DEF WorkspacesInv, Places, Late
<1>2. WorkspacesTypes'
  BY <1>1 DEF WorkspacesInv, WorkspacesTypes
<1>3. InTurn' /\ Launches'
  BY <1>1, SMTT(60) DEF WorkspacesInv, InTurn, Launches, Holds, Actors, Early, Late, Last
<1>4. Works'
  <2>1. \A d \in Epochs : /\ at'[d]["launcher"] = "create" /\ d \notin revoked' => MayRun(d)
                          /\ at'[d]["launcher"] \in {"drop", "paths"} => at'[d]["launcher"] = at[d]["launcher"]
    BY <1>1 DEF MayRun, Actors
  <2> QED BY <2>1 DEF WorkspacesInv, Works, MayRun, Holds
<1>5. left[e] # Nothing
  BY DEF WorkspacesInv, Captures, Captured
<1>6. Captures'
  <2>0. ASSUME NEW d \in Epochs \ {e} PROVE Captured(d)'
    BY <1>1 DEF WorkspacesInv, Captures, Captured
  <2>1. /\ evidence[e].artifact \in {Nothing, left[e]}
        /\ evidence[e].artifact = left[e] => evidence'[e].artifact = left[e]
        /\ evidence[e].seal # Nothing => evidence[e].seal = left[e] /\ evidence[e].artifact = left[e]
        /\ evidence[e].seal = left[e] => evidence'[e].seal = left[e]
    BY DEF WorkspacesInv, Captures, Captured
  <2>2. Captured(e)
    BY DEF WorkspacesInv, Captures
  <2>3. Captured(e)'
    BY <1>1, <1>5, <2>1, <2>2 DEF Captured, Last
  <2> QED BY <2>0, <2>3 DEF Captures
<1> QED BY <1>2, <1>3, <1>4, <1>6 DEF WorkspacesInv

\* What is read is what the turn left: of its workspace, or of the artifact on disk.
LEMMA LoadKeeps == ASSUME WorkspacesInv, NEW a \in Actors, NEW e \in Epochs, Load(a, e) PROVE WorkspacesInv'
<1>1. /\ at[e][a] = "load" /\ UNCHANGED <<turn, files, container, revoked, left>> /\ files \in Storage
      /\ evidence \in [Epochs -> Records] /\ left[e] \in Trees /\ Captured(e)
  BY DEF Load, WorkspacesInv, WorkspacesTypes, Captures
<1>2. CASE evidence' = evidence /\ \E where \in {"adopt", "admit"} : Goes(a, e, where) /\ (where = "adopt" => evidence[e].seal = left[e])
  <2>1. PICK where \in {"adopt", "admit"} : Goes(a, e, where) /\ (where = "adopt" => evidence[e].seal = left[e])
    BY <1>2
  <2>2. MayGo(a, e, where)
    BY <1>1, <2>1 DEF MayGo, Captured, Places, Early, Late, Last
  <2> QED BY <1>1, <1>2, <2>1, <2>2, MoveKeeps
<1>3. CASE \E where \in {"publish", "seal"} :
              /\ Goes(a, e, where) /\ evidence' = [evidence EXCEPT ![e].read[a] = left[e]]
              /\ (where = "seal" => evidence[e].artifact = left[e])
  <2>1. PICK where \in {"publish", "seal"} :
              /\ Goes(a, e, where) /\ evidence' = [evidence EXCEPT ![e].read[a] = left[e]]
              /\ (where = "seal" => evidence[e].artifact = left[e])
    BY <1>3
  <2>2. LET next == [evidence[e] EXCEPT !.read[a] = left[e]]
        IN  /\ next \in Records /\ next.artifact = evidence[e].artifact /\ next.seal = evidence[e].seal
            /\ next.read[a] = left[e] /\ \A b \in Actors \ {a} : next.read[b] = evidence[e].read[b]
    BY <1>1 DEF Records
  <2>3. /\ evidence' \in [Epochs -> Records] /\ \A d \in Epochs \ {e} : evidence'[d] = evidence[d]
        /\ evidence'[e] = [evidence[e] EXCEPT !.read[a] = left[e]]
    BY <1>1, <2>1, <2>2
  <2> QED BY <1>1, <2>1, <2>2, <2>3, RecordKeeps
<1>4. container[e] = "stopped" => files.active = left[e]
  BY DEF WorkspacesInv, Works
<1>5. /\ evidence[e].seal # Nothing => evidence[e].seal = left[e]
      /\ evidence[e].artifact # Nothing => evidence[e].artifact = left[e]
  BY <1>1 DEF Captured
<1> QED BY <1>2, <1>3, <1>4, <1>5 DEF Load

LEMMA PublishKeeps == ASSUME WorkspacesInv, NEW a \in Actors, NEW e \in Epochs, PublishArtifact(a, e) PROVE WorkspacesInv'
<1>1. /\ at[e][a] = "publish" /\ UNCHANGED <<turn, files, container, revoked, left>> /\ files \in Storage
      /\ evidence \in [Epochs -> Records] /\ left[e] \in Trees /\ Captured(e)
  BY DEF PublishArtifact, WorkspacesInv, WorkspacesTypes, Captures
<1>2. CASE evidence[e].artifact # Nothing
  <2>1. Goes(a, e, "admit") /\ evidence' = evidence
    BY <1>2 DEF PublishArtifact
  <2>2. MayGo(a, e, "admit")
    BY <1>1 DEF MayGo, Places, Early, Late, Last
  <2> QED BY <1>1, <2>1, <2>2, MoveKeeps
<1>3. CASE evidence[e].artifact = Nothing
  <2>1. evidence[e].read[a] = left[e]
    BY <1>1 DEF Captured
  <2>2. evidence' = [evidence EXCEPT ![e].artifact = left[e]] /\ Goes(a, e, "seal")
    BY <1>3, <2>1 DEF PublishArtifact
  <2>3. LET next == [evidence[e] EXCEPT !.artifact = left[e]]
        IN  next \in Records /\ next.artifact = left[e] /\ next.seal = evidence[e].seal /\ next.read = evidence[e].read
    BY <1>1 DEF Records
  <2>4. /\ evidence' \in [Epochs -> Records] /\ \A d \in Epochs \ {e} : evidence'[d] = evidence[d]
        /\ evidence'[e] = [evidence[e] EXCEPT !.artifact = left[e]]
    BY <1>1, <2>2, <2>3
  <2> QED BY <1>1, <2>1, <2>2, <2>3, <2>4, RecordKeeps
<1> QED BY <1>2, <1>3

LEMMA SealKeeps == ASSUME WorkspacesInv, NEW a \in Actors, NEW e \in Epochs, Seal(a, e) PROVE WorkspacesInv'
<1>1. /\ at[e][a] = "seal" /\ UNCHANGED <<turn, files, container, revoked, left>> /\ files \in Storage
      /\ evidence \in [Epochs -> Records] /\ left[e] \in Trees /\ Captured(e)
  BY DEF Seal, WorkspacesInv, WorkspacesTypes, Captures
<1>2. evidence[e].read[a] = left[e] /\ evidence[e].artifact = left[e]
  BY <1>1 DEF Captured
<1>3. CASE evidence[e].seal \notin {Nothing, left[e]}
  <2>1. Goes(a, e, "admit") /\ evidence' = evidence
    BY <1>2, <1>3 DEF Seal
  <2>2. MayGo(a, e, "admit")
    BY <1>1 DEF MayGo, Places, Early, Late, Last
  <2> QED BY <1>1, <2>1, <2>2, MoveKeeps
<1>4. CASE evidence[e].seal \in {Nothing, left[e]}
  <2>1. evidence' = [evidence EXCEPT ![e].seal = left[e]] /\ Goes(a, e, "adopt")
    BY <1>2, <1>4 DEF Seal
  <2>2. LET next == [evidence[e] EXCEPT !.seal = left[e]]
        IN  next \in Records /\ next.seal = left[e] /\ next.artifact = evidence[e].artifact /\ next.read = evidence[e].read
    BY <1>1 DEF Records
  <2>3. /\ evidence' \in [Epochs -> Records] /\ \A d \in Epochs \ {e} : evidence'[d] = evidence[d]
        /\ evidence'[e] = [evidence[e] EXCEPT !.seal = left[e]]
    BY <1>1, <2>1, <2>2
  <2> QED BY <1>1, <1>2, <2>1, <2>2, <2>3, RecordKeeps
<1> QED BY <1>3, <1>4

\* The container goes when what it left is sealed.
LEMMA RemoveContainerKeeps ==
    ASSUME WorkspacesInv, NEW a \in Actors, NEW e \in Epochs, RemoveContainer(a, e) PROVE WorkspacesInv'
<1>1. /\ at[e][a] = "remove" /\ UNCHANGED <<turn, files, revoked, left, evidence>> /\ Goes(a, e, "scratch")
      /\ container' \in [Epochs -> {"none", "running", "stopped", "gone"}]
      /\ container'[e] = "gone" /\ \A d \in Epochs \ {e} : container'[d] = container[d]
  BY DEF RemoveContainer, WorkspacesInv, WorkspacesTypes
<1>2. /\ at' \in [Epochs -> [Actors -> Places]]
      /\ at'[e][a] = "scratch"
      /\ \A d \in Epochs, b \in Actors : d # e \/ b # a => at'[d][b] = at[d][b]
  BY <1>1, GoesOn DEF WorkspacesInv, Places, Late, Last
<1>3. WorkspacesTypes'
  BY <1>1, <1>2 DEF WorkspacesInv, WorkspacesTypes
<1>4. InTurn' /\ Launches'
  BY <1>1, <1>2 DEF WorkspacesInv, InTurn, Launches, Holds, Actors, Early, Late, Last
<1>5. Works'
  <2>1. \A d \in Epochs : /\ at'[d]["launcher"] = "create" /\ d \notin revoked' => MayRun(d)
                          /\ at'[d]["launcher"] \in {"drop", "paths"} => at'[d]["launcher"] = at[d]["launcher"]
                          /\ container'[d] \in {"running", "stopped"} => container'[d] = container[d]
    BY <1>1, <1>2 DEF MayRun, Actors
  <2> QED BY <1>1, <2>1 DEF WorkspacesInv, Works, MayRun, Holds
<1>6. Captures'
  <2>1. ASSUME NEW d \in Epochs \ {e} PROVE Captured(d)'
    BY <1>1, <1>2 DEF WorkspacesInv, Captures, Captured
  <2>2. Captured(e)
    BY DEF WorkspacesInv, Captures
  <2>3. Captured(e)'
    BY <1>1, <1>2, <2>2 DEF Captured, Last
  <2> QED BY <2>1, <2>3 DEF Captures
<1> QED BY <1>3, <1>4, <1>5, <1>6 DEF WorkspacesInv

\* The holder clears up after its own turn: its container is gone, and no other one's is there.
LEMMA ClearKeeps ==
    ASSUME WorkspacesInv, NEW a \in Actors, NEW e \in Epochs, CleanupPaths(a, e) \/ Discard(a, e) PROVE WorkspacesInv'
<1>1. /\ at[e][a] \in {"scratch", "discard"} /\ UNCHANGED <<turn, container, revoked, left, evidence>> /\ files \in Storage
  BY DEF CleanupPaths, Discard, WorkspacesInv, WorkspacesTypes
<1>2. CASE ~Holds(a, e)
  <2>1. files' = files /\ Goes(a, e, "lost")
    BY <1>2 DEF CleanupPaths, Discard, UnderFence
  <2>2. MayGo(a, e, "lost")
    BY <1>1 DEF MayGo, Places, Early, Late, Last
  <2> QED BY <1>1, <2>1, <2>2, MoveKeeps
<1>3. CASE Holds(a, e)
  <2>1. /\ files' \in Storage /\ \E where \in {"discard", "retire"} : Goes(a, e, where)
    <3> DEFINE less == files.scratch \ {e}
    <3>1. less \in SUBSET Epochs
      BY <1>1 DEF Storage
    <3>2. \/ files' = [files EXCEPT !.scratch = less] /\ Goes(a, e, "discard")
          \/ files' = Detached(e) /\ Goes(a, e, "retire")
      BY <1>3 DEF CleanupPaths, Discard, UnderFence
    <3> HIDE DEF less
    <3> QED BY <1>1, <3>1, <3>2, Scratch, Detaching
  <2>2. PICK where \in {"discard", "retire"} : Goes(a, e, where)
    BY <2>1
  <2>3. /\ at' \in [Epochs -> [Actors -> Places]]
        /\ at'[e][a] = where
        /\ \A d \in Epochs, b \in Actors : d # e \/ b # a => at'[d][b] = at[d][b]
    BY <2>2, GoesOn DEF WorkspacesInv, Places, Late, Last
  <2>4. container[e] = "gone" /\ turn.n = e /\ turn.holder = a
    BY <1>1, <1>3 DEF WorkspacesInv, Launches, Holds, Last
  <2>5. \A d \in Epochs : container[d] \notin {"running", "stopped"} /\ ~MayRun(d)
    BY <1>1, <2>4 DEF WorkspacesInv, Launches, Works, MayRun, Actors, Late, Last
  <2>6. WorkspacesTypes'
    BY <1>1, <2>1, <2>3 DEF WorkspacesInv, WorkspacesTypes
  <2>7. InTurn' /\ Launches'
    BY <1>1, <2>3, <2>4 DEF WorkspacesInv, InTurn, Launches, Holds, Actors, Early, Late, Last
  <2>8. Works'
    <3>1. \A d \in Epochs : container'[d] \notin {"running", "stopped"} /\ ~(at'[d]["launcher"] = "create" /\ d \notin revoked')
      BY <1>1, <2>3, <2>5 DEF MayRun, Actors
    <3>2. \A d \in Epochs : ~(at'[d]["launcher"] \in {"drop", "paths"} /\ turn'.n = d /\ turn'.holder = "launcher")
      BY <1>1, <2>3, <2>4
    <3> QED BY <3>1, <3>2 DEF Works, MayRun, Holds
  <2>9. Captures'
    BY <1>1, <2>3 DEF WorkspacesInv, Captures, Captured, Last
  <2> QED BY <2>6, <2>7, <2>8, <2>9 DEF WorkspacesInv
<1> QED BY <1>2, <1>3

LEMMA RetireKeeps == ASSUME WorkspacesInv, NEW a \in Actors, NEW e \in Epochs, Retire(a, e) PROVE WorkspacesInv'
<1>1. PICK kept \in SUBSET [by : Epochs, tree : Trees], where \in {"settle", "discard"} :
        files' = [files EXCEPT !.retired = kept] /\ Goes(a, e, where)
  BY DEF Retire, WorkspacesInv, WorkspacesTypes, Storage
<1>2. files' \in Storage /\ files'.active = files.active /\ files'.scratch = files.scratch
  BY <1>1, Retiring DEF WorkspacesInv, WorkspacesTypes
<1>3. MayGo(a, e, where)
  BY <1>1 DEF MayGo, Retire, Places, Early, Late, Last
<1> QED BY <1>1, <1>2, <1>3, MoveKeeps DEF Retire

\* The end of a turn leaves nothing that runs or may still run.
LEMMA SettleTurnKeeps == ASSUME WorkspacesInv, NEW a \in Actors, NEW e \in Epochs, SettleTurn(a, e) PROVE WorkspacesInv'
<1>1. /\ at[e][a] \in {"settle", "failed"} /\ UNCHANGED <<files, container, revoked, left, evidence>> /\ files \in Storage
      /\ turn \in [n : Epochs, holder : Actors \cup {"nobody"}]
  BY DEF SettleTurn, WorkspacesInv, WorkspacesTypes
<1>2. CASE ~Holds(a, e)
  <2>1. turn' = turn /\ Goes(a, e, "lost")
    BY <1>2 DEF SettleTurn
  <2>2. MayGo(a, e, "lost")
    BY <1>1 DEF MayGo, Places, Early, Late, Last
  <2> QED BY <1>1, <2>1, <2>2, MoveKeeps
<1>3. CASE Holds(a, e)
  <2>1. /\ turn' \in [n : Epochs, holder : Actors \cup {"nobody"}] /\ turn'.n = e /\ turn'.holder = "nobody"
        /\ Goes(a, e, "over")
    BY <1>1, <1>3 DEF SettleTurn, Holds
  <2>2. /\ at' \in [Epochs -> [Actors -> Places]]
        /\ at'[e][a] = "over"
        /\ \A d \in Epochs, b \in Actors : d # e \/ b # a => at'[d][b] = at[d][b]
    BY <2>1, GoesOn DEF WorkspacesInv, Places
  <2>3. turn.n = e /\ turn.holder = a
    BY <1>3 DEF Holds
  <2>4. \A d \in Epochs : container[d] \notin {"running", "stopped"} /\ ~MayRun(d) /\ at'[d]["launcher"] # "activate"
    BY <1>1, <2>2, <2>3 DEF WorkspacesInv, InTurn, Launches, Works, MayRun, Holds, Actors, Early, Late, Last
  <2>5. WorkspacesTypes'
    BY <1>1, <2>1, <2>2 DEF WorkspacesInv, WorkspacesTypes
  <2>6. InTurn'
    BY <1>1, <2>1, <2>2, <2>3, <2>4 DEF WorkspacesInv, InTurn, Actors, Early
  <2>7. Launches'
    BY <1>1, <2>2 DEF WorkspacesInv, Launches, Actors, Early, Late, Last
  <2>8. Works'
    <3>1. \A d \in Epochs : container'[d] \notin {"running", "stopped"} /\ ~(at'[d]["launcher"] = "create" /\ d \notin revoked')
      BY <1>1, <2>2, <2>4 DEF MayRun, Actors
    <3> QED BY <2>1, <3>1 DEF Works, MayRun, Holds
  <2>9. Captures'
    BY <1>1, <2>2 DEF WorkspacesInv, Captures, Captured, Last
  <2> QED BY <2>5, <2>6, <2>7, <2>8, <2>9 DEF WorkspacesInv
<1> QED BY <1>2, <1>3

-----------------------------------------------------------------------------
(* What happens to the actors.                                             *)

LEMMA ExpireTurnKeeps == ASSUME WorkspacesInv, ExpireTurn PROVE WorkspacesInv'
<1> DEFINE e == turn.n
<1>1. /\ turn.holder = "launcher" /\ at[e]["launcher"] # "activate" /\ Goes("recovery", e, "stop")
      /\ UNCHANGED <<files, container, revoked, left, evidence>>
      /\ e \in Epochs
      /\ turn' \in [n : Epochs, holder : Actors \cup {"nobody"}] /\ turn'.n = e /\ turn'.holder = "recovery"
  BY DEF ExpireTurn, WorkspacesInv, WorkspacesTypes, Actors
<1> HIDE DEF e
<1>2. /\ at' \in [Epochs -> [Actors -> Places]]
      /\ at'[e]["recovery"] = "stop"
      /\ \A d \in Epochs, b \in Actors : d # e \/ b # "recovery" => at'[d][b] = at[d][b]
  BY <1>1, GoesOn DEF WorkspacesInv, Actors, Places
<1>3. turn.n = e
  BY DEF e
<1>4. WorkspacesTypes'
  BY <1>1, <1>2 DEF WorkspacesInv, WorkspacesTypes
<1>5. InTurn'
  <2>1. \A d \in Epochs : d > e => d # e
    BY <1>1, FirstTurn
  <2> QED BY <1>1, <1>2, <1>3, <2>1 DEF WorkspacesInv, InTurn, Holds, Actors, Early
<1>6. Launches'
  BY <1>1, <1>2 DEF WorkspacesInv, Launches, Actors, Early, Late, Last
<1>7. Works'
  <2>1. \A d \in Epochs : at'[d]["launcher"] = at[d]["launcher"]
    BY <1>2 DEF Actors
  <2> QED BY <1>1, <1>3, <2>1 DEF WorkspacesInv, Works, MayRun, Holds
<1>8. Captures'
  BY <1>1, <1>2 DEF WorkspacesInv, Captures, Captured, Last
<1> QED BY <1>4, <1>5, <1>6, <1>7, <1>8 DEF WorkspacesInv

LEMMA DieKeeps == ASSUME WorkspacesInv, NEW a \in Actors, NEW e \in Epochs, Die(a, e) PROVE WorkspacesInv'
<1> DEFINE where == IF a = "launcher" THEN "dead" ELSE "stop"
<1>1. /\ Goes(a, e, where) /\ at[e][a] # "none" /\ UNCHANGED <<turn, files, container, revoked, left, evidence>>
      /\ files \in Storage
  BY DEF Die, WorkspacesInv, WorkspacesTypes
<1>2. MayGo(a, e, where)
  BY <1>1 DEF MayGo, Places, Early, Late, Last
<1> HIDE DEF where
<1> QED BY <1>1, <1>2, MoveKeeps

\* The next turn begins when the one before is over: of it nothing runs, and nothing of the new one is there yet.
LEMMA NextTurnKeeps == ASSUME WorkspacesInv, NextTurn PROVE WorkspacesInv'
<1> DEFINE e == turn.n + 1
<1>1. /\ turn.holder = "nobody" /\ Goes("launcher", e, "clean")
      /\ UNCHANGED <<files, container, revoked, left, evidence>>
      /\ turn.n \in Epochs /\ e \in Epochs /\ e > turn.n /\ (\A d \in Epochs : d > e => d > turn.n)
      /\ turn' \in [n : Epochs, holder : Actors \cup {"nobody"}] /\ turn'.n = e /\ turn'.holder = "launcher"
  <2>1. turn.n \in 1..MaxEpoch /\ turn.n < MaxEpoch
    BY DEF NextTurn, WorkspacesInv, WorkspacesTypes, Epochs
  <2>2. e \in Epochs /\ e > turn.n /\ \A d \in Epochs : d > e => d > turn.n
    BY <2>1, WorkspacesAssumption DEF Epochs
  <2>3. turn' = [n |-> e, holder |-> "launcher"] /\ turn.holder = "nobody" /\ Goes("launcher", e, "clean")
        /\ UNCHANGED <<files, container, revoked, left, evidence>>
    BY DEF NextTurn
  <2> HIDE DEF e
  <2> QED BY <2>1, <2>2, <2>3 DEF Epochs, Actors
<1> HIDE DEF e
<1>2. /\ at' \in [Epochs -> [Actors -> Places]]
      /\ at'[e]["launcher"] = "clean"
      /\ \A d \in Epochs, b \in Actors : d # e \/ b # "launcher" => at'[d][b] = at[d][b]
  BY <1>1, GoesOn DEF WorkspacesInv, Actors, Places, Early
<1>3. container[e] = "none" /\ left[e] = Nothing
  BY <1>1 DEF WorkspacesInv, InTurn, Launches
<1>4. \A d \in Epochs : container[d] \notin {"running", "stopped"} /\ ~MayRun(d) /\ at[d]["launcher"] # "activate"
  BY <1>1 DEF WorkspacesInv, Works, InTurn, Holds
<1>5. WorkspacesTypes'
  BY <1>1, <1>2 DEF WorkspacesInv, WorkspacesTypes
<1>6. InTurn'
  <2>1. \A d \in Epochs : d > e => d # e
    BY <1>1, FirstTurn
  <2> QED BY <1>1, <1>2, <1>4, <2>1 DEF WorkspacesInv, InTurn, Actors, Early
<1>7. Launches'
  BY <1>1, <1>2, <1>3 DEF WorkspacesInv, Launches, Actors, Early, Late, Last
<1>8. Works'
  <2>1. \A d \in Epochs : container'[d] \notin {"running", "stopped"} /\ ~(at'[d]["launcher"] = "create" /\ d \notin revoked')
    BY <1>1, <1>2, <1>4 DEF MayRun, Actors
  <2>2. \A d \in Epochs : ~(at'[d]["launcher"] \in {"drop", "paths"} /\ turn'.n = d)
    BY <1>1, <1>2
  <2> QED BY <2>1, <2>2 DEF Works, MayRun, Holds
<1>9. Captures'
  BY <1>1, <1>2 DEF WorkspacesInv, Captures, Captured, Last
<1> QED BY <1>5, <1>6, <1>7, <1>8, <1>9 DEF WorkspacesInv

LEMMA WorkspacesKeep == ASSUME WorkspacesInv, WorkspacesNext PROVE WorkspacesInv'
<1>1. ASSUME NEW e \in Epochs, LaunchStep(e) PROVE WorkspacesInv'
  BY <1>1, CleanStagedKeeps, CloneKeeps, DetachKeeps, ActivateKeeps, DropKeeps, PreparePathsKeeps, CreateKeeps, WriteKeeps DEF LaunchStep
<1>2. ASSUME NEW e \in Epochs, NEW a \in Actors, StopStep(a, e) PROVE WorkspacesInv'
  BY <1>2, StopKeeps, AdmitKeeps, LoadKeeps, PublishKeeps, SealKeeps, RemoveContainerKeeps, ClearKeeps, RetireKeeps,
     SettleTurnKeeps, DieKeeps DEF StopStep
<1> QED BY <1>1, <1>2, ExpireTurnKeeps, NextTurnKeeps DEF WorkspacesNext

\* A running container keeps the checkout and the scratch directory of its turn, and no container is removed before what
\* it left is sealed as it left it, however late the launchers and the recoveries of other turns, or of its own, come
\* (swapAssignmentWorkspace, captureTerminalWorkspace, DiscardWorkspaceFenced, WithAgentTurnFence).
THEOREM WorkIsNotLostAlways == WorkspacesSpec => []WorkIsNotLost
<1>1. WorkspacesInit => WorkspacesInv
  BY WorkspacesInitially
<1>2. WorkspacesInv /\ [WorkspacesNext]_WorkspacesVars => WorkspacesInv'
  <2> SUFFICES ASSUME WorkspacesInv, [WorkspacesNext]_WorkspacesVars PROVE WorkspacesInv'
    OBVIOUS
  <2>1. CASE UNCHANGED WorkspacesVars
    BY <2>1 DEF WorkspacesVars, WorkspacesInv, WorkspacesTypes, InTurn, Launches, Works, Captures, Captured, MayRun, Holds
  <2> QED BY <2>1, WorkspacesKeep
<1>3. WorkspacesInv => WorkIsNotLost
  BY DEF WorkspacesInv, Works, Captures, Captured, WorkIsNotLost, SuccessorKeepsItsWorkspace, EvidenceIsWhatWasLeft
<1> QED BY <1>1, <1>2, <1>3, PTL DEF WorkspacesSpec
==============================================================================
