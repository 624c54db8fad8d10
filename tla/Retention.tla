------------------------------ MODULE Retention ------------------------------
(***************************************************************************)
(* The Agent Assignments of one Workflow over the closings and reopenings   *)
(* of its issue: the participants a preparation creates or reactivates      *)
(* (src/internal/store/preparation.go), the retention generations and       *)
(* their collection (src/internal/store/retention.go,                       *)
(* src/internal/retention/worker.go), behind the webhook inbox (Inbox).     *)
(*                                                                         *)
(* A participant is identified by its generation and its role.  Its opaque  *)
(* runtime state is on disk from its creation until a collector removes it, *)
(* outside of any transaction.  The Workflow is abstracted to what          *)
(* participants depend on: ACTIVE stands for the states in which turns run  *)
(* and READY for PR_READY; how a closure settles is a step (AgentTurn and   *)
(* Workflow model it).  The revision a collection is fenced by changes      *)
(* exactly when the state or the retention token does.                      *)
(***************************************************************************)
EXTENDS Inbox, FiniteSets

CONSTANTS
    Collectors,    \* collection workers
    MaxAttempts,   \* max_attempts of a collection job
    ClaimBound     \* bound of the model on attempt_count of a collection job

ASSUME RetentionAssumption == MaxAttempts \in Nat \ {0} /\ ClaimBound \in Nat

Stages      == {"developing", "reviewing"}
Generations == 1..(MaxDelivery + 1)
Tokens      == Deliveries   \* the retention token of a closure is minted with the event that starts it

Participants == Generations \X Stages

VARIABLES
    state,         \* the state of the Workflow
    runtime,       \* Assignments.RuntimeState: ACTIVE, RETAINED or COLLECTED
    stage,         \* CurrentStage of the Attempt, or ContinuationStage after a closure
    token,         \* the retention token of the Workflow or of its closure, 0 when there is none
    reopen,        \* ReopenRequested of the closure
    prepare,       \* the mode of the PREPARE_AGENT_TURN job that is open, or none
    participant,   \* agent_participants.status, ABSENT before the row, DELETED once state_deleted_at is set
    disk,          \* the participants whose runtime state exists
    generation,    \* assignment_retention_generations.status by token, ABSENT before the row
    targets,       \* the cleanup targets captured with it
    authorized,    \* the attempt its collection was authorized to
    job,           \* the status of its COLLECT_ASSIGNMENTS job
    attempts,      \* attempt_count of that job
    leased,        \* its lease has not expired
    collector      \* what a collection worker does

workflow  == <<state, runtime, stage, token, reopen>>
people    == <<prepare, participant>>
jobRow    == <<job, attempts, leased>>
retention == <<generation, targets, authorized>>
vars      == <<inbox, workflow, people, disk, retention, jobRow, collector>>

Idle     == [token |-> 0, attempt |-> 0, at |-> "idle"]

\* An issue under work whose developer and reviewer have both been assigned.
Init ==
    /\ InboxInit
    /\ state = "ACTIVE" /\ runtime = "ACTIVE" /\ stage \in Stages /\ token = 0 /\ reopen = FALSE
    /\ prepare = "none"
    /\ participant = [p \in Participants |-> IF p[1] = 1 THEN "ACTIVE" ELSE "ABSENT"]
    /\ disk = {p \in Participants : p[1] = 1}
    /\ generation = [t \in Tokens |-> "ABSENT"]
    /\ targets = [t \in Tokens |-> {}]
    /\ authorized = [t \in Tokens |-> 0]
    /\ job = [t \in Tokens |-> "ABSENT"]
    /\ attempts = [t \in Tokens |-> 0]
    /\ leased = [t \in Tokens |-> FALSE]
    /\ collector = [c \in Collectors |-> Idle]

Kept       == {p \in Participants : participant[p] \notin {"ABSENT", "DELETED"}}
Collecting == \E t \in Tokens : generation[t] = "COLLECTING"
Mark(ps, status) == participant' = [p \in Participants |-> IF p \in ps THEN status ELSE participant[p]]

-----------------------------------------------------------------------------
(* The reduction of an event, with the actions it persists.                 *)

\* A trigger: which participants the first preparation of the new Attempt may use.
AssignmentMode == CASE runtime = "COLLECTED" -> "NEW"
                    [] runtime = "RETAINED"  -> "RETAINED"
                    [] runtime = "ACTIVE"    -> "CURRENT"

Trigger ==
    /\ state \in {"DORMANT", "READY", "NEEDS_HUMAN"}
    /\ state' = "ACTIVE" /\ runtime' = "ACTIVE" /\ prepare' = AssignmentMode
    /\ UNCHANGED <<stage, token, reopen, participant, retention, jobRow>>

\* reduceIssueClosed
Close(d) ==
    /\ state \notin {"CLOSING", "CLOSED"}
    /\ state' = "CLOSING" /\ token' = d /\ reopen' = FALSE /\ prepare' = "none"
    /\ UNCHANGED <<runtime, stage, participant, retention, jobRow>>

\* reduceIssueReopened while the closure settles: nothing will be scheduled.
ReopenClosing ==
    /\ state = "CLOSING" /\ ~reopen
    /\ reopen' = TRUE
    /\ UNCHANGED <<state, runtime, stage, token, people, retention, jobRow>>

\* reduceIssueReopened afterwards, with cancelAssignmentRetentionTx of the generation that was scheduled.
ReopenClosed ==
    /\ state = "CLOSED" /\ ~Collecting
    /\ state' = "DORMANT" /\ token' = 0
    /\ IF token # 0 /\ generation[token] = "SCHEDULED"
       THEN /\ generation' = [generation EXCEPT ![token] = "CANCELLED"]
            /\ job'    = [job EXCEPT ![token] = IF @ \in {"AVAILABLE", "LEASED"} THEN "CANCELLED" ELSE @]
            /\ leased' = [leased EXCEPT ![token] = FALSE]
            /\ UNCHANGED <<targets, authorized, attempts>>
       ELSE UNCHANGED <<retention, jobRow>>
    /\ UNCHANGED <<runtime, stage, reopen, people>>

\* An event that is illegal in the state, or changes nothing.
NoEffect(k) ==
    /\ CASE k = "run"      -> state \in {"ACTIVE", "CLOSING", "CLOSED"}
         [] k = "closed"   -> state \in {"CLOSING", "CLOSED"}
         [] k = "reopened" -> state \notin {"CLOSING", "CLOSED"} \/ (state = "CLOSING" /\ reopen)
    /\ UNCHANGED <<workflow, people, retention, jobRow>>

Reduce(d) ==
    /\ \/ kind[d] = "run" /\ Trigger
       \/ kind[d] = "closed" /\ Close(d)
       \/ kind[d] = "reopened" /\ (ReopenClosing \/ ReopenClosed)
       \/ NoEffect(kind[d])
    /\ UNCHANGED <<disk, collector>>

Outside == <<workflow, people, disk, retention, jobRow, collector>>

\* The processor, on the event it claimed or on one that waits.
Process(p) ==
    \/ ~Blocked(claim[p].id, Collecting) /\ Transition(p) /\ Reduce(claim[p].id)
    \/ \E d \in Deliveries : Drainable(d, Collecting) /\ Drain(p, d) /\ Reduce(d)
    \/ /\ \/ FindNothing(p, Collecting)
          \/ \E d \in Deliveries : ClaimDelivery(p, d)
          \/ ClaimNothing(p) \/ Ignore(p)
          \/ Blocked(claim[p].id, Collecting) /\ LeavePending(p)
       /\ UNCHANGED Outside

\* What goes wrong with a claim or with an event.
Disturb(p) ==
    /\ \/ \E retryable \in BOOLEAN : Fail(p, retryable)
       \/ \E d \in Deliveries, deterministic \in BOOLEAN :
             Drainable(d, Collecting) /\ DrainFails(p, d, deterministic)
       \/ Drop(p)
    /\ UNCHANGED Outside

-----------------------------------------------------------------------------
(* The turns of the Workflow, as far as they assign participants.           *)

Newest == CHOOSE g \in Generations :
              /\ \E s \in Stages : participant[<<g, s>>] # "ABSENT"
              /\ \A h \in Generations, s \in Stages : h > g => participant[<<h, s>>] = "ABSENT"

\* preparationGeneration, and reactivatePreparationParticipant of the one found there.
Assignee  == <<IF prepare = "NEW" THEN Newest + 1 ELSE Newest, stage>>
Assignable ==
    \/ participant[Assignee] \in {"ABSENT", "ACTIVE"}
    \/ prepare = "RETAINED" /\ participant[Assignee] = "COMPLETED"
    \/ prepare = "CURRENT" /\ participant[Assignee] = "WAITING"

\* PrepareAgentTurn creates the participant of the stage, or makes it active again.
PrepareTurn ==
    /\ state = "ACTIVE" /\ prepare # "none" /\ Assignable
    /\ Mark({Assignee}, "ACTIVE")
    /\ disk' = IF participant[Assignee] = "ABSENT" THEN disk \cup {Assignee} ELSE disk
    /\ prepare' = "none"
    /\ UNCHANGED <<inbox, workflow, retention, jobRow, collector>>

\* A turn settles: the next stage is prepared with the current participants, or the proposal is ready.
TurnSettles ==
    /\ state = "ACTIVE" /\ prepare = "none"
    /\ \/ /\ stage' \in Stages \ {stage} /\ prepare' = "CURRENT"
          /\ UNCHANGED state
       \/ /\ stage = "reviewing" /\ state' = "READY"
          /\ UNCHANGED <<stage, prepare>>
    /\ UNCHANGED <<inbox, runtime, token, reopen, participant, disk, retention, jobRow, collector>>

\* A Human Handoff: MarkHumanHandoffAction makes every participant wait.
HandOff ==
    /\ state = "ACTIVE"
    /\ state' = "NEEDS_HUMAN" /\ prepare' = "none"
    /\ runtime' = IF Kept = {} THEN "COLLECTED" ELSE runtime
    /\ Mark(Kept, "WAITING")
    /\ UNCHANGED <<inbox, stage, token, reopen, disk, retention, jobRow, collector>>

\* CLOSURE_SETTLED: the participants are completed, and their collection is scheduled unless the issue was reopened.
CompleteClosure ==
    /\ state = "CLOSING"
    /\ Mark(Kept, "COMPLETED")
    /\ runtime' = IF Kept = {} THEN "COLLECTED" ELSE "RETAINED"
    /\ IF reopen
       THEN state' = "DORMANT" /\ token' = 0 /\ UNCHANGED <<retention, jobRow>>
       ELSE /\ state' = "CLOSED"
            /\ IF Kept = {}
               THEN token' = 0 /\ UNCHANGED <<retention, jobRow>>
               ELSE /\ generation' = [generation EXCEPT ![token] = "SCHEDULED"]
                    /\ targets' = [targets EXCEPT ![token] = Kept]
                    /\ job' = [job EXCEPT ![token] = "AVAILABLE"]
                    /\ UNCHANGED <<token, authorized, attempts, leased>>
    /\ reopen' = FALSE
    /\ UNCHANGED <<inbox, stage, prepare, disk, collector>>

-----------------------------------------------------------------------------
(* The collection worker.                                                  *)

Held(c)       == LET t == collector[c].token
                 IN  collector[c] # Idle /\ job[t] = "LEASED" /\ attempts[t] = collector[c].attempt /\ leased[t]
Be(c, value)  == collector' = [collector EXCEPT ![c] = value]

\* ClaimJobKind, once the retention deadline has passed.
ClaimCollection(c, t) ==
    /\ collector[c] = Idle /\ job[t] = "AVAILABLE" /\ attempts[t] < ClaimBound
    /\ job'      = [job EXCEPT ![t] = "LEASED"]
    /\ attempts' = [attempts EXCEPT ![t] = @ + 1]
    /\ leased'   = [leased EXCEPT ![t] = TRUE]
    /\ Be(c, [token |-> t, attempt |-> attempts[t] + 1, at |-> "claimed"])
    /\ UNCHANGED <<inbox, workflow, people, disk, retention>>

\* A lease expires; the worker may still be deleting.
ExpireLease(t) ==
    /\ leased[t] /\ attempts[t] < ClaimBound
    /\ leased' = [leased EXCEPT ![t] = FALSE]
    /\ UNCHANGED <<inbox, workflow, people, disk, retention, job, attempts, collector>>

\* An authorized collection is never given up.
MayRetry(t) == attempts[t] < MaxAttempts \/ generation[t] = "COLLECTING"

\* The next claim takes an expired lease back.
ReclaimCollection(t) ==
    /\ job[t] = "LEASED" /\ ~leased[t]
    /\ job' = [job EXCEPT ![t] = IF MayRetry(t) THEN "AVAILABLE" ELSE "FAILED"]
    /\ UNCHANGED <<inbox, workflow, people, disk, retention, attempts, leased, collector>>

\* AuthorizeAssignmentCollection: irrevocable from here on.  Another attempt takes the authorization over.
Authorize(c) ==
    LET t == collector[c].token
    IN  /\ Held(c) /\ collector[c].at = "claimed"
        /\ \/ generation[t] = "SCHEDULED" /\ state = "CLOSED" /\ token = t /\ targets[t] = Kept
           \/ generation[t] = "COLLECTING"
        /\ generation' = [generation EXCEPT ![t] = "COLLECTING"]
        /\ authorized' = [authorized EXCEPT ![t] = collector[c].attempt]
        /\ Be(c, [collector[c] EXCEPT !.at = "authorized"])
        /\ UNCHANGED <<inbox, workflow, people, disk, targets, jobRow>>

\* CollectParticipant: not fenced, the worker may have lost its lease.
Remove(c) ==
    /\ collector[c].at = "authorized"
    /\ \E p \in targets[collector[c].token] \cap disk : disk' = disk \ {p}
    /\ UNCHANGED <<inbox, workflow, people, retention, jobRow, collector>>

\* A mutant of Finalize: an authorization that another attempt took over still finishes, on what it saw.
FinalizeStale(c) ==
    LET t == collector[c].token
    IN  /\ Held(c) /\ collector[c].at = "authorized"
        /\ generation[t] = "COLLECTING"
        /\ generation' = [generation EXCEPT ![t] = "COLLECTED"]
        /\ job'    = [job EXCEPT ![t] = "SUCCEEDED"]
        /\ leased' = [leased EXCEPT ![t] = FALSE]
        /\ Mark(targets[t], "DELETED")
        /\ runtime' = "COLLECTED" /\ token' = 0
        /\ Be(c, Idle)
        /\ UNCHANGED <<inbox, state, stage, reopen, prepare, disk, targets, authorized, attempts>>

\* FinalizeAssignmentCollection, once every target is confirmed absent.
Finalize(c) ==
    LET t == collector[c].token
    IN  /\ Held(c) /\ collector[c].at = "authorized" /\ targets[t] \cap disk = {}
        /\ generation[t] = "COLLECTING" /\ authorized[t] = collector[c].attempt
        /\ generation' = [generation EXCEPT ![t] = "COLLECTED"]
        /\ job'    = [job EXCEPT ![t] = "SUCCEEDED"]
        /\ leased' = [leased EXCEPT ![t] = FALSE]
        /\ Mark(targets[t], "DELETED")
        /\ runtime' = "COLLECTED" /\ token' = 0
        /\ Be(c, Idle)
        /\ UNCHANGED <<inbox, state, stage, reopen, prepare, disk, targets, authorized, attempts>>

\* AcknowledgeAssignmentCollectionFailure
CollectionFails(c) ==
    LET t == collector[c].token
    IN  /\ Held(c) /\ attempts[t] < ClaimBound
        /\ job'    = [job EXCEPT ![t] = IF MayRetry(t) THEN "AVAILABLE" ELSE "FAILED"]
        /\ leased' = [leased EXCEPT ![t] = FALSE]
        /\ Be(c, Idle)
        /\ UNCHANGED <<inbox, workflow, people, disk, retention, attempts>>

\* The worker dies, or finds that its fence is lost.
Abandon(c) ==
    /\ collector[c] # Idle /\ (Held(c) => attempts[collector[c].token] < ClaimBound)
    /\ Be(c, Idle)
    /\ UNCHANGED <<inbox, workflow, people, disk, retention, jobRow>>

-----------------------------------------------------------------------------
Worker(c) == \/ \E t \in Tokens : ClaimCollection(c, t)
             \/ Authorize(c) \/ Remove(c) \/ Finalize(c)

Next ==
    \/ /\ \E d \in Deliveries : (\E k \in Kinds : Receive(d, k)) \/ ExpireClaim(d)
       /\ UNCHANGED Outside
    \/ \E p \in Processors : Process(p) \/ Disturb(p)
    \/ PrepareTurn \/ TurnSettles \/ HandOff \/ CompleteClosure
    \/ \E t \in Tokens : ExpireLease(t) \/ ReclaimCollection(t)
    \/ \E c \in Collectors : Worker(c) \/ CollectionFails(c) \/ Abandon(c)

Spec == Init /\ [][Next]_vars

\* The processors and the workers poll, time passes, and a process that died is started again.
Fairness ==
    /\ \A p \in Processors : WF_vars(Process(p)) /\ WF_vars(~Fenced(p) /\ Drop(p) /\ UNCHANGED Outside)
    /\ \A d \in Deliveries : WF_vars(ExpireClaim(d) /\ UNCHANGED Outside)
    /\ \A t \in Tokens : WF_vars(ExpireLease(t)) /\ WF_vars(ReclaimCollection(t))
    /\ \A c \in Collectors : WF_vars(Worker(c)) /\ WF_vars(~Held(c) /\ Abandon(c))
    /\ WF_vars(CompleteClosure)

FairSpec == Spec /\ Fairness

-----------------------------------------------------------------------------
(* Properties.                                                             *)

Position(d) == CHOOSE n \in 1..Len(applied) : applied[n] = d
Reduced     == {applied[n] : n \in 1..Len(applied)}

\* No event overtakes a reopen of its issue that was received before it: by the time it is applied the reopen has
\* been applied, or has been given up (claimWebhookDelivery, workflowTransitionBlockedTx).
ReopenHoldsTheLine ==
    \A d \in Reduced, e \in Deliveries :
        e < d /\ kind[e] = "reopened" =>
            \/ e \in Reduced /\ Position(e) < Position(d)
            \/ delivery[e] = "FAILED" \/ event[e] = "FAILED"

\* Runtime state disappears only with a collection that was authorized: until it is finished the issue is closed,
\* and the participant is never used again (AuthorizeAssignmentCollection, cancelAssignmentRetentionTx).
DeletionIsAuthorized ==
    \A p \in Participants \ disk :
        \/ participant[p] \in {"ABSENT", "DELETED"}
        \/ /\ participant[p] = "COMPLETED" /\ state = "CLOSED"
           /\ \E t \in Tokens : generation[t] = "COLLECTING" /\ p \in targets[t]

\* A participant is recorded as deleted only when its runtime state is gone, whichever of the workers that
\* were authorized to the collection removed it (FinalizeAssignmentCollection).
DeletedMeansAbsent == \A p \in Participants : participant[p] = "DELETED" => p \notin disk

\* What is collected was authorized, and what counts as collected is gone.
CollectionIsSafe == DeletionIsAuthorized /\ DeletedMeansAbsent

\* Every delivery that was accepted is settled, and no event waits forever: neither behind a reopen nor behind
\* a collection whose workers die (ProcessNext, AcknowledgeAssignmentCollectionFailure).
EventsSettle ==
    \A d \in Deliveries :
        delivery[d] # "ABSENT" ~> ~Open(d) /\ event[d] # "PENDING"

\* "A new trigger after reopening reactivates retained Assignments" (docs/implementation-plan.md:248): whatever
\* stage the new Attempt reaches, its preparation can use the participant that was retained for it.
ReactivationReachesEveryStage == state = "ACTIVE" /\ prepare # "none" => Assignable

=============================================================================
