-------------------------- MODULE WorkflowReducer --------------------------
(***************************************************************************)
(* The pure Workflow Reducer (src/internal/workflow): a Snapshot of one    *)
(* Workflow and an Event give a Decision.  The module has no variables:    *)
(* the modules that hold a Workflow apply these operators, as the store    *)
(* applies Reducer.Reduce inside its transactions.                         *)
(*                                                                         *)
(* What the properties do not tell apart is folded together:               *)
(*   - an Attempt is its number (identifier and number are minted as one); *)
(*   - a Turn guard is the turn's number with the Attempt, Stage, Change   *)
(*     Proposal and head it was prepared for (session, epoch and control   *)
(*     revision are fixed when the turn row is created);                   *)
(*   - RetainUntil and RetentionToken are minted together, and the Closure *)
(*     carries both: one number, 0 for the zero values;                    *)
(*   - review usage is kept for the one Stage that has a review limit.     *)
(***************************************************************************)
EXTENDS Naturals

CONSTANTS
    ReviewLimit,   \* accepted reviews of one Attempt (3 in the builtin Definition)
    RetryLimit,    \* infrastructure retries of one Attempt (1 in the deployment)
    Heads,         \* commit SHAs of Change Proposal heads
    NoHead,        \* the empty SHA
    PRs,           \* Change Proposal identifiers
    NoPR           \* no Change Proposal

ASSUME LimitsAssumption == ReviewLimit \in Nat \ {0} /\ RetryLimit \in Nat \ {0}
ASSUME AbsentAssumption == NoHead \notin Heads /\ NoPR \notin PRs

-----------------------------------------------------------------------------
\* The builtin Workflow Definition.

Stages     == {"planning", "implementation", "review"}
StageRole  == [planning |-> "PLANNER", implementation |-> "DEVELOPER", review |-> "REVIEWER"]
StageState == [planning |-> "PLANNING", implementation |-> "DEVELOPING", review |-> "REVIEWING"]
Roles      == {"PLANNER", "DEVELOPER", "REVIEWER"}

\* The outcomes each Stage has a transition for, and where the two that have a successor lead.
Accepts    == [planning       |-> {"PLANNING_READY"},
               implementation |-> {"CHANGE_PROPOSAL_READY"},
               review         |-> {"CHANGES_REQUESTED", "APPROVED"}]
NextStage   == [CHANGE_PROPOSAL_READY |-> "review", CHANGES_REQUESTED |-> "implementation"]
NextPurpose == [CHANGE_PROPOSAL_READY |-> "REVIEW", CHANGES_REQUESTED |-> "REQUESTED_CHANGES"]

ActiveStates  == {"PLANNING", "DEVELOPING", "REVIEWING"}
AttemptStates == ActiveStates \cup {"PLAN_READY", "PR_READY", "NEEDS_HUMAN"}
States        == AttemptStates \cup {"ABSENT", "DORMANT", "CLOSING", "CLOSED"}

-----------------------------------------------------------------------------
\* Snapshots.

\* One shape for ActiveTurn, its TurnGuard and "no active turn".
NoTurn == [id |-> 0, attempt |-> 0, stage |-> "", pr |-> NoPR, head |-> NoHead]
Turn   == [id : Nat, attempt : Nat, stage : Stages \cup {""}, pr : PRs \cup {NoPR}, head : Heads \cup {NoHead}]

\* stage = "" stands for no CurrentAttempt; attempt is LastAttemptNumber.
Snapshot ==
    [planningOnly : BOOLEAN, waiting : BOOLEAN, state : States, revision : Nat,
     attempt : Nat, stage : Stages \cup {""}, usage : Nat, retries : Nat,
     pr : PRs \cup {NoPR}, head : Heads \cup {NoHead}, ready : Heads \cup {NoHead},
     turn : Turn, continuation : Stages \cup {""}, resume : Roles \cup {""},
     status : {"", "ACTIVE", "WAITING_FOR_HUMAN", "COMPLETED"},
     runtime : {"", "ACTIVE", "RETAINED", "COLLECTED"},
     token : Nat, closure : Nat, reopen : BOOLEAN]

Absent ==
    [planningOnly |-> FALSE, waiting |-> FALSE, state |-> "ABSENT", revision |-> 0,
     attempt |-> 0, stage |-> "", usage |-> 0, retries |-> 0,
     pr |-> NoPR, head |-> NoHead, ready |-> NoHead,
     turn |-> NoTurn, continuation |-> "", resume |-> "",
     status |-> "", runtime |-> "", token |-> 0, closure |-> 0, reopen |-> FALSE]

HasAttempt(s)  == s.stage # ""
HasTurn(s)     == s.turn # NoTurn
HasProposal(s) == s.pr # NoPR
ValidChangeProposal(s) == HasProposal(s) /\ s.head # NoHead

ValidAssignments(s) ==
    CASE s.state \in ActiveStates \cup {"PLAN_READY", "PR_READY"} ->
             s.status = "ACTIVE" /\ s.runtime = "ACTIVE" /\ s.token = 0
      [] s.state = "NEEDS_HUMAN" ->
             s.status = "WAITING_FOR_HUMAN" /\ s.runtime \in {"ACTIVE", "COLLECTED"} /\ s.token = 0
      [] s.state = "CLOSING" ->
             /\ s.token = 0
             /\ \/ s.status = "ACTIVE" /\ HasAttempt(s) /\ s.runtime = "ACTIVE"
                \/ s.status = "WAITING_FOR_HUMAN" /\ HasAttempt(s) /\ s.runtime \in {"ACTIVE", "COLLECTED"}
                \/ s.status = "COMPLETED" /\ ~HasAttempt(s) /\ s.runtime \in {"RETAINED", "COLLECTED"}
      [] s.state = "CLOSED" ->
             /\ s.status = "COMPLETED"
             /\ \/ s.runtime = "RETAINED" /\ s.token # 0
                \/ s.runtime = "COLLECTED" /\ s.token = 0
      [] s.state = "DORMANT" ->
             s.status = "COMPLETED" /\ s.runtime \in {"RETAINED", "COLLECTED"} /\ s.token = 0
      [] OTHER -> FALSE

ValidAttempt(s) ==
    /\ s.state \in AttemptStates => HasAttempt(s)
    /\ HasAttempt(s) => s.state \in AttemptStates \cup {"CLOSING"}
    /\ s.attempt > 0
    /\ HasAttempt(s) => /\ s.retries <= RetryLimit
                        /\ s.usage <= ReviewLimit
                        /\ s.state = "REVIEWING" => s.usage < ReviewLimit

\* validOptionalActiveTurn: the turn was prepared for exactly the current Attempt, Stage and head.
ValidActiveTurn(s) ==
    HasTurn(s) => /\ s.turn.id > 0
                  /\ s.turn.attempt = s.attempt
                  /\ s.turn.stage = s.stage
                  /\ s.turn.pr = s.pr
                  /\ s.turn.head = s.head

ValidClosingTurn(s) ==
    HasTurn(s) => /\ HasAttempt(s)
                  /\ s.turn.id > 0
                  /\ s.turn.attempt = s.attempt
                  /\ s.turn.stage = s.stage

ValidStateShape(s) ==
    CASE s.state \in {"DORMANT", "CLOSED"} -> ~HasAttempt(s) /\ ~HasTurn(s) /\ s.closure = 0
      [] s.state \in ActiveStates ->
             /\ s.closure = 0
             /\ s.state = "REVIEWING" => ValidChangeProposal(s)
             /\ StageState[s.stage] = s.state
             /\ ValidActiveTurn(s)
      [] s.state = "PLAN_READY" ->
             s.planningOnly /\ s.stage = "planning" /\ s.closure = 0 /\ ~HasTurn(s) /\ ~HasProposal(s)
      [] s.state = "PR_READY" -> s.closure = 0 /\ ~HasTurn(s) /\ ValidChangeProposal(s) /\ s.ready = s.head
      [] s.state = "NEEDS_HUMAN" -> s.closure = 0 /\ ~HasTurn(s)
      [] s.state = "CLOSING" -> s.closure # 0 /\ ValidClosingTurn(s)
      [] OTHER -> FALSE

ValidSnapshot(s) ==
    \/ s = Absent
    \/ /\ s.state # "ABSENT"
       /\ ValidAssignments(s)
       /\ ValidAttempt(s)
       /\ ValidStateShape(s)
       /\ s.planningOnly => ~HasProposal(s) /\ s.stage \in {"", "planning"}
       /\ ~s.planningOnly => s.stage # "planning"
       /\ HasProposal(s) /\ s.state # "PR_READY" => s.ready = NoHead

-----------------------------------------------------------------------------
\* Decisions.  Effects are the actions the store must persist with the Snapshot.

NoIntent == [kind |-> "none", stage |-> "", purpose |-> "", head |-> NoHead]

NoEffects ==
    [intent |-> NoIntent,        \* EnqueueTurn / EnqueueTerminalRevalidation / ReconcilePendingEvents
     assignments |-> "",         \* EnsureAssignments mode, or COMPLETED
     attempt |-> "",             \* why the previous Attempt completed
     stop |-> "",                \* STOP for closure, INTERRUPT for a Human Handoff
     settleClosure |-> FALSE, defer |-> FALSE,
     review |-> "",              \* RecordReview: RECORDED or ACCEPTED
     handoff |-> "", labels |-> "", retention |-> ""]

Applied(s, reason, effects) ==
    [disposition |-> "APPLIED", reason |-> reason, snap |-> [s EXCEPT !.revision = @ + 1], effects |-> effects]

\* DUPLICATE, STALE, UNRELATED and ILLEGAL: the event is consumed and the Workflow is left alone.
Rejected(s) ==
    [disposition |-> "REJECTED", reason |-> "", snap |-> s, effects |-> NoEffects]

\* The event is recorded behind the active turn and comes back once the turn has settled.
Deferred(s) ==
    [disposition |-> "DEFERRED", reason |-> "active_turn", snap |-> s, effects |-> [NoEffects EXCEPT !.defer = TRUE]]

\* expectedRevisionDecision: an event built from another revision of the Workflow is stale.
Fresh(s, e) == e.revision = s.revision

EnqueueTurn(stage, purpose, head) == [kind |-> "turn", stage |-> stage, purpose |-> purpose, head |-> head]

\* successorActions: with events waiting, a reconciliation carries the successor as its fallback.
Successor(pending, intent) == IF pending.some THEN [intent EXCEPT !.kind = "reconcile"] ELSE intent

\* A decision without a successor leaves an intent behind only when events are waiting.
PendingOnly(pending) == IF pending.some THEN [NoIntent EXCEPT !.kind = "reconcile"] ELSE NoIntent

\* Every Human Handoff: the Workflow waits for a person and names the Role to resume with.
NeedsHuman(s, role) ==
    [s EXCEPT !.state = "NEEDS_HUMAN", !.resume = role, !.status = "WAITING_FOR_HUMAN"]
Handoff(s, role, reason, intent) ==
    Applied(NeedsHuman(s, role), reason,
            [NoEffects EXCEPT !.handoff = reason, !.labels = "NEEDS_HUMAN", !.intent = intent])

-----------------------------------------------------------------------------
\* Failures reported outside a turn.

\* WorkflowActionExhausted carries the Role to resume; the reducer takes it from the current Stage.
ReduceWorkflowActionExhausted(s, e) ==
    CASE ~Fresh(s, e) \/ s.state \notin AttemptStates \/ s.state = "NEEDS_HUMAN" -> Rejected(s)
      [] Fresh(s, e) /\ s.state \in AttemptStates \ {"NEEDS_HUMAN"} /\ HasTurn(s) ->
             [Rejected(s) EXCEPT !.disposition = "DEFERRED"]
      [] Fresh(s, e) /\ s.state \in AttemptStates \ {"NEEDS_HUMAN"} /\ ~HasTurn(s) ->
             Handoff([s EXCEPT !.ready = NoHead], StageRole[s.stage], "workflow_action_exhausted", NoIntent)

\* A report about the Role of the current Stage while no turn is active.
StageReport(s, e) == Fresh(s, e) /\ s.state \in ActiveStates /\ ~HasTurn(s) /\ e.role = StageRole[s.stage]

ReduceMutationReconciliationExhausted(s, e) ==
    IF StageReport(s, e)
    THEN Handoff(s, e.role, "agent_turn_mutation_reconciliation_exhausted", NoIntent)
    ELSE Rejected(s)

ReduceAssignmentConfigurationConflict(s, e) ==
    IF StageReport(s, e)
    THEN Handoff(s, e.role, "assignment_configuration_conflict", NoIntent)
    ELSE Rejected(s)

ReduceAgentTurnPreparationFailed(s, e) ==
    IF StageReport(s, e)
    THEN Handoff([s EXCEPT !.runtime = IF e.assignmentsExist THEN @ ELSE "COLLECTED"],
                 e.role, "agent_turn_preparation_failed", NoIntent)
    ELSE Rejected(s)

-----------------------------------------------------------------------------
\* Activation.

NoPrior == [id |-> 0, stage |-> "", head |-> NoHead, blocked |-> FALSE]

\* The Stage a trigger enters: the interrupted one, or the initial one when a review has nothing to review.
WantedStage(s, e) ==
    IF e.planningOnly THEN "planning"
    ELSE IF HasAttempt(s) THEN s.stage
    ELSE IF s.continuation # "" THEN s.continuation
    ELSE "implementation"
NothingToReview(s, e) == WantedStage(s, e) = "review" /\ ~HasProposal(s)
EntryStage(s, e) == IF NothingToReview(s, e) THEN "implementation" ELSE WantedStage(s, e)
EntryPurpose(s, e) ==
    IF e.planningOnly THEN "INITIAL_PLANNING"
    ELSE IF s.state = "ABSENT" \/ NothingToReview(s, e) THEN "INITIAL_DEVELOPMENT"
    ELSE "REACTIVATION"

AssignmentMode(s) ==
    IF s.state = "ABSENT" \/ s.runtime = "COLLECTED" THEN "NEW"
    ELSE IF s.runtime = "RETAINED" THEN "RETAINED" ELSE "CURRENT"

\* A handed-off terminal outcome may be checked again instead of running the turn once more.
Revalidates(s, e) ==
    /\ e.prior # NoPrior
    /\ s.state = "NEEDS_HUMAN"
    /\ e.prior.stage = EntryStage(s, e)
    /\ s.resume = StageRole[EntryStage(s, e)]
    /\ AssignmentMode(s) # "NEW"
    /\ e.prior.head = s.head

\* A mutant of NewAttempt: the ready commit of the last Attempt is carried over.
NewAttemptReadyKept(s, e) ==
    LET stage == EntryStage(s, e)
    IN  [s EXCEPT !.planningOnly = @ \/ e.planningOnly, !.state = StageState[stage],
                  !.attempt = e.attempt, !.stage = stage, !.usage = 0, !.retries = 0,
                  !.turn = NoTurn, !.continuation = "", !.closure = 0, !.reopen = FALSE,
                  !.status = "ACTIVE", !.runtime = "ACTIVE", !.token = 0, !.resume = ""]

NewAttempt(s, e) ==
    LET stage == EntryStage(s, e)
    IN  [s EXCEPT !.planningOnly = @ \/ e.planningOnly, !.state = StageState[stage],
                  !.attempt = e.attempt, !.stage = stage, !.usage = 0, !.retries = 0,
                  !.turn = NoTurn, !.continuation = "", !.closure = 0, !.reopen = FALSE, !.ready = NoHead,
                  !.status = "ACTIVE", !.runtime = "ACTIVE", !.token = 0, !.resume = ""]

ReduceTrigger(s, e) ==
    LET refused   == \/ e.planningOnly /\ s.state # "ABSENT"
                     \/ s.planningOnly /\ s.state # "NEEDS_HUMAN"
                     \/ ~Fresh(s, e)
        completed == s.planningOnly /\ s.state = "NEEDS_HUMAN" /\ e.planningCompleted
        blocked   == e.prior.blocked /\ s.state = "NEEDS_HUMAN"
        stage     == EntryStage(s, e)
        deferLabels == HasProposal(s) /\ s.state \in {"NEEDS_HUMAN", "PR_READY"}
    IN  IF refused THEN Rejected(s)
        ELSE IF s.state \in ActiveStates /\ HasTurn(s) THEN Deferred(s)
        ELSE IF s.state \notin {"ABSENT", "DORMANT", "PR_READY", "NEEDS_HUMAN"} THEN Rejected(s)
        ELSE IF completed THEN
            Applied([s EXCEPT !.state = "PLAN_READY", !.resume = "", !.status = "ACTIVE"], "triggered",
                    [NoEffects EXCEPT !.labels = "PLAN_READY"])
        ELSE IF blocked THEN
            Applied(s, "terminal_revalidation_human_control",
                    [NoEffects EXCEPT !.handoff = "terminal_revalidation_human_control", !.labels = "NEEDS_HUMAN"])
        ELSE IF e.attempt # s.attempt + 1 THEN Rejected(s)
        ELSE Applied(NewAttempt(s, e), "triggered",
                [NoEffects EXCEPT
                    !.attempt = IF HasAttempt(s) THEN "superseded" ELSE "",
                    !.assignments = AssignmentMode(s),
                    !.labels = IF deferLabels THEN "" ELSE StageState[stage],
                    !.intent = IF Revalidates(s, e)
                               THEN [NoIntent EXCEPT !.kind = "revalidate"]
                               ELSE EnqueueTurn(stage, EntryPurpose(s, e), s.head)])

-----------------------------------------------------------------------------
\* Settlement of a turn.  e.turn is the guard of the turn that settled, e.pr and e.head the Change
\* Proposal corroborated for its outcome, e.review the corroborated review, e.pending the events
\* recorded behind the turn, e.publication a Change Proposal the turn was the first to publish.

NoReview == [id |-> 0, pr |-> NoPR, head |-> NoHead, authorized |-> FALSE]

SetProposal(s, pr, head) == [s EXCEPT !.pr = pr, !.head = head, !.ready = NoHead]

\* clarificationWaitDecision: the turn ends and the Workflow waits for an answer, unless one is there already.
ClarificationWait(s, stage, inputPending) ==
    Applied([s EXCEPT !.waiting = TRUE], "clarification_wait",
            [NoEffects EXCEPT !.intent = IF inputPending THEN EnqueueTurn(stage, "REACTIVATION", s.head) ELSE NoIntent])

\* s is the Workflow the event found, next the same Workflow with the turn taken off it.
ReduceDeveloperSettled(s, next, e) ==
    IF (IF HasProposal(s) THEN e.pr # s.pr \/ e.turn.pr # s.pr ELSE e.turn.pr # NoPR)
    THEN Rejected(s)
    ELSE LET target == NextStage[e.outcome]
         IN  Applied([SetProposal(next, e.pr, e.head) EXCEPT
                         !.stage = target, !.state = StageState[target], !.retries = 0],
                     "change_proposal_ready",
                     [NoEffects EXCEPT
                         !.intent = Successor(e.pending, EnqueueTurn(target, NextPurpose[e.outcome], e.head)),
                         !.labels = StageState[target]])

\* A mutant of ReviewIsStale: the commit the turn was prepared for is not looked at.
ReviewIsStaleOnGitHub(s, e) ==
    e.review.head # e.head \/ (e.pending.head # NoHead /\ e.pending.head # e.review.head)

\* The verdict is about another commit than the one prepared, corroborated or pushed since.
ReviewIsStale(s, e) ==
    \/ e.review.head # e.turn.head
    \/ e.review.head # e.head
    \/ s.head # e.turn.head
    \/ e.pending.head # NoHead /\ e.pending.head # e.review.head

ReduceReviewSettled(s, next, e) ==
    LET reviewed == [SetProposal(next, e.pr, e.head) EXCEPT !.retries = 0]
        counted  == [reviewed EXCEPT !.usage = @ + 1]
        accepted == [NoEffects EXCEPT !.review = "ACCEPTED"]
    IN  IF \/ ~HasProposal(s) \/ e.turn.pr # s.pr \/ e.review.pr # s.pr \/ e.pr # s.pr
           \/ ~e.review.authorized
        THEN Rejected(s)
        ELSE IF ReviewIsStale(s, e)
        THEN Applied([reviewed EXCEPT !.state = StageState[s.stage]], "review_head_replaced",
                     [NoEffects EXCEPT
                         !.review = "RECORDED",
                         !.intent = Successor(e.pending, EnqueueTurn(s.stage, "SYNCHRONIZATION", e.head)),
                         !.labels = StageState[s.stage]])
        ELSE IF e.outcome = "APPROVED"
        THEN Applied([counted EXCEPT !.state = "PR_READY", !.ready = e.review.head], "approved",
                     [accepted EXCEPT !.labels = "PR_READY", !.intent = PendingOnly(e.pending)])
        ELSE LET target == NextStage[e.outcome]
                 moved  == [counted EXCEPT !.stage = target]
             IN  IF counted.usage >= ReviewLimit
                 THEN LET d == Handoff(moved, StageRole[target], "review_budget_exhausted", PendingOnly(e.pending))
                      IN  [d EXCEPT !.effects.review = "ACCEPTED"]
                 ELSE Applied([moved EXCEPT !.state = StageState[target]], "changes_requested",
                              [accepted EXCEPT
                                  !.intent = Successor(e.pending, EnqueueTurn(target, NextPurpose[e.outcome], e.head)),
                                  !.labels = StageState[target]])

\* One retry budget per Attempt; a successful outcome refills it.
ReduceInfrastructureFailure(next, e) ==
    IF next.retries < RetryLimit
    THEN Applied([next EXCEPT !.retries = @ + 1], "infrastructure_retry",
                 [NoEffects EXCEPT !.intent = Successor(e.pending, EnqueueTurn(e.turn.stage, "RETRY",
                     IF e.publication # NoPR THEN next.head ELSE e.turn.head))])
    ELSE Handoff(next, StageRole[e.turn.stage], "infrastructure_retries_exhausted", PendingOnly(e.pending))

\* A first publication becomes the Change Proposal of the Workflow whatever the outcome is.
Associate(s, e) ==
    IF e.publication = NoPR THEN s ELSE [s EXCEPT !.pr = e.publication, !.head = e.publicationHead]

ReduceTurnSettled(s, e) ==
    LET next == Associate([s EXCEPT !.turn = NoTurn, !.resume = ""], e)
        associable == \/ e.publication = NoPR
                      \/ /\ ~HasProposal(s)
                         /\ e.outcome = "CHANGE_PROPOSAL_READY" => e.pr = e.publication /\ e.head = e.publicationHead
    IN  IF \/ e.existingReview \/ ~Fresh(s, e) \/ s.state \notin ActiveStates
           \/ ~HasTurn(s) \/ s.turn # e.turn \/ ~associable
        THEN Rejected(s)
        ELSE CASE e.outcome = "CLARIFICATION_WAIT" ->
                    IF e.pr = NoPR THEN ClarificationWait(next, e.turn.stage, e.inputPending)
                    ELSE IF HasProposal(next) /\ next.pr # e.pr THEN Rejected(s)
                    ELSE ClarificationWait(SetProposal(next, e.pr, e.head), e.turn.stage, e.inputPending)
               [] e.outcome \in {"PLANNING_READY", "CHANGE_PROPOSAL_READY", "CHANGES_REQUESTED", "APPROVED"}
                  /\ e.outcome \notin Accepts[s.stage] -> Rejected(s)
               [] e.outcome = "PLANNING_READY" /\ s.stage = "planning" ->
                    IF ~s.planningOnly \/ HasProposal(s) \/ e.publication # NoPR THEN Rejected(s)
                    ELSE IF e.inputPending THEN ClarificationWait(next, e.turn.stage, TRUE)
                    ELSE Applied([next EXCEPT !.state = "PLAN_READY"], "approved", [NoEffects EXCEPT !.labels = "PLAN_READY"])
               [] e.outcome = "CHANGE_PROPOSAL_READY" /\ s.stage = "implementation" -> ReduceDeveloperSettled(s, next, e)
               [] e.outcome \in {"CHANGES_REQUESTED", "APPROVED"} /\ s.stage = "review" -> ReduceReviewSettled(s, next, e)
               [] e.outcome \in {"BLOCKED", "PREREQUISITE_FAILED"} ->
                    Handoff(next, StageRole[e.turn.stage], "agent_blocked", PendingOnly(e.pending))
               [] e.outcome = "INFRASTRUCTURE_FAILED" ->
                    IF e.handoff # ""
                    THEN Handoff(next, StageRole[e.turn.stage], e.handoff, PendingOnly(e.pending))
                    ELSE ReduceInfrastructureFailure(next, e)

-----------------------------------------------------------------------------
\* Revalidation of a terminal outcome an earlier Attempt handed off.  e.turn is the source turn.

\* The review was accepted before the hand-off, so no review cycle is consumed again.
ReducePreviouslyAcceptedReview(s, e) ==
    LET next == [SetProposal(s, e.pr, e.head) EXCEPT !.retries = 0]
        stale == e.review.head # e.turn.head \/ e.review.head # e.head \/ s.head # e.turn.head
    IN  IF \/ ~HasProposal(s) \/ e.turn.pr # s.pr \/ e.review.pr # s.pr \/ e.pr # s.pr
           \/ ~e.review.authorized \/ e.outcome \notin Accepts[s.stage]
        THEN Rejected(s)
        ELSE IF stale
        THEN Applied(next, "review_head_replaced",
                     [NoEffects EXCEPT !.intent = EnqueueTurn(s.stage, "SYNCHRONIZATION", e.head), !.labels = s.state])
        ELSE IF e.outcome = "APPROVED"
        THEN Applied([next EXCEPT !.state = "PR_READY", !.ready = e.review.head], "approved",
                     [NoEffects EXCEPT !.labels = "PR_READY"])
        ELSE LET target == NextStage[e.outcome]
             IN  Applied([next EXCEPT !.stage = target, !.state = StageState[target]], "changes_requested",
                         [NoEffects EXCEPT !.intent = EnqueueTurn(target, NextPurpose[e.outcome], e.head),
                                           !.labels = StageState[target]])

ReduceTerminalIntentRevalidated(s, e) ==
    LET next == [s EXCEPT !.resume = ""]
    IN  IF \/ ~Fresh(s, e) \/ ~HasAttempt(s) \/ s.attempt # e.attempt \/ HasTurn(s)
           \/ s.stage # e.turn.stage \/ s.state \notin ActiveStates
        THEN Rejected(s)
        ELSE IF e.outcome = "CLARIFICATION_WAIT" THEN ClarificationWait(next, e.turn.stage, e.inputPending)
        ELSE IF e.inputPending
        THEN Applied(IF e.pr = NoPR THEN s ELSE SetProposal(s, e.pr, e.head), "human_input_pending",
                     [NoEffects EXCEPT !.intent = EnqueueTurn(s.stage, "REACTIVATION", e.head)])
        ELSE IF e.existingReview THEN ReducePreviouslyAcceptedReview(s, e)
        ELSE IF e.outcome \notin Accepts[s.stage] THEN Rejected(s)
        ELSE IF e.outcome = "CHANGE_PROPOSAL_READY" THEN ReduceDeveloperSettled(s, next, e)
        ELSE ReduceReviewSettled(s, next, e)

ReduceTerminalRevalidationFailed(s, e) ==
    IF Fresh(s, e) /\ HasAttempt(s) /\ s.attempt = e.attempt /\ ~HasTurn(s) /\ s.state \in ActiveStates
    THEN Handoff(s, StageRole[s.stage], e.reason, NoIntent)
    ELSE Rejected(s)

-----------------------------------------------------------------------------
\* Observations of GitHub.

\* The states a push changes something in.
FollowsHead(s) == s.state \in ActiveStates \cup {"PR_READY", "NEEDS_HUMAN"}

\* A push: e.head replaces e.previous.
ReduceSynchronization(s, e) ==
    LET moved == [s EXCEPT !.head = e.head, !.ready = NoHead]
        current == /\ Fresh(s, e) /\ FollowsHead(s)
                   /\ HasProposal(s) /\ s.pr = e.pr /\ s.head # e.head /\ s.head = e.previous
    IN  IF Fresh(s, e) /\ HasTurn(s) /\ s.state \in ActiveStates THEN Deferred(s)
        ELSE IF ~current THEN Rejected(s)
        ELSE IF s.state = "NEEDS_HUMAN"
        THEN Applied(moved, "review_head_replaced", [NoEffects EXCEPT !.labels = "NEEDS_HUMAN"])
        ELSE IF StageState[s.stage] = "DEVELOPING" \/ s.waiting
        THEN Applied(moved, "review_head_replaced", [NoEffects EXCEPT !.labels = StageState[s.stage]])
        ELSE IF s.stage = "review" /\ s.usage >= ReviewLimit
        THEN Handoff(moved, StageRole[s.stage], "review_budget_exhausted", NoIntent)
        ELSE Applied([moved EXCEPT !.state = StageState[s.stage]], "review_head_replaced",
                     [NoEffects EXCEPT !.intent = EnqueueTurn(s.stage, "SYNCHRONIZATION", e.head),
                                       !.labels = StageState[s.stage]])

\* ReviewObserved and ChangeProposalObserved only ever wait for the turn that may have caused them.
ReduceObservation(s, e) ==
    IF Fresh(s, e) /\ HasTurn(s) /\ s.state \in ActiveStates THEN Deferred(s) ELSE Rejected(s)

ReduceIssueClosed(s, e) ==
    LET left == IF HasAttempt(s) THEN s.stage ELSE s.continuation
        role == IF HasTurn(s) THEN StageRole[s.turn.stage]
                ELSE IF left # "" THEN StageRole[left] ELSE s.resume
    IN  IF ~Fresh(s, e) \/ s.state \notin AttemptStates \cup {"DORMANT"} THEN Rejected(s)
        ELSE Applied([s EXCEPT !.state = "CLOSING", !.continuation = left, !.resume = role,
                               !.closure = e.closure, !.reopen = FALSE, !.ready = NoHead],
                     "closure_started",
                     [NoEffects EXCEPT !.stop = IF HasTurn(s) THEN "STOP" ELSE "",
                                       !.settleClosure = TRUE, !.labels = "CLOSING"])

\* The settlement is about this closure, and about the turn the closure stopped.
SettlesIdleClosure(s, e) ==   \* a mutant of SettlesClosure
    Fresh(s, e) /\ s.state = "CLOSING" /\ s.closure = e.closure /\ s.turn = NoTurn
SettlesClosure(s, e) == Fresh(s, e) /\ s.state = "CLOSING" /\ s.closure = e.closure /\ s.turn = e.turn

\* The Attempt is over; what stays behind is kept until RetainUntil unless the issue was reopened meanwhile.
ReduceClosureSettled(s, e) ==
    LET runtime == IF ~e.assignmentsExist \/ s.runtime = "COLLECTED" THEN "COLLECTED" ELSE "RETAINED"
        kept    == ~s.reopen /\ runtime = "RETAINED"
    IN  IF ~SettlesClosure(s, e) THEN Rejected(s)
        ELSE Applied([s EXCEPT !.state = IF s.reopen THEN "DORMANT" ELSE "CLOSED",
                               !.stage = "", !.usage = 0, !.retries = 0, !.turn = NoTurn,
                               !.closure = 0, !.reopen = FALSE, !.ready = NoHead,
                               !.status = "COMPLETED", !.runtime = runtime,
                               !.token = IF kept THEN s.closure ELSE 0],
                     "closure_settled",
                     [NoEffects EXCEPT !.attempt = IF HasAttempt(s) THEN "issue_closed" ELSE "",
                                       !.assignments = "COMPLETED",
                                       !.retention = IF kept THEN "SCHEDULE" ELSE "",
                                       !.labels = IF s.reopen THEN "DORMANT" ELSE "CLOSED"])

ReduceIssueReopened(s, e) ==
    CASE Fresh(s, e) /\ HasTurn(s) /\ s.state \in ActiveStates -> Deferred(s)
      [] Fresh(s, e) /\ s.state = "CLOSING" /\ ~s.reopen ->
             Applied([s EXCEPT !.reopen = TRUE], "closure_cancellation_recorded",
                     [NoEffects EXCEPT !.retention = "CANCEL", !.labels = "CLOSING"])
      [] Fresh(s, e) /\ s.state = "CLOSED" ->
             Applied([s EXCEPT !.state = "DORMANT", !.token = 0], "issue_reopened",
                     [NoEffects EXCEPT !.retention = IF s.token # 0 THEN "CANCEL" ELSE "", !.labels = "DORMANT"])
      [] OTHER -> Rejected(s)

\* e.due: CollectedAt is not before RetainUntil.
ReduceAssignmentsCollected(s, e) ==
    IF Fresh(s, e) /\ s.state = "CLOSED" /\ s.runtime # "COLLECTED" /\ e.token = s.token /\ e.due
    THEN Applied([s EXCEPT !.runtime = "COLLECTED", !.token = 0], "assignments_collected", NoEffects)
    ELSE Rejected(s)

-----------------------------------------------------------------------------
Dispatch(s, e) ==
    CASE e.kind = "TRIGGER" -> ReduceTrigger(s, e)
      [] e.kind = "TURN_SETTLED" -> ReduceTurnSettled(s, e)
      [] e.kind = "TERMINAL_INTENT_REVALIDATED" -> ReduceTerminalIntentRevalidated(s, e)
      [] e.kind = "TERMINAL_REVALIDATION_FAILED" -> ReduceTerminalRevalidationFailed(s, e)
      [] e.kind = "SYNCHRONIZATION" -> ReduceSynchronization(s, e)
      [] e.kind \in {"REVIEW_OBSERVED", "CHANGE_PROPOSAL_OBSERVED"} -> ReduceObservation(s, e)
      [] e.kind = "ISSUE_CLOSED" -> ReduceIssueClosed(s, e)
      [] e.kind = "CLOSURE_SETTLED" -> ReduceClosureSettled(s, e)
      [] e.kind = "ISSUE_REOPENED" -> ReduceIssueReopened(s, e)
      [] e.kind = "ASSIGNMENTS_COLLECTED" -> ReduceAssignmentsCollected(s, e)
      [] e.kind = "ASSIGNMENT_CONFIGURATION_CONFLICT" -> ReduceAssignmentConfigurationConflict(s, e)
      [] e.kind = "AGENT_TURN_PREPARATION_FAILED" -> ReduceAgentTurnPreparationFailed(s, e)
      [] e.kind = "MUTATION_RECONCILIATION_EXHAUSTED" -> ReduceMutationReconciliationExhausted(s, e)
      [] e.kind = "WORKFLOW_ACTION_EXHAUSTED" -> ReduceWorkflowActionExhausted(s, e)

\* Reduce refuses to start from, or to return, a Snapshot that is not valid.
Reduce(s, e) ==
    LET d == Dispatch(s, e)
    IN  IF ~ValidSnapshot(s) \/ (s.state = "ABSENT" /\ e.kind # "TRIGGER") \/ ~ValidSnapshot(d.snap)
        THEN Rejected(s)
        ELSE d
=============================================================================
