------------------------------ MODULE Workflow ------------------------------
(***************************************************************************)
(* One Work Item as the store keeps it (src/internal/store): the Snapshot  *)
(* the Workflow Reducer works on, the jobs and deferred events that carry  *)
(* the Workflow forward, the Pull Request on GitHub, and the webhooks that *)
(* are still on their way.  Each action is one database transaction, or    *)
(* one step of GitHub, of an agent or of a person.                         *)
(*                                                                         *)
(*   - a RECONCILE or PREPARE job is present while its row is AVAILABLE or *)
(*     LEASED (module JobLease says how such a row is claimed and settled); *)
(*   - what GitHub answers a worker is the head it has at that moment, or   *)
(*     the one the Workflow knew when the answer was read earlier;          *)
(*   - the agent of a turn is free to report any outcome of its Stage.      *)
(***************************************************************************)
EXTENDS WorkflowReducer, Sequences, FiniteSets

CONSTANTS
    Proposal,         \* the Change Proposal of the Work Item
    Activations,      \* values of planningOnly of the labels people add
    Steps,            \* what people, GitHub and failing effects do in this instance
    EventBound,       \* bound of the model on the number of those steps
    LabelDuringTurn,  \* a label may be added while a turn is active
    PreparationLost   \* every lease of a usable preparation may be lost

\* What may happen around a Work Item: the webhooks of its issue and reviews, pushes, answers, failures.
EnvironmentSteps ==
    {"TRIGGER", "ISSUE_CLOSED", "ISSUE_REOPENED", "REVIEW_OBSERVED", "PUSH", "HUMAN_INPUT", "EFFECT_EXHAUSTED"}

ASSUME WorkItemAssumption ==
    /\ Steps \subseteq EnvironmentSteps
    /\ Proposal \in PRs /\ Activations \subseteq BOOLEAN /\ EventBound \in Nat
    /\ LabelDuringTurn \in BOOLEAN /\ PreparationLost \in BOOLEAN

VARIABLES
    snap,        \* workflows, workflow_attempts, change_proposals and the active agent_turns row
    planned,     \* the planning state has a ReadyRevision
    input,       \* the Stages whose participant has human input it was not given yet
    assigned,    \* the Workflow has agent_participants
    barrier,     \* workflow_closure_barriers: NONE, STOPPING (its turn is not stopped yet), CLEAR
    deferred,    \* normalized_events in status DEFERRED, by arrival
    prepare,     \* the live PREPARE_AGENT_TURN job
    reconciles,  \* the live RECONCILE_PENDING_EVENTS jobs
    failures,    \* pending workflow_action_failures: the turn of a failed RECONCILE, 0 for another job
    stopped,     \* the turns a closure ended
    remote,      \* the head of the Pull Request on GitHub
    opened,      \* the last successful open_pr and what its turn published since
    inbox,       \* pushes whose webhook was not processed yet
    evidence,    \* the head the worker of the active turn read from GitHub to settle it
    turns,       \* agent_turns rows created
    verdict,     \* the accepted reviews of the Attempt, and the head the approving Reviewer worked on
    events       \* steps counted against EventBound

github == <<remote, opened, inbox, evidence, turns>>
jobs   == <<prepare, reconciles, failures>>
people == <<planned, input, assigned>>
vars   == <<snap, planned, input, assigned, barrier, deferred, prepare, reconciles, failures, stopped,
            remote, opened, inbox, evidence, turns, verdict, events>>

Edges     == [previous : Heads, head : Heads]
NoPrepare == [attempt |-> 0, stage |-> "", head |-> NoHead, revision |-> 0, seen |-> NoHead]
NoOpened  == [turn |-> 0, head |-> NoHead, edges |-> {}]
NoVerdict == [count |-> 0, approved |-> NoHead]

\* A budgeted step of the environment.
Happens(step) == step \in Steps /\ events < EventBound /\ events' = events + 1

-----------------------------------------------------------------------------
\* Webhooks.  The event a webhook stands for is built when it is reduced, from the Workflow found then.

Plain(kind) == [kind |-> kind, planningOnly |-> FALSE, previous |-> NoHead, head |-> NoHead]
External ==
    {[Plain("TRIGGER") EXCEPT !.planningOnly = p] : p \in Activations}
    \cup {Plain(k) : k \in {"ISSUE_CLOSED", "ISSUE_REOPENED", "REVIEW_OBSERVED"}}
Synchronized(edge) == [Plain("SYNCHRONIZATION") EXCEPT !.previous = edge.previous, !.head = edge.head]

Built(c, s) ==
    CASE c.kind = "TRIGGER" ->
             [kind |-> c.kind, revision |-> s.revision, attempt |-> s.attempt + 1,
              planningOnly |-> c.planningOnly, planningCompleted |-> planned, prior |-> NoPrior]
      [] c.kind = "SYNCHRONIZATION" ->
             [kind |-> c.kind, revision |-> s.revision, pr |-> Proposal, previous |-> c.previous, head |-> c.head]
      [] c.kind = "ISSUE_CLOSED" -> [kind |-> c.kind, revision |-> s.revision, closure |-> s.revision + 1]
      [] c.kind \in {"ISSUE_REOPENED", "REVIEW_OBSERVED"} -> [kind |-> c.kind, revision |-> s.revision]

\* What persistWorkflowActions does with a turn to enqueue.  One PREPARE of a Workflow may be live (the
\* index jobs_one_live_workflow_successor_idx): a push for the Reviewer replaces it, anything else aborts.
Preparation(s, attempt, intent) ==
    [attempt |-> attempt, stage |-> intent.stage, head |-> intent.head, revision |-> s.revision, seen |-> NoHead]
Coalesces(d) ==
    /\ d.effects.intent.purpose = "SYNCHRONIZATION" /\ d.effects.intent.stage = "review"
    /\ prepare.stage = "review" /\ prepare.attempt = d.snap.attempt
PersistTurnIntent(d) ==
    IF d.effects.intent.kind = "turn"
    THEN /\ prepare = NoPrepare \/ Coalesces(d)
         /\ prepare' = Preparation(d.snap, d.snap.attempt, d.effects.intent)
    ELSE UNCHANGED prepare

\* persistAppliedDecision, for the decisions about webhooks.
PersistWebhookDecision(d) ==
    /\ snap' = d.snap
    /\ PersistTurnIntent(d)
    /\ barrier' = IF d.effects.settleClosure THEN (IF HasTurn(snap) THEN "STOPPING" ELSE "CLEAR") ELSE barrier
    /\ verdict' = IF d.snap.attempt = snap.attempt THEN verdict ELSE NoVerdict
    /\ UNCHANGED deferred

Defer(c) ==
    /\ deferred' = Append(deferred, [turn |-> snap.turn.id, event |-> c])
    /\ UNCHANGED <<snap, prepare, barrier, verdict>>

\* applyWorkflowEventTx on a webhook that leaves a trace: it is applied, or put off behind the turn.
ApplyWorkflowEvent(c) ==
    LET d == Reduce(snap, Built(c, snap))
    IN  /\ Happens(c.kind)
        /\ c.kind = "TRIGGER" /\ HasTurn(snap) => LabelDuringTurn
        /\ \/ d.disposition = "APPLIED" /\ PersistWebhookDecision(d)
           \/ d.disposition = "DEFERRED" /\ Defer(c)
        /\ UNCHANGED <<people, reconciles, failures, stopped, github>>

\* The webhook of a push.  A push the reducer does not take is consumed all the same.
ProcessPush(edge) ==
    LET d == Reduce(snap, Built(Synchronized(edge), snap))
    IN  /\ edge \in inbox
        /\ inbox' = inbox \ {edge}
        /\ \/ d.disposition = "APPLIED" /\ PersistWebhookDecision(d)
           \/ d.disposition = "DEFERRED" /\ Defer(Synchronized(edge))
           \/ d.disposition = "REJECTED" /\ UNCHANGED <<snap, prepare, barrier, verdict, deferred>>
        /\ UNCHANGED <<people, reconciles, failures, stopped, remote, opened, evidence, turns, events>>

-----------------------------------------------------------------------------
\* GitHub and the agents.

PushTo(h) ==
    LET edge == [previous |-> remote, head |-> h]
    IN  /\ Happens("PUSH")
        /\ remote \notin {NoHead, h} /\ edge \notin inbox
        /\ remote' = h
        /\ inbox' = inbox \cup {edge}
        /\ UNCHANGED <<snap, people, barrier, deferred, jobs, stopped, evidence, turns, verdict>>

\* A person pushes, or the agent of a turn that works on the associated Change Proposal.
Push(h) == PushTo(h) /\ UNCHANGED opened

\* open_pr of a Developer's turn without a Change Proposal; a Pull Request an earlier turn left behind is found.
OpenProposal(h) ==
    /\ HasTurn(snap) /\ snap.turn.stage = "implementation" /\ ~HasProposal(snap)
    /\ barrier # "CLEAR" /\ opened.turn # snap.turn.id
    /\ remote' = IF remote = NoHead THEN h ELSE remote
    /\ opened' = [turn |-> snap.turn.id, head |-> remote', edges |-> {}]
    /\ UNCHANGED <<snap, people, barrier, deferred, jobs, stopped, inbox, evidence, turns, verdict, events>>

\* publish_changes after open_pr in the same turn: the push expects the head the turn published last.
Publish(h) ==
    /\ HasTurn(snap) /\ opened.turn = snap.turn.id /\ remote = opened.head
    /\ \A e \in opened.edges : h # e.previous
    /\ PushTo(h)
    /\ opened' = [opened EXCEPT !.head = h, !.edges = @ \cup {[previous |-> remote, head |-> h]}]

\* AdmitHumanInput.  Without a turn and without a PREPARE, one is enqueued for the Stage.
AdmitHumanInput ==
    /\ snap.state \in ActiveStates
    /\ input' = input \cup {snap.stage}
    /\ prepare' = IF HasTurn(snap) \/ prepare # NoPrepare THEN prepare
                  ELSE Preparation(snap, snap.attempt, EnqueueTurn(snap.stage, "REACTIVATION", snap.head))
    /\ Happens("HUMAN_INPUT")
    /\ UNCHANGED <<snap, planned, assigned, barrier, deferred, reconciles, failures, stopped, github, verdict>>

-----------------------------------------------------------------------------
\* Preparation of a turn.

\* The fences of lockPreparationWorkflow, and those of them refreshSupersededPreparationTx keeps.
Bound ==
    /\ prepare # NoPrepare
    /\ snap.state \in ActiveStates /\ snap.status = "ACTIVE" /\ snap.runtime = "ACTIVE"
    /\ prepare.attempt = snap.attempt /\ prepare.stage = snap.stage
    /\ ~HasTurn(snap)
Current     == Bound /\ prepare.revision = snap.revision
HeadFenced  == IF HasProposal(snap) THEN prepare.head = snap.head ELSE prepare.head = NoHead /\ prepare.stage # "review"
Refreshable == Bound /\ prepare.revision # snap.revision /\ HasProposal(snap)
Usable      == Refreshable \/ (Current /\ HeadFenced)

\* lockPreparationWorkflowVerified: the head GitHub showed decides when one of the others agrees with the stored one.
Preparable ==
    /\ Current
    /\ IF HasProposal(snap)
       THEN prepare.seen # NoHead /\ snap.head \in {prepare.head, prepare.seen}
       ELSE HeadFenced

\* Preparer: the Pull Request is read before the transaction that creates the turn.
ObservePreparation ==
    /\ prepare # NoPrepare /\ HasProposal(snap) /\ prepare.seen # remote
    /\ prepare' = [prepare EXCEPT !.seen = remote]
    /\ UNCHANGED <<snap, people, barrier, deferred, reconciles, failures, stopped, github, verdict, events>>

\* The turn is scoped to the head GitHub showed; a stored head that fell behind is repaired with it.
PrepareAgentTurn ==
    LET head == IF HasProposal(snap) THEN prepare.seen ELSE NoHead
    IN  /\ Preparable
        /\ snap' = [snap EXCEPT
                       !.turn = [id |-> turns + 1, attempt |-> snap.attempt, stage |-> snap.stage,
                                 pr |-> snap.pr, head |-> head],
                       !.head = head, !.ready = IF head = snap.head THEN @ ELSE NoHead, !.waiting = FALSE]
        /\ turns' = turns + 1
        /\ evidence' = NoHead
        /\ input' = input \ {snap.stage}
        /\ assigned' = TRUE
        /\ prepare' = NoPrepare
        /\ UNCHANGED <<planned, barrier, deferred, reconciles, failures, stopped, remote, opened, inbox, verdict, events>>

\* A mutant of RefreshPreparation: only the revision is brought up to date.
RefreshRevision ==
    /\ Refreshable
    /\ prepare' = [prepare EXCEPT !.revision = snap.revision, !.seen = NoHead]
    /\ UNCHANGED <<snap, people, barrier, deferred, reconciles, failures, stopped, github, verdict, events>>

\* AcknowledgeAgentTurnPreparationFailure of a retryable failure: an observation the Workflow left
\* behind is staged again on the Workflow as it is now.
RefreshPreparation ==
    /\ Refreshable
    /\ prepare' = [prepare EXCEPT !.revision = snap.revision, !.head = snap.head, !.seen = NoHead]
    /\ UNCHANGED <<snap, people, barrier, deferred, reconciles, failures, stopped, github, verdict, events>>

\* The last attempt of a PREPARE ends in a report to a person: AcknowledgeAgentTurnPreparationFailure,
\* AcknowledgeParticipantConfigurationConflict.
PreparationFails(kind) ==
    LET d == Reduce(snap, [kind |-> kind, revision |-> snap.revision, role |-> StageRole[prepare.stage],
                           assignmentsExist |-> assigned])
    IN  /\ Usable
        /\ kind = "ASSIGNMENT_CONFIGURATION_CONFLICT" => Current /\ assigned
        /\ d.disposition = "APPLIED"
        /\ snap' = d.snap
        /\ prepare' = NoPrepare
        /\ UNCHANGED <<people, barrier, deferred, reconciles, failures, stopped, github, verdict, events>>

\* Leases that run out: no fence of the acknowledgements holds for them, and the row ends FAILED unreported.
LosePreparation ==
    /\ prepare # NoPrepare
    /\ Usable => PreparationLost
    /\ prepare' = NoPrepare
    /\ UNCHANGED <<snap, people, barrier, deferred, reconciles, failures, stopped, github, verdict, events>>

-----------------------------------------------------------------------------
\* Settlement of a turn.

\* The entries of a sequence at some of its positions, in their order.
At(seq, positions) ==
    [n \in 1..Cardinality(positions) |->
        seq[CHOOSE i \in positions : Cardinality({j \in positions : j <= i}) = n]]

Backlog(turn)     == At(deferred, {i \in DOMAIN deferred : deferred[i].turn = turn})
BacklogKept(turn)    == deferred   \* a mutant of WithoutBacklog
WithoutBacklog(turn) == At(deferred, {i \in DOMAIN deferred : deferred[i].turn # turn})
Pushes(backlog)   == At(backlog, {i \in DOMAIN backlog : backlog[i].event.kind = "SYNCHRONIZATION"})

\* derivePendingEventsObservation.
PendingEvents(turn) ==
    LET pushes == Pushes(Backlog(turn))
    IN  [some |-> Backlog(turn) # <<>>, head |-> IF pushes = <<>> THEN NoHead ELSE pushes[Len(pushes)].event.head]

\* deriveSettlementPublicationTx: this turn was the first to publish a Change Proposal for the Workflow.
Publishes == snap.turn.stage = "implementation" /\ ~HasProposal(snap) /\ opened.turn = snap.turn.id

Outcomes == Accepts[snap.stage] \cup {"CLARIFICATION_WAIT", "BLOCKED", "INFRASTRUCTURE_FAILED"}
Successes == {"PLANNING_READY", "CHANGE_PROPOSAL_READY", "CHANGES_REQUESTED", "APPROVED"}
\* The successes whose Change Proposal the worker reads back from GitHub.
Corroborated == Successes \ {"PLANNING_READY"}

\* The worker reads the Change Proposal before the transaction that settles the turn.
Corroborate ==
    /\ HasTurn(snap) /\ snap.state \in ActiveStates /\ evidence # remote
    /\ evidence' = remote
    /\ UNCHANGED <<snap, people, barrier, deferred, jobs, stopped, remote, opened, inbox, turns, verdict, events>>

\* A first publication must show the head this turn published last.
Observable == {evidence} \cap (IF Publishes THEN {opened.head} ELSE Heads)

\* fenceCollaborationSettlementTx: unread input, or a question still open, turns a success into a wait.
Fenced(outcome, blocked) ==
    IF outcome \in Successes /\ (snap.stage \in input \/ blocked) THEN "CLARIFICATION_WAIT" ELSE outcome

TurnSettled(reported, observed, reviewed, blocked) ==
    LET outcome == Fenced(reported, blocked)
    IN  [kind |-> "TURN_SETTLED", revision |-> snap.revision, turn |-> snap.turn, outcome |-> outcome,
         pr |-> IF reported \in Corroborated THEN Proposal ELSE NoPR,
         head |-> IF reported \in Corroborated THEN observed ELSE NoHead,
         review |-> IF outcome \in Accepts["review"]
                    THEN [id |-> 1, pr |-> Proposal, head |-> reviewed, authorized |-> TRUE] ELSE NoReview,
         existingReview |-> FALSE, pending |-> PendingEvents(snap.turn.id),
         publication |-> IF Publishes THEN Proposal ELSE NoPR,
         publicationHead |-> IF Publishes THEN opened.head ELSE NoHead,
         inputPending |-> snap.stage \in input, handoff |-> ""]

\* Every settlement the worker of the active turn can submit; an open question adds nothing to unread input.
Reports ==
    IF ~HasTurn(snap) \/ snap.state \notin ActiveStates THEN {}
    ELSE UNION {[outcome : {o}, blocked : IF o \in Successes /\ snap.stage \notin input THEN BOOLEAN ELSE {FALSE},
                 head    : IF o \in Corroborated THEN Observable \ {NoHead} ELSE {NoHead},
                 review  : IF o \in Accepts["review"] THEN (Observable \cup {snap.turn.head}) \ {NoHead} ELSE {NoHead}] :
                o \in Outcomes}
SettlementOf(r) == TurnSettled(r.outcome, r.head, r.review, r.blocked)

HandsOverOptional(d, pending) == TRUE   \* a mutant of HandsOver

\* resolveSettlementActionJobs: what waits behind the turn must be handed to a reconciliation.
HandsOver(d, pending) == pending.some => d.effects.intent.kind = "reconcile"

\* persistAppliedSettlementDecision.
SettleAgentTurn(r) ==
    LET e == SettlementOf(r)
        d == Reduce(snap, e)
    IN  /\ d.disposition = "APPLIED" /\ HandsOver(d, e.pending)
        /\ snap' = d.snap
        /\ PersistTurnIntent(d)
        /\ reconciles' = IF d.effects.intent.kind # "reconcile" THEN reconciles
                         ELSE reconciles \cup {[turn |-> snap.turn.id, attempt |-> snap.attempt,
                                                fallback |-> d.effects.intent.stage, revision |-> d.snap.revision,
                                                edges |-> IF Publishes THEN opened.edges ELSE {}]}
        /\ planned' = (planned \/ e.outcome = "PLANNING_READY")
        /\ verdict' = IF d.effects.review # "ACCEPTED" THEN verdict
                      ELSE [count |-> verdict.count + 1,
                            approved |-> IF e.outcome = "APPROVED" THEN snap.turn.head ELSE verdict.approved]
        /\ UNCHANGED <<input, assigned, barrier, deferred, failures, stopped, github, events>>

-----------------------------------------------------------------------------
\* Replay of the events a turn held up.

\* prepareLinkedSynchronizationOrder: the pushes, in causal order, lie on one path through the current head.
CausalPaths(edges) ==
    {p \in [1..Cardinality(edges) + 1 -> Heads] :
        /\ \A i, j \in DOMAIN p : p[i] = p[j] => i = j
        /\ edges = {[previous |-> p[i], head |-> p[i + 1]] : i \in 1..Cardinality(edges)}}
EdgeOf(event) == [previous |-> event.previous, head |-> event.head]
ReplayEdges(r) == r.edges \cup {EdgeOf(Pushes(Backlog(r.turn))[i].event) : i \in DOMAIN Pushes(Backlog(r.turn))}
Replayable(r) ==
    ReplayEdges(r) # {} =>
        HasProposal(snap) /\ \E p \in CausalPaths(ReplayEdges(r)) : \E i \in DOMAIN p : p[i] = snap.head

\* nextLinkedDeferredEvent: arrival order, but a push that is first gives way to its causal predecessors.
IsPush(d) == d.event.kind = "SYNCHRONIZATION"
NextLinked(rest, path) ==
    LET rank(i) == CHOOSE n \in DOMAIN path : path[n] = rest[i].event.previous
        pushes  == {i \in DOMAIN rest : IsPush(rest[i])}
    IN  IF ~IsPush(rest[1]) THEN 1
        ELSE CHOOSE i \in pushes : \A j \in pushes : rank(i) < rank(j) \/ (rank(i) = rank(j) /\ i <= j)
Without(seq, i) == SubSeq(seq, 1, i - 1) \o SubSeq(seq, i + 1, Len(seq))

\* One replayed event.  A turn it asks for replaces the one intended so far; a state without turns drops it.
ReplayOne(acc, path) ==
    LET i == NextLinked(acc.rest, path)
        d == Reduce(acc.snap, Built(acc.rest[i].event, acc.snap))
    IN  [rest |-> Without(acc.rest, i), snap |-> d.snap,
         stage |-> IF d.disposition # "APPLIED" THEN acc.stage
                   ELSE IF d.effects.intent.kind = "turn" THEN d.effects.intent.stage
                   ELSE IF d.snap.state \notin ActiveStates THEN "" ELSE acc.stage,
         \* CreateAttemptAction, SettleClosureAction: nothing a turn holds up closes the issue
         fresh |-> acc.fresh \/ d.snap.attempt # acc.snap.attempt]

Replay(r) ==
    LET backlog == Backlog(r.turn)
        path    == IF ReplayEdges(r) = {} THEN <<>>
                   ELSE CHOOSE p \in CausalPaths(ReplayEdges(r)) : TRUE
        start   == [rest |-> backlog, snap |-> snap, stage |-> r.fallback, fresh |-> FALSE]
        acc[n \in 0..Len(backlog)] == IF n = 0 THEN start ELSE ReplayOne(acc[n - 1], path)
    IN  acc[Len(backlog)]

\* normalizeSuccessorIntent: the turn must suit the state the replay ended in.
Normalizes(s, stage) ==
    s.state \in ActiveStates /\ stage # "" => stage = s.stage /\ (stage = "review" => HasProposal(s))

\* The one turn the replay ends in.  Its job carries the Attempt of the reconciliation job.
ReplayPreparation(r, s, stage) ==
    IF s.state \notin ActiveStates \/ stage = "" THEN NoPrepare
    ELSE Preparation(s, r.attempt, EnqueueTurn(stage, "", s.head))

\* The fences of AcknowledgePendingEventReconciliation: the Workflow is where the settlement left it.
Reconcilable(r) ==
    r.revision = snap.revision /\ ~HasTurn(snap) /\ prepare = NoPrepare /\ Replayable(r)

ReconcilePendingEvents(r) ==
    LET end == Replay(r)
    IN  /\ r \in reconciles /\ Reconcilable(r)
        /\ Normalizes(end.snap, end.stage)
        /\ snap' = end.snap
        /\ prepare' = ReplayPreparation(r, end.snap, end.stage)
        /\ reconciles' = reconciles \ {r}
        /\ deferred' = WithoutBacklog(r.turn)
        /\ verdict' = IF end.fresh THEN NoVerdict ELSE verdict
        /\ UNCHANGED <<people, barrier, failures, stopped, github, events>>

\* A mutant of GiveUpReconciliation: nobody is told.
GiveUpSilently(r) ==
    /\ r \in reconciles
    /\ reconciles' = reconciles \ {r}
    /\ UNCHANGED <<snap, people, barrier, deferred, prepare, failures, stopped, github, verdict, events>>

\* The job ends FAILED: its failures or its expired leases are used up (requestWorkflowActionFailureEscalationTx).
GiveUpReconciliation(r) ==
    /\ r \in reconciles
    /\ reconciles' = reconciles \ {r}
    /\ failures' = failures \cup {r.turn}
    /\ UNCHANGED <<snap, people, barrier, deferred, prepare, stopped, github, verdict, events>>

-----------------------------------------------------------------------------
\* Failures that reach a person.

\* The job of another effect (labels, the Human Handoff comment) used up its attempts.
ExhaustEffect ==
    /\ snap.state \in ActiveStates \cup {"PLAN_READY", "PR_READY"} /\ 0 \notin failures
    /\ failures' = failures \cup {0}
    /\ Happens("EFFECT_EXHAUSTED")
    /\ UNCHANGED <<snap, people, barrier, deferred, prepare, reconciles, stopped, github, verdict>>

\* ApplyNextWorkflowActionFailureEscalation, once no turn, PREPARE or RECONCILE of the Workflow is left.
EscalateWorkflowActionFailure(f) ==
    LET d == Reduce(snap, [kind |-> "WORKFLOW_ACTION_EXHAUSTED", revision |-> snap.revision])
    IN  /\ f \in failures /\ ~HasTurn(snap) /\ prepare = NoPrepare /\ reconciles = {}
        /\ snap' = d.snap
        /\ failures' = failures \ {f}
        /\ deferred' = WithoutBacklog(f)
        /\ UNCHANGED <<people, barrier, prepare, reconciles, stopped, github, verdict, events>>

-----------------------------------------------------------------------------
\* Closure.

\* AcknowledgeClosureTurnStopped.
AcknowledgeClosureTurnStopped ==
    /\ barrier = "STOPPING"
    /\ barrier' = "CLEAR"
    /\ UNCHANGED <<snap, people, deferred, jobs, stopped, github, verdict, events>>

CompleteClosureSettlement ==
    LET d == Reduce(snap, [kind |-> "CLOSURE_SETTLED", revision |-> snap.revision, closure |-> snap.closure,
                           turn |-> snap.turn, assignmentsExist |-> assigned])
    IN  /\ barrier = "CLEAR"
        /\ d.disposition = "APPLIED"
        /\ snap' = d.snap
        /\ barrier' = "NONE"
        /\ prepare' = NoPrepare
        /\ stopped' = IF HasTurn(snap) THEN stopped \cup {snap.turn.id} ELSE stopped
        /\ UNCHANGED <<people, deferred, reconciles, failures, github, verdict, events>>

-----------------------------------------------------------------------------
Init ==
    /\ snap = Absent
    /\ planned = FALSE /\ input = {} /\ assigned = FALSE
    /\ barrier = "NONE" /\ deferred = <<>>
    /\ prepare = NoPrepare /\ reconciles = {} /\ failures = {}
    /\ stopped = {}
    /\ remote = NoHead /\ opened = NoOpened /\ inbox = {} /\ evidence = NoHead /\ turns = 0
    /\ verdict = NoVerdict /\ events = 0

PreparationReports == {"ASSIGNMENT_CONFIGURATION_CONFLICT", "AGENT_TURN_PREPARATION_FAILED"}

TurnRuns  == HasTurn(snap) /\ snap.state \in ActiveStates
Settle    == \E r \in Reports : SettleAgentTurn(r)
Reconcile == \E r \in reconciles : GiveUpReconciliation(r) \/ ReconcilePendingEvents(r)
Escalate  == \E f \in failures : EscalateWorkflowActionFailure(f)
Webhook   == \E edge \in inbox : ProcessPush(edge)

Next ==
    \/ \E c \in External : ApplyWorkflowEvent(c)
    \/ \E h \in Heads : Push(h) \/ OpenProposal(h) \/ Publish(h)
    \/ AdmitHumanInput \/ ExhaustEffect
    \/ ObservePreparation \/ PrepareAgentTurn \/ RefreshPreparation \/ LosePreparation
    \/ \E kind \in PreparationReports : PreparationFails(kind)
    \/ Corroborate \/ Settle \/ Reconcile \/ Escalate \/ Webhook
    \/ AcknowledgeClosureTurnStopped \/ CompleteClosureSettlement

Spec == Init /\ [][Next]_vars

\* The workers of every job kind poll, and a turn ends in one of the settlements it always has (it has a
\* step budget and a deadline, and an infrastructure failure needs no evidence).  Nothing is assumed of
\* people or of the delivery of webhooks, and no job is assumed to succeed.
Fairness ==
    /\ WF_vars(ObservePreparation) /\ WF_vars(PrepareAgentTurn)
    /\ WF_vars(RefreshPreparation) /\ WF_vars(LosePreparation)
    /\ []<>~TurnRuns /\ WF_vars(Reconcile) /\ WF_vars(Escalate)
    /\ WF_vars(AcknowledgeClosureTurnStopped) /\ WF_vars(CompleteClosureSettlement)

FairSpec == Spec /\ Fairness

-----------------------------------------------------------------------------
\* Properties.

\* The reducer's check of its own result never has to reject one: no event the Workflow can meet, in
\* any state the store can leave it in, is answered with an invalid Snapshot.
NoInvalidDecision ==
    \A e \in {Built(c, snap) : c \in External \cup {Synchronized(edge) : edge \in inbox}}
             \cup {SettlementOf(r) : r \in Reports} :
        snap.state # "ABSENT" \/ e.kind = "TRIGGER" =>
            LET after == Dispatch(snap, e).snap IN after \in Snapshot /\ ValidSnapshot(after)

\* One authority drives a Workflow: a turn that runs and a job that would start one never coexist,
\* and a RECONCILE never coexists with the turn whose events it replays.
OneAuthority ==
    /\ HasTurn(snap) => prepare = NoPrepare
    /\ \A r \in reconciles : HasTurn(snap) => r.turn # snap.turn.id

\* A Workflow in an active Stage that neither runs a turn nor waits for a person always has a job that
\* can move it on, whatever webhooks, pushes and failures came in between.
MovesOn == Usable \/ reconciles # {} \/ failures # {}
ActiveWorkHasAuthority ==
    snap.state \in ActiveStates /\ ~HasTurn(snap) /\ (~snap.waiting \/ snap.stage \in input) => MovesOn

\* A PREPARE that was enqueued for the Workflow as it is now passes the head fence of its own claim.
CurrentPreparationIsUsable == Current => HeadFenced

\* A deferred event always has the turn, the RECONCILE or the pending failure that will dispose of it;
\* only the events of a turn a closure ended stay behind.
DeferredEventsHeld ==
    \A i \in DOMAIN deferred :
        LET t == deferred[i].turn
        IN  \/ t = snap.turn.id \/ t \in failures \/ t \in stopped
            \/ \E r \in reconciles : r.turn = t

\* The commit a Workflow declares ready is the one the approving Reviewer was given to work on.
ReadyHeadWasApproved == snap.state = "PR_READY" => verdict.approved = snap.ready

\* A Workflow stays ready for a commit that is no longer the head only until the push that replaced it
\* is processed, in whatever order the pushes are delivered.
ReadinessIsRevoked ==
    snap.state = "PR_READY" /\ snap.ready # remote =>
        \/ \E e \in inbox : e.previous = snap.ready
        \/ \E i \in DOMAIN deferred : deferred[i].event.previous = snap.ready /\ deferred[i].turn \notin stopped

\* The budget of an Attempt counts exactly the accepted reviews, and is never exceeded.
ReviewBudgetHolds == HasAttempt(snap) => snap.usage = verdict.count /\ verdict.count <= ReviewLimit

\* Work that nobody has to wait for gets its turn, or leaves the active Stages.
ActiveWorkProgresses ==
    snap.state \in ActiveStates /\ ~HasTurn(snap) /\ ~snap.waiting
        ~> HasTurn(snap) \/ snap.waiting \/ snap.state \notin ActiveStates

\* What was deferred behind a turn is replayed or disposed of, unless a closure ended that turn.
HeldUp == \E i \in DOMAIN deferred : deferred[i].turn \notin stopped
DeferredEventsSettle == HeldUp ~> ~HeldUp

\* An issue that is closed reaches a settled closure, with a turn to stop or without.
ClosureSettles == snap.state = "CLOSING" ~> snap.state # "CLOSING"

\* A turn that ends in a question settles as any other (docs: clarification happens at turn boundaries).
ClarificationSettles ==
    \A r \in Reports :
        LET e == SettlementOf(r)
            d == Reduce(snap, e)
        IN  r.outcome = "CLARIFICATION_WAIT" /\ d.disposition = "APPLIED" => HandsOver(d, e.pending)

\* "Re-adding `omnigrex:run` starts a new Workflow Attempt, resets the review budget, and continues the
\* existing Agent Sessions" (docs/plans/first-iteration.md:242): the new Attempt gets a turn.
RelabelledWorkContinues ==
    snap.state \in ActiveStates /\ snap.attempt > 1 /\ ~HasTurn(snap) /\ ~snap.waiting
        ~> HasTurn(snap) \/ snap.waiting \/ snap.state \notin ActiveStates

\* "Killing a worker after leasing a job causes safe recovery after lease expiry"
\* (docs/implementation-plan.md): a first turn is prepared, or a person is told.
KilledPreparationRecovers ==
    snap.state \in ActiveStates /\ prepare # NoPrepare ~> HasTurn(snap) \/ snap.state \notin ActiveStates

\* A Workflow that works has exactly one authority that moves it: a turn, a job or a person.
WorkHasOneAuthority == OneAuthority /\ ActiveWorkHasAuthority

\* What reviews decide, whether a commit is ready and whether the budget is spent, is what Reviewers said.
VerdictsHold == ReadyHeadWasApproved /\ ReadinessIsRevoked /\ ReviewBudgetHolds

\* Work that is waiting for nobody moves on, and so do the events that were deferred behind it.
WorkMovesOn == ActiveWorkProgresses /\ DeferredEventsSettle
=============================================================================
