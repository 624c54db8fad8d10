----------------------------- MODULE GitHubEffects -----------------------------
(***************************************************************************)
(* What people see of a Workflow on GitHub: the labels of its issue and    *)
(* pull request, and the comments that hand it to a person.  Each change   *)
(* of the Workflow enqueues a job; a worker reads the latest state under   *)
(* its lease, calls GitHub, and acknowledges, while the state changes on    *)
(* (src/internal/github/visible_effect_workers.go and labels.go,           *)
(* src/internal/store/workflow_github_effects.go).                          *)
(*                                                                         *)
(* A call to GitHub takes effect or not, whatever its answer.  A lease is   *)
(* lost when its worker dies: a worker that lives renews it, and its calls  *)
(* are cancelled when it cannot.  Comments of the progress of a review are  *)
(* written with the labels, and are the "presentation" of this module.      *)
(***************************************************************************)
EXTENDS Naturals, Sequences, FiniteSets

CONSTANTS
    LabelWorkers,
    MaxShown,         \* bound of the model on the revisions of the Workflow
    MaxPresentation,  \* bound of the model on the presentations of its review
    EffectAttempts    \* max_attempts of a job

ASSUME EffectBounds == EffectAttempts \in Nat \ {0} /\ MaxShown \in Nat /\ MaxPresentation \in Nat

\* The states of a Workflow by the label they show; a closed one shows none.
Shown == {"developing", "pr-ready", "needs-human", "closed"}
Targets == <<"issue", "pull_request">>
TargetSet == {"issue", "pull_request"}

VARIABLES
    shown,      \* the Workflow: its state, revision, presentation, whether a preparation has still to verify its pull request
    labels,     \* the managed labels of each target, and the presentation it shows
    labelJobs,  \* how many RECONCILE_GITHUB_LABELS are available, by their attempts
    labeller,   \* what each worker of labels does
    gaveUp,     \* a job of labels has failed for good
    handoffs,   \* PUBLISH_HUMAN_HANDOFF by revision: status, attempts, cleanup
    comments,   \* the targets that show the comment of each of them
    publisher   \* what the worker of handoffs does

handoffVars == <<handoffs, comments, publisher>>
labelVars == <<labels, labelJobs, labeller, gaveUp>>

Resting == [at |-> "idle", attempt |-> 0, state |-> "closed", revision |-> 0, presentation |-> 0, todo |-> << >>]
AtRest == [at |-> "idle", job |-> 0, revision |-> 0, state |-> "closed", todo |-> << >>]

EffectsInit ==
    /\ shown = [state |-> "closed", revision |-> 1, presentation |-> 0, verifying |-> FALSE, moved |-> FALSE]
    /\ labels = [t \in TargetSet |-> [names |-> {}, presentation |-> 0]]
    /\ labelJobs = [a \in 1..EffectAttempts |-> 0]
    /\ labeller = [w \in LabelWorkers |-> Resting]
    /\ gaveUp = FALSE
    /\ handoffs = [r \in 1..MaxShown |-> [status |-> "none", attempts |-> 0, cleanup |-> "none"]]
    /\ comments = [r \in 1..MaxShown |-> {}]
    /\ publisher = AtRest

-----------------------------------------------------------------------------
(* The Workflow.                                                           *)

Enqueued(jobs) == [jobs EXCEPT ![1] = @ + 1]

\* A decision of the Reducer: it enqueues the labels of its state, unless a preparation has to verify the pull request
\* first, and the comment of a handoff.
Decide(state) ==
    /\ shown.revision < MaxShown
    /\ LET next == shown.revision + 1
       IN \E verify \in IF state = "developing" THEN BOOLEAN ELSE {FALSE} :
            /\ shown' = [shown EXCEPT !.state = state, !.revision = next, !.verifying = verify, !.moved = FALSE]
            /\ labelJobs' = IF verify THEN labelJobs ELSE Enqueued(labelJobs)
            /\ handoffs' = IF state = "needs-human" THEN [handoffs EXCEPT ![next].status = "available"] ELSE handoffs
    /\ UNCHANGED <<labels, labeller, gaveUp, comments, publisher>>

\* A mutant of Verified: the labels are left to the job of the decision.
VerifiedSilently ==
    /\ shown.verifying /\ shown' = [shown EXCEPT !.verifying = FALSE]
    /\ UNCHANGED <<labels, labelJobs, labeller, gaveUp, handoffVars>>
\* enqueueVerifiedPreparationLabelsTx
Verified ==
    /\ shown.verifying /\ shown' = [shown EXCEPT !.verifying = FALSE]
    /\ labelJobs' = Enqueued(labelJobs)
    /\ UNCHANGED <<labels, labeller, gaveUp, handoffVars>>

\* enqueueReviewPresentationTx
Present ==
    /\ shown.presentation < MaxPresentation
    /\ shown' = [shown EXCEPT !.presentation = @ + 1] /\ labelJobs' = Enqueued(labelJobs)
    /\ UNCHANGED <<labels, labeller, gaveUp, handoffVars>>

\* A push that no event has told yet.
PushReady ==
    /\ shown.state = "pr-ready" /\ ~shown.moved /\ shown' = [shown EXCEPT !.moved = TRUE]
    /\ UNCHANGED <<labelVars, handoffVars>>

-----------------------------------------------------------------------------
(* Labels.                                                                 *)

Labelled(w) == labeller[w].at # "idle"

\* ClaimWorkflowGitHubEffectJob: one job of a kind is leased per Workflow, looked at again under its lock.
Serialized == \A w \in LabelWorkers : ~Labelled(w)

ClaimLabels(w) ==
    /\ ~Labelled(w) /\ Serialized
    /\ \E a \in 1..EffectAttempts :
         /\ labelJobs[a] > 0 /\ labelJobs' = [labelJobs EXCEPT ![a] = @ - 1]
         /\ labeller' = [labeller EXCEPT ![w] = [Resting EXCEPT !.at = "read", !.attempt = a]]
    /\ UNCHANGED <<shown, labels, gaveUp, handoffVars>>

\* GetWorkflowGitHubEffectContext; what a preparation has to verify is not advertised before it has.
ReadLabels(w) ==
    /\ labeller[w].at = "read"
    /\ labeller' = [labeller EXCEPT ![w] =
         [at |-> IF shown.verifying THEN "done" ELSE IF shown.state = "pr-ready" THEN "clear" ELSE "set",
          attempt |-> @.attempt, state |-> shown.state, revision |-> shown.revision,
          presentation |-> shown.presentation, todo |-> Targets]]
    /\ UNCHANGED <<shown, labels, labelJobs, gaveUp, handoffVars>>

Wanted(state) == IF state = "closed" THEN {} ELSE {state}

\* ReconcileState: the wanted label is added before the others are removed, and what was observed is compared.
ReconcileState(w, wanted, next) ==
    LET t == Head(labeller[w].todo)
    IN \/ /\ labels' = [labels EXCEPT ![t].names = wanted]
          /\ labeller' = [labeller EXCEPT ![w].todo = Tail(@), ![w].at = IF Len(labeller[w].todo) = 1 THEN next ELSE @]
       \/ /\ labels' = [labels EXCEPT ![t].names = @ \cup wanted]
          /\ labeller' = [labeller EXCEPT ![w].at = "fail"]

\* PR_READY is shown on a head that was looked at after no target showed another label.
ClearLabels(w) ==
    /\ labeller[w].at = "clear" /\ ReconcileState(w, {}, "check")
    /\ UNCHANGED <<shown, labelJobs, gaveUp, handoffVars>>
CheckHead(w) ==
    /\ labeller[w].at = "check"
    /\ labeller' = [labeller EXCEPT ![w].at = IF shown.moved THEN "fail" ELSE "set", ![w].todo = Targets]
    /\ UNCHANGED <<shown, labels, labelJobs, gaveUp, handoffVars>>
SetLabels(w) ==
    /\ labeller[w].at = "set" /\ ReconcileState(w, Wanted(labeller[w].state), "present")
    /\ UNCHANGED <<shown, labelJobs, gaveUp, handoffVars>>

\* reconcileReviewProgress
ShowPresentation(w) ==
    /\ labeller[w].at = "present"
    /\ \E shownOn \in SUBSET TargetSet :
         /\ labels' = [t \in TargetSet |-> IF t \in shownOn THEN [labels[t] EXCEPT !.presentation = labeller[w].presentation] ELSE labels[t]]
         /\ labeller' = [labeller EXCEPT ![w].at = IF shownOn = TargetSet THEN "done" ELSE "fail"]
    /\ UNCHANGED <<shown, labelJobs, gaveUp, handoffVars>>

\* The job is available again, or has failed.
Retried(a, jobs) == IF a < EffectAttempts THEN [jobs EXCEPT ![a + 1] = @ + 1] ELSE jobs

\* What the job has read is not what the Workflow shows now.
Superseded(w) ==
    \/ labeller[w].revision # shown.revision \/ labeller[w].state # shown.state
    \/ labeller[w].presentation # shown.presentation

\* AcknowledgeWorkflowGitHubEffect: what changed since the context was read is reconciled by a new job.
AcknowledgeLabels(w) ==
    LET seen == labeller[w]
        superseded == Superseded(w)
    IN /\ seen.at \in {"done", "fail"}
       /\ superseded => shown.presentation < MaxPresentation
       /\ shown' = IF superseded THEN [shown EXCEPT !.presentation = @ + 1] ELSE shown
       /\ labelJobs' = IF superseded THEN Enqueued(labelJobs)
                       ELSE IF seen.at = "fail" THEN Retried(seen.attempt, labelJobs) ELSE labelJobs
       /\ gaveUp' = (gaveUp \/ (~superseded /\ seen.at = "fail" /\ seen.attempt = EffectAttempts))
       /\ labeller' = [labeller EXCEPT ![w] = Resting]
       /\ UNCHANGED <<labels, handoffVars>>

\* The worker dies, and its lease is reclaimed.
LabellerDies(w) ==
    /\ Labelled(w) /\ labeller' = [labeller EXCEPT ![w] = Resting]
    /\ labelJobs' = Retried(labeller[w].attempt, labelJobs)
    /\ gaveUp' = (gaveUp \/ labeller[w].attempt = EffectAttempts)
    /\ UNCHANGED <<shown, labels, handoffVars>>

-----------------------------------------------------------------------------
(* Handoffs.                                                               *)

ClaimHandoff ==
    /\ publisher.at = "idle"
    /\ \E r \in 1..MaxShown :
         /\ handoffs[r].status = "available"
         /\ handoffs' = [handoffs EXCEPT ![r].status = "leased", ![r].attempts = @ + 1]
         /\ publisher' = [AtRest EXCEPT !.at = "read", !.job = r]
    /\ UNCHANGED <<shown, labelVars, comments>>

\* The handoff the job tells is not the state of the Workflow, or is not what the worker has read.
Outdated    == publisher.job # shown.revision \/ shown.state # "needs-human"
SourceSuperseded == Outdated \/ publisher.revision # shown.revision \/ publisher.state # shown.state

\* A handoff that is over is acknowledged as such, and its comments are removed under the same lease.
ReadHandoff ==
    LET job == publisher.job
        stale == handoffs[job].cleanup = "none" /\ Outdated
    IN /\ publisher.at = "read"
       /\ handoffs' = IF stale THEN [handoffs EXCEPT ![job].cleanup = "pending"] ELSE handoffs
       /\ publisher' = [at |-> IF stale \/ handoffs[job].cleanup = "pending" THEN "clean" ELSE "publish", job |-> job,
                        revision |-> shown.revision, state |-> shown.state, todo |-> Targets]
       /\ UNCHANGED <<shown, labelVars, comments>>

\* ensureComment: a comment with the marker of the job is looked for before one is created, and after.
EnsureComment ==
    LET t == Head(publisher.todo)
    IN /\ publisher.at = "publish"
       /\ \/ /\ comments' = [comments EXCEPT ![publisher.job] = @ \cup {t}]
             /\ publisher' = [publisher EXCEPT !.todo = Tail(@), !.at = IF Len(publisher.todo) = 1 THEN "done" ELSE @]
          \/ /\ \E told \in {{}, {t}} : comments' = [comments EXCEPT ![publisher.job] = @ \cup told]
             /\ publisher' = [publisher EXCEPT !.at = "fail"]
       /\ UNCHANGED <<shown, labelVars, handoffs>>

AcknowledgeHandoff ==
    LET job == publisher.job
    IN /\ publisher.at = "done"
       /\ handoffs' = [handoffs EXCEPT ![job] = IF SourceSuperseded THEN [@ EXCEPT !.cleanup = "pending"]
                                                ELSE [@ EXCEPT !.status = "done"]]
       /\ publisher' = IF SourceSuperseded THEN [publisher EXCEPT !.at = "clean"] ELSE AtRest
       /\ UNCHANGED <<shown, labelVars, comments>>

\* AcknowledgeWorkflowGitHubEffectFailure: the comments of a handoff that is over are removed instead.
HandoffFails ==
    LET job == publisher.job
        cleaning == handoffs[job].cleanup = "pending"
        last == handoffs[job].attempts = EffectAttempts
    IN /\ publisher.at = "fail"
       /\ IF ~cleaning /\ SourceSuperseded
          THEN /\ handoffs' = [handoffs EXCEPT ![job].cleanup = "pending"]
               /\ publisher' = [publisher EXCEPT !.at = "clean"]
          ELSE /\ handoffs' = [handoffs EXCEPT ![job].status = IF last THEN "failed" ELSE "available",
                                               ![job].cleanup = IF last /\ cleaning THEN "exhausted" ELSE @]
               /\ publisher' = AtRest
       /\ UNCHANGED <<shown, labelVars, comments>>

\* A mutant of Removed: the comment of the pull request is forgotten.
RemovedFromIssue(job) == comments[job] \ {"issue"}
Removed(job) == comments[job] \ TargetSet

\* removeSupersededComments, of every target although one fails; then AcknowledgeWorkflowGitHubEffectCleanup.
RemoveComments ==
    LET job == publisher.job
    IN /\ publisher.at = "clean"
       /\ \/ /\ comments' = [comments EXCEPT ![job] = Removed(job)]
             /\ handoffs' = [handoffs EXCEPT ![job].status = "done", ![job].cleanup = "done"]
             /\ publisher' = AtRest
          \/ /\ \E left \in SUBSET comments[job] : comments' = [comments EXCEPT ![job] = left]
             /\ publisher' = [publisher EXCEPT !.at = "fail"] /\ UNCHANGED handoffs
       /\ UNCHANGED <<shown, labelVars>>

PublisherDies ==
    LET job == publisher.job
    IN /\ publisher.at # "idle" /\ publisher' = AtRest
       /\ handoffs' = [handoffs EXCEPT ![job].status = IF handoffs[job].attempts = EffectAttempts THEN "failed" ELSE "available"]
       /\ UNCHANGED <<shown, labelVars, comments>>

-----------------------------------------------------------------------------
LabelStep(w) ==
    \/ ReadLabels(w) \/ ClearLabels(w) \/ CheckHead(w) \/ SetLabels(w) \/ ShowPresentation(w) \/ AcknowledgeLabels(w)
HandoffStep == ReadHandoff \/ EnsureComment \/ AcknowledgeHandoff \/ HandoffFails \/ RemoveComments

WorkflowStep ==
    \/ \E state \in Shown : Decide(state)
    \/ Verified \/ Present \/ PushReady

\* The two kinds of jobs touch no state of each other: a run may follow one of them at a time.
LabelsNext   == WorkflowStep \/ \E w \in LabelWorkers : ClaimLabels(w) \/ LabelStep(w) \/ LabellerDies(w)
HandoffsNext == WorkflowStep \/ ClaimHandoff \/ HandoffStep \/ PublisherDies

-----------------------------------------------------------------------------
(* Properties.                                                             *)

\* Once no job of labels is left, none has failed for good and no preparation has to verify the pull request, both targets
\* show the label of the state the Workflow is in, no other one, and its latest presentation, although the state changed
\* while labels were written (acknowledgeWorkflowGitHubEffect, ClaimWorkflowGitHubEffectJob).
LabelsTellTheState ==
    (\A a \in 1..EffectAttempts : labelJobs[a] = 0) /\ (\A w \in LabelWorkers : ~Labelled(w)) /\ ~gaveUp /\ ~shown.verifying
        => \A t \in TargetSet : labels[t].names = Wanted(shown.state) /\ labels[t].presentation = shown.presentation

\* A handoff that was published is told on both targets; one that was over before it was acknowledged leaves no comment,
\* although its publication may have been half done or its worker have died (removeSupersededComments).
HandoffsAreToldOrTakenBack ==
    \A r \in 1..MaxShown :
        handoffs[r].status = "done" => comments[r] = (IF handoffs[r].cleanup = "done" THEN {} ELSE TargetSet)
=============================================================================
