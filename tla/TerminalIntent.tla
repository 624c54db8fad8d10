---------------------------- MODULE TerminalIntent ----------------------------
(***************************************************************************)
(* A review was submitted, and GitHub could not confirm it when the turn    *)
(* ended: the intent is kept in a checkpoint and verified later, or, after  *)
(* a Human Handoff, revalidated for another Attempt                        *)
(* (src/internal/store/terminal_corroboration*.go,                         *)
(* terminal_revalidation.go,                                               *)
(* src/internal/agentturn/terminal_corroboration_worker.go).               *)
(*                                                                         *)
(* One source turn, a Reviewer's, expecting head 1.  Pushes, triggers,      *)
(* exhausted effects, human control and the closure of the issue go on      *)
(* beside it.  A worker reads GitHub outside of any transaction, twice; it  *)
(* may lose its lease anywhere and go on with what it has read.  The        *)
(* backoff of a retry is left out: it comes at once, or later.  So is a     *)
(* second delivery of one result by the same lease, which changes nothing.  *)
(***************************************************************************)
EXTENDS Naturals

CONSTANTS
    Verifiers,   \* processes of the recovery queue
    Verdicts,    \* what the review says
    Window,      \* how long an intent is verified, in ticks
    MaxPush,     \* bound of the model on the heads
    MaxTrigger,  \* bound of the model on the Attempts
    MaxUpset     \* bound of the model on leases lost, effects exhausted and transfers of control

VARIABLES
    remote,      \* the Pull Request: its head, and the pushes whose webhooks were processed
    flow,        \* the Workflow: state, Attempt, revision, stored head, readiness, handoff reason, what comes next
    intent,      \* the source turn, its checkpoint, and the times it was applied
    recovery,    \* the job that verifies or revalidates: its lease and its age
    verifier,    \* what each worker does, and what it has read
    owner,       \* who controls the session
    upsets

Terminal == {"exhausted", "prerequisite", "human_control"}
NoJob    == [kind |-> "none", status |-> "none", holder |-> "none", attempt |-> 0, age |-> 0]
Idle     == [at |-> "idle", revision |-> 0, seen |-> 0]

IntentInit ==
    /\ remote = [head |-> 1, delivered |-> 1]
    /\ flow = [state |-> "reviewing", stage |-> "review", attempt |-> 1, revision |-> 1, head |-> 1, ready |-> 0,
               reason |-> "none", next |-> "source", pending |-> 0]
    /\ intent = [turn |-> "settling", checkpoint |-> "none", attempt |-> 1, revalidated |-> 0, applied |-> 0]
    /\ recovery = NoJob /\ verifier = [w \in Verifiers |-> Idle]
    /\ owner = "automation" /\ upsets = 0

-----------------------------------------------------------------------------
(* The source turn ends.                                                   *)

\* BeginTerminalCorroboration, by the execution worker or by the recovery of the turn; again, it changes nothing.
Begin ==
    /\ intent.turn = "settling" /\ flow.state = "reviewing"
    /\ intent' = [intent EXCEPT !.turn = "corroborating", !.checkpoint = "pending"]
    /\ recovery' = [NoJob EXCEPT !.kind = "verify", !.status = "available", !.attempt = flow.attempt]
    /\ UNCHANGED <<remote, flow, verifier, owner, upsets>>

-----------------------------------------------------------------------------
(* The worker.                                                             *)

Outstanding(kind) == recovery.kind = kind /\ recovery.status \in {"available", "leased"}
Purpose  == recovery.kind
At(w)    == verifier[w].at
Goto(w, step)  == verifier' = [verifier EXCEPT ![w].at = step]
Stop(w)        == verifier' = [verifier EXCEPT ![w] = Idle]

Claim(w) ==
    /\ At(w) = "idle" /\ recovery.status = "available"
    /\ recovery' = [recovery EXCEPT !.status = "leased", !.holder = w]
    /\ Goto(w, "load")
    /\ UNCHANGED <<remote, flow, intent, owner, upsets>>

\* What every transaction of the worker compares under its locks.
Fenced(w) ==
    /\ recovery.status = "leased" /\ recovery.holder = w
    /\ flow.state \in {"reviewing", "developing"}
    /\ IF Purpose = "verify" THEN intent.checkpoint = "pending" /\ intent.turn = "corroborating"
       ELSE /\ intent.checkpoint = "handed_off" /\ intent.turn = "failed"
            /\ flow.attempt = recovery.attempt /\ flow.stage = "review" /\ owner = "automation"

\* A mutant of Expired: each claim starts the window anew, so that it never ends while GitHub fails.
ExpiredSinceClaim == FALSE
Expired == recovery.age >= Window

\* GetTerminalCorroborationContext: a worker whose fence is lost stops, and leaves the job to the end of its lease.
Load(w) ==
    /\ At(w) = "load"
    /\ IF ~Fenced(w) THEN Stop(w)
       ELSE verifier' = [verifier EXCEPT ![w] =
                [Idle EXCEPT !.at = IF Expired THEN "give_up" ELSE IF Purpose = "revalidate" THEN "verify_head" ELSE "read",
                             !.revision = flow.revision]]
    /\ UNCHANGED <<remote, flow, intent, recovery, owner, upsets>>

\* A read fails for a while, or shows what another read may not; or it fails for good, or contradicts the ledger.
Unread(w) ==
    /\ At(w) \in {"verify_head", "read", "list"}
    /\ \E step \in {"retry", "refuse"} : Goto(w, step)
    /\ UNCHANGED <<remote, flow, intent, recovery, owner, upsets>>

\* redirectChangedHeadRevalidation, then reconcileReviewer: the Pull Request, and its reviews.
Read(w) ==
    /\ \/ At(w) = "verify_head" /\ verifier' = [verifier EXCEPT ![w].at = IF remote.head = 1 THEN "read" ELSE "redirect",
                                                                ![w].seen = remote.head]
       \/ At(w) = "read" /\ verifier' = [verifier EXCEPT ![w].at = "list", ![w].seen = remote.head]
       \/ At(w) = "list" /\ Goto(w, "settle")
    /\ UNCHANGED <<remote, flow, intent, recovery, owner, upsets>>

\* RetryTerminalCorroboration
Retry(w) ==
    /\ At(w) = "retry" /\ Stop(w)
    /\ recovery' = IF Fenced(w) THEN [recovery EXCEPT !.status = "available", !.holder = "none"] ELSE recovery
    /\ UNCHANGED <<remote, flow, intent, owner, upsets>>

Done == [recovery EXCEPT !.status = "done", !.holder = "none"]

\* What a settlement leaves to do: the events deferred behind the source turn come first.
After(next) == IF flow.pending # 0 THEN "reconcile" ELSE next

\* CompleteTerminalCorroborationHandoff and CompleteTerminalRevalidationHandoff: a person is asked, no retry is used.
HandOff(w) ==
    /\ At(w) \in {"give_up", "refuse"} /\ Stop(w)
    /\ IF Fenced(w)
       THEN /\ flow' = [flow EXCEPT !.state = "needs_human", !.revision = @ + 1, !.next = After("none"),
                                    !.reason = IF At(w) = "give_up" THEN "exhausted" ELSE "prerequisite"]
            /\ intent' = [intent EXCEPT !.checkpoint = "handed_off", !.turn = "failed",
                                        !.revalidated = IF Purpose = "revalidate" THEN recovery.attempt ELSE @]
            /\ recovery' = Done
       ELSE UNCHANGED <<flow, intent, recovery>>
    /\ UNCHANGED <<remote, owner, upsets>>

\* RedirectRevalidationToFreshTurn: the intent is of an older head; its revision unchanged, the Workflow starts a turn.
Redirect(w) ==
    /\ At(w) = "redirect"
    /\ IF Fenced(w) /\ flow.revision = verifier[w].revision
       THEN /\ flow' = [flow EXCEPT !.head = verifier[w].seen, !.ready = 0, !.next = "turn"]
            /\ intent' = [intent EXCEPT !.revalidated = recovery.attempt]
            /\ recovery' = Done /\ Stop(w)
       ELSE IF Fenced(w) THEN Goto(w, "retry") /\ UNCHANGED <<flow, intent, recovery>>
       ELSE Stop(w) /\ UNCHANGED <<flow, intent, recovery>>
    /\ UNCHANGED <<remote, owner, upsets>>

\* A mutant of ReviewIsStale: only what GitHub shows is compared, not the pushes deferred behind the turn.
ReviewIsStaleOnGitHub(seen) == seen # 1
\* reduceReviewSettled: the review, the source turn, GitHub, the stored head and the deferred pushes must agree.
ReviewIsStale(seen) == seen # 1 \/ flow.head # 1 \/ flow.pending \notin {0, 1}

Apply(verdict, seen) ==
    IF ReviewIsStale(seen)
    THEN /\ flow' = [flow EXCEPT !.head = seen, !.ready = 0, !.revision = @ + 1, !.next = After("turn")]
         /\ intent' = [intent EXCEPT !.turn = IF @ = "corroborating" THEN "succeeded" ELSE @,
                                     !.checkpoint = IF @ = "pending" THEN "verified" ELSE @,
                                     !.revalidated = IF Purpose = "revalidate" THEN recovery.attempt ELSE @]
    ELSE /\ flow' = IF verdict = "approved"
                    THEN [flow EXCEPT !.state = "ready", !.ready = 1, !.revision = @ + 1, !.next = After("none")]
                    ELSE [flow EXCEPT !.state = "developing", !.stage = "development", !.revision = @ + 1,
                                      !.next = After("turn")]
         /\ intent' = [intent EXCEPT !.applied = @ + 1,
                                     !.turn = IF @ = "corroborating" THEN "succeeded" ELSE @,
                                     !.checkpoint = IF @ = "pending" THEN "verified" ELSE @,
                                     !.revalidated = IF Purpose = "revalidate" THEN recovery.attempt ELSE @]

\* The Workflow moved after the worker read it: a revalidation has no turn that would defer what moves it.
Superseded(w) == Purpose = "revalidate" /\ flow.revision # verifier[w].revision

\* SettleTerminalCorroboration and SettleTerminalRevalidation.
Settle(w) ==
    /\ At(w) = "settle"
    /\ IF ~Fenced(w) THEN Stop(w) /\ UNCHANGED <<flow, intent, recovery>>
       ELSE IF Superseded(w) THEN Goto(w, "retry") /\ UNCHANGED <<flow, intent, recovery>>
       ELSE /\ \E verdict \in Verdicts : Apply(verdict, verifier[w].seen)
            /\ recovery' = Done /\ Stop(w)
    /\ UNCHANGED <<remote, owner, upsets>>

\* A lease runs out: the job is offered again, while its worker has died or still goes on.
LoseRecoveryLease(w) ==
    /\ recovery.holder = w /\ upsets < MaxUpset /\ upsets' = upsets + 1
    /\ recovery' = [recovery EXCEPT !.status = "available", !.holder = "none"]
    /\ Stop(w) \/ UNCHANGED verifier
    /\ UNCHANGED <<remote, flow, intent, owner>>

\* A worker that stopped keeps its lease to the end.
ExpireRecoveryLease ==
    /\ recovery.status = "leased" /\ At(recovery.holder) = "idle"
    /\ recovery' = [recovery EXCEPT !.status = "available", !.holder = "none"]
    /\ UNCHANGED <<remote, flow, intent, verifier, owner, upsets>>

Tick ==
    /\ recovery.status \in {"available", "leased"} /\ recovery.age < Window
    /\ recovery' = [recovery EXCEPT !.age = @ + 1]
    /\ UNCHANGED <<remote, flow, intent, verifier, owner, upsets>>

-----------------------------------------------------------------------------
(* What else moves the Workflow.                                           *)

\* cancelOutstandingTerminalRevalidationTx, of the present Attempt.
Cancelled == IF Outstanding("revalidate") /\ recovery.attempt = flow.attempt
             THEN [recovery EXCEPT !.status = "cancelled", !.holder = "none"] ELSE recovery

Push ==
    /\ remote.head < MaxPush /\ remote' = [remote EXCEPT !.head = @ + 1]
    /\ UNCHANGED <<flow, intent, recovery, verifier, owner, upsets>>

Fresh(head) == head # flow.head

\* reduceSynchronization: deferred behind a turn; a Human Handoff is preserved; a revalidation is replaced by a turn.
Synchronize ==
    LET head == remote.delivered + 1 IN
    /\ remote.delivered < remote.head /\ remote' = [remote EXCEPT !.delivered = head]
    /\ IF flow.next = "source" /\ flow.state # "closing"
       THEN flow' = [flow EXCEPT !.pending = head] /\ UNCHANGED recovery
       ELSE IF flow.state \in {"closing", "closed"} \/ flow.next = "reconcile" \/ ~Fresh(head)
            \* A head already stored; what comes behind a reconciliation is applied by it.
       THEN /\ flow' = [flow EXCEPT !.pending = IF flow.next = "reconcile" THEN head ELSE @]
            /\ UNCHANGED recovery
       ELSE /\ flow' = [flow EXCEPT
                    !.head = head, !.ready = 0, !.revision = @ + 1,
                    !.state = IF @ = "ready" THEN "reviewing" ELSE @,
                    !.next = IF flow.state \in {"ready", "reviewing"} THEN "turn" ELSE @]
            /\ recovery' = IF flow.state = "reviewing" THEN Cancelled ELSE recovery
    /\ UNCHANGED <<intent, verifier, owner, upsets>>

\* AcknowledgePendingEventReconciliation: the deferred pushes are applied, and one turn follows unless a person is asked.
Reconcile ==
    /\ flow.next = "reconcile"
    /\ flow' = [flow EXCEPT !.head = flow.pending, !.pending = 0, !.ready = 0, !.revision = @ + 1,
                            !.state = IF @ = "ready" THEN "reviewing" ELSE @,
                            !.next = IF flow.state = "needs_human" THEN "none" ELSE "turn"]
    /\ UNCHANGED <<remote, intent, recovery, verifier, owner, upsets>>

\* The turn that follows ends with a person.
TurnBlocked ==
    /\ flow.next = "turn" /\ flow.state \in {"reviewing", "developing"}
    /\ flow' = [flow EXCEPT !.state = "needs_human", !.revision = @ + 1, !.next = "none", !.reason = "blocked"]
    /\ UNCHANGED <<remote, intent, recovery, verifier, owner, upsets>>

\* ApplyNextWorkflowActionFailureEscalation, once no turn and no preparation is left.
EscalateEffect ==
    /\ flow.next \in {"none", "revalidate"} /\ flow.state \in {"reviewing", "developing", "ready"}
    /\ upsets < MaxUpset /\ upsets' = upsets + 1
    /\ flow' = [flow EXCEPT !.state = "needs_human", !.ready = 0, !.revision = @ + 1, !.next = "none", !.reason = "effect"]
    /\ recovery' = Cancelled
    /\ UNCHANGED <<remote, intent, verifier, owner>>

\* A mutant of PriorIntent: whatever the person was asked for, the intent left behind is taken up again.
PriorIntentOfAnyHandoff ==
    flow.state = "needs_human" /\ intent.checkpoint = "handed_off" /\ intent.turn = "failed"
\* reduceWorkflowEvent: the checkpoint of this Attempt, or one this Attempt has revalidated.
PriorIntent ==
    /\ flow.state = "needs_human" /\ flow.reason \in Terminal
    /\ intent.checkpoint = "handed_off" /\ intent.turn = "failed"
    /\ flow.attempt \in {intent.attempt, intent.revalidated}

\* The label is added again: reduceTrigger with EnqueueTerminalRevalidation or an ordinary turn.
Trigger ==
    /\ flow.state \in {"needs_human", "ready"} /\ flow.next = "none" /\ flow.attempt < MaxTrigger
    /\ IF PriorIntent /\ owner = "human"
       THEN /\ flow.reason # "human_control"   \* bound of the model: once is enough
            /\ flow' = [flow EXCEPT !.revision = @ + 1, !.reason = "human_control"]
            /\ UNCHANGED recovery
       ELSE LET prior == PriorIntent /\ flow.stage = "review" /\ flow.head = 1
            IN  /\ flow' = [flow EXCEPT !.state = IF flow.stage = "review" THEN "reviewing" ELSE "developing",
                                        !.attempt = @ + 1, !.revision = @ + 1, !.ready = 0, !.reason = "none",
                                        !.next = IF prior THEN "revalidate" ELSE "turn"]
                /\ recovery' = IF prior
                               THEN [NoJob EXCEPT !.kind = "revalidate", !.status = "available", !.attempt = flow.attempt + 1]
                               ELSE recovery
    /\ UNCHANGED <<remote, intent, verifier, owner, upsets>>

\* TransferAgentSessionControl: not while a turn is active, nor while an intent is revalidated.
TransferControl ==
    /\ flow.next = "none" /\ ~Outstanding("revalidate") /\ ~Outstanding("verify")
    /\ upsets < MaxUpset /\ upsets' = upsets + 1
    /\ owner' = IF owner = "human" THEN "automation" ELSE "human"
    /\ UNCHANGED <<remote, flow, intent, recovery, verifier>>

\* The issue is closed: the source turn is stopped, what revalidates its intent is cancelled.
CloseIssue ==
    /\ flow.state \notin {"closing", "closed"}
    /\ flow' = [flow EXCEPT !.state = "closing", !.ready = 0, !.revision = @ + 1,
                            !.next = IF @ = "source" THEN @ ELSE "none"]
    /\ recovery' = IF flow.next = "source" THEN recovery ELSE Cancelled
    /\ UNCHANGED <<remote, intent, verifier, owner, upsets>>

\* CompleteClosureSettlement with settleClosedAgentTurnTx.
CompleteClosure ==
    /\ flow.state = "closing"
    /\ flow' = [flow EXCEPT !.state = "closed", !.revision = @ + 1, !.next = "none"]
    /\ IF flow.next = "source"
       THEN /\ intent' = [intent EXCEPT !.turn = "cancelled", !.checkpoint = IF @ = "pending" THEN "cancelled" ELSE @]
            /\ recovery' = IF Outstanding("verify") THEN [recovery EXCEPT !.status = "cancelled", !.holder = "none"] ELSE recovery
       ELSE UNCHANGED <<intent, recovery>>
    /\ UNCHANGED <<remote, verifier, owner, upsets>>

-----------------------------------------------------------------------------
VerifierStep(w) ==
    Claim(w) \/ Load(w) \/ Unread(w) \/ Read(w) \/ Retry(w) \/ HandOff(w) \/ Redirect(w) \/ Settle(w)

IntentNext ==
    \/ Begin
    \/ \E w \in Verifiers : VerifierStep(w) \/ LoseRecoveryLease(w)
    \/ ExpireRecoveryLease \/ Tick
    \/ Push \/ Synchronize \/ Reconcile \/ TurnBlocked \/ EscalateEffect \/ Trigger \/ TransferControl
    \/ CloseIssue \/ CompleteClosure

-----------------------------------------------------------------------------
(* Properties.                                                             *)

\* One review is applied to the Workflow at most once, however it was verified, handed off, revalidated and taken over
\* (settleTerminalCorroboration, applyTerminalRevalidation, reduceWorkflowEvent).
AppliedOnce == intent.applied <= 1

\* An approval confirmed long after it was given makes no other head ready, and a push that replaced its head has not
\* reached the Workflow yet: the Workflow knows of no push after the approval, deferred ones included
\* (reduceReviewSettled, reducePreviouslyAcceptedTerminalReview).
ApprovalIsCurrent ==
    flow.ready # 0 =>
        /\ flow.ready = flow.head
        /\ remote.head # flow.ready => remote.delivered < remote.head

\* An intent is not verified or revalidated for ever, even if GitHub never answers again
\* (ProcessOne, cancelOutstandingTerminalRevalidationTx, settleClosedAgentTurnTx).
IntentResolves ==
    /\ Outstanding("verify") ~> ~Outstanding("verify")
    /\ Outstanding("revalidate") ~> ~Outstanding("revalidate")
=============================================================================
