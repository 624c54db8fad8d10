-------------------------------- MODULE Inbox --------------------------------
(***************************************************************************)
(* The webhook inbox of one issue (src/internal/store/webhook.go,           *)
(* workflow.go, src/internal/github/webhook/processor.go): the deliveries   *)
(* in the order they were received, the claims of the processors, and the   *)
(* normalized events they leave behind.  Each action is one transaction or  *)
(* one step of a processor.                                                *)
(*                                                                         *)
(* What an event does to the Workflow is left to the module that extends    *)
(* this one: Transition and Drain append to "applied" the event they        *)
(* reduce, and are joined with the reduction.  "collecting" holds while an  *)
(* Assignment collection is authorized and not finished.                   *)
(*                                                                         *)
(* A claim token is minted with its attempt number, so that a claim is the  *)
(* pair of a delivery and an attempt.  No Workflow event is retried with a  *)
(* delay: retry_at is set by provisioning deliveries only.                  *)
(***************************************************************************)
EXTENDS Naturals, Sequences

CONSTANTS
    MaxDelivery,   \* bound of the model on the number of deliveries
    Kinds,         \* the events GitHub sends for the issue
    Processors,    \* processor processes
    MaxTries       \* max_attempts of a delivery and of a normalized event

ASSUME InboxAssumption == MaxDelivery \in Nat /\ MaxTries \in Nat \ {0}

Deliveries == 1..MaxDelivery

VARIABLES
    kind,          \* the event and action of a delivery
    delivery,      \* webhook_deliveries.status, ABSENT before the row is inserted
    tries,         \* webhook_deliveries.attempt_count
    live,          \* its claim has not expired
    event,         \* normalized_events.status, ABSENT before the row is inserted
    eventTries,    \* normalized_events.attempt_count
    claim,         \* what a processor works on
    applied        \* the events that were reduced, in that order

deliveryRow == <<kind, delivery, tries, live>>
eventRow    == <<event, eventTries, applied>>
inbox       == <<deliveryRow, eventRow, claim>>

\* A processor drains the pending events (NoClaim), then claims (Ready), then works on what it claimed.
NoClaim == [id |-> 0, attempt |-> 0]
Ready   == [id |-> 0, attempt |-> 1]
Claims  == [id : Deliveries, attempt : 1..MaxTries]

InboxInit ==
    /\ kind = [d \in Deliveries |-> "none"]
    /\ delivery = [d \in Deliveries |-> "ABSENT"]
    /\ tries = [d \in Deliveries |-> 0]
    /\ live = [d \in Deliveries |-> FALSE]
    /\ event = [d \in Deliveries |-> "ABSENT"]
    /\ eventTries = [d \in Deliveries |-> 0]
    /\ claim = [p \in Processors |-> NoClaim]
    /\ applied = <<>>

-----------------------------------------------------------------------------
\* A mutant of Open: a delivery that is being processed is taken for settled.
OpenPending(d) == delivery[d] = "PENDING"
Open(d)        == delivery[d] \in {"PENDING", "PROCESSING"}

\* A normalized event that waits, and may still be tried.
Waiting(d)   == event[d] = "PENDING" /\ eventTries[d] < MaxTries
\* No claim is working on it.
Free(d)      == delivery[d] = "PENDING" \/ (delivery[d] = "PROCESSING" /\ ~live[d])
\* The claim is the current, unexpired one.
Fenced(p)    == LET d == claim[p].id
                IN  claim[p] \in Claims /\ delivery[d] = "PROCESSING" /\ tries[d] = claim[p].attempt /\ live[d]

\* InsertWebhookDelivery: GitHub retries until the row is durable; a duplicate is dropped by its delivery id.
Receive(d, k) ==
    /\ delivery[d] = "ABSENT" /\ \A e \in 1..(d - 1) : delivery[e] # "ABSENT"
    /\ kind'     = [kind EXCEPT ![d] = k]
    /\ delivery' = [delivery EXCEPT ![d] = "PENDING"]
    /\ UNCHANGED <<tries, live, eventRow, claim>>

\* A claim expires: its processor may still be working.
ExpireClaim(d) ==
    /\ live[d]
    /\ live' = [live EXCEPT ![d] = FALSE]
    /\ UNCHANGED <<kind, delivery, tries, eventRow, claim>>

\* workflowTransitionBlockedTx
Blocked(d, collecting) ==
    \/ collecting
    \/ \E e \in 1..(d - 1) : Waiting(e) \/ (kind[e] = "reopened" /\ Open(e))

\* The oldest event that waits, unless an authorized collection or an earlier reopen holds it.
Drainable(d, collecting) == Waiting(d) /\ ~Blocked(d, collecting)

-----------------------------------------------------------------------------
(* Claims.                                                                 *)

\* A mutant of GiveUp: a claim that expired on the last attempt is left behind.
GiveUpPending == {d \in Deliveries : delivery[d] = "PENDING" /\ tries[d] >= MaxTries}
\* What every claim marks FAILED first.
GiveUp == {d \in Deliveries : Free(d) /\ tries[d] >= MaxTries}

\* What may be claimed: a delivery that is free and was not tried too often, with no reopen before it unsettled.
Claimable == {d \in Deliveries :
                /\ Free(d) /\ tries[d] < MaxTries
                /\ \A e \in 1..(d - 1) : kind[e] = "reopened" => ~Open(e) /\ event[e] # "PENDING"}

\* Fresh deliveries in the order they were received, then the retries.
Ahead(d, e) == tries[d] < tries[e] \/ (tries[d] = 0 /\ tries[e] = 0 /\ d <= e)

\* A processor that finds no pending event to apply goes on to claim a delivery.
FindNothing(p, collecting) ==
    /\ claim[p] = NoClaim /\ \A d \in Deliveries : ~Drainable(d, collecting)
    /\ claim' = [claim EXCEPT ![p] = Ready]
    /\ UNCHANGED <<deliveryRow, eventRow>>

ClaimDelivery(p, d) ==
    /\ claim[p] = Ready
    /\ d \in Claimable /\ \A e \in Claimable : e = d \/ ~Ahead(e, d)
    /\ delivery' = [e \in Deliveries |-> CASE e = d         -> "PROCESSING"
                                           [] e \in GiveUp -> "FAILED"
                                           [] OTHER        -> delivery[e]]
    /\ tries' = [tries EXCEPT ![d] = @ + 1]
    /\ live'  = [live EXCEPT ![d] = TRUE]
    /\ claim' = [claim EXCEPT ![p] = [id |-> d, attempt |-> tries[d] + 1]]
    /\ UNCHANGED <<kind, eventRow>>

\* Nothing to claim: the exhausted ones are given up all the same.
ClaimNothing(p) ==
    /\ claim[p] = Ready /\ Claimable = {}
    /\ delivery' = [e \in Deliveries |-> IF e \in GiveUp THEN "FAILED" ELSE delivery[e]]
    /\ claim'    = [claim EXCEPT ![p] = NoClaim]
    /\ UNCHANGED <<kind, tries, live, eventRow>>

-----------------------------------------------------------------------------
(* What becomes of a claim.                                                *)

Settle(p, outcome) ==
    /\ delivery' = [delivery EXCEPT ![claim[p].id] = outcome]
    /\ live'     = [live EXCEPT ![claim[p].id] = FALSE]
    /\ claim'    = [claim EXCEPT ![p] = NoClaim]
    /\ UNCHANGED <<kind, tries>>

\* CompleteWebhookDelivery of an event the system does not react to.
Ignore(p) ==
    /\ Fenced(p) /\ kind[claim[p].id] = "other"
    /\ Settle(p, "IGNORED")
    /\ UNCHANGED eventRow

\* CompleteWebhookTransition: the event is reduced in the same transaction, or left pending.
Transition(p) ==
    LET d == claim[p].id
    IN  /\ Fenced(p) /\ kind[d] # "other" /\ event[d] = "ABSENT"
        /\ event'   = [event EXCEPT ![d] = "COMPLETED"]
        /\ applied' = Append(applied, d)
        /\ Settle(p, "PROCESSED")
        /\ UNCHANGED eventTries

LeavePending(p) ==
    LET d == claim[p].id
    IN  /\ Fenced(p) /\ kind[d] # "other" /\ event[d] = "ABSENT"
        /\ event' = [event EXCEPT ![d] = "PENDING"]
        /\ Settle(p, "PROCESSED")
        /\ UNCHANGED <<eventTries, applied>>

\* AcknowledgeWebhookDeliveryFailure, of an error that may be retried or not.
Fail(p, retryable) ==
    /\ Fenced(p)
    /\ Settle(p, IF retryable /\ tries[claim[p].id] < MaxTries THEN "PENDING" ELSE "FAILED")
    /\ UNCHANGED eventRow

\* The processor dies, or finds that its claim is lost.  (Dying before it claims changes nothing.)
Drop(p) ==
    /\ claim[p] \in Claims
    /\ claim' = [claim EXCEPT ![p] = NoClaim]
    /\ UNCHANGED <<deliveryRow, eventRow>>

-----------------------------------------------------------------------------
(* ApplyNextPendingNormalizedEvent, of an event that is drainable.          *)

Drain(p, d) ==
    /\ claim[p] = NoClaim
    /\ event'      = [event EXCEPT ![d] = "COMPLETED"]
    /\ eventTries' = [eventTries EXCEPT ![d] = @ + 1]
    /\ applied'    = Append(applied, d)
    /\ UNCHANGED <<deliveryRow, claim>>

\* finishPendingNormalizedEventFailure
DrainFails(p, d, deterministic) ==
    /\ claim[p] = NoClaim
    /\ eventTries' = [eventTries EXCEPT ![d] = @ + 1]
    /\ event'      = [event EXCEPT ![d] = IF deterministic \/ eventTries[d] + 1 >= MaxTries
                                          THEN "FAILED" ELSE "PENDING"]
    /\ UNCHANGED <<deliveryRow, claim, applied>>
=============================================================================
