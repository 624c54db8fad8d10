---------------------------- MODULE RetentionProofs ----------------------------
(***************************************************************************)
(* Proofs about the issue, its inbox and the retention of its Assignments, *)
(* for every number of deliveries, processors, collectors and attempts.    *)
(*                                                                         *)
(* The inbox: an event is reduced once, in an order that InboxInv relates  *)
(* to the rows of deliveries and events.  The retention: a worker deletes  *)
(* without a fence, so what it deletes must stay condemned whatever         *)
(* happens to its lease.  CollectionInv says why it does: the generation   *)
(* it was authorized to can only become COLLECTED, a collection that is     *)
(* under way keeps the issue CLOSED, and its targets stay COMPLETED.        *)
(*                                                                         *)
(* The visible effects of the issue: labels and comments are written on    *)
(* two targets one after the other while the Workflow moves on.  LabelsInv *)
(* says who still has to show a state that is not shown, HandoffsInv what  *)
(* a publisher has told by the step it is at.                              *)
(*                                                                         *)
(* The planning of the issue with its people: PlanningInv says what a      *)
(* publication on its way may already show, and that a validation names a  *)
(* confirmation somebody gave.                                             *)
(***************************************************************************)
EXTENDS Retention, GitHubEffects, Collaboration, TLAPS

-----------------------------------------------------------------------------
(* The inductive invariant of the inbox.                                   *)

DeliveryStates == {"ABSENT", "PENDING", "PROCESSING", "PROCESSED", "IGNORED", "FAILED"}
EventStates    == {"ABSENT", "PENDING", "COMPLETED", "FAILED"}

InboxTypes ==
    /\ kind \in [Deliveries -> Kinds \cup {"none"}]
    /\ delivery \in [Deliveries -> DeliveryStates]
    /\ event \in [Deliveries -> EventStates]
    /\ eventTries \in [Deliveries -> Nat]
    /\ applied \in Seq(Deliveries)

\* A delivery and its event: an event is there exactly for a delivery that was processed.
RowsAgree ==
    \A d \in Deliveries :
        /\ event[d] # "ABSENT" <=> delivery[d] = "PROCESSED"
        /\ event[d] \in {"ABSENT", "PENDING"} => eventTries[d] < MaxTries
        /\ delivery[d] = "IGNORED" => kind[d] = "other"
        /\ delivery[d] # "ABSENT" => \A e \in 1..(d - 1) : delivery[e] # "ABSENT"

\* An event was reduced exactly once if it is completed, and not at all otherwise.
ReducedOnce ==
    /\ \A n \in 1..Len(applied) : event[applied[n]] = "COMPLETED"
    /\ \A d \in Deliveries : event[d] = "COMPLETED" => \E n \in 1..Len(applied) : applied[n] = d
    /\ \A m, n \in 1..Len(applied) : applied[m] = applied[n] => m = n

\* Behind an event that was reduced, every earlier reopen was reduced before it, or has failed.
Overtaken(d, n) ==
    \A e \in Deliveries :
        e < d /\ kind[e] = "reopened" =>
            \/ \E m \in 1..Len(applied) : m < n /\ applied[m] = e
            \/ delivery[e] = "FAILED" \/ event[e] = "FAILED"
InOrder == \A n \in 1..Len(applied) : Overtaken(applied[n], n)

InboxInv == InboxTypes /\ RowsAgree /\ ReducedOnce /\ InOrder

-----------------------------------------------------------------------------
(* The inductive invariant of the retention.                               *)

Works == [token : Tokens \cup {0}, attempt : Nat, at : {"idle", "claimed", "authorized"}]
RetentionTypes ==
    /\ participant \in [Participants -> {"ABSENT", "ACTIVE", "WAITING", "COMPLETED", "DELETED"}]
    /\ generation \in [Tokens -> {"ABSENT", "SCHEDULED", "COLLECTING", "COLLECTED", "CANCELLED"}]
    /\ targets \in [Tokens -> SUBSET Participants]
    /\ collector \in [Collectors -> Works]
    /\ attempts \in [Tokens -> Nat]
    /\ token \in Tokens \cup {0}

\* A generation is minted with the event that starts a closure, which is reduced once: it is not there before.
GenerationMinted ==
    /\ \A t \in Tokens : generation[t] # "ABSENT" => event[t] = "COMPLETED"
    /\ state = "CLOSING" => token \in Tokens /\ event[token] = "COMPLETED" /\ generation[token] = "ABSENT"

\* A worker that was authorized may delete for ever: its generation is under collection, or collected.
StaysAuthorized ==
    \A c \in Collectors :
        /\ collector[c].at = "authorized" =>
              collector[c].token \in Tokens /\ generation[collector[c].token] \in {"COLLECTING", "COLLECTED"}
        /\ collector[c].at = "claimed" => collector[c].token \in Tokens

\* While the issue is closed its participants rest; a collection keeps it closed, and has them as its targets.
ClosedRests == state = "CLOSED" => \A p \in Kept : participant[p] = "COMPLETED"
CollectingCloses ==
    \A t \in Tokens :
        /\ generation[t] = "COLLECTING" =>
              state = "CLOSED" /\ token = t /\ \A p \in targets[t] : participant[p] = "COMPLETED"
        /\ generation[t] = "COLLECTED" => \A p \in targets[t] : participant[p] = "DELETED"

CollectionInv ==
    /\ RetentionTypes /\ GenerationMinted /\ StaysAuthorized /\ ClosedRests /\ CollectingCloses /\ CollectionIsSafe

Inv == InboxInv /\ CollectionInv

-----------------------------------------------------------------------------
\* The initial state satisfies the invariant.
LEMMA Initially == ASSUME Init PROVE Inv
<1> USE InboxAssumption
<1>1. InboxInv
  BY DEF Init, InboxInit, InboxInv, InboxTypes, RowsAgree, ReducedOnce, InOrder, DeliveryStates, EventStates, Deliveries
<1>2. RetentionTypes
  BY DEF Init, RetentionTypes, Works, Idle, Tokens, Deliveries
<1>3. /\ \A t \in Tokens : generation[t] = "ABSENT"
      /\ \A c \in Collectors : collector[c].at = "idle"
      /\ \A p \in Participants : participant[p] \in {"ACTIVE", "ABSENT"} /\ (p \notin disk => participant[p] = "ABSENT")
      /\ state = "ACTIVE"
  BY DEF Init, Idle
<1> QED BY <1>1, <1>2, <1>3 DEF Inv, CollectionInv, GenerationMinted, StaysAuthorized, ClosedRests, CollectingCloses,
        CollectionIsSafe, DeletionIsAuthorized, DeletedMeansAbsent

-----------------------------------------------------------------------------
(* Steps of the inbox.                                                     *)

\* What is settled stays settled.
Failures == \A d \in Deliveries : /\ delivery[d] = "FAILED" => delivery'[d] = "FAILED"
                                  /\ event[d] = "FAILED" => event'[d] = "FAILED"

\* A step that reduces nothing.
Quiet ==
    /\ applied' = applied /\ kind' = kind
    /\ \A d \in Deliveries : event'[d] = "COMPLETED" <=> event[d] = "COMPLETED"
    /\ Failures

LEMMA QuietKeepsTheOrder ==
    ASSUME InboxInv, Quiet PROVE ReducedOnce' /\ InOrder'
<1>1. \A n \in 1..Len(applied) : applied[n] \in Deliveries
  BY DEF InboxInv, InboxTypes
<1>2. ReducedOnce'
  BY <1>1 DEF InboxInv, Quiet, ReducedOnce
<1>3. InOrder'
  BY <1>1 DEF InboxInv, Quiet, InOrder, Overtaken, Failures
<1> QED BY <1>2, <1>3

\* A step that reduces event d, with every earlier reopen out of the way.
Reduces(d) ==
    /\ event[d] # "COMPLETED" /\ delivery[d] # "ABSENT"
    /\ applied' = Append(applied, d) /\ kind' = kind
    /\ event' = [event EXCEPT ![d] = "COMPLETED"]
    /\ Failures
    /\ \A e \in 1..(d - 1) : ~Waiting(e) /\ ~(kind[e] = "reopened" /\ Open(e))

LEMMA ReducesInOrder ==
    ASSUME InboxInv, NEW d \in Deliveries, Reduces(d) PROVE ReducedOnce' /\ InOrder'
<1> USE InboxAssumption
<1>1. /\ Len(applied) \in Nat /\ Len(applied') = Len(applied) + 1 /\ applied'[Len(applied) + 1] = d
      /\ \A n \in 1..Len(applied) : applied'[n] = applied[n] /\ applied[n] \in Deliveries
  BY DEF InboxInv, InboxTypes, Reduces
<1>2. /\ event'[d] = "COMPLETED"
      /\ \A e \in Deliveries \ {d} : event'[e] = event[e]
  BY DEF InboxInv, InboxTypes, Reduces
<1>3. \A n \in 1..Len(applied) : applied[n] # d
  BY DEF InboxInv, ReducedOnce, Reduces
<1>4. ReducedOnce'
  BY <1>1, <1>2, <1>3 DEF InboxInv, ReducedOnce
<1>5. \A e \in Deliveries : e < d /\ kind[e] = "reopened" =>
         event[e] = "COMPLETED" \/ delivery[e] = "FAILED" \/ event[e] = "FAILED"
  <2> SUFFICES ASSUME NEW e \in Deliveries, e < d, kind[e] = "reopened"
               PROVE  event[e] = "COMPLETED" \/ delivery[e] = "FAILED" \/ event[e] = "FAILED"
    OBVIOUS
  <2>1. e \in 1..(d - 1)
    BY DEF Deliveries
  <2>2. delivery[e] \notin {"ABSENT", "PENDING", "PROCESSING", "IGNORED"}
    BY <2>1 DEF InboxInv, RowsAgree, Reduces, Open
  <2>3. delivery[e] \in {"PROCESSED", "FAILED"} /\ event[e] \in EventStates
    BY <2>2 DEF InboxInv, InboxTypes, DeliveryStates
  <2> QED BY <2>1, <2>3 DEF InboxInv, RowsAgree, Reduces, Waiting, EventStates
<1>6. InOrder'
  <2>1. \A n \in 1..Len(applied) : Overtaken(applied[n], n)'
    BY <1>1, <1>2 DEF InboxInv, InOrder, Overtaken, Reduces, Failures
  <2>2. ASSUME NEW e \in Deliveries, event[e] = "COMPLETED"
        PROVE  \E m \in 1..Len(applied') : m < Len(applied) + 1 /\ applied'[m] = e
    BY <1>1, <2>2 DEF InboxInv, ReducedOnce
  <2>3. \A n \in Nat : n = Len(applied) + 1 => Overtaken(d, n)'
    BY <1>1, <1>5, <2>2 DEF Overtaken, Reduces, Failures
  <2>4. ASSUME NEW n \in 1..Len(applied') PROVE Overtaken(applied[n], n)'
    <3>1. CASE n \in 1..Len(applied)
      BY <2>1, <3>1
    <3>2. CASE n = Len(applied) + 1
      <4>1. applied'[n] = d /\ n \in Nat
        BY <1>1, <3>2
      <4> QED BY <2>3, <3>2, <4>1
    <3> QED BY <1>1, <3>1, <3>2
  <2> QED BY <2>4 DEF InOrder
<1> QED BY <1>4, <1>6

\* What a step of the inbox owes to the retention: an event that was reduced stays so.
Advances == \A d \in Deliveries : event[d] = "COMPLETED" => event'[d] = "COMPLETED"

\* GitHub delivers, in the order of the inbox: a new reopen is behind everything that was reduced.
LEMMA ReceiveKeeps ==
    ASSUME InboxInv, NEW d \in Deliveries, NEW k \in Kinds, Receive(d, k) PROVE InboxInv' /\ Advances
<1> USE InboxAssumption
<1>1. /\ event' = event /\ eventTries' = eventTries /\ applied' = applied
      /\ delivery' = [delivery EXCEPT ![d] = "PENDING"] /\ kind' = [kind EXCEPT ![d] = k]
      /\ delivery[d] = "ABSENT" /\ \A e \in 1..(d - 1) : delivery[e] # "ABSENT"
  BY DEF Receive, eventRow
<1>2. InboxTypes'
  BY <1>1 DEF InboxInv, InboxTypes, DeliveryStates
<1>3. event[d] = "ABSENT"
  BY <1>1 DEF InboxInv, RowsAgree
<1>4. RowsAgree'
  <2>1. /\ delivery'[d] = "PENDING"
        /\ \A e \in Deliveries \ {d} : delivery'[e] = delivery[e] /\ kind'[e] = kind[e]
    BY <1>1 DEF InboxInv, InboxTypes
  <2>2. \A e \in Deliveries : \A f \in 1..(e - 1) : f \in Deliveries
    BY DEF Deliveries
  <2> QED BY <1>1, <1>3, <2>1, <2>2 DEF InboxInv, RowsAgree
<1>5. ReducedOnce'
  BY <1>1 DEF InboxInv, ReducedOnce
<1>6. InOrder'
  <2>1. \A n \in 1..Len(applied) : applied[n] \in Deliveries /\ event[applied[n]] = "COMPLETED"
    BY DEF InboxInv, InboxTypes, ReducedOnce
  <2>2. \A n \in 1..Len(applied) : ~(d < applied[n])
    <3> SUFFICES ASSUME NEW n \in 1..Len(applied), d < applied[n] PROVE FALSE
      OBVIOUS
    <3>1. delivery[applied[n]] # "ABSENT"
      BY <2>1 DEF InboxInv, RowsAgree
    <3>2. d \in 1..(applied[n] - 1)
      BY <2>1 DEF Deliveries
    <3> QED BY <1>1, <2>1, <3>1, <3>2 DEF InboxInv, RowsAgree
  <2>3. \A e \in Deliveries \ {d} : delivery'[e] = delivery[e] /\ kind'[e] = kind[e]
    BY <1>1 DEF InboxInv, InboxTypes
  <2> QED BY <1>1, <2>1, <2>2, <2>3 DEF InboxInv, InOrder, Overtaken
<1> QED BY <1>1, <1>2, <1>4, <1>5, <1>6 DEF InboxInv, Advances

\* Whatever claims or gives up a delivery leaves the events alone, and touches no delivery that is settled.
LEMMA ClaimsKeep ==
    ASSUME InboxInv, UNCHANGED <<kind, eventRow>>,
           delivery' \in [Deliveries -> DeliveryStates],
           \A d \in Deliveries : \/ delivery'[d] = delivery[d]
                                 \/ /\ delivery[d] \in {"PENDING", "PROCESSING"}
                                    /\ delivery'[d] \in {"PENDING", "PROCESSING", "FAILED"}
    PROVE  InboxInv' /\ Advances
<1> USE InboxAssumption
<1>1. event' = event /\ eventTries' = eventTries /\ applied' = applied /\ kind' = kind
  BY DEF eventRow
<1>2. InboxTypes'
  BY <1>1 DEF InboxInv, InboxTypes
<1>3. \A d \in Deliveries : \A e \in 1..(d - 1) : e \in Deliveries
  BY DEF Deliveries
<1>4. RowsAgree'
  BY <1>1, <1>3 DEF InboxInv, RowsAgree
<1>5. Quiet
  BY <1>1 DEF Quiet, Failures
<1> QED BY <1>1, <1>2, <1>4, <1>5, QuietKeepsTheOrder DEF InboxInv, Advances

LEMMA ClaimStepsKeep ==
    ASSUME InboxInv, NEW p \in Processors,
           \/ \E d \in Deliveries : ClaimDelivery(p, d) \/ ExpireClaim(d)
           \/ ClaimNothing(p) \/ Drop(p) \/ \E collecting \in BOOLEAN : FindNothing(p, collecting)
           \/ \E retryable \in BOOLEAN : Fail(p, retryable)
    PROVE  InboxInv' /\ Advances
<1>1. delivery \in [Deliveries -> DeliveryStates]
  BY DEF InboxInv, InboxTypes
<1>2. CASE \E d \in Deliveries : ClaimDelivery(p, d)
  <2>1. PICK d \in Deliveries : ClaimDelivery(p, d)
    BY <1>2
  <2>2. /\ UNCHANGED <<kind, eventRow>>
        /\ delivery' = [e \in Deliveries |-> CASE e = d -> "PROCESSING" [] e \in GiveUp -> "FAILED" [] OTHER -> delivery[e]]
        /\ delivery[d] \in {"PENDING", "PROCESSING"}
    BY <2>1 DEF ClaimDelivery, Claimable, Free
  <2>3. \A e \in GiveUp : delivery[e] \in {"PENDING", "PROCESSING"}
    BY DEF GiveUp, Free
  <2>4. \A e \in Deliveries : \/ e = d /\ delivery'[e] = "PROCESSING"
                              \/ e \in GiveUp /\ delivery'[e] = "FAILED"
                              \/ delivery'[e] = delivery[e]
    BY <2>2
  <2>5. delivery' \in [Deliveries -> DeliveryStates]
    <3>1. \A e \in Deliveries : delivery'[e] \in DeliveryStates
      BY <1>1, <2>4 DEF DeliveryStates
    <3> QED BY <2>2, <3>1
  <2> QED BY <2>2, <2>3, <2>4, <2>5, ClaimsKeep
<1>3. CASE ClaimNothing(p)
  <2>1. UNCHANGED <<kind, eventRow>> /\ delivery' = [e \in Deliveries |-> IF e \in GiveUp THEN "FAILED" ELSE delivery[e]]
    BY <1>3 DEF ClaimNothing
  <2>2. \A e \in GiveUp : delivery[e] \in {"PENDING", "PROCESSING"}
    BY DEF GiveUp, Free
  <2>3. delivery' \in [Deliveries -> DeliveryStates]
    BY <1>1, <2>1 DEF DeliveryStates
  <2>4. \A e \in Deliveries : delivery'[e] = delivery[e] \/ (e \in GiveUp /\ delivery'[e] = "FAILED")
    BY <2>1
  <2> QED BY <2>1, <2>2, <2>3, <2>4, ClaimsKeep
<1>4. CASE \/ \E d \in Deliveries : ExpireClaim(d)
           \/ Drop(p) \/ \E collecting \in BOOLEAN : FindNothing(p, collecting)
  <2>1. UNCHANGED <<kind, eventRow>> /\ delivery' = delivery
    BY <1>4 DEF ExpireClaim, Drop, FindNothing, deliveryRow
  <2> QED BY <1>1, <2>1, ClaimsKeep
<1>5. CASE \E retryable \in BOOLEAN : Fail(p, retryable)
  <2>1. PICK outcome \in {"PENDING", "FAILED"} : Fenced(p) /\ Settle(p, outcome) /\ UNCHANGED eventRow
    BY <1>5 DEF Fail
  <2>2. claim[p].id \in Deliveries /\ delivery[claim[p].id] = "PROCESSING"
    BY <2>1 DEF Fenced, Claims
  <2>3. /\ UNCHANGED <<kind, eventRow>> /\ delivery' = [delivery EXCEPT ![claim[p].id] = outcome]
    BY <2>1 DEF Settle
  <2>4. delivery' \in [Deliveries -> DeliveryStates]
    BY <1>1, <2>3 DEF DeliveryStates
  <2> QED BY <1>1, <2>2, <2>3, <2>4, ClaimsKeep
<1> QED BY <1>2, <1>3, <1>4, <1>5

\* A delivery settles as ignored, or leaves its event pending.
LEMMA SettlesKeep ==
    ASSUME InboxInv, NEW p \in Processors, Ignore(p) \/ LeavePending(p)
    PROVE  InboxInv' /\ Advances
<1> USE InboxAssumption
<1> DEFINE d == claim[p].id
<1>1. d \in Deliveries /\ delivery[d] = "PROCESSING"
  BY DEF Ignore, LeavePending, Fenced, Claims
<1> HIDE DEF d
<1>2. /\ applied' = applied /\ kind' = kind /\ eventTries' = eventTries
      /\ \/ delivery' = [delivery EXCEPT ![d] = "IGNORED"] /\ event' = event /\ kind[d] = "other"
         \/ delivery' = [delivery EXCEPT ![d] = "PROCESSED"] /\ event' = [event EXCEPT ![d] = "PENDING"] /\ event[d] = "ABSENT"
  BY DEF Ignore, LeavePending, Settle, eventRow, d
<1>3. event[d] = "ABSENT" /\ eventTries[d] < MaxTries
  BY <1>1 DEF InboxInv, RowsAgree
<1>4. InboxTypes'
  BY <1>2 DEF InboxInv, InboxTypes, DeliveryStates, EventStates
<1>5. /\ \A e \in Deliveries \ {d} : delivery'[e] = delivery[e] /\ event'[e] = event[e]
      /\ \/ delivery'[d] = "IGNORED" /\ event'[d] = "ABSENT" /\ kind[d] = "other"
         \/ delivery'[d] = "PROCESSED" /\ event'[d] = "PENDING"
  BY <1>1, <1>2, <1>3 DEF InboxInv, InboxTypes
<1>6. \A e \in Deliveries : \A f \in 1..(e - 1) : f \in Deliveries
  BY DEF Deliveries
<1>7. RowsAgree'
  BY <1>1, <1>2, <1>3, <1>5, <1>6 DEF InboxInv, RowsAgree
<1>8. Quiet
  BY <1>1, <1>2, <1>3, <1>5 DEF Quiet, Failures
<1> QED BY <1>1, <1>3, <1>4, <1>5, <1>7, <1>8, QuietKeepsTheOrder DEF InboxInv, Advances

\* The event of a claim that is not blocked is reduced.
LEMMA TransitionKeeps ==
    ASSUME InboxInv, NEW p \in Processors, NEW collecting \in BOOLEAN, ~Blocked(claim[p].id, collecting), Transition(p)
    PROVE  InboxInv' /\ Advances /\ claim[p].id \in Deliveries /\ event[claim[p].id] # "COMPLETED"
             /\ event'[claim[p].id] = "COMPLETED"
<1> USE InboxAssumption
<1> DEFINE d == claim[p].id
<1>1. d \in Deliveries /\ delivery[d] = "PROCESSING" /\ event[d] = "ABSENT"
  BY DEF Transition, Fenced, Claims
<1>2. \A e \in 1..(d - 1) : ~Waiting(e) /\ ~(kind[e] = "reopened" /\ Open(e))
  BY DEF Blocked
<1>3. /\ kind' = kind /\ eventTries' = eventTries /\ applied' = Append(applied, d)
      /\ delivery' = [delivery EXCEPT ![d] = "PROCESSED"] /\ event' = [event EXCEPT ![d] = "COMPLETED"]
  BY DEF Transition, Settle
<1> HIDE DEF d
<1>4. InboxTypes'
  BY <1>1, <1>3 DEF InboxInv, InboxTypes, DeliveryStates, EventStates
<1>5. /\ \A e \in Deliveries \ {d} : delivery'[e] = delivery[e] /\ event'[e] = event[e]
      /\ delivery'[d] = "PROCESSED" /\ event'[d] = "COMPLETED"
  BY <1>1, <1>3 DEF InboxInv, InboxTypes
<1>6. \A e \in Deliveries : \A f \in 1..(e - 1) : f \in Deliveries
  BY DEF Deliveries
<1>7. RowsAgree'
  BY <1>1, <1>3, <1>5, <1>6 DEF InboxInv, RowsAgree
<1>8. Reduces(d)
  BY <1>1, <1>2, <1>3, <1>5 DEF Reduces, Failures
<1>9. InboxInv' /\ Advances
  BY <1>1, <1>4, <1>5, <1>7, <1>8, ReducesInOrder DEF InboxInv, Advances
<1> QED BY <1>1, <1>5, <1>9 DEF d

\* A pending event is reduced, or fails to be.
LEMMA DrainKeeps ==
    ASSUME InboxInv, NEW p \in Processors, NEW d \in Deliveries, NEW collecting \in BOOLEAN,
           Drainable(d, collecting), Drain(p, d)
    PROVE  InboxInv' /\ Advances /\ event[d] # "COMPLETED" /\ event'[d] = "COMPLETED"
<1> USE InboxAssumption
<1>1. /\ event[d] = "PENDING" /\ delivery[d] = "PROCESSED"
      /\ \A e \in 1..(d - 1) : ~Waiting(e) /\ ~(kind[e] = "reopened" /\ Open(e))
  BY DEF Drainable, Blocked, Waiting, InboxInv, RowsAgree
<1>2. /\ kind' = kind /\ delivery' = delivery /\ applied' = Append(applied, d)
      /\ eventTries' = [eventTries EXCEPT ![d] = eventTries[d] + 1] /\ event' = [event EXCEPT ![d] = "COMPLETED"]
  BY DEF Drain, deliveryRow
<1>3. InboxTypes'
  BY <1>1, <1>2 DEF InboxInv, InboxTypes, DeliveryStates, EventStates
<1>4. /\ \A e \in Deliveries \ {d} : eventTries'[e] = eventTries[e] /\ event'[e] = event[e]
      /\ event'[d] = "COMPLETED"
  BY <1>1, <1>2 DEF InboxInv, InboxTypes
<1>5. RowsAgree'
  BY <1>1, <1>2, <1>4 DEF InboxInv, RowsAgree
<1>6. Reduces(d)
  BY <1>1, <1>2, <1>4 DEF Reduces, Failures
<1> QED BY <1>1, <1>3, <1>4, <1>5, <1>6, ReducesInOrder DEF InboxInv, Advances

LEMMA DrainFailsKeeps ==
    ASSUME InboxInv, NEW p \in Processors, NEW d \in Deliveries, NEW collecting \in BOOLEAN, NEW deterministic \in BOOLEAN,
           Drainable(d, collecting), DrainFails(p, d, deterministic)
    PROVE  InboxInv' /\ Advances
<1> USE InboxAssumption
<1>1. event[d] = "PENDING" /\ delivery[d] = "PROCESSED" /\ eventTries[d] \in Nat
  BY DEF Drainable, Waiting, InboxInv, RowsAgree, InboxTypes
<1>2. PICK outcome \in {"FAILED", "PENDING"} :
          event' = [event EXCEPT ![d] = outcome] /\ (outcome = "PENDING" => eventTries[d] + 1 < MaxTries)
  <2> DEFINE outcome == IF deterministic \/ eventTries[d] + 1 >= MaxTries THEN "FAILED" ELSE "PENDING"
  <2>1. outcome \in {"FAILED", "PENDING"} /\ (outcome = "PENDING" => eventTries[d] + 1 < MaxTries)
    BY <1>1
  <2>2. event' = [event EXCEPT ![d] = outcome]
    BY DEF DrainFails
  <2> HIDE DEF outcome
  <2> QED BY <2>1, <2>2
<1>3. /\ kind' = kind /\ delivery' = delivery /\ applied' = applied
      /\ eventTries' = [eventTries EXCEPT ![d] = eventTries[d] + 1]
  BY DEF DrainFails, deliveryRow
<1>4. InboxTypes'
  BY <1>1, <1>2, <1>3 DEF InboxInv, InboxTypes, EventStates
<1>5. /\ \A e \in Deliveries \ {d} : eventTries'[e] = eventTries[e] /\ event'[e] = event[e]
      /\ event'[d] = outcome /\ eventTries'[d] = eventTries[d] + 1
  BY <1>2, <1>3 DEF InboxInv, InboxTypes
<1>6. RowsAgree'
  BY <1>1, <1>2, <1>3, <1>5 DEF InboxInv, RowsAgree
<1>7. Quiet
  BY <1>1, <1>3, <1>5 DEF Quiet, Failures
<1> QED BY <1>1, <1>4, <1>5, <1>6, <1>7, QuietKeepsTheOrder DEF InboxInv, Advances

-----------------------------------------------------------------------------
(* Steps of the issue and its participants.                                *)

\* The inbox goes on; the Workflow and its participants stay as they are.
LEMMA InboxAlone ==
    ASSUME CollectionInv, Advances, UNCHANGED Outside PROVE CollectionInv'
<1>1. UNCHANGED <<state, runtime, stage, token, reopen, prepare, participant, disk, generation, targets, authorized,
                  job, attempts, leased, collector>>
  BY DEF Outside, workflow, people, retention, jobRow
<1> QED BY <1>1 DEF CollectionInv, RetentionTypes, GenerationMinted, StaysAuthorized, ClosedRests, CollectingCloses,
        CollectionIsSafe, DeletionIsAuthorized, DeletedMeansAbsent, Advances, Kept, Tokens

\* An event is reduced.  A closure mints its generation with an event that was not reduced before, and a reopen
\* waits for a collection that was authorized.
LEMMA ReduceKeeps ==
    ASSUME InboxInv, CollectionInv, Advances, NEW d \in Deliveries, Reduce(d), event[d] # "COMPLETED", event'[d] = "COMPLETED"
    PROVE  CollectionInv'
<1>1. UNCHANGED <<participant, disk, collector, targets, attempts>>
  BY DEF Reduce, Trigger, Close, ReopenClosing, ReopenClosed, NoEffect, people, retention, jobRow
<1>2. /\ RetentionTypes /\ GenerationMinted /\ StaysAuthorized /\ ClosedRests /\ CollectingCloses
      /\ DeletionIsAuthorized /\ DeletedMeansAbsent
  BY DEF CollectionInv, CollectionIsSafe
<1>3. d \in Tokens /\ generation[d] = "ABSENT"
  BY <1>2 DEF GenerationMinted, Tokens, RetentionTypes
<1>4. CASE Trigger
  <2>1. state \notin {"CLOSED", "CLOSING"} /\ state' = "ACTIVE" /\ UNCHANGED <<token, generation>>
    BY <1>4 DEF Trigger, retention
  <2> QED BY <1>1, <1>2, <2>1 DEF CollectionInv, RetentionTypes, GenerationMinted, StaysAuthorized, ClosedRests,
          CollectingCloses, CollectionIsSafe, DeletionIsAuthorized, DeletedMeansAbsent, Advances, Kept, Tokens
<1>5. CASE Close(d)
  <2>1. state \notin {"CLOSED", "CLOSING"} /\ state' = "CLOSING" /\ token' = d /\ UNCHANGED generation
    BY <1>5 DEF Close, retention
  <2> QED BY <1>1, <1>2, <1>3, <2>1 DEF CollectionInv, RetentionTypes, GenerationMinted, StaysAuthorized, ClosedRests,
          CollectingCloses, CollectionIsSafe, DeletionIsAuthorized, DeletedMeansAbsent, Advances, Kept, Tokens
<1>6. CASE ReopenClosing \/ NoEffect(kind[d])
  <2>1. UNCHANGED <<state, token, generation>>
    BY <1>6 DEF ReopenClosing, NoEffect, workflow, retention
  <2> QED BY <1>1, <1>2, <2>1 DEF CollectionInv, RetentionTypes, GenerationMinted, StaysAuthorized, ClosedRests,
          CollectingCloses, CollectionIsSafe, DeletionIsAuthorized, DeletedMeansAbsent, Advances, Kept, Tokens
<1>7. CASE ReopenClosed
  <2>1. state = "CLOSED" /\ state' = "DORMANT" /\ token' = 0 /\ \A t \in Tokens : generation[t] # "COLLECTING"
    BY <1>7 DEF ReopenClosed, Collecting
  <2>2. \/ generation' = generation
        \/ generation[token] = "SCHEDULED" /\ token # 0 /\ generation' = [generation EXCEPT ![token] = "CANCELLED"]
    BY <1>7 DEF ReopenClosed, retention
  <2>3. /\ generation' \in [Tokens -> {"ABSENT", "SCHEDULED", "COLLECTING", "COLLECTED", "CANCELLED"}]
        /\ \A t \in Tokens : \/ generation'[t] = generation[t]
                             \/ generation[t] = "SCHEDULED" /\ generation'[t] = "CANCELLED"
    BY <1>2, <2>2 DEF RetentionTypes
  <2> QED BY <1>1, <1>2, <2>1, <2>3 DEF CollectionInv, RetentionTypes, GenerationMinted, StaysAuthorized, ClosedRests,
          CollectingCloses, CollectionIsSafe, DeletionIsAuthorized, DeletedMeansAbsent, Advances, Kept, Tokens
<1> QED BY <1>4, <1>5, <1>6, <1>7 DEF Reduce

\* A turn is prepared with a participant that is not deleted; a new one gets its runtime state.
LEMMA PrepareTurnKeeps == ASSUME CollectionInv, PrepareTurn PROVE CollectionInv'
<1>1. UNCHANGED <<event, state, token, generation, targets, attempts, collector>> /\ state = "ACTIVE"
  BY DEF PrepareTurn, workflow, retention, jobRow, inbox, eventRow
<1> DEFINE a == Assignee
<1>2. /\ participant[a] \in {"ABSENT", "ACTIVE", "COMPLETED", "WAITING"}
      /\ participant' = [p \in Participants |-> IF p \in {a} THEN "ACTIVE" ELSE participant[p]]
      /\ disk' = IF participant[a] = "ABSENT" THEN disk \cup {a} ELSE disk
  BY DEF PrepareTurn, Assignable, Mark
<1> HIDE DEF a
<1>3. /\ RetentionTypes /\ GenerationMinted /\ StaysAuthorized /\ ClosedRests /\ CollectingCloses
      /\ DeletionIsAuthorized /\ DeletedMeansAbsent
  BY DEF CollectionInv, CollectionIsSafe
<1>4. /\ participant' \in [Participants -> {"ABSENT", "ACTIVE", "WAITING", "COMPLETED", "DELETED"}]
      /\ \A p \in Participants \ {a} : participant'[p] = participant[p]
      /\ a \in Participants => participant'[a] = "ACTIVE"
  BY <1>2, <1>3 DEF RetentionTypes
<1>5. /\ \A p \in Participants \ {a} : p \in disk' <=> p \in disk
      /\ a \in disk => a \in disk'
      /\ participant[a] = "ABSENT" => a \in disk'
  BY <1>2
<1>6. RetentionTypes' /\ GenerationMinted' /\ StaysAuthorized' /\ ClosedRests'
  BY <1>1, <1>3, <1>4 DEF RetentionTypes, GenerationMinted, StaysAuthorized, ClosedRests
<1>7. CollectingCloses'
  BY <1>1, <1>2, <1>3, <1>4 DEF RetentionTypes, CollectingCloses
<1>8. DeletionIsAuthorized' /\ DeletedMeansAbsent'
  BY <1>1, <1>2, <1>3, <1>4, <1>5 DEF DeletionIsAuthorized, DeletedMeansAbsent
<1> QED BY <1>6, <1>7, <1>8 DEF CollectionInv, CollectionIsSafe

\* A turn settles.
LEMMA TurnSettlesKeeps == ASSUME CollectionInv, TurnSettles PROVE CollectionInv'
<1>1. /\ UNCHANGED <<event, token, participant, disk, generation, targets, attempts, collector>>
      /\ state = "ACTIVE" /\ state' \in {"ACTIVE", "READY"}
  BY DEF TurnSettles, retention, jobRow, inbox, eventRow
<1> QED BY <1>1 DEF CollectionInv, RetentionTypes, GenerationMinted, StaysAuthorized, ClosedRests,
          CollectingCloses, CollectionIsSafe, DeletionIsAuthorized, DeletedMeansAbsent, Kept

\* Marking participants that are there.
LEMMA Marked ==
    ASSUME RetentionTypes, NEW ps \in SUBSET Participants,
           NEW status \in {"ACTIVE", "WAITING", "COMPLETED", "DELETED"}, Mark(ps, status)
    PROVE  /\ participant' \in [Participants -> {"ABSENT", "ACTIVE", "WAITING", "COMPLETED", "DELETED"}]
           /\ \A p \in ps : participant'[p] = status
           /\ \A p \in Participants \ ps : participant'[p] = participant[p]
BY DEF RetentionTypes, Mark

\* A Human Handoff lets everybody wait.
LEMMA HandOffKeeps == ASSUME CollectionInv, HandOff PROVE CollectionInv'
<1>1. /\ UNCHANGED <<event, token, disk, generation, targets, attempts, collector>>
      /\ state = "ACTIVE" /\ state' = "NEEDS_HUMAN" /\ Mark(Kept, "WAITING")
  BY DEF HandOff, retention, jobRow, inbox, eventRow
<1>2. /\ RetentionTypes /\ GenerationMinted /\ StaysAuthorized /\ ClosedRests /\ CollectingCloses
      /\ DeletionIsAuthorized /\ DeletedMeansAbsent
  BY DEF CollectionInv, CollectionIsSafe
<1>3. /\ participant' \in [Participants -> {"ABSENT", "ACTIVE", "WAITING", "COMPLETED", "DELETED"}]
      /\ \A p \in Participants : IF participant[p] \in {"ABSENT", "DELETED"} THEN participant'[p] = participant[p]
                                                                          ELSE participant'[p] = "WAITING"
  BY <1>1, <1>2, Marked, Kept \in SUBSET Participants DEF Kept
<1>4. RetentionTypes' /\ GenerationMinted' /\ StaysAuthorized' /\ ClosedRests'
  BY <1>1, <1>2, <1>3 DEF RetentionTypes, GenerationMinted, StaysAuthorized, ClosedRests
<1>5. CollectingCloses'
  BY <1>1, <1>2, <1>3 DEF RetentionTypes, CollectingCloses
<1>6. DeletionIsAuthorized' /\ DeletedMeansAbsent'
  BY <1>1, <1>2, <1>3 DEF DeletionIsAuthorized, DeletedMeansAbsent
<1> QED BY <1>4, <1>5, <1>6 DEF CollectionInv, CollectionIsSafe

\* A closure settles: its participants rest, and are the targets of the generation it schedules.
LEMMA CompleteClosureKeeps == ASSUME CollectionInv, CompleteClosure PROVE CollectionInv'
<1>1. /\ UNCHANGED <<event, disk, attempts, collector>>
      /\ state = "CLOSING" /\ Mark(Kept, "COMPLETED")
      /\ \/ state' \in {"CLOSED", "DORMANT"} /\ token' = 0 /\ UNCHANGED <<generation, targets>>
         \/ /\ state' = "CLOSED" /\ token' = token
            /\ generation' = [generation EXCEPT ![token] = "SCHEDULED"]
            /\ targets' = [targets EXCEPT ![token] = Kept]
  BY DEF CompleteClosure, retention, jobRow, inbox, eventRow
<1>2. /\ RetentionTypes /\ GenerationMinted /\ StaysAuthorized /\ ClosedRests /\ CollectingCloses
      /\ DeletionIsAuthorized /\ DeletedMeansAbsent
  BY DEF CollectionInv, CollectionIsSafe
<1>3. token \in Tokens /\ event[token] = "COMPLETED" /\ generation[token] = "ABSENT"
  BY <1>1, <1>2 DEF GenerationMinted
<1>4. /\ participant' \in [Participants -> {"ABSENT", "ACTIVE", "WAITING", "COMPLETED", "DELETED"}]
      /\ \A p \in Participants : IF participant[p] \in {"ABSENT", "DELETED"} THEN participant'[p] = participant[p]
                                                                          ELSE participant'[p] = "COMPLETED"
  BY <1>1, <1>2, Marked, Kept \in SUBSET Participants DEF Kept
<1>5. /\ generation' \in [Tokens -> {"ABSENT", "SCHEDULED", "COLLECTING", "COLLECTED", "CANCELLED"}]
      /\ targets' \in [Tokens -> SUBSET Participants]
      /\ token' \in Tokens \cup {0}
      /\ \A t \in Tokens : \/ generation'[t] = generation[t] /\ targets'[t] = targets[t]
                           \/ t = token /\ generation'[t] = "SCHEDULED"
  BY <1>1, <1>2, <1>3, Kept \in SUBSET Participants DEF RetentionTypes, Kept
<1>6. RetentionTypes' /\ ClosedRests'
  BY <1>1, <1>2, <1>4, <1>5 DEF RetentionTypes, ClosedRests, Kept
<1>7. GenerationMinted' /\ StaysAuthorized'
  BY <1>1, <1>2, <1>3, <1>5 DEF GenerationMinted, StaysAuthorized
<1>8. CollectingCloses'
  <2>1. \A t \in Tokens : generation[t] # "COLLECTING"
    BY <1>1, <1>2 DEF CollectingCloses
  <2> QED BY <1>2, <1>3, <1>4, <1>5, <2>1 DEF RetentionTypes, CollectingCloses
<1>9. DeletionIsAuthorized' /\ DeletedMeansAbsent'
  BY <1>1, <1>2, <1>4 DEF DeletionIsAuthorized, DeletedMeansAbsent
<1> QED BY <1>6, <1>7, <1>8, <1>9 DEF CollectionInv, CollectionIsSafe

-----------------------------------------------------------------------------
(* Steps of the collection.                                                *)

\* Leases come and go, and a worker gives up: what was authorized does not change.
LEMMA LeaseStepsKeep ==
    ASSUME CollectionInv, \/ \E t \in Tokens : ExpireLease(t) \/ ReclaimCollection(t)
                          \/ \E c \in Collectors : CollectionFails(c) \/ Abandon(c)
    PROVE  CollectionInv'
<1>1. /\ UNCHANGED <<event, state, token, participant, disk, generation, targets, attempts>>
      /\ collector' = collector \/ \E c \in Collectors : collector' = [collector EXCEPT ![c] = Idle]
  BY DEF ExpireLease, ReclaimCollection, CollectionFails, Abandon, Be, workflow, people, retention, jobRow, inbox, eventRow
<1>2. collector \in [Collectors -> Works] /\ Idle \in Works /\ Idle.at = "idle"
  BY DEF CollectionInv, RetentionTypes, Works, Idle
<1>3. /\ collector' \in [Collectors -> Works]
      /\ \A c \in Collectors : collector'[c] = collector[c] \/ collector'[c].at = "idle"
  BY <1>1, <1>2
<1>4. StaysAuthorized'
  BY <1>1, <1>3 DEF CollectionInv, StaysAuthorized
<1> QED BY <1>1, <1>3, <1>4 DEF CollectionInv, RetentionTypes, GenerationMinted, ClosedRests,
          CollectingCloses, CollectionIsSafe, DeletionIsAuthorized, DeletedMeansAbsent, Kept

LEMMA ClaimCollectionKeeps ==
    ASSUME CollectionInv, NEW c \in Collectors, NEW t \in Tokens, ClaimCollection(c, t) PROVE CollectionInv'
<1> DEFINE work == [token |-> t, attempt |-> attempts[t] + 1, at |-> "claimed"]
<1>1. /\ UNCHANGED <<event, state, token, participant, disk, generation, targets>>
      /\ attempts' = [attempts EXCEPT ![t] = attempts[t] + 1]
      /\ collector' = [collector EXCEPT ![c] = work]
  BY DEF ClaimCollection, Be, workflow, people, retention, inbox, eventRow
<1>2. collector \in [Collectors -> Works] /\ attempts \in [Tokens -> Nat]
  BY DEF CollectionInv, RetentionTypes
<1>3. work \in Works /\ work.token = t /\ work.at = "claimed"
  BY <1>2 DEF Works
<1> HIDE DEF work
<1>4. /\ collector' \in [Collectors -> Works] /\ attempts' \in [Tokens -> Nat]
      /\ collector'[c] = work /\ \A w \in Collectors \ {c} : collector'[w] = collector[w]
  BY <1>1, <1>2, <1>3
<1>5. StaysAuthorized'
  BY <1>1, <1>3, <1>4 DEF CollectionInv, StaysAuthorized
<1> QED BY <1>1, <1>4, <1>5 DEF CollectionInv, RetentionTypes, GenerationMinted, ClosedRests,
          CollectingCloses, CollectionIsSafe, DeletionIsAuthorized, DeletedMeansAbsent, Kept

\* A collection is authorized on a closed issue, with the participants that rest as its targets.
LEMMA AuthorizeKeeps == ASSUME CollectionInv, NEW c \in Collectors, Authorize(c) PROVE CollectionInv'
<1> DEFINE t == collector[c].token
           work == [collector[c] EXCEPT !.at = "authorized"]
<1>1. /\ RetentionTypes /\ GenerationMinted /\ StaysAuthorized /\ ClosedRests /\ CollectingCloses
      /\ DeletionIsAuthorized /\ DeletedMeansAbsent
  BY DEF CollectionInv, CollectionIsSafe
<1>2. /\ UNCHANGED <<event, state, token, participant, disk, targets, attempts>>
      /\ generation' = [generation EXCEPT ![t] = "COLLECTING"]
      /\ collector' = [collector EXCEPT ![c] = work]
      /\ collector[c].at = "claimed"
      /\ \/ generation[t] = "SCHEDULED" /\ state = "CLOSED" /\ token = t /\ targets[t] = Kept
         \/ generation[t] = "COLLECTING"
  BY DEF Authorize, Be, workflow, people, jobRow, inbox, eventRow
<1>3. t \in Tokens /\ collector[c] \in Works
  BY <1>1, <1>2 DEF StaysAuthorized, RetentionTypes
<1>4. work \in Works /\ work.token = t /\ work.at = "authorized"
  BY <1>3 DEF Works
<1> HIDE DEF t, work
<1>5. /\ collector' \in [Collectors -> Works]
      /\ collector'[c] = work /\ \A w \in Collectors \ {c} : collector'[w] = collector[w]
      /\ generation' \in [Tokens -> {"ABSENT", "SCHEDULED", "COLLECTING", "COLLECTED", "CANCELLED"}]
      /\ generation'[t] = "COLLECTING" /\ \A u \in Tokens \ {t} : generation'[u] = generation[u]
  BY <1>1, <1>2, <1>3, <1>4 DEF RetentionTypes
<1>6. state = "CLOSED" /\ token = t /\ \A p \in targets[t] : participant[p] = "COMPLETED"
  BY <1>1, <1>2, <1>3 DEF ClosedRests, CollectingCloses
<1>7. RetentionTypes' /\ GenerationMinted' /\ ClosedRests'
  BY <1>1, <1>2, <1>3, <1>5 DEF RetentionTypes, GenerationMinted, ClosedRests, Kept
<1>8. StaysAuthorized'
  BY <1>1, <1>3, <1>4, <1>5 DEF StaysAuthorized
<1>9. CollectingCloses'
  BY <1>1, <1>2, <1>5, <1>6 DEF CollectingCloses
<1>10. DeletionIsAuthorized' /\ DeletedMeansAbsent'
  BY <1>1, <1>2, <1>3, <1>5 DEF DeletionIsAuthorized, DeletedMeansAbsent
<1> QED BY <1>7, <1>8, <1>9, <1>10 DEF CollectionInv, CollectionIsSafe

\* A worker removes a target.  It may have lost its lease long ago: its generation still condemns the target.
LEMMA RemoveKeeps == ASSUME CollectionInv, NEW c \in Collectors, Remove(c) PROVE CollectionInv'
<1> DEFINE t == collector[c].token
<1>1. UNCHANGED <<event, state, token, participant, generation, targets, attempts, collector>>
  BY DEF Remove, workflow, people, retention, jobRow, inbox, eventRow
<1>2. PICK p \in targets[t] : disk' = disk \ {p}
  BY DEF Remove
<1>3. /\ RetentionTypes /\ GenerationMinted /\ StaysAuthorized /\ ClosedRests /\ CollectingCloses
      /\ DeletionIsAuthorized /\ DeletedMeansAbsent
  BY DEF CollectionInv, CollectionIsSafe
<1>4. t \in Tokens /\ generation[t] \in {"COLLECTING", "COLLECTED"}
  BY <1>3 DEF Remove, StaysAuthorized
<1> HIDE DEF t
<1>5. participant[p] = "DELETED" \/ (participant[p] = "COMPLETED" /\ state = "CLOSED" /\ generation[t] = "COLLECTING")
  BY <1>2, <1>3, <1>4 DEF CollectingCloses
<1>6. DeletionIsAuthorized' /\ DeletedMeansAbsent'
  BY <1>1, <1>2, <1>3, <1>4, <1>5 DEF DeletionIsAuthorized, DeletedMeansAbsent
<1> QED BY <1>1, <1>3, <1>6 DEF CollectionInv, CollectionIsSafe, RetentionTypes, GenerationMinted, StaysAuthorized,
        ClosedRests, CollectingCloses, Kept

\* A collection is finished, once its targets are gone.
LEMMA FinalizeKeeps == ASSUME CollectionInv, NEW c \in Collectors, Finalize(c) PROVE CollectionInv'
<1> DEFINE t == collector[c].token
<1>1. /\ RetentionTypes /\ GenerationMinted /\ StaysAuthorized /\ ClosedRests /\ CollectingCloses
      /\ DeletionIsAuthorized /\ DeletedMeansAbsent
  BY DEF CollectionInv, CollectionIsSafe
<1>2. /\ UNCHANGED <<event, state, disk, targets, attempts>>
      /\ targets[t] \cap disk = {} /\ generation[t] = "COLLECTING" /\ collector[c].at = "authorized"
      /\ generation' = [generation EXCEPT ![t] = "COLLECTED"]
      /\ Mark(targets[t], "DELETED") /\ token' = 0
      /\ collector' = [collector EXCEPT ![c] = Idle]
  BY DEF Finalize, Be, inbox, eventRow
<1>3. t \in Tokens /\ targets[t] \in SUBSET Participants /\ Idle \in Works /\ Idle.at = "idle"
  BY <1>1, <1>2 DEF StaysAuthorized, RetentionTypes, Works, Idle
<1> HIDE DEF t
<1>4. /\ participant' \in [Participants -> {"ABSENT", "ACTIVE", "WAITING", "COMPLETED", "DELETED"}]
      /\ \A p \in targets[t] : participant'[p] = "DELETED"
      /\ \A p \in Participants \ targets[t] : participant'[p] = participant[p]
  BY <1>1, <1>2, <1>3, Marked
<1>5. /\ collector' \in [Collectors -> Works]
      /\ \A w \in Collectors : collector'[w] = collector[w] \/ collector'[w].at = "idle"
      /\ generation' \in [Tokens -> {"ABSENT", "SCHEDULED", "COLLECTING", "COLLECTED", "CANCELLED"}]
      /\ generation'[t] = "COLLECTED" /\ \A u \in Tokens \ {t} : generation'[u] = generation[u]
  BY <1>1, <1>2, <1>3 DEF RetentionTypes
<1>6. state = "CLOSED" /\ \A u \in Tokens : generation[u] = "COLLECTING" => u = t
  BY <1>1, <1>2, <1>3 DEF CollectingCloses
<1>7. RetentionTypes' /\ GenerationMinted' /\ ClosedRests'
  BY <1>1, <1>2, <1>3, <1>4, <1>5, <1>6 DEF RetentionTypes, GenerationMinted, ClosedRests, Kept
<1>8. StaysAuthorized'
  BY <1>1, <1>2, <1>3, <1>5 DEF StaysAuthorized
<1>9. CollectingCloses'
  BY <1>1, <1>2, <1>3, <1>4, <1>5, <1>6 DEF CollectingCloses, RetentionTypes
<1>10. DeletionIsAuthorized' /\ DeletedMeansAbsent'
  BY <1>1, <1>2, <1>3, <1>4, <1>5, <1>6 DEF DeletionIsAuthorized, DeletedMeansAbsent
<1> QED BY <1>7, <1>8, <1>9, <1>10 DEF CollectionInv, CollectionIsSafe

-----------------------------------------------------------------------------
(* The theorems.                                                           *)

\* Every step preserves the invariant.
LEMMA NextKeeps == ASSUME Inv, Next PROVE Inv'
<1>1. InboxInv /\ CollectionInv
  BY DEF Inv
<1>2. Collecting \in BOOLEAN
  BY DEF Collecting
<1>3. CASE \E d \in Deliveries : \E k \in Kinds : Receive(d, k) /\ UNCHANGED Outside
  BY <1>1, <1>3, ReceiveKeeps, InboxAlone DEF Inv
<1>4. CASE \E d \in Deliveries : ExpireClaim(d) /\ UNCHANGED Outside
  <2>1. UNCHANGED <<kind, eventRow, delivery>>
    BY <1>4 DEF ExpireClaim
  <2>2. InboxInv' /\ Advances
    BY <1>1, <2>1, ClaimsKeep DEF InboxInv, InboxTypes
  <2> QED BY <1>1, <1>4, <2>2, InboxAlone DEF Inv
<1>5. ASSUME NEW p \in Processors, Process(p) PROVE Inv'
  <2>1. CASE ~Blocked(claim[p].id, Collecting) /\ Transition(p) /\ Reduce(claim[p].id)
    BY <1>1, <1>2, <2>1, TransitionKeeps, ReduceKeeps DEF Inv
  <2>2. CASE \E d \in Deliveries : Drainable(d, Collecting) /\ Drain(p, d) /\ Reduce(d)
    BY <1>1, <1>2, <2>2, DrainKeeps, ReduceKeeps DEF Inv
  <2>3. CASE (FindNothing(p, Collecting) \/ (\E d \in Deliveries : ClaimDelivery(p, d)) \/ ClaimNothing(p)) /\ UNCHANGED Outside
    BY <1>1, <1>2, <2>3, ClaimStepsKeep, InboxAlone DEF Inv
  <2>4. CASE (Ignore(p) \/ LeavePending(p)) /\ UNCHANGED Outside
    BY <1>1, <2>4, SettlesKeep, InboxAlone DEF Inv
  <2> QED BY <1>5, <2>1, <2>2, <2>3, <2>4 DEF Process
<1>6. ASSUME NEW p \in Processors, Disturb(p) PROVE Inv'
  <2>1. CASE (Drop(p) \/ \E retryable \in BOOLEAN : Fail(p, retryable)) /\ UNCHANGED Outside
    BY <1>1, <2>1, ClaimStepsKeep, InboxAlone DEF Inv
  <2>2. CASE /\ \E d \in Deliveries, deterministic \in BOOLEAN : Drainable(d, Collecting) /\ DrainFails(p, d, deterministic)
             /\ UNCHANGED Outside
    BY <1>1, <1>2, <2>2, DrainFailsKeeps, InboxAlone DEF Inv
  <2> QED BY <1>6, <2>1, <2>2 DEF Disturb
<1>7. ASSUME UNCHANGED inbox PROVE InboxInv'
  BY <1>1, <1>7 DEF inbox, deliveryRow, eventRow, InboxInv, InboxTypes, RowsAgree, ReducedOnce, InOrder, Overtaken
<1>8. CASE PrepareTurn \/ TurnSettles \/ HandOff \/ CompleteClosure
  <2>1. UNCHANGED inbox
    BY <1>8 DEF PrepareTurn, TurnSettles, HandOff, CompleteClosure
  <2> QED BY <1>1, <1>7, <1>8, <2>1, PrepareTurnKeeps, TurnSettlesKeeps, HandOffKeeps, CompleteClosureKeeps DEF Inv
<1>9. CASE \/ \E t \in Tokens : ExpireLease(t) \/ ReclaimCollection(t)
           \/ \E c \in Collectors : CollectionFails(c) \/ Abandon(c)
  <2>1. UNCHANGED inbox
    BY <1>9 DEF ExpireLease, ReclaimCollection, CollectionFails, Abandon
  <2> QED BY <1>1, <1>7, <1>9, <2>1, LeaseStepsKeep DEF Inv
<1>10. ASSUME NEW c \in Collectors, Worker(c) PROVE Inv'
  <2>1. UNCHANGED inbox
    BY <1>10 DEF Worker, ClaimCollection, Authorize, Remove, Finalize
  <2>2. CollectionInv'
    BY <1>1, <1>10, ClaimCollectionKeeps, AuthorizeKeeps, RemoveKeeps, FinalizeKeeps DEF Worker
  <2> QED BY <1>7, <2>1, <2>2 DEF Inv
<1> QED BY <1>3, <1>4, <1>5, <1>6, <1>8, <1>9, <1>10 DEF Next

\* The invariant holds in every state, for every number of deliveries, processors, collectors and attempts
\* (CompleteWebhookTransition, AuthorizeAssignmentCollection, FinalizeAssignmentCollection).
THEOREM Invariance == Spec => []Inv
<1>1. Init => Inv
  BY Initially
<1>2. Inv /\ [Next]_vars => Inv'
  <2> SUFFICES ASSUME Inv, [Next]_vars PROVE Inv'
    OBVIOUS
  <2>1. CASE Next
    BY <2>1, NextKeeps
  <2>2. CASE UNCHANGED vars
    <3>1. InboxInv'
      BY <2>2 DEF Inv, vars, inbox, deliveryRow, eventRow, InboxInv, InboxTypes, RowsAgree, ReducedOnce, InOrder, Overtaken
    <3>2. UNCHANGED Outside /\ Advances
      BY <2>2 DEF vars, Outside, inbox, eventRow, Advances
    <3> QED BY <3>1, <3>2, InboxAlone DEF Inv
  <2> QED BY <2>1, <2>2
<1> QED BY <1>1, <1>2, PTL DEF Spec

\* Runtime state disappears only by a collection that was authorized and cannot be taken back, and what counts as
\* deleted is gone, whichever of the workers removed it (AuthorizeAssignmentCollection,
\* FinalizeAssignmentCollection, cancelAssignmentRetentionTx).
THEOREM CollectionsAreSafe == Spec => []CollectionIsSafe
<1>1. Inv => CollectionIsSafe
  BY DEF Inv, CollectionInv
<1> QED BY <1>1, Invariance, PTL

\* An event that was reduced is found where it stands.
LEMMA PositionFound ==
    ASSUME ReducedOnce, NEW n \in 1..Len(applied) PROVE Position(applied[n]) = n
BY DEF ReducedOnce, Position

\* No event overtakes a reopen of its issue that was received before it (claimWebhookDelivery,
\* workflowTransitionBlockedTx, ApplyNextPendingNormalizedEvent).
THEOREM ReopensHoldTheLine == Spec => []ReopenHoldsTheLine
<1>1. Inv => ReopenHoldsTheLine
  <2> SUFFICES ASSUME Inv, NEW d \in Reduced, NEW e \in Deliveries, e < d, kind[e] = "reopened",
                      delivery[e] # "FAILED", event[e] # "FAILED"
               PROVE  e \in Reduced /\ Position(e) < Position(d)
    BY DEF ReopenHoldsTheLine
  <2>1. PICK n \in 1..Len(applied) : applied[n] = d
    BY DEF Reduced
  <2>2. PICK m \in 1..Len(applied) : m < n /\ applied[m] = e
    BY <2>1 DEF Inv, InboxInv, InOrder, Overtaken
  <2> QED BY <2>1, <2>2, PositionFound DEF Inv, InboxInv, Reduced
<1> QED BY <1>1, Invariance, PTL

-----------------------------------------------------------------------------
(* What GitHub shows of a Workflow, for every number of workers of labels, *)
(* revisions, presentations and attempts.  The labels lag behind the       *)
(* Workflow, and a worker writes what it has read, so that the two may     *)
(* differ at any time; what has to be shown is that there is a job, or a   *)
(* worker that will notice, whenever they do.                              *)

effectsVars == <<shown, labels, labelJobs, labeller, gaveUp, handoffs, comments, publisher>>
EffectsSpec == EffectsInit /\ [][LabelsNext \/ HandoffsNext]_effectsVars

Attempts  == 1 .. EffectAttempts
Todos     == {Targets, <<"pull_request">>, << >>}
Labellers == [at : {"idle", "read", "clear", "check", "set", "present", "done", "fail"}, attempt : Nat,
              state : Shown, revision : Nat, presentation : Nat, todo : Todos]
LabelTypes ==
    /\ shown \in [state : Shown, revision : Nat, presentation : Nat, verifying : BOOLEAN, moved : BOOLEAN]
    /\ labels \in [TargetSet -> [names : SUBSET Shown, presentation : Nat]]
    /\ labelJobs \in [Attempts -> Nat]
    /\ labeller \in [LabelWorkers -> Labellers]
    /\ gaveUp \in BOOLEAN

\* One worker writes labels at a time, and its job is counted by its attempts.
OneLabeller ==
    /\ \A v, w \in LabelWorkers : Labelled(v) /\ Labelled(w) => v = w
    /\ \A w \in LabelWorkers : Labelled(w) => labeller[w].attempt \in Attempts

\* What a worker has read is a state of the Workflow, now or before.
Older(w) == labeller[w].revision < shown.revision \/ labeller[w].presentation < shown.presentation
ReadsThePast ==
    \A w \in LabelWorkers : labeller[w].at \notin {"idle", "read"} =>
        /\ labeller[w].revision <= shown.revision /\ labeller[w].presentation <= shown.presentation
        /\ labeller[w].revision = shown.revision => labeller[w].state = shown.state

\* How far a worker is: what it has written stays written while it works.
Shows(t, s) == labels[t].names = Wanted(s)
Progresses(w) ==
    /\ labeller[w].at = "clear" => labeller[w].todo # << >>
    /\ labeller[w].at = "set" =>
          /\ labeller[w].todo # << >>
          /\ labeller[w].todo = <<"pull_request">> => Shows("issue", labeller[w].state)
    /\ labeller[w].at = "present" => \A t \in TargetSet : Shows(t, labeller[w].state)

Outstanding == (\E a \in Attempts : labelJobs[a] # 0) \/ gaveUp \/ shown.verifying
Told == \A t \in TargetSet : Shows(t, shown.state) /\ labels[t].presentation = shown.presentation

\* A worker that has done all it has to has shown the state, unless somebody else still has to or it will notice.
DoneIsTold ==
    \A w \in LabelWorkers : labeller[w].at = "done" => Told \/ Older(w) \/ Outstanding
RestIsTold == (\A w \in LabelWorkers : ~Labelled(w)) => Told \/ Outstanding

LabelsInv ==
    /\ LabelTypes /\ OneLabeller /\ ReadsThePast
    /\ \A w \in LabelWorkers : Progresses(w)
    /\ DoneIsTold /\ RestIsTold

\* The handoffs: a row is there for a revision the Workflow has had, the job the worker holds is its own, and what it
\* has published or removed is there or gone when it says so.
Handoffs   == [status : {"none", "available", "leased", "done", "failed"}, attempts : Nat,
               cleanup : {"none", "pending", "done", "exhausted"}]
Publishers == [at : {"idle", "read", "publish", "done", "fail", "clean"}, job : Nat, revision : Nat, state : Shown,
               todo : Todos]
HandoffTypes ==
    /\ shown \in [state : Shown, revision : Nat, presentation : Nat, verifying : BOOLEAN, moved : BOOLEAN]
    /\ handoffs \in [1..MaxShown -> Handoffs]
    /\ comments \in [1..MaxShown -> SUBSET TargetSet]
    /\ publisher \in Publishers

Publishing ==
    publisher.at # "idle" =>
        /\ publisher.job \in 1..MaxShown /\ handoffs[publisher.job].status = "leased"
        /\ publisher.at = "publish" =>
              /\ publisher.todo # << >>
              /\ publisher.todo = <<"pull_request">> => "issue" \in comments[publisher.job]
        /\ publisher.at = "done" => comments[publisher.job] = TargetSet

HandoffRows ==
    \A r \in 1..MaxShown :
        /\ r > shown.revision => handoffs[r].status = "none" /\ handoffs[r].cleanup = "none"
        /\ handoffs[r].cleanup = "done" => handoffs[r].status = "done"

HandoffsInv == HandoffTypes /\ Publishing /\ HandoffRows /\ HandoffsAreToldOrTakenBack

\* The list of the targets, as the workers go through it.
LEMMA TargetLists ==
    /\ Targets # << >> /\ <<"pull_request">> # << >> /\ Targets # <<"pull_request">>
    /\ Head(Targets) = "issue" /\ Tail(Targets) = <<"pull_request">> /\ Len(Targets) = 2
    /\ Head(<<"pull_request">>) = "pull_request" /\ Tail(<<"pull_request">>) = << >> /\ Len(<<"pull_request">>) = 1
BY DEF Targets

\* The initial state: nothing is shown of a Workflow that is not there yet.
LEMMA LabelsInitially == ASSUME EffectsInit PROVE LabelsInv
<1> USE EffectBounds DEF EffectsInit, Resting, Attempts, Shown, Todos, TargetSet
<1>1. LabelTypes
  BY DEF LabelTypes, Labellers
<1>2. Told
  BY DEF Told, Shows, Wanted
<1> QED BY <1>1, <1>2 DEF LabelsInv, LabelTypes, Labellers, OneLabeller, ReadsThePast, Older, Progresses, Shows, DoneIsTold, RestIsTold, Outstanding, Told, Labelled

\* A job that is queued is outstanding, and so is one that is tried again or has failed for good.
LEMMA EnqueuedIsOutstanding ==
    ASSUME LabelTypes PROVE Enqueued(labelJobs) \in [Attempts -> Nat] /\ Enqueued(labelJobs)[1] # 0 /\ 1 \in Attempts
BY EffectBounds DEF LabelTypes, Enqueued, Attempts

LEMMA RetriedIsOutstanding ==
    ASSUME LabelTypes, NEW a \in Attempts
    PROVE  /\ Retried(a, labelJobs) \in [Attempts -> Nat]
           /\ a # EffectAttempts => \E b \in Attempts : Retried(a, labelJobs)[b] # 0
<1>1. CASE a < EffectAttempts
  <2>1. a + 1 \in Attempts
    BY <1>1, EffectBounds DEF Attempts
  <2>2. Retried(a, labelJobs) = [labelJobs EXCEPT ![a + 1] = @ + 1]
    BY <1>1 DEF Retried
  <2> QED BY <2>1, <2>2 DEF LabelTypes
<1>2. CASE ~(a < EffectAttempts)
  BY <1>2, EffectBounds DEF Retried, Attempts, LabelTypes
<1> QED BY <1>1, <1>2

\* A step of the worker that has the job leaves the others as they are, at rest.
LEMMA WorkerMoves ==
    ASSUME LabelsInv, NEW w \in LabelWorkers, Labelled(w), NEW x \in Labellers, labeller' = [labeller EXCEPT ![w] = x]
    PROVE  /\ labeller' \in [LabelWorkers -> Labellers]
           /\ labeller'[w] = x
           /\ \A v \in LabelWorkers : v # w => labeller'[v] = labeller[v] /\ labeller'[v].at = "idle"
BY DEF LabelsInv, LabelTypes, OneLabeller, Labelled

\* A call for the next target: the label is there, or the worker gives up (ReconcileState).
LEMMA Reconciles ==
    ASSUME LabelsInv, NEW w \in LabelWorkers, Labelled(w), labeller[w].todo # << >>, NEW wanted \in SUBSET Shown,
           NEW next \in {"check", "present"}, ReconcileState(w, wanted, next)
    PROVE  \E x \in Labellers :
             /\ labeller' = [labeller EXCEPT ![w] = x] /\ labels' \in [TargetSet -> [names : SUBSET Shown, presentation : Nat]]
             /\ x.attempt = labeller[w].attempt /\ x.state = labeller[w].state
             /\ x.revision = labeller[w].revision /\ x.presentation = labeller[w].presentation
             /\ \/ x.at = "fail"
                \/ /\ x.at = labeller[w].at /\ x.todo = <<"pull_request">> /\ labels'["issue"].names = wanted
                \/ /\ x.at = next /\ labeller[w].todo = <<"pull_request">>
                   /\ labels'["pull_request"].names = wanted /\ labels'["issue"].names = labels["issue"].names
<1> DEFINE t == Head(labeller[w].todo)
<1>1. labeller[w] \in Labellers /\ labels \in [TargetSet -> [names : SUBSET Shown, presentation : Nat]]
  BY DEF LabelsInv, LabelTypes
<1>2. labeller[w].todo = Targets \/ labeller[w].todo = <<"pull_request">>
  BY <1>1 DEF Labellers, Todos
<1>3. CASE /\ labels' = [labels EXCEPT ![t].names = wanted]
           /\ labeller' = [labeller EXCEPT ![w].todo = Tail(@), ![w].at = IF Len(labeller[w].todo) = 1 THEN next ELSE @]
  <2> DEFINE x == [labeller[w] EXCEPT !.todo = Tail(@), !.at = IF Len(labeller[w].todo) = 1 THEN next ELSE @]
  <2>1. CASE labeller[w].todo = Targets
    <3>a. Tail(labeller[w].todo) = <<"pull_request">> /\ Len(labeller[w].todo) # 1
      BY <2>1, TargetLists
    <3>b. x = [labeller[w] EXCEPT !.todo = <<"pull_request">>]
      BY <1>1, <3>a DEF Labellers
    <3>1. x \in Labellers /\ x.at = labeller[w].at /\ x.todo = <<"pull_request">>
      BY <1>1, <3>b DEF Labellers, Todos
    <3>2. labeller' = [labeller EXCEPT ![w] = x]
      BY <1>3 DEF LabelsInv, LabelTypes
    <3>3. t = "issue"
      BY <2>1, TargetLists
    <3>4. /\ labels' \in [TargetSet -> [names : SUBSET Shown, presentation : Nat]]
          /\ labels'["issue"].names = wanted
      BY <1>1, <1>3, <3>3 DEF TargetSet
    <3> QED BY <1>1, <3>1, <3>2, <3>4 DEF Labellers
  <2>2. CASE labeller[w].todo = <<"pull_request">>
    <3>1. x \in Labellers /\ x.at = next /\ x.todo = << >>
      BY <1>1, <2>2, TargetLists DEF Labellers, Todos
    <3>2. labeller' = [labeller EXCEPT ![w] = x]
      BY <1>3 DEF LabelsInv, LabelTypes
    <3>3. t = "pull_request"
      BY <2>2, TargetLists
    <3>4. /\ labels' \in [TargetSet -> [names : SUBSET Shown, presentation : Nat]]
          /\ labels'["pull_request"].names = wanted /\ labels'["issue"].names = labels["issue"].names
      BY <1>1, <1>3, <3>3 DEF TargetSet
    <3> QED BY <1>1, <2>2, <3>1, <3>2, <3>4 DEF Labellers
  <2> QED BY <1>2, <2>1, <2>2
<1>4. CASE /\ labels' = [labels EXCEPT ![t].names = @ \cup wanted]
           /\ labeller' = [labeller EXCEPT ![w].at = "fail"]
  <2> DEFINE x == [labeller[w] EXCEPT !.at = "fail"]
  <2>1. x \in Labellers /\ labeller' = [labeller EXCEPT ![w] = x]
    BY <1>1, <1>4 DEF Labellers, LabelsInv, LabelTypes
  <2>2. t \in TargetSet
    BY <1>2, TargetLists DEF TargetSet
  <2>3. labels' \in [TargetSet -> [names : SUBSET Shown, presentation : Nat]]
    BY <1>1, <1>4, <2>2
  <2> QED BY <1>1, <2>1, <2>3 DEF Labellers
<1> QED BY <1>3, <1>4 DEF ReconcileState

\* A worker is at the target that is next.
LEMMA WantedIsShown == ASSUME NEW s \in Shown PROVE Wanted(s) \in SUBSET Shown
BY DEF Wanted, Shown

\* A decision leaves what the workers read in the past, and a job or a preparation behind (saveWorkflowTx).
LEMMA DecideKeeps == ASSUME LabelsInv, NEW s \in Shown, Decide(s) PROVE LabelsInv'
<1> USE DEF Decide, LabelsInv, LabelTypes, Labellers, OneLabeller, ReadsThePast, Older, Progresses, Shows, DoneIsTold, RestIsTold, Outstanding, Told, Labelled
<1>0. PICK verify \in BOOLEAN :
        /\ shown' = [shown EXCEPT !.state = s, !.revision = shown.revision + 1, !.verifying = verify, !.moved = FALSE]
        /\ labelJobs' = IF verify THEN labelJobs ELSE Enqueued(labelJobs)
        /\ UNCHANGED <<labels, labeller, gaveUp>>
  OBVIOUS
<1>a. shown.revision + 1 \in Nat
  OBVIOUS
<1>1. LabelTypes'
  BY <1>0, <1>a, EnqueuedIsOutstanding
<1>2. OneLabeller'
  BY <1>0, EnqueuedIsOutstanding
<1>3. ReadsThePast'
  BY <1>0, EnqueuedIsOutstanding
<1>4. \A v \in LabelWorkers : Progresses(v)'
  BY <1>0, EnqueuedIsOutstanding
<1>5. DoneIsTold'
  BY <1>0, EnqueuedIsOutstanding
<1>6. RestIsTold'
  BY <1>0, EnqueuedIsOutstanding
<1> QED BY <1>1, <1>2, <1>3, <1>4, <1>5, <1>6

\* Of a preparation that has verified the pull request (enqueueVerifiedPreparationLabelsTx).
LEMMA VerifiedKeeps == ASSUME LabelsInv, Verified PROVE LabelsInv'
<1> USE DEF Verified, LabelsInv, LabelTypes, Labellers, OneLabeller, ReadsThePast, Older, Progresses, Shows, DoneIsTold, RestIsTold, Outstanding, Told, Labelled
<1>1. LabelTypes'
  BY EnqueuedIsOutstanding
<1>2. OneLabeller'
  BY EnqueuedIsOutstanding
<1>3. ReadsThePast'
  BY EnqueuedIsOutstanding
<1>4. \A v \in LabelWorkers : Progresses(v)'
  BY EnqueuedIsOutstanding
<1>5. DoneIsTold'
  BY EnqueuedIsOutstanding
<1>6. RestIsTold'
  BY EnqueuedIsOutstanding
<1> QED BY <1>1, <1>2, <1>3, <1>4, <1>5, <1>6

\* A presentation (enqueueReviewPresentationTx).
LEMMA PresentKeeps == ASSUME LabelsInv, Present PROVE LabelsInv'
<1> USE DEF Present, LabelsInv, LabelTypes, Labellers, OneLabeller, ReadsThePast, Older, Progresses, Shows, DoneIsTold, RestIsTold, Outstanding, Told, Labelled
<1>a. shown.presentation + 1 \in Nat
  OBVIOUS
<1>1. LabelTypes'
  BY <1>a, EnqueuedIsOutstanding
<1>2. OneLabeller'
  BY EnqueuedIsOutstanding
<1>3. ReadsThePast'
  BY EnqueuedIsOutstanding
<1>4. \A v \in LabelWorkers : Progresses(v)'
  BY EnqueuedIsOutstanding
<1>5. DoneIsTold'
  BY EnqueuedIsOutstanding
<1>6. RestIsTold'
  BY EnqueuedIsOutstanding
<1> QED BY <1>1, <1>2, <1>3, <1>4, <1>5, <1>6

\* A claim: nobody else works (ClaimWorkflowGitHubEffectJob).
LEMMA ClaimLabelsKeeps == ASSUME LabelsInv, NEW w \in LabelWorkers, ClaimLabels(w) PROVE LabelsInv'
<1>1. PICK a \in Attempts :
        /\ labelJobs[a] > 0 /\ labelJobs' = [labelJobs EXCEPT ![a] = @ - 1]
        /\ labeller' = [labeller EXCEPT ![w] = [Resting EXCEPT !.at = "read", !.attempt = a]]
  BY DEF ClaimLabels, Attempts
<1>2. (\A v \in LabelWorkers : labeller[v].at = "idle") /\ UNCHANGED <<shown, labels, gaveUp>>
  BY DEF ClaimLabels, Serialized, Labelled
<1> DEFINE x == [Resting EXCEPT !.at = "read", !.attempt = a]
<1>3. x \in Labellers /\ x.at = "read" /\ x.attempt = a
  <2>1. Resting \in Labellers
    BY DEF Resting, Labellers, Todos, Shown
  <2>2. a \in Nat
    BY EffectBounds DEF Attempts
  <2> QED BY <2>1, <2>2 DEF Labellers
<1>4. labelJobs[a] - 1 \in Nat
  BY <1>1 DEF LabelsInv, LabelTypes
<1> HIDE DEF x
<1>5. labeller' = [labeller EXCEPT ![w] = x]
  BY <1>1 DEF x
<1> USE DEF LabelsInv, LabelTypes, OneLabeller, ReadsThePast, Progresses, DoneIsTold, RestIsTold, Labelled
<1>6. LabelTypes'
  BY <1>1, <1>2, <1>3, <1>4, <1>5
<1>7. labeller'[w] = x /\ \A v \in LabelWorkers : v # w => labeller'[v].at = "idle"
  BY <1>2, <1>5
<1> QED BY <1>3, <1>6, <1>7

\* What is read is the present (GetWorkflowGitHubEffectContext).
LEMMA ReadLabelsKeeps == ASSUME LabelsInv, NEW w \in LabelWorkers, ReadLabels(w) PROVE LabelsInv'
<1> DEFINE x == [at |-> IF shown.verifying THEN "done" ELSE IF shown.state = "pr-ready" THEN "clear" ELSE "set",
                 attempt |-> labeller[w].attempt, state |-> shown.state, revision |-> shown.revision,
                 presentation |-> shown.presentation, todo |-> Targets]
<1>1. labeller[w] \in Labellers /\ Labelled(w) /\ labeller' = [labeller EXCEPT ![w] = x]
  BY DEF ReadLabels, LabelsInv, LabelTypes, Labelled
<1>2. x \in Labellers /\ x.attempt = labeller[w].attempt /\ x.state = shown.state /\ x.revision = shown.revision
      /\ x.presentation = shown.presentation /\ x.todo = Targets
      /\ (x.at = "done" => shown.verifying) /\ x.at \in {"done", "clear", "set"}
  BY <1>1, TargetLists DEF Labellers, Todos, LabelsInv, LabelTypes, ReadLabels
<1>3. /\ labeller' \in [LabelWorkers -> Labellers] /\ labeller'[w] = x
      /\ \A v \in LabelWorkers : v # w => labeller'[v] = labeller[v] /\ labeller'[v].at = "idle"
  BY <1>1, <1>2, WorkerMoves
<1> HIDE DEF x
<1> USE DEF LabelsInv, LabelTypes, Labellers, OneLabeller, ReadsThePast, Older, Progresses, Shows, DoneIsTold, RestIsTold, Outstanding, Told, Labelled
<1>4. UNCHANGED <<shown, labels, labelJobs, gaveUp>>
  BY DEF ReadLabels
<1>5. LabelTypes' /\ OneLabeller'
  BY <1>1, <1>2, <1>3, <1>4
<1>6. ReadsThePast'
  BY <1>2, <1>3, <1>4
<1>7. \A v \in LabelWorkers : Progresses(v)'
  BY <1>2, <1>3, <1>4, TargetLists
<1>8. DoneIsTold' /\ RestIsTold'
  BY <1>2, <1>3, <1>4
<1> QED BY <1>5, <1>6, <1>7, <1>8

\* ReconcileState, before the head is checked.
LEMMA ClearLabelsKeeps == ASSUME LabelsInv, NEW w \in LabelWorkers, ClearLabels(w) PROVE LabelsInv'
<1>1. /\ Labelled(w) /\ labeller[w].todo # << >> /\ labeller[w] \in Labellers
      /\ ReconcileState(w, {}, "check") /\ UNCHANGED <<shown, labelJobs, gaveUp>>
  BY DEF ClearLabels, LabelsInv, LabelTypes, Progresses, Labelled
<1>2. {} \in SUBSET Shown
  BY <1>1, WantedIsShown DEF Labellers
<1>3. PICK x \in Labellers :
        /\ labeller' = [labeller EXCEPT ![w] = x] /\ labels' \in [TargetSet -> [names : SUBSET Shown, presentation : Nat]]
        /\ x.attempt = labeller[w].attempt /\ x.state = labeller[w].state
        /\ x.revision = labeller[w].revision /\ x.presentation = labeller[w].presentation
        /\ \/ x.at = "fail"
           \/ /\ x.at = labeller[w].at /\ x.todo = <<"pull_request">> /\ labels'["issue"].names = {}
           \/ /\ x.at = "check" /\ labeller[w].todo = <<"pull_request">>
              /\ labels'["pull_request"].names = {} /\ labels'["issue"].names = labels["issue"].names
  BY <1>1, <1>2, Reconciles
<1>4. /\ labeller' \in [LabelWorkers -> Labellers] /\ labeller'[w] = x
      /\ \A v \in LabelWorkers : v # w => labeller'[v] = labeller[v] /\ labeller'[v].at = "idle"
  BY <1>1, <1>3, WorkerMoves
<1>5. x.at \notin {"idle", "read", "done"} /\ labeller[w].at = "clear"
  BY <1>1, <1>3 DEF ClearLabels
<1> USE DEF LabelsInv, LabelTypes, Labellers, OneLabeller, ReadsThePast, Older, Progresses, Shows, DoneIsTold, RestIsTold, Outstanding, Told, Labelled
<1>6. LabelTypes'
  BY <1>1, <1>3, <1>4
<1>7. OneLabeller' /\ ReadsThePast'
  BY <1>1, <1>3, <1>4, <1>5
<1>8. \A v \in LabelWorkers : Progresses(v)'
  <2>1. Progresses(w)'
    BY <1>3, <1>4, <1>5, TargetLists DEF TargetSet
  <2> QED BY <1>4, <2>1
<1>9. DoneIsTold' /\ RestIsTold'
  BY <1>4, <1>5
<1> QED BY <1>6, <1>7, <1>8, <1>9

\* The check of the head.
LEMMA CheckHeadKeeps == ASSUME LabelsInv, NEW w \in LabelWorkers, CheckHead(w) PROVE LabelsInv'
<1> DEFINE x == [labeller[w] EXCEPT !.at = IF shown.moved THEN "fail" ELSE "set", !.todo = Targets]
<1>1. labeller[w] \in Labellers /\ Labelled(w) /\ labeller' = [labeller EXCEPT ![w] = x]
  BY DEF CheckHead, LabelsInv, LabelTypes, Labelled
<1>2. x \in Labellers /\ x.attempt = labeller[w].attempt /\ x.state = labeller[w].state /\ x.revision = labeller[w].revision
      /\ x.presentation = labeller[w].presentation /\ x.todo = Targets /\ x.at \in {"fail", "set"}
  BY <1>1, TargetLists DEF Labellers, Todos, LabelsInv, LabelTypes, CheckHead
<1>3. /\ labeller' \in [LabelWorkers -> Labellers] /\ labeller'[w] = x
      /\ \A v \in LabelWorkers : v # w => labeller'[v] = labeller[v] /\ labeller'[v].at = "idle"
  BY <1>1, <1>2, WorkerMoves
<1> HIDE DEF x
<1> USE DEF LabelsInv, LabelTypes, Labellers, OneLabeller, ReadsThePast, Older, Progresses, Shows, DoneIsTold, RestIsTold, Outstanding, Told, Labelled
<1>4. UNCHANGED <<shown, labels, labelJobs, gaveUp>> /\ labeller[w].at = "check"
  BY DEF CheckHead
<1>5. LabelTypes' /\ OneLabeller'
  BY <1>1, <1>2, <1>3, <1>4
<1>6. ReadsThePast'
  <2>1. /\ labeller[w].revision <= shown.revision /\ labeller[w].presentation <= shown.presentation
        /\ labeller[w].revision = shown.revision => labeller[w].state = shown.state
    BY <1>4
  <2> QED BY <1>2, <1>3, <1>4, <2>1
<1>7. \A v \in LabelWorkers : Progresses(v)'
  BY <1>2, <1>3, <1>4, TargetLists
<1>8. DoneIsTold' /\ RestIsTold'
  BY <1>2, <1>3, <1>4
<1> QED BY <1>5, <1>6, <1>7, <1>8

\* ReconcileState of each target.
LEMMA SetLabelsKeeps == ASSUME LabelsInv, NEW w \in LabelWorkers, SetLabels(w) PROVE LabelsInv'
<1>1. /\ Labelled(w) /\ labeller[w].todo # << >> /\ labeller[w] \in Labellers
      /\ ReconcileState(w, Wanted(labeller[w].state), "present") /\ UNCHANGED <<shown, labelJobs, gaveUp>>
  BY DEF SetLabels, LabelsInv, LabelTypes, Progresses, Labelled
<1>2. Wanted(labeller[w].state) \in SUBSET Shown
  BY <1>1, WantedIsShown DEF Labellers
<1>3. PICK x \in Labellers :
        /\ labeller' = [labeller EXCEPT ![w] = x] /\ labels' \in [TargetSet -> [names : SUBSET Shown, presentation : Nat]]
        /\ x.attempt = labeller[w].attempt /\ x.state = labeller[w].state
        /\ x.revision = labeller[w].revision /\ x.presentation = labeller[w].presentation
        /\ \/ x.at = "fail"
           \/ /\ x.at = labeller[w].at /\ x.todo = <<"pull_request">> /\ labels'["issue"].names = Wanted(labeller[w].state)
           \/ /\ x.at = "present" /\ labeller[w].todo = <<"pull_request">>
              /\ labels'["pull_request"].names = Wanted(labeller[w].state) /\ labels'["issue"].names = labels["issue"].names
  BY <1>1, <1>2, Reconciles
<1>4. /\ labeller' \in [LabelWorkers -> Labellers] /\ labeller'[w] = x
      /\ \A v \in LabelWorkers : v # w => labeller'[v] = labeller[v] /\ labeller'[v].at = "idle"
  BY <1>1, <1>3, WorkerMoves
<1>5. x.at \notin {"idle", "read", "done"} /\ labeller[w].at = "set"
  BY <1>1, <1>3 DEF SetLabels
<1> USE DEF LabelsInv, LabelTypes, Labellers, OneLabeller, ReadsThePast, Older, Progresses, Shows, DoneIsTold, RestIsTold, Outstanding, Told, Labelled
<1>6. LabelTypes'
  BY <1>1, <1>3, <1>4
<1>7. OneLabeller' /\ ReadsThePast'
  BY <1>1, <1>3, <1>4, <1>5
<1>8. \A v \in LabelWorkers : Progresses(v)'
  <2>1. Progresses(w)'
    <3>1. CASE x.at = "fail"
      BY <1>4, <3>1
    <3>2. CASE x.at = "set" /\ x.todo = <<"pull_request">> /\ labels'["issue"].names = Wanted(x.state)
      BY <1>4, <3>2, TargetLists
    <3>3. CASE x.at = "present" /\ \A t \in TargetSet : labels'[t].names = Wanted(x.state)
      BY <1>4, <3>3
    <3>4. CASE labeller[w].todo = <<"pull_request">> /\ x.at = "present" /\ labels'["pull_request"].names = Wanted(x.state)
               /\ labels'["issue"].names = labels["issue"].names
      <4>1. labels["issue"].names = Wanted(x.state)
        BY <1>3, <1>5, <3>4
      <4> QED BY <3>3, <3>4, <4>1 DEF TargetSet
    <3> QED BY <1>3, <1>5, <3>1, <3>2, <3>4
  <2> QED BY <1>4, <2>1
<1>9. DoneIsTold' /\ RestIsTold'
  BY <1>4, <1>5
<1> QED BY <1>6, <1>7, <1>8, <1>9

\* reconcileReviewProgress.
LEMMA ShowPresentationKeeps == ASSUME LabelsInv, NEW w \in LabelWorkers, ShowPresentation(w) PROVE LabelsInv'
<1>1. PICK shownOn \in SUBSET TargetSet :
        /\ labels' = [t \in TargetSet |-> IF t \in shownOn THEN [labels[t] EXCEPT !.presentation = labeller[w].presentation] ELSE labels[t]]
        /\ labeller' = [labeller EXCEPT ![w].at = IF shownOn = TargetSet THEN "done" ELSE "fail"]
  BY DEF ShowPresentation
<1>2. /\ labeller[w] \in Labellers /\ Labelled(w) /\ labeller[w].at = "present" /\ UNCHANGED <<shown, labelJobs, gaveUp>>
      /\ labels \in [TargetSet -> [names : SUBSET Shown, presentation : Nat]]
  BY DEF ShowPresentation, LabelsInv, LabelTypes, Labelled
<1> DEFINE x == [labeller[w] EXCEPT !.at = IF shownOn = TargetSet THEN "done" ELSE "fail"]
<1>3. /\ x \in Labellers /\ x.attempt = labeller[w].attempt /\ x.state = labeller[w].state
      /\ x.revision = labeller[w].revision /\ x.presentation = labeller[w].presentation
      /\ x.at = IF shownOn = TargetSet THEN "done" ELSE "fail"
  BY <1>2 DEF Labellers
<1>4. labeller' = [labeller EXCEPT ![w] = x]
  BY <1>1 DEF LabelsInv, LabelTypes
<1>5. /\ labeller' \in [LabelWorkers -> Labellers] /\ labeller'[w] = x
      /\ \A v \in LabelWorkers : v # w => labeller'[v] = labeller[v] /\ labeller'[v].at = "idle"
  BY <1>2, <1>3, <1>4, WorkerMoves
<1>6. labels' \in [TargetSet -> [names : SUBSET Shown, presentation : Nat]]
  BY <1>1, <1>2 DEF Labellers
<1>7. /\ \A t \in TargetSet : labels'[t].names = labels[t].names
      /\ shownOn = TargetSet => \A t \in TargetSet : labels'[t].presentation = labeller[w].presentation
  BY <1>1, <1>2
<1> HIDE DEF x
<1> USE DEF LabelsInv, LabelTypes, Labellers, OneLabeller, ReadsThePast, Older, Progresses, Shows, DoneIsTold, RestIsTold, Outstanding, Told, Labelled
<1>8. LabelTypes' /\ OneLabeller'
  BY <1>2, <1>3, <1>5, <1>6
<1>9. ReadsThePast'
  <2>1. /\ labeller[w].revision <= shown.revision /\ labeller[w].presentation <= shown.presentation
        /\ labeller[w].revision = shown.revision => labeller[w].state = shown.state
    BY <1>2
  <2> QED BY <1>2, <1>3, <1>5, <2>1
<1>10. \A v \in LabelWorkers : Progresses(v)'
  BY <1>3, <1>5
<1>11. DoneIsTold'
  <2>1. /\ labeller[w].revision <= shown.revision /\ labeller[w].presentation <= shown.presentation
        /\ labeller[w].revision = shown.revision => labeller[w].state = shown.state
    BY <1>2
  <2>2. ASSUME x.at = "done", ~Older(w) PROVE Told'
    <3>1. labeller[w].state = shown.state /\ labeller[w].presentation = shown.presentation
      BY <2>1, <2>2, <1>2
    <3>2. \A t \in TargetSet : Shows(t, labeller[w].state)
      BY <1>2
    <3> QED BY <1>2, <1>3, <1>7, <2>2, <3>1, <3>2
  <2> QED BY <1>2, <1>3, <1>5, <2>2
<1>12. RestIsTold'
  BY <1>3, <1>5
<1> QED BY <1>8, <1>9, <1>10, <1>11, <1>12

\* An acknowledgement (AcknowledgeWorkflowGitHubEffect).
LEMMA AcknowledgeLabelsKeeps == ASSUME LabelsInv, NEW w \in LabelWorkers, AcknowledgeLabels(w) PROVE LabelsInv'
<1> DEFINE seen == labeller[w]
<1>1. /\ seen.at \in {"done", "fail"} /\ seen \in Labellers /\ Labelled(w) /\ labeller' = [labeller EXCEPT ![w] = Resting]
      /\ UNCHANGED labels
      /\ shown' = IF Superseded(w) THEN [shown EXCEPT !.presentation = @ + 1] ELSE shown
      /\ labelJobs' = IF Superseded(w) THEN Enqueued(labelJobs)
                      ELSE IF seen.at = "fail" THEN Retried(seen.attempt, labelJobs) ELSE labelJobs
      /\ gaveUp' = (gaveUp \/ (~Superseded(w) /\ seen.at = "fail" /\ seen.attempt = EffectAttempts))
  BY DEF AcknowledgeLabels, LabelsInv, LabelTypes, Labelled
<1>2. Resting \in Labellers /\ Resting.at = "idle"
  BY DEF Resting, Labellers, Todos, Shown
<1>3. /\ labeller' \in [LabelWorkers -> Labellers] /\ labeller'[w] = Resting
      /\ \A v \in LabelWorkers : v # w => labeller'[v] = labeller[v] /\ labeller'[v].at = "idle"
  BY <1>1, <1>2, WorkerMoves
<1>4. seen.attempt \in Attempts
  BY <1>1 DEF LabelsInv, OneLabeller
<1>5. LabelTypes /\ shown.presentation + 1 \in Nat
  BY DEF LabelsInv, LabelTypes
<1>6. LabelTypes' /\ (Superseded(w) \/ seen.at = "fail" => Outstanding')
  <2>1. CASE Superseded(w)
    <3>0. gaveUp' = gaveUp
      BY <1>1, <2>1, <1>5 DEF LabelTypes
    <3>1. labelJobs' = Enqueued(labelJobs) /\ gaveUp' = gaveUp /\ shown' = [shown EXCEPT !.presentation = @ + 1]
      BY <1>1, <2>1, <3>0
    <3> QED BY <1>1, <1>3, <1>5, <3>1, EnqueuedIsOutstanding DEF LabelTypes, Outstanding
  <2>2. CASE ~Superseded(w) /\ seen.at = "fail"
    <3>1. labelJobs' = Retried(seen.attempt, labelJobs) /\ shown' = shown /\ gaveUp' = (gaveUp \/ seen.attempt = EffectAttempts)
      BY <1>1, <2>2
    <3>2. LabelTypes'
      BY <1>1, <1>3, <1>4, <1>5, <3>1, RetriedIsOutstanding DEF LabelTypes
    <3> QED BY <1>4, <1>5, <3>1, <3>2, RetriedIsOutstanding DEF Outstanding
  <2>3. CASE ~Superseded(w) /\ seen.at # "fail"
    <3>1. labelJobs' = labelJobs /\ shown' = shown /\ gaveUp' = gaveUp
      BY <1>1, <2>3 DEF LabelTypes, LabelsInv
    <3> QED BY <1>1, <1>3, <1>5, <2>3, <3>1 DEF LabelTypes
  <2> QED BY <2>1, <2>2, <2>3
<1>7. RestIsTold'
  <2>1. CASE Superseded(w) \/ seen.at = "fail"
    BY <1>6, <2>1 DEF RestIsTold
  <2>2. CASE ~Superseded(w) /\ seen.at = "done"
    <3>1. labelJobs' = labelJobs /\ shown' = shown /\ gaveUp' = gaveUp /\ labels' = labels
      BY <1>1, <2>2 DEF LabelTypes, LabelsInv
    <3>2. ~Older(w)
      BY <1>5, <2>2 DEF Older, Superseded, LabelTypes
    <3>3. Told \/ Outstanding
      BY <2>2, <3>2 DEF LabelsInv, DoneIsTold
    <3> QED BY <3>1, <3>3 DEF RestIsTold, Told, Shows, Outstanding
  <2> QED BY <1>1, <2>1, <2>2
<1> QED BY <1>2, <1>3, <1>6, <1>7 DEF LabelsInv, OneLabeller, ReadsThePast, Progresses, DoneIsTold, Labelled

\* The death of a worker.
LEMMA LabellerDiesKeeps == ASSUME LabelsInv, NEW w \in LabelWorkers, LabellerDies(w) PROVE LabelsInv'
<1>1. /\ Labelled(w) /\ labeller' = [labeller EXCEPT ![w] = Resting] /\ UNCHANGED <<shown, labels>>
      /\ labelJobs' = Retried(labeller[w].attempt, labelJobs)
      /\ gaveUp' = (gaveUp \/ labeller[w].attempt = EffectAttempts)
  BY DEF LabellerDies
<1>2. Resting \in Labellers /\ Resting.at = "idle"
  BY DEF Resting, Labellers, Todos, Shown
<1>3. /\ labeller' \in [LabelWorkers -> Labellers] /\ labeller'[w] = Resting
      /\ \A v \in LabelWorkers : v # w => labeller'[v] = labeller[v] /\ labeller'[v].at = "idle"
  BY <1>1, <1>2, WorkerMoves
<1>4. labeller[w].attempt \in Attempts /\ LabelTypes
  BY <1>1 DEF LabelsInv, OneLabeller
<1>5. LabelTypes' /\ Outstanding'
  BY <1>1, <1>3, <1>4, RetriedIsOutstanding DEF LabelTypes, Outstanding
<1> QED BY <1>2, <1>3, <1>5 DEF LabelsInv, OneLabeller, ReadsThePast, Progresses, DoneIsTold, RestIsTold, Labelled

\* The steps of the handoffs and of people write no label.
LEMMA PushReadyKeepsLabels == ASSUME LabelsInv, PushReady PROVE LabelsInv'
<1>1. /\ shown' \in [state : Shown, revision : Nat, presentation : Nat, verifying : BOOLEAN, moved : BOOLEAN]
      /\ shown'.state = shown.state /\ shown'.revision = shown.revision /\ shown'.presentation = shown.presentation
      /\ shown'.verifying = shown.verifying /\ UNCHANGED <<labels, labelJobs, labeller, gaveUp>>
  BY DEF PushReady, LabelsInv, LabelTypes, labelVars
<1> QED BY <1>1 DEF LabelsInv, LabelTypes, OneLabeller, ReadsThePast, Older, Progresses, Shows, DoneIsTold, RestIsTold, Outstanding, Told, Labelled

LEMMA LabelsKept == ASSUME LabelsInv, UNCHANGED <<shown, labels, labelJobs, labeller, gaveUp>> PROVE LabelsInv'
BY DEF LabelsInv, LabelTypes, OneLabeller, ReadsThePast, Older, Progresses, Shows, DoneIsTold, RestIsTold, Outstanding, Told, Labelled

\* Every step keeps what is known of the labels.
LEMMA LabelsStep == ASSUME LabelsInv, LabelsNext \/ HandoffsNext PROVE LabelsInv'
<1>1. CASE WorkflowStep
  BY <1>1, DecideKeeps, VerifiedKeeps, PresentKeeps, PushReadyKeepsLabels DEF WorkflowStep
<1>2. CASE \E w \in LabelWorkers : ClaimLabels(w) \/ LabelStep(w) \/ LabellerDies(w)
  BY <1>2, ClaimLabelsKeeps, ReadLabelsKeeps, ClearLabelsKeeps, CheckHeadKeeps, SetLabelsKeeps, ShowPresentationKeeps,
     AcknowledgeLabelsKeeps, LabellerDiesKeeps DEF LabelStep
<1>3. CASE ClaimHandoff \/ HandoffStep \/ PublisherDies
  <2>1. UNCHANGED <<shown, labels, labelJobs, labeller, gaveUp>>
    BY <1>3 DEF ClaimHandoff, HandoffStep, ReadHandoff, EnsureComment, AcknowledgeHandoff, HandoffFails, RemoveComments,
                PublisherDies, labelVars
  <2> QED BY <2>1, LabelsKept
<1> QED BY <1>1, <1>2, <1>3 DEF LabelsNext, HandoffsNext

-----------------------------------------------------------------------------

\* The initial state: there is no handoff.
LEMMA HandoffsInitially == ASSUME EffectsInit PROVE HandoffsInv
<1>1. HandoffTypes
  BY DEF EffectsInit, AtRest, HandoffTypes, Handoffs, Publishers, Shown, Todos, TargetSet
<1> QED BY <1>1, EffectBounds DEF EffectsInit, AtRest, HandoffsInv, Publishing, HandoffRows, HandoffsAreToldOrTakenBack

\* A decision hands off a revision that was not there before.
LEMMA DecideKeepsHandoffs == ASSUME HandoffsInv, NEW s \in Shown, Decide(s) PROVE HandoffsInv'
<1> DEFINE next == shown.revision + 1
<1>1. /\ shown.revision < MaxShown /\ UNCHANGED <<comments, publisher>>
      /\ \E verify \in BOOLEAN :
            shown' = [shown EXCEPT !.state = s, !.revision = next, !.verifying = verify, !.moved = FALSE]
      /\ handoffs' = IF s = "needs-human" THEN [handoffs EXCEPT ![next].status = "available"] ELSE handoffs
  BY DEF Decide
<1>2. shown.revision \in Nat /\ next \in 1..MaxShown
  BY <1>1, EffectBounds DEF HandoffsInv, HandoffTypes
<1>3. shown' \in [state : Shown, revision : Nat, presentation : Nat, verifying : BOOLEAN, moved : BOOLEAN] /\ shown'.revision = next
  <2>1. shown \in [state : Shown, revision : Nat, presentation : Nat, verifying : BOOLEAN, moved : BOOLEAN] /\ next \in Nat
    BY <1>2 DEF HandoffsInv, HandoffTypes
  <2>2. PICK verify \in BOOLEAN :
          shown' = [shown EXCEPT !.state = s, !.revision = next, !.verifying = verify, !.moved = FALSE]
    BY <1>1
  <2> HIDE DEF next
  <2> QED BY <2>1, <2>2
<1>4. handoffs[next].status = "none" /\ handoffs[next].cleanup = "none"
  BY <1>2 DEF HandoffsInv, HandoffRows
<1>5. /\ handoffs' \in [1..MaxShown -> Handoffs]
      /\ \A r \in 1..MaxShown : r # next => handoffs'[r] = handoffs[r]
      /\ handoffs'[next].status \in {"none", "available"} /\ handoffs'[next].cleanup = "none"
  <2>1. CASE s = "needs-human"
    <3>1. handoffs' = [handoffs EXCEPT ![next] = [handoffs[next] EXCEPT !.status = "available"]]
      BY <1>1, <2>1
    <3>2. handoffs[next] \in Handoffs /\ handoffs \in [1..MaxShown -> Handoffs]
      BY <1>2 DEF HandoffsInv, HandoffTypes
    <3>3. /\ [handoffs[next] EXCEPT !.status = "available"] \in Handoffs
          /\ [handoffs[next] EXCEPT !.status = "available"].status = "available"
          /\ [handoffs[next] EXCEPT !.status = "available"].cleanup = "none"
      BY <1>4, <3>2 DEF Handoffs
    <3> QED BY <1>2, <3>1, <3>2, <3>3
  <2>2. CASE s # "needs-human"
    BY <1>1, <1>4, <2>2 DEF HandoffsInv, HandoffTypes
  <2> QED BY <2>1, <2>2
<1> HIDE DEF next
<1>6. HandoffTypes'
  BY <1>1, <1>3, <1>5 DEF HandoffsInv, HandoffTypes
<1>7. HandoffRows'
  <2> SUFFICES ASSUME NEW r \in 1..MaxShown
               PROVE  /\ r > shown'.revision => handoffs'[r].status = "none" /\ handoffs'[r].cleanup = "none"
                      /\ handoffs'[r].cleanup = "done" => handoffs'[r].status = "done"
    BY DEF HandoffRows
  <2>1. r > next => r > shown.revision /\ r # next
    BY <1>2 DEF next
  <2> QED BY <1>3, <1>5, <2>1 DEF HandoffsInv, HandoffRows
<1> QED BY <1>1, <1>4, <1>5, <1>6, <1>7 DEF HandoffsInv, Publishing, HandoffsAreToldOrTakenBack

\* What a step of the publisher makes of the job it has, its comments and itself.
Fits(h, row, told, p) ==
    /\ row \in Handoffs /\ told \in SUBSET TargetSet /\ p \in Publishers
    /\ row.cleanup = "done" => row.status = "done"
    /\ row.status = "done" => told = (IF row.cleanup = "done" THEN {} ELSE TargetSet)
    /\ p.at # "idle" =>
          /\ p.job = h /\ row.status = "leased"
          /\ p.at = "publish" => p.todo # << >> /\ (p.todo = <<"pull_request">> => "issue" \in told)
          /\ p.at = "done" => told = TargetSet

\* A step of the publisher concerns its own job.
LEMMA PublisherMoves ==
    ASSUME HandoffsInv, NEW h \in 1..MaxShown, handoffs[h].status # "none", NEW row, NEW told, NEW p,
           Fits(h, row, told, p), UNCHANGED shown,
           handoffs' = [handoffs EXCEPT ![h] = row], comments' = [comments EXCEPT ![h] = told], publisher' = p
    PROVE  HandoffsInv'
<1>1. HandoffTypes'
  BY DEF HandoffsInv, HandoffTypes, Fits
<1>2. handoffs'[h] = row /\ comments'[h] = told
  BY DEF HandoffsInv, HandoffTypes
<1>3. \A r \in 1..MaxShown : r # h => handoffs'[r] = handoffs[r] /\ comments'[r] = comments[r]
  BY DEF HandoffsInv, HandoffTypes
<1>4. ~(h > shown.revision)
  BY DEF HandoffsInv, HandoffRows
<1>5. Publishing'
  BY <1>2 DEF Fits, Publishing
<1>6. HandoffRows'
  BY <1>2, <1>3, <1>4 DEF Fits, HandoffsInv, HandoffRows
<1>7. HandoffsAreToldOrTakenBack'
  BY <1>2, <1>3 DEF Fits, HandoffsInv, HandoffsAreToldOrTakenBack
<1> QED BY <1>1, <1>5, <1>6, <1>7 DEF HandoffsInv

\* What the publisher has while it is at work.
LEMMA PublisherHas ==
    ASSUME HandoffsInv, publisher.at # "idle"
    PROVE  /\ publisher.job \in 1..MaxShown /\ publisher \in Publishers /\ AtRest \in Publishers /\ AtRest.at = "idle"
           /\ handoffs[publisher.job] \in Handoffs /\ handoffs[publisher.job].status = "leased"
           /\ handoffs[publisher.job].cleanup # "done" /\ comments[publisher.job] \in SUBSET TargetSet
           /\ handoffs = [handoffs EXCEPT ![publisher.job] = handoffs[publisher.job]]
           /\ comments = [comments EXCEPT ![publisher.job] = comments[publisher.job]]
BY DEF HandoffsInv, HandoffTypes, Publishing, HandoffRows, AtRest, Publishers, Shown, Todos

\* A claim takes a handoff that was not published.
LEMMA ClaimHandoffKeeps == ASSUME HandoffsInv, ClaimHandoff PROVE HandoffsInv'
<1>1. PICK h \in 1..MaxShown :
        /\ handoffs[h].status = "available"
        /\ handoffs' = [handoffs EXCEPT ![h].status = "leased", ![h].attempts = @ + 1]
        /\ publisher' = [AtRest EXCEPT !.at = "read", !.job = h]
        /\ UNCHANGED <<shown, comments>>
  BY DEF ClaimHandoff
<1> DEFINE row == [handoffs[h] EXCEPT !.status = "leased", !.attempts = @ + 1]
           p   == [AtRest EXCEPT !.at = "read", !.job = h]
<1>2. handoffs[h] \in Handoffs /\ handoffs[h].attempts + 1 \in Nat /\ comments[h] \in SUBSET TargetSet
      /\ handoffs[h].cleanup # "done"
  BY <1>1 DEF HandoffsInv, HandoffTypes, Handoffs, HandoffRows
<1>3. row \in Handoffs /\ row.status = "leased" /\ row.cleanup = handoffs[h].cleanup
  BY <1>2 DEF Handoffs
<1>4. p \in Publishers /\ p.at = "read" /\ p.job = h
  <2>1. AtRest \in Publishers
    BY DEF AtRest, Publishers, Shown, Todos
  <2>2. p = [[AtRest EXCEPT !.at = "read"] EXCEPT !.job = h] /\ h \in Nat
    BY EffectBounds DEF AtRest
  <2>3. [AtRest EXCEPT !.at = "read"] \in Publishers /\ [AtRest EXCEPT !.at = "read"].at = "read"
    BY <2>1 DEF Publishers
  <2> QED BY <2>2, <2>3 DEF Publishers
<1>5. /\ handoffs' = [handoffs EXCEPT ![h] = row] /\ comments' = [comments EXCEPT ![h] = comments[h]] /\ publisher' = p
  BY <1>1 DEF HandoffsInv, HandoffTypes
<1> HIDE DEF row, p
<1>6. Fits(h, row, comments[h], p)
  BY <1>2, <1>3, <1>4 DEF Fits
<1> QED BY <1>1, <1>5, <1>6, PublisherMoves

\* A handoff that is over is cleaned up, any other published from its first target.
LEMMA ReadHandoffKeeps == ASSUME HandoffsInv, ReadHandoff PROVE HandoffsInv'
<1> DEFINE h == publisher.job
<1>1. /\ h \in 1..MaxShown /\ publisher \in Publishers /\ AtRest \in Publishers /\ AtRest.at = "idle"
      /\ handoffs[h] \in Handoffs /\ handoffs[h].status = "leased"
      /\ handoffs[h].cleanup # "done" /\ comments[h] \in SUBSET TargetSet
      /\ handoffs = [handoffs EXCEPT ![h] = handoffs[h]] /\ comments = [comments EXCEPT ![h] = comments[h]]
  BY PublisherHas DEF ReadHandoff
<1> DEFINE stale == handoffs[h].cleanup = "none" /\ Outdated
           row == IF stale THEN [handoffs[h] EXCEPT !.cleanup = "pending"] ELSE handoffs[h]
           p   == [at |-> IF stale \/ handoffs[h].cleanup = "pending" THEN "clean" ELSE "publish", job |-> h,
                   revision |-> shown.revision, state |-> shown.state, todo |-> Targets]
<1>2. row \in Handoffs /\ row.status = "leased" /\ row.cleanup # "done"
  BY <1>1 DEF Handoffs
<1>3. p \in Publishers /\ p.at \in {"clean", "publish"} /\ p.job = h /\ p.todo = Targets
  BY <1>1 DEF Publishers, Todos, HandoffsInv, HandoffTypes
<1>4. handoffs' = [handoffs EXCEPT ![h] = row] /\ comments' = [comments EXCEPT ![h] = comments[h]] /\ publisher' = p
      /\ UNCHANGED shown
  BY <1>1 DEF ReadHandoff, labelVars
<1> HIDE DEF row, p
<1>5. Fits(h, row, comments[h], p)
  BY <1>1, <1>2, <1>3, TargetLists DEF Fits
<1> QED BY <1>1, <1>4, <1>5, PublisherMoves

\* A comment is there before the next target is looked at (ensureComment).
LEMMA EnsureCommentKeeps == ASSUME HandoffsInv, EnsureComment PROVE HandoffsInv'
<1> DEFINE h == publisher.job
<1>1. /\ h \in 1..MaxShown /\ publisher \in Publishers /\ AtRest \in Publishers /\ AtRest.at = "idle"
      /\ handoffs[h] \in Handoffs /\ handoffs[h].status = "leased"
      /\ handoffs[h].cleanup # "done" /\ comments[h] \in SUBSET TargetSet
      /\ handoffs = [handoffs EXCEPT ![h] = handoffs[h]] /\ comments = [comments EXCEPT ![h] = comments[h]]
  BY PublisherHas DEF EnsureComment
<1> DEFINE t == Head(publisher.todo)
<1>2. publisher.at = "publish" /\ handoffs' = handoffs /\ UNCHANGED shown
  BY DEF EnsureComment
<1>3. \/ publisher.todo = Targets /\ t = "issue" /\ Len(publisher.todo) = 2 /\ Tail(publisher.todo) = <<"pull_request">>
      \/ /\ publisher.todo = <<"pull_request">> /\ t = "pull_request" /\ "issue" \in comments[h]
         /\ Len(publisher.todo) = 1 /\ Tail(publisher.todo) = << >>
  BY <1>1, <1>2, TargetLists DEF HandoffsInv, Publishing, Publishers, Todos
<1>4. ASSUME NEW told \in SUBSET TargetSet, NEW p, comments' = [comments EXCEPT ![h] = told], publisher' = p,
             Fits(h, handoffs[h], told, p)
      PROVE  HandoffsInv'
  BY <1>1, <1>2, <1>4, PublisherMoves
<1>5. CASE /\ comments' = [comments EXCEPT ![h] = @ \cup {t}]
           /\ publisher' = [publisher EXCEPT !.todo = Tail(@), !.at = IF Len(publisher.todo) = 1 THEN "done" ELSE @]
  <2> DEFINE told == comments[h] \cup {t}
             p    == [publisher EXCEPT !.todo = Tail(@), !.at = IF Len(publisher.todo) = 1 THEN "done" ELSE @]
  <2>1. told \in SUBSET TargetSet /\ comments' = [comments EXCEPT ![h] = told]
    BY <1>1, <1>3, <1>5 DEF TargetSet
  <2>2. /\ p \in Publishers /\ p.job = h /\ p.todo = Tail(publisher.todo)
        /\ p.at = IF Len(publisher.todo) = 1 THEN "done" ELSE "publish"
    BY <1>1, <1>2, <1>3 DEF Publishers, Todos
  <2>3. Fits(h, handoffs[h], told, p)
    <3>1. CASE publisher.todo = Targets
      <4>1. p.at = "publish" /\ p.todo = <<"pull_request">> /\ "issue" \in told
        BY <1>3, <2>2, <3>1, TargetLists
      <4> HIDE DEF p, told
      <4> QED BY <1>1, <2>1, <2>2, <4>1, TargetLists DEF Fits
    <3>2. CASE publisher.todo = <<"pull_request">>
      <4>1. p.at = "done" /\ told = TargetSet
        BY <1>1, <1>3, <2>2, <3>2, TargetLists DEF TargetSet
      <4> HIDE DEF p, told
      <4> QED BY <1>1, <2>1, <2>2, <4>1 DEF Fits
    <3> QED BY <1>3, <3>1, <3>2
  <2> QED BY <1>4, <1>5, <2>1, <2>3
<1>6. CASE /\ \E told \in {{}, {t}} : comments' = [comments EXCEPT ![h] = @ \cup told]
           /\ publisher' = [publisher EXCEPT !.at = "fail"]
  <2>1. PICK more \in {{}, {t}} : comments' = [comments EXCEPT ![h] = @ \cup more]
    BY <1>6
  <2> DEFINE told == comments[h] \cup more
             p    == [publisher EXCEPT !.at = "fail"]
  <2>2. told \in SUBSET TargetSet /\ comments' = [comments EXCEPT ![h] = told]
    BY <1>1, <1>3, <2>1 DEF TargetSet
  <2>3. p \in Publishers /\ p.job = h /\ p.at = "fail"
    BY <1>1 DEF Publishers
  <2>4. Fits(h, handoffs[h], told, p)
    BY <1>1, <2>2, <2>3 DEF Fits
  <2> QED BY <1>4, <1>6, <2>2, <2>4
<1> QED BY <1>5, <1>6 DEF EnsureComment

\* An acknowledgement, with every comment there.
LEMMA AcknowledgeHandoffKeeps == ASSUME HandoffsInv, AcknowledgeHandoff PROVE HandoffsInv'
<1> DEFINE h == publisher.job
<1>1. /\ h \in 1..MaxShown /\ publisher \in Publishers /\ AtRest \in Publishers /\ AtRest.at = "idle"
      /\ handoffs[h] \in Handoffs /\ handoffs[h].status = "leased"
      /\ handoffs[h].cleanup # "done" /\ comments[h] \in SUBSET TargetSet
      /\ handoffs = [handoffs EXCEPT ![h] = handoffs[h]] /\ comments = [comments EXCEPT ![h] = comments[h]]
  BY PublisherHas DEF AcknowledgeHandoff
<1>2. comments[h] = TargetSet /\ UNCHANGED <<shown, comments>> /\ publisher.at = "done"
  BY DEF AcknowledgeHandoff, HandoffsInv, Publishing
<1> DEFINE row == IF SourceSuperseded THEN [handoffs[h] EXCEPT !.cleanup = "pending"] ELSE [handoffs[h] EXCEPT !.status = "done"]
           p   == IF SourceSuperseded THEN [publisher EXCEPT !.at = "clean"] ELSE AtRest
<1>3. row \in Handoffs /\ row.cleanup # "done"
      /\ p \in Publishers /\ (p.at # "idle" => p.job = h /\ row.status = "leased" /\ p.at = "clean")
  BY <1>1 DEF Handoffs, Publishers
<1>4. handoffs' = [handoffs EXCEPT ![h] = row] /\ publisher' = p /\ comments' = [comments EXCEPT ![h] = comments[h]]
  BY <1>1, <1>2 DEF AcknowledgeHandoff
<1> HIDE DEF row, p
<1>5. Fits(h, row, comments[h], p)
  BY <1>1, <1>2, <1>3 DEF Fits
<1> QED BY <1>1, <1>2, <1>4, <1>5, PublisherMoves

\* A failure settles no handoff as published.
LEMMA HandoffFailsKeeps == ASSUME HandoffsInv, HandoffFails PROVE HandoffsInv'
<1> DEFINE h == publisher.job
<1>1. /\ h \in 1..MaxShown /\ publisher \in Publishers /\ AtRest \in Publishers /\ AtRest.at = "idle"
      /\ handoffs[h] \in Handoffs /\ handoffs[h].status = "leased"
      /\ handoffs[h].cleanup # "done" /\ comments[h] \in SUBSET TargetSet
      /\ handoffs = [handoffs EXCEPT ![h] = handoffs[h]] /\ comments = [comments EXCEPT ![h] = comments[h]]
  BY PublisherHas DEF HandoffFails
<1> DEFINE cleaning == handoffs[h].cleanup = "pending"
           last == handoffs[h].attempts = EffectAttempts
           over == ~cleaning /\ SourceSuperseded
           row  == IF over THEN [handoffs[h] EXCEPT !.cleanup = "pending"]
                   ELSE [handoffs[h] EXCEPT !.status = IF last THEN "failed" ELSE "available",
                                              !.cleanup = IF last /\ cleaning THEN "exhausted" ELSE @]
           p    == IF over THEN [publisher EXCEPT !.at = "clean"] ELSE AtRest
<1>2. row \in Handoffs /\ row.cleanup # "done" /\ row.status # "done"
      /\ p \in Publishers /\ (p.at # "idle" => p.job = h /\ row.status = "leased" /\ p.at = "clean")
  BY <1>1 DEF Handoffs, Publishers
<1>3. handoffs' = [handoffs EXCEPT ![h] = row] /\ publisher' = p /\ comments' = [comments EXCEPT ![h] = comments[h]]
      /\ UNCHANGED shown
  BY <1>1 DEF HandoffFails, labelVars
<1> HIDE DEF row, p
<1>4. Fits(h, row, comments[h], p)
  BY <1>1, <1>2 DEF Fits
<1> QED BY <1>1, <1>3, <1>4, PublisherMoves

\* A cleanup, with every comment gone (removeSupersededComments).
LEMMA RemoveCommentsKeeps == ASSUME HandoffsInv, RemoveComments PROVE HandoffsInv'
<1> DEFINE h == publisher.job
<1>1. /\ h \in 1..MaxShown /\ publisher \in Publishers /\ AtRest \in Publishers /\ AtRest.at = "idle"
      /\ handoffs[h] \in Handoffs /\ handoffs[h].status = "leased"
      /\ handoffs[h].cleanup # "done" /\ comments[h] \in SUBSET TargetSet
      /\ handoffs = [handoffs EXCEPT ![h] = handoffs[h]] /\ comments = [comments EXCEPT ![h] = comments[h]]
  BY PublisherHas DEF RemoveComments
<1>2. UNCHANGED shown
  BY DEF RemoveComments
<1>3. CASE /\ comments' = [comments EXCEPT ![h] = Removed(h)]
           /\ handoffs' = [handoffs EXCEPT ![h].status = "done", ![h].cleanup = "done"]
           /\ publisher' = AtRest
  <2> DEFINE row == [handoffs[h] EXCEPT !.status = "done", !.cleanup = "done"]
  <2>1. row \in Handoffs /\ row.status = "done" /\ row.cleanup = "done"
    BY <1>1 DEF Handoffs
  <2>2. Removed(h) = {}
    BY <1>1 DEF Removed
  <2>3. handoffs' = [handoffs EXCEPT ![h] = row] /\ comments' = [comments EXCEPT ![h] = {}]
    BY <1>3, <2>2 DEF HandoffsInv, HandoffTypes
  <2> HIDE DEF row
  <2>4. Fits(h, row, {}, AtRest)
    BY <1>1, <2>1 DEF Fits
  <2> QED BY <1>1, <1>2, <1>3, <2>3, <2>4, PublisherMoves
<1>4. CASE /\ \E left \in SUBSET comments[h] : comments' = [comments EXCEPT ![h] = left]
           /\ publisher' = [publisher EXCEPT !.at = "fail"] /\ UNCHANGED handoffs
  <2>1. PICK left \in SUBSET comments[h] : comments' = [comments EXCEPT ![h] = left]
    BY <1>4
  <2>2. /\ [publisher EXCEPT !.at = "fail"] \in Publishers /\ [publisher EXCEPT !.at = "fail"].job = h
        /\ [publisher EXCEPT !.at = "fail"].at = "fail"
    BY <1>1 DEF Publishers
  <2>3. Fits(h, handoffs[h], left, [publisher EXCEPT !.at = "fail"])
    BY <1>1, <2>2 DEF Fits
  <2> QED BY <1>1, <1>2, <1>4, <2>1, <2>3, PublisherMoves
<1> QED BY <1>3, <1>4 DEF RemoveComments

\* The death of the publisher.
LEMMA PublisherDiesKeeps == ASSUME HandoffsInv, PublisherDies PROVE HandoffsInv'
<1> DEFINE h == publisher.job
<1>1. /\ h \in 1..MaxShown /\ publisher \in Publishers /\ AtRest \in Publishers /\ AtRest.at = "idle"
      /\ handoffs[h] \in Handoffs /\ handoffs[h].status = "leased"
      /\ handoffs[h].cleanup # "done" /\ comments[h] \in SUBSET TargetSet
      /\ handoffs = [handoffs EXCEPT ![h] = handoffs[h]] /\ comments = [comments EXCEPT ![h] = comments[h]]
  BY PublisherHas DEF PublisherDies
<1> DEFINE row == [handoffs[h] EXCEPT !.status = IF handoffs[h].attempts = EffectAttempts THEN "failed" ELSE "available"]
<1>2. row \in Handoffs /\ row.status \in {"failed", "available"} /\ row.cleanup = handoffs[h].cleanup
  BY <1>1 DEF Handoffs
<1>3. handoffs' = [handoffs EXCEPT ![h] = row] /\ publisher' = AtRest /\ comments' = [comments EXCEPT ![h] = comments[h]]
      /\ UNCHANGED shown
  BY <1>1 DEF PublisherDies, labelVars
<1> HIDE DEF row
<1>4. Fits(h, row, comments[h], AtRest)
  BY <1>1, <1>2 DEF Fits
<1> QED BY <1>1, <1>3, <1>4, PublisherMoves

\* The steps of the labels, and those of the Workflow that decide nothing, concern no handoff.
LEMMA HandoffsKept ==
    ASSUME HandoffsInv, UNCHANGED handoffVars,
           shown' \in [state : Shown, revision : Nat, presentation : Nat, verifying : BOOLEAN, moved : BOOLEAN],
           shown'.revision = shown.revision
    PROVE  HandoffsInv'
BY DEF handoffVars, HandoffsInv, HandoffTypes, Handoffs, Publishers, Publishing, HandoffRows, HandoffsAreToldOrTakenBack

\* Every step keeps what is known of the handoffs.
LEMMA HandoffsStep == ASSUME HandoffsInv, LabelsNext \/ HandoffsNext PROVE HandoffsInv'
<1>1. CASE \E s \in Shown : Decide(s)
  BY <1>1, DecideKeepsHandoffs
<1>2. CASE Verified \/ Present \/ PushReady
  <2>1. /\ shown' \in [state : Shown, revision : Nat, presentation : Nat, verifying : BOOLEAN, moved : BOOLEAN]
        /\ shown'.revision = shown.revision /\ UNCHANGED handoffVars
    <3>1. shown.presentation + 1 \in Nat
      BY DEF HandoffsInv, HandoffTypes
    <3> QED BY <1>2, <3>1 DEF Verified, Present, PushReady, HandoffsInv, HandoffTypes
  <2> QED BY <2>1, HandoffsKept
<1>3. CASE \E w \in LabelWorkers : ClaimLabels(w) \/ LabelStep(w) \/ LabellerDies(w)
  <2>1. PICK w \in LabelWorkers : ClaimLabels(w) \/ LabelStep(w) \/ LabellerDies(w)
    BY <1>3
  <2>2. UNCHANGED handoffVars /\ (shown' = shown \/ shown' = [shown EXCEPT !.presentation = @ + 1])
    BY <2>1 DEF ClaimLabels, LabelStep, LabellerDies, ReadLabels, ClearLabels, CheckHead, SetLabels, ShowPresentation, AcknowledgeLabels
  <2>3. shown.presentation + 1 \in Nat /\ shown \in [state : Shown, revision : Nat, presentation : Nat, verifying : BOOLEAN, moved : BOOLEAN]
    BY DEF HandoffsInv, HandoffTypes
  <2> QED BY <2>2, <2>3, HandoffsKept
<1>4. CASE ClaimHandoff \/ HandoffStep \/ PublisherDies
  BY <1>4, ClaimHandoffKeeps, ReadHandoffKeeps, EnsureCommentKeeps, AcknowledgeHandoffKeeps, HandoffFailsKeeps,
     RemoveCommentsKeeps, PublisherDiesKeeps DEF HandoffStep
<1> QED BY <1>1, <1>2, <1>3, <1>4 DEF LabelsNext, HandoffsNext, WorkflowStep

-----------------------------------------------------------------------------

\* Both invariants hold in every reachable state.
THEOREM EffectsInvariance == EffectsSpec => [](LabelsInv /\ HandoffsInv)
<1>1. EffectsInit => LabelsInv /\ HandoffsInv
  BY LabelsInitially, HandoffsInitially
<1>2. LabelsInv /\ HandoffsInv /\ [LabelsNext \/ HandoffsNext]_effectsVars => LabelsInv' /\ HandoffsInv'
  <2>1. ASSUME LabelsInv, HandoffsInv, UNCHANGED effectsVars PROVE LabelsInv' /\ HandoffsInv'
    BY <2>1, LabelsKept, HandoffsKept DEF effectsVars, handoffVars, HandoffsInv, HandoffTypes
  <2> QED BY <2>1, LabelsStep, HandoffsStep
<1> QED BY <1>1, <1>2, PTL DEF EffectsSpec

\* When no job of labels is left both targets show the state the Workflow is in, whatever changed while labels were
\* written and whoever died (acknowledgeWorkflowGitHubEffect, ClaimWorkflowGitHubEffectJob).
THEOREM LabelsTellTheStateAlways == EffectsSpec => []LabelsTellTheState
<1>1. LabelsInv => LabelsTellTheState
  BY DEF LabelsInv, RestIsTold, Told, Shows, Outstanding, LabelsTellTheState, Attempts
<1> QED BY <1>1, EffectsInvariance, PTL

\* A handoff that is published is told on both targets, and one that was over leaves no comment
\* (removeSupersededComments).
THEOREM HandoffsAreToldAlways == EffectsSpec => []HandoffsAreToldOrTakenBack
<1>1. HandoffsInv => HandoffsAreToldOrTakenBack
  BY DEF HandoffsInv
<1> QED BY <1>1, EffectsInvariance, PTL

-----------------------------------------------------------------------------
(* Human input and planning.                                               *)

CollaborationSpec == CollaborationInit /\ [][CollaborationNext]_planningVars

Views     == {"none", "changed", "unchanged", "uncertain", "confirmed"}
HeardOf   == [kind : Commands, target : Nat, turn : Nat, unread : BOOLEAN, view : Views]
Rounds    == [turn : Nat, artifact : BOOLEAN, published : BOOLEAN, rejected : BOOLEAN, failed : BOOLEAN,
              question : Nat, superseded : BOOLEAN]
Revisions == [turn : Nat, artifact : BOOLEAN, published : BOOLEAN, rejected : BOOLEAN, failed : BOOLEAN,
              proposed : BOOLEAN]
Checks    == [turn : Nat, revision : Nat, confirmation : Nat, considered : SUBSET Nat]
Plans     == [revisions : Seq(Revisions), current : Nat, ready : Nat, withdrawn : SUBSET Nat, checked : Seq(Checks)]
Calls     == [kind : {"none", "plan", "round"}, n : Nat,
              at : {"idle", "reserved", "frozen", "answered", "unanswered"}]
Outcomes  == {"none", "wait", "ready", "both"}
Planners  == [id : Nat, status : {"queued", "running", "stopped", "none", "done", "handed"},
              call : Calls, ended : Outcomes]

PlanningTypes ==
    /\ inputs \in Seq(HeardOf)
    /\ rounds \in Seq(Rounds)
    /\ current \in 0..Len(rounds)
    /\ plan \in Plans
    /\ planner \in Planners
    /\ posted \subseteq {"plan", "round"} \X Nat

\* What people see on the Issue has been frozen before, and nothing has refused it.
Stands(rec) == rec.artifact /\ ~rec.rejected /\ ~rec.failed
PostedStands ==
    /\ \A n \in Nat : <<"plan", n>> \in posted => n \in 1..Len(plan.revisions) /\ Stands(plan.revisions[n])
    /\ \A n \in Nat : <<"round", n>> \in posted => n \in 1..Len(rounds) /\ Stands(rounds[n])

\* A publication on its way: it is frozen before it is sent, and nothing is seen of it before that.
OnItsWay(list) ==
    /\ planner.call.n \in 1..Len(list)
    /\ ~list[planner.call.n].rejected /\ ~list[planner.call.n].failed
    /\ list[planner.call.n].artifact <=> planner.call.at # "reserved"
    /\ planner.call.at \in {"reserved", "frozen"} => <<planner.call.kind, planner.call.n>> \notin posted

CallSound ==
    /\ planner.call = NoCall <=> planner.call.kind = "none"
    /\ planner.call = NoCall <=> planner.call.at = "idle"
    /\ planner.call.kind = "plan" => OnItsWay(plan.revisions)
    /\ planner.call.kind = "round" => OnItsWay(rounds)
    /\ planner.call # NoCall => planner.status \in {"running", "stopped", "handed"}

\* A validation remembers a confirmation that was given for its revision.
ChecksSound ==
    \A v \in 1..Len(plan.checked) :
        /\ plan.checked[v].confirmation \in Ids
        /\ inputs[plan.checked[v].confirmation].kind = "confirm"
        /\ inputs[plan.checked[v].confirmation].target = plan.checked[v].revision

\* A plan that is ready was settled, and nothing follows the settlement.
ReadyIsDone == plan.ready # 0 => planner.status = "done"

PlanningInv ==
    /\ PlanningTypes /\ PostedStands /\ CallSound /\ ChecksSound /\ ReadyIsDone
    /\ ReadyPlanIsConfirmed /\ EveryInputHasATurn

-----------------------------------------------------------------------------
(* CollaborationInit: nothing was said, and the first Turn is queued.      *)
LEMMA PlanningStarts == CollaborationInit => PlanningInv
<1> SUFFICES ASSUME CollaborationInit PROVE PlanningInv
  OBVIOUS
<1>1. /\ inputs = <<>> /\ rounds = <<>> /\ current = 0 /\ posted = {}
      /\ plan = [revisions |-> <<>>, current |-> 0, ready |-> 0, withdrawn |-> {}, checked |-> <<>>]
      /\ planner = [id |-> 0, status |-> "queued", call |-> NoCall, ended |-> "none"]
  BY DEF CollaborationInit
<1>2. PlanningTypes
  BY <1>1 DEF PlanningTypes, Plans, Planners, Outcomes, Calls, NoCall
<1>3. PostedStands /\ ReadyIsDone /\ ReadyPlanIsConfirmed /\ EveryInputHasATurn
  BY <1>1 DEF PostedStands, ReadyIsDone, ReadyPlanIsConfirmed, EveryInputHasATurn
<1>4. CallSound /\ ChecksSound
  BY <1>1 DEF CallSound, NoCall, ChecksSound
<1> QED BY <1>2, <1>3, <1>4 DEF PlanningInv

(* What a step that leaves the publications and the call alone keeps.      *)
LEMMA PublicationsKept ==
    ASSUME PlanningInv, rounds' = rounds, posted' = posted, plan'.revisions = plan.revisions, planner'.call = planner.call,
           planner.call # NoCall => planner'.status \in {"running", "stopped", "handed"}
    PROVE  PostedStands' /\ CallSound'
<1>1. PostedStands'
  BY DEF PlanningInv, PostedStands
<1>2. CallSound'
  BY DEF PlanningInv, CallSound, OnItsWay, NoCall
<1> QED BY <1>1, <1>2

(* A plan is not ready while its Turn is not done (SettleReady).           *)
LEMMA Undone == ASSUME PlanningInv, planner.status # "done" PROVE plan.ready = 0
BY DEF PlanningInv, ReadyIsDone

(* Working, or with a publication on its way, the Turn is not done.        *)
LEMMA Busy ==
    ASSUME PlanningInv, planner.status \in {"running", "stopped"} \/ planner.call # NoCall
    PROVE  planner.status # "done" /\ plan.ready = 0
BY Undone DEF PlanningInv, CallSound

(* The confirmations remembered stay, as inputs keep what was said.        *)
LEMMA ChecksKept ==
    ASSUME PlanningInv, plan'.checked = plan.checked, Ids \subseteq Ids',
           \A i \in Ids : inputs'[i].kind = inputs[i].kind /\ inputs'[i].target = inputs[i].target
    PROVE  ChecksSound'
<1>1. plan.checked \in Seq(Checks)
  BY DEF PlanningInv, PlanningTypes, Plans
<1> QED BY <1>1 DEF PlanningInv, ChecksSound

-----------------------------------------------------------------------------
(* AdmitHumanInput: without a Turn, one is enqueued.                       *)
LEMMA AdmitKeeps ==
    ASSUME PlanningInv, NEW command \in Commands, NEW target \in Nat, AdmitHumanInput(command, target)
    PROVE  PlanningInv'
<1> DEFINE said == [kind |-> command, target |-> target, turn |-> 0, unread |-> FALSE, view |-> "none"]
<1>1. /\ planner.status \notin Closed /\ inputs' = Append(inputs, said)
      /\ planner' = IF planner.status = "none" THEN [planner EXCEPT !.status = "queued"] ELSE planner
      /\ UNCHANGED <<corrects, rounds, current, decisions, plan, posted>>
  BY DEF AdmitHumanInput
<1>2. PlanningTypes /\ inputs \in Seq(HeardOf) /\ planner \in Planners
  BY DEF PlanningInv, PlanningTypes
<1>3. said \in HeardOf
  BY DEF HeardOf, Views
<1>4. /\ inputs' \in Seq(HeardOf) /\ Ids \subseteq Ids'
      /\ \A i \in Ids : inputs'[i] = inputs[i]
  BY <1>1, <1>2, <1>3 DEF Ids
<1>5. /\ planner' \in Planners /\ planner'.call = planner.call
      /\ planner'.status \notin {"none", "done"}
      /\ planner'.status = IF planner.status = "none" THEN "queued" ELSE planner.status
  BY <1>1, <1>2 DEF Planners, Closed
<1>6. PostedStands' /\ CallSound'
  BY <1>1, <1>5, PublicationsKept DEF PlanningInv, CallSound
<1>7. ChecksSound'
  BY <1>1, <1>4, ChecksKept
<1>8. plan.ready = 0
  BY <1>1, Undone DEF Closed
<1> QED BY <1>1, <1>2, <1>4, <1>5, <1>6, <1>7, <1>8 DEF PlanningInv, PlanningTypes, ReadyIsDone, ReadyPlanIsConfirmed, EveryInputHasATurn

(* prepareCollaborationTx.                                                 *)
LEMMA PrepareKeeps == ASSUME PlanningInv, NEW large \in BOOLEAN, PrepareCollaboration(large) PROVE PlanningInv'
<1>1. /\ planner.status = "queued"
      /\ planner' = [id |-> planner.id + 1, status |-> "running", call |-> NoCall, ended |-> "none"]
      /\ inputs' = [i \in Ids |-> IF Heard(i) THEN inputs[i]
                                  ELSE [inputs[i] EXCEPT !.turn = planner.id + 1, !.unread = large]]
      /\ UNCHANGED <<corrects, rounds, current, decisions, plan, posted>>
  BY DEF PrepareCollaboration
<1>2. PlanningTypes /\ inputs \in Seq(HeardOf) /\ planner \in Planners /\ planner.id + 1 \in Nat
  BY DEF PlanningInv, PlanningTypes, Planners
<1>3. planner.call = NoCall /\ plan.ready = 0
  BY <1>1, Undone DEF PlanningInv, CallSound
<1>4. planner' \in Planners /\ planner'.call = planner.call /\ planner'.status = "running"
  BY <1>1, <1>2, <1>3 DEF Planners, Calls, NoCall, Outcomes
<1>5. /\ \A i \in Ids : /\ inputs'[i] \in HeardOf
                        /\ inputs'[i].kind = inputs[i].kind /\ inputs'[i].target = inputs[i].target
      /\ Ids' = Ids
  <2>1. \A i \in Ids : inputs[i] \in HeardOf
    BY <1>2 DEF Ids
  <2>2. Ids' = Ids /\ \A i \in Ids : inputs'[i] = IF Heard(i) THEN inputs[i]
                                       ELSE [inputs[i] EXCEPT !.turn = planner.id + 1, !.unread = large]
    BY <1>1 DEF Ids
  <2>3. ASSUME NEW i \in Ids
        PROVE  inputs'[i] \in HeardOf /\ inputs'[i].kind = inputs[i].kind /\ inputs'[i].target = inputs[i].target
    BY <1>2, <2>1, <2>2 DEF HeardOf
  <2> QED BY <2>2, <2>3
<1>6. inputs' \in Seq(HeardOf)
  <2>1. Ids = 1..Len(inputs) /\ Len(inputs) \in Nat
    BY <1>2 DEF Ids
  <2>2. inputs' \in [1..Len(inputs) -> HeardOf]
    BY <1>1, <1>5, <2>1
  <2> QED BY <2>1, <2>2
<1>7. PostedStands' /\ CallSound'
  BY <1>1, <1>3, <1>4, PublicationsKept
<1>8. ChecksSound'
  BY <1>1, <1>5, ChecksKept
<1> QED BY <1>1, <1>2, <1>3, <1>4, <1>6, <1>7, <1>8 DEF PlanningInv, PlanningTypes, ReadyIsDone, ReadyPlanIsConfirmed, EveryInputHasATurn

(* recordCollaborationDeliveryTx.                                          *)
LEMMA DeliveryKeeps == ASSUME PlanningInv, NEW i \in Ids, RecordCollaborationDelivery(i) PROVE PlanningInv'
<1>1. /\ planner.status = "running" /\ inputs' = [inputs EXCEPT ![i].unread = FALSE]
      /\ UNCHANGED <<corrects, rounds, current, decisions, plan, planner, posted>>
  BY DEF RecordCollaborationDelivery
<1>2. PlanningTypes /\ inputs \in Seq(HeardOf)
  BY DEF PlanningInv, PlanningTypes
<1> DEFINE read == [inputs[i] EXCEPT !.unread = FALSE]
<1>3. inputs' \in Seq(HeardOf) /\ Ids' = Ids
  <2>0. inputs[i] \in HeardOf
    BY <1>2 DEF Ids
  <2>1. read \in HeardOf
    BY <2>0 DEF HeardOf
  <2>2. inputs' = [inputs EXCEPT ![i] = read]
    BY <1>1
  <2> QED BY <1>2, <2>1, <2>2 DEF Ids
<1>4. \A j \in Ids : inputs'[j].kind = inputs[j].kind /\ inputs'[j].target = inputs[j].target
  BY <1>1, <1>2 DEF HeardOf
<1>5. PostedStands' /\ CallSound'
  BY <1>1, PublicationsKept DEF PlanningInv, CallSound
<1>6. ChecksSound' /\ plan.ready = 0
  BY <1>1, <1>3, <1>4, ChecksKept, Undone
<1> QED BY <1>1, <1>2, <1>3, <1>5, <1>6 DEF PlanningInv, PlanningTypes, ReadyIsDone, ReadyPlanIsConfirmed, EveryInputHasATurn

(* State.Assess.                                                           *)
LEMMA AssessKeeps ==
    ASSUME PlanningInv, NEW i \in Ids, NEW view \in {"changed", "unchanged", "uncertain", "confirmed"},
           NEW prior \in Nat, NEW invalidate \in BOOLEAN, AssessHumanInput(i, view, prior, invalidate)
    PROVE  PlanningInv'
<1>1. /\ planner.status = "running" /\ planner.call = NoCall /\ inputs' = [inputs EXCEPT ![i].view = view]
      /\ \/ plan' = plan
         \/ plan' = [plan EXCEPT !.withdrawn = @ \cup {c \in 1 .. i : inputs[c].kind = "confirm"}]
      /\ UNCHANGED <<rounds, current, decisions, planner, posted>>
  BY DEF AssessHumanInput, Working
<1>2. PlanningTypes /\ inputs \in Seq(HeardOf) /\ plan \in Plans
  BY DEF PlanningInv, PlanningTypes
<1> DEFINE assessed == [inputs[i] EXCEPT !.view = view]
<1>3. inputs' \in Seq(HeardOf) /\ Ids' = Ids
  <2>0. inputs[i] \in HeardOf
    BY <1>2 DEF Ids
  <2>1. assessed \in HeardOf
    BY <2>0 DEF HeardOf, Views
  <2>2. inputs' = [inputs EXCEPT ![i] = assessed]
    BY <1>1
  <2> QED BY <1>2, <2>1, <2>2 DEF Ids
<1>4. \A j \in Ids : inputs'[j].kind = inputs[j].kind /\ inputs'[j].target = inputs[j].target
  BY <1>1, <1>2 DEF HeardOf
<1>5. /\ plan' \in Plans /\ plan'.revisions = plan.revisions /\ plan'.checked = plan.checked
      /\ plan'.ready = plan.ready
  <2>1. i \in Nat /\ {c \in 1 .. i : inputs[c].kind = "confirm"} \subseteq Nat
    BY <1>2 DEF Ids
  <2> QED BY <1>1, <1>2, <2>1 DEF Plans
<1>6. PostedStands' /\ CallSound'
  BY <1>1, <1>5, PublicationsKept DEF PlanningInv, CallSound
<1>7. ChecksSound' /\ plan.ready = 0
  BY <1>1, <1>3, <1>4, <1>5, ChecksKept, Undone
<1> QED BY <1>1, <1>2, <1>3, <1>5, <1>6, <1>7 DEF PlanningInv, PlanningTypes, ReadyIsDone, ReadyPlanIsConfirmed, EveryInputHasATurn

-----------------------------------------------------------------------------
(* What a step does to the inputs, when it leaves them alone.              *)
LEMMA InputsKept ==
    ASSUME PlanningInv, UNCHANGED <<inputs, rounds, current, decisions, posted>>,
           planner.status # "done", planner' \in Planners,
           plan' \in Plans, plan'.revisions = plan.revisions, plan'.ready = 0, plan'.checked = plan.checked,
           planner'.status = planner.status \/ planner'.status \notin {"none", "done"} \/ (planner'.status = "none" /\ ~Pending),
           planner'.call = planner.call,
           planner.call # NoCall => planner'.status \in {"running", "stopped", "handed"}
    PROVE  PlanningInv'
<1>1. PlanningTypes'
  BY DEF PlanningInv, PlanningTypes
<1>2. PostedStands' /\ CallSound'
  BY PublicationsKept
<1>3. ChecksSound'
  <2>1. Ids' = Ids
    BY DEF Ids
  <2> QED BY <2>1, ChecksKept
<1>4. Pending' = Pending
  BY DEF Pending, Heard, Ids
<1>5. EveryInputHasATurn'
  BY <1>4 DEF PlanningInv, EveryInputHasATurn
<1> QED BY <1>1, <1>2, <1>3, <1>5 DEF PlanningInv, ReadyIsDone, ReadyPlanIsConfirmed

(* State.Resolve, Yield, StopTurn, the ends of a Turn that leave the plan. *)
LEMMA ResolveKeeps ==
    ASSUME PlanningInv, NEW r, NEW cites, NEW obsolete, ResolveClarification(r, cites, obsolete)
    PROVE  PlanningInv'
<1>1. Working /\ UNCHANGED <<inputs, rounds, current, plan, planner, posted>>
  BY DEF ResolveClarification
<1>2. PlanningTypes /\ planner.status = "running" /\ planner.status # "done" /\ plan.ready = 0
  BY <1>1, Busy DEF Working, PlanningInv
<1>3. PlanningTypes'
  BY <1>1, <1>2 DEF PlanningTypes
<1>4. PostedStands' /\ CallSound'
  BY <1>1, <1>2, PublicationsKept
<1>5. ChecksSound'
  BY <1>1, ChecksKept DEF Ids
<1> QED BY <1>1, <1>2, <1>3, <1>4, <1>5 DEF PlanningInv, ReadyIsDone, ReadyPlanIsConfirmed, EveryInputHasATurn, Pending, Heard, Ids

(* RequestClarification without questions.                                 *)
LEMMA YieldKeeps == ASSUME PlanningInv, Yield PROVE PlanningInv'
<1>1. /\ Working /\ planner' = [planner EXCEPT !.ended = EndedBy("wait")]
      /\ UNCHANGED <<inputs, corrects, rounds, current, decisions, plan, posted>>
  BY DEF Yield
<1>2. planner.status = "running" /\ planner.status # "done" /\ plan.ready = 0
  BY <1>1, Busy DEF Working
<1>3. planner \in Planners /\ plan \in Plans
  BY DEF PlanningInv, PlanningTypes
<1>4. planner' \in Planners /\ planner'.call = planner.call /\ planner'.status = "running"
  BY <1>1, <1>2, <1>3 DEF Planners, Outcomes, EndedBy
<1>5. plan' \in Plans /\ plan'.revisions = plan.revisions /\ plan'.ready = 0 /\ plan'.checked = plan.checked
  BY <1>1, <1>2, <1>3
<1>6. UNCHANGED <<inputs, rounds, current, decisions, posted>>
  BY <1>1
<1>7. planner'.status = planner.status /\ (planner.call # NoCall => planner'.status \in {"running", "stopped", "handed"})
  BY <1>2, <1>4
<1> QED BY <1>2, <1>4, <1>5, <1>6, <1>7, InputsKept

(* The lease expires (recovery), or the Turn is settled without a plan.    *)
LEMMA EndKeeps ==
    ASSUME PlanningInv, StopTurn \/ SettleWait \/ \E retry \in BOOLEAN : SettleFailed(retry)
    PROVE  PlanningInv'
<1>1. PICK s \in {"stopped", "queued", "none", "handed"} :
        /\ planner' = [planner EXCEPT !.status = s]
        /\ s = "none" => ~Pending
        /\ planner.call # NoCall => s \in {"stopped", "handed"}
  <2>1. CASE StopTurn
    BY <2>1 DEF StopTurn
  <2>2. CASE SettleWait
    BY <2>2 DEF SettleWait
  <2>3. CASE \E retry \in BOOLEAN : SettleFailed(retry)
    BY <2>3 DEF SettleFailed
  <2> QED BY <2>1, <2>2, <2>3
<1>2. planner.status \in {"running", "stopped"} /\ UNCHANGED <<inputs, corrects, rounds, current, decisions, plan, posted>>
  BY DEF StopTurn, SettleWait, SettleFailed
<1>3. planner.status # "done" /\ plan.ready = 0
  BY <1>2, Busy
<1>4. planner \in Planners /\ plan \in Plans
  BY DEF PlanningInv, PlanningTypes
<1>5. planner' \in Planners /\ planner'.call = planner.call /\ planner'.status = s
  BY <1>1, <1>4 DEF Planners
<1>6. plan' \in Plans /\ plan'.revisions = plan.revisions /\ plan'.ready = 0 /\ plan'.checked = plan.checked
  BY <1>2, <1>3, <1>4
<1>7. UNCHANGED <<inputs, rounds, current, decisions, posted>>
  BY <1>2
<1>8. planner'.status \notin {"none", "done"} \/ (planner'.status = "none" /\ ~Pending)
  BY <1>1, <1>5
<1>9. planner.call # NoCall => planner'.status \in {"running", "stopped", "handed"}
  BY <1>1, <1>5
<1> QED BY <1>3, <1>5, <1>6, <1>7, <1>8, <1>9, InputsKept

(* State.ValidatePlanning: the validation names the confirmation.          *)
LEMMA CompleteKeeps == ASSUME PlanningInv, NEW c \in Ids, CompletePlanning(c) PROVE PlanningInv'
<1> DEFINE check == [turn |-> planner.id, revision |-> plan.current, confirmation |-> c, considered |-> Ids]
<1>1. /\ Working /\ inputs[c].kind = "confirm" /\ inputs[c].target = plan.current
      /\ plan' = [plan EXCEPT !.checked = Append(@, check)]
      /\ planner' = [planner EXCEPT !.ended = EndedBy("ready")]
      /\ UNCHANGED <<inputs, corrects, rounds, current, decisions, posted>>
  BY DEF CompletePlanning
<1>2. planner.status = "running" /\ plan.ready = 0
  BY <1>1, Busy DEF Working
<1>3. planner \in Planners /\ plan \in Plans /\ inputs \in Seq(HeardOf) /\ PlanningTypes
  BY DEF PlanningInv, PlanningTypes
<1>4. planner' \in Planners /\ planner'.call = planner.call /\ planner'.status = "running"
  BY <1>1, <1>2, <1>3 DEF Planners, Outcomes, EndedBy
<1>5. check \in Checks /\ check.confirmation = c /\ check.revision = plan.current
  BY <1>3 DEF Checks, Planners, Plans, Ids
<1>6. /\ plan' \in Plans /\ plan'.revisions = plan.revisions /\ plan'.ready = 0
      /\ plan'.checked = Append(plan.checked, check) /\ plan.checked \in Seq(Checks)
  <2>1. plan.checked \in Seq(Checks) /\ Append(plan.checked, check) \in Seq(Checks)
    BY <1>3, <1>5 DEF Plans
  <2> QED BY <1>1, <1>2, <1>3, <2>1 DEF Plans
<1>7. PostedStands' /\ CallSound'
  BY <1>1, <1>4, <1>6, PublicationsKept
<1>8. ChecksSound'
  <2> HIDE DEF check
  <2>1. /\ Len(plan'.checked) = Len(plan.checked) + 1 /\ Len(plan.checked) \in Nat
        /\ \A v \in 1..Len(plan.checked) : plan'.checked[v] = plan.checked[v]
        /\ plan'.checked[Len(plan.checked) + 1] = check
    BY <1>5, <1>6
  <2>2. ASSUME NEW v \in 1..Len(plan'.checked)
        PROVE  /\ plan'.checked[v].confirmation \in Ids
               /\ inputs[plan'.checked[v].confirmation].kind = "confirm"
               /\ inputs[plan'.checked[v].confirmation].target = plan'.checked[v].revision
    <3>1. CASE v \in 1..Len(plan.checked)
      BY <2>1, <3>1 DEF PlanningInv, ChecksSound
    <3>2. CASE v = Len(plan.checked) + 1
      BY <1>1, <1>5, <2>1, <3>2
    <3> QED BY <2>1, <3>1, <3>2
  <2> QED BY <1>1, <2>2 DEF ChecksSound, Ids
<1>9. PlanningTypes'
  BY <1>1, <1>3, <1>4, <1>6 DEF PlanningTypes
<1>10. EveryInputHasATurn'
  BY <1>1, <1>4 DEF EveryInputHasATurn
<1> QED BY <1>4, <1>6, <1>7, <1>8, <1>9, <1>10 DEF PlanningInv, ReadyIsDone, ReadyPlanIsConfirmed

(* The settlement of a finished plan: it is in force only if nobody took   *)
(* the confirmation back and nothing was said that is not assessed.        *)
LEMMA ReadyKeeps == ASSUME PlanningInv, SettleReady PROVE PlanningInv'
<1>1. /\ planner.status \in {"running", "stopped"} /\ planner.call = NoCall
      /\ planner.ended = "ready" /\ ~Waits
      /\ plan' = [plan EXCEPT !.ready = plan.current]
      /\ planner' = [planner EXCEPT !.status = "done"]
      /\ UNCHANGED <<inputs, corrects, rounds, current, decisions, posted>>
  BY DEF SettleReady
<1>2. PICK v \in DOMAIN plan.checked : ValidationCurrent(plan.checked[v])
  BY DEF SettleReady
<1>3. planner \in Planners /\ plan \in Plans /\ PlanningTypes /\ plan.checked \in Seq(Checks)
  BY DEF PlanningInv, PlanningTypes, Plans
<1>4. planner' \in Planners /\ planner'.call = planner.call /\ planner'.status = "done"
  BY <1>1, <1>3 DEF Planners
<1>5. /\ plan' \in Plans /\ plan'.revisions = plan.revisions /\ plan'.ready = plan.current
      /\ plan'.withdrawn = plan.withdrawn /\ plan'.checked = plan.checked
  BY <1>1, <1>3 DEF Plans
<1>6. PostedStands' /\ CallSound'
  BY <1>1, <1>4, <1>5, PublicationsKept
<1>7. ChecksSound'
  BY <1>1, <1>5, ChecksKept DEF Ids
<1>8. ~Pending /\ ~AssessmentBlocked /\ ~Unresolved
  BY <1>1 DEF Waits
<1>9. EveryInputHasATurn'
  BY <1>1, <1>8 DEF EveryInputHasATurn, Pending, Heard, Ids
<1>10. ReadyPlanIsConfirmed'
  <2> DEFINE c == plan.checked[v].confirmation
  <2>1. /\ c \in Ids /\ inputs[c].kind = "confirm" /\ inputs[c].target = plan.current
        /\ inputs[c].view = "confirmed" /\ c \notin plan.withdrawn
    BY <1>2, <1>3 DEF PlanningInv, ChecksSound, ValidationCurrent
  <2>2. \A i \in Ids : Heard(i) /\ inputs[i].view # "uncertain"
    BY <1>8 DEF AssessmentBlocked
  <2>3. current # 0 => Decided(current)
    BY <1>8 DEF Unresolved
  <2>4. Ids' = Ids /\ (\A i \in Ids : Heard(i)' = Heard(i)) /\ (current # 0 => Decided(current)')
    <3>1. Decided(current)' = Decided(current)
      BY <1>1 DEF Decided, DecisionsOf, ResolutionCurrent, Reach, Revises, EvidenceLineage, Edges, Ids, Last
    <3> QED BY <1>1, <2>3, <3>1 DEF Ids, Heard
  <2> QED BY <1>1, <1>5, <2>1, <2>2, <2>3, <2>4 DEF ReadyPlanIsConfirmed
<1>11. PlanningTypes' /\ ReadyIsDone'
  BY <1>1, <1>3, <1>4, <1>5 DEF PlanningTypes, ReadyIsDone
<1> QED BY <1>6, <1>7, <1>9, <1>10, <1>11 DEF PlanningInv

-----------------------------------------------------------------------------
(* What a step on the publications keeps of the rest: it is one of a Turn  *)
(* that is not done, and leaves the inputs alone.                          *)
LEMMA RestKept ==
    ASSUME PlanningInv, UNCHANGED inputs, plan.ready = 0, PlanningTypes', PostedStands', CallSound',
           plan'.checked = plan.checked, plan'.ready = plan.ready, planner'.status = planner.status
    PROVE  PlanningInv'
<1>1. ChecksSound'
  BY ChecksKept DEF Ids
<1>2. EveryInputHasATurn'
  BY DEF PlanningInv, EveryInputHasATurn, Pending, Heard, Ids
<1> QED BY <1>1, <1>2 DEF PlanningInv, ReadyIsDone, ReadyPlanIsConfirmed

(* Settled: a publication GitHub refused is failed before the next one.    *)
LEMMA RoundsSettled ==
    ASSUME rounds \in Seq(Rounds), NEW known, known = [r \in DOMAIN rounds |-> Settled(rounds[r])]
    PROVE  /\ known \in Seq(Rounds) /\ Len(known) = Len(rounds)
           /\ \A r \in 1..Len(rounds) : Stands(rounds[r]) => Stands(known[r])
<1>1. DOMAIN rounds = 1..Len(rounds) /\ Len(rounds) \in Nat /\ \A r \in 1..Len(rounds) : rounds[r] \in Rounds
  OBVIOUS
<1>2. \A r \in 1..Len(rounds) : known[r] = Settled(rounds[r])
  BY <1>1
<1>3. \A r \in 1..Len(rounds) : known[r] \in Rounds
  BY <1>1, <1>2 DEF Settled, Rounds
<1>4. known \in [1..Len(rounds) -> Rounds]
  BY <1>1, <1>3
<1>5. known \in Seq(Rounds) /\ Len(known) = Len(rounds)
  BY <1>1, <1>4
<1>6. \A r \in 1..Len(rounds) : Stands(rounds[r]) => Stands(known[r])
  BY <1>2 DEF Settled, Stands
<1> QED BY <1>5, <1>6

(* The same of the checkpoints.                                            *)
LEMMA RevisionsSettled ==
    ASSUME plan.revisions \in Seq(Revisions), NEW known, known = [r \in DOMAIN plan.revisions |-> Settled(plan.revisions[r])]
    PROVE  /\ known \in Seq(Revisions) /\ Len(known) = Len(plan.revisions)
           /\ \A r \in 1..Len(plan.revisions) : Stands(plan.revisions[r]) => Stands(known[r])
<1> DEFINE list == plan.revisions
<1>1. DOMAIN list = 1..Len(list) /\ Len(list) \in Nat /\ \A r \in 1..Len(list) : list[r] \in Revisions
  OBVIOUS
<1>2. \A r \in 1..Len(list) : known[r] = Settled(list[r])
  BY <1>1
<1>3. \A r \in 1..Len(list) : known[r] \in Revisions
  BY <1>1, <1>2 DEF Settled, Revisions
<1>4. known \in [1..Len(list) -> Revisions]
  BY <1>1, <1>3
<1>5. known \in Seq(Revisions) /\ Len(known) = Len(list)
  BY <1>1, <1>4
<1>6. \A r \in 1..Len(list) : Stands(list[r]) => Stands(known[r])
  BY <1>2 DEF Settled, Stands
<1> QED BY <1>5, <1>6

(* State.Request: the round is new, so nobody has seen it.                 *)
LEMMA RequestKeeps == ASSUME PlanningInv, NEW carry \in BOOLEAN, RequestClarification(carry) PROVE PlanningInv'
<1> DEFINE known == [r \in DOMAIN rounds |-> Settled(rounds[r])]
           n == Len(rounds) + 1
           question == IF carry /\ current # 0 THEN rounds[current].question ELSE n
           new == NewRound(question)
<1>1. /\ Working /\ rounds' = Append(known, new) /\ planner' = Call("round", n)
      /\ carry => current # 0
      /\ UNCHANGED <<inputs, corrects, current, plan, posted>>
  BY DEF RequestClarification
<1> HIDE DEF known, n, question, new
<1>2. planner.status = "running" /\ planner.call = NoCall /\ plan.ready = 0
  BY <1>1, Busy DEF Working
<1>3. PlanningTypes /\ rounds \in Seq(Rounds) /\ planner \in Planners /\ Len(rounds) \in Nat
  BY DEF PlanningInv, PlanningTypes
<1>4. question \in Nat /\ n \in Nat
  <2>1. current # 0 => rounds[current] \in Rounds
    BY <1>3 DEF PlanningTypes
  <2> QED BY <1>3, <2>1 DEF question, n, Rounds
<1>5. new \in Rounds /\ ~new.artifact /\ ~new.rejected /\ ~new.failed
  BY <1>3, <1>4 DEF new, NewRound, Rounds, Planners
<1>6. /\ known \in Seq(Rounds) /\ Len(known) = Len(rounds)
      /\ \A r \in 1..Len(rounds) : Stands(rounds[r]) => Stands(known[r])
  BY <1>3, RoundsSettled DEF known
<1>7. /\ rounds' \in Seq(Rounds) /\ Len(rounds') = n /\ rounds'[n] = new
      /\ \A r \in 1..Len(rounds) : rounds'[r] = known[r]
  BY <1>1, <1>3, <1>5, <1>6 DEF n
<1>8. planner' \in Planners /\ planner'.call = [kind |-> "round", n |-> n, at |-> "reserved"] /\ planner'.status = "running"
  BY <1>1, <1>2, <1>3, <1>4 DEF Call, Planners, Calls
<1>9. PlanningTypes'
  BY <1>1, <1>3, <1>7, <1>8 DEF PlanningTypes, n
<1>10. PostedStands'
  <2>1. \A r \in 1..Len(rounds) : r \in 1..Len(rounds') /\ (Stands(rounds[r]) => Stands(rounds'[r]))
    BY <1>3, <1>6, <1>7 DEF n
  <2> QED BY <1>1, <2>1 DEF PlanningInv, PostedStands
<1>11. CallSound'
  <2>1. <<"round", n>> \notin posted
    BY <1>3, <1>4 DEF PlanningInv, PostedStands, n
  <2>2. n \in 1..Len(rounds')
    BY <1>3, <1>7 DEF n
  <2>3. planner'.call.n = n /\ planner'.call.at = "reserved" /\ planner'.call.kind = "round" /\ posted' = posted
    BY <1>1, <1>8
  <2>4. OnItsWay(rounds)'
    BY <1>5, <1>7, <2>1, <2>2, <2>3 DEF OnItsWay
  <2> QED BY <1>8, <2>4 DEF CallSound, NoCall
<1> QED BY <1>1, <1>2, <1>8, <1>9, <1>10, <1>11, RestKept

(* State.ReserveCheckpoint: the same of a revision of the plan.            *)
LEMMA ReserveKeeps == ASSUME PlanningInv, NEW proposed \in BOOLEAN, ReservePlanningCheckpoint(proposed) PROVE PlanningInv'
<1> DEFINE list == plan.revisions
           known == [r \in DOMAIN plan.revisions |-> Settled(plan.revisions[r])]
           new == NewRevision(proposed)
<1>1. /\ Working /\ plan' = [plan EXCEPT !.revisions = Append(known, new)] /\ planner' = Call("plan", Len(known) + 1)
      /\ UNCHANGED <<inputs, corrects, rounds, current, decisions, posted>>
  BY DEF ReservePlanningCheckpoint
<1> HIDE DEF known, new
<1>2. planner.status = "running" /\ planner.call = NoCall /\ plan.ready = 0
  BY <1>1, Busy DEF Working
<1>3. PlanningTypes /\ plan \in Plans /\ planner \in Planners /\ list \in Seq(Revisions) /\ Len(list) \in Nat
  BY DEF PlanningInv, PlanningTypes, Plans
<1>4. /\ known \in Seq(Revisions) /\ Len(known) = Len(list)
      /\ \A r \in 1..Len(list) : Stands(list[r]) => Stands(known[r])
  BY <1>3, RevisionsSettled DEF known
<1> DEFINE n == Len(list) + 1
<1>5. new \in Revisions /\ ~new.artifact /\ ~new.rejected /\ ~new.failed
  BY <1>3 DEF new, NewRevision, Revisions, Planners
<1>6. /\ plan' \in Plans /\ plan'.ready = plan.ready /\ plan'.checked = plan.checked
      /\ plan'.revisions = Append(known, new)
  <2>1. Append(known, new) \in Seq(Revisions)
    BY <1>4, <1>5
  <2> QED BY <1>1, <1>3, <2>1 DEF Plans
<1>7. /\ Len(plan'.revisions) = n /\ plan'.revisions[n] = new /\ n \in Nat
      /\ \A r \in 1..Len(list) : plan'.revisions[r] = known[r]
  BY <1>3, <1>4, <1>5, <1>6
<1>8. planner' \in Planners /\ planner'.call = [kind |-> "plan", n |-> n, at |-> "reserved"] /\ planner'.status = "running"
  BY <1>1, <1>2, <1>3, <1>4, <1>7 DEF Call, Planners, Calls
<1>9. PlanningTypes'
  BY <1>1, <1>3, <1>6, <1>8 DEF PlanningTypes
<1>10. PostedStands'
  <2>1. \A r \in 1..Len(list) : r \in 1..Len(plan'.revisions) /\ (Stands(list[r]) => Stands(plan'.revisions[r]))
    BY <1>3, <1>4, <1>7
  <2> QED BY <1>1, <2>1 DEF PlanningInv, PostedStands
<1>11. CallSound'
  <2>1. <<"plan", n>> \notin posted
    BY <1>3, <1>7 DEF PlanningInv, PostedStands
  <2>2. n \in 1..Len(plan'.revisions)
    BY <1>3, <1>7
  <2>3. planner'.call.n = n /\ planner'.call.at = "reserved" /\ planner'.call.kind = "plan" /\ posted' = posted
    BY <1>1, <1>8
  <2>4. OnItsWay(plan.revisions)'
    BY <1>5, <1>7, <2>1, <2>2, <2>3 DEF OnItsWay
  <2> QED BY <1>8, <2>4 DEF CallSound, NoCall
<1> QED BY <1>1, <1>2, <1>6, <1>8, <1>9, <1>10, <1>11, RestKept

(* What a call does to the publication it is about, and to no other one.   *)
LEMMA OneRewritten ==
    ASSUME PlanningInv, planner.call # NoCall, NEW rec, Rewrite(rec),
           planner.call.kind = "plan" => rec \in Revisions, planner.call.kind = "round" => rec \in Rounds
    PROVE  /\ plan' \in Plans /\ plan'.ready = plan.ready /\ plan'.checked = plan.checked
           /\ rounds' \in Seq(Rounds) /\ Len(rounds') = Len(rounds) /\ Len(plan'.revisions) = Len(plan.revisions)
           /\ planner.call.n \in Nat
           /\ \A r \in 1..Len(rounds) : rounds'[r] = IF planner.call.kind = "round" /\ r = planner.call.n THEN rec ELSE rounds[r]
           /\ \A r \in 1..Len(plan.revisions) : plan'.revisions[r] = IF planner.call.kind = "plan" /\ r = planner.call.n
                                                                       THEN rec ELSE plan.revisions[r]
<1>1. plan \in Plans /\ rounds \in Seq(Rounds) /\ plan.revisions \in Seq(Revisions) /\ planner.call.n \in Nat
  BY DEF PlanningInv, PlanningTypes, Plans, Planners, Calls
<1>2. CASE planner.call.kind = "plan"
  <2> DEFINE list == [plan.revisions EXCEPT ![planner.call.n] = rec]
  <2>1. planner.call.n \in 1..Len(plan.revisions) /\ rec \in Revisions
    BY <1>2 DEF PlanningInv, CallSound, OnItsWay
  <2>2. /\ list \in Seq(Revisions) /\ Len(list) = Len(plan.revisions)
        /\ \A r \in 1..Len(plan.revisions) : list[r] = IF r = planner.call.n THEN rec ELSE plan.revisions[r]
    BY <1>1, <2>1
  <2>3. plan' = [plan EXCEPT !.revisions = list] /\ rounds' = rounds
    BY <1>2 DEF Rewrite
  <2> QED BY <1>1, <1>2, <2>2, <2>3 DEF Plans
<1>3. CASE planner.call.kind = "round"
  <2>1. planner.call.n \in 1..Len(rounds) /\ rec \in Rounds
    BY <1>3 DEF PlanningInv, CallSound, OnItsWay
  <2>2. rounds' = [rounds EXCEPT ![planner.call.n] = rec] /\ plan' = plan
    BY <1>3 DEF Rewrite
  <2> QED BY <1>1, <1>3, <2>1, <2>2
<1> QED BY <1>2, <1>3 DEF PlanningInv, CallSound, PlanningTypes, Planners, Calls

(* The publication of a call is one of the document.                       *)
LEMMA OnItsWayIsKnown ==
    ASSUME PlanningInv, planner.call # NoCall
    PROVE  /\ planner.call.kind = "plan" => Publication \in Revisions /\ Publication = plan.revisions[planner.call.n]
                                            /\ OnItsWay(plan.revisions)
           /\ planner.call.kind = "round" => Publication \in Rounds /\ Publication = rounds[planner.call.n] /\ OnItsWay(rounds)
           /\ planner.call.kind \in {"plan", "round"}
<1>1. plan.revisions \in Seq(Revisions) /\ rounds \in Seq(Rounds) /\ planner.call \in Calls
  BY DEF PlanningInv, PlanningTypes, Plans, Planners
<1>2. planner.call.kind \in {"plan", "round"}
  BY <1>1 DEF PlanningInv, CallSound, Calls
<1>3. ASSUME planner.call.kind = "plan"
      PROVE  Publication \in Revisions /\ Publication = plan.revisions[planner.call.n] /\ OnItsWay(plan.revisions)
  BY <1>1, <1>3 DEF PlanningInv, CallSound, OnItsWay, Publication
<1>4. ASSUME planner.call.kind = "round"
      PROVE  Publication \in Rounds /\ Publication = rounds[planner.call.n] /\ OnItsWay(rounds)
  BY <1>1, <1>4 DEF PlanningInv, CallSound, OnItsWay, Publication
<1> QED BY <1>2, <1>3, <1>4

(* A publication that nobody has seen is given up: refused, rejected       *)
(* before it was sent, or proven absent by the recovery.                   *)
LEMMA GivenUpKeeps ==
    ASSUME PlanningInv, RejectPlanningPublication \/ RefuseComment \/ ReconcileNonPublication
    PROVE  PlanningInv'
<1>1. /\ planner.status \in {"running", "stopped"} /\ planner.call # NoCall
      /\ planner.call.at \in {"reserved", "frozen"}
      /\ planner' = [planner EXCEPT !.call = NoCall]
      /\ UNCHANGED <<inputs, corrects, current, decisions, posted>>
      /\ Rewrite([Publication EXCEPT !.failed = TRUE]) \/ Rewrite([Publication EXCEPT !.rejected = TRUE])
  <2>1. CASE RejectPlanningPublication
    BY <2>1 DEF RejectPlanningPublication, NoCall
  <2>2. CASE RefuseComment
    BY <2>2 DEF RefuseComment, NoCall
  <2>3. CASE ReconcileNonPublication
    <3>1. planner.call # NoCall /\ ~Publication.artifact
      BY <2>3 DEF ReconcileNonPublication
    <3>2. planner.call.at = "reserved"
      BY <3>1, OnItsWayIsKnown DEF OnItsWay
    <3> QED BY <2>3, <3>1, <3>2 DEF ReconcileNonPublication
  <2> QED BY <2>1, <2>2, <2>3
<1>2. PICK rec \in {[Publication EXCEPT !.failed = TRUE], [Publication EXCEPT !.rejected = TRUE]} : Rewrite(rec)
  BY <1>1
<1>3. /\ planner.call.kind = "plan" => rec \in Revisions
      /\ planner.call.kind = "round" => rec \in Rounds
  BY <1>1, <1>2, OnItsWayIsKnown DEF Revisions, Rounds
<1>4. /\ plan' \in Plans /\ plan'.ready = plan.ready /\ plan'.checked = plan.checked
      /\ rounds' \in Seq(Rounds) /\ Len(rounds') = Len(rounds) /\ Len(plan'.revisions) = Len(plan.revisions)
      /\ \A r \in 1..Len(rounds) : rounds'[r] = IF planner.call.kind = "round" /\ r = planner.call.n THEN rec ELSE rounds[r]
      /\ \A r \in 1..Len(plan.revisions) : plan'.revisions[r] = IF planner.call.kind = "plan" /\ r = planner.call.n
                                                                  THEN rec ELSE plan.revisions[r]
  BY <1>1, <1>2, <1>3, OneRewritten
<1>5. plan.ready = 0 /\ PlanningTypes /\ planner \in Planners
  BY <1>1, Busy DEF PlanningInv, PlanningTypes
<1>6. planner' \in Planners /\ planner'.call = NoCall /\ planner'.status = planner.status
  BY <1>1, <1>5 DEF Planners, Calls, NoCall
<1>7. PlanningTypes'
  BY <1>1, <1>4, <1>5, <1>6 DEF PlanningTypes
<1>8. <<planner.call.kind, planner.call.n>> \notin posted
  BY <1>1, OnItsWayIsKnown DEF OnItsWay
<1>9. PostedStands'
  <2>1. ASSUME NEW n \in Nat, <<"plan", n>> \in posted
        PROVE  n \in 1..Len(plan'.revisions) /\ Stands(plan'.revisions[n])
    BY <1>4, <1>8, <2>1 DEF PlanningInv, PostedStands
  <2>2. ASSUME NEW n \in Nat, <<"round", n>> \in posted
        PROVE  n \in 1..Len(rounds') /\ Stands(rounds'[n])
    BY <1>4, <1>8, <2>2 DEF PlanningInv, PostedStands
  <2> QED BY <1>1, <2>1, <2>2 DEF PostedStands
<1>10. CallSound'
  BY <1>6 DEF CallSound, NoCall
<1> QED BY <1>1, <1>4, <1>5, <1>6, <1>7, <1>9, <1>10, RestKept

(* SaveCollaborationArtifact: nothing was sent of it.                      *)
LEMMA FreezeKeeps == ASSUME PlanningInv, SaveCollaborationArtifact PROVE PlanningInv'
<1> DEFINE rec == [Publication EXCEPT !.artifact = TRUE]
<1>1. /\ planner.status = "running" /\ planner.call.at = "reserved" /\ planner.call # NoCall
      /\ Rewrite(rec) /\ planner' = [planner EXCEPT !.call.at = "frozen"]
      /\ UNCHANGED <<inputs, corrects, current, decisions, posted>>
  BY DEF SaveCollaborationArtifact, CallMoves, NoCall
<1>2. /\ planner.call.kind = "plan" => rec \in Revisions
      /\ planner.call.kind = "round" => rec \in Rounds
      /\ planner.call.kind \in {"plan", "round"}
      /\ rec.artifact /\ rec.failed = Publication.failed /\ rec.rejected = Publication.rejected
  BY <1>1, OnItsWayIsKnown DEF Revisions, Rounds
<1> HIDE DEF rec
<1>3. /\ plan' \in Plans /\ plan'.ready = plan.ready /\ plan'.checked = plan.checked
      /\ rounds' \in Seq(Rounds) /\ Len(rounds') = Len(rounds) /\ Len(plan'.revisions) = Len(plan.revisions)
      /\ planner.call.n \in Nat
      /\ \A r \in 1..Len(rounds) : rounds'[r] = IF planner.call.kind = "round" /\ r = planner.call.n THEN rec ELSE rounds[r]
      /\ \A r \in 1..Len(plan.revisions) : plan'.revisions[r] = IF planner.call.kind = "plan" /\ r = planner.call.n
                                                                  THEN rec ELSE plan.revisions[r]
  BY <1>1, <1>2, OneRewritten
<1>4. plan.ready = 0 /\ PlanningTypes /\ planner \in Planners
  BY <1>1, Busy DEF PlanningInv, PlanningTypes
<1>5. /\ planner' \in Planners /\ planner'.status = planner.status
      /\ planner'.call.kind = planner.call.kind /\ planner'.call.n = planner.call.n /\ planner'.call.at = "frozen"
  BY <1>1, <1>4 DEF Planners, Calls
<1>6. PlanningTypes'
  BY <1>1, <1>3, <1>4, <1>5 DEF PlanningTypes
<1>7. <<planner.call.kind, planner.call.n>> \notin posted
  BY <1>1, OnItsWayIsKnown DEF OnItsWay
<1>8. PostedStands'
  <2>1. ASSUME NEW n \in Nat, <<"plan", n>> \in posted
        PROVE  n \in 1..Len(plan'.revisions) /\ Stands(plan'.revisions[n])
    BY <1>3, <1>7, <2>1 DEF PlanningInv, PostedStands
  <2>2. ASSUME NEW n \in Nat, <<"round", n>> \in posted
        PROVE  n \in 1..Len(rounds') /\ Stands(rounds'[n])
    BY <1>3, <1>7, <2>2 DEF PlanningInv, PostedStands
  <2> QED BY <1>1, <2>1, <2>2 DEF PostedStands
<1>9. CallSound'
  <2>1. ASSUME planner.call.kind = "plan" PROVE OnItsWay(plan.revisions)'
    <3>1. OnItsWay(plan.revisions) /\ Publication = plan.revisions[planner.call.n]
      BY <1>1, <2>1, OnItsWayIsKnown
    <3>2. planner.call.n \in 1..Len(plan.revisions) /\ ~Publication.rejected /\ ~Publication.failed
      BY <3>1 DEF OnItsWay
    <3>3. plan'.revisions[planner.call.n] = rec /\ Len(plan'.revisions) = Len(plan.revisions)
      BY <1>3, <2>1, <3>2
    <3>4. <<planner'.call.kind, planner'.call.n>> \notin posted'
      BY <1>1, <1>5, <1>7
    <3> QED BY <1>2, <1>5, <3>2, <3>3, <3>4 DEF OnItsWay
  <2>2. ASSUME planner.call.kind = "round" PROVE OnItsWay(rounds)'
    <3>1. OnItsWay(rounds) /\ Publication = rounds[planner.call.n]
      BY <1>1, <2>2, OnItsWayIsKnown
    <3>2. planner.call.n \in 1..Len(rounds) /\ ~Publication.rejected /\ ~Publication.failed
      BY <3>1 DEF OnItsWay
    <3>3. rounds'[planner.call.n] = rec /\ Len(rounds') = Len(rounds)
      BY <1>3, <2>2, <3>2
    <3>4. <<planner'.call.kind, planner'.call.n>> \notin posted'
      BY <1>1, <1>5, <1>7
    <3> QED BY <1>2, <1>5, <3>2, <3>3, <3>4 DEF OnItsWay
  <2> QED BY <1>1, <1>2, <1>5, <2>1, <2>2 DEF CallSound, NoCall
<1> QED BY <1>1, <1>3, <1>4, <1>5, <1>6, <1>8, <1>9, RestKept

(* The comment is posted, at any time and by whoever is left of the Turn.  *)
LEMMA PostKeeps == ASSUME PlanningInv, NEW answered \in BOOLEAN, PostComment(answered) PROVE PlanningInv'
<1> DEFINE at == IF answered THEN "answered" ELSE "unanswered"
<1>1. /\ planner.call.at = "frozen" /\ planner.call # NoCall
      /\ posted' = posted \cup {<<planner.call.kind, planner.call.n>>}
      /\ planner' = [planner EXCEPT !.call.at = at]
      /\ UNCHANGED <<inputs, corrects, rounds, current, decisions, plan>>
  BY DEF PostComment, CallMoves, NoCall
<1>2. plan.ready = 0 /\ PlanningTypes /\ planner \in Planners
  BY <1>1, Busy DEF PlanningInv, PlanningTypes
<1>3. /\ planner' \in Planners /\ planner'.status = planner.status
      /\ planner'.call.kind = planner.call.kind /\ planner'.call.n = planner.call.n
      /\ planner'.call.at \in {"answered", "unanswered"} /\ planner.call.n \in Nat
  BY <1>1, <1>2 DEF Planners, Calls
<1>4. planner.call.kind \in {"plan", "round"}
  BY <1>1, OnItsWayIsKnown
<1>5. PlanningTypes'
  BY <1>1, <1>2, <1>3, <1>4 DEF PlanningTypes
<1>6. /\ planner.call.kind = "plan" => OnItsWay(plan.revisions)
      /\ planner.call.kind = "round" => OnItsWay(rounds)
  BY <1>1, OnItsWayIsKnown
<1>7. PostedStands'
  <2>1. ASSUME NEW n \in Nat, <<"plan", n>> \in posted'
        PROVE  n \in 1..Len(plan.revisions) /\ Stands(plan.revisions[n])
    BY <1>1, <1>6, <2>1 DEF PlanningInv, PostedStands, OnItsWay, Stands
  <2>2. ASSUME NEW n \in Nat, <<"round", n>> \in posted'
        PROVE  n \in 1..Len(rounds) /\ Stands(rounds[n])
    BY <1>1, <1>6, <2>2 DEF PlanningInv, PostedStands, OnItsWay, Stands
  <2> QED BY <1>1, <2>1, <2>2 DEF PostedStands
<1>8. CallSound'
  <2>1. planner.call.kind = "plan" => OnItsWay(plan.revisions)'
    BY <1>1, <1>3, <1>6 DEF OnItsWay
  <2>2. planner.call.kind = "round" => OnItsWay(rounds)'
    BY <1>1, <1>3, <1>6 DEF OnItsWay
  <2> QED BY <1>1, <1>3, <1>4, <2>1, <2>2 DEF PlanningInv, CallSound, NoCall
<1> QED BY <1>1, <1>2, <1>3, <1>5, <1>7, <1>8, RestKept

(* Publish and ConfirmCheckpoint, by the call or by the reconciliation.    *)
LEMMA ConfirmKeeps == ASSUME PlanningInv, ConfirmPublication \/ ReconcilePublication PROVE PlanningInv'
<1> DEFINE n == planner.call.n
           ended == IF planner.call.kind = "round" THEN EndedBy("wait") ELSE planner.ended
<1>1. /\ planner.call # NoCall /\ Confirmed
      /\ planner' = [planner EXCEPT !.call = NoCall, !.ended = ended]
      /\ UNCHANGED <<inputs, corrects, decisions, posted>>
  BY DEF ConfirmPublication, ReconcilePublication, Returned, NoCall
<1>2. plan.ready = 0 /\ PlanningTypes /\ planner \in Planners /\ plan \in Plans /\ rounds \in Seq(Rounds) /\ current \in 0..Len(rounds)
  BY <1>1, Busy DEF PlanningInv, PlanningTypes
<1>3. planner' \in Planners /\ planner'.status = planner.status /\ planner'.call = NoCall
  BY <1>1, <1>2 DEF Planners, Calls, NoCall, Outcomes, EndedBy
<1>4. /\ plan' \in Plans /\ plan'.ready = plan.ready /\ plan'.checked = plan.checked
      /\ Len(plan'.revisions) = Len(plan.revisions)
      /\ \A r \in 1..Len(plan.revisions) : Stands(plan.revisions[r]) => Stands(plan'.revisions[r])
      /\ rounds' \in Seq(Rounds) /\ Len(rounds') = Len(rounds) /\ current' \in 0..Len(rounds)
      /\ \A r \in 1..Len(rounds) : Stands(rounds[r]) => Stands(rounds'[r])
  <2>1. CASE planner.call.kind = "plan"
    <3> DEFINE list == plan.revisions
               rec == [list[n] EXCEPT !.published = TRUE]
    <3>1. plan' = [plan EXCEPT !.revisions[n].published = TRUE, !.current = n] /\ UNCHANGED <<rounds, current>>
      BY <1>1, <2>1 DEF Confirmed
    <3>2. list \in Seq(Revisions) /\ n \in 1..Len(list) /\ n \in Nat /\ list[n] \in Revisions
      BY <1>1, <1>2, <2>1, OnItsWayIsKnown DEF Plans, OnItsWay
    <3>3. rec \in Revisions /\ (Stands(list[n]) => Stands(rec))
      BY <3>2 DEF Revisions, Stands
    <3>4. /\ [list EXCEPT ![n] = rec] \in Seq(Revisions) /\ Len([list EXCEPT ![n] = rec]) = Len(list)
          /\ \A r \in 1..Len(list) : [list EXCEPT ![n] = rec][r] = IF r = n THEN rec ELSE list[r]
      BY <3>2, <3>3
    <3>5. plan' = [plan EXCEPT !.revisions = [list EXCEPT ![n] = rec], !.current = n]
      BY <1>2, <3>1 DEF Plans
    <3>6. /\ plan' \in Plans /\ plan'.ready = plan.ready /\ plan'.checked = plan.checked
          /\ plan'.revisions = [list EXCEPT ![n] = rec]
      BY <1>2, <3>2, <3>4, <3>5 DEF Plans
    <3> QED BY <1>2, <3>1, <3>3, <3>4, <3>6
  <2>2. CASE planner.call.kind = "round"
    <3>1. /\ rounds' = [r \in DOMAIN rounds |->
                           IF r = n THEN [rounds[r] EXCEPT !.published = TRUE]
                           ELSE IF r = current THEN [rounds[r] EXCEPT !.superseded = TRUE]
                           ELSE rounds[r]]
          /\ current' = n /\ UNCHANGED plan
      BY <1>1, <2>2 DEF Confirmed
    <3>2. n \in 1..Len(rounds) /\ DOMAIN rounds = 1..Len(rounds) /\ \A r \in 1..Len(rounds) : rounds[r] \in Rounds
      BY <1>1, <1>2, <2>2, OnItsWayIsKnown DEF OnItsWay
    <3>3. \A r \in 1..Len(rounds) : rounds'[r] \in Rounds /\ (Stands(rounds[r]) => Stands(rounds'[r]))
      BY <3>1, <3>2 DEF Rounds, Stands
    <3>4. rounds' \in [1..Len(rounds) -> Rounds] /\ Len(rounds) \in Nat
      BY <1>2, <3>1, <3>2, <3>3
    <3>5. rounds' \in Seq(Rounds) /\ Len(rounds') = Len(rounds)
      BY <3>4
    <3> QED BY <1>2, <3>1, <3>2, <3>3, <3>5
  <2> QED BY <1>1, <2>1, <2>2, OnItsWayIsKnown
<1>5. PlanningTypes'
  BY <1>1, <1>2, <1>3, <1>4 DEF PlanningTypes
<1>6. PostedStands'
  BY <1>1, <1>4 DEF PlanningInv, PostedStands
<1>7. CallSound'
  BY <1>3 DEF CallSound, NoCall
<1> QED BY <1>1, <1>2, <1>3, <1>4, <1>5, <1>6, <1>7, RestKept

-----------------------------------------------------------------------------
(* Every step of people and of the Planner.                                *)
LEMMA PlanningSteps == PlanningInv /\ [CollaborationNext]_planningVars => PlanningInv'
<1> SUFFICES ASSUME PlanningInv, [CollaborationNext]_planningVars PROVE PlanningInv'
  OBVIOUS
<1>1. CASE \E command \in Commands, target \in 0 .. MaxInput + MaxRound : AdmitHumanInput(command, target)
  BY <1>1, AdmitKeeps
<1>2. CASE \E large \in BOOLEAN : PrepareCollaboration(large)
  BY <1>2, PrepareKeeps
<1>3. CASE \E i \in Ids : RecordCollaborationDelivery(i)
  BY <1>3, DeliveryKeeps
<1>4. CASE \E i \in Ids, view \in {"changed", "unchanged", "uncertain", "confirmed"},
              prior \in 0 .. Len(inputs), invalidate \in BOOLEAN : AssessHumanInput(i, view, prior, invalidate)
  <2>1. 0 .. Len(inputs) \subseteq Nat
    BY DEF PlanningInv, PlanningTypes
  <2> QED BY <1>4, <2>1, AssessKeeps
<1>5. CASE \E r \in DOMAIN rounds, cites \in SUBSET Ids, obsolete \in BOOLEAN : ResolveClarification(r, cites, obsolete)
  BY <1>5, ResolveKeeps
<1>6. CASE Yield
  BY <1>6, YieldKeeps
<1>7. CASE \E carry \in BOOLEAN : RequestClarification(carry)
  BY <1>7, RequestKeeps
<1>8. CASE \E proposed \in BOOLEAN : ReservePlanningCheckpoint(proposed)
  BY <1>8, ReserveKeeps
<1>9. CASE RejectPlanningPublication \/ RefuseComment \/ ReconcileNonPublication
  BY <1>9, GivenUpKeeps
<1>10. CASE SaveCollaborationArtifact
  BY <1>10, FreezeKeeps
<1>11. CASE \E answered \in BOOLEAN : PostComment(answered)
  BY <1>11, PostKeeps
<1>12. CASE ConfirmPublication \/ ReconcilePublication
  BY <1>12, ConfirmKeeps
<1>13. CASE \E c \in Ids : CompletePlanning(c)
  BY <1>13, CompleteKeeps
<1>14. CASE StopTurn \/ SettleWait \/ \E retry \in BOOLEAN : SettleFailed(retry)
  BY <1>14, EndKeeps
<1>15. CASE SettleReady
  BY <1>15, ReadyKeeps
<1>16. CASE UNCHANGED planningVars
  <2>1. UNCHANGED <<inputs, corrects, rounds, current, decisions, plan, planner, posted>>
    BY <1>16 DEF planningVars
  <2>2. PlanningTypes' /\ ReadyIsDone' /\ ChecksSound' /\ EveryInputHasATurn'
    BY <2>1 DEF PlanningInv, PlanningTypes, ReadyIsDone, ChecksSound, EveryInputHasATurn, Pending, Heard, Ids
  <2>3. PostedStands' /\ CallSound'
    BY <2>1, PublicationsKept DEF PlanningInv, CallSound
  <2>4. Decided(current)' = Decided(current)
    BY <2>1 DEF Decided, DecisionsOf, ResolutionCurrent, Reach, Revises, EvidenceLineage, Edges, Ids, Last
  <2>5. ReadyPlanIsConfirmed'
    BY <2>1, <2>4 DEF PlanningInv, ReadyPlanIsConfirmed, Heard, Ids
  <2> QED BY <2>2, <2>3, <2>5 DEF PlanningInv
<1> QED BY <1>1, <1>2, <1>3, <1>4, <1>5, <1>6, <1>7, <1>8, <1>9, <1>10, <1>11, <1>12, <1>13, <1>14, <1>15, <1>16 DEF CollaborationNext

(* What is posted is not failed, by PostedStands.                          *)
LEMMA NothingPassedOver == PlanningInv => NothingSaidIsPassedOver
<1> SUFFICES ASSUME PlanningInv PROVE VisibleIsNotFailed
  BY DEF NothingSaidIsPassedOver, PlanningInv
<1>1. ASSUME NEW p \in posted
      PROVE  ~(IF p[1] = "plan" THEN plan.revisions[p[2]].failed ELSE rounds[p[2]].failed)
  <2>1. PICK k \in {"plan", "round"}, n \in Nat : p = <<k, n>>
    BY DEF PlanningInv, PlanningTypes
  <2>2. p[1] = k /\ p[2] = n /\ <<k, n>> \in posted
    BY <2>1
  <2> QED BY <2>2 DEF PlanningInv, PostedStands, Stands
<1> QED BY <1>1 DEF VisibleIsNotFailed

\* PlanningInv holds in every state of planning, for any number of inputs, rounds, revisions, decisions and Turns.
THEOREM PlanningInvariance == CollaborationSpec => []PlanningInv
BY PlanningStarts, PlanningSteps, PTL DEF CollaborationSpec

\* A plan is finished only with a confirmation of exactly this plan that stands, when all that people said was heard
\* and assessed; an input brings a Turn about; and what people see of a publication is never written off
\* (CompletePlanning, fenceCollaborationSettlementTx, AdmitHumanInput, the reconciliation of a publication).
THEOREM NothingSaidIsEverPassedOver == CollaborationSpec => []NothingSaidIsPassedOver
BY PlanningInvariance, NothingPassedOver, PTL
=============================================================================
