--------------------------- MODULE Collaboration ---------------------------
(***************************************************************************)
(* Human input of one Work Item while its Planner works: what people say   *)
(* is accepted at any time, frozen into the next Turn, read and assessed   *)
(* there; the Planner asks rounds of questions, decides them from what was *)
(* answered, publishes plan checkpoints and completes planning once a      *)
(* person confirmed the current one.                                       *)
(*                                                                         *)
(* collaboration.State is one JSON document, written under the Workflow    *)
(* lock by the store: one action per store transaction.  A publication is  *)
(* reserved, its bytes are frozen, they are posted, and the post is        *)
(* confirmed; only the first two steps hold the Turn lease, so the last    *)
(* two may be late.  One Participant, one question per round; the text of  *)
(* an input, its author and its source are left out, and so are rejected   *)
(* commands, which change nothing but their receipt.                       *)
(***************************************************************************)
EXTENDS Naturals, Sequences

CONSTANTS Commands,      \* commands people use: steer, answer, amend, confirm
          MaxInput,      \* inputs accepted
          MaxRound,      \* rounds of questions reserved
          MaxDecision,   \* decisions made about them
          MaxCheckpoint, \* plan revisions reserved
          MaxTurn        \* Turns prepared

VARIABLES inputs,      \* Inputs, with the latest assessment of each
          corrects,    \* pairs <<later, earlier>> of assessed corrections
          rounds,      \* Rounds
          current,     \* CurrentRound, 0 for none
          decisions,   \* Resolutions, by Sequence
          plan,        \* Planning
          planner,     \* the Planner's Turn
          posted       \* comments visible on the Issue

planningVars == <<inputs, corrects, rounds, current, decisions, plan, planner, posted>>

Ids == DOMAIN inputs
Closed == {"done", "handed"}
NoCall == [kind |-> "none", n |-> 0, at |-> "idle"]

CollaborationInit ==
  /\ inputs = <<>> /\ corrects = {} /\ rounds = <<>> /\ current = 0 /\ decisions = <<>>
  /\ plan = [revisions |-> <<>>, current |-> 0, ready |-> 0, withdrawn |-> {}, checked |-> <<>>]
  /\ planner = [id |-> 0, status |-> "queued", call |-> NoCall, ended |-> "none"]
  /\ posted = {}

-----------------------------------------------------------------------------
(* What the document says                                                  *)

Heard(i) == inputs[i].turn # 0 /\ ~inputs[i].unread
Pending == \E i \in Ids : ~Heard(i)
AssessmentBlocked == \E i \in Ids : ~Heard(i) \/ inputs[i].view \in {"none", "uncertain"}

Edges == {<<i, inputs[i].target>> : i \in {j \in Ids : inputs[j].kind = "amend"}}

(* What a walk along a set of edges reaches from an input.                 *)
Reach(i, edges) ==
  {j \in Ids : \A C \in SUBSET Ids :
     (i \in C /\ \A e \in edges : e[1] \in C => e[2] \in C) => j \in C}

EvidenceLineage(i) == Reach(i, Edges \cup corrects)

Revises(i, j) ==
  \/ inputs[i].kind = "amend" /\ EvidenceLineage(i) \cap EvidenceLineage(j) # {}
  \/ <<i, j>> \in corrects

ResolutionCurrent(d) ==
  \/ d.obsolete
  \/ \A i \in Ids :
       \/ i \in d.cites \cup d.considered
       \/ \E c \in d.cites : i \in Reach(c, Edges)
       \/ \A c \in d.cites : ~Revises(i, c)

DecisionsOf(round) == {k \in DOMAIN decisions : round \in decisions[k].rounds}
Last(K) == CHOOSE k \in K : \A l \in K : l <= k
Decided(round) ==
  DecisionsOf(round) # {} /\ ResolutionCurrent(decisions[Last(DecisionsOf(round))])

CanRevise(round, d) ==
  LET old == decisions[Last(DecisionsOf(round))]
  IN  DecisionsOf(round) # {} /\ ~old.obsolete /\ ~d.obsolete
        => \E i \in d.cites, j \in old.cites : Revises(i, j)

(* The effective decision of a question is the last one made about it in   *)
(* any published round.                                                    *)
Effective(q) ==
  {k \in DOMAIN decisions :
     \E r \in decisions[k].rounds : rounds[r].question = q /\ rounds[r].published}

Unresolved ==
  \/ \E r \in DOMAIN rounds :
       LET made == Effective(rounds[r].question)
       IN  made # {} /\ ~ResolutionCurrent(decisions[Last(made)])
  \/ current # 0 /\ ~Decided(current)

AwaitingPlanConfirmation ==
  /\ plan.current # 0 /\ plan.revisions[plan.current].proposed /\ plan.ready = 0
  /\ ~Unresolved /\ ~AssessmentBlocked

(* PlanningValidationCurrent: authority is checked again at settlement.    *)
ValidationCurrent(v) ==
  /\ v.turn = planner.id /\ v.revision = plan.current
  /\ ~Pending /\ ~AssessmentBlocked /\ ~Unresolved
  /\ v.confirmation \notin plan.withdrawn /\ inputs[v.confirmation].view = "confirmed"
  /\ Ids \subseteq v.considered

-----------------------------------------------------------------------------
(* People                                                                  *)

Accepted(kind, target) ==
  CASE kind = "steer"   -> target = 0
    [] kind = "amend"   -> target \in Ids
    [] kind = "answer"  -> /\ target \in DOMAIN rounds /\ ~rounds[target].failed
                           /\ ~rounds[target].superseded
    [] kind = "confirm" -> /\ target # 0 /\ target = plan.current /\ plan.ready = 0
                           /\ plan.revisions[target].proposed

(* AdmitHumanInput: the input joins the document, and without a Turn one   *)
(* is enqueued to hear it.                                                 *)
AdmitHumanInput(kind, target) ==
  /\ Len(inputs) < MaxInput /\ planner.status \notin Closed
  /\ Accepted(kind, target)
  /\ inputs' = Append(inputs, [kind |-> kind, target |-> target, turn |-> 0,
                               unread |-> FALSE, view |-> "none"])
  /\ planner' = IF planner.status = "none" THEN [planner EXCEPT !.status = "queued"]
                                           ELSE planner
  /\ UNCHANGED <<corrects, rounds, current, decisions, plan, posted>>

-----------------------------------------------------------------------------
(* The Turn hears them                                                     *)

(* prepareCollaborationTx freezes all pending input; contents too large    *)
(* for the envelope stay unread until every record was retrieved.          *)
PrepareCollaboration(large) ==
  /\ planner.status = "queued" /\ planner.id < MaxTurn
  /\ planner' = [id |-> planner.id + 1, status |-> "running", call |-> NoCall, ended |-> "none"]
  /\ inputs' = [i \in Ids |-> IF Heard(i) THEN inputs[i]
                              ELSE [inputs[i] EXCEPT !.turn = planner.id + 1, !.unread = large]]
  /\ UNCHANGED <<corrects, rounds, current, decisions, plan, posted>>

Working == planner.status = "running" /\ planner.call = NoCall

(* recordCollaborationDeliveryTx: the last chunk of an omitted record.     *)
RecordCollaborationDelivery(i) ==
  /\ planner.status = "running" /\ inputs[i].turn = planner.id /\ inputs[i].unread
  /\ inputs' = [inputs EXCEPT ![i].unread = FALSE]
  /\ UNCHANGED <<corrects, rounds, current, decisions, plan, planner, posted>>

(* Assess: an explicit interpretation of one heard input, possibly as the  *)
(* correction of an earlier one.  Doubt about a confirmation, or an        *)
(* explicit withdrawal, takes back every confirmation accepted so far.     *)
AssessHumanInput(i, view, prior, invalidate) ==
  LET withdraws == invalidate \/ (inputs[i].kind = "confirm" /\ view # "confirmed")
  IN  /\ Working /\ Heard(i)
      /\ view = "confirmed" => inputs[i].kind = "confirm"
      /\ prior # 0 => prior # i /\ Heard(prior)
      /\ inputs' = [inputs EXCEPT ![i].view = view]
      /\ corrects' = IF view = "changed" /\ prior # 0 THEN corrects \cup {<<i, prior>>}
                                                      ELSE corrects
      /\ plan' = IF withdraws /\ plan.ready = 0
                 THEN [plan EXCEPT !.withdrawn = @ \cup {c \in 1 .. i : inputs[c].kind = "confirm"}]
                 ELSE plan
      /\ UNCHANGED <<rounds, current, decisions, planner, posted>>

(* What an interpretation of round r may cite.                             *)
InScope(i, r) ==
  \/ \E j \in Reach(i, Edges) :
       \/ inputs[j].kind \in {"steer", "confirm"}
       \/ /\ inputs[j].kind = "answer"
          /\ rounds[inputs[j].target].question = rounds[r].question
  \/ \E k \in DecisionsOf(r) : \E j \in decisions[k].cites : Revises(i, j)

(* Resolve: the Planner decides the question of a round.  A decision in    *)
(* force is only revised by an amendment or an assessed correction; one    *)
(* made in a replaced round also governs the same question of the current  *)
(* round.                                                                  *)
ResolveClarification(r, cites, obsolete) ==
  LET considered == {i \in Ids : Heard(i) /\ \E c \in cites : Revises(i, c)}
      carried == rounds[r].superseded /\ current # 0
                 /\ rounds[current].question = rounds[r].question
      d == [rounds |-> IF carried THEN {r, current} ELSE {r},
            cites |-> cites, considered |-> considered, obsolete |-> obsolete]
  IN  /\ Working /\ Len(decisions) < MaxDecision
      /\ rounds[r].published
      /\ cites # {} \/ obsolete
      /\ rounds[r].superseded => DecisionsOf(r) # {}
      /\ CanRevise(r, d)
      /\ carried => CanRevise(current, d)
      /\ \A i \in cites : Heard(i) /\ InScope(i, r)
      /\ ResolutionCurrent(d)
      /\ decisions' = Append(decisions, d)
      /\ UNCHANGED <<inputs, corrects, rounds, current, plan, planner, posted>>

-----------------------------------------------------------------------------
(* Publications                                                            *)

Unproven(rec) == ~rec.published /\ ~rec.failed
Settled(rec) == IF rec.rejected THEN [rec EXCEPT !.failed = TRUE] ELSE rec
NewRound(question) ==
  [turn |-> planner.id, artifact |-> FALSE, published |-> FALSE, rejected |-> FALSE, failed |-> FALSE,
   question |-> question, superseded |-> FALSE]
NewRevision(proposed) ==
  [turn |-> planner.id, artifact |-> FALSE, published |-> FALSE, rejected |-> FALSE, failed |-> FALSE,
   proposed |-> proposed]
Call(kind, n) == [planner EXCEPT !.call = [kind |-> kind, n |-> n, at |-> "reserved"]]
EndedBy(outcome) == IF planner.ended = "none" THEN outcome ELSE "both"

(* RequestClarification without questions: yield to input that arrived or  *)
(* to the confirmation that is awaited.                                    *)
Yield ==
  /\ Working
  /\ (Pending \/ AwaitingPlanConfirmation)
  /\ planner' = [planner EXCEPT !.ended = EndedBy("wait")]
  /\ UNCHANGED <<inputs, corrects, rounds, current, decisions, plan, posted>>

(* Request: one round at a time; a round proven rejected is failed first.  *)
(* The question of the current round is carried, with a decision still in  *)
(* force, or replaced by a new one.                                        *)
RequestClarification(carry) ==
  LET known == [r \in DOMAIN rounds |-> Settled(rounds[r])]
      n     == Len(rounds) + 1
      keeps == carry /\ current # 0
  IN  /\ Working /\ n <= MaxRound
      /\ \A r \in DOMAIN known : ~Unproven(known[r])
      /\ carry => current # 0
      /\ rounds' = Append(known, NewRound(IF keeps THEN rounds[current].question ELSE n))
      /\ decisions' = IF keeps /\ Decided(current)
                      THEN [decisions EXCEPT ![Last(DecisionsOf(current))].rounds = @ \cup {n}]
                      ELSE decisions
      /\ planner' = Call("round", n)
      /\ UNCHANGED <<inputs, corrects, current, plan, posted>>

(* ReserveCheckpoint: input that is unread or arrived late keeps the plan  *)
(* from being published; a proposal needs every input assessed and every   *)
(* question decided.                                                       *)
ReservePlanningCheckpoint(proposed) ==
  LET known == [r \in DOMAIN plan.revisions |-> Settled(plan.revisions[r])]
  IN  /\ Working /\ Len(known) < MaxCheckpoint /\ plan.ready = 0
      /\ \A r \in DOMAIN known : ~Unproven(known[r])
      /\ ~Pending
      /\ proposed => ~AssessmentBlocked /\ ~Unresolved
      /\ plan' = [plan EXCEPT !.revisions = Append(known, NewRevision(proposed))]
      /\ planner' = Call("plan", Len(known) + 1)
      /\ UNCHANGED <<inputs, corrects, rounds, current, decisions, posted>>

(* The publication the call is about, and the same with one field set.     *)
Publication ==
  IF planner.call.kind = "plan" THEN plan.revisions[planner.call.n] ELSE rounds[planner.call.n]

Rewrite(rec) ==
  /\ plan' = IF planner.call.kind = "plan"
             THEN [plan EXCEPT !.revisions[planner.call.n] = rec] ELSE plan
  /\ rounds' = IF planner.call.kind = "round"
               THEN [rounds EXCEPT ![planner.call.n] = rec] ELSE rounds

CallMoves(at) == planner' = [planner EXCEPT !.call.at = at]

(* RejectPlanningPublication: the complete pair exceeds one comment.       *)
RejectPlanningPublication ==
  /\ planner.status = "running" /\ planner.call.at = "reserved" /\ planner.call.kind = "plan"
  /\ Rewrite([Publication EXCEPT !.failed = TRUE])
  /\ planner' = [planner EXCEPT !.call = NoCall]
  /\ UNCHANGED <<inputs, corrects, current, decisions, posted>>

(* SaveCollaborationArtifact commits the exact bytes under the Turn lease. *)
SaveCollaborationArtifact ==
  /\ planner.status = "running" /\ planner.call.at = "reserved"
  /\ Rewrite([Publication EXCEPT !.artifact = TRUE])
  /\ CallMoves("frozen")
  /\ UNCHANGED <<inputs, corrects, current, decisions, posted>>

(* The comment is posted, without a lease; the answer may be lost.         *)
PostComment(answered) ==
  /\ planner.call.at = "frozen"
  /\ posted' = posted \cup {<<planner.call.kind, planner.call.n>>}
  /\ CallMoves(IF answered THEN "answered" ELSE "unanswered")
  /\ UNCHANGED <<inputs, corrects, rounds, current, decisions, plan>>

(* GitHub refuses it: the ledger records the mutation as FAILED.           *)
RefuseComment ==
  /\ planner.status = "running" /\ planner.call.at = "frozen"
  /\ Rewrite([Publication EXCEPT !.rejected = TRUE])
  /\ planner' = [planner EXCEPT !.call = NoCall]
  /\ UNCHANGED <<inputs, corrects, current, decisions, posted>>

(* Publish and ConfirmCheckpoint: the publication becomes the current one, *)
(* and a replaced round is closed to answers.                              *)
Confirmed ==
  LET n == planner.call.n
  IN  IF planner.call.kind = "plan"
      THEN /\ plan' = [plan EXCEPT !.revisions[n].published = TRUE, !.current = n]
           /\ UNCHANGED <<rounds, current>>
      ELSE /\ rounds' = [r \in DOMAIN rounds |->
                           IF r = n THEN [rounds[r] EXCEPT !.published = TRUE]
                           ELSE IF r = current THEN [rounds[r] EXCEPT !.superseded = TRUE]
                           ELSE rounds[r]]
           /\ current' = n
           /\ UNCHANGED plan

(* The call returns: a round ends the Turn with the wait for its answers.  *)
Returned ==
  planner' = [planner EXCEPT
    !.call  = NoCall,
    !.ended = IF planner.call.kind = "round" THEN EndedBy("wait") ELSE planner.ended]

(* Confirmation holds the Workflow lock, not the lease.                    *)
ConfirmPublication ==
  /\ planner.call.at = "answered" /\ ~Publication.failed
  /\ Confirmed /\ Returned
  /\ UNCHANGED <<inputs, corrects, decisions, posted>>

-----------------------------------------------------------------------------
(* The end of planning, and of the Turn                                    *)

(* CompletePlanning: ReserveMutation and ValidatePlanning ask for the same *)
(* authority; the validation remembers what it considered.                 *)
CompletePlanning(c) ==
  /\ Working /\ plan.current # 0 /\ plan.revisions[plan.current].proposed /\ plan.ready = 0
  /\ ~Pending /\ ~Unresolved /\ ~AssessmentBlocked
  /\ \A v \in DOMAIN plan.checked : plan.checked[v].turn # planner.id
  /\ inputs[c].kind = "confirm" /\ inputs[c].target = plan.current
  /\ c \notin plan.withdrawn /\ inputs[c].view = "confirmed"
  /\ plan' = [plan EXCEPT !.checked = Append(@,
                [turn |-> planner.id, revision |-> plan.current, confirmation |-> c,
                 considered |-> Ids])]
  /\ planner' = [planner EXCEPT !.ended = EndedBy("ready")]
  /\ UNCHANGED <<inputs, corrects, rounds, current, decisions, posted>>

(* The lease expires or the process dies; recovery stops the runtime and   *)
(* closes the admission of mutations.                                      *)
StopTurn ==
  /\ planner.status = "running"
  /\ planner' = [planner EXCEPT !.status = "stopped"]
  /\ UNCHANGED <<inputs, corrects, rounds, current, decisions, plan, posted>>

(* ReconcileClarificationNonPublication, ReconcilePlanningNonPublication:  *)
(* nothing was posted before the bytes were frozen.                        *)
ReconcileNonPublication ==
  /\ planner.status = "stopped" /\ planner.call # NoCall
  /\ ~Publication.published /\ ~Publication.artifact
  /\ Rewrite([Publication EXCEPT !.failed = TRUE])
  /\ planner' = [planner EXCEPT !.call = NoCall]
  /\ UNCHANGED <<inputs, corrects, current, decisions, posted>>

(* Reconcile: the exact comment was found on the Issue.                    *)
ReconcilePublication ==
  /\ planner.status = "stopped" /\ planner.call # NoCall
  /\ Publication.artifact /\ <<planner.call.kind, planner.call.n>> \in posted
  /\ Confirmed /\ Returned
  /\ UNCHANGED <<inputs, corrects, decisions, posted>>

(* The outcome that fenceCollaborationSettlementTx leaves standing.        *)
Waits ==
  \/ planner.ended = "wait"
  \/ planner.ended = "ready" /\ (Pending \/ AssessmentBlocked \/ Unresolved)

(* A mutant of SettleWait: what came in meanwhile waits for the next answer.*)
SettleWaitForPeople ==
  /\ planner.status \in {"running", "stopped"} /\ planner.call = NoCall /\ Waits
  /\ planner' = [planner EXCEPT !.status = "none"]
  /\ UNCHANGED <<inputs, corrects, rounds, current, decisions, plan, posted>>

(* clarificationWaitDecision: with input pending, the next Turn follows.   *)
SettleWait ==
  /\ planner.status \in {"running", "stopped"} /\ planner.call = NoCall /\ Waits
  /\ planner' = [planner EXCEPT !.status = IF Pending THEN "queued" ELSE "none"]
  /\ UNCHANGED <<inputs, corrects, rounds, current, decisions, plan, posted>>

SettleReady ==
  /\ planner.status \in {"running", "stopped"} /\ planner.call = NoCall
  /\ planner.ended = "ready" /\ ~Waits
  /\ \E v \in DOMAIN plan.checked : ValidationCurrent(plan.checked[v])
  /\ plan' = [plan EXCEPT !.ready = plan.current]
  /\ planner' = [planner EXCEPT !.status = "done"]
  /\ UNCHANGED <<inputs, corrects, rounds, current, decisions, posted>>

(* A Turn without one outcome that stands is retried, or handed to people; *)
(* a publication that stays unproven is handed to them as it is.           *)
SettleFailed(retry) ==
  /\ \/ planner.status = "stopped"
     \/ planner.status = "running" /\ planner.ended \in {"none", "both"}
  /\ planner.call # NoCall => planner.status = "stopped" /\ ~retry
  /\ planner' = [planner EXCEPT !.status = IF retry THEN "queued" ELSE "handed"]
  /\ UNCHANGED <<inputs, corrects, rounds, current, decisions, plan, posted>>

CollaborationNext ==
  \/ \E kind \in Commands, target \in 0 .. MaxInput + MaxRound :
       AdmitHumanInput(kind, target)
  \/ \E large \in BOOLEAN : PrepareCollaboration(large)
  \/ \E i \in Ids : RecordCollaborationDelivery(i)
  \/ \E i \in Ids, view \in {"changed", "unchanged", "uncertain", "confirmed"},
        prior \in 0 .. Len(inputs), invalidate \in BOOLEAN : AssessHumanInput(i, view, prior, invalidate)
  \/ \E r \in DOMAIN rounds, cites \in SUBSET Ids, obsolete \in BOOLEAN :
       ResolveClarification(r, cites, obsolete)
  \/ Yield \/ \E carry \in BOOLEAN : RequestClarification(carry)
  \/ \E proposed \in BOOLEAN : ReservePlanningCheckpoint(proposed)
  \/ RejectPlanningPublication \/ SaveCollaborationArtifact
  \/ \E answered \in BOOLEAN : PostComment(answered)
  \/ RefuseComment \/ ConfirmPublication
  \/ \E c \in Ids : CompletePlanning(c)
  \/ StopTurn \/ ReconcileNonPublication \/ ReconcilePublication
  \/ SettleWait \/ SettleReady \/ \E retry \in BOOLEAN : SettleFailed(retry)

-----------------------------------------------------------------------------
(* Planning is finished with a confirmation somebody gave for exactly the  *)
(* current plan and has not taken back since, when everything anybody said *)
(* was read and assessed and every question stands decided: what arrives   *)
(* between complete_planning and the settlement is not passed over.        *)
ReadyPlanIsConfirmed ==
  plan.ready # 0 =>
    /\ \E c \in Ids : /\ inputs[c].kind = "confirm" /\ inputs[c].target = plan.ready
                      /\ inputs[c].view = "confirmed" /\ c \notin plan.withdrawn
    /\ \A i \in Ids : Heard(i) /\ inputs[i].view # "uncertain"
    /\ current # 0 => Decided(current)

(* No input is left waiting without a Turn to hear it: whoever comes last, *)
(* the settlement of a Turn or the admission of the input, brings the next *)
(* Turn about.                                                             *)
EveryInputHasATurn == Pending => planner.status \notin {"none", "done"}

(* A comment people can see on the Issue is never written off as failed,   *)
(* whatever became of the process that posted it.                          *)
VisibleIsNotFailed ==
  \A p \in posted :
    ~(IF p[1] = "plan" THEN plan.revisions[p[2]].failed ELSE rounds[p[2]].failed)

(* What people said and what they were shown both count                    *)
(* (CompletePlanning, fenceCollaborationSettlementTx, AdmitHumanInput,     *)
(* the reconciliation of a publication).                                   *)
NothingSaidIsPassedOver == ReadyPlanIsConfirmed /\ EveryInputHasATurn /\ VisibleIsNotFailed
=============================================================================
