----------------------- MODULE WorkflowReducerProofs -----------------------
(***************************************************************************)
(* What the Workflow Reducer (src/internal/workflow) decides, for every    *)
(* Snapshot and event: the lemmas the proofs about the Work Item stand on. *)
(*                                                                         *)
(*   WebhookReduced     labels, closures, reviews and pushes               *)
(*   PushWaits,         a push behind a running turn is put off, one past a *)
(*     PushRevokes      ready commit is taken                              *)
(*   EscalationReduced, reports to a person                                *)
(*     PreparationReduced                                                  *)
(*   ClosureReduced     the settlement of a closure                        *)
(*   SettlementReduced  the settlement of a turn, whatever its outcome     *)
(*   WebhookTotal,      the handlers answer a Snapshot the store may keep: *)
(*     SettlementTotal  Reduce's check of its result rejects none          *)
(***************************************************************************)
EXTENDS WorkflowReducer, TLAPS

WebhookEvent ==
    [kind : {"TRIGGER"}, revision : Nat, attempt : Nat, planningOnly : BOOLEAN,
     planningCompleted : BOOLEAN, prior : {NoPrior}]
    \cup [kind : {"SYNCHRONIZATION"}, revision : Nat, pr : PRs, previous : Heads \cup {NoHead}, head : Heads]
    \cup [kind : {"ISSUE_CLOSED"}, revision : Nat, closure : Nat]
    \cup [kind : {"ISSUE_REOPENED", "REVIEW_OBSERVED"}, revision : Nat]

Headed(s) == HasProposal(s) <=> s.head # NoHead

WebhookSound(s, e, d) ==
    /\ d.disposition \in {"APPLIED", "DEFERRED", "REJECTED"}
    /\ d.snap \in Snapshot /\ ValidSnapshot(d.snap)
    /\ d.disposition # "APPLIED" => d.snap = s
    /\ d.disposition = "DEFERRED" => HasTurn(s) /\ s.state \in ActiveStates
    /\ d.disposition = "APPLIED" =>
          /\ d.snap.revision = s.revision + 1 /\ d.snap.turn = s.turn
          /\ d.snap.waiting = s.waiting /\ d.snap.pr = s.pr
          /\ Headed(s) => Headed(d.snap)
          /\ d.snap.state # "PR_READY"
          /\ HasTurn(s) => d.snap.state = "CLOSING"
          /\ d.effects.intent.kind \in {"none", "turn"}
          /\ d.effects.intent.kind = "turn" =>
                /\ ~HasTurn(s) /\ d.snap.state \in ActiveStates
                /\ d.effects.intent.stage = d.snap.stage /\ d.effects.intent.head = d.snap.head
          /\ d.effects.intent.kind = "none" /\ d.snap.state \in ActiveStates =>
                HasProposal(s) /\ d.snap.state = s.state /\ d.snap.stage = s.stage /\ d.snap.attempt = s.attempt
          /\ d.effects.intent.kind = "none" /\ s.state \in ActiveStates \cup {"CLOSING"} =>
                d.snap.state \in ActiveStates \cup {"CLOSING"}
          /\ \/ d.snap.attempt = s.attempt /\ d.snap.usage = s.usage /\ d.snap.stage = s.stage
             \/ d.snap.attempt = s.attempt + 1 /\ d.snap.usage = 0 /\ e.kind = "TRIGGER"

\* A rejected webhook leaves the Workflow as it was.
LEMMA RejectedSound ==
    ASSUME NEW s \in Snapshot, ValidSnapshot(s), NEW e
    PROVE  WebhookSound(s, e, Rejected(s))
BY DEF WebhookSound, Rejected

\* Reduce either refuses, or takes the decision of the handler, whose Snapshot it has checked.
LEMMA ReduceCases ==
    ASSUME NEW s, NEW e
    PROVE  \/ Reduce(s, e) = Rejected(s)
           \/ /\ Reduce(s, e) = Dispatch(s, e)
              /\ ValidSnapshot(s) /\ ValidSnapshot(Dispatch(s, e).snap)
              /\ s.state = "ABSENT" => e.kind = "TRIGGER"
BY DEF Reduce

\* The Workflow nobody has activated.
LEMMA AbsentFacts == Absent.state = "ABSENT" /\ Absent.turn = NoTurn
BY DEF Absent

\* Every Stage has a Role and a state.
LEMMA StageFacts ==
    ASSUME NEW stage \in Stages
    PROVE  StageRole[stage] \in Roles /\ StageState[stage] \in ActiveStates
BY DEF Stages, Roles, StageRole, StageState, ActiveStates

\* What ValidSnapshot says of the states the lemmas tell apart.
LEMMA ActiveFacts ==
    ASSUME NEW s \in Snapshot, ValidSnapshot(s), s.state \in ActiveStates
    PROVE  /\ HasAttempt(s) /\ StageState[s.stage] = s.state /\ s.closure = 0 /\ s.attempt > 0
           /\ s.status = "ACTIVE" /\ s.runtime = "ACTIVE" /\ s.token = 0
           /\ s.retries <= RetryLimit /\ s.usage <= ReviewLimit
           /\ s.stage = "review" => s.usage < ReviewLimit /\ ValidChangeProposal(s)
           /\ s.stage \in Stages /\ (s.stage = "planning" <=> s.planningOnly)
           /\ s.planningOnly => ~HasProposal(s)
           /\ HasProposal(s) => s.ready = NoHead
           /\ HasTurn(s) => /\ s.turn.id > 0 /\ s.turn.attempt = s.attempt /\ s.turn.stage = s.stage
                            /\ s.turn.pr = s.pr /\ s.turn.head = s.head
<1>1. s # Absent
  BY AbsentFacts DEF ActiveStates
<1>2. /\ ValidAssignments(s) /\ ValidAttempt(s) /\ ValidStateShape(s)
      /\ s.planningOnly => ~HasProposal(s) /\ s.stage \in {"", "planning"}
      /\ ~s.planningOnly => s.stage # "planning"
      /\ HasProposal(s) /\ s.state # "PR_READY" => s.ready = NoHead
  BY <1>1 DEF ValidSnapshot
<1>3. HasAttempt(s) /\ s.attempt > 0 /\ s.retries <= RetryLimit /\ s.usage <= ReviewLimit
      /\ (s.state = "REVIEWING" => s.usage < ReviewLimit)
  BY <1>2 DEF ValidAttempt, AttemptStates
<1>4. s.stage \in Stages
  BY <1>3 DEF HasAttempt, Snapshot
<1>5. s.closure = 0 /\ (s.state = "REVIEWING" => ValidChangeProposal(s)) /\ StageState[s.stage] = s.state /\ ValidActiveTurn(s)
  BY <1>2 DEF ValidStateShape, ActiveStates
<1>6. s.stage = "review" => s.state = "REVIEWING"
  BY <1>5 DEF StageState
<1>7. s.status = "ACTIVE" /\ s.runtime = "ACTIVE" /\ s.token = 0
  BY <1>2 DEF ValidAssignments, ActiveStates
<1>8. s.state # "PR_READY"
  BY DEF ActiveStates
<1> QED BY <1>2, <1>3, <1>4, <1>5, <1>6, <1>7, <1>8 DEF Stages, ValidActiveTurn

\* What ValidSnapshot says of a Workflow whose commit is ready.
LEMMA ReadyFacts ==
    ASSUME NEW s \in Snapshot, ValidSnapshot(s), s.state = "PR_READY"
    PROVE  /\ HasAttempt(s) /\ s.closure = 0 /\ s.attempt > 0 /\ s.stage \in Stages
           /\ s.status = "ACTIVE" /\ s.runtime = "ACTIVE" /\ s.token = 0
           /\ s.retries <= RetryLimit /\ s.usage <= ReviewLimit
           /\ ~HasTurn(s) /\ ValidChangeProposal(s) /\ s.ready = s.head
           /\ ~s.planningOnly
<1>1. s # Absent
  BY AbsentFacts
<1>2. /\ ValidAssignments(s) /\ ValidAttempt(s) /\ ValidStateShape(s)
      /\ s.planningOnly => ~HasProposal(s) /\ s.stage \in {"", "planning"}
      /\ ~s.planningOnly => s.stage # "planning"
      /\ HasProposal(s) /\ s.state # "PR_READY" => s.ready = NoHead
  BY <1>1 DEF ValidSnapshot
<1>3. HasAttempt(s) /\ s.attempt > 0 /\ s.retries <= RetryLimit /\ s.usage <= ReviewLimit
  BY <1>2 DEF ValidAttempt, AttemptStates
<1>4. s.stage \in Stages
  BY <1>3 DEF HasAttempt, Snapshot
<1>5. s.closure = 0 /\ ~HasTurn(s) /\ ValidChangeProposal(s) /\ s.ready = s.head
  BY <1>2 DEF ValidStateShape, ActiveStates
<1>6. s.status = "ACTIVE" /\ s.runtime = "ACTIVE" /\ s.token = 0
  BY <1>2 DEF ValidAssignments, ActiveStates
<1> QED BY <1>2, <1>3, <1>4, <1>5, <1>6 DEF ValidChangeProposal, Snapshot

\* A turn belongs to the Attempt and the Stage, and only an active or closing Workflow has one.
LEMMA TurnFacts ==
    ASSUME NEW s \in Snapshot, ValidSnapshot(s), HasTurn(s)
    PROVE  /\ s.state \in ActiveStates \cup {"CLOSING"} /\ HasAttempt(s)
           /\ s.turn.id > 0 /\ s.turn.attempt = s.attempt /\ s.turn.stage = s.stage
           /\ s.stage \in Stages
<1>1. s # Absent
  BY AbsentFacts DEF HasTurn
<1>2. ValidAttempt(s) /\ ValidStateShape(s)
  BY <1>1 DEF ValidSnapshot
<1>3. CASE s.state \in ActiveStates
  BY <1>3, ActiveFacts
<1>4. CASE s.state = "CLOSING"
  <2>1. ValidClosingTurn(s)
    BY <1>2, <1>4 DEF ValidStateShape, ActiveStates
  <2> QED BY <2>1, <1>4 DEF ValidClosingTurn, HasAttempt, Snapshot
<1>5. CASE s.state \notin ActiveStates \cup {"CLOSING"}
  BY <1>2, <1>5 DEF ValidStateShape, ActiveStates
<1> QED BY <1>3, <1>4, <1>5

\* What an applied decision adds to the Snapshot is the revision; Applied leaves the rest alone.
LEMMA AppliedFields ==
    ASSUME NEW t \in Snapshot, NEW reason, NEW f
    PROVE  /\ Applied(t, reason, f).disposition = "APPLIED" /\ Applied(t, reason, f).effects = f
           /\ Applied(t, reason, f).snap \in Snapshot
           /\ Applied(t, reason, f).snap.revision = t.revision + 1
           /\ LET u == Applied(t, reason, f).snap
              IN  /\ u.planningOnly = t.planningOnly /\ u.waiting = t.waiting /\ u.state = t.state
                  /\ u.attempt = t.attempt /\ u.stage = t.stage /\ u.usage = t.usage /\ u.retries = t.retries
                  /\ u.pr = t.pr /\ u.head = t.head /\ u.ready = t.ready /\ u.turn = t.turn
                  /\ u.continuation = t.continuation /\ u.resume = t.resume /\ u.status = t.status
                  /\ u.runtime = t.runtime /\ u.token = t.token /\ u.closure = t.closure /\ u.reopen = t.reopen
<1>1. t.revision \in Nat
  BY Zenon DEF Snapshot
<1>2. t.revision + 1 \in Nat
  BY <1>1, SMT
<1>3. [t EXCEPT !.revision = t.revision + 1] \in Snapshot
  BY <1>2, Zenon DEF Snapshot
<1>4. /\ Applied(t, reason, f).disposition = "APPLIED" /\ Applied(t, reason, f).effects = f
      /\ Applied(t, reason, f).snap = [t EXCEPT !.revision = t.revision + 1]
  BY DEF Applied
<1> DEFINE u == [t EXCEPT !.revision = t.revision + 1]
<1>5. /\ u.planningOnly = t.planningOnly /\ u.waiting = t.waiting /\ u.state = t.state
      /\ u.attempt = t.attempt /\ u.stage = t.stage /\ u.usage = t.usage /\ u.retries = t.retries
      /\ u.pr = t.pr /\ u.head = t.head /\ u.ready = t.ready /\ u.turn = t.turn
  BY DEF Snapshot
<1>6. /\ u.continuation = t.continuation /\ u.resume = t.resume /\ u.status = t.status
      /\ u.runtime = t.runtime /\ u.token = t.token /\ u.closure = t.closure /\ u.reopen = t.reopen
      /\ u.revision = t.revision + 1
  BY DEF Snapshot
<1> QED BY <1>3, <1>4, <1>5, <1>6

\* An issue that is closed: the closure starts, and the turn stays for the settlement to stop.
LEMMA ClosedSound ==
    ASSUME NEW s \in Snapshot, ValidSnapshot(s), NEW e \in WebhookEvent, e.kind = "ISSUE_CLOSED"
    PROVE  WebhookSound(s, e, Reduce(s, e))
<1>1. CASE Reduce(s, e) = Rejected(s)
  BY <1>1, RejectedSound
<1>2. CASE Reduce(s, e) = ReduceIssueClosed(s, e) /\ ValidSnapshot(ReduceIssueClosed(s, e).snap)
            /\ ReduceIssueClosed(s, e) # Rejected(s)
  <2> DEFINE left == IF HasAttempt(s) THEN s.stage ELSE s.continuation
             role == IF HasTurn(s) THEN StageRole[s.turn.stage]
                     ELSE IF left # "" THEN StageRole[left] ELSE s.resume
             t == [s EXCEPT !.state = "CLOSING", !.continuation = left, !.resume = role,
                               !.closure = e.closure, !.reopen = FALSE, !.ready = NoHead]
             f == [NoEffects EXCEPT !.stop = IF HasTurn(s) THEN "STOP" ELSE "",
                                       !.settleClosure = TRUE, !.labels = "CLOSING"]
  <2>1. ReduceIssueClosed(s, e) = Applied(t, "closure_started", f) /\ Fresh(s, e) /\ s.state \in AttemptStates \cup {"DORMANT"}
    BY <1>2 DEF ReduceIssueClosed
  <2>2. left \in Stages \cup {""}
    BY DEF Snapshot, HasAttempt
  <2>3. HasTurn(s) => s.turn.stage \in Stages
    BY TurnFacts
  <2>4. role \in Roles \cup {""}
    <3> HIDE DEF left
    <3>1. s.resume \in Roles \cup {""}
      BY DEF Snapshot
    <3> QED BY <2>2, <2>3, <3>1, StageFacts
  <2>5. e.closure \in Nat
    BY DEF WebhookEvent
  <2>6. t \in Snapshot
    <3> HIDE DEF left, role
    <3>1. "CLOSING" \in States
      BY DEF States
    <3> QED BY <3>1, <2>2, <2>4, <2>5, ZenonT(60) DEF Snapshot
  <2>7. /\ t.state = "CLOSING" /\ t.attempt = s.attempt /\ t.usage = s.usage /\ t.stage = s.stage
        /\ t.turn = s.turn /\ t.waiting = s.waiting /\ t.pr = s.pr /\ t.head = s.head /\ t.revision = s.revision
    <3> HIDE DEF left, role
    <3> QED BY DEF Snapshot
  <2>8. f.intent.kind = "none"
    BY DEF NoEffects, NoIntent
  <2> HIDE DEF t, f
  <2>9. LET d == Applied(t, "closure_started", f) IN
        /\ d.disposition = "APPLIED" /\ d.effects = f /\ d.snap \in Snapshot
        /\ d.snap.state = "CLOSING" /\ d.snap.attempt = s.attempt /\ d.snap.usage = s.usage /\ d.snap.stage = s.stage
        /\ d.snap.turn = s.turn /\ d.snap.waiting = s.waiting /\ d.snap.pr = s.pr /\ d.snap.head = s.head
        /\ d.snap.revision = s.revision + 1
    BY <2>6, <2>7, AppliedFields
  <2> QED BY <1>2, <2>1, <2>8, <2>9 DEF WebhookSound, ActiveStates, Headed, HasProposal
<1> QED BY <1>1, <1>2, ReduceCases DEF Dispatch

\* A webhook that is put off behind the turn leaves the Workflow as it was.
LEMMA DeferredSound ==
    ASSUME NEW s \in Snapshot, ValidSnapshot(s), NEW e, HasTurn(s), s.state \in ActiveStates
    PROVE  WebhookSound(s, e, Deferred(s))
BY DEF WebhookSound, Deferred

\* An observed review waits for a turn or is dropped.
LEMMA ObservationSound ==
    ASSUME NEW s \in Snapshot, ValidSnapshot(s), NEW e \in WebhookEvent, e.kind = "REVIEW_OBSERVED"
    PROVE  WebhookSound(s, e, Reduce(s, e))
<1>1. Reduce(s, e) = Rejected(s) \/ Reduce(s, e) = ReduceObservation(s, e)
  BY ReduceCases DEF Dispatch
<1> QED BY <1>1, RejectedSound, DeferredSound DEF ReduceObservation

\* An issue that is reopened, during its closure or after it.
LEMMA ReopenedSound ==
    ASSUME NEW s \in Snapshot, ValidSnapshot(s), NEW e \in WebhookEvent, e.kind = "ISSUE_REOPENED"
    PROVE  WebhookSound(s, e, Reduce(s, e))
<1> DEFINE cancelled == [s EXCEPT !.reopen = TRUE]
           dormant   == [s EXCEPT !.state = "DORMANT", !.token = 0]
           f1 == [NoEffects EXCEPT !.retention = "CANCEL", !.labels = "CLOSING"]
           f2 == [NoEffects EXCEPT !.retention = IF s.token # 0 THEN "CANCEL" ELSE "", !.labels = "DORMANT"]
           d1 == Applied(cancelled, "closure_cancellation_recorded", f1)
           d2 == Applied(dormant, "issue_reopened", f2)
<1>1. \/ Reduce(s, e) = Rejected(s)
      \/ /\ Reduce(s, e) = ReduceIssueReopened(s, e)
         /\ ValidSnapshot(ReduceIssueReopened(s, e).snap)
  BY ReduceCases DEF Dispatch
<1>2. \/ Reduce(s, e) = Rejected(s)
      \/ Reduce(s, e) = Deferred(s) /\ HasTurn(s) /\ s.state \in ActiveStates
      \/ Reduce(s, e) = d1 /\ ValidSnapshot(d1.snap) /\ s.state = "CLOSING"
      \/ Reduce(s, e) = d2 /\ ValidSnapshot(d2.snap) /\ s.state = "CLOSED"
  BY <1>1 DEF ReduceIssueReopened
<1>3. ASSUME Reduce(s, e) = d1, ValidSnapshot(d1.snap), s.state = "CLOSING"
      PROVE  WebhookSound(s, e, Reduce(s, e))
  <2>1. cancelled \in Snapshot
    BY Zenon DEF Snapshot
  <2>2. /\ cancelled.state = s.state /\ cancelled.attempt = s.attempt /\ cancelled.usage = s.usage
        /\ cancelled.stage = s.stage /\ cancelled.turn = s.turn /\ cancelled.waiting = s.waiting
        /\ cancelled.pr = s.pr /\ cancelled.head = s.head /\ cancelled.revision = s.revision
    BY DEF Snapshot
  <2>3. f1.intent.kind = "none"
    BY DEF NoEffects, NoIntent
  <2> HIDE DEF cancelled, f1
  <2> QED BY <1>3, <2>1, <2>2, <2>3, AppliedFields DEF WebhookSound, ActiveStates, Headed, HasProposal
<1>4. ASSUME Reduce(s, e) = d2, ValidSnapshot(d2.snap), s.state = "CLOSED"
      PROVE  WebhookSound(s, e, Reduce(s, e))
  <2>1. dormant \in Snapshot
    <3>1. "DORMANT" \in States /\ 0 \in Nat
      BY DEF States
    <3> QED BY <3>1, Zenon DEF Snapshot
  <2>2. /\ dormant.state = "DORMANT" /\ dormant.attempt = s.attempt /\ dormant.usage = s.usage
        /\ dormant.stage = s.stage /\ dormant.turn = s.turn /\ dormant.waiting = s.waiting
        /\ dormant.pr = s.pr /\ dormant.head = s.head /\ dormant.revision = s.revision
    BY DEF Snapshot
  <2>3. f2.intent.kind = "none"
    BY DEF NoEffects, NoIntent
  <2>4. ~HasTurn(s)
    BY <1>4, TurnFacts DEF ActiveStates
  <2> HIDE DEF dormant, f2
  <2> QED BY <1>4, <2>1, <2>2, <2>3, <2>4, AppliedFields DEF WebhookSound, ActiveStates, Headed, HasProposal
<1> HIDE DEF d1, d2
<1> QED BY <1>2, <1>3, <1>4, RejectedSound, DeferredSound

\* The fields an activation sets, in the halves the prover takes at a time.
LEMMA EntryType ==
    ASSUME NEW s \in Snapshot, NEW p \in BOOLEAN, NEW state \in States, NEW attempt \in Nat, NEW stage \in Stages \cup {""}
    PROVE  [s EXCEPT !.planningOnly = p, !.state = state, !.attempt = attempt, !.stage = stage,
                     !.usage = 0, !.retries = 0, !.turn = NoTurn] \in Snapshot
<1>1. 0 \in Nat /\ NoTurn \in Turn
  BY DEF Turn, NoTurn
<1> QED BY <1>1, Zenon DEF Snapshot

\* The other half of the fields an activation sets.
LEMMA ResetType ==
    ASSUME NEW s \in Snapshot
    PROVE  [s EXCEPT !.continuation = "", !.closure = 0, !.reopen = FALSE, !.ready = NoHead,
                     !.status = "ACTIVE", !.runtime = "ACTIVE", !.token = 0, !.resume = ""] \in Snapshot
<1>1. 0 \in Nat
  OBVIOUS
<1> QED BY <1>1, Zenon DEF Snapshot

\* What a new Attempt resets.
Renewed(s, p, state, attempt, stage) ==
    [s EXCEPT !.planningOnly = p, !.state = state,
              !.attempt = attempt, !.stage = stage, !.usage = 0, !.retries = 0,
              !.turn = NoTurn, !.continuation = "", !.closure = 0, !.reopen = FALSE, !.ready = NoHead,
              !.status = "ACTIVE", !.runtime = "ACTIVE", !.token = 0, !.resume = ""]

\* An activation leaves a Snapshot behind.
LEMMA NewAttemptType ==
    ASSUME NEW s \in Snapshot, NEW p \in BOOLEAN, NEW state \in States, NEW attempt \in Nat, NEW stage \in Stages \cup {""}
    PROVE  Renewed(s, p, state, attempt, stage) \in Snapshot
<1> DEFINE t1 == [s EXCEPT !.planningOnly = p, !.state = state, !.attempt = attempt, !.stage = stage,
                           !.usage = 0, !.retries = 0, !.turn = NoTurn]
           t2 == [t1 EXCEPT !.continuation = "", !.closure = 0, !.reopen = FALSE, !.ready = NoHead,
                            !.status = "ACTIVE", !.runtime = "ACTIVE", !.token = 0, !.resume = ""]
<1>1. t1 \in Snapshot
  BY EntryType
<1>2. t2 \in Snapshot
  <2> HIDE DEF t1
  <2> QED BY <1>1, ResetType
<1> QED BY <1>2, Zenon DEF Renewed

\* A label that activates a Workflow, or gives it a new Attempt.
LEMMA TriggerSound ==
    ASSUME NEW s \in Snapshot, ValidSnapshot(s), NEW e \in WebhookEvent, e.kind = "TRIGGER"
    PROVE  WebhookSound(s, e, Reduce(s, e))
<1> DEFINE stage     == EntryStage(s, e)
           completed == [s EXCEPT !.state = "PLAN_READY", !.resume = "", !.status = "ACTIVE"]
           deferLabels == HasProposal(s) /\ s.state \in {"NEEDS_HUMAN", "PR_READY"}
           f1 == [NoEffects EXCEPT !.labels = "PLAN_READY"]
           f2 == [NoEffects EXCEPT
                    !.attempt = IF HasAttempt(s) THEN "superseded" ELSE "",
                    !.assignments = AssignmentMode(s),
                    !.labels = IF deferLabels THEN "" ELSE StageState[stage],
                    !.intent = EnqueueTurn(stage, EntryPurpose(s, e), s.head)]
           d1 == Applied(completed, "triggered", f1)
           d2 == Applied(NewAttempt(s, e), "triggered", f2)
<1>1. \/ Reduce(s, e) = Rejected(s)
      \/ /\ Reduce(s, e) = ReduceTrigger(s, e)
         /\ ValidSnapshot(ReduceTrigger(s, e).snap)
  BY ReduceCases DEF Dispatch
<1>2. e.prior = NoPrior /\ e.prior.blocked = FALSE /\ e.attempt \in Nat /\ e.planningOnly \in BOOLEAN
  <2>1. e \in [kind : {"TRIGGER"}, revision : Nat, attempt : Nat, planningOnly : BOOLEAN,
                planningCompleted : BOOLEAN, prior : {NoPrior}]
    BY DEF WebhookEvent
  <2>2. e.prior = NoPrior /\ e.attempt \in Nat /\ e.planningOnly \in BOOLEAN
    BY <2>1, Zenon
  <2>3. NoPrior.blocked = FALSE
    BY DEF NoPrior
  <2> QED BY <2>2, <2>3
<1>3. ~Revalidates(s, e)
  BY <1>2 DEF Revalidates
<1>4. \/ Reduce(s, e) = Rejected(s)
      \/ Reduce(s, e) = Deferred(s) /\ HasTurn(s) /\ s.state \in ActiveStates
      \/ Reduce(s, e) = d1 /\ ValidSnapshot(d1.snap) /\ s.state = "NEEDS_HUMAN"
      \/ /\ Reduce(s, e) = d2 /\ ValidSnapshot(d2.snap)
         /\ s.state \in {"ABSENT", "DORMANT", "PR_READY", "NEEDS_HUMAN"} /\ e.attempt = s.attempt + 1
  BY <1>1, <1>2, <1>3 DEF ReduceTrigger
<1>5. ASSUME Reduce(s, e) = d1, ValidSnapshot(d1.snap), s.state = "NEEDS_HUMAN"
      PROVE  WebhookSound(s, e, Reduce(s, e))
  <2>1. completed \in Snapshot
    <3>1. "PLAN_READY" \in States
      BY DEF States, AttemptStates
    <3> QED BY <3>1, Zenon DEF Snapshot
  <2>2. /\ completed.state = "PLAN_READY" /\ completed.attempt = s.attempt /\ completed.usage = s.usage
        /\ completed.stage = s.stage /\ completed.turn = s.turn /\ completed.waiting = s.waiting
        /\ completed.pr = s.pr /\ completed.head = s.head /\ completed.revision = s.revision
    BY DEF Snapshot
  <2>3. f1.intent.kind = "none"
    BY DEF NoEffects, NoIntent
  <2>4. ~HasTurn(s)
    BY <1>5, TurnFacts DEF ActiveStates
  <2> HIDE DEF completed, f1
  <2> QED BY <1>5, <2>1, <2>2, <2>3, <2>4, AppliedFields DEF WebhookSound, ActiveStates, Headed, HasProposal
<1>6. ASSUME Reduce(s, e) = d2, ValidSnapshot(d2.snap), e.attempt = s.attempt + 1,
             s.state \in {"ABSENT", "DORMANT", "PR_READY", "NEEDS_HUMAN"}
      PROVE  WebhookSound(s, e, Reduce(s, e))
  <2>1. stage \in Stages
    BY <1>2 DEF EntryStage, WantedStage, HasAttempt, Snapshot, Stages
  <2>2. StageState[stage] \in ActiveStates
    BY <2>1, StageFacts
  <2>3. ~HasTurn(s)
    BY <1>6, TurnFacts DEF ActiveStates
  <2> HIDE DEF stage
  <2> DEFINE t == [s EXCEPT !.planningOnly = s.planningOnly \/ e.planningOnly, !.state = StageState[stage],
                  !.attempt = e.attempt, !.stage = stage, !.usage = 0, !.retries = 0,
                  !.turn = NoTurn, !.continuation = "", !.closure = 0, !.reopen = FALSE, !.ready = NoHead,
                  !.status = "ACTIVE", !.runtime = "ACTIVE", !.token = 0, !.resume = ""]
  <2>4. NewAttempt(s, e) = t
    BY DEF NewAttempt, stage
  <2>5. t \in Snapshot
    <3>1. StageState[stage] \in States /\ NoTurn \in Turn /\ 0 \in Nat /\ s.planningOnly \in BOOLEAN
      BY <2>2 DEF States, AttemptStates, NoTurn, Turn, Snapshot
    <3>2. (s.planningOnly \/ e.planningOnly) \in BOOLEAN
      BY <3>1, <1>2, Zenon
    <3> DEFINE only == s.planningOnly \/ e.planningOnly
               state == StageState[stage]
               attempt == e.attempt
    <3>3. only \in BOOLEAN /\ state \in States /\ attempt \in Nat /\ stage \in Stages \cup {""}
      BY <1>2, <2>1, <3>1, <3>2
    <3>4. t = Renewed(s, only, state, attempt, stage)
      BY Zenon DEF Renewed
    <3> HIDE DEF t, only, state, attempt
    <3>5. Renewed(s, only, state, attempt, stage) \in Snapshot
      BY <3>3, NewAttemptType
    <3> QED BY <3>4, <3>5
  <2>6. /\ t.state = StageState[stage] /\ t.attempt = e.attempt /\ t.usage = 0 /\ t.stage = stage
        /\ t.turn = NoTurn /\ t.waiting = s.waiting
        /\ t.pr = s.pr /\ t.head = s.head /\ t.revision = s.revision
    BY DEF Snapshot
  <2>7. f2.intent = EnqueueTurn(stage, EntryPurpose(s, e), s.head)
    BY DEF NoEffects, stage
  <2>8. f2.intent.kind = "turn" /\ f2.intent.stage = stage /\ f2.intent.head = s.head
    BY <2>7 DEF EnqueueTurn
  <2> HIDE DEF t, f2
  <2> QED BY <1>6, <2>2, <2>3, <2>4, <2>5, <2>6, <2>8, AppliedFields DEF WebhookSound, ActiveStates, Headed, HasProposal, HasTurn
<1> HIDE DEF d1, d2
<1> QED BY <1>4, <1>5, <1>6, RejectedSound, DeferredSound

\* The branches of a push.
MovedTo(s, e) == [s EXCEPT !.head = e.head, !.ready = NoHead]
SyncBudget    == [NoEffects EXCEPT !.handoff = "review_budget_exhausted", !.labels = "NEEDS_HUMAN", !.intent = NoIntent]
SyncTurn(s, e) == [NoEffects EXCEPT !.intent = EnqueueTurn(s.stage, "SYNCHRONIZATION", e.head), !.labels = StageState[s.stage]]

\* A push is refused, put off, or followed in one of four ways.
LEMMA SyncCases ==
    ASSUME NEW s \in Snapshot, NEW e
    PROVE  LET d == ReduceSynchronization(s, e) IN
           \/ d = Rejected(s)
           \/ d = Deferred(s) /\ HasTurn(s) /\ s.state \in ActiveStates
           \/ /\ FollowsHead(s) /\ HasProposal(s) /\ s.head # e.head
              /\ ~(Fresh(s, e) /\ HasTurn(s) /\ s.state \in ActiveStates) /\ Fresh(s, e)
              /\ \/ /\ s.state = "NEEDS_HUMAN"
                    /\ d = Applied(MovedTo(s, e), "review_head_replaced", [NoEffects EXCEPT !.labels = "NEEDS_HUMAN"])
                 \/ /\ s.state # "NEEDS_HUMAN" /\ (StageState[s.stage] = "DEVELOPING" \/ s.waiting)
                    /\ d = Applied(MovedTo(s, e), "review_head_replaced", [NoEffects EXCEPT !.labels = StageState[s.stage]])
                 \/ /\ s.state # "NEEDS_HUMAN" /\ s.stage = "review" /\ s.usage >= ReviewLimit
                    /\ d = Applied(NeedsHuman(MovedTo(s, e), StageRole[s.stage]), "review_budget_exhausted", SyncBudget)
                 \/ /\ s.state # "NEEDS_HUMAN" /\ ~(s.stage = "review" /\ s.usage >= ReviewLimit)
                    /\ d = Applied([MovedTo(s, e) EXCEPT !.state = StageState[s.stage]], "review_head_replaced", SyncTurn(s, e))
BY DEF ReduceSynchronization, MovedTo, SyncTurn, SyncBudget, Handoff

\* A Workflow that followed a push differs in the head and in what was ready.
LEMMA MovedFacts ==
    ASSUME NEW s \in Snapshot, NEW e, e.head \in Heads
    PROVE  LET t == MovedTo(s, e) IN
           /\ t \in Snapshot /\ t.head = e.head /\ t.ready = NoHead
           /\ t.state = s.state /\ t.attempt = s.attempt /\ t.usage = s.usage /\ t.retries = s.retries /\ t.stage = s.stage
           /\ t.turn = s.turn /\ t.waiting = s.waiting /\ t.pr = s.pr /\ t.revision = s.revision
           /\ t.status = s.status /\ t.runtime = s.runtime /\ t.token = s.token /\ t.closure = s.closure
           /\ t.planningOnly = s.planningOnly /\ t.continuation = s.continuation
<1>1. e.head \in Heads \cup {NoHead}
  OBVIOUS
<1>2. MovedTo(s, e) \in Snapshot
  BY <1>1, Zenon DEF MovedTo, Snapshot
<1> DEFINE t == [s EXCEPT !.head = e.head, !.ready = NoHead]
<1>3. /\ t.head = e.head /\ t.ready = NoHead
      /\ t.state = s.state /\ t.attempt = s.attempt /\ t.usage = s.usage /\ t.retries = s.retries /\ t.stage = s.stage
      /\ t.turn = s.turn /\ t.waiting = s.waiting
  BY DEF Snapshot
<1>4. /\ t.pr = s.pr /\ t.revision = s.revision
      /\ t.status = s.status /\ t.runtime = s.runtime /\ t.token = s.token /\ t.closure = s.closure
      /\ t.planningOnly = s.planningOnly /\ t.continuation = s.continuation
  BY DEF Snapshot
<1> QED BY <1>2, <1>3, <1>4 DEF MovedTo

\* The two ways a Snapshot moves on from there.
LEMMA StateFacts ==
    ASSUME NEW t \in Snapshot, NEW state \in States
    PROVE  LET u == [t EXCEPT !.state = state] IN
           /\ u \in Snapshot /\ u.state = state
           /\ u.head = t.head /\ u.ready = t.ready /\ u.attempt = t.attempt /\ u.usage = t.usage /\ u.retries = t.retries
           /\ u.stage = t.stage /\ u.turn = t.turn /\ u.waiting = t.waiting /\ u.pr = t.pr /\ u.revision = t.revision
           /\ u.status = t.status /\ u.runtime = t.runtime /\ u.token = t.token /\ u.closure = t.closure
           /\ u.planningOnly = t.planningOnly /\ u.continuation = t.continuation
<1>1. [t EXCEPT !.state = state] \in Snapshot
  BY Zenon DEF Snapshot
<1> DEFINE u == [t EXCEPT !.state = state]
<1>2. /\ u.state = state
      /\ u.head = t.head /\ u.ready = t.ready /\ u.attempt = t.attempt /\ u.usage = t.usage /\ u.retries = t.retries
      /\ u.stage = t.stage /\ u.turn = t.turn /\ u.waiting = t.waiting
  BY DEF Snapshot
<1>3. /\ u.pr = t.pr /\ u.revision = t.revision /\ u.planningOnly = t.planningOnly /\ u.continuation = t.continuation
      /\ u.status = t.status /\ u.runtime = t.runtime /\ u.token = t.token /\ u.closure = t.closure
  BY DEF Snapshot
<1> QED BY <1>1, <1>2, <1>3

\* A Workflow that was handed to a person differs in its state, its status and the Role to resume with.
LEMMA NeedsHumanFacts ==
    ASSUME NEW t \in Snapshot, NEW role \in Roles \cup {""}
    PROVE  LET u == NeedsHuman(t, role) IN
           /\ u \in Snapshot /\ u.state = "NEEDS_HUMAN" /\ u.status = "WAITING_FOR_HUMAN"
           /\ u.head = t.head /\ u.ready = t.ready /\ u.attempt = t.attempt /\ u.usage = t.usage /\ u.retries = t.retries
           /\ u.stage = t.stage /\ u.turn = t.turn /\ u.waiting = t.waiting /\ u.pr = t.pr /\ u.revision = t.revision
           /\ u.runtime = t.runtime /\ u.token = t.token /\ u.closure = t.closure
           /\ u.planningOnly = t.planningOnly /\ u.continuation = t.continuation
<1>0. "NEEDS_HUMAN" \in States
  BY DEF States, AttemptStates
<1>1. NeedsHuman(t, role) \in Snapshot
  BY <1>0, Zenon DEF NeedsHuman, Snapshot
<1> DEFINE u == [t EXCEPT !.state = "NEEDS_HUMAN", !.resume = role, !.status = "WAITING_FOR_HUMAN"]
<1>2. /\ u.state = "NEEDS_HUMAN" /\ u.status = "WAITING_FOR_HUMAN"
      /\ u.head = t.head /\ u.ready = t.ready /\ u.attempt = t.attempt /\ u.usage = t.usage /\ u.retries = t.retries
      /\ u.stage = t.stage /\ u.turn = t.turn /\ u.waiting = t.waiting
  BY DEF Snapshot
<1>3. /\ u.pr = t.pr /\ u.revision = t.revision /\ u.planningOnly = t.planningOnly /\ u.continuation = t.continuation
      /\ u.runtime = t.runtime /\ u.token = t.token /\ u.closure = t.closure
  BY DEF Snapshot
<1> QED BY <1>1, <1>2, <1>3 DEF NeedsHuman

\* A push.
LEMMA SyncSound ==
    ASSUME NEW s \in Snapshot, ValidSnapshot(s), NEW e \in WebhookEvent, e.kind = "SYNCHRONIZATION"
    PROVE  WebhookSound(s, e, Reduce(s, e))
<1> DEFINE d == ReduceSynchronization(s, e)
           moved == MovedTo(s, e)
<1>1. Reduce(s, e) = Rejected(s) \/ (Reduce(s, e) = d /\ ValidSnapshot(d.snap))
  BY ReduceCases DEF Dispatch
<1>2. e.head \in Heads /\ e.head # NoHead
  <2>1. e \in [kind : {"SYNCHRONIZATION"}, revision : Nat, pr : PRs, previous : Heads \cup {NoHead}, head : Heads]
    BY DEF WebhookEvent
  <2> QED BY <2>1, AbsentAssumption
<1>3. /\ moved \in Snapshot /\ moved.head = e.head /\ moved.ready = NoHead
      /\ moved.state = s.state /\ moved.attempt = s.attempt /\ moved.usage = s.usage /\ moved.stage = s.stage
      /\ moved.turn = s.turn /\ moved.waiting = s.waiting /\ moved.pr = s.pr /\ moved.revision = s.revision
  BY <1>2, MovedFacts
<1>4. FollowsHead(s) => s.stage \in Stages /\ s.state \in ActiveStates \cup {"PR_READY", "NEEDS_HUMAN"}
  <2>1. s.state = "NEEDS_HUMAN" => s.stage \in Stages
    BY AbsentFacts DEF ValidSnapshot, ValidAttempt, AttemptStates, HasAttempt, Snapshot
  <2> QED BY <2>1, ActiveFacts, ReadyFacts DEF FollowsHead
<1>5. ASSUME NEW f, d = Applied(moved, "review_head_replaced", f), Reduce(s, e) = d, ValidSnapshot(d.snap),
             f.intent.kind = "none", FollowsHead(s), HasProposal(s), ~(HasTurn(s) /\ s.state \in ActiveStates)
      PROVE  WebhookSound(s, e, Reduce(s, e))
  <2> HIDE DEF moved, d
  <2>1. /\ d.disposition = "APPLIED" /\ d.effects = f /\ d.snap \in Snapshot /\ d.snap.ready = NoHead
        /\ d.snap.state = s.state /\ d.snap.attempt = s.attempt /\ d.snap.usage = s.usage /\ d.snap.stage = s.stage
        /\ d.snap.turn = s.turn /\ d.snap.waiting = s.waiting /\ d.snap.pr = s.pr /\ d.snap.head = e.head
        /\ d.snap.revision = s.revision + 1
    BY <1>3, <1>5, AppliedFields
  <2>2. s.state # "PR_READY"
    BY <2>1, <1>2, <1>5, ReadyFacts
  <2>3. ~HasTurn(s)
    BY <1>4, <1>5, <2>2, TurnFacts DEF ActiveStates
  <2> QED BY <1>2, <1>5, <2>1, <2>2, <2>3 DEF WebhookSound, ActiveStates, Headed, HasProposal
<1>6. ASSUME NEW t \in Snapshot, NEW f, NEW reason, d = Applied(t, reason, f), Reduce(s, e) = d, ValidSnapshot(d.snap),
             t.head = e.head /\ t.attempt = s.attempt /\ t.usage = s.usage /\ t.stage = s.stage,
             t.turn = s.turn /\ t.waiting = s.waiting /\ t.pr = s.pr /\ t.revision = s.revision,
             FollowsHead(s), HasProposal(s), ~(HasTurn(s) /\ s.state \in ActiveStates), s.state # "NEEDS_HUMAN",
             \/ t.state = "NEEDS_HUMAN" /\ s.stage = "review" /\ s.usage >= ReviewLimit /\ f.intent.kind = "none"
             \/ t.state = StageState[s.stage] /\ f.intent.kind = "turn" /\ f.intent.stage = s.stage /\ f.intent.head = e.head
      PROVE  WebhookSound(s, e, Reduce(s, e))
  <2> HIDE DEF moved, d
  <2>1. /\ d.disposition = "APPLIED" /\ d.effects = f /\ d.snap \in Snapshot
        /\ d.snap.state = t.state /\ d.snap.attempt = s.attempt /\ d.snap.usage = s.usage /\ d.snap.stage = s.stage
        /\ d.snap.turn = s.turn /\ d.snap.waiting = s.waiting /\ d.snap.pr = s.pr /\ d.snap.head = e.head
        /\ d.snap.revision = s.revision + 1
    BY <1>6, AppliedFields
  <2>2. ~HasTurn(s)
    BY <1>4, <1>6, ReadyFacts DEF ActiveStates
  <2>3. StageState[s.stage] \in ActiveStates
    BY <1>4, <1>6, StageFacts
  <2>4. CASE t.state = StageState[s.stage] /\ f.intent.kind = "turn" /\ f.intent.stage = s.stage /\ f.intent.head = e.head
    BY <1>2, <1>6, <2>1, <2>2, <2>3, <2>4 DEF WebhookSound, ActiveStates, Headed, HasProposal
  <2>5. CASE t.state = "NEEDS_HUMAN" /\ s.stage = "review" /\ s.usage >= ReviewLimit /\ f.intent.kind = "none"
    <3>1. s.state \notin ActiveStates
      <4> SUFFICES ASSUME s.state \in ActiveStates PROVE FALSE
        OBVIOUS
      <4>1. s.usage < ReviewLimit /\ s.usage \in Nat
        BY <2>5, ActiveFacts DEF Snapshot
      <4> QED BY <4>1, <2>5, LimitsAssumption
    <3>2. s.state = "PR_READY"
      BY <3>1, <1>4, <1>6
    <3> QED BY <1>2, <1>6, <2>1, <2>2, <2>5, <3>2 DEF WebhookSound, ActiveStates, Headed, HasProposal
  <2> QED BY <1>6, <2>4, <2>5
<1>7. CASE Reduce(s, e) = d /\ ValidSnapshot(d.snap)
  <2> DEFINE f1 == [NoEffects EXCEPT !.labels = "NEEDS_HUMAN"]
             f2 == [NoEffects EXCEPT !.labels = StageState[s.stage]]
  <2>1. f1.intent.kind = "none" /\ f2.intent.kind = "none" /\ SyncBudget.intent.kind = "none"
    BY DEF NoEffects, NoIntent, SyncBudget
  <2>2. SyncTurn(s, e).intent.kind = "turn" /\ SyncTurn(s, e).intent.stage = s.stage /\ SyncTurn(s, e).intent.head = e.head
    BY DEF NoEffects, SyncTurn, EnqueueTurn
  <2>3. ASSUME s.state # "NEEDS_HUMAN", FollowsHead(s), HasProposal(s), ~(HasTurn(s) /\ s.state \in ActiveStates),
               s.stage = "review", s.usage >= ReviewLimit,
               d = Applied(NeedsHuman(moved, StageRole[s.stage]), "review_budget_exhausted", SyncBudget)
        PROVE  WebhookSound(s, e, Reduce(s, e))
    <3>1. StageRole[s.stage] \in Roles \cup {""}
      BY <1>4, <2>3, StageFacts
    <3> DEFINE t == NeedsHuman(moved, StageRole[s.stage])
    <3>2. /\ t \in Snapshot /\ t.state = "NEEDS_HUMAN"
          /\ t.head = e.head /\ t.attempt = s.attempt /\ t.usage = s.usage /\ t.stage = s.stage
          /\ t.turn = s.turn /\ t.waiting = s.waiting /\ t.pr = s.pr /\ t.revision = s.revision
      <4> HIDE DEF moved
      <4> QED BY <1>3, <3>1, NeedsHumanFacts
    <3> HIDE DEF t, d, moved
    <3> QED BY <1>6, <1>7, <2>1, <2>3, <3>2 DEF t
  <2>4. ASSUME s.state # "NEEDS_HUMAN", FollowsHead(s), HasProposal(s), ~(HasTurn(s) /\ s.state \in ActiveStates),
               d = Applied([moved EXCEPT !.state = StageState[s.stage]], "review_head_replaced", SyncTurn(s, e))
        PROVE  WebhookSound(s, e, Reduce(s, e))
    <3>1. StageState[s.stage] \in States
      BY <1>4, <2>4, StageFacts DEF States, AttemptStates
    <3> DEFINE t == [moved EXCEPT !.state = StageState[s.stage]]
    <3>2. /\ t \in Snapshot /\ t.state = StageState[s.stage]
          /\ t.head = e.head /\ t.attempt = s.attempt /\ t.usage = s.usage /\ t.stage = s.stage
          /\ t.turn = s.turn /\ t.waiting = s.waiting /\ t.pr = s.pr /\ t.revision = s.revision
      <4> HIDE DEF moved
      <4> QED BY <1>3, <3>1, StateFacts
    <3> HIDE DEF t, d, moved
    <3> QED BY <1>6, <1>7, <2>2, <2>4, <3>2 DEF t
  <2> HIDE DEF f1, f2
  <2> QED BY <1>5, <1>7, <2>1, <2>3, <2>4, SyncCases, RejectedSound, DeferredSound DEF f1, f2
<1> HIDE DEF d
<1> QED BY <1>1, <1>7, RejectedSound

\* Every webhook is answered with a valid Snapshot: at most one revision further, with the turn it had.
THEOREM WebhookReduced ==
    ASSUME NEW s \in Snapshot, ValidSnapshot(s), NEW e \in WebhookEvent
    PROVE  WebhookSound(s, e, Reduce(s, e))
<1>1. e.kind \in {"TRIGGER", "SYNCHRONIZATION", "ISSUE_CLOSED", "ISSUE_REOPENED", "REVIEW_OBSERVED"}
  BY DEF WebhookEvent
<1> QED BY <1>1, TriggerSound, SyncSound, ClosedSound, ReopenedSound, ObservationSound

\* A Workflow that works, is ready or waits for a person.
LEMMA AttemptFacts ==
    ASSUME NEW s \in Snapshot, ValidSnapshot(s), s.state \in AttemptStates
    PROVE  /\ HasAttempt(s) /\ s.stage \in Stages /\ s.closure = 0 /\ s.token = 0 /\ s.attempt > 0
           /\ s.retries <= RetryLimit /\ s.usage <= ReviewLimit /\ s.runtime \in {"ACTIVE", "COLLECTED"}
           /\ s.planningOnly => ~HasProposal(s) /\ s.stage = "planning"
           /\ ~s.planningOnly => s.stage # "planning"
           /\ HasProposal(s) /\ s.state # "PR_READY" => s.ready = NoHead
<1>1. s # Absent
  BY AbsentFacts DEF AttemptStates, ActiveStates
<1>2. /\ ValidAssignments(s) /\ ValidAttempt(s) /\ ValidStateShape(s)
      /\ s.planningOnly => ~HasProposal(s) /\ s.stage \in {"", "planning"}
      /\ ~s.planningOnly => s.stage # "planning"
      /\ HasProposal(s) /\ s.state # "PR_READY" => s.ready = NoHead
  BY <1>1 DEF ValidSnapshot
<1>3. HasAttempt(s) /\ s.attempt > 0 /\ s.retries <= RetryLimit /\ s.usage <= ReviewLimit
  BY <1>2 DEF ValidAttempt
<1>4. s.stage \in Stages
  BY <1>3 DEF HasAttempt, Snapshot
<1>5. s.closure = 0
  BY <1>2 DEF ValidStateShape, AttemptStates, ActiveStates
<1>6. s.token = 0 /\ s.runtime \in {"ACTIVE", "COLLECTED"}
  BY <1>2 DEF ValidAssignments, AttemptStates, ActiveStates
<1> QED BY <1>2, <1>3, <1>4, <1>5, <1>6 DEF Stages

\* What makes the Snapshot of a handoff valid.
LEMMA NeedsHumanValid ==
    ASSUME NEW t \in Snapshot, t.state = "NEEDS_HUMAN", t.status = "WAITING_FOR_HUMAN", t.runtime \in {"ACTIVE", "COLLECTED"},
           t.token = 0, t.closure = 0, HasAttempt(t), t.attempt > 0, t.retries <= RetryLimit, t.usage <= ReviewLimit,
           ~HasTurn(t), t.planningOnly => ~HasProposal(t) /\ t.stage = "planning",
           ~t.planningOnly => t.stage # "planning", HasProposal(t) => t.ready = NoHead
    PROVE  ValidSnapshot(t)
<1>1. ValidAssignments(t)
  BY DEF ValidAssignments, ActiveStates
<1>2. ValidAttempt(t)
  BY DEF ValidAttempt, AttemptStates, ActiveStates
<1>3. ValidStateShape(t)
  BY DEF ValidStateShape, ActiveStates
<1> QED BY <1>1, <1>2, <1>3 DEF ValidSnapshot

\* The outcome of every report to a person.
HandedOff(s, d) ==
    /\ d.disposition = "APPLIED"
    /\ d.snap \in Snapshot /\ ValidSnapshot(d.snap)
    /\ d.snap.state = "NEEDS_HUMAN" /\ d.snap.revision = s.revision + 1
    /\ d.snap.turn = s.turn /\ d.snap.waiting = s.waiting /\ d.snap.pr = s.pr /\ d.snap.head = s.head
    /\ d.snap.attempt = s.attempt /\ d.snap.usage = s.usage /\ d.snap.stage = s.stage
    /\ d.snap.planningOnly = s.planningOnly /\ d.snap.continuation = s.continuation /\ d.snap.ready \in {s.ready, NoHead}

\* A Workflow that works is handed to a person when an action failed for good; any other stays as it is.
LEMMA EscalationReduced ==
    ASSUME NEW s \in Snapshot, ValidSnapshot(s), ~HasTurn(s), NEW e,
           e.kind = "WORKFLOW_ACTION_EXHAUSTED", e.revision = s.revision
    PROVE  IF s.state \in AttemptStates \ {"NEEDS_HUMAN"}
           THEN HandedOff(s, Reduce(s, e)) /\ Reduce(s, e).snap.runtime = s.runtime
           ELSE Reduce(s, e) = Rejected(s)
<1>1. CASE s.state \in AttemptStates \ {"NEEDS_HUMAN"}
  <2> DEFINE u == [s EXCEPT !.ready = NoHead]
             t == NeedsHuman(u, StageRole[s.stage])
             f == [NoEffects EXCEPT !.handoff = "workflow_action_exhausted", !.labels = "NEEDS_HUMAN", !.intent = NoIntent]
             d == Applied(t, "workflow_action_exhausted", f)
  <2>1. u \in Snapshot
    BY Zenon DEF Snapshot
  <2>2. /\ u.head = s.head /\ u.ready = NoHead /\ u.attempt = s.attempt /\ u.usage = s.usage /\ u.retries = s.retries
        /\ u.stage = s.stage /\ u.turn = s.turn /\ u.waiting = s.waiting /\ u.pr = s.pr
    BY DEF Snapshot
  <2>3. /\ u.runtime = s.runtime /\ u.token = s.token /\ u.closure = s.closure
        /\ u.planningOnly = s.planningOnly /\ u.revision = s.revision /\ u.continuation = s.continuation
    BY DEF Snapshot
  <2>4. StageRole[s.stage] \in Roles \cup {""}
    BY <1>1, AttemptFacts, StageFacts
  <2> HIDE DEF u
  <2>5. /\ t \in Snapshot /\ t.state = "NEEDS_HUMAN" /\ t.status = "WAITING_FOR_HUMAN"
        /\ t.head = s.head /\ t.ready = NoHead /\ t.attempt = s.attempt /\ t.usage = s.usage /\ t.retries = s.retries
        /\ t.stage = s.stage /\ t.turn = s.turn /\ t.waiting = s.waiting /\ t.pr = s.pr
        /\ t.runtime = s.runtime /\ t.token = s.token /\ t.closure = s.closure
        /\ t.planningOnly = s.planningOnly /\ t.revision = s.revision /\ t.continuation = s.continuation
    BY <2>1, <2>2, <2>3, <2>4, NeedsHumanFacts, ZenonT(60)
  <2>6. ValidSnapshot(d.snap) /\ HandedOff(s, d) /\ d.snap.runtime = s.runtime
    <3> HIDE DEF t, f
    <3> DEFINE v == Applied(t, "workflow_action_exhausted", f).snap
    <3>1. /\ v \in Snapshot /\ v.state = "NEEDS_HUMAN" /\ v.status = "WAITING_FOR_HUMAN"
          /\ v.head = s.head /\ v.ready = NoHead /\ v.attempt = s.attempt /\ v.usage = s.usage /\ v.retries = s.retries
          /\ v.stage = s.stage /\ v.turn = s.turn /\ v.waiting = s.waiting /\ v.pr = s.pr
          /\ v.runtime = s.runtime /\ v.token = s.token /\ v.closure = s.closure
          /\ v.planningOnly = s.planningOnly /\ v.revision = s.revision + 1 /\ v.continuation = s.continuation
          /\ Applied(t, "workflow_action_exhausted", f).disposition = "APPLIED"
      BY <2>5, AppliedFields
    <3> HIDE DEF v
    <3>2. /\ HasAttempt(s) /\ s.stage \in Stages /\ s.closure = 0 /\ s.token = 0 /\ s.attempt > 0
          /\ s.retries <= RetryLimit /\ s.usage <= ReviewLimit /\ s.runtime \in {"ACTIVE", "COLLECTED"}
          /\ s.planningOnly => ~HasProposal(s) /\ s.stage = "planning"
          /\ ~s.planningOnly => s.stage # "planning"
      BY <1>1, AttemptFacts
    <3>3. ValidSnapshot(v)
      BY <3>1, <3>2, NeedsHumanValid DEF HasTurn, HasAttempt, HasProposal
    <3> QED BY <3>1, <3>3 DEF HandedOff, v
  <2>7. Dispatch(s, e) = d
    BY <1>1 DEF Dispatch, ReduceWorkflowActionExhausted, Handoff, Fresh, t, u
  <2>8. s.state # "ABSENT"
    BY <1>1 DEF AttemptStates, ActiveStates
  <2> HIDE DEF d
  <2> QED BY <1>1, <2>6, <2>7, <2>8 DEF Reduce
<1>2. CASE s.state \notin AttemptStates \ {"NEEDS_HUMAN"}
  <2>1. Dispatch(s, e) = Rejected(s)
    BY <1>2 DEF Dispatch, ReduceWorkflowActionExhausted, Fresh
  <2> QED BY <1>2, <2>1 DEF Reduce
<1> QED BY <1>1, <1>2

\* A preparation that failed for good is told to a person.
LEMMA PreparationReduced ==
    ASSUME NEW s \in Snapshot, ValidSnapshot(s), NEW e,
           e.kind \in {"ASSIGNMENT_CONFIGURATION_CONFLICT", "AGENT_TURN_PREPARATION_FAILED"},
           Reduce(s, e).disposition = "APPLIED"
    PROVE  /\ HandedOff(s, Reduce(s, e)) /\ s.state \in ActiveStates
           /\ Reduce(s, e).snap.runtime = s.runtime \/ ~e.assignmentsExist
<1> DEFINE u == [s EXCEPT !.runtime = IF e.assignmentsExist THEN s.runtime ELSE "COLLECTED"]
           f(reason) == [NoEffects EXCEPT !.handoff = reason, !.labels = "NEEDS_HUMAN", !.intent = NoIntent]
           d1 == Applied(NeedsHuman(s, e.role), "assignment_configuration_conflict", f("assignment_configuration_conflict"))
           d2 == Applied(NeedsHuman(u, e.role), "agent_turn_preparation_failed", f("agent_turn_preparation_failed"))
<1>1. Rejected(s).disposition # "APPLIED"
  BY DEF Rejected
<1>2. Reduce(s, e) = Dispatch(s, e) /\ ValidSnapshot(Dispatch(s, e).snap) /\ Dispatch(s, e) # Rejected(s)
  BY <1>1, ReduceCases
<1>3. StageReport(s, e) /\ Dispatch(s, e) \in {d1, d2}
  BY <1>2 DEF Dispatch, ReduceAssignmentConfigurationConflict, ReduceAgentTurnPreparationFailed, Handoff
<1>4. e.role \in Roles \cup {""}
  BY <1>3, ActiveFacts, StageFacts DEF StageReport
<1>5. u \in Snapshot
  <2>1. (IF e.assignmentsExist THEN s.runtime ELSE "COLLECTED") \in {"", "ACTIVE", "RETAINED", "COLLECTED"}
    BY DEF Snapshot
  <2>2. ASSUME NEW runtime \in {"", "ACTIVE", "RETAINED", "COLLECTED"}
        PROVE  [s EXCEPT !.runtime = runtime] \in Snapshot
    BY ZenonT(60) DEF Snapshot
  <2> QED BY <2>1, <2>2
<1>6. /\ u.head = s.head /\ u.attempt = s.attempt /\ u.usage = s.usage /\ u.revision = s.revision
      /\ u.stage = s.stage /\ u.turn = s.turn /\ u.waiting = s.waiting /\ u.pr = s.pr
  BY DEF Snapshot
<1>61. /\ u.planningOnly = s.planningOnly /\ u.continuation = s.continuation /\ u.ready = s.ready
       /\ e.assignmentsExist => u.runtime = s.runtime
  BY DEF Snapshot
<1> HIDE DEF u, f
<1>7. ASSUME NEW t \in {s, u}, NEW reason, NEW g, Dispatch(s, e) = Applied(NeedsHuman(t, e.role), reason, g)
      PROVE  HandedOff(s, Reduce(s, e)) /\ (Reduce(s, e).snap.runtime = s.runtime \/ ~e.assignmentsExist)
  <2> DEFINE v == NeedsHuman(t, e.role)
  <2>1. /\ v \in Snapshot /\ v.state = "NEEDS_HUMAN"
        /\ v.head = s.head /\ v.attempt = s.attempt /\ v.usage = s.usage /\ v.revision = s.revision
        /\ v.stage = s.stage /\ v.turn = s.turn /\ v.waiting = s.waiting /\ v.pr = s.pr
        /\ v.planningOnly = s.planningOnly /\ v.continuation = s.continuation /\ v.ready = s.ready
        /\ e.assignmentsExist => v.runtime = s.runtime
    <3>1. /\ t \in Snapshot /\ t.head = s.head /\ t.attempt = s.attempt /\ t.usage = s.usage /\ t.revision = s.revision
          /\ t.stage = s.stage /\ t.turn = s.turn /\ t.waiting = s.waiting /\ t.pr = s.pr
          /\ t.planningOnly = s.planningOnly /\ t.continuation = s.continuation /\ t.ready = s.ready
          /\ e.assignmentsExist => t.runtime = s.runtime
      BY <1>5, <1>6, <1>61
    <3> QED BY <1>4, <3>1, NeedsHumanFacts, ZenonT(60)
  <2> HIDE DEF v
  <2>2. LET d == Applied(v, reason, g) IN
        /\ d.disposition = "APPLIED" /\ d.snap \in Snapshot
        /\ d.snap.state = "NEEDS_HUMAN" /\ d.snap.revision = s.revision + 1
        /\ d.snap.turn = s.turn /\ d.snap.waiting = s.waiting /\ d.snap.pr = s.pr /\ d.snap.head = s.head
        /\ d.snap.attempt = s.attempt /\ d.snap.usage = s.usage /\ d.snap.stage = s.stage
        /\ d.snap.planningOnly = s.planningOnly /\ d.snap.continuation = s.continuation /\ d.snap.ready = s.ready
        /\ e.assignmentsExist => d.snap.runtime = s.runtime
    BY <2>1, AppliedFields
  <2> QED BY <1>2, <1>7, <2>2 DEF HandedOff, v
<1>8. s.state \in ActiveStates
  BY <1>3 DEF StageReport
<1> QED BY <1>3, <1>7, <1>8

\* The fields a settled closure sets, in the halves the prover takes at a time.
LEMMA EndedType ==
    ASSUME NEW s \in Snapshot, NEW state \in States
    PROVE  [s EXCEPT !.state = state, !.stage = "", !.usage = 0, !.retries = 0, !.turn = NoTurn] \in Snapshot
<1>1. 0 \in Nat /\ NoTurn \in Turn
  BY DEF Turn, NoTurn
<1> QED BY <1>1, Zenon DEF Snapshot

\* The other half.
LEMMA RetainedType ==
    ASSUME NEW s \in Snapshot, NEW token \in Nat, NEW runtime \in {"", "ACTIVE", "RETAINED", "COLLECTED"}
    PROVE  [s EXCEPT !.closure = 0, !.reopen = FALSE, !.ready = NoHead,
                     !.status = "COMPLETED", !.runtime = runtime, !.token = token] \in Snapshot
<1>1. 0 \in Nat
  OBVIOUS
<1> QED BY <1>1, ZenonT(60) DEF Snapshot

\* A settled closure leaves a Snapshot behind.
LEMMA ClosedType ==
    ASSUME NEW s \in Snapshot, NEW state \in States, NEW token \in Nat, NEW runtime \in {"", "ACTIVE", "RETAINED", "COLLECTED"}
    PROVE  [s EXCEPT !.state = state,
                     !.stage = "", !.usage = 0, !.retries = 0, !.turn = NoTurn,
                     !.closure = 0, !.reopen = FALSE, !.ready = NoHead,
                     !.status = "COMPLETED", !.runtime = runtime, !.token = token] \in Snapshot
<1> DEFINE t1 == [s EXCEPT !.state = state, !.stage = "", !.usage = 0, !.retries = 0, !.turn = NoTurn]
           t2 == [t1 EXCEPT !.closure = 0, !.reopen = FALSE, !.ready = NoHead,
                            !.status = "COMPLETED", !.runtime = runtime, !.token = token]
<1>1. t1 \in Snapshot
  BY EndedType
<1>2. t2 \in Snapshot
  <2> HIDE DEF t1
  <2> QED BY <1>1, RetainedType
<1> QED BY <1>2, Zenon

\* A closure that settled ends the Attempt and takes the turn it stopped with it.
LEMMA ClosureReduced ==
    ASSUME NEW s \in Snapshot, ValidSnapshot(s), NEW e, e.kind = "CLOSURE_SETTLED",
           Reduce(s, e).disposition = "APPLIED"
    PROVE  LET d == Reduce(s, e) IN
           /\ d.snap \in Snapshot /\ ValidSnapshot(d.snap)
           /\ d.snap.state \in {"DORMANT", "CLOSED"} /\ d.snap.revision = s.revision + 1
           /\ d.snap.turn = NoTurn /\ d.snap.stage = "" /\ d.snap.pr = s.pr /\ d.snap.head = s.head
           /\ d.snap.planningOnly = s.planningOnly /\ d.snap.continuation = s.continuation /\ d.snap.ready = NoHead
           /\ d.snap.runtime = "COLLECTED" => ~e.assignmentsExist \/ s.runtime = "COLLECTED"
<1> DEFINE runtime == IF ~e.assignmentsExist \/ s.runtime = "COLLECTED" THEN "COLLECTED" ELSE "RETAINED"
           kept    == ~s.reopen /\ runtime = "RETAINED"
           t == [s EXCEPT !.state = IF s.reopen THEN "DORMANT" ELSE "CLOSED",
                          !.stage = "", !.usage = 0, !.retries = 0, !.turn = NoTurn,
                          !.closure = 0, !.reopen = FALSE, !.ready = NoHead,
                          !.status = "COMPLETED", !.runtime = runtime,
                          !.token = IF kept THEN s.closure ELSE 0]
<1>1. Rejected(s).disposition # "APPLIED"
  BY DEF Rejected
<1>2. Reduce(s, e) = ReduceClosureSettled(s, e) /\ ValidSnapshot(ReduceClosureSettled(s, e).snap)
      /\ ReduceClosureSettled(s, e) # Rejected(s)
  BY <1>1, ReduceCases DEF Dispatch
<1>3. PICK f : Reduce(s, e) = Applied(t, "closure_settled", f)
  BY <1>2, SMTT(60) DEF ReduceClosureSettled
<1>4. t \in Snapshot
  <2> DEFINE state == IF s.reopen THEN "DORMANT" ELSE "CLOSED"
             token == IF kept THEN s.closure ELSE 0
  <2>1. state \in States /\ token \in Nat /\ runtime \in {"", "ACTIVE", "RETAINED", "COLLECTED"}
    BY DEF States, Snapshot
  <2> QED BY <2>1, ClosedType, ZenonT(60)
<1>5. /\ t.state \in {"DORMANT", "CLOSED"} /\ t.revision = s.revision
      /\ t.turn = NoTurn /\ t.stage = "" /\ t.pr = s.pr /\ t.head = s.head
  BY DEF Snapshot
<1>51. /\ t.planningOnly = s.planningOnly /\ t.continuation = s.continuation /\ t.ready = NoHead
       /\ t.runtime = "COLLECTED" => ~e.assignmentsExist \/ s.runtime = "COLLECTED"
  BY DEF Snapshot
<1> HIDE DEF t
<1>6. LET d == Applied(t, "closure_settled", f) IN
      /\ d.snap \in Snapshot /\ d.snap.state \in {"DORMANT", "CLOSED"} /\ d.snap.revision = s.revision + 1
      /\ d.snap.turn = NoTurn /\ d.snap.stage = "" /\ d.snap.pr = s.pr /\ d.snap.head = s.head
      /\ d.snap.planningOnly = s.planningOnly /\ d.snap.continuation = s.continuation /\ d.snap.ready = NoHead
      /\ d.snap.runtime = "COLLECTED" => ~e.assignmentsExist \/ s.runtime = "COLLECTED"
  <2>1. LET d == Applied(t, "closure_settled", f) IN
        /\ d.snap \in Snapshot /\ d.snap.state = t.state /\ d.snap.revision = t.revision + 1
        /\ d.snap.turn = t.turn /\ d.snap.stage = t.stage /\ d.snap.pr = t.pr /\ d.snap.head = t.head
        /\ d.snap.planningOnly = t.planningOnly /\ d.snap.continuation = t.continuation /\ d.snap.ready = t.ready
        /\ d.snap.runtime = t.runtime
    BY ONLY <1>4, AppliedFields
  <2> QED BY <1>5, <1>51, <2>1
<1> QED BY <1>2, <1>3, <1>6

\* Behind a running turn every push waits.
LEMMA PushWaits ==
    ASSUME NEW s \in Snapshot, ValidSnapshot(s), HasTurn(s), s.state \in ActiveStates,
           NEW e, e.kind = "SYNCHRONIZATION", e.revision = s.revision
    PROVE  Reduce(s, e).disposition = "DEFERRED"
<1>1. Dispatch(s, e) = Deferred(s)
  BY DEF Dispatch, ReduceSynchronization, Fresh
<1>2. Deferred(s).snap = s /\ Deferred(s).disposition = "DEFERRED"
  BY DEF Deferred
<1>3. s.state # "ABSENT"
  BY DEF ActiveStates
<1> QED BY <1>1, <1>2, <1>3 DEF Reduce

\* A push past the commit that is ready is always taken.
LEMMA PushRevokes ==
    ASSUME NEW s \in Snapshot, ValidSnapshot(s), s.state = "PR_READY", s.stage = "review", ~s.waiting,
           NEW e \in WebhookEvent, e.kind = "SYNCHRONIZATION", e.revision = s.revision, e.pr = s.pr,
           e.previous = s.head, e.head # s.head
    PROVE  Reduce(s, e).disposition = "APPLIED"
<1> DEFINE d == ReduceSynchronization(s, e)
           moved == MovedTo(s, e)
<1>1. e.head \in Heads /\ e.head # NoHead
  <2>1. e \in [kind : {"SYNCHRONIZATION"}, revision : Nat, pr : PRs, previous : Heads \cup {NoHead}, head : Heads]
    BY DEF WebhookEvent
  <2> QED BY <2>1, AbsentAssumption
<1>2. /\ HasAttempt(s) /\ s.closure = 0 /\ s.attempt > 0
      /\ s.status = "ACTIVE" /\ s.runtime = "ACTIVE" /\ s.token = 0
      /\ s.retries <= RetryLimit /\ s.usage <= ReviewLimit
      /\ ~HasTurn(s) /\ ValidChangeProposal(s) /\ s.ready = s.head
      /\ ~s.planningOnly
  BY ReadyFacts
<1>3. /\ moved \in Snapshot /\ moved.head = e.head /\ moved.ready = NoHead
      /\ moved.state = s.state /\ moved.attempt = s.attempt /\ moved.usage = s.usage /\ moved.retries = s.retries /\ moved.stage = s.stage
      /\ moved.turn = s.turn /\ moved.waiting = s.waiting /\ moved.pr = s.pr /\ moved.revision = s.revision
      /\ moved.status = s.status /\ moved.runtime = s.runtime /\ moved.token = s.token /\ moved.closure = s.closure
      /\ moved.planningOnly = s.planningOnly
  BY <1>1, MovedFacts
<1> HIDE DEF moved
<1>4. StageState[s.stage] = "REVIEWING" /\ StageRole[s.stage] = "REVIEWER"
  BY DEF StageState, StageRole
<1>5. d = IF s.usage >= ReviewLimit
          THEN Applied(NeedsHuman(moved, "REVIEWER"), "review_budget_exhausted", SyncBudget)
          ELSE Applied([moved EXCEPT !.state = "REVIEWING"], "review_head_replaced", SyncTurn(s, e))
  BY <1>2, <1>4 DEF ReduceSynchronization, moved, MovedTo, SyncBudget, SyncTurn, Handoff, Fresh, FollowsHead, ValidChangeProposal, ActiveStates
<1>6. ValidSnapshot(d.snap) /\ d.disposition = "APPLIED"
  <2>1. CASE s.usage >= ReviewLimit
    <3> DEFINE t == NeedsHuman(moved, "REVIEWER")
               v == Applied(t, "review_budget_exhausted", SyncBudget).snap
    <3>1. "REVIEWER" \in Roles \cup {""}
      BY DEF Roles
    <3>2. /\ t \in Snapshot /\ t.state = "NEEDS_HUMAN" /\ t.status = "WAITING_FOR_HUMAN"
          /\ t.ready = NoHead /\ t.attempt = s.attempt /\ t.usage = s.usage /\ t.retries = s.retries
          /\ t.stage = s.stage /\ t.turn = s.turn /\ t.pr = s.pr
          /\ t.runtime = s.runtime /\ t.token = s.token /\ t.closure = s.closure
          /\ t.planningOnly = s.planningOnly
      <4>1. /\ t \in Snapshot /\ t.state = "NEEDS_HUMAN" /\ t.status = "WAITING_FOR_HUMAN"
            /\ t.ready = moved.ready /\ t.attempt = moved.attempt /\ t.usage = moved.usage /\ t.retries = moved.retries
            /\ t.stage = moved.stage /\ t.turn = moved.turn /\ t.pr = moved.pr
            /\ t.runtime = moved.runtime /\ t.token = moved.token /\ t.closure = moved.closure
            /\ t.planningOnly = moved.planningOnly
        BY ONLY <1>3, <3>1, NeedsHumanFacts
      <4> QED BY <1>3, <4>1
    <3> HIDE DEF t
    <3>3. /\ v \in Snapshot /\ v.state = "NEEDS_HUMAN" /\ v.status = "WAITING_FOR_HUMAN"
          /\ v.ready = NoHead /\ v.attempt = s.attempt /\ v.usage = s.usage /\ v.retries = s.retries
          /\ v.stage = s.stage /\ v.turn = s.turn /\ v.pr = s.pr
          /\ v.runtime = s.runtime /\ v.token = s.token /\ v.closure = s.closure
          /\ v.planningOnly = s.planningOnly
      BY <3>2, AppliedFields
    <3> HIDE DEF v
    <3>4. ValidSnapshot(v)
      BY <1>2, <3>3, NeedsHumanValid DEF HasTurn, HasAttempt, HasProposal
    <3> QED BY <1>5, <2>1, <3>2, <3>4, AppliedFields DEF t, v
  <2>2. CASE ~(s.usage >= ReviewLimit)
    <3> DEFINE t == [moved EXCEPT !.state = "REVIEWING"]
               v == Applied(t, "review_head_replaced", SyncTurn(s, e)).snap
    <3>1. "REVIEWING" \in States
      BY DEF States, AttemptStates, ActiveStates
    <3>2. /\ t \in Snapshot /\ t.state = "REVIEWING" /\ t.status = s.status /\ t.head = e.head
          /\ t.ready = NoHead /\ t.attempt = s.attempt /\ t.usage = s.usage /\ t.retries = s.retries
          /\ t.stage = s.stage /\ t.turn = s.turn /\ t.pr = s.pr
          /\ t.runtime = s.runtime /\ t.token = s.token /\ t.closure = s.closure
          /\ t.planningOnly = s.planningOnly
      BY <1>3, <3>1, StateFacts
    <3> HIDE DEF t
    <3>3. /\ v \in Snapshot /\ v.state = "REVIEWING" /\ v.status = s.status /\ v.head = e.head
          /\ v.ready = NoHead /\ v.attempt = s.attempt /\ v.usage = s.usage /\ v.retries = s.retries
          /\ v.stage = s.stage /\ v.turn = s.turn /\ v.pr = s.pr
          /\ v.runtime = s.runtime /\ v.token = s.token /\ v.closure = s.closure
          /\ v.planningOnly = s.planningOnly
      BY <3>2, AppliedFields
    <3> HIDE DEF v
    <3>4. ValidAssignments(v)
      BY <1>2, <3>3 DEF ValidAssignments, ActiveStates
    <3>5. ValidAttempt(v)
      <4>1. s.usage < ReviewLimit
        <5>1. s.usage \in Nat
          BY Zenon DEF Snapshot
        <5> QED BY <5>1, <2>2, LimitsAssumption
      <4> QED BY <4>1, <1>2, <3>3 DEF ValidAttempt, AttemptStates, ActiveStates, HasAttempt
    <3>6. ValidStateShape(v)
      BY <1>1, <1>2, <1>4, <3>3 DEF ValidStateShape, ValidActiveTurn, ActiveStates, HasTurn, ValidChangeProposal, HasProposal
    <3>7. ValidSnapshot(v)
      BY <1>2, <3>3, <3>4, <3>5, <3>6 DEF ValidSnapshot
    <3> QED BY <1>5, <2>2, <3>2, <3>7, AppliedFields DEF t, v
  <2> QED BY <2>1, <2>2
<1>7. Dispatch(s, e) = d
  BY DEF Dispatch
<1> HIDE DEF d
<1> QED BY <1>6, <1>7 DEF Reduce

-----------------------------------------------------------------------------
\* What a worker may submit about the turn of s, p being the Change Proposal of the Work Item.
SettlementEvent(s, e, p) ==
    /\ e.kind = "TURN_SETTLED" /\ e.revision = s.revision /\ e.turn = s.turn
    /\ e.existingReview = FALSE /\ e.handoff = ""
    /\ e.outcome \in Accepts[s.stage] \cup {"CLARIFICATION_WAIT", "BLOCKED", "INFRASTRUCTURE_FAILED"}
    /\ \/ e.pr = NoPR /\ e.head = NoHead
       \/ e.pr = p /\ e.head \in Heads
    /\ e.outcome \in {"CHANGE_PROPOSAL_READY", "CHANGES_REQUESTED", "APPROVED"} => e.pr = p
    /\ e.outcome \in Accepts["review"] =>
          e.review.pr = p /\ e.review.head \in Heads /\ e.review.authorized = TRUE
    /\ e.pending.some \in BOOLEAN
    /\ e.publication = NoPR \/ (e.publication = p /\ e.publicationHead \in Heads)
    /\ e.pr # NoPR \/ e.publication # NoPR => s.stage # "planning"
    /\ e.inputPending \in BOOLEAN

\* What its decision does to the Workflow.
Settled(s, e, p, t, f) ==
    /\ t.attempt = s.attempt /\ t.turn = NoTurn /\ t.stage \in Stages
    /\ t.pr \in {NoPR, p} /\ Headed(t)
    /\ t.state = "PR_READY" \/ t.waiting = s.waiting \/ t.state \in ActiveStates
    /\ f.intent.kind \in {"none", "turn", "reconcile"} /\ f.intent.stage \in Stages \cup {""}
    /\ f.intent.kind = "turn" => t.state \in ActiveStates /\ f.intent.stage = t.stage /\ f.intent.head = t.head
    /\ f.intent.kind = "reconcile" /\ t.state \in ActiveStates => f.intent.stage = t.stage
    /\ f.intent.kind = "none" /\ t.state \in ActiveStates => t.waiting /\ t.stage = s.stage /\ ~e.inputPending
    /\ t.state = "PR_READY" =>
          /\ e.outcome = "APPROVED" /\ f.review = "ACCEPTED" /\ t.stage = "review" /\ t.waiting = s.waiting
          /\ t.ready = s.turn.head /\ t.ready = e.head
    /\ t.usage = IF f.review = "ACCEPTED" THEN s.usage + 1 ELSE s.usage

\* The Workflow with the turn taken off it.
TakenOff(s, e) == Associate([s EXCEPT !.turn = NoTurn, !.resume = ""], e)

\* A settlement is refused, or decided by the branch of its outcome.
LEMMA SettlementCases ==
    ASSUME NEW s \in Snapshot, ValidSnapshot(s), s.state \in ActiveStates, NEW p \in PRs, NEW e, SettlementEvent(s, e, p)
    PROVE  LET d == ReduceTurnSettled(s, e)
               next == TakenOff(s, e)
           IN  \/ d = Rejected(s)
               \/ /\ HasTurn(s)
                  /\ e.publication = NoPR \/ ~HasProposal(s)
                  /\ \/ e.outcome = "CLARIFICATION_WAIT" /\ e.pr = NoPR /\ d = ClarificationWait(next, e.turn.stage, e.inputPending)
                     \/ /\ e.outcome = "CLARIFICATION_WAIT" /\ e.pr = p
                        /\ d = ClarificationWait(SetProposal(next, e.pr, e.head), e.turn.stage, e.inputPending)
                     \/ e.outcome = "PLANNING_READY" /\ d = ClarificationWait(next, e.turn.stage, TRUE)
                     \/ /\ e.outcome = "PLANNING_READY"
                        /\ d = Applied([next EXCEPT !.state = "PLAN_READY"], "approved", [NoEffects EXCEPT !.labels = "PLAN_READY"])
                     \/ e.outcome = "CHANGE_PROPOSAL_READY" /\ e.pr = p /\ d = ReduceDeveloperSettled(s, next, e)
                     \/ e.outcome \in {"CHANGES_REQUESTED", "APPROVED"} /\ s.stage = "review" /\ e.pr = p /\ d = ReduceReviewSettled(s, next, e)
                     \/ d = Handoff(next, StageRole[e.turn.stage], "agent_blocked", PendingOnly(e.pending))
                     \/ d = ReduceInfrastructureFailure(next, e)
<1>1. s.stage \in Stages
  BY ActiveFacts
<1>2. NoPR # p
  BY AbsentAssumption
<1>3. \/ e.outcome \in {"CLARIFICATION_WAIT", "BLOCKED", "INFRASTRUCTURE_FAILED"}
      \/ /\ e.outcome \in Accepts[s.stage]
         /\ \/ e.outcome = "PLANNING_READY" /\ s.stage = "planning"
            \/ e.outcome = "CHANGE_PROPOSAL_READY" /\ s.stage = "implementation"
            \/ e.outcome \in {"CHANGES_REQUESTED", "APPROVED"} /\ s.stage = "review"
  <2>1. /\ Accepts["planning"] = {"PLANNING_READY"}
        /\ Accepts["implementation"] = {"CHANGE_PROPOSAL_READY"}
        /\ Accepts["review"] = {"CHANGES_REQUESTED", "APPROVED"}
    BY DEF Accepts
  <2>2. e.outcome \in Accepts[s.stage] \cup {"CLARIFICATION_WAIT", "BLOCKED", "INFRASTRUCTURE_FAILED"}
    BY DEF SettlementEvent
  <2> QED BY <1>1, <2>1, <2>2 DEF Stages
<1>4. e.pr \in {NoPR, p} /\ e.handoff = "" /\ (e.outcome \in {"CHANGE_PROPOSAL_READY", "CHANGES_REQUESTED", "APPROVED"} => e.pr = p)
  BY DEF SettlementEvent
<1> DEFINE d == ReduceTurnSettled(s, e)
           next == TakenOff(s, e)
<1>5. ASSUME d # Rejected(s)
      PROVE  HasTurn(s) /\ (e.publication = NoPR \/ ~HasProposal(s))
  BY <1>5 DEF ReduceTurnSettled
<1>6. CASE e.outcome = "CLARIFICATION_WAIT"
  BY <1>2, <1>4, <1>5, <1>6 DEF ReduceTurnSettled, TakenOff
<1>7. CASE e.outcome \in Accepts[s.stage] /\ e.outcome = "PLANNING_READY" /\ s.stage = "planning"
  BY <1>2, <1>4, <1>5, <1>7 DEF ReduceTurnSettled, TakenOff
<1>8. CASE e.outcome \in Accepts[s.stage] /\ e.outcome = "CHANGE_PROPOSAL_READY" /\ s.stage = "implementation"
  BY <1>2, <1>4, <1>5, <1>8 DEF ReduceTurnSettled, TakenOff
<1>9. CASE e.outcome \in Accepts[s.stage] /\ e.outcome \in {"CHANGES_REQUESTED", "APPROVED"} /\ s.stage = "review"
  BY <1>2, <1>4, <1>5, <1>9 DEF ReduceTurnSettled, TakenOff
<1>10. CASE e.outcome = "BLOCKED"
  BY <1>2, <1>4, <1>5, <1>10 DEF ReduceTurnSettled, TakenOff
<1>11. CASE e.outcome = "INFRASTRUCTURE_FAILED"
  BY <1>2, <1>4, <1>5, <1>11 DEF ReduceTurnSettled, TakenOff
<1> QED BY <1>3, <1>6, <1>7, <1>8, <1>9, <1>10, <1>11

\* The revision changes nothing a settlement promises.
LEMMA SettledApplied ==
    ASSUME NEW s \in Snapshot, NEW e, NEW p \in PRs, NEW t \in Snapshot, NEW f, NEW reason,
           t.revision = s.revision, Settled(s, e, p, t, f)
    PROVE  LET d == Applied(t, reason, f)
           IN  /\ d.disposition = "APPLIED" /\ d.snap \in Snapshot /\ d.snap.revision = s.revision + 1
               /\ Settled(s, e, p, d.snap, d.effects)
<1> DEFINE d == Applied(t, reason, f)
<1>1. /\ d.disposition = "APPLIED" /\ d.effects = f /\ d.snap \in Snapshot
      /\ d.snap.revision = t.revision + 1
      /\ d.snap.waiting = t.waiting /\ d.snap.state = t.state
      /\ d.snap.attempt = t.attempt /\ d.snap.stage = t.stage /\ d.snap.usage = t.usage
      /\ d.snap.pr = t.pr /\ d.snap.head = t.head /\ d.snap.ready = t.ready /\ d.snap.turn = t.turn
  BY AppliedFields
<1> HIDE DEF d
<1>2. d.snap.revision = s.revision + 1
  BY <1>1
<1>3. Settled(s, e, p, d.snap, d.effects)
  BY <1>1 DEF Settled, Headed, HasProposal
<1> QED BY <1>1, <1>2, <1>3 DEF d

\* Taking the turn off a Workflow keeps the rest, but for a Change Proposal that is associated.
LEMMA TakenOffFacts ==
    ASSUME NEW s \in Snapshot, ValidSnapshot(s), s.state \in ActiveStates, HasTurn(s), Headed(s), NEW p \in PRs, s.pr \in {NoPR, p},
           NEW e, SettlementEvent(s, e, p), e.publication = NoPR \/ ~HasProposal(s)
    PROVE  LET n == TakenOff(s, e) IN
           /\ n \in Snapshot /\ n.state = s.state /\ n.stage = s.stage /\ n.attempt = s.attempt /\ n.usage = s.usage
           /\ n.retries = s.retries /\ n.turn = NoTurn /\ n.waiting = s.waiting /\ n.revision = s.revision
           /\ n.pr \in {NoPR, p} /\ Headed(n)
           /\ e.publication = NoPR => n.head = s.head
<1> DEFINE u == [s EXCEPT !.turn = NoTurn, !.resume = ""]
           v == [u EXCEPT !.pr = e.publication, !.head = e.publicationHead]
<1>1. NoTurn \in Turn
  BY DEF Turn, NoTurn
<1>2. u \in Snapshot
  BY <1>1, Zenon DEF Snapshot
<1>3. /\ u.state = s.state /\ u.stage = s.stage /\ u.attempt = s.attempt /\ u.usage = s.usage
      /\ u.retries = s.retries /\ u.turn = NoTurn /\ u.waiting = s.waiting /\ u.revision = s.revision
      /\ u.pr = s.pr /\ u.head = s.head
  BY DEF Snapshot
<1> HIDE DEF u
<1>4. CASE e.publication = NoPR
  BY <1>2, <1>3, <1>4 DEF TakenOff, Associate, u, Headed, HasProposal
<1>5. CASE e.publication # NoPR
  <2>1. e.publication = p /\ e.publicationHead \in Heads
    BY <1>5 DEF SettlementEvent
  <2>2. e.publication \in PRs \cup {NoPR} /\ e.publicationHead \in Heads \cup {NoHead}
    BY <2>1
  <2>3. v \in Snapshot
    BY <1>2, <2>2, ZenonT(60) DEF Snapshot
  <2>4. /\ v.state = u.state /\ v.stage = u.stage /\ v.attempt = u.attempt /\ v.usage = u.usage
        /\ v.retries = u.retries /\ v.turn = u.turn /\ v.waiting = u.waiting /\ v.revision = u.revision
        /\ v.pr = e.publication /\ v.head = e.publicationHead
    BY <1>2 DEF Snapshot
  <2>5. TakenOff(s, e) = v
    BY <1>5 DEF TakenOff, Associate, u
  <2> HIDE DEF v
  <2> QED BY <1>3, <1>5, <2>1, <2>3, <2>4, <2>5, AbsentAssumption DEF Headed, HasProposal
<1> QED BY <1>4, <1>5

\* Recording a Change Proposal changes the Proposal, its head and what was ready.
LEMMA SetProposalFacts ==
    ASSUME NEW n \in Snapshot, NEW pr \in PRs, NEW head \in Heads
    PROVE  LET u == SetProposal(n, pr, head) IN
           /\ u \in Snapshot /\ u.state = n.state /\ u.stage = n.stage /\ u.attempt = n.attempt /\ u.usage = n.usage
           /\ u.retries = n.retries /\ u.turn = n.turn /\ u.waiting = n.waiting /\ u.revision = n.revision
           /\ u.pr = pr /\ u.head = head /\ u.ready = NoHead /\ Headed(u)
<1> DEFINE u == [n EXCEPT !.pr = pr, !.head = head, !.ready = NoHead]
<1>1. pr \in PRs \cup {NoPR} /\ head \in Heads \cup {NoHead}
  OBVIOUS
<1>2. u \in Snapshot
  BY <1>1, Zenon DEF Snapshot
<1>3. /\ u.state = n.state /\ u.stage = n.stage /\ u.attempt = n.attempt /\ u.usage = n.usage
      /\ u.retries = n.retries /\ u.turn = n.turn /\ u.waiting = n.waiting /\ u.revision = n.revision
      /\ u.pr = pr /\ u.head = head /\ u.ready = NoHead
  BY DEF Snapshot
<1> HIDE DEF u
<1> QED BY <1>2, <1>3, AbsentAssumption DEF SetProposal, u, Headed, HasProposal

\* The turn of an active Workflow and its effects, as the branches below use them.
LEMMA SettlementFacts ==
    ASSUME NEW s \in Snapshot, ValidSnapshot(s), s.state \in ActiveStates, HasTurn(s), NEW p \in PRs, NEW e, SettlementEvent(s, e, p)
    PROVE  /\ e.turn.stage = s.stage /\ s.turn.head = s.head /\ e.turn = s.turn /\ s.stage \in Stages
           /\ StageState[s.stage] = s.state /\ StageRole[s.stage] \in Roles \cup {""}
           /\ NoEffects.review = "" /\ NoEffects.intent = NoIntent
           /\ PendingOnly(e.pending).kind \in {"none", "reconcile"} /\ PendingOnly(e.pending).stage = ""
           /\ e.pending.some \in BOOLEAN /\ e.inputPending \in BOOLEAN
<1>1. /\ e.turn = s.turn /\ e.pending.some \in BOOLEAN /\ e.inputPending \in BOOLEAN
  BY DEF SettlementEvent
<1>2. s.turn.stage = s.stage /\ s.turn.head = s.head /\ s.stage \in Stages /\ StageState[s.stage] = s.state
  BY ActiveFacts
<1>3. NoEffects.review = "" /\ NoEffects.intent = NoIntent
  BY DEF NoEffects
<1>4. PendingOnly(e.pending).kind \in {"none", "reconcile"} /\ PendingOnly(e.pending).stage = ""
  BY <1>1 DEF PendingOnly, NoIntent
<1> QED BY <1>1, <1>2, <1>3, <1>4, StageFacts

\* A successor keeps its Stage and its head when it has to wait for a reconciliation.
LEMMA SuccessorFacts ==
    ASSUME NEW pending, pending.some \in BOOLEAN, NEW stage, NEW purpose, NEW head
    PROVE  LET i == Successor(pending, EnqueueTurn(stage, purpose, head)) IN
           i.kind \in {"turn", "reconcile"} /\ i.stage = stage /\ i.head = head
BY DEF Successor, EnqueueTurn

\* A turn that waits for an answer, or goes on because the answer is there already.
LEMMA ClarificationSettled ==
    ASSUME NEW s \in Snapshot, ValidSnapshot(s), s.state \in ActiveStates, HasTurn(s), NEW p \in PRs, NEW e, SettlementEvent(s, e, p),
           NEW n \in Snapshot, n.state = s.state /\ n.stage = s.stage /\ n.attempt = s.attempt /\ n.usage = s.usage,
           n.turn = NoTurn /\ n.revision = s.revision, n.pr \in {NoPR, p}, Headed(n),
           NEW waits \in BOOLEAN, waits \/ ~e.inputPending
    PROVE  LET d == ClarificationWait(n, e.turn.stage, waits)
           IN  /\ d.disposition = "APPLIED" /\ d.snap \in Snapshot /\ d.snap.revision = s.revision + 1
               /\ Settled(s, e, p, d.snap, d.effects)
<1>0. /\ e.turn.stage = s.stage /\ s.turn.head = s.head /\ e.turn = s.turn /\ s.stage \in Stages
      /\ StageState[s.stage] = s.state /\ StageRole[s.stage] \in Roles \cup {""}
      /\ NoEffects.review = "" /\ NoEffects.intent = NoIntent
      /\ PendingOnly(e.pending).kind \in {"none", "reconcile"} /\ PendingOnly(e.pending).stage = ""
      /\ e.pending.some \in BOOLEAN /\ e.inputPending \in BOOLEAN
  BY SettlementFacts
<1> DEFINE t == [n EXCEPT !.waiting = TRUE]
           f == [NoEffects EXCEPT !.intent = IF waits THEN EnqueueTurn(e.turn.stage, "REACTIVATION", n.head) ELSE NoIntent]
<1>1. t \in Snapshot
  BY ZenonT(60) DEF Snapshot
<1>2. /\ t.state = n.state /\ t.stage = n.stage /\ t.attempt = n.attempt /\ t.usage = n.usage
      /\ t.turn = n.turn /\ t.waiting = TRUE /\ t.revision = n.revision /\ t.pr = n.pr /\ t.head = n.head
  BY DEF Snapshot
<1>3. f.intent = (IF waits THEN EnqueueTurn(e.turn.stage, "REACTIVATION", n.head) ELSE NoIntent) /\ f.review = ""
  BY DEF NoEffects
<1>4. IF waits THEN f.intent.kind = "turn" /\ f.intent.stage = e.turn.stage /\ f.intent.head = n.head
      ELSE f.intent.kind = "none" /\ f.intent.stage = ""
  <2>1. EnqueueTurn(e.turn.stage, "REACTIVATION", n.head).kind = "turn" /\ EnqueueTurn(e.turn.stage, "REACTIVATION", n.head).stage = e.turn.stage
        /\ EnqueueTurn(e.turn.stage, "REACTIVATION", n.head).head = n.head
    BY DEF EnqueueTurn
  <2>2. NoIntent.kind = "none" /\ NoIntent.stage = ""
    BY DEF NoIntent
  <2> HIDE DEF f, t
  <2> QED BY <1>3, <2>1, <2>2
<1>5. e.turn.stage = s.stage /\ s.stage \in Stages
  BY <1>0
<1> HIDE DEF t, f
<1>6. Settled(s, e, p, t, f)
  BY <1>2, <1>3, <1>4, <1>5 DEF Settled, Headed, HasProposal, ActiveStates
<1>7. ClarificationWait(n, e.turn.stage, waits) = Applied(t, "clarification_wait", f)
  BY DEF ClarificationWait, t, f
<1> QED BY <1>1, <1>2, <1>6, <1>7, SettledApplied

\* Every settlement that ends with a person.
LEMMA HandoffSettled ==
    ASSUME NEW s \in Snapshot, ValidSnapshot(s), s.state \in ActiveStates, HasTurn(s), NEW p \in PRs, NEW e, SettlementEvent(s, e, p),
           NEW n \in Snapshot, n.stage = s.stage /\ n.attempt = s.attempt /\ n.usage = s.usage,
           n.turn = NoTurn /\ n.waiting = s.waiting /\ n.revision = s.revision, n.pr \in {NoPR, p}, Headed(n), NEW reason
    PROVE  LET d == Handoff(n, StageRole[e.turn.stage], reason, PendingOnly(e.pending))
           IN  /\ d.disposition = "APPLIED" /\ d.snap \in Snapshot /\ d.snap.revision = s.revision + 1
               /\ Settled(s, e, p, d.snap, d.effects)
<1>0. /\ e.turn.stage = s.stage /\ s.turn.head = s.head /\ e.turn = s.turn /\ s.stage \in Stages
      /\ StageState[s.stage] = s.state /\ StageRole[s.stage] \in Roles \cup {""}
      /\ NoEffects.review = "" /\ NoEffects.intent = NoIntent
      /\ PendingOnly(e.pending).kind \in {"none", "reconcile"} /\ PendingOnly(e.pending).stage = ""
      /\ e.pending.some \in BOOLEAN /\ e.inputPending \in BOOLEAN
  BY SettlementFacts
<1> DEFINE t == NeedsHuman(n, StageRole[e.turn.stage])
           f == [NoEffects EXCEPT !.handoff = reason, !.labels = "NEEDS_HUMAN", !.intent = PendingOnly(e.pending)]
<1>1. f.intent = PendingOnly(e.pending) /\ f.review = ""
  BY DEF NoEffects
<1>2. e.turn.stage = s.stage /\ StageRole[s.stage] \in Roles \cup {""} /\ s.stage \in Stages
      /\ PendingOnly(e.pending).kind \in {"none", "reconcile"} /\ PendingOnly(e.pending).stage = ""
  BY <1>0
<1> HIDE DEF f
<1>3. /\ t \in Snapshot /\ t.state = "NEEDS_HUMAN"
      /\ t.head = n.head /\ t.attempt = n.attempt /\ t.usage = n.usage
      /\ t.stage = n.stage /\ t.turn = n.turn /\ t.waiting = n.waiting /\ t.pr = n.pr /\ t.revision = n.revision
  <2>1. StageRole[e.turn.stage] \in Roles \cup {""}
    BY <1>2
  <2> QED BY <2>1, NeedsHumanFacts
<1> HIDE DEF t
<1>4. Settled(s, e, p, t, f)
  BY <1>1, <1>2, <1>3 DEF Settled, Headed, HasProposal, ActiveStates
<1>5. Handoff(n, StageRole[e.turn.stage], reason, PendingOnly(e.pending)) = Applied(t, reason, f)
  BY DEF Handoff, t, f
<1> QED BY <1>3, <1>4, <1>5, SettledApplied

\* An infrastructure failure is retried in the same Stage, or handed to a person.
LEMMA RetrySettled ==
    ASSUME NEW s \in Snapshot, ValidSnapshot(s), s.state \in ActiveStates, HasTurn(s), NEW p \in PRs, NEW e, SettlementEvent(s, e, p),
           NEW n \in Snapshot, n.state = s.state /\ n.stage = s.stage /\ n.attempt = s.attempt /\ n.usage = s.usage,
           n.turn = NoTurn /\ n.waiting = s.waiting /\ n.revision = s.revision, n.pr \in {NoPR, p}, Headed(n),
           e.publication = NoPR => n.head = s.head
    PROVE  LET d == ReduceInfrastructureFailure(n, e)
           IN  /\ d.disposition = "APPLIED" /\ d.snap \in Snapshot /\ d.snap.revision = s.revision + 1
               /\ Settled(s, e, p, d.snap, d.effects)
<1>0. /\ e.turn.stage = s.stage /\ s.turn.head = s.head /\ e.turn = s.turn /\ s.stage \in Stages
      /\ StageState[s.stage] = s.state /\ StageRole[s.stage] \in Roles \cup {""}
      /\ NoEffects.review = "" /\ NoEffects.intent = NoIntent
      /\ PendingOnly(e.pending).kind \in {"none", "reconcile"} /\ PendingOnly(e.pending).stage = ""
      /\ e.pending.some \in BOOLEAN /\ e.inputPending \in BOOLEAN
  BY SettlementFacts
<1>1. CASE n.retries < RetryLimit
  <2> DEFINE t == [n EXCEPT !.retries = n.retries + 1]
             i == Successor(e.pending, EnqueueTurn(e.turn.stage, "RETRY", IF e.publication # NoPR THEN n.head ELSE e.turn.head))
             f == [NoEffects EXCEPT !.intent = i]
  <2>1. n.retries \in Nat
    BY Zenon DEF Snapshot
  <2>2. n.retries + 1 \in Nat
    BY <2>1
  <2>3. t \in Snapshot
    BY <2>2, ZenonT(60) DEF Snapshot
  <2>4. /\ t.state = n.state /\ t.stage = n.stage /\ t.attempt = n.attempt /\ t.usage = n.usage
        /\ t.turn = n.turn /\ t.waiting = n.waiting /\ t.revision = n.revision /\ t.pr = n.pr /\ t.head = n.head
    BY DEF Snapshot
  <2>5. f.intent = i /\ f.review = ""
    BY DEF NoEffects
  <2>6. e.turn.stage = s.stage /\ s.stage \in Stages /\ e.turn.head = s.head /\ e.pending.some \in BOOLEAN
    BY <1>0
  <2>7. i.kind \in {"turn", "reconcile"} /\ i.stage = s.stage /\ i.head = n.head
    BY <2>6, SuccessorFacts
  <2> HIDE DEF t, f, i
  <2>8. Settled(s, e, p, t, f)
    BY <2>4, <2>5, <2>6, <2>7 DEF Settled, Headed, HasProposal, ActiveStates
  <2>9. ReduceInfrastructureFailure(n, e) = Applied(t, "infrastructure_retry", f)
    BY <1>1 DEF ReduceInfrastructureFailure, t, f, i
  <2> QED BY <2>3, <2>4, <2>8, <2>9, SettledApplied
<1>2. CASE ~(n.retries < RetryLimit)
  <2>1. ReduceInfrastructureFailure(n, e) = Handoff(n, StageRole[e.turn.stage], "infrastructure_retries_exhausted", PendingOnly(e.pending))
    BY <1>2 DEF ReduceInfrastructureFailure
  <2>2. LET d == Handoff(n, StageRole[e.turn.stage], "infrastructure_retries_exhausted", PendingOnly(e.pending))
        IN  /\ d.disposition = "APPLIED" /\ d.snap \in Snapshot /\ d.snap.revision = s.revision + 1
            /\ Settled(s, e, p, d.snap, d.effects)
    BY HandoffSettled
  <2> QED BY <2>1, <2>2
<1> QED BY <1>1, <1>2

\* A plan that is complete ends the work of the planner.
LEMMA PlanSettled ==
    ASSUME NEW s \in Snapshot, ValidSnapshot(s), s.state \in ActiveStates, HasTurn(s), NEW p \in PRs, NEW e, SettlementEvent(s, e, p),
           NEW n \in Snapshot, n.state = s.state /\ n.stage = s.stage /\ n.attempt = s.attempt /\ n.usage = s.usage,
           n.turn = NoTurn /\ n.waiting = s.waiting /\ n.revision = s.revision, n.pr \in {NoPR, p}, Headed(n)
    PROVE  LET d == Applied([n EXCEPT !.state = "PLAN_READY"], "approved", [NoEffects EXCEPT !.labels = "PLAN_READY"])
           IN  /\ d.disposition = "APPLIED" /\ d.snap \in Snapshot /\ d.snap.revision = s.revision + 1
               /\ Settled(s, e, p, d.snap, d.effects)
<1>0. /\ e.turn.stage = s.stage /\ s.turn.head = s.head /\ e.turn = s.turn /\ s.stage \in Stages
      /\ StageState[s.stage] = s.state /\ StageRole[s.stage] \in Roles \cup {""}
      /\ NoEffects.review = "" /\ NoEffects.intent = NoIntent
      /\ PendingOnly(e.pending).kind \in {"none", "reconcile"} /\ PendingOnly(e.pending).stage = ""
      /\ e.pending.some \in BOOLEAN /\ e.inputPending \in BOOLEAN
  BY SettlementFacts
<1> DEFINE t == [n EXCEPT !.state = "PLAN_READY"]
           f == [NoEffects EXCEPT !.labels = "PLAN_READY"]
<1>1. "PLAN_READY" \in States
  BY DEF States, AttemptStates
<1>2. /\ t \in Snapshot /\ t.state = "PLAN_READY" /\ t.head = n.head /\ t.attempt = n.attempt /\ t.usage = n.usage
      /\ t.stage = n.stage /\ t.turn = n.turn /\ t.waiting = n.waiting /\ t.pr = n.pr /\ t.revision = n.revision
  BY <1>1, StateFacts
<1>3. f.intent.kind = "none" /\ f.intent.stage = "" /\ f.review = ""
  BY DEF NoEffects, NoIntent
<1>4. s.stage \in Stages
  BY <1>0
<1> HIDE DEF t, f
<1>5. Settled(s, e, p, t, f)
  BY <1>2, <1>3, <1>4 DEF Settled, Headed, HasProposal, ActiveStates
<1>6. t.revision = s.revision
  BY <1>2
<1>7. LET d == Applied(t, "approved", f)
      IN  /\ d.disposition = "APPLIED" /\ d.snap \in Snapshot /\ d.snap.revision = s.revision + 1
          /\ Settled(s, e, p, d.snap, d.effects)
  BY <1>2, <1>5, <1>6, SettledApplied
<1> QED BY <1>7 DEF t, f

\* The fields a Developer who is done sets.
LEMMA ReviewingType ==
    ASSUME NEW w \in Snapshot, NEW stage \in Stages, NEW state \in States
    PROVE  [w EXCEPT !.stage = stage, !.state = state, !.retries = 0] \in Snapshot
<1>1. stage \in Stages \cup {""} /\ 0 \in Nat
  OBVIOUS
<1> QED BY <1>1, Zenon DEF Snapshot

\* A Developer who is done hands the head over to the Reviewer.
LEMMA DeveloperSettled ==
    ASSUME NEW s \in Snapshot, ValidSnapshot(s), s.state \in ActiveStates, HasTurn(s), NEW p \in PRs, NEW e, SettlementEvent(s, e, p),
           e.outcome = "CHANGE_PROPOSAL_READY", e.pr = p,
           NEW n \in Snapshot, n.attempt = s.attempt /\ n.usage = s.usage,
           n.turn = NoTurn /\ n.waiting = s.waiting /\ n.revision = s.revision,
           ReduceDeveloperSettled(s, n, e) # Rejected(s)
    PROVE  LET d == ReduceDeveloperSettled(s, n, e)
           IN  /\ d.disposition = "APPLIED" /\ d.snap \in Snapshot /\ d.snap.revision = s.revision + 1
               /\ Settled(s, e, p, d.snap, d.effects)
<1>0. /\ e.turn.stage = s.stage /\ s.turn.head = s.head /\ e.turn = s.turn /\ s.stage \in Stages
      /\ StageState[s.stage] = s.state /\ StageRole[s.stage] \in Roles \cup {""}
      /\ NoEffects.review = "" /\ NoEffects.intent = NoIntent
      /\ PendingOnly(e.pending).kind \in {"none", "reconcile"} /\ PendingOnly(e.pending).stage = ""
      /\ e.pending.some \in BOOLEAN /\ e.inputPending \in BOOLEAN
  BY SettlementFacts
<1> DEFINE u == SetProposal(n, e.pr, e.head)
           t == [u EXCEPT !.stage = "review", !.state = "REVIEWING", !.retries = 0]
           i == Successor(e.pending, EnqueueTurn("review", "REVIEW", e.head))
           f == [NoEffects EXCEPT !.intent = i, !.labels = "REVIEWING"]
<1>1. e.head \in Heads
  BY AbsentAssumption DEF SettlementEvent
<1>2. /\ u \in Snapshot /\ u.attempt = s.attempt /\ u.usage = s.usage
      /\ u.turn = NoTurn /\ u.waiting = s.waiting /\ u.revision = s.revision
      /\ u.pr = p /\ u.head = e.head /\ Headed(u)
  BY <1>1, SetProposalFacts
<1> HIDE DEF u
<1>3. "review" \in Stages /\ "REVIEWING" \in States /\ 0 \in Nat
  BY DEF Stages, States, AttemptStates, ActiveStates
<1>4. t \in Snapshot
  <2>1. ASSUME NEW w \in Snapshot PROVE [w EXCEPT !.stage = "review", !.state = "REVIEWING", !.retries = 0] \in Snapshot
    BY <1>3, ReviewingType
  <2> QED BY <1>2, <2>1
<1>5. /\ t.state = "REVIEWING" /\ t.stage = "review" /\ t.attempt = u.attempt /\ t.usage = u.usage
      /\ t.turn = u.turn /\ t.waiting = u.waiting /\ t.revision = u.revision /\ t.pr = u.pr /\ t.head = u.head
  BY <1>2 DEF Snapshot
<1>6. f.intent = i /\ f.review = ""
  BY DEF NoEffects
<1>7. i.kind \in {"turn", "reconcile"} /\ i.stage = "review" /\ i.head = e.head
  BY <1>0 DEF Successor, EnqueueTurn
<1> HIDE DEF t, f, i
<1>8. Settled(s, e, p, t, f)
  BY <1>2, <1>3, <1>5, <1>6, <1>7 DEF Settled, Headed, HasProposal, ActiveStates
<1>9. ReduceDeveloperSettled(s, n, e) = Applied(t, "change_proposal_ready", f)
  <2>1. NextStage[e.outcome] = "review" /\ NextPurpose[e.outcome] = "REVIEW" /\ StageState["review"] = "REVIEWING"
    BY DEF NextStage, NextPurpose, StageState
  <2>2. ReduceDeveloperSettled(s, n, e) =
          Applied([SetProposal(n, e.pr, e.head) EXCEPT
                      !.stage = NextStage[e.outcome], !.state = StageState[NextStage[e.outcome]], !.retries = 0],
                  "change_proposal_ready",
                  [NoEffects EXCEPT
                      !.intent = Successor(e.pending, EnqueueTurn(NextStage[e.outcome], NextPurpose[e.outcome], e.head)),
                      !.labels = StageState[NextStage[e.outcome]]])
    BY Zenon DEF ReduceDeveloperSettled
  <2> QED BY <2>1, <2>2 DEF t, f, i, u
<1> QED BY <1>2, <1>4, <1>5, <1>8, <1>9, SettledApplied

\* The verdicts of a Reviewer, by what becomes of them.
Reviewed(n, e) == [SetProposal(n, e.pr, e.head) EXCEPT !.retries = 0]
Counted(n, e)  == [Reviewed(n, e) EXCEPT !.usage = @ + 1]

\* The Workflow a verdict is recorded in, and the one that counted it.
LEMMA ReviewedFacts ==
    ASSUME NEW n \in Snapshot, NEW p \in PRs, NEW e, e.pr = p, e.head \in Heads
    PROVE  /\ LET u == Reviewed(n, e) IN
              /\ u \in Snapshot /\ u.state = n.state /\ u.stage = n.stage /\ u.attempt = n.attempt /\ u.usage = n.usage
              /\ u.turn = n.turn /\ u.waiting = n.waiting /\ u.revision = n.revision /\ u.pr = p /\ u.head = e.head
           /\ LET u == Counted(n, e) IN
              /\ u \in Snapshot /\ u.state = n.state /\ u.stage = n.stage /\ u.attempt = n.attempt /\ u.usage = n.usage + 1
              /\ u.turn = n.turn /\ u.waiting = n.waiting /\ u.revision = n.revision /\ u.pr = p /\ u.head = e.head
<1> DEFINE u == SetProposal(n, e.pr, e.head)
           v == [u EXCEPT !.retries = 0]
           w == [v EXCEPT !.usage = v.usage + 1]
<1>1. /\ u \in Snapshot /\ u.state = n.state /\ u.stage = n.stage /\ u.attempt = n.attempt /\ u.usage = n.usage
      /\ u.turn = n.turn /\ u.waiting = n.waiting /\ u.revision = n.revision
      /\ u.pr = p /\ u.head = e.head
  BY SetProposalFacts
<1> HIDE DEF u
<1>2. ASSUME NEW x \in Snapshot
      PROVE  /\ [x EXCEPT !.retries = 0] \in Snapshot /\ x.usage + 1 \in Nat
             /\ LET y == [x EXCEPT !.retries = 0] IN
                /\ y.state = x.state /\ y.stage = x.stage /\ y.attempt = x.attempt /\ y.usage = x.usage
                /\ y.turn = x.turn /\ y.waiting = x.waiting /\ y.revision = x.revision /\ y.pr = x.pr /\ y.head = x.head
  <2>1. x.usage \in Nat /\ 0 \in Nat
    BY Zenon DEF Snapshot
  <2>2. [x EXCEPT !.retries = 0] \in Snapshot
    BY <2>1, ZenonT(60) DEF Snapshot
  <2>3. LET y == [x EXCEPT !.retries = 0] IN
        /\ y.state = x.state /\ y.stage = x.stage /\ y.attempt = x.attempt /\ y.usage = x.usage
        /\ y.turn = x.turn /\ y.waiting = x.waiting /\ y.revision = x.revision /\ y.pr = x.pr /\ y.head = x.head
    BY DEF Snapshot
  <2> QED BY <2>1, <2>2, <2>3
<1>3. ASSUME NEW x \in Snapshot
      PROVE  /\ [x EXCEPT !.usage = x.usage + 1] \in Snapshot
             /\ LET y == [x EXCEPT !.usage = x.usage + 1] IN
                /\ y.state = x.state /\ y.stage = x.stage /\ y.attempt = x.attempt /\ y.usage = x.usage + 1
                /\ y.turn = x.turn /\ y.waiting = x.waiting /\ y.revision = x.revision /\ y.pr = x.pr /\ y.head = x.head
  <2>1. x.usage + 1 \in Nat
    BY <1>2
  <2>2. [x EXCEPT !.usage = x.usage + 1] \in Snapshot
    BY <2>1, ZenonT(60) DEF Snapshot
  <2>3. LET y == [x EXCEPT !.usage = x.usage + 1] IN
        /\ y.state = x.state /\ y.stage = x.stage /\ y.attempt = x.attempt /\ y.usage = x.usage + 1
        /\ y.turn = x.turn /\ y.waiting = x.waiting /\ y.revision = x.revision /\ y.pr = x.pr /\ y.head = x.head
    BY DEF Snapshot
  <2> QED BY <2>2, <2>3
<1>4. /\ v \in Snapshot /\ v.state = n.state /\ v.stage = n.stage /\ v.attempt = n.attempt /\ v.usage = n.usage
      /\ v.turn = n.turn /\ v.waiting = n.waiting /\ v.revision = n.revision /\ v.pr = p /\ v.head = e.head
  BY <1>1, <1>2
<1> HIDE DEF v
<1>5. /\ w \in Snapshot /\ w.state = n.state /\ w.stage = n.stage /\ w.attempt = n.attempt /\ w.usage = n.usage + 1
      /\ w.turn = n.turn /\ w.waiting = n.waiting /\ w.revision = n.revision /\ w.pr = p /\ w.head = e.head
  BY <1>3, <1>4
<1> QED BY <1>4, <1>5 DEF Reviewed, Counted, u, v

\* A verdict about another commit is recorded, not counted, and the review starts again.
LEMMA StaleReviewSettled ==
    ASSUME NEW s \in Snapshot, ValidSnapshot(s), s.state \in ActiveStates, HasTurn(s), NEW p \in PRs, NEW e, SettlementEvent(s, e, p),
           NEW u \in Snapshot, u.stage = s.stage /\ u.attempt = s.attempt /\ u.usage = s.usage,
           u.turn = NoTurn /\ u.waiting = s.waiting /\ u.revision = s.revision /\ u.pr = p /\ u.head = e.head, e.head \in Heads
    PROVE  LET d == Applied([u EXCEPT !.state = StageState[s.stage]], "review_head_replaced",
                     [NoEffects EXCEPT
                         !.review = "RECORDED",
                         !.intent = Successor(e.pending, EnqueueTurn(s.stage, "SYNCHRONIZATION", e.head)),
                         !.labels = StageState[s.stage]])
           IN  /\ d.disposition = "APPLIED" /\ d.snap \in Snapshot /\ d.snap.revision = s.revision + 1
               /\ Settled(s, e, p, d.snap, d.effects)
<1>0. /\ e.turn.stage = s.stage /\ s.turn.head = s.head /\ e.turn = s.turn /\ s.stage \in Stages
      /\ StageState[s.stage] = s.state /\ StageRole[s.stage] \in Roles \cup {""}
      /\ NoEffects.review = "" /\ NoEffects.intent = NoIntent
      /\ PendingOnly(e.pending).kind \in {"none", "reconcile"} /\ PendingOnly(e.pending).stage = ""
      /\ e.pending.some \in BOOLEAN /\ e.inputPending \in BOOLEAN
  BY SettlementFacts
<1> DEFINE t == [u EXCEPT !.state = StageState[s.stage]]
           i == Successor(e.pending, EnqueueTurn(s.stage, "SYNCHRONIZATION", e.head))
           f == [NoEffects EXCEPT !.review = "RECORDED", !.intent = i, !.labels = StageState[s.stage]]
<1>1. StageState[s.stage] \in States /\ StageState[s.stage] \in ActiveStates
  BY <1>0 DEF States, AttemptStates
<1>2. /\ t \in Snapshot /\ t.state = StageState[s.stage] /\ t.head = u.head /\ t.attempt = u.attempt /\ t.usage = u.usage
      /\ t.stage = u.stage /\ t.turn = u.turn /\ t.waiting = u.waiting /\ t.pr = u.pr /\ t.revision = u.revision
  BY <1>1, StateFacts
<1>3. f.intent = i /\ f.review = "RECORDED"
  BY DEF NoEffects
<1>4. i.kind \in {"turn", "reconcile"} /\ i.stage = s.stage /\ i.head = e.head
  BY <1>0 DEF Successor, EnqueueTurn
<1> HIDE DEF t, f, i
<1>5. Settled(s, e, p, t, f)
  BY <1>0, <1>1, <1>2, <1>3, <1>4, AbsentAssumption DEF Settled, Headed, HasProposal, ActiveStates
<1>6. t.revision = s.revision
  BY <1>2
<1>7. LET d == Applied(t, "review_head_replaced", f) IN /\ d.disposition = "APPLIED" /\ d.snap \in Snapshot /\ d.snap.revision = s.revision + 1
      /\ Settled(s, e, p, d.snap, d.effects)
  BY <1>2, <1>5, <1>6, SettledApplied
<1> QED BY <1>7 DEF t, f, i

\* An approval makes the commit ready that the turn was prepared for.
LEMMA ApprovalSettled ==
    ASSUME NEW s \in Snapshot, ValidSnapshot(s), s.state \in ActiveStates, HasTurn(s), NEW p \in PRs, NEW e, SettlementEvent(s, e, p),
           NEW u \in Snapshot, u.stage = s.stage /\ u.attempt = s.attempt /\ u.usage = s.usage + 1,
           u.turn = NoTurn /\ u.waiting = s.waiting /\ u.revision = s.revision /\ u.pr = p /\ u.head = e.head, e.head \in Heads,
           s.stage = "review", e.outcome = "APPROVED", e.review.head = e.turn.head, e.review.head = e.head
    PROVE  LET d == Applied([u EXCEPT !.state = "PR_READY", !.ready = e.review.head], "approved",
                       [[NoEffects EXCEPT !.review = "ACCEPTED"] EXCEPT !.labels = "PR_READY", !.intent = PendingOnly(e.pending)])
           IN  /\ d.disposition = "APPLIED" /\ d.snap \in Snapshot /\ d.snap.revision = s.revision + 1
               /\ Settled(s, e, p, d.snap, d.effects)
<1>0. /\ e.turn.stage = s.stage /\ s.turn.head = s.head /\ e.turn = s.turn /\ s.stage \in Stages
      /\ StageState[s.stage] = s.state /\ StageRole[s.stage] \in Roles \cup {""}
      /\ NoEffects.review = "" /\ NoEffects.intent = NoIntent
      /\ PendingOnly(e.pending).kind \in {"none", "reconcile"} /\ PendingOnly(e.pending).stage = ""
      /\ e.pending.some \in BOOLEAN /\ e.inputPending \in BOOLEAN
  BY SettlementFacts
<1> DEFINE t == [u EXCEPT !.state = "PR_READY", !.ready = e.review.head]
           f == [[NoEffects EXCEPT !.review = "ACCEPTED"] EXCEPT !.labels = "PR_READY", !.intent = PendingOnly(e.pending)]
<1>1. t \in Snapshot
  <2>1. "PR_READY" \in States /\ e.review.head \in Heads \cup {NoHead}
    BY DEF States, AttemptStates
  <2>2. ASSUME NEW x \in Snapshot, NEW state \in States, NEW head \in Heads \cup {NoHead}
        PROVE  [x EXCEPT !.state = state, !.ready = head] \in Snapshot
    BY ZenonT(60) DEF Snapshot
  <2> QED BY <2>1, <2>2
<1>2. /\ t.state = "PR_READY" /\ t.ready = e.review.head /\ t.head = u.head /\ t.attempt = u.attempt /\ t.usage = u.usage
      /\ t.stage = u.stage /\ t.turn = u.turn /\ t.waiting = u.waiting /\ t.pr = u.pr /\ t.revision = u.revision
  BY DEF Snapshot
<1>3. f.intent = PendingOnly(e.pending) /\ f.review = "ACCEPTED"
  BY DEF NoEffects
<1> HIDE DEF t, f
<1>4. Settled(s, e, p, t, f)
  BY <1>0, <1>2, <1>3, AbsentAssumption, ZenonT(60) DEF Settled, Headed, HasProposal, ActiveStates
<1>5. t.revision = s.revision
  BY <1>2
<1>6. LET d == Applied(t, "approved", f) IN /\ d.disposition = "APPLIED" /\ d.snap \in Snapshot /\ d.snap.revision = s.revision + 1
      /\ Settled(s, e, p, d.snap, d.effects)
  BY <1>1, <1>4, <1>5, SettledApplied
<1> QED BY <1>6 DEF t, f

\* Requested changes go to the Developer, or to a person once the budget is spent.
LEMMA ChangesSettled ==
    ASSUME NEW s \in Snapshot, ValidSnapshot(s), s.state \in ActiveStates, HasTurn(s), NEW p \in PRs, NEW e, SettlementEvent(s, e, p),
           NEW u \in Snapshot, u.attempt = s.attempt /\ u.usage = s.usage + 1,
           u.turn = NoTurn /\ u.waiting = s.waiting /\ u.revision = s.revision /\ u.pr = p /\ u.head = e.head, e.head \in Heads
    PROVE  /\ LET d == [Handoff([u EXCEPT !.stage = "implementation"], StageRole["implementation"], "review_budget_exhausted",
                                PendingOnly(e.pending)) EXCEPT !.effects.review = "ACCEPTED"]
              IN  /\ d.disposition = "APPLIED" /\ d.snap \in Snapshot /\ d.snap.revision = s.revision + 1
                  /\ Settled(s, e, p, d.snap, d.effects)
           /\ LET d == Applied([[u EXCEPT !.stage = "implementation"] EXCEPT !.state = StageState["implementation"]], "changes_requested",
                              [[NoEffects EXCEPT !.review = "ACCEPTED"] EXCEPT
                                  !.intent = Successor(e.pending, EnqueueTurn("implementation", "REQUESTED_CHANGES", e.head)),
                                  !.labels = StageState["implementation"]])
              IN  /\ d.disposition = "APPLIED" /\ d.snap \in Snapshot /\ d.snap.revision = s.revision + 1
                  /\ Settled(s, e, p, d.snap, d.effects)
<1>0. /\ e.turn.stage = s.stage /\ s.turn.head = s.head /\ e.turn = s.turn /\ s.stage \in Stages
      /\ StageState[s.stage] = s.state /\ StageRole[s.stage] \in Roles \cup {""}
      /\ NoEffects.review = "" /\ NoEffects.intent = NoIntent
      /\ PendingOnly(e.pending).kind \in {"none", "reconcile"} /\ PendingOnly(e.pending).stage = ""
      /\ e.pending.some \in BOOLEAN /\ e.inputPending \in BOOLEAN
  BY SettlementFacts
<1> DEFINE m == [u EXCEPT !.stage = "implementation"]
<1>1. m \in Snapshot
  <2>1. "implementation" \in Stages \cup {""}
    BY DEF Stages
  <2> QED BY <2>1, ZenonT(60) DEF Snapshot
<1>2. /\ m.stage = "implementation" /\ m.head = u.head /\ m.attempt = u.attempt /\ m.usage = u.usage
      /\ m.turn = u.turn /\ m.waiting = u.waiting /\ m.pr = u.pr /\ m.revision = u.revision
  BY DEF Snapshot
<1>3. "implementation" \in Stages /\ StageState["implementation"] = "DEVELOPING" /\ StageRole["implementation"] = "DEVELOPER"
  BY DEF Stages, StageState, StageRole
<1> HIDE DEF m
<1>4. LET d == [Handoff(m, "DEVELOPER", "review_budget_exhausted", PendingOnly(e.pending)) EXCEPT !.effects.review = "ACCEPTED"] IN
      /\ d.disposition = "APPLIED" /\ d.snap \in Snapshot /\ d.snap.revision = s.revision + 1
      /\ Settled(s, e, p, d.snap, d.effects)
  <2> DEFINE t == NeedsHuman(m, "DEVELOPER")
             g == [NoEffects EXCEPT !.handoff = "review_budget_exhausted", !.labels = "NEEDS_HUMAN", !.intent = PendingOnly(e.pending)]
             f == [g EXCEPT !.review = "ACCEPTED"]
  <2>1. "DEVELOPER" \in Roles \cup {""}
    BY DEF Roles
  <2>2. /\ t \in Snapshot /\ t.state = "NEEDS_HUMAN"
        /\ t.head = m.head /\ t.attempt = m.attempt /\ t.usage = m.usage
        /\ t.stage = m.stage /\ t.turn = m.turn /\ t.waiting = m.waiting /\ t.pr = m.pr /\ t.revision = m.revision
    BY ONLY <1>1, <2>1, NeedsHumanFacts
  <2>3. f.intent = PendingOnly(e.pending) /\ f.review = "ACCEPTED"
    BY DEF NoEffects
  <2>4. [Handoff(m, "DEVELOPER", "review_budget_exhausted", PendingOnly(e.pending)) EXCEPT !.effects.review = "ACCEPTED"]
          = Applied(t, "review_budget_exhausted", f)
    <3> HIDE DEF t
    <3>1. Handoff(m, "DEVELOPER", "review_budget_exhausted", PendingOnly(e.pending)) = Applied(t, "review_budget_exhausted", g)
      BY DEF Handoff, t
    <3> HIDE DEF g
    <3>2. [Applied(t, "review_budget_exhausted", g) EXCEPT !.effects.review = "ACCEPTED"] = Applied(t, "review_budget_exhausted", f)
      BY DEF Applied
    <3> QED BY <3>1, <3>2
  <2> HIDE DEF t, g, f
  <2>5. Settled(s, e, p, t, f)
    <3>1. /\ t.attempt = s.attempt /\ t.turn = NoTurn /\ t.stage \in Stages /\ t.pr = p /\ t.head = e.head
          /\ t.usage = s.usage + 1 /\ t.waiting = s.waiting
      BY <1>2, <1>3, <2>2
    <3>2. f.intent.kind \in {"none", "reconcile"} /\ f.intent.stage = ""
      BY <1>0, <2>3
    <3>3. Headed(t)
      BY <3>1, AbsentAssumption DEF Headed, HasProposal
    <3> QED BY <2>2, <2>3, <3>1, <3>2, <3>3 DEF Settled, ActiveStates
  <2>6. t.revision = s.revision
    BY <1>2, <2>2
  <2>7. LET d == Applied(t, "review_budget_exhausted", f) IN /\ d.disposition = "APPLIED" /\ d.snap \in Snapshot /\ d.snap.revision = s.revision + 1
        /\ Settled(s, e, p, d.snap, d.effects)
    BY <2>2, <2>5, <2>6, SettledApplied
  <2> QED BY <2>4, <2>7
<1>5. LET d == Applied([m EXCEPT !.state = "DEVELOPING"], "changes_requested",
                       [[NoEffects EXCEPT !.review = "ACCEPTED"] EXCEPT
                           !.intent = Successor(e.pending, EnqueueTurn("implementation", "REQUESTED_CHANGES", e.head)),
                           !.labels = "DEVELOPING"]) IN
      /\ d.disposition = "APPLIED" /\ d.snap \in Snapshot /\ d.snap.revision = s.revision + 1
      /\ Settled(s, e, p, d.snap, d.effects)
  <2> DEFINE t == [m EXCEPT !.state = "DEVELOPING"]
             i == Successor(e.pending, EnqueueTurn("implementation", "REQUESTED_CHANGES", e.head))
             f == [[NoEffects EXCEPT !.review = "ACCEPTED"] EXCEPT !.intent = i, !.labels = "DEVELOPING"]
  <2>1. "DEVELOPING" \in States /\ "DEVELOPING" \in ActiveStates
    BY DEF States, AttemptStates, ActiveStates
  <2>2. /\ t \in Snapshot /\ t.state = "DEVELOPING"
        /\ t.head = m.head /\ t.attempt = m.attempt /\ t.usage = m.usage
        /\ t.stage = m.stage /\ t.turn = m.turn /\ t.waiting = m.waiting /\ t.pr = m.pr /\ t.revision = m.revision
    BY ONLY <1>1, <2>1, StateFacts
  <2>3. f.intent = i /\ f.review = "ACCEPTED"
    BY DEF NoEffects
  <2>4. i.kind \in {"turn", "reconcile"} /\ i.stage = "implementation" /\ i.head = e.head
    BY <1>0 DEF Successor, EnqueueTurn
  <2> HIDE DEF t, i, f
  <2>5. Settled(s, e, p, t, f)
    <3>1. /\ t.attempt = s.attempt /\ t.turn = NoTurn /\ t.stage = "implementation" /\ t.pr = p /\ t.head = e.head
          /\ t.usage = s.usage + 1 /\ t.waiting = s.waiting
      BY <1>2, <1>3, <2>2
    <3>2. f.intent.kind \in {"turn", "reconcile"} /\ f.intent.stage = "implementation" /\ f.intent.head = e.head
      BY <2>3, <2>4
    <3>3. Headed(t)
      BY <3>1, AbsentAssumption DEF Headed, HasProposal
    <3> QED BY <1>3, <2>1, <2>2, <2>3, <3>1, <3>2, <3>3 DEF Settled
  <2>6. t.revision = s.revision
    BY <1>2, <2>2
  <2>7. LET d == Applied(t, "changes_requested", f) IN /\ d.disposition = "APPLIED" /\ d.snap \in Snapshot /\ d.snap.revision = s.revision + 1
        /\ Settled(s, e, p, d.snap, d.effects)
    BY <2>2, <2>5, <2>6, SettledApplied
  <2> QED BY <2>7 DEF t, i, f
<1> QED BY <1>3, <1>4, <1>5 DEF m

\* The verdict of a Reviewer.
LEMMA ReviewSettled ==
    ASSUME NEW s \in Snapshot, ValidSnapshot(s), s.state \in ActiveStates, HasTurn(s), NEW p \in PRs, NEW e, SettlementEvent(s, e, p),
           NEW n \in Snapshot, n.stage = s.stage /\ n.attempt = s.attempt /\ n.usage = s.usage,
           n.turn = NoTurn /\ n.waiting = s.waiting /\ n.revision = s.revision,
           s.stage = "review", e.outcome \in {"CHANGES_REQUESTED", "APPROVED"}, e.pr = p,
           ReduceReviewSettled(s, n, e) # Rejected(s)
    PROVE  LET d == ReduceReviewSettled(s, n, e)
           IN  /\ d.disposition = "APPLIED" /\ d.snap \in Snapshot /\ d.snap.revision = s.revision + 1
               /\ Settled(s, e, p, d.snap, d.effects)
<1>1. e.head \in Heads
  BY AbsentAssumption DEF SettlementEvent
<1> DEFINE u == Reviewed(n, e)
           c == Counted(n, e)
<1>2. /\ u \in Snapshot /\ u.state = n.state /\ u.stage = s.stage /\ u.attempt = s.attempt /\ u.usage = s.usage
      /\ u.turn = NoTurn /\ u.waiting = s.waiting /\ u.revision = s.revision /\ u.pr = p /\ u.head = e.head
  BY <1>1, ReviewedFacts
<1>3. /\ c \in Snapshot /\ c.state = n.state /\ c.stage = s.stage /\ c.attempt = s.attempt /\ c.usage = s.usage + 1
      /\ c.turn = NoTurn /\ c.waiting = s.waiting /\ c.revision = s.revision /\ c.pr = p /\ c.head = e.head
  BY <1>1, ReviewedFacts
<1>4. NextStage["CHANGES_REQUESTED"] = "implementation" /\ NextPurpose["CHANGES_REQUESTED"] = "REQUESTED_CHANGES"
  BY DEF NextStage, NextPurpose
<1> DEFINE stale    == Applied([u EXCEPT !.state = StageState[s.stage]], "review_head_replaced",
                               [NoEffects EXCEPT
                                   !.review = "RECORDED",
                                   !.intent = Successor(e.pending, EnqueueTurn(s.stage, "SYNCHRONIZATION", e.head)),
                                   !.labels = StageState[s.stage]])
           approved == Applied([c EXCEPT !.state = "PR_READY", !.ready = e.review.head], "approved",
                               [[NoEffects EXCEPT !.review = "ACCEPTED"] EXCEPT !.labels = "PR_READY", !.intent = PendingOnly(e.pending)])
           spent    == [Handoff([c EXCEPT !.stage = "implementation"], StageRole["implementation"], "review_budget_exhausted",
                                PendingOnly(e.pending)) EXCEPT !.effects.review = "ACCEPTED"]
           changes  == Applied([[c EXCEPT !.stage = "implementation"] EXCEPT !.state = StageState["implementation"]], "changes_requested",
                               [[NoEffects EXCEPT !.review = "ACCEPTED"] EXCEPT
                                   !.intent = Successor(e.pending, EnqueueTurn("implementation", "REQUESTED_CHANGES", e.head)),
                                   !.labels = StageState["implementation"]])
           d == ReduceReviewSettled(s, n, e)
<1>5. \/ d = stale
      \/ d = approved /\ e.outcome = "APPROVED" /\ ~ReviewIsStale(s, e)
      \/ d = spent \/ d = changes
  <2>1. CASE e.outcome = "APPROVED"
    BY <2>1, Zenon DEF ReduceReviewSettled, Reviewed, Counted
  <2>2. CASE e.outcome = "CHANGES_REQUESTED"
    BY <1>4, <2>2, Zenon DEF ReduceReviewSettled, Reviewed, Counted
  <2> QED BY <2>1, <2>2
<1> HIDE DEF u, c
<1>6. LET x == stale IN /\ x.disposition = "APPLIED" /\ x.snap \in Snapshot /\ x.snap.revision = s.revision + 1
                        /\ Settled(s, e, p, x.snap, x.effects)
  BY <1>1, <1>2, StaleReviewSettled
<1>7. ASSUME e.outcome = "APPROVED", ~ReviewIsStale(s, e)
      PROVE  LET x == approved IN /\ x.disposition = "APPLIED" /\ x.snap \in Snapshot /\ x.snap.revision = s.revision + 1
                                  /\ Settled(s, e, p, x.snap, x.effects)
  <2>1. e.review.head = e.turn.head /\ e.review.head = e.head
    BY <1>7 DEF ReviewIsStale
  <2> QED BY <1>1, <1>3, <1>7, <2>1, ApprovalSettled, ZenonT(60)
<1>8. /\ LET x == spent IN /\ x.disposition = "APPLIED" /\ x.snap \in Snapshot /\ x.snap.revision = s.revision + 1
                           /\ Settled(s, e, p, x.snap, x.effects)
      /\ LET x == changes IN /\ x.disposition = "APPLIED" /\ x.snap \in Snapshot /\ x.snap.revision = s.revision + 1
                             /\ Settled(s, e, p, x.snap, x.effects)
  <2>1. /\ c \in Snapshot /\ c.attempt = s.attempt /\ c.usage = s.usage + 1
        /\ c.turn = NoTurn /\ c.waiting = s.waiting /\ c.revision = s.revision /\ c.pr = p /\ c.head = e.head
    BY <1>3
  <2> QED BY <1>1, <2>1, ChangesSettled
<1> HIDE DEF stale, approved, spent, changes, d
<1>10. d.disposition = "APPLIED" /\ d.snap \in Snapshot /\ d.snap.revision = s.revision + 1 /\ Settled(s, e, p, d.snap, d.effects)
  BY <1>5, <1>6, <1>7, <1>8
<1> QED BY <1>10 DEF d

\* Every settlement the Workflow takes ends the turn in the way Settled states.
THEOREM SettlementReduced ==
    ASSUME NEW s \in Snapshot, ValidSnapshot(s), s.state \in ActiveStates, Headed(s), NEW p \in PRs, s.pr \in {NoPR, p},
           NEW e, SettlementEvent(s, e, p), Reduce(s, e).disposition = "APPLIED"
    PROVE  LET d == Reduce(s, e)
           IN  /\ d.snap \in Snapshot /\ ValidSnapshot(d.snap) /\ d.snap.revision = s.revision + 1
               /\ HasTurn(s) /\ Settled(s, e, p, d.snap, d.effects)
<1> DEFINE d == ReduceTurnSettled(s, e)
           n == TakenOff(s, e)
<1>1. Rejected(s).disposition # "APPLIED"
  BY DEF Rejected
<1>2. Reduce(s, e) = d /\ ValidSnapshot(d.snap) /\ d # Rejected(s)
  <2>1. e.kind = "TURN_SETTLED"
    BY DEF SettlementEvent
  <2>2. Dispatch(s, e) = d
    BY <2>1 DEF Dispatch
  <2> HIDE DEF d
  <2> QED BY <1>1, <2>2, ReduceCases
<1>3. /\ HasTurn(s)
      /\ e.publication = NoPR \/ ~HasProposal(s)
      /\ \/ e.outcome = "CLARIFICATION_WAIT" /\ e.pr = NoPR /\ d = ClarificationWait(n, e.turn.stage, e.inputPending)
         \/ /\ e.outcome = "CLARIFICATION_WAIT" /\ e.pr = p
            /\ d = ClarificationWait(SetProposal(n, e.pr, e.head), e.turn.stage, e.inputPending)
         \/ e.outcome = "PLANNING_READY" /\ d = ClarificationWait(n, e.turn.stage, TRUE)
         \/ /\ e.outcome = "PLANNING_READY"
            /\ d = Applied([n EXCEPT !.state = "PLAN_READY"], "approved", [NoEffects EXCEPT !.labels = "PLAN_READY"])
         \/ e.outcome = "CHANGE_PROPOSAL_READY" /\ e.pr = p /\ d = ReduceDeveloperSettled(s, n, e)
         \/ e.outcome \in {"CHANGES_REQUESTED", "APPROVED"} /\ s.stage = "review" /\ e.pr = p /\ d = ReduceReviewSettled(s, n, e)
         \/ d = Handoff(n, StageRole[e.turn.stage], "agent_blocked", PendingOnly(e.pending))
         \/ d = ReduceInfrastructureFailure(n, e)
  BY <1>2, SettlementCases
<1>4. /\ n \in Snapshot /\ n.state = s.state /\ n.stage = s.stage /\ n.attempt = s.attempt /\ n.usage = s.usage
      /\ n.retries = s.retries /\ n.turn = NoTurn /\ n.waiting = s.waiting /\ n.revision = s.revision
      /\ n.pr \in {NoPR, p} /\ Headed(n)
      /\ e.publication = NoPR => n.head = s.head
  BY <1>3, TakenOffFacts
<1>5. e.inputPending \in BOOLEAN
  BY DEF SettlementEvent
<1> DEFINE Good(x) == x.disposition = "APPLIED" /\ x.snap \in Snapshot /\ x.snap.revision = s.revision + 1
                      /\ Settled(s, e, p, x.snap, x.effects)
<1> HIDE DEF n, d
<1>6. Good(ClarificationWait(n, e.turn.stage, e.inputPending)) /\ Good(ClarificationWait(n, e.turn.stage, TRUE))
  <2>1. ASSUME NEW waits \in BOOLEAN, waits \/ ~e.inputPending PROVE Good(ClarificationWait(n, e.turn.stage, waits))
    BY <1>3, <1>4, <2>1, ClarificationSettled
  <2> HIDE DEF Good
  <2> QED BY <1>5, <2>1
<1>7. ASSUME e.pr = p PROVE Good(ClarificationWait(SetProposal(n, e.pr, e.head), e.turn.stage, e.inputPending))
  <2> DEFINE u == SetProposal(n, e.pr, e.head)
  <2>1. e.head \in Heads
    BY <1>7, AbsentAssumption DEF SettlementEvent
  <2>2. /\ u \in Snapshot /\ u.state = s.state /\ u.stage = s.stage /\ u.attempt = s.attempt /\ u.usage = s.usage
        /\ u.turn = NoTurn /\ u.revision = s.revision /\ u.pr \in {NoPR, p} /\ Headed(u)
    BY <1>4, <1>7, <2>1, SetProposalFacts
  <2> HIDE DEF u
  <2>3. Good(ClarificationWait(u, e.turn.stage, e.inputPending))
    BY <1>3, <1>5, <2>2, ClarificationSettled
  <2> QED BY <2>3 DEF u
<1>8. Good(Applied([n EXCEPT !.state = "PLAN_READY"], "approved", [NoEffects EXCEPT !.labels = "PLAN_READY"]))
  BY <1>3, <1>4, PlanSettled
<1>9. ASSUME e.outcome = "CHANGE_PROPOSAL_READY", e.pr = p, d = ReduceDeveloperSettled(s, n, e) PROVE Good(d)
  BY <1>2, <1>3, <1>4, <1>9, DeveloperSettled
<1>10. ASSUME e.outcome \in {"CHANGES_REQUESTED", "APPROVED"}, s.stage = "review", e.pr = p, d = ReduceReviewSettled(s, n, e) PROVE Good(d)
  BY <1>2, <1>3, <1>4, <1>10, ReviewSettled
<1>11. Good(Handoff(n, StageRole[e.turn.stage], "agent_blocked", PendingOnly(e.pending)))
  BY <1>3, <1>4, HandoffSettled
<1>12. Good(ReduceInfrastructureFailure(n, e))
  BY <1>3, <1>4, RetrySettled
<1>13. Good(d)
  <2> HIDE DEF Good
  <2> QED BY <1>3, <1>6, <1>7, <1>8, <1>9, <1>10, <1>11, <1>12
<1> QED BY <1>2, <1>3, <1>13
-----------------------------------------------------------------------------
(* The check of the result: no decision of a handler is ever rejected.     *)

\* What the store keeps true of a Workflow beside ValidSnapshot: every decision about it is valid again.
Able(s) ==
    /\ s \in Snapshot /\ ValidSnapshot(s) /\ Headed(s)
    /\ s.state = "PR_READY" => s.stage = "review" /\ ~s.waiting
    /\ s.state \in ActiveStates => s.usage < ReviewLimit
    /\ ~s.planningOnly => s.continuation # "planning"
    /\ ~HasProposal(s) => s.ready = NoHead

\* What every state with an Attempt asks of the Snapshot.
Founded(t) ==
    /\ t \in Snapshot /\ Headed(t) /\ t.attempt > 0 /\ t.stage \in Stages
    /\ t.retries <= RetryLimit /\ t.usage <= ReviewLimit /\ t.token = 0
    /\ t.stage = "planning" <=> t.planningOnly
    /\ t.planningOnly => ~HasProposal(t)
    /\ ~t.planningOnly => t.continuation # "planning"

\* A Workflow between two turns.
Free(t) ==
    /\ Founded(t) /\ t.state = StageState[t.stage] /\ t.usage < ReviewLimit /\ t.closure = 0
    /\ t.status = "ACTIVE" /\ t.runtime = "ACTIVE" /\ t.turn = NoTurn /\ t.ready = NoHead
    /\ t.stage = "review" => HasProposal(t)

\* A Workflow with an Attempt has what Founded states, and nothing ready unless it is ready.
LEMMA AbleFounded ==
    ASSUME NEW s, Able(s), s.state \in AttemptStates
    PROVE  Founded(s) /\ (s.state # "PR_READY" => s.ready = NoHead) /\ s.closure = 0
<1>1. s \in Snapshot /\ ValidSnapshot(s) /\ Headed(s)
  BY DEF Able
<1>2. /\ HasAttempt(s) /\ s.stage \in Stages /\ s.closure = 0 /\ s.token = 0 /\ s.attempt > 0
      /\ s.retries <= RetryLimit /\ s.usage <= ReviewLimit
      /\ s.planningOnly => ~HasProposal(s) /\ s.stage = "planning"
      /\ ~s.planningOnly => s.stage # "planning"
      /\ HasProposal(s) /\ s.state # "PR_READY" => s.ready = NoHead
  BY <1>1, AttemptFacts
<1> QED BY <1>1, <1>2 DEF Able, Founded

\* A Workflow that works without a turn is free, and the other way around.
LEMMA AbleFree ==
    ASSUME NEW s, Able(s), s.state \in ActiveStates, s.turn = NoTurn PROVE Free(s)
<1>1. s \in Snapshot /\ ValidSnapshot(s) /\ s.usage < ReviewLimit /\ s.state # "PR_READY" /\ s.state \in AttemptStates
  BY DEF Able, ActiveStates, AttemptStates
<1>2. Founded(s) /\ s.ready = NoHead
  BY <1>1, AbleFounded
<1> QED BY <1>1, <1>2, ActiveFacts DEF Free, ValidChangeProposal

\* A free Workflow is one the store may keep.
LEMMA FreeAble ==
    ASSUME NEW t, Free(t) PROVE Able(t) /\ t.state \in ActiveStates
<1>1. t \in Snapshot /\ t.stage \in Stages /\ t.stage # ""
  BY DEF Free, Founded, Stages
<1>2. t.state \in ActiveStates /\ t.state # "PR_READY" /\ t.state # "ABSENT" /\ t.state # "PLAN_READY"
  BY <1>1, StageFacts DEF Free, ActiveStates
<1>3. ValidAssignments(t)
  BY <1>2 DEF ValidAssignments, Free, Founded, ActiveStates
<1>4. t.state = "REVIEWING" => t.stage = "review"
  <2>1. StageState["planning"] = "PLANNING" /\ StageState["implementation"] = "DEVELOPING"
    BY DEF StageState
  <2>2. t.state = StageState[t.stage]
    BY DEF Free
  <2> QED BY <1>1, <2>1, <2>2 DEF Stages
<1>5. ValidAttempt(t)
  BY <1>1, <1>2 DEF ValidAttempt, HasAttempt, Free, Founded, AttemptStates
<1>6. ValidStateShape(t)
  <2>1. t.state = "REVIEWING" => ValidChangeProposal(t)
    BY <1>4 DEF Free, Founded, ValidChangeProposal, Headed
  <2>2. ValidActiveTurn(t)
    BY DEF ValidActiveTurn, HasTurn, Free
  <2> QED BY <1>2, <2>1, <2>2 DEF ValidStateShape, Free, ActiveStates
<1>7. ValidSnapshot(t)
  BY <1>2, <1>3, <1>5, <1>6 DEF ValidSnapshot, Free, Founded
<1> QED BY <1>1, <1>2, <1>7 DEF Able, Free, Founded

\* The other states with an Attempt.
LEMMA HandedAble ==
    ASSUME NEW t, Founded(t), t.state = "NEEDS_HUMAN", t.status = "WAITING_FOR_HUMAN", t.runtime \in {"ACTIVE", "COLLECTED"},
           t.closure = 0, t.turn = NoTurn, t.ready = NoHead
    PROVE  Able(t)
<1>1. HasAttempt(t) /\ ~HasTurn(t) /\ t \in Snapshot
  BY DEF Founded, Stages, HasAttempt, HasTurn
<1>2. ValidSnapshot(t)
  BY <1>1, NeedsHumanValid DEF Founded
<1> QED BY <1>1, <1>2 DEF Able, Founded, ActiveStates

\* A plan that waits for the issue to be labelled or closed.
LEMMA PlanAble ==
    ASSUME NEW t, Founded(t), t.state = "PLAN_READY", t.status = "ACTIVE", t.runtime = "ACTIVE", t.planningOnly,
           t.closure = 0, t.turn = NoTurn, t.ready = NoHead
    PROVE  Able(t)
<1>1. HasAttempt(t) /\ ~HasTurn(t) /\ t \in Snapshot
  BY DEF Founded, Stages, HasAttempt, HasTurn
<1>2. ValidAssignments(t) /\ ValidAttempt(t)
  BY <1>1 DEF ValidAssignments, ValidAttempt, Founded, ActiveStates, AttemptStates
<1>3. ValidStateShape(t)
  BY <1>1 DEF ValidStateShape, Founded, ActiveStates
<1>4. ValidSnapshot(t)
  BY <1>1, <1>2, <1>3 DEF ValidSnapshot, Founded
<1> QED BY <1>1, <1>4 DEF Able, Founded, ActiveStates

\* A Change Proposal that is ready.
LEMMA ReadyAble ==
    ASSUME NEW t, Founded(t), t.state = "PR_READY", t.status = "ACTIVE", t.runtime = "ACTIVE", t.stage = "review", ~t.waiting,
           t.closure = 0, t.turn = NoTurn, HasProposal(t), t.ready = t.head
    PROVE  Able(t)
<1>1. HasAttempt(t) /\ ~HasTurn(t) /\ t \in Snapshot
  BY DEF Founded, Stages, HasAttempt, HasTurn
<1>2. ValidAssignments(t) /\ ValidAttempt(t)
  BY <1>1 DEF ValidAssignments, ValidAttempt, Founded, ActiveStates, AttemptStates
<1>3. ValidStateShape(t)
  BY <1>1 DEF ValidStateShape, Founded, ActiveStates, ValidChangeProposal, Headed
<1>4. ValidSnapshot(t)
  BY <1>1, <1>2, <1>3 DEF ValidSnapshot, Founded
<1> QED BY <1>1, <1>4 DEF Able, Founded, ActiveStates

\* A revision more changes nothing of it.
LEMMA AppliedAble ==
    ASSUME NEW t, Able(t), t.state # "ABSENT", NEW reason, NEW f
    PROVE  Able(Applied(t, reason, f).snap)
<1> DEFINE u == Applied(t, reason, f).snap
<1>0. t \in Snapshot /\ t # Absent
  BY AbsentFacts DEF Able
<1>1. /\ u \in Snapshot
      /\ u.planningOnly = t.planningOnly /\ u.waiting = t.waiting /\ u.state = t.state
      /\ u.attempt = t.attempt /\ u.stage = t.stage /\ u.usage = t.usage /\ u.retries = t.retries
      /\ u.pr = t.pr /\ u.head = t.head /\ u.ready = t.ready /\ u.turn = t.turn
      /\ u.continuation = t.continuation /\ u.resume = t.resume /\ u.status = t.status
      /\ u.runtime = t.runtime /\ u.token = t.token /\ u.closure = t.closure /\ u.reopen = t.reopen
  BY <1>0, AppliedFields
<1> HIDE DEF u
<1>2. /\ ValidAssignments(t) /\ ValidAttempt(t) /\ ValidStateShape(t)
      /\ t.planningOnly => ~HasProposal(t) /\ t.stage \in {"", "planning"}
      /\ ~t.planningOnly => t.stage # "planning"
      /\ HasProposal(t) /\ t.state # "PR_READY" => t.ready = NoHead
  BY <1>0 DEF Able, ValidSnapshot
<1>3. ValidAssignments(u)
  BY <1>1, <1>2 DEF ValidAssignments, HasAttempt
<1>4. ValidAttempt(u)
  BY <1>1, <1>2 DEF ValidAttempt, HasAttempt
<1>5. ValidStateShape(u)
  BY <1>1, <1>2 DEF ValidStateShape, HasAttempt, HasTurn, ValidActiveTurn, ValidClosingTurn, ValidChangeProposal, HasProposal
<1>6. ValidSnapshot(u)
  BY <1>1, <1>2, <1>3, <1>4, <1>5 DEF ValidSnapshot, HasProposal
<1>7. Able(u)
  BY <1>1, <1>6 DEF Able, Headed, HasProposal
<1> QED BY <1>7 DEF u

\* A Workflow that waits for a person.
LEMMA HandedFacts ==
    ASSUME NEW s, Able(s), s.state = "NEEDS_HUMAN"
    PROVE  /\ Founded(s) /\ s.ready = NoHead /\ s.closure = 0 /\ s.turn = NoTurn
           /\ s.status = "WAITING_FOR_HUMAN" /\ s.runtime \in {"ACTIVE", "COLLECTED"}
<1>1. Founded(s) /\ s.ready = NoHead /\ s.closure = 0
  BY AbleFounded DEF AttemptStates
<1>2. ValidAssignments(s) /\ ValidStateShape(s)
  BY AbsentFacts DEF Able, ValidSnapshot
<1>3. s.turn = NoTurn
  BY <1>2 DEF ValidStateShape, ActiveStates, HasTurn
<1>4. s.status = "WAITING_FOR_HUMAN" /\ s.runtime \in {"ACTIVE", "COLLECTED"}
  BY <1>2 DEF ValidAssignments, ActiveStates
<1> QED BY <1>1, <1>3, <1>4

\* The effects of an applied decision aside, its Snapshot is the one it was applied to.
LEMMA AppliedTotal ==
    ASSUME NEW s, NEW t, Able(t), t.state # "ABSENT", t.runtime = "COLLECTED" => s.runtime = "COLLECTED", NEW reason, NEW f
    PROVE  LET d == Applied(t, reason, f) IN Able(d.snap) /\ (d.snap.runtime = "COLLECTED" => s.runtime = "COLLECTED")
<1>1. Applied(t, reason, f).snap.runtime = t.runtime
  BY AppliedFields DEF Able
<1> QED BY <1>1, AppliedAble

\* A push leaves a valid Snapshot behind in each of its branches.
LEMMA SyncTotal ==
    ASSUME NEW s, Able(s), NEW e \in WebhookEvent, e.kind = "SYNCHRONIZATION"
    PROVE  LET d == ReduceSynchronization(s, e) IN Able(d.snap) /\ (d.snap.runtime = "COLLECTED" => s.runtime = "COLLECTED")
<1> DEFINE d == ReduceSynchronization(s, e)
           m == MovedTo(s, e)
           Good(x) == Able(x) /\ (x.runtime = "COLLECTED" => s.runtime = "COLLECTED")
<1>1. s \in Snapshot /\ ValidSnapshot(s) /\ Headed(s)
  BY DEF Able
<1>2. e.head \in Heads /\ e.head # NoHead
  <2>1. e \in [kind : {"SYNCHRONIZATION"}, revision : Nat, pr : PRs, previous : Heads \cup {NoHead}, head : Heads]
    BY DEF WebhookEvent
  <2> QED BY <2>1, AbsentAssumption
<1>3. /\ m \in Snapshot /\ m.head = e.head /\ m.ready = NoHead
      /\ m.state = s.state /\ m.attempt = s.attempt /\ m.usage = s.usage /\ m.retries = s.retries /\ m.stage = s.stage
      /\ m.turn = s.turn /\ m.waiting = s.waiting /\ m.pr = s.pr
      /\ m.status = s.status /\ m.runtime = s.runtime /\ m.token = s.token /\ m.closure = s.closure
      /\ m.planningOnly = s.planningOnly /\ m.continuation = s.continuation
  BY <1>1, <1>2, MovedFacts
<1> HIDE DEF m, d
<1>4. d.snap = s => Good(d.snap)
  OBVIOUS
<1>5. Rejected(s).snap = s /\ Deferred(s).snap = s
  BY DEF Rejected, Deferred
<1>6. ASSUME HasProposal(s), s.state \in AttemptStates PROVE Founded(m) /\ Founded(s) /\ HasProposal(m)
  <2>1. Founded(s)
    BY <1>6, AbleFounded
  <2> QED BY <1>2, <1>3, <1>6, <2>1 DEF Founded, Headed, HasProposal
<1>7. FollowsHead(s) => s.state \in AttemptStates /\ s.state # "ABSENT"
  BY DEF FollowsHead, AttemptStates, ActiveStates
<1>8. ASSUME s.state = "NEEDS_HUMAN", HasProposal(s), NEW f, d = Applied(m, "review_head_replaced", f) PROVE Good(d.snap)
  <2>1. /\ Founded(m) /\ m.ready = NoHead /\ m.closure = 0 /\ m.turn = NoTurn
        /\ m.status = "WAITING_FOR_HUMAN" /\ m.runtime \in {"ACTIVE", "COLLECTED"} /\ m.state = "NEEDS_HUMAN"
    BY <1>3, <1>6, <1>8, HandedFacts DEF AttemptStates
  <2>2. Able(m)
    BY <2>1, HandedAble
  <2> QED BY <1>3, <1>8, <2>2, AppliedTotal
<1>9. ASSUME FollowsHead(s), s.state # "NEEDS_HUMAN", ~(HasTurn(s) /\ s.state \in ActiveStates)
      PROVE  /\ s.status = "ACTIVE" /\ s.runtime = "ACTIVE" /\ s.closure = 0 /\ s.turn = NoTurn /\ s.stage \in Stages
             /\ \/ s.state \in ActiveStates /\ Free(s)
                \/ s.state = "PR_READY" /\ s.stage = "review" /\ ~s.waiting
  <2>1. CASE s.state \in ActiveStates
    BY <1>1, <1>9, <2>1, ActiveFacts, AbleFree DEF HasTurn
  <2>2. CASE s.state = "PR_READY"
    BY <1>1, <1>9, <2>2, ReadyFacts DEF HasTurn, Able
  <2> QED BY <1>9, <2>1, <2>2 DEF FollowsHead
<1>10. ASSUME FollowsHead(s), s.state # "NEEDS_HUMAN", ~(HasTurn(s) /\ s.state \in ActiveStates), HasProposal(s),
              StageState[s.stage] = "DEVELOPING" \/ s.waiting,
              NEW f, d = Applied(m, "review_head_replaced", f)
       PROVE  Good(d.snap)
  <2>1. Free(s)
    <3>1. StageState["review"] # "DEVELOPING"
      BY DEF StageState
    <3> QED BY <1>9, <1>10, <3>1
  <2>2. Free(m)
    BY <1>3, <1>6, <1>7, <1>10, <2>1 DEF Free, HasProposal
  <2>3. Able(m) /\ m.state # "ABSENT"
    BY <1>7, <1>10, <1>3, <2>2, FreeAble
  <2> QED BY <1>3, <1>10, <2>3, AppliedTotal
<1>11. ASSUME FollowsHead(s), s.state # "NEEDS_HUMAN", ~(HasTurn(s) /\ s.state \in ActiveStates), HasProposal(s),
              NEW f, d = Applied(NeedsHuman(m, StageRole[s.stage]), "review_budget_exhausted", f)
       PROVE  Good(d.snap)
  <2> DEFINE t == NeedsHuman(m, StageRole[s.stage])
  <2>1. StageRole[s.stage] \in Roles \cup {""}
    BY <1>9, <1>11, StageFacts
  <2>2. /\ t \in Snapshot /\ t.state = "NEEDS_HUMAN" /\ t.status = "WAITING_FOR_HUMAN"
        /\ t.head = m.head /\ t.ready = m.ready /\ t.attempt = m.attempt /\ t.usage = m.usage /\ t.retries = m.retries
        /\ t.stage = m.stage /\ t.turn = m.turn /\ t.pr = m.pr
        /\ t.runtime = m.runtime /\ t.token = m.token /\ t.closure = m.closure
        /\ t.planningOnly = m.planningOnly /\ t.continuation = m.continuation
    BY ONLY <1>3, <2>1, NeedsHumanFacts
  <2> HIDE DEF t
  <2>3. Founded(t) /\ t.runtime = "ACTIVE" /\ t.closure = 0 /\ t.turn = NoTurn /\ t.ready = NoHead
    BY <1>3, <1>6, <1>7, <1>9, <1>11, <2>2 DEF Founded, Headed, HasProposal
  <2>4. Able(t) /\ t.state # "ABSENT"
    BY <2>2, <2>3, HandedAble
  <2> QED BY <1>11, <2>3, <2>4, AppliedTotal DEF t
<1>12. ASSUME FollowsHead(s), s.state # "NEEDS_HUMAN", ~(HasTurn(s) /\ s.state \in ActiveStates), HasProposal(s),
              ~(s.stage = "review" /\ s.usage >= ReviewLimit),
              NEW f, d = Applied([m EXCEPT !.state = StageState[s.stage]], "review_head_replaced", f)
       PROVE  Good(d.snap)
  <2> DEFINE t == [m EXCEPT !.state = StageState[s.stage]]
  <2>1. StageState[s.stage] \in States /\ StageState[s.stage] \in ActiveStates
    BY <1>9, <1>12, StageFacts DEF States, AttemptStates
  <2>2. /\ t \in Snapshot /\ t.state = StageState[s.stage]
        /\ t.head = m.head /\ t.ready = m.ready /\ t.attempt = m.attempt /\ t.usage = m.usage /\ t.retries = m.retries
        /\ t.stage = m.stage /\ t.turn = m.turn /\ t.pr = m.pr /\ t.status = m.status
        /\ t.runtime = m.runtime /\ t.token = m.token /\ t.closure = m.closure
        /\ t.planningOnly = m.planningOnly /\ t.continuation = m.continuation
    BY ONLY <1>3, <2>1, StateFacts
  <2> HIDE DEF t
  <2>3. s.usage < ReviewLimit
    <3>1. s.usage \in Nat
      BY <1>1, Zenon DEF Snapshot
    <3> QED BY <1>9, <1>12, <3>1, LimitsAssumption DEF Free
  <2>4. Founded(t) /\ HasProposal(t)
    BY <1>3, <1>6, <1>7, <1>12, <2>2 DEF Founded, Headed, HasProposal
  <2>5. Free(t) /\ t.runtime = "ACTIVE"
    BY <1>3, <1>9, <1>12, <2>2, <2>3, <2>4 DEF Free
  <2>6. Able(t) /\ t.state # "ABSENT"
    BY <2>1, <2>2, <2>5, FreeAble DEF ActiveStates
  <2>7. PICK g : d = Applied(t, "review_head_replaced", g)
    BY <1>12 DEF t
  <2>8. t.runtime = "COLLECTED" => s.runtime = "COLLECTED"
    BY <2>5
  <2> QED BY <2>6, <2>7, <2>8, AppliedTotal
<1> HIDE DEF Good
<1>13. Good(d.snap)
  BY <1>1, <1>4, <1>5, <1>8, <1>10, <1>11, <1>12, SyncCases DEF d, m
<1> QED BY <1>13 DEF Good, d

\* What every handler promises of a decision: a Snapshot to keep, and a runtime that is not given up.
Kept(s, d) == Able(d.snap) /\ (d.snap.runtime = "COLLECTED" => s.runtime = "COLLECTED")

\* A decision that leaves the Snapshot alone.
LEMMA LeftKept ==
    ASSUME NEW s, Able(s) PROVE Kept(s, Rejected(s)) /\ Kept(s, Deferred(s))
  BY DEF Kept, Rejected, Deferred

\* The Stage of a new Attempt, and the kind of Workflow it belongs to.
LEMMA EntryFacts ==
    ASSUME NEW s, Able(s), s.state \in {"ABSENT", "DORMANT", "PR_READY", "NEEDS_HUMAN"}, NEW e, e.planningOnly \in BOOLEAN,
           ~(e.planningOnly /\ s.state # "ABSENT"), ~(s.planningOnly /\ s.state # "NEEDS_HUMAN")
    PROVE  /\ EntryStage(s, e) \in Stages
           /\ EntryStage(s, e) = "planning" <=> (s.planningOnly \/ e.planningOnly)
           /\ s.planningOnly \/ e.planningOnly => ~HasProposal(s)
           /\ EntryStage(s, e) = "review" => HasProposal(s)
<1>1. s \in Snapshot /\ ValidSnapshot(s) /\ (~s.planningOnly => s.continuation # "planning")
  BY DEF Able
<1>2. s.stage \in Stages \cup {""} /\ s.continuation \in Stages \cup {""}
  BY <1>1, Zenon DEF Snapshot
<1>3. CASE s.state = "ABSENT"
  <2>1. s = Absent
    BY <1>1, <1>3 DEF ValidSnapshot
  <2>2. ~s.planningOnly /\ s.stage = "" /\ s.continuation = "" /\ s.pr = NoPR
    BY <2>1 DEF Absent
  <2> QED BY <2>2 DEF EntryStage, WantedStage, NothingToReview, HasAttempt, HasProposal, Stages
<1>4. CASE s.state # "ABSENT"
  <2>1. /\ s.planningOnly => ~HasProposal(s) /\ s.stage \in {"", "planning"}
        /\ ~s.planningOnly => s.stage # "planning"
        /\ s.state \in AttemptStates => HasAttempt(s)
    BY <1>1, <1>4, AbsentFacts DEF ValidSnapshot, ValidAttempt
  <2>2. s.planningOnly => HasAttempt(s)
    BY <2>1 DEF AttemptStates
  <2> QED BY <1>1, <1>2, <1>4, <2>1, <2>2 DEF EntryStage, WantedStage, NothingToReview, HasAttempt, Stages
<1> QED BY <1>3, <1>4

\* An activation leaves a Workflow behind that may be kept.
LEMMA TriggerTotal ==
    ASSUME NEW s, Able(s), NEW e \in WebhookEvent, e.kind = "TRIGGER", e.planningCompleted => s.runtime # "COLLECTED"
    PROVE  Kept(s, ReduceTrigger(s, e))
<1> DEFINE stage     == EntryStage(s, e)
           completed == [s EXCEPT !.state = "PLAN_READY", !.resume = "", !.status = "ACTIVE"]
           d         == ReduceTrigger(s, e)
<1>0. s \in Snapshot /\ ValidSnapshot(s) /\ Headed(s)
  BY DEF Able
<1>1. e.prior = NoPrior /\ e.prior.blocked = FALSE /\ e.attempt \in Nat /\ e.planningOnly \in BOOLEAN
  <2>1. e \in [kind : {"TRIGGER"}, revision : Nat, attempt : Nat, planningOnly : BOOLEAN,
                planningCompleted : BOOLEAN, prior : {NoPrior}]
    BY DEF WebhookEvent
  <2>2. e.prior = NoPrior /\ e.attempt \in Nat /\ e.planningOnly \in BOOLEAN
    BY <2>1, Zenon
  <2>3. NoPrior.blocked = FALSE
    BY DEF NoPrior
  <2> QED BY <2>2, <2>3
<1>2. \/ d = Rejected(s)
      \/ d = Deferred(s)
      \/ /\ s.planningOnly /\ s.state = "NEEDS_HUMAN" /\ e.planningCompleted
         /\ \E f : d = Applied(completed, "triggered", f)
      \/ /\ s.state \in {"ABSENT", "DORMANT", "PR_READY", "NEEDS_HUMAN"} /\ e.attempt = s.attempt + 1
         /\ ~(e.planningOnly /\ s.state # "ABSENT") /\ ~(s.planningOnly /\ s.state # "NEEDS_HUMAN")
         /\ \E f : d = Applied(NewAttempt(s, e), "triggered", f)
  BY <1>1 DEF ReduceTrigger
<1>3. ASSUME s.planningOnly, s.state = "NEEDS_HUMAN", e.planningCompleted, NEW f, d = Applied(completed, "triggered", f)
      PROVE  Kept(s, d)
  <2>1. "PLAN_READY" \in States
    BY DEF States, AttemptStates
  <2>2. completed \in Snapshot
    BY <1>0, <2>1, Zenon DEF Snapshot
  <2>3. /\ completed.planningOnly = s.planningOnly /\ completed.continuation = s.continuation /\ completed.runtime = s.runtime
        /\ completed.attempt = s.attempt /\ completed.stage = s.stage /\ completed.usage = s.usage /\ completed.retries = s.retries
    BY <1>0 DEF Snapshot
  <2>4. /\ completed.pr = s.pr /\ completed.head = s.head /\ completed.ready = s.ready /\ completed.turn = s.turn
        /\ completed.token = s.token /\ completed.closure = s.closure
        /\ completed.state = "PLAN_READY" /\ completed.status = "ACTIVE"
    BY <1>0 DEF Snapshot
  <2> HIDE DEF completed
  <2>5. Founded(completed)
    BY <1>3, <2>2, <2>3, <2>4, HandedFacts DEF Founded, Headed, HasProposal
  <2>6. Able(completed) /\ completed.runtime = "ACTIVE"
    BY <1>3, <2>2, <2>3, <2>4, <2>5, HandedFacts, PlanAble
  <2>7. completed.runtime = "COLLECTED" => s.runtime = "COLLECTED"
    BY <2>6
  <2> QED BY <1>3, <2>4, <2>6, <2>7, AppliedTotal DEF Kept
<1>4. ASSUME s.state \in {"ABSENT", "DORMANT", "PR_READY", "NEEDS_HUMAN"}, e.attempt = s.attempt + 1,
             ~(e.planningOnly /\ s.state # "ABSENT"), ~(s.planningOnly /\ s.state # "NEEDS_HUMAN"),
             NEW f, d = Applied(NewAttempt(s, e), "triggered", f)
      PROVE  Kept(s, d)
  <2> DEFINE only    == s.planningOnly \/ e.planningOnly
             state   == StageState[stage]
             attempt == e.attempt
             t       == Renewed(s, only, state, attempt, stage)
  <2>1. /\ stage \in Stages /\ (stage = "planning" <=> only)
        /\ only => ~HasProposal(s)
        /\ stage = "review" => HasProposal(s)
    BY <1>1, <1>4, EntryFacts
  <2>2. state \in ActiveStates
    BY <2>1, StageFacts
  <2>3. NewAttempt(s, e) = t
    BY DEF NewAttempt, Renewed
  <2>4. only \in BOOLEAN /\ state \in States /\ attempt \in Nat /\ stage \in Stages \cup {""} /\ attempt > 0 /\ state # "ABSENT"
    <3>1. s.planningOnly \in BOOLEAN /\ s.attempt \in Nat
      BY <1>0, Zenon DEF Snapshot
    <3>2. only \in BOOLEAN
      BY <1>1, <3>1, Zenon
    <3>3. state \in States /\ state # "ABSENT"
      BY <2>2 DEF States, AttemptStates, ActiveStates
    <3>4. attempt \in Nat /\ attempt > 0
      BY <1>1, <1>4, <3>1
    <3> HIDE DEF only, state, attempt, stage
    <3> QED BY <2>1, <3>2, <3>3, <3>4
  <2> HIDE DEF only, state, attempt, stage
  <2>5. t \in Snapshot
    BY <1>0, <2>4, NewAttemptType
  <2>6. /\ t.planningOnly = only /\ t.state = state /\ t.attempt = attempt /\ t.stage = stage
        /\ t.usage = 0 /\ t.retries = 0 /\ t.turn = NoTurn /\ t.continuation = ""
    BY <1>0 DEF Snapshot, Renewed
  <2>7. /\ t.pr = s.pr /\ t.head = s.head /\ t.ready = NoHead /\ t.token = 0 /\ t.closure = 0
        /\ t.status = "ACTIVE" /\ t.runtime = "ACTIVE"
    BY <1>0 DEF Snapshot, Renewed
  <2> HIDE DEF t
  <2>8. Founded(t)
    <3>1. Headed(t) /\ (t.planningOnly => ~HasProposal(t))
      BY <1>0, <2>1, <2>6, <2>7, Zenon DEF Headed, HasProposal
    <3>2. (t.stage = "planning" <=> t.planningOnly) /\ (~t.planningOnly => t.continuation # "planning")
      <4>1. "" # "planning"
        OBVIOUS
      <4> QED BY <2>1, <2>6, <4>1, Zenon
    <3>3. t.retries = 0 /\ t.usage = 0 /\ t.attempt > 0 /\ t.token = 0 /\ t.stage \in Stages
      BY <2>1, <2>4, <2>6, <2>7, Zenon
    <3>4. t.retries <= RetryLimit /\ t.usage <= ReviewLimit
      BY ONLY <3>3, LimitsAssumption
    <3> QED BY <2>5, <3>1, <3>2, <3>3, <3>4, Zenon DEF Founded
  <2>9. Free(t)
    <3>1. t.usage < ReviewLimit
      <4>1. t.usage = 0
        BY <2>6, Zenon
      <4> QED BY ONLY <4>1, LimitsAssumption
    <3>2. t.state = StageState[t.stage]
      BY <2>6, Zenon DEF state
    <3>3. t.stage = "review" => HasProposal(t)
      BY <2>1, <2>6, <2>7, Zenon DEF HasProposal
    <3> QED BY <2>6, <2>7, <2>8, <3>1, <3>2, <3>3, Zenon DEF Free
  <2>10. Able(t) /\ t.state # "ABSENT" /\ (t.runtime = "COLLECTED" => s.runtime = "COLLECTED")
    BY <2>4, <2>6, <2>7, <2>9, FreeAble
  <2> QED BY <1>4, <2>3, <2>10, AppliedTotal DEF Kept
<1> HIDE DEF d
<1>5. Kept(s, d)
  BY <1>2, <1>3, <1>4, LeftKept
<1> QED BY <1>5 DEF d

\* A Workflow whose issue is closed.
LEMMA ClosingAble ==
    ASSUME NEW s, Able(s), s.state \in AttemptStates \cup {"DORMANT"}, NEW t \in Snapshot, t.state = "CLOSING", t.closure # 0,
           t.ready = NoHead, t.continuation = (IF HasAttempt(s) THEN s.stage ELSE s.continuation),
           t.planningOnly = s.planningOnly /\ t.attempt = s.attempt /\ t.stage = s.stage /\ t.usage = s.usage /\ t.retries = s.retries,
           t.pr = s.pr /\ t.head = s.head /\ t.turn = s.turn /\ t.status = s.status /\ t.runtime = s.runtime /\ t.token = s.token
    PROVE  Able(t)
<1>1. s \in Snapshot /\ ValidSnapshot(s) /\ Headed(s) /\ s.state # "ABSENT" /\ s # Absent
  BY AbsentFacts DEF Able, AttemptStates, ActiveStates
<1>2. ValidAssignments(s) /\ ValidAttempt(s)
  BY <1>1 DEF ValidSnapshot
<1>3. ValidAssignments(t)
  <2>1. CASE s.state = "DORMANT"
    <3>1. s.status = "COMPLETED" /\ s.runtime \in {"RETAINED", "COLLECTED"} /\ s.token = 0
      BY <1>2, <2>1 DEF ValidAssignments, ActiveStates
    <3>2. ~HasAttempt(s)
      BY <1>2, <2>1 DEF ValidAttempt, AttemptStates, ActiveStates
    <3> QED BY <3>1, <3>2 DEF ValidAssignments, ActiveStates, HasAttempt
  <2>2. CASE s.state = "NEEDS_HUMAN"
    <3>1. s.status = "WAITING_FOR_HUMAN" /\ s.runtime \in {"ACTIVE", "COLLECTED"} /\ s.token = 0
      BY <1>2, <2>2 DEF ValidAssignments, ActiveStates
    <3>2. HasAttempt(s)
      BY <1>2, <2>2 DEF ValidAttempt, AttemptStates
    <3> QED BY <3>1, <3>2 DEF ValidAssignments, ActiveStates, HasAttempt
  <2>3. CASE s.state \in ActiveStates \cup {"PLAN_READY", "PR_READY"}
    <3>1. s.status = "ACTIVE" /\ s.runtime = "ACTIVE" /\ s.token = 0
      BY <1>2, <2>3 DEF ValidAssignments, ActiveStates
    <3>2. HasAttempt(s)
      BY <1>2, <2>3 DEF ValidAttempt, AttemptStates
    <3> QED BY <3>1, <3>2 DEF ValidAssignments, ActiveStates, HasAttempt
  <2> QED BY <2>1, <2>2, <2>3 DEF AttemptStates
<1>4. ValidAttempt(t)
  BY <1>2 DEF ValidAttempt, AttemptStates, ActiveStates, HasAttempt
<1>5. ValidStateShape(t)
  <2>1. ValidClosingTurn(t)
    BY <1>1, TurnFacts DEF ValidClosingTurn, HasTurn, HasAttempt
  <2> QED BY <2>1 DEF ValidStateShape, ActiveStates
<1>6. /\ s.planningOnly => ~HasProposal(s) /\ s.stage \in {"", "planning"}
      /\ ~s.planningOnly => s.stage # "planning" /\ s.continuation # "planning"
  BY <1>1 DEF ValidSnapshot, Able
<1>7. ValidSnapshot(t)
  BY <1>3, <1>4, <1>5, <1>6 DEF ValidSnapshot, HasProposal
<1>8. ~t.planningOnly => t.continuation # "planning"
  BY <1>6, Zenon
<1> QED BY <1>1, <1>7, <1>8 DEF Able, Headed, HasProposal, ActiveStates

\* An issue that is closed leaves a closure behind that may be kept.
LEMMA ClosedTotal ==
    ASSUME NEW s, Able(s), NEW e \in WebhookEvent, e.kind = "ISSUE_CLOSED", e.closure # 0
    PROVE  Kept(s, ReduceIssueClosed(s, e))
<1> DEFINE left == IF HasAttempt(s) THEN s.stage ELSE s.continuation
           role == IF HasTurn(s) THEN StageRole[s.turn.stage]
                   ELSE IF left # "" THEN StageRole[left] ELSE s.resume
           t    == [s EXCEPT !.state = "CLOSING", !.continuation = left, !.resume = role,
                             !.closure = e.closure, !.reopen = FALSE, !.ready = NoHead]
           d    == ReduceIssueClosed(s, e)
<1>1. s \in Snapshot /\ ValidSnapshot(s)
  BY DEF Able
<1>2. \/ d = Rejected(s)
      \/ s.state \in AttemptStates \cup {"DORMANT"} /\ \E f : d = Applied(t, "closure_started", f)
  BY DEF ReduceIssueClosed
<1>3. ASSUME s.state \in AttemptStates \cup {"DORMANT"}, NEW f, d = Applied(t, "closure_started", f)
      PROVE  Kept(s, d)
  <2>1. left \in Stages \cup {""}
    BY <1>1 DEF Snapshot, HasAttempt
  <2>2. role \in Roles \cup {""}
    <3> HIDE DEF left
    <3>1. s.resume \in Roles \cup {""}
      BY <1>1 DEF Snapshot
    <3>2. HasTurn(s) => s.turn.stage \in Stages
      BY <1>1, TurnFacts
    <3> QED BY <2>1, <3>1, <3>2, StageFacts
  <2>3. e.closure \in Nat
    BY DEF WebhookEvent
  <2> HIDE DEF role
  <2>4. t \in Snapshot
    <3> HIDE DEF left
    <3>1. "CLOSING" \in States
      BY DEF States
    <3> QED BY <1>1, <3>1, <2>1, <2>2, <2>3, ZenonT(60) DEF Snapshot
  <2>5. /\ t.state = "CLOSING" /\ t.closure = e.closure /\ t.ready = NoHead /\ t.continuation = left
        /\ t.planningOnly = s.planningOnly /\ t.attempt = s.attempt /\ t.stage = s.stage /\ t.usage = s.usage /\ t.retries = s.retries
    <3> HIDE DEF left
    <3> QED BY <1>1 DEF Snapshot
  <2>6. t.pr = s.pr /\ t.head = s.head /\ t.turn = s.turn /\ t.status = s.status /\ t.runtime = s.runtime /\ t.token = s.token
    <3> HIDE DEF left
    <3> QED BY <1>1 DEF Snapshot
  <2> HIDE DEF t
  <2>7. Able(t)
    BY <1>3, <2>4, <2>5, <2>6, ClosingAble
  <2> HIDE DEF left
  <2>8. t.state # "ABSENT" /\ (t.runtime = "COLLECTED" => s.runtime = "COLLECTED")
    BY <2>5, <2>6
  <2> QED BY <1>3, <2>7, <2>8, AppliedTotal DEF Kept
<1> HIDE DEF d, t
<1>4. Kept(s, d)
  BY <1>2, <1>3, LeftKept
<1> QED BY <1>4 DEF d

\* An issue that is reopened during its closure, or after it.
LEMMA ReopenedTotal ==
    ASSUME NEW s, Able(s), NEW e
    PROVE  Kept(s, ReduceIssueReopened(s, e))
<1> DEFINE cancelled == [s EXCEPT !.reopen = TRUE]
           dormant   == [s EXCEPT !.state = "DORMANT", !.token = 0]
           d         == ReduceIssueReopened(s, e)
<1>1. s \in Snapshot /\ ValidSnapshot(s)
  BY DEF Able
<1>2. \/ d = Rejected(s)
      \/ d = Deferred(s)
      \/ s.state = "CLOSING" /\ \E f : d = Applied(cancelled, "closure_cancellation_recorded", f)
      \/ s.state = "CLOSED" /\ \E f : d = Applied(dormant, "issue_reopened", f)
  BY DEF ReduceIssueReopened
<1>3. ASSUME s.state = "CLOSING", NEW f, d = Applied(cancelled, "closure_cancellation_recorded", f)
      PROVE  Kept(s, d)
  <2>1. cancelled \in Snapshot
    BY <1>1, Zenon DEF Snapshot
  <2>2. /\ cancelled.planningOnly = s.planningOnly /\ cancelled.waiting = s.waiting /\ cancelled.state = s.state
        /\ cancelled.attempt = s.attempt /\ cancelled.stage = s.stage /\ cancelled.usage = s.usage /\ cancelled.retries = s.retries
        /\ cancelled.pr = s.pr /\ cancelled.head = s.head
    BY <1>1 DEF Snapshot
  <2>3. /\ cancelled.ready = s.ready /\ cancelled.turn = s.turn /\ cancelled.continuation = s.continuation
        /\ cancelled.status = s.status /\ cancelled.runtime = s.runtime /\ cancelled.token = s.token /\ cancelled.closure = s.closure
    BY <1>1 DEF Snapshot
  <2> HIDE DEF cancelled
  <2>4. ValidAssignments(s) /\ ValidAttempt(s) /\ ValidStateShape(s)
    BY <1>1, <1>3, AbsentFacts DEF ValidSnapshot
  <2>5. ValidAssignments(cancelled) /\ ValidAttempt(cancelled)
    BY <1>3, <2>2, <2>3, <2>4 DEF ValidAssignments, ValidAttempt, HasAttempt
  <2>6. ValidStateShape(cancelled)
    BY <1>3, <2>2, <2>3, <2>4 DEF ValidStateShape, ValidClosingTurn, HasTurn, HasAttempt, ActiveStates
  <2>7. ValidSnapshot(cancelled)
    BY <1>1, <1>3, <2>2, <2>3, <2>5, <2>6, AbsentFacts DEF ValidSnapshot, HasProposal
  <2>8. Able(cancelled)
    BY <1>3, <2>1, <2>2, <2>3, <2>7 DEF Able, Headed, HasProposal, ActiveStates
  <2>9. cancelled.state # "ABSENT" /\ (cancelled.runtime = "COLLECTED" => s.runtime = "COLLECTED")
    BY <1>3, <2>2, <2>3
  <2> QED BY <1>3, <2>8, <2>9, AppliedTotal DEF Kept
<1>4. ASSUME s.state = "CLOSED", NEW f, d = Applied(dormant, "issue_reopened", f)
      PROVE  Kept(s, d)
  <2>1. dormant \in Snapshot
    <3>1. "DORMANT" \in States /\ 0 \in Nat
      BY DEF States
    <3> QED BY <1>1, <3>1, Zenon DEF Snapshot
  <2>2. /\ dormant.planningOnly = s.planningOnly /\ dormant.waiting = s.waiting /\ dormant.state = "DORMANT"
        /\ dormant.attempt = s.attempt /\ dormant.stage = s.stage /\ dormant.usage = s.usage /\ dormant.retries = s.retries
        /\ dormant.pr = s.pr /\ dormant.head = s.head
    BY <1>1 DEF Snapshot
  <2>3. /\ dormant.ready = s.ready /\ dormant.turn = s.turn /\ dormant.continuation = s.continuation
        /\ dormant.status = s.status /\ dormant.runtime = s.runtime /\ dormant.token = 0 /\ dormant.closure = s.closure
    BY <1>1 DEF Snapshot
  <2> HIDE DEF dormant
  <2>4. ValidAssignments(s) /\ ValidAttempt(s) /\ ValidStateShape(s)
    BY <1>1, <1>4, AbsentFacts DEF ValidSnapshot
  <2>5. ~HasAttempt(s) /\ ~HasTurn(s) /\ s.closure = 0
    BY <1>4, <2>4 DEF ValidStateShape, ActiveStates
  <2>6. s.status = "COMPLETED" /\ s.runtime \in {"RETAINED", "COLLECTED"}
    BY <1>4, <2>4 DEF ValidAssignments, ActiveStates
  <2>7. ValidAssignments(dormant) /\ ValidAttempt(dormant) /\ ValidStateShape(dormant)
    <3>1. ValidAssignments(dormant)
      BY <2>2, <2>3, <2>6 DEF ValidAssignments, ActiveStates
    <3>2. ValidAttempt(dormant)
      BY <2>2, <2>3, <2>4, <2>5 DEF ValidAttempt, HasAttempt, AttemptStates, ActiveStates
    <3>3. ValidStateShape(dormant)
      BY <2>2, <2>3, <2>5 DEF ValidStateShape, HasAttempt, HasTurn, ActiveStates
    <3> QED BY <3>1, <3>2, <3>3
  <2>8. ValidSnapshot(dormant)
    BY <1>1, <1>4, <2>2, <2>3, <2>7, AbsentFacts DEF ValidSnapshot, HasProposal
  <2>9. Able(dormant)
    BY <1>4, <2>1, <2>2, <2>3, <2>8 DEF Able, Headed, HasProposal, ActiveStates
  <2>10. dormant.state # "ABSENT" /\ (dormant.runtime = "COLLECTED" => s.runtime = "COLLECTED")
    BY <2>2, <2>3
  <2> QED BY <1>4, <2>9, <2>10, AppliedTotal DEF Kept
<1> HIDE DEF d, cancelled, dormant
<1>5. Kept(s, d)
  BY <1>2, <1>3, <1>4, LeftKept
<1> QED BY <1>5 DEF d

\* What the handler of a webhook answers is a Snapshot the store may keep: Reduce's check of its result
\* never has to reject it.
THEOREM WebhookTotal ==
    ASSUME NEW s, Able(s), NEW e \in WebhookEvent, e.kind = "ISSUE_CLOSED" => e.closure # 0,
           e.kind = "TRIGGER" /\ e.planningCompleted => s.runtime # "COLLECTED"
    PROVE  Kept(s, Dispatch(s, e))
<1>1. e.kind \in {"TRIGGER", "SYNCHRONIZATION", "ISSUE_CLOSED", "ISSUE_REOPENED", "REVIEW_OBSERVED"}
  BY DEF WebhookEvent
<1>2. CASE e.kind = "TRIGGER"
  BY <1>2, TriggerTotal DEF Dispatch
<1>3. CASE e.kind = "SYNCHRONIZATION"
  BY <1>3, SyncTotal DEF Dispatch, Kept
<1>4. CASE e.kind = "ISSUE_CLOSED"
  BY <1>4, ClosedTotal DEF Dispatch
<1>5. CASE e.kind = "ISSUE_REOPENED"
  BY <1>5, ReopenedTotal DEF Dispatch
<1>6. CASE e.kind = "REVIEW_OBSERVED"
  BY <1>6, LeftKept DEF Dispatch, ReduceObservation
<1> QED BY <1>1, <1>2, <1>3, <1>4, <1>5, <1>6

-----------------------------------------------------------------------------
\* A Workflow without a turn whose participants work, whatever its state.
Unturned(t) ==
    Founded(t) /\ t.closure = 0 /\ t.status = "ACTIVE" /\ t.runtime = "ACTIVE" /\ t.turn = NoTurn /\ t.ready = NoHead

\* What no settlement changes.
Framed(t, s) ==
    /\ t.planningOnly = s.planningOnly /\ t.attempt = s.attempt /\ t.continuation = s.continuation
    /\ t.status = s.status /\ t.runtime = s.runtime /\ t.token = s.token /\ t.closure = s.closure

\* What may be changed of a Workflow without a turn.
LEMMA FramedUnturned ==
    ASSUME NEW n, Unturned(n), NEW t \in Snapshot, Framed(t, n), t.turn = NoTurn, t.ready = NoHead, Headed(t), t.stage \in Stages,
           t.stage = "planning" <=> n.stage = "planning", n.stage = "planning" => ~HasProposal(t),
           t.retries <= RetryLimit, t.usage <= ReviewLimit
    PROVE  Unturned(t)
<1>1. t.attempt > 0 /\ t.token = 0
  BY DEF Unturned, Founded, Framed
<1>2. (t.stage = "planning" <=> t.planningOnly) /\ (t.planningOnly => ~HasProposal(t))
  BY Zenon DEF Unturned, Founded, Framed
<1>3. ~t.planningOnly => t.continuation # "planning"
  BY Zenon DEF Unturned, Founded, Framed
<1>4. t.closure = 0 /\ t.status = "ACTIVE" /\ t.runtime = "ACTIVE"
  BY DEF Unturned, Framed
<1> QED BY <1>1, <1>2, <1>3, <1>4, Zenon DEF Unturned, Founded

\* A Workflow without a turn works when it is in the state of its Stage.
LEMMA FreeUnturned ==
    ASSUME NEW t
    PROVE  Free(t) <=> /\ Unturned(t) /\ t.state = StageState[t.stage] /\ t.usage < ReviewLimit
                       /\ t.stage = "review" => HasProposal(t)
  BY Zenon DEF Free, Unturned

\* A Workflow without a turn may be handed to a person.
LEMMA UnturnedHanded ==
    ASSUME NEW t, Unturned(t), NEW role \in Roles \cup {""}, NEW s, NEW reason, NEW f
    PROVE  Kept(s, Applied(NeedsHuman(t, role), reason, f))
<1> DEFINE u == NeedsHuman(t, role)
<1>0. t \in Snapshot
  BY DEF Unturned, Founded
<1>1. /\ u \in Snapshot /\ u.state = "NEEDS_HUMAN" /\ u.status = "WAITING_FOR_HUMAN"
      /\ u.head = t.head /\ u.ready = t.ready /\ u.attempt = t.attempt /\ u.usage = t.usage /\ u.retries = t.retries
      /\ u.stage = t.stage /\ u.turn = t.turn /\ u.pr = t.pr
      /\ u.runtime = t.runtime /\ u.token = t.token /\ u.closure = t.closure
      /\ u.planningOnly = t.planningOnly /\ u.continuation = t.continuation
  BY <1>0, NeedsHumanFacts
<1> HIDE DEF u
<1>2. Founded(u) /\ u.runtime = "ACTIVE" /\ u.closure = 0 /\ u.turn = NoTurn /\ u.ready = NoHead
  BY <1>1 DEF Unturned, Founded, Headed, HasProposal
<1>3. Able(u) /\ u.state # "ABSENT" /\ (u.runtime = "COLLECTED" => s.runtime = "COLLECTED")
  BY <1>1, <1>2, HandedAble
<1> QED BY <1>3, AppliedTotal DEF Kept, u

\* A free Workflow may be kept after any decision that applies to it.
LEMMA FreeKept ==
    ASSUME NEW t, Free(t), NEW s, NEW reason, NEW f PROVE Kept(s, Applied(t, reason, f))
<1>1. Able(t) /\ t.state # "ABSENT"
  BY FreeAble DEF ActiveStates
<1>2. t.runtime = "COLLECTED" => s.runtime = "COLLECTED"
  BY DEF Free
<1> QED BY <1>1, <1>2, AppliedTotal DEF Kept

\* The turn of a Workflow is over: the Workflow is free, with the Change Proposal the turn published.
LEMMA TakenOffFree ==
    ASSUME NEW s, Able(s), s.state \in ActiveStates, HasTurn(s), NEW p \in PRs, s.pr \in {NoPR, p},
           NEW e, SettlementEvent(s, e, p), e.publication = NoPR \/ ~HasProposal(s)
    PROVE  /\ Free(TakenOff(s, e)) /\ TakenOff(s, e).stage = s.stage /\ TakenOff(s, e).waiting = s.waiting
           /\ TakenOff(s, e).usage = s.usage /\ TakenOff(s, e).pr \in {NoPR, p}
<1> DEFINE n == TakenOff(s, e)
           u == [s EXCEPT !.turn = NoTurn, !.resume = ""]
           v == [u EXCEPT !.pr = e.publication, !.head = e.publicationHead]
<1>1. s \in Snapshot /\ ValidSnapshot(s) /\ Headed(s) /\ s.usage < ReviewLimit
  BY DEF Able
<1>2. Founded(s) /\ s.ready = NoHead /\ s.closure = 0
  <2>1. s.state \in AttemptStates /\ s.state # "PR_READY"
    BY DEF AttemptStates, ActiveStates
  <2> QED BY <2>1, AbleFounded
<1>3. /\ n \in Snapshot /\ n.state = s.state /\ n.stage = s.stage /\ n.attempt = s.attempt /\ n.usage = s.usage
      /\ n.retries = s.retries /\ n.turn = NoTurn /\ n.waiting = s.waiting
      /\ n.pr \in {NoPR, p} /\ Headed(n)
  BY <1>1, TakenOffFacts
<1>4. u \in Snapshot /\ Framed(u, s) /\ u.pr = s.pr /\ u.ready = s.ready
  <2>1. NoTurn \in Turn
    BY DEF Turn, NoTurn
  <2>2. u \in Snapshot
    BY <1>1, <2>1, Zenon DEF Snapshot
  <2>3. Framed(u, s)
    BY <1>1 DEF Snapshot, Framed
  <2>4. u.pr = s.pr /\ u.ready = s.ready
    BY <1>1 DEF Snapshot
  <2> QED BY <2>2, <2>3, <2>4
<1>5. n = IF e.publication = NoPR THEN u ELSE v
  BY DEF TakenOff, Associate
<1> HIDE DEF u
<1>6. v.pr = e.publication /\ v.ready = u.ready /\ Framed(v, u)
  <2>1. v.pr = e.publication /\ v.ready = u.ready
    BY <1>4 DEF Snapshot
  <2>2. Framed(v, u)
    BY <1>4 DEF Snapshot, Framed
  <2> QED BY <2>1, <2>2
<1> HIDE DEF n, v
<1>7. Framed(n, s) /\ n.ready = NoHead
  BY <1>2, <1>4, <1>5, <1>6 DEF Framed
<1>8. n.pr = IF e.publication = NoPR THEN s.pr ELSE p
  BY <1>4, <1>5, <1>6 DEF SettlementEvent
<1>9. /\ StageState[s.stage] = s.state /\ s.status = "ACTIVE" /\ s.runtime = "ACTIVE"
      /\ s.stage = "review" => HasProposal(s)
  BY <1>1, ActiveFacts DEF ValidChangeProposal
<1>10. Unturned([s EXCEPT !.turn = NoTurn, !.resume = ""])
  <2>1. /\ u.state = s.state /\ u.stage = s.stage /\ u.usage = s.usage /\ u.retries = s.retries /\ u.turn = NoTurn /\ u.head = s.head
    BY <1>1 DEF Snapshot, u
  <2>2. Headed(u) /\ u.attempt > 0 /\ u.stage \in Stages /\ u.retries <= RetryLimit /\ u.usage <= ReviewLimit /\ u.token = 0
    BY <1>1, <1>2, <1>4, <2>1 DEF Founded, Headed, HasProposal, Framed
  <2>3. /\ u.stage = "planning" <=> u.planningOnly
        /\ u.planningOnly => ~HasProposal(u)
        /\ ~u.planningOnly => u.continuation # "planning"
    BY <1>2, <1>4, <2>1, Zenon DEF Founded, HasProposal, Framed
  <2>4. u.closure = 0 /\ u.status = "ACTIVE" /\ u.runtime = "ACTIVE" /\ u.ready = NoHead
    BY <1>2, <1>4, <1>9 DEF Framed
  <2> QED BY <1>4, <2>1, <2>2, <2>3, <2>4, Zenon DEF Unturned, Founded, u
<1>11. Unturned(u) /\ Framed(n, u) /\ u.stage = s.stage
  <2>1. u.stage = s.stage
    BY <1>1 DEF u, Snapshot
  <2>2. Framed(n, u)
    BY <1>4, <1>7 DEF Framed
  <2> QED BY <1>10, <2>1, <2>2 DEF u
<1>12. s.stage = "planning" => ~HasProposal(n)
  <2>1. e.publication # NoPR => s.stage # "planning"
    BY DEF SettlementEvent
  <2> QED BY <1>2, <1>8, <2>1 DEF Founded, HasProposal
<1>13. Unturned(n)
  BY <1>2, <1>3, <1>7, <1>11, <1>12, FramedUnturned DEF Founded
<1>14. n.stage = "review" => HasProposal(n)
  BY <1>3, <1>8, <1>9 DEF HasProposal
<1>15. Free(n)
  BY <1>1, <1>3, <1>9, <1>13, <1>14, FreeUnturned
<1> QED BY <1>3, <1>15 DEF n

\* Recording a Change Proposal keeps a Workflow without a turn what it is, unless it only plans.
LEMMA SetProposalUnturned ==
    ASSUME NEW n, Unturned(n), n.stage # "planning", NEW p \in PRs, NEW head \in Heads
    PROVE  LET u == SetProposal(n, p, head) IN
           /\ Unturned(u) /\ HasProposal(u) /\ u.head = head /\ u.state = n.state /\ u.stage = n.stage
           /\ u.usage = n.usage /\ u.waiting = n.waiting
<1> DEFINE u == SetProposal(n, p, head)
<1>0. n \in Snapshot /\ n.turn = NoTurn /\ n.stage \in Stages /\ n.retries <= RetryLimit /\ n.usage <= ReviewLimit
  BY DEF Unturned, Founded
<1>1. /\ u \in Snapshot /\ u.state = n.state /\ u.stage = n.stage /\ u.attempt = n.attempt /\ u.usage = n.usage
      /\ u.retries = n.retries /\ u.turn = n.turn /\ u.waiting = n.waiting
      /\ u.pr = p /\ u.head = head /\ u.ready = NoHead /\ Headed(u)
  BY <1>0, SetProposalFacts
<1>2. Framed(u, n)
  BY <1>0 DEF SetProposal, Framed, Snapshot
<1> HIDE DEF u
<1>3. Unturned(u)
  BY <1>0, <1>1, <1>2, FramedUnturned
<1> QED BY <1>1, <1>3, AbsentAssumption DEF u, HasProposal

\* The parts of a Workflow a settlement moves on.
Moved(n, stage, state, retries, usage, waiting) ==
    [n EXCEPT !.stage = stage, !.state = state, !.retries = retries, !.usage = usage, !.waiting = waiting]

\* A Workflow without a turn stays one when they move.
LEMMA MovedUnturned ==
    ASSUME NEW n, Unturned(n), NEW stage \in Stages, stage = "planning" <=> n.stage = "planning", NEW state \in States,
           NEW retries \in Nat, retries <= RetryLimit, NEW usage \in Nat, usage <= ReviewLimit, NEW waiting \in BOOLEAN
    PROVE  LET u == Moved(n, stage, state, retries, usage, waiting) IN
           /\ Unturned(u) /\ u.stage = stage /\ u.state = state /\ u.usage = usage /\ u.waiting = waiting /\ u.pr = n.pr /\ u.head = n.head
<1> DEFINE u == Moved(n, stage, state, retries, usage, waiting)
<1>0. n \in Snapshot /\ Headed(n) /\ n.turn = NoTurn /\ n.ready = NoHead /\ (n.stage = "planning" => ~HasProposal(n))
  BY Zenon DEF Unturned, Founded
<1>1. u \in Snapshot
  <2>1. stage \in Stages \cup {""}
    OBVIOUS
  <2> QED BY <1>0, <2>1, Zenon DEF Snapshot, Moved
<1>2. /\ u.stage = stage /\ u.state = state /\ u.retries = retries /\ u.usage = usage /\ u.waiting = waiting
      /\ u.pr = n.pr /\ u.head = n.head /\ u.turn = n.turn /\ u.ready = n.ready
  BY <1>0 DEF Snapshot, Moved
<1>3. Framed(u, n)
  BY <1>0 DEF Framed, Snapshot, Moved
<1> HIDE DEF u
<1>4. Headed(u) /\ (n.stage = "planning" => ~HasProposal(u))
  BY <1>0, <1>2 DEF Headed, HasProposal
<1>5. Unturned(u)
  BY <1>0, <1>1, <1>2, <1>3, <1>4, FramedUnturned
<1> QED BY <1>2, <1>5 DEF u

\* A turn that ends with a question.
LEMMA ClarificationTotal ==
    ASSUME NEW s, NEW n, Free(n), NEW stage, NEW waits PROVE Kept(s, ClarificationWait(n, stage, waits))
<1> DEFINE u == Moved(n, n.stage, n.state, n.retries, n.usage, TRUE)
           v == [n EXCEPT !.waiting = TRUE]
<1>1. n \in Snapshot /\ Unturned(n) /\ n.state = StageState[n.stage] /\ n.usage < ReviewLimit /\ (n.stage = "review" => HasProposal(n))
  BY FreeUnturned DEF Free, Founded
<1>2. n.stage \in Stages /\ n.state \in States /\ n.retries \in Nat /\ n.usage \in Nat /\ TRUE \in BOOLEAN
  <2>1. n.state \in States /\ n.retries \in Nat /\ n.usage \in Nat
    BY <1>1, Zenon DEF Snapshot
  <2> QED BY <1>1, <2>1 DEF Unturned, Founded
<1>3. n.retries <= RetryLimit /\ n.usage <= ReviewLimit
  BY <1>1 DEF Unturned, Founded
<1>4. Unturned(u) /\ u.stage = n.stage /\ u.state = n.state /\ u.usage = n.usage /\ u.pr = n.pr
  <2>1. n.retries <= RetryLimit
    BY <1>1 DEF Unturned, Founded
  <2>2. Unturned(n)
    BY <1>1
  <2> HIDE DEF u, v
  <2>3. ASSUME NEW yes \in BOOLEAN
        PROVE  LET x == Moved(n, n.stage, n.state, n.retries, n.usage, yes) IN
               Unturned(x) /\ x.stage = n.stage /\ x.state = n.state /\ x.usage = n.usage /\ x.pr = n.pr
    BY ONLY <1>2, <1>3, <2>1, <2>2, yes \in BOOLEAN, MovedUnturned
  <2> QED BY <1>2, <2>3, Zenon DEF u
<1>5. u = v
  BY <1>1 DEF Snapshot, Moved
<1> HIDE DEF u, v
<1>6. Free(v)
  BY <1>1, <1>4, <1>5, FreeUnturned DEF HasProposal
<1> QED BY <1>6, FreeKept DEF ClarificationWait, v

\* A Developer's turn that published.
LEMMA DeveloperTotal ==
    ASSUME NEW s, NEW n, Free(n), n.stage = "implementation", NEW p \in PRs, NEW e, e.pr = p, e.head \in Heads,
           e.outcome = "CHANGE_PROPOSAL_READY", Able(s)
    PROVE  Kept(s, ReduceDeveloperSettled(s, n, e))
<1> DEFINE u == SetProposal(n, p, e.head)
           v == [u EXCEPT !.stage = "review", !.state = "REVIEWING", !.retries = 0]
           w == Moved(u, "review", "REVIEWING", 0, u.usage, u.waiting)
           d == ReduceDeveloperSettled(s, n, e)
<1>1. Unturned(n) /\ n.usage < ReviewLimit
  BY FreeUnturned
<1>2. Unturned(u) /\ HasProposal(u) /\ u.usage = n.usage /\ u.stage = "implementation"
  BY <1>1, SetProposalUnturned
<1> HIDE DEF u
<1>3. u \in Snapshot /\ u.usage \in Nat /\ u.waiting \in BOOLEAN /\ u.usage <= ReviewLimit
  <2>1. u \in Snapshot /\ u.usage <= ReviewLimit
    BY <1>2 DEF Unturned, Founded
  <2>2. u.usage \in Nat /\ u.waiting \in BOOLEAN
    BY <2>1, Zenon DEF Snapshot
  <2> QED BY <2>1, <2>2
<1>4. "review" \in Stages /\ "REVIEWING" \in States /\ 0 \in Nat /\ 0 <= RetryLimit /\ StageState["review"] = "REVIEWING"
  BY LimitsAssumption DEF Stages, States, AttemptStates, ActiveStates, StageState
<1>5. Unturned(w) /\ w.stage = "review" /\ w.state = "REVIEWING" /\ w.usage = u.usage /\ w.pr = u.pr
  BY <1>2, <1>3, <1>4, MovedUnturned
<1>6. w = v
  BY <1>3 DEF Snapshot, Moved
<1> HIDE DEF w, v
<1>7. Free(v)
  BY <1>1, <1>2, <1>4, <1>5, <1>6, FreeUnturned DEF HasProposal
<1>8. d = Rejected(s) \/ \E f : d = Applied(v, "change_proposal_ready", f)
  <2>1. NextStage[e.outcome] = "review" /\ StageState["review"] = "REVIEWING"
    BY DEF NextStage, StageState
  <2>2. \/ d = Rejected(s)
        \/ \E f : d = Applied([SetProposal(n, e.pr, e.head) EXCEPT
                        !.stage = NextStage[e.outcome], !.state = StageState[NextStage[e.outcome]], !.retries = 0],
                        "change_proposal_ready", f)
    BY Zenon DEF ReduceDeveloperSettled
  <2> QED BY <2>1, <2>2 DEF v, u
<1> HIDE DEF d
<1>9. Kept(s, d)
  BY <1>7, <1>8, FreeKept, LeftKept
<1> QED BY <1>9 DEF d

\* A failure of the infrastructure, retried or handed to a person.
LEMMA FailureTotal ==
    ASSUME NEW s, NEW n, Free(n), NEW e, StageRole[e.turn.stage] \in Roles \cup {""}
    PROVE  Kept(s, ReduceInfrastructureFailure(n, e))
<1> DEFINE u == Moved(n, n.stage, n.state, n.retries + 1, n.usage, n.waiting)
           v == [n EXCEPT !.retries = n.retries + 1]
           d == ReduceInfrastructureFailure(n, e)
<1>1. n \in Snapshot /\ Unturned(n) /\ n.state = StageState[n.stage] /\ n.usage < ReviewLimit /\ (n.stage = "review" => HasProposal(n))
  BY FreeUnturned DEF Free, Founded
<1>2. n.stage \in Stages /\ n.state \in States /\ n.retries \in Nat /\ n.usage \in Nat /\ n.waiting \in BOOLEAN
  <2>1. n.state \in States /\ n.retries \in Nat /\ n.usage \in Nat /\ n.waiting \in BOOLEAN
    BY <1>1, Zenon DEF Snapshot
  <2> QED BY <1>1, <2>1 DEF Unturned, Founded
<1>3. n.usage <= ReviewLimit
  BY <1>1 DEF Unturned, Founded
<1>4. ASSUME n.retries < RetryLimit PROVE Free(v)
  <2>1. n.retries + 1 \in Nat /\ n.retries + 1 <= RetryLimit
    <3>1. n.retries \in Nat
      BY <1>2
    <3> QED BY ONLY <1>4, <3>1, LimitsAssumption
  <2>2. Unturned(u) /\ u.stage = n.stage /\ u.state = n.state /\ u.usage = n.usage /\ u.pr = n.pr
    <3>1. Unturned(n)
      BY <1>1
    <3> HIDE DEF v
    <3> QED BY ONLY <1>2, <1>3, <2>1, <3>1, MovedUnturned
  <2>3. u = v
    BY <1>1 DEF Snapshot, Moved
  <2> HIDE DEF u, v
  <2> QED BY <1>1, <2>2, <2>3, FreeUnturned DEF HasProposal
<1>5. \/ n.retries < RetryLimit /\ \E f : d = Applied(v, "infrastructure_retry", f)
      \/ \E reason, f : d = Applied(NeedsHuman(n, StageRole[e.turn.stage]), reason, f)
  BY Zenon DEF ReduceInfrastructureFailure, Handoff
<1> HIDE DEF d, v
<1>6. Kept(s, d)
  BY <1>1, <1>4, <1>5, FreeKept, UnturnedHanded
<1> QED BY <1>6 DEF d

\* A plan that is ready.
LEMMA PlanTotal ==
    ASSUME NEW s, NEW n, Free(n), n.stage = "planning", NEW reason, NEW f
    PROVE  Kept(s, Applied([n EXCEPT !.state = "PLAN_READY"], reason, f))
<1> DEFINE u == Moved(n, "planning", "PLAN_READY", n.retries, n.usage, n.waiting)
           v == [n EXCEPT !.state = "PLAN_READY"]
<1>1. n \in Snapshot /\ Unturned(n)
  BY FreeUnturned DEF Free, Founded
<1>2. /\ "planning" \in Stages /\ "PLAN_READY" \in States /\ n.retries \in Nat /\ n.usage \in Nat /\ n.waiting \in BOOLEAN
      /\ n.retries <= RetryLimit /\ n.usage <= ReviewLimit
  <2>1. n.retries \in Nat /\ n.usage \in Nat /\ n.waiting \in BOOLEAN
    BY <1>1, Zenon DEF Snapshot
  <2> QED BY <1>1, <2>1 DEF Unturned, Founded, Stages, States, AttemptStates
<1>3. Unturned(u) /\ u.stage = "planning" /\ u.state = "PLAN_READY"
  <2>1. Unturned(n)
    BY <1>1
  <2> HIDE DEF v
  <2> QED BY ONLY <1>2, <2>1, n.stage = "planning", MovedUnturned
<1>4. u = v
  BY <1>1 DEF Snapshot, Moved
<1> HIDE DEF u, v
<1>5. v.planningOnly
  BY <1>3, <1>4, Zenon DEF Unturned, Founded
<1>6. Able(v)
  BY <1>3, <1>4, <1>5, PlanAble DEF Unturned
<1>7. v.state # "ABSENT" /\ (v.runtime = "COLLECTED" => s.runtime = "COLLECTED")
  BY <1>3, <1>4 DEF Unturned
<1> QED BY <1>6, <1>7, AppliedTotal DEF Kept, v

\* A commit that is ready.
LEMMA ApprovedTotal ==
    ASSUME NEW s, NEW m, Unturned(m), m.stage = "review", m.state = "PR_READY", ~m.waiting, HasProposal(m), NEW reason, NEW f
    PROVE  Kept(s, Applied([m EXCEPT !.ready = m.head], reason, f))
<1> DEFINE v == [m EXCEPT !.ready = m.head]
<1>1. m \in Snapshot /\ m.head \in Heads \cup {NoHead}
  <2>1. m \in Snapshot
    BY DEF Unturned, Founded
  <2> QED BY <2>1, Zenon DEF Snapshot
<1>2. v \in Snapshot
  BY <1>1, Zenon DEF Snapshot
<1>3. /\ v.planningOnly = m.planningOnly /\ v.waiting = m.waiting /\ v.state = m.state /\ v.attempt = m.attempt
      /\ v.stage = m.stage /\ v.usage = m.usage /\ v.retries = m.retries /\ v.pr = m.pr /\ v.head = m.head
  BY <1>1 DEF Snapshot
<1>4. /\ v.ready = m.head /\ v.turn = m.turn /\ v.continuation = m.continuation
      /\ v.status = m.status /\ v.runtime = m.runtime /\ v.token = m.token /\ v.closure = m.closure
  BY <1>1 DEF Snapshot
<1> HIDE DEF v
<1>5. Founded(v)
  <2>1. Headed(v)
    BY <1>3 DEF Unturned, Founded, Headed, HasProposal
  <2>2. /\ v.attempt > 0 /\ v.stage \in Stages /\ v.retries <= RetryLimit /\ v.usage <= ReviewLimit /\ v.token = 0
    BY <1>3, <1>4 DEF Unturned, Founded
  <2>3. /\ v.stage = "planning" <=> v.planningOnly
        /\ v.planningOnly => ~HasProposal(v)
        /\ ~v.planningOnly => v.continuation # "planning"
    BY <1>3, <1>4, Zenon DEF Unturned, Founded, HasProposal
  <2> QED BY <1>2, <2>1, <2>2, <2>3, Zenon DEF Founded
<1>6. ~v.waiting /\ HasProposal(v)
  BY <1>3, Zenon DEF HasProposal
<1>7. Able(v)
  BY <1>3, <1>4, <1>5, <1>6, ReadyAble DEF Unturned
<1>8. v.state # "ABSENT" /\ (v.runtime = "COLLECTED" => s.runtime = "COLLECTED")
  BY <1>3, <1>4 DEF Unturned
<1> QED BY <1>7, <1>8, AppliedTotal DEF Kept, v

\* A Reviewer's turn, whatever becomes of the verdict.
LEMMA ReviewTotal ==
    ASSUME NEW s, Able(s), s.stage = "review", NEW n, Free(n), n.stage = "review", ~n.waiting,
           NEW p \in PRs, NEW e, e.pr = p, e.head \in Heads, e.outcome \in {"CHANGES_REQUESTED", "APPROVED"}
    PROVE  Kept(s, ReduceReviewSettled(s, n, e))
<1> DEFINE w == SetProposal(n, p, e.head)
           u == [w EXCEPT !.retries = 0]
           c == [u EXCEPT !.usage = u.usage + 1]
           again   == [u EXCEPT !.state = "REVIEWING"]
           ready   == [c EXCEPT !.state = "PR_READY", !.ready = e.review.head]
           changed == [c EXCEPT !.stage = "implementation"]
           rework  == [changed EXCEPT !.state = "DEVELOPING"]
           d == ReduceReviewSettled(s, n, e)
<1>1. Unturned(n) /\ n.usage < ReviewLimit
  BY FreeUnturned
<1>2. /\ Unturned(w) /\ HasProposal(w) /\ w.head = e.head /\ w.state = n.state /\ w.stage = "review"
      /\ w.usage = n.usage /\ w.waiting = n.waiting
  BY <1>1, SetProposalUnturned
<1> HIDE DEF w
<1>3. w \in Snapshot /\ w.usage \in Nat /\ w.waiting \in BOOLEAN /\ w.state \in States
  <2>1. w \in Snapshot
    BY <1>2 DEF Unturned, Founded
  <2> QED BY <2>1, Zenon DEF Snapshot
<1>4. /\ StageState["review"] = "REVIEWING" /\ StageState["implementation"] = "DEVELOPING"
      /\ StageRole["implementation"] = "DEVELOPER"
      /\ NextStage["CHANGES_REQUESTED"] = "implementation"
  BY DEF StageState, StageRole, NextStage
<1>5. /\ "review" \in Stages /\ "implementation" \in Stages /\ 0 \in Nat /\ 0 <= RetryLimit
      /\ "REVIEWING" \in States /\ "PR_READY" \in States /\ "DEVELOPING" \in States
      /\ w.usage + 1 \in Nat /\ w.usage + 1 <= ReviewLimit /\ w.usage <= ReviewLimit
  <2>1. w.usage + 1 \in Nat /\ w.usage + 1 <= ReviewLimit /\ w.usage <= ReviewLimit
    BY <1>1, <1>2, <1>3, LimitsAssumption
  <2>2. 0 <= RetryLimit
    BY LimitsAssumption
  <2> QED BY <2>1, <2>2 DEF Stages, States, AttemptStates, ActiveStates
<1>6. ASSUME NEW stage \in {"review", "implementation"}, NEW state \in States, NEW usage \in Nat, usage <= ReviewLimit
      PROVE  LET x == Moved(w, stage, state, 0, usage, w.waiting) IN
             /\ Unturned(x) /\ x.stage = stage /\ x.state = state /\ x.usage = usage
             /\ x.waiting = n.waiting /\ HasProposal(x) /\ x.head = e.head
  <2> DEFINE x == Moved(w, stage, state, 0, usage, w.waiting)
  <2>1. Unturned(x) /\ x.stage = stage /\ x.state = state /\ x.usage = usage /\ x.waiting = w.waiting /\ x.pr = w.pr /\ x.head = w.head
    BY <1>2, <1>3, <1>5, <1>6, MovedUnturned
  <2> HIDE DEF x
  <2>2. HasProposal(x)
    BY <1>2, <2>1 DEF HasProposal
  <2> QED BY <1>2, <2>1, <2>2 DEF x
<1>7. again = Moved(w, "review", "REVIEWING", 0, w.usage, w.waiting)
  BY <1>2, <1>3 DEF Moved, Snapshot
<1>8. changed = Moved(w, "implementation", w.state, 0, w.usage + 1, w.waiting)
  BY <1>3 DEF Moved, Snapshot
<1>9. rework = Moved(w, "implementation", "DEVELOPING", 0, w.usage + 1, w.waiting)
  BY <1>3 DEF Moved, Snapshot
<1>10. c.usage = w.usage + 1
  BY <1>3 DEF Snapshot
<1> DEFINE m == Moved(w, "review", "PR_READY", 0, w.usage + 1, w.waiting)
<1>11. ready = [m EXCEPT !.ready = e.review.head]
  BY <1>2, <1>3 DEF Moved, Snapshot
<1> HIDE DEF again, ready, changed, rework
<1>12. \/ d = Rejected(s)
       \/ \E f : d = Applied(again, "review_head_replaced", f)
       \/ e.review.head = e.head /\ \E f : d = Applied(ready, "approved", f)
       \/ \E f : d.snap = Applied(NeedsHuman(changed, StageRole["implementation"]), "review_budget_exhausted", f).snap
       \/ ~(c.usage >= ReviewLimit) /\ \E f : d = Applied(rework, "changes_requested", f)
  <2>1. e.pr = p
    OBVIOUS
  <2>2. ~ReviewIsStale(s, e) => e.review.head = e.head
    BY DEF ReviewIsStale
  <2>3. CASE e.outcome = "APPROVED"
    BY <1>4, <2>2, <2>3, Zenon DEF ReduceReviewSettled, again, ready, u, c, w
  <2>4. CASE e.outcome = "CHANGES_REQUESTED"
    <3>1. ASSUME NEW a, NEW f, NEW g PROVE [Applied(a, "review_budget_exhausted", f) EXCEPT !.effects.review = g].snap
                                             = Applied(a, "review_budget_exhausted", f).snap
      BY DEF Applied
    <3> DEFINE h == Handoff(changed, StageRole["implementation"], "review_budget_exhausted", PendingOnly(e.pending))
    <3>2. \/ d = Rejected(s)
          \/ \E f : d = Applied(again, "review_head_replaced", f)
          \/ d = [h EXCEPT !.effects.review = "ACCEPTED"]
          \/ ~(c.usage >= ReviewLimit) /\ \E f : d = Applied(rework, "changes_requested", f)
      BY <1>4, <2>4, Zenon DEF ReduceReviewSettled, again, changed, rework, u, c, w
    <3>3. \E f : h = Applied(NeedsHuman(changed, StageRole["implementation"]), "review_budget_exhausted", f)
      BY DEF Handoff
    <3> HIDE DEF d, h
    <3>4. ASSUME d = [h EXCEPT !.effects.review = "ACCEPTED"]
          PROVE  \E f : d.snap = Applied(NeedsHuman(changed, StageRole["implementation"]), "review_budget_exhausted", f).snap
      <4>1. PICK f : h = Applied(NeedsHuman(changed, StageRole["implementation"]), "review_budget_exhausted", f)
        BY <3>3
      <4>2. d.snap = Applied(NeedsHuman(changed, StageRole["implementation"]), "review_budget_exhausted", f).snap
        <5> DEFINE x == NeedsHuman(changed, StageRole["implementation"])
        <5>1. h = Applied(x, "review_budget_exhausted", f)
          BY <4>1 DEF x
        <5> HIDE DEF x
        <5>2. [Applied(x, "review_budget_exhausted", f) EXCEPT !.effects.review = "ACCEPTED"].snap
                = Applied(x, "review_budget_exhausted", f).snap
          BY <3>1
        <5>3. d.snap = Applied(x, "review_budget_exhausted", f).snap
          BY ONLY <3>4, <5>1, <5>2
        <5> QED BY <5>3 DEF x
      <4> QED BY <4>2
    <3> QED BY <3>2, <3>4, Zenon
  <2> QED BY <2>3, <2>4
<1> HIDE DEF d, u, c, m
<1>13. Free(again)
  <2>1. /\ Unturned(again) /\ again.stage = "review" /\ again.state = "REVIEWING" /\ again.usage = w.usage /\ HasProposal(again)
    BY <1>3, <1>5, <1>6, <1>7
  <2> QED BY <1>1, <1>2, <1>4, <2>1, FreeUnturned
<1>14. ASSUME e.review.head = e.head, NEW f PROVE Kept(s, Applied(ready, "approved", f))
  <2>1. /\ Unturned(m) /\ m.stage = "review" /\ m.state = "PR_READY" /\ m.waiting = n.waiting /\ HasProposal(m) /\ m.head = e.head
    BY <1>5, <1>6 DEF m
  <2>2. ready = [m EXCEPT !.ready = m.head]
    BY <1>11, <1>14, <2>1
  <2>3. ~m.waiting
    BY <2>1, Zenon
  <2>4. Kept(s, Applied([m EXCEPT !.ready = m.head], "approved", f))
    BY <2>1, <2>3, ApprovedTotal
  <2> QED BY <2>2, <2>4
<1>15. Unturned(changed)
  BY <1>3, <1>5, <1>6, <1>8
<1>16. ASSUME ~(c.usage >= ReviewLimit) PROVE Free(rework)
  <2>1. Unturned(rework) /\ rework.stage = "implementation" /\ rework.state = "DEVELOPING" /\ rework.usage = w.usage + 1
    BY <1>5, <1>6, <1>9
  <2>2. rework.usage < ReviewLimit
    BY <1>3, <1>5, <1>10, <1>16, <2>1, LimitsAssumption
  <2> QED BY <1>4, <2>1, <2>2, FreeUnturned
<1>17. ASSUME NEW f, d.snap = Applied(NeedsHuman(changed, StageRole["implementation"]), "review_budget_exhausted", f).snap
       PROVE  Kept(s, d)
  <2>1. StageRole["implementation"] \in Roles \cup {""}
    BY <1>4 DEF Roles
  <2>2. Kept(s, Applied(NeedsHuman(changed, StageRole["implementation"]), "review_budget_exhausted", f))
    BY <1>15, <2>1, UnturnedHanded
  <2> QED BY <1>17, <2>2 DEF Kept
<1>18. Kept(s, d)
  BY <1>12, <1>13, <1>14, <1>16, <1>17, FreeKept, LeftKept
<1> QED BY <1>18 DEF d

\* What the handler of a settlement answers is a Snapshot the store may keep: Reduce's check of its result
\* never has to reject it.
THEOREM SettlementTotal ==
    ASSUME NEW s, Able(s), s.state \in ActiveStates, HasTurn(s), ~s.waiting, NEW p \in PRs, s.pr \in {NoPR, p},
           NEW e, SettlementEvent(s, e, p)
    PROVE  Kept(s, Dispatch(s, e))
<1> DEFINE d == ReduceTurnSettled(s, e)
           n == TakenOff(s, e)
<1>1. s \in Snapshot /\ ValidSnapshot(s) /\ s.stage \in Stages
  BY ActiveFacts DEF Able
<1>2. Dispatch(s, e) = d
  BY DEF Dispatch, SettlementEvent
<1>3. \/ d = Rejected(s)
      \/ /\ e.publication = NoPR \/ ~HasProposal(s)
         /\ \/ d = ClarificationWait(n, e.turn.stage, e.inputPending)
            \/ e.pr = p /\ d = ClarificationWait(SetProposal(n, e.pr, e.head), e.turn.stage, e.inputPending)
            \/ d = ClarificationWait(n, e.turn.stage, TRUE)
            \/ /\ e.outcome = "PLANNING_READY"
               /\ d = Applied([n EXCEPT !.state = "PLAN_READY"], "approved", [NoEffects EXCEPT !.labels = "PLAN_READY"])
            \/ e.outcome = "CHANGE_PROPOSAL_READY" /\ e.pr = p /\ d = ReduceDeveloperSettled(s, n, e)
            \/ e.outcome \in {"CHANGES_REQUESTED", "APPROVED"} /\ s.stage = "review" /\ e.pr = p /\ d = ReduceReviewSettled(s, n, e)
            \/ d = Handoff(n, StageRole[e.turn.stage], "agent_blocked", PendingOnly(e.pending))
            \/ d = ReduceInfrastructureFailure(n, e)
  BY <1>1, SettlementCases
<1>4. ASSUME e.publication = NoPR \/ ~HasProposal(s)
      PROVE  Free(n) /\ n.stage = s.stage /\ n.waiting = s.waiting
  BY <1>4, TakenOffFree
<1>5. StageRole[e.turn.stage] \in Roles \cup {""}
  BY <1>1, SettlementFacts
<1>6. /\ e.outcome = "PLANNING_READY" => s.stage = "planning"
      /\ e.outcome = "CHANGE_PROPOSAL_READY" => s.stage = "implementation"
  <2>1. /\ Accepts["planning"] = {"PLANNING_READY"}
        /\ Accepts["implementation"] = {"CHANGE_PROPOSAL_READY"}
        /\ Accepts["review"] = {"CHANGES_REQUESTED", "APPROVED"}
    BY DEF Accepts
  <2>2. e.outcome \in Accepts[s.stage] \cup {"CLARIFICATION_WAIT", "BLOCKED", "INFRASTRUCTURE_FAILED"}
    BY DEF SettlementEvent
  <2> QED BY <1>1, <2>1, <2>2 DEF Stages
<1>7. e.pr = p => e.head \in Heads /\ s.stage # "planning"
  BY AbsentAssumption DEF SettlementEvent
<1> HIDE DEF d, n
<1>8. ASSUME Free(n), e.pr = p, n.stage = s.stage PROVE Free(SetProposal(n, e.pr, e.head))
  <2>1. Unturned(n) /\ n.state = StageState[n.stage] /\ n.usage < ReviewLimit
    BY <1>8, FreeUnturned
  <2> DEFINE u == SetProposal(n, p, e.head)
  <2>2. Unturned(u) /\ HasProposal(u) /\ u.state = n.state /\ u.stage = n.stage /\ u.usage = n.usage
    BY <1>7, <1>8, <2>1, SetProposalUnturned
  <2> HIDE DEF u
  <2>3. Free(u)
    BY <2>1, <2>2, FreeUnturned
  <2> QED BY <1>8, <2>3 DEF u
<1>9. ASSUME Free(n), NEW reason PROVE Kept(s, Handoff(n, StageRole[e.turn.stage], reason, PendingOnly(e.pending)))
  <2>1. Unturned(n)
    BY <1>9, FreeUnturned
  <2> QED BY <1>5, <2>1, UnturnedHanded DEF Handoff
<1>10. ASSUME e.publication = NoPR \/ ~HasProposal(s), e.outcome = "PLANNING_READY", NEW reason, NEW f
       PROVE  Kept(s, Applied([n EXCEPT !.state = "PLAN_READY"], reason, f))
  BY <1>4, <1>6, <1>10, PlanTotal
<1>11. ASSUME e.publication = NoPR \/ ~HasProposal(s), e.outcome = "CHANGE_PROPOSAL_READY", e.pr = p
       PROVE  Kept(s, ReduceDeveloperSettled(s, n, e))
  BY <1>4, <1>6, <1>7, <1>11, DeveloperTotal
<1>12. ASSUME e.publication = NoPR \/ ~HasProposal(s), e.outcome \in {"CHANGES_REQUESTED", "APPROVED"}, s.stage = "review", e.pr = p
       PROVE  Kept(s, ReduceReviewSettled(s, n, e))
  <2>1. Free(n) /\ n.stage = "review" /\ ~n.waiting
    <3>1. Free(n) /\ n.stage = s.stage /\ n.waiting = s.waiting
      BY <1>4, <1>12
    <3> QED BY <1>12, <3>1, Zenon
  <2> QED BY <1>7, <1>12, <2>1, ReviewTotal
<1>13. Kept(s, d)
  BY <1>3, <1>4, <1>5, <1>8, <1>9, <1>10, <1>11, <1>12, ClarificationTotal, FailureTotal, LeftKept
<1> QED BY <1>2, <1>13

\* A report to a person leaves a Workflow behind that may be kept.
LEMMA HandedOffAble ==
    ASSUME NEW s, Able(s), NEW d, HandedOff(s, d) PROVE Able(d.snap)
<1> DEFINE t == d.snap
<1>1. /\ t \in Snapshot /\ ValidSnapshot(t) /\ t.state = "NEEDS_HUMAN" /\ t.pr = s.pr /\ t.head = s.head
      /\ t.planningOnly = s.planningOnly /\ t.continuation = s.continuation /\ t.ready \in {s.ready, NoHead}
  BY DEF HandedOff
<1>2. Headed(t) /\ (~HasProposal(t) => t.ready = NoHead)
  BY <1>1 DEF Able, Headed, HasProposal
<1>3. ~t.planningOnly => t.continuation # "planning"
  BY <1>1, Zenon DEF Able
<1> HIDE DEF t
<1>4. Able(t)
  BY <1>1, <1>2, <1>3 DEF Able, ActiveStates
<1> QED BY <1>4 DEF t

\* So does the end of a closure.
LEMMA SettledClosureAble ==
    ASSUME NEW s, Able(s), NEW t \in Snapshot, ValidSnapshot(t), t.state \in {"DORMANT", "CLOSED"}, t.ready = NoHead,
           t.pr = s.pr /\ t.head = s.head /\ t.planningOnly = s.planningOnly /\ t.continuation = s.continuation
    PROVE  Able(t)
<1>1. Headed(t) /\ (~t.planningOnly => t.continuation # "planning")
  BY Zenon DEF Able, Headed, HasProposal
<1> QED BY <1>1 DEF Able, ActiveStates
=============================================================================
