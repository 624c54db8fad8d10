---------------------------- MODULE ReviewAdmission ----------------------------
(***************************************************************************)
(* The gate that holds the preparation of a Reviewer until continuous       *)
(* integration has completed or a deadline has passed                      *)
(* (src/internal/store/review_admission.go,                                *)
(* src/internal/agentturn/review_admission.go, preparer.go), beside a Pull  *)
(* Request that is pushed to, rebased and checked while the gate looks.     *)
(*                                                                         *)
(* One preparation job and the worker that holds its lease: every           *)
(* transaction is fenced by the lease, so that a worker which lost it can   *)
(* only stop.  The admission is checked twice, before and after the head    *)
(* is verified.  The label that shows the wait is left out.                 *)
(***************************************************************************)
EXTENDS CIEvidence

CONSTANTS
    MaxHead,       \* bound of the model on the pushes
    MaxBase,       \* bound of the model on the moves of the base branch
    MaxRun,        \* bound of the model on the checks and statuses reported
    MaxFaults,     \* bound of the model on the reads of GitHub that fail
    MaxRetry,      \* bound of the model on the turns that fail and are retried
    Horizon,       \* bound of the model on the clock, past every deadline
    Files,         \* the review policies the repository may have
    Protections,   \* the required contexts it may have
    Kinds,         \* the kinds of result reported: checks, statuses
    DefaultTimeout

\* GitHub reports a result as a check run or as a commit status.
ASSUME AdmissionAssumption == Kinds \subseteq {"check", "status"}

VARIABLES
    pr,            \* the Pull Request: head, base and mergeability
    runs,          \* the checks and statuses reported
    clock,
    faults,        \* reads that failed
    request,       \* the row of review_admission_requests
    proposal,      \* change_proposals.head_sha, and ExpectedHeadSHA of the job's payload: they move together
    gate,          \* what the worker does, and the observation it carries
    turn           \* the Reviewer's turn, and what it was started on

github  == <<pr, runs>>
durable == <<request, proposal, turn>>

NoRequest  == [status |-> "NONE"]
CancelledRequest  == [status |-> "CANCELLED"]
NoEvidence == [reason |-> "none"]
NoPolicy   == [start |-> "none"]
NoInventory == [required |-> {}, unresolved |-> FALSE, available |-> FALSE]
NoTurn     == [status |-> "none", head |-> 0, evidence |-> NoEvidence, retries |-> 0]
\* The worker: the pass of the gate, its copy of the request, the head verified between the passes and what it read.
GateAt(step)   == [at |-> step, pass |-> 0, copy |-> NoRequest, verified |-> 0, read |-> NoEvidence]

AdmissionInit ==
    /\ pr \in [head : {1}, base : {1}, merge : {"pending", "merged"}]
    /\ runs = {}
    /\ clock = 0 /\ faults = 0
    /\ request = NoRequest /\ proposal = 1
    /\ gate = GateAt("idle") /\ turn = NoTurn

-----------------------------------------------------------------------------
(* GitHub, and time.                                                       *)

\* Nobody looks at GitHub while the review runs: what happens then may as well happen before it is retried.
\* Nor does what it shows matter once the admission is cancelled.
Watched == turn.status = "none" /\ gate.at # "lost" /\ request # CancelledRequest

PushHead ==
    /\ Watched /\ pr.head < MaxHead
    /\ pr' = [pr EXCEPT !.head = @ + 1, !.merge = "pending"]
    /\ UNCHANGED <<runs, clock, faults, durable, gate>>

\* The base branch moves, or GitHub finishes the test merge.
Remerge ==
    /\ Watched
    /\ \/ pr.base < MaxBase /\ pr' = [pr EXCEPT !.base = @ + 1, !.merge = "pending"]
       \/ pr.merge = "pending" /\ \E m \in {"none", "merged"} : pr' = [pr EXCEPT !.merge = m]
    /\ UNCHANGED <<runs, clock, faults, durable, gate>>

\* A check or a status is reported on the head or on the test merge, a rerun included; or it completes.
ReportResult ==
    /\ Watched
    /\ \/ /\ Cardinality(runs) < MaxRun
          /\ \E commit \in {<<pr.head, 0>>, <<pr.head, pr.base>>}, kind \in Kinds :
                runs' = runs \cup {[id |-> Cardinality(runs) + 1, commit |-> commit, kind |-> kind,
                                    context |-> "build", app |-> 1, done |-> FALSE]}
       \/ \E r \in runs : ~r.done /\ runs' = (runs \ {r}) \cup {[r EXCEPT !.done = TRUE]}
    /\ UNCHANGED <<pr, clock, faults, durable, gate>>

\* Time counts from the first request.
ClockTicks ==
    /\ Watched /\ request # NoRequest /\ clock < Horizon /\ clock' = clock + 1
    /\ UNCHANGED <<github, faults, durable, gate>>

-----------------------------------------------------------------------------
(* The store.                                                              *)

NewRequest ==
    [status |-> "WAITING", generation |-> 0, head |-> proposal, base |-> 0, merge |-> NoCommit,
     policy |-> NoPolicy, inventory |-> NoInventory, observed |-> FALSE,
     deadline |-> clock + DefaultTimeout, created |-> clock, anchor |-> clock, evidence |-> NoEvidence]

\* A fence is lost for good: the job fails and a person is asked.
Lost == gate' = GateAt("lost") /\ UNCHANGED <<request, proposal>>

\* ClaimJobKind and BeginReviewAdmission: the wait is anchored once, and kept over the retries of the turn.
BeginReviewAdmission ==
    /\ gate.at = "idle" /\ turn.status = "none"
    /\ IF request.status = "CANCELLED" THEN Lost
       ELSE /\ request' = CASE request = NoRequest            -> NewRequest
                            [] request.status = "ADMITTED"    -> [request EXCEPT !.status = "WAITING", !.evidence = NoEvidence]
                            [] OTHER                          -> request
            /\ gate' = [GateAt("read") EXCEPT !.pass = 1, !.copy = request']
            /\ UNCHANGED proposal
    /\ UNCHANGED <<github, clock, faults, turn>>

\* A mutant of Retargeted: each target has a deadline of its own.
RetargetedAnew(r, o) ==
    IF <<r.head, r.base, r.merge>> = <<o.head, o.base, o.merge>> THEN r
    ELSE [r EXCEPT !.generation = @ + 1, !.head = o.head, !.base = o.base, !.merge = o.merge,
                   !.deadline = clock + (@ - r.created)]
\* A replaced target restarts the grace, unless nothing of it was observed yet, and never the deadline.
Retargeted(r, o) ==
    IF <<r.head, r.base, r.merge>> = <<o.head, o.base, o.merge>> THEN r
    ELSE [r EXCEPT !.generation = @ + 1, !.head = o.head, !.base = o.base, !.merge = o.merge,
                   !.anchor = IF r.head # o.head \/ r.observed THEN (IF clock < r.deadline THEN clock ELSE r.deadline) ELSE @]

\* The policy and the required contexts are frozen with the first observation that has them.
Frozen(r, o) ==
    [r EXCEPT !.policy   = IF @ = NoPolicy THEN o.policy ELSE @,
              !.deadline = IF r.policy = NoPolicy /\ o.policy # NoPolicy THEN r.created + o.policy.timeout ELSE @,
              !.inventory = IF @.available THEN @ ELSE o.inventory]

\* DeferReviewAdmission: a healthy wait, not charged to the attempts of the job, which is claimed again.
Defer == gate' = GateAt("idle")

\* What is refused waits; with a person in control the fence is lost.
Refused ==
    \/ Defer /\ UNCHANGED <<request, proposal>>
    \/ request.status = "CANCELLED" /\ Lost

\* The callback of an earlier target is refused.
Recordable == request.status \in {"WAITING", "RELEASED"} /\ request.generation = gate.copy.generation

\* RecordReviewAdmission: the head of the observation becomes that of the job and of the proposal.
Record ==
    LET o == gate.read
        r == [Frozen(Retargeted(request, o), o) EXCEPT
                 !.status   = IF o.reason = "waiting" THEN "WAITING" ELSE "RELEASED",
                 !.observed = TRUE,
                 !.evidence = IF o.reason = "waiting" THEN NoEvidence ELSE o.evidence]
    IN  /\ gate.at = "record"
        /\ IF Recordable
           THEN /\ request' = r /\ proposal' = o.head
                /\ IF r.status = "WAITING" THEN Defer
                   ELSE gate' = [gate EXCEPT !.at = IF gate.pass = 1 THEN "verify" ELSE "prepare",
                                             !.copy = r, !.read = NoEvidence]
           ELSE Refused
        /\ UNCHANGED <<github, clock, faults, turn>>

-----------------------------------------------------------------------------
(* ReviewGate.Check: the Pull Request is read, then its target and results. *)

\* g.unavailable: what could not be read releases nothing before the deadline.
Unavailable(r) ==
    LET reason == IF clock >= r.deadline THEN "timeout_incomplete" ELSE "waiting"
    IN  [head |-> r.head, base |-> r.base, merge |-> r.merge, policy |-> NoPolicy, inventory |-> NoInventory,
         reason |-> reason,
         evidence |-> [reason |-> reason, head |-> r.head, complete |-> TRUE]]

ReadPullRequest ==
    /\ gate.at = "read"
    /\ \/ /\ \E file \in IF gate.copy.policy = NoPolicy THEN Files ELSE {gate.copy.policy} :
                gate' = [gate EXCEPT !.at = "observe", !.read = [head |-> pr.head, base |-> pr.base, policy |-> file]]
          /\ UNCHANGED faults
       \/ /\ faults < MaxFaults /\ faults' = faults + 1
          /\ gate' = [gate EXCEPT !.at = "record", !.read = Unavailable(gate.copy)]
    /\ UNCHANGED <<github, clock, durable>>

\* A result of the kind the requirement asks for that is the newest of its kind and not done.
Unfinished(head, q) ==
    \E r \in runs :
        /\ r.commit = <<head, 0>> /\ r.context = q.context /\ q.type \in {"any", r.kind} /\ ~r.done
        /\ \A s \in runs : s.commit = r.commit /\ s.kind = r.kind => s.id <= r.id

\* What Check hands to the store; "complete" is the truth GitHub held at that moment.
Observation(mapping, inventory, observations) ==
    LET r        == gate.copy
        head     == gate.read.head
        policy   == gate.read.policy
        deadline == IF r.policy = NoPolicy THEN r.created + policy.timeout ELSE r.deadline
        base     == IF policy.start = "immediate" THEN gate.read.base ELSE mapping.base
        merge    == IF policy.start = "immediate" THEN NoCommit ELSE mapping.merge
        moved    == <<r.head, r.base, r.merge>> # <<head, base, merge>>
        anchor   == IF moved /\ (r.head # head \/ r.observed)
                    THEN (IF clock > deadline THEN deadline ELSE clock) ELSE r.anchor
        reason   == EvaluateReviewCI(policy, inventory, mapping, observations,
                                     clock >= anchor + policy.grace, clock >= deadline)
        complete == \A q \in (IF inventory.required = {} THEN {Requirement("build", 0, "any")} ELSE inventory.required) :
                       ~Unfinished(head, q)
    IN  [head |-> head, base |-> base, merge |-> merge, policy |-> policy,
         inventory |-> inventory, reason |-> reason,
         evidence |-> [reason |-> reason, head |-> head, complete |-> reason = "completed_ci" => complete]]

\* The head and its verified test merge are observed, unless the policy starts at once.
Observations(policy, commits, failures) ==
    IF policy.start = "immediate" THEN {} ELSE {ObserveCI(runs, c, failures) : c \in commits}

\* ReviewGate.observe, with what GitHub lets it read.
Look(mapped, listed, failures, protection) ==
    LET mapping   == VerifyCITarget(pr, gate.read.head, mapped)
        inventory == IF gate.copy.inventory.available THEN gate.copy.inventory
                     ELSE Inventory(gate.read.policy, protection, listed)
        commits   == {<<gate.read.head, 0>>} \cup (IF mapping.state = "verified" THEN {mapping.merge} ELSE {})
    IN  Observation(mapping, inventory, Observations(gate.read.policy, commits, failures))

ObserveTarget ==
    /\ gate.at = "observe"
    /\ \E mapped, listed \in BOOLEAN, failures \in {{}, {"checks"}, {"repository"}}, protection \in Protections :
          /\ IF mapped /\ listed /\ failures = {} THEN UNCHANGED faults
             ELSE faults < MaxFaults /\ faults' = faults + 1
          /\ gate' = [gate EXCEPT !.at = "record", !.read = Look(mapped, listed, failures, protection)]
    /\ UNCHANGED <<github, clock, durable>>

-----------------------------------------------------------------------------
(* The preparation around the gate.                                        *)

\* The lease is lost, the process dies, or a read fails outside of the gate; the job is claimed again.
GiveBack ==
    /\ gate.at \notin {"idle", "lost"} /\ faults < MaxFaults
    /\ faults' = faults + 1 /\ gate' = GateAt("idle")
    /\ UNCHANGED <<github, clock, durable>>

\* verifyChangeProposal
Verify ==
    /\ gate.at = "verify"
    /\ gate' = [gate EXCEPT !.at = "read", !.pass = 2, !.verified = pr.head]
    /\ UNCHANGED <<github, clock, faults, durable>>

\* A mutant of Consumable: what was released for one head admits another.
ConsumableForAnyHead(head) == request.status = "RELEASED"
\* consumeReviewAdmissionTx
Consumable(head) ==
    /\ request.status = "RELEASED" /\ request.generation = gate.copy.generation
    /\ request.head = head /\ request.evidence # NoEvidence

\* PrepareAgentTurn with lockPreparationWorkflowVerified.
Prepare ==
    /\ gate.at = "prepare"
    /\ IF Consumable(gate.verified)
       THEN /\ turn' = [turn EXCEPT !.status = "active", !.head = gate.verified, !.evidence = request.evidence]
            /\ request' = [request EXCEPT !.status = "ADMITTED"]
            /\ proposal' = gate.verified /\ gate' = GateAt("idle")
       ELSE Refused /\ UNCHANGED turn
    /\ UNCHANGED <<github, clock, faults>>

\* The turn fails and is prepared again: the retry keeps the request, and the deadline with it.
RetryTurn ==
    /\ turn.status = "active" /\ turn.retries < MaxRetry /\ gate.at = "idle"
    /\ turn' = [NoTurn EXCEPT !.retries = turn.retries + 1]
    /\ UNCHANGED <<github, clock, faults, request, proposal, gate>>

\* The webhook of a push: the proposal, the payload of the job that waits and the admission follow.
SynchronizeProposal ==
    /\ Watched /\ proposal # pr.head
    /\ proposal' = pr.head
    /\ request' = IF request.status \in {"WAITING", "RELEASED"}
                  THEN [request EXCEPT !.status = "WAITING", !.generation = @ + 1, !.head = pr.head, !.base = 0,
                                       !.merge = NoCommit, !.observed = FALSE, !.evidence = NoEvidence,
                                       !.anchor = IF clock < request.deadline THEN clock ELSE request.deadline]
                  ELSE request
    /\ UNCHANGED <<github, clock, faults, gate, turn>>

\* A person takes control of a session, for however long: TransferAgentSessionControl cancels what was admitted.
HumanControl ==
    /\ turn.status = "none" /\ request.status \in {"WAITING", "RELEASED"}
    /\ request' = CancelledRequest
    /\ UNCHANGED <<github, clock, faults, proposal, gate, turn>>

-----------------------------------------------------------------------------
Gate == BeginReviewAdmission \/ ReadPullRequest \/ ObserveTarget \/ Record \/ Verify \/ Prepare

AdmissionNext ==
    \/ PushHead \/ Remerge \/ ReportResult \/ ClockTicks
    \/ Gate \/ GiveBack \/ RetryTurn \/ SynchronizeProposal \/ HumanControl

-----------------------------------------------------------------------------
(* Properties.                                                             *)

\* A Reviewer starts on evidence of the very head it reviews, whatever was pushed, rerun or cancelled while the gate
\* looked; if it was released as completed, no required result of that head was unfinished when it was observed
\* (consumeReviewAdmissionTx, RecordReviewAdmission, evaluateReviewCI).
ReviewStartsOnItsEvidence ==
    turn.status = "active" => turn.evidence.head = turn.head /\ turn.evidence.complete

\* The gate holds no review forever: it starts, or its preparation is lost to a person
\* (evaluateReviewCI, DeferReviewAdmission).
ReviewIsNotHeldForever == turn.status = "none" ~> turn.status = "active" \/ gate.at = "lost"
=============================================================================
