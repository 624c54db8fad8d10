------------------------------- MODULE MCLive -------------------------------
(***************************************************************************)
(* What must come to an end, checked side by side: the events of an issue  *)
(* and its retention (which this module extends), a turn and its recovery, *)
(* the jobs of a queue, the gate of a review, the verification of a        *)
(* verdict, and a prompt.                                                  *)
(*                                                                         *)
(* As in the other modules of this kind a behaviour has one focus; the     *)
(* fairness of each part is that of its workers, stated with its module.   *)
(***************************************************************************)
EXTENDS Retention

CONSTANTS Jobs, JobWorkers, Ops, IntentWorkers

VARIABLES focus,
          jobStatus, jobAttempts, allowed, due, expired, jobLedger, held, revision, safety,
          turnStatus, admitted, lease, turnRecovery, stopJob, mutationJob, turnTries, worker, grant, dirty, box,
          captured, ledger, ledgerOwner, why, artifact, effect, pc, op, issue, barrier, stopped,
          pr, runs, clock, faults, request, proposal, gate, review,
          remote, flow, intent, recovery, verifier, owner, upsets,
          pi, writes, conn, piTurn, prompt, calls, struck

queue        == <<jobStatus, jobAttempts, allowed, due, expired, jobLedger, held, revision, safety>>
turns        == <<turnStatus, admitted, lease, turnRecovery, stopJob, mutationJob, turnTries, worker, grant, dirty, box,
                  captured, ledger, ledgerOwner, why, artifact, effect, pc, op, issue, barrier, stopped>>
admission    == <<pr, runs, clock, faults, request, proposal, gate, review>>
verification == <<remote, flow, intent, recovery, verifier, owner, upsets>>
connection   == <<pi, writes, conn, piTurn, prompt, calls, struck>>

\* Two jobs that may be given up, and that another transaction may cancel.
Queue == INSTANCE JobLease WITH
  Workers <- JobWorkers, Kind <- "VERIFY_TERMINAL_INTENT", MaxAttempts <- 2, ReclaimLimit <- 2, ClaimBound <- 2,
  RevisionBound <- 1, status <- jobStatus, attempts <- jobAttempts, ledger <- jobLedger

\* One turn and a clarification, on an issue that may be closed.
Turn == INSTANCE AgentTurn WITH
  MaxTurn <- 1, Frozen <- Ops, MaxAttempts <- 1, MayClose <- TRUE,
  status <- turnStatus, admission <- admitted, recovery <- turnRecovery, tries <- turnTries, runtime <- box,
  owner <- ledgerOwner

\* One head of a Pull Request, and reads of it that fail.
Admission == INSTANCE ReviewAdmission WITH
  MaxHead <- 1, MaxBase <- 1, MaxRun <- 1, MaxFaults <- 1, MaxRetry <- 0, Horizon <- 2,
  Kinds <- {"check"}, DefaultTimeout <- 2, turn <- review,
  Files <- {[start |-> "after_ci", selection |-> "github_required", checks |-> {}, timeout |-> 2, grace |-> 1],
            [start |-> "after_ci", selection |-> "explicit", timeout |-> 1, grace |-> 0,
             checks |-> {[context |-> "build", app |-> 0, type |-> "check"]}]},
  Protections <- {[checks |-> required, workflows |-> FALSE] :
                    required \in {{}, {[context |-> "build", app |-> 0]}}}

Intent == INSTANCE TerminalIntent WITH
  Verifiers <- IntentWorkers, Verdicts <- {"approved", "changes"}, Window <- 1,
  MaxPush <- 2, MaxTrigger <- 2, MaxUpset <- 1

Connection == INSTANCE PiConnection WITH MaxPrompt <- 1, MaxCancel <- 0, QueueCapacity <- 2

-----------------------------------------------------------------------------
LiveInit ==
  /\ focus \in {"issue", "queue", "turn", "admission", "intent", "connection"}
  /\ Init /\ Queue!Init /\ Turn!Init /\ Admission!AdmissionInit /\ Intent!IntentInit /\ Connection!ConnectionInit
  /\ pr.merge = "pending"
  /\ focus # "issue" => stage = CHOOSE s \in Stages : TRUE

\* The parts that are not in focus rest.
Rest(part) ==
  /\ UNCHANGED focus
  /\ IF part = "issue" THEN TRUE ELSE UNCHANGED vars
  /\ IF part = "queue" THEN TRUE ELSE UNCHANGED queue
  /\ IF part = "turn" THEN TRUE ELSE UNCHANGED turns
  /\ IF part = "admission" THEN TRUE ELSE UNCHANGED admission
  /\ IF part = "intent" THEN TRUE ELSE UNCHANGED verification
  /\ IF part = "connection" THEN TRUE ELSE UNCHANGED connection

LiveNext ==
  \/ focus = "issue" /\ Next /\ Rest("issue")
  \/ focus = "queue" /\ Queue!Next /\ Rest("queue")
  \/ focus = "turn" /\ Turn!Next /\ Rest("turn")
  \/ focus = "admission" /\ Admission!AdmissionNext /\ Rest("admission")
  \/ focus = "intent" /\ Intent!IntentNext /\ Rest("intent")
  \/ focus = "connection" /\ Connection!ConnectionNext /\ Rest("connection")

\* Processors and workers poll, time passes, and a process that died is started again.
IssueFairness ==
  /\ \A p \in Processors : /\ WF_vars(focus = "issue" /\ Process(p))
                           /\ WF_vars(focus = "issue" /\ ~Fenced(p) /\ Drop(p) /\ UNCHANGED Outside)
  /\ \A d \in Deliveries : WF_vars(focus = "issue" /\ ExpireClaim(d) /\ UNCHANGED Outside)
  /\ \A t \in Tokens : /\ WF_vars(focus = "issue" /\ ExpireLease(t))
                       /\ WF_vars(focus = "issue" /\ ReclaimCollection(t))
  /\ \A c \in Collectors : /\ WF_vars(focus = "issue" /\ Worker(c))
                           /\ WF_vars(focus = "issue" /\ ~Held(c) /\ Abandon(c))
  /\ WF_vars(focus = "issue" /\ CompleteClosure)

\* Workers poll, a process stops believing in a lease it lost, and time passes.
QueueFairness ==
  /\ \A w \in JobWorkers : /\ WF_queue(focus = "queue" /\ Queue!ClaimJobKind(w, {}))
                           /\ WF_queue(focus = "queue" /\ Queue!LoseLease(w))
  /\ \A j \in Jobs : WF_queue(focus = "queue" /\ Queue!Fall(j)) /\ WF_queue(focus = "queue" /\ Queue!Expire(j))

\* Workers poll, an admitted call ends, a lease nobody renews expires, a worker learns that its fence is lost.
TurnFairness ==
  /\ \A t \in Turn!Turns :
       /\ WF_turns(focus = "turn" /\ Turn!WorkerStep(t)) /\ WF_turns(focus = "turn" /\ Turn!RecoveryStep(t))
       /\ WF_turns(focus = "turn" /\ Turn!CallStep(t)) /\ WF_turns(focus = "turn" /\ Turn!ClosureStep(t))
       /\ WF_turns(focus = "turn" /\ worker[t] = "gone" /\ Turn!Expire(t))
       /\ WF_turns(focus = "turn" /\ ~Turn!Fenced(t) /\ Turn!Abandon(t))
  /\ WF_turns(focus = "turn" /\ Turn!CompleteClosure)

\* The gate is claimed again and again, the verification too, and time passes.
ReviewFairness ==
  /\ WF_admission(focus = "admission" /\ Admission!Gate) /\ WF_admission(focus = "admission" /\ Admission!ClockTicks)
  /\ \A w \in IntentWorkers : WF_verification(focus = "intent" /\ Intent!VerifierStep(w))
  /\ WF_verification(focus = "intent" /\ Intent!ExpireRecoveryLease) /\ WF_verification(focus = "intent" /\ Intent!Tick)
  /\ WF_verification(focus = "intent" /\ Intent!CompleteClosure)

\* Goroutines are scheduled, and deadlines come; Pi, the stream and the sink owe nothing.
ConnectionFairness ==
  /\ WF_connection(focus = "connection" /\ Connection!Deadline)
  /\ WF_connection(focus = "connection" /\ Connection!PromptStep)
  /\ WF_connection(focus = "connection" /\ Connection!CancelStep("own"))

LiveSpec ==
  /\ LiveInit /\ [][LiveNext]_<<vars, queue, turns, admission, verification, connection, focus>>
  /\ IssueFairness /\ QueueFairness /\ TurnFairness /\ ReviewFairness /\ ConnectionFairness

-----------------------------------------------------------------------------
(* The properties of the parts, stated in their modules.                   *)

\* Every job that may be given up reaches a settled state.
EveryJobSettles == Queue!EveryJobSettles

\* A turn that was claimed ends, by its own settlement or by a recovery.
TurnsEnd == Turn!TurnsEnd

\* A recovery settles, unless the issue is closed meanwhile.
RecoverySettles == Turn!RecoverySettles

\* A review that waits for CI starts, or its preparation is lost to a person.
ReviewIsNotHeldForever == focus = "admission" => Admission!ReviewIsNotHeldForever

\* An intent is not verified for ever, even if GitHub never answers again.
IntentResolves == Intent!IntentResolves

\* A prompt ends, whatever Pi, the stream and the sink do.
PromptEnds == Connection!PromptEnds
=============================================================================
