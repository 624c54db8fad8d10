------------------------------ MODULE JobLease ------------------------------
(***************************************************************************)
(* The durable job queue of the store (src/internal/store/jobs.go and the  *)
(* acknowledgements that settle a leased job): the jobs of one queue and   *)
(* one kind, the ledger of their attempts, and the worker processes that   *)
(* hold leases.  Each action is one database transaction.                  *)
(*                                                                         *)
(*   - a lease token is minted with its attempt number and both are        *)
(*     compared together, so a lease is the pair of a job and an attempt;  *)
(*   - available_at <= now is due, lease_expires_at <= now is expired: time *)
(*     only ever turns them on;                                            *)
(*   - rows another transaction holds locked are skipped by a claim (SKIP   *)
(*     LOCKED): "skipped" is any set of jobs, which also makes the order   *)
(*     by priority and available_at unobservable.                          *)
(***************************************************************************)
EXTENDS Naturals, Sequences, FiniteSets

CONSTANTS
    Jobs,           \* the jobs of this queue and kind
    Workers,        \* worker processes
    Kind,           \* their kind
    MaxAttempts,    \* max_attempts of a new job
    ReclaimLimit,   \* jobClaimReclaimLimit
    ClaimBound,     \* bound of the model on attempt_count
    RevisionBound   \* bound of the model on the state_revision of a Workflow

\* Kinds whose work cannot be abandoned: they are retried after max_attempts.  Collections and mutation
\* reconciliations join them only while their generation or recovery stands, which this module has no state for.
IrreversibleKinds == {"STOP_AGENT_TURN", "SETTLE_CLOSURE", "STOP_STALE_RUNTIME"}
\* Kinds whose worker may hand the lease back unharmed while it waits for something else.
WaitingKinds      == {"SETTLE_CLOSURE", "PREPARE_AGENT_TURN"}
\* Kinds a transaction of another actor may cancel.
CancellableKinds  == {"PREPARE_AGENT_TURN", "REVALIDATE_TERMINAL_INTENT", "VERIFY_TERMINAL_INTENT"}

ASSUME BoundsAssumption == /\ MaxAttempts \in Nat \ {0} /\ ReclaimLimit \in Nat \ {0}
                           /\ ClaimBound \in Nat /\ RevisionBound \in Nat \ {0}

VARIABLES
    status,      \* jobs.status, ABSENT before the row is inserted
    attempts,    \* jobs.attempt_count
    allowed,     \* jobs.max_attempts
    due,         \* available_at has passed
    expired,     \* lease_expires_at has passed
    ledger,      \* job_attempts of the job, by attempt_number
    held,        \* the lease each worker process believes it holds
    revision,    \* state_revision of the Workflow the job belongs to
    safety       \* the revision its safety Human Handoff was enqueued with, 0 when there is none

rows == <<status, attempts, allowed, due, expired, ledger>>
vars == <<status, attempts, allowed, due, expired, ledger, held, revision, safety>>

Irreversible == Kind \in IrreversibleKinds

Lease   == [job : Jobs, attempt : Nat]
NoLease == [job |-> "none", attempt |-> 0]
Attempt == [status : {"LEASED", "SUCCEEDED", "FAILED", "EXPIRED"}, retryable : BOOLEAN]
Settled == {"SUCCEEDED", "FAILED", "CANCELLED"}

-----------------------------------------------------------------------------
\* A mutant of Live: only the state of the row is looked at.
LiveWithoutFence(lease) == lease # NoLease /\ status[lease.job] = "LEASED" /\ ~expired[lease.job]

\* withLockedJobLease: the lease is the current, unexpired one.
Live(lease) ==
    /\ lease # NoLease
    /\ status[lease.job] = "LEASED"
    /\ attempts[lease.job] = lease.attempt
    /\ ~expired[lease.job]

\* A mutant of Exhausted: off by one.
ExhaustedLate(j)  == attempts[j] > allowed[j]

Exhausted(j) == attempts[j] >= allowed[j]

\* enqueueSafetyHandoffTx: one Human Handoff per job, whose payload carries the Workflow revision.  The
\* insert of a second one with another payload is an idempotency conflict and aborts the transaction.
SafetyConflict(j) == safety[j] \notin {0, revision[j]}

\* continueIrreversibleJobAfterExhaustionTx grants one attempt more and tells a person about it.
Continues(j) == Irreversible /\ Exhausted(j)
\* A mutant of Retries: an irreversible job is given up like any other.
RetriesWithinLimit(j) == ~Exhausted(j)

Retries(j)   == Irreversible \/ ~Exhausted(j)

\* The current attempt of a job ends.
Closed(j, outcome, retryable) == [ledger[j] EXCEPT ![attempts[j]] = [status |-> outcome, retryable |-> retryable]]

\* The row of job j goes back to AVAILABLE (after a delay) or ends.
SettleRow(j, outcome, state, retryable) ==
    /\ status' = [status EXCEPT ![j] = state]
    /\ ledger' = [ledger EXCEPT ![j] = Closed(j, outcome, retryable)]
    /\ due' = [due EXCEPT ![j] = @ /\ state # "AVAILABLE"]
    /\ expired' = [expired EXCEPT ![j] = FALSE]
    /\ UNCHANGED attempts

Drop(w) == held' = [held EXCEPT ![w] = NoLease]

-----------------------------------------------------------------------------
\* insertJobTx: the row is AVAILABLE at once.
Enqueue(j) ==
    /\ status[j] = "ABSENT"
    /\ status' = [status EXCEPT ![j] = "AVAILABLE"]
    /\ due' = [due EXCEPT ![j] = TRUE]
    /\ UNCHANGED <<attempts, allowed, expired, ledger, held, revision, safety>>

\* reclaimExpiredJobsTx on the set R.
ReclaimedStatus(R) ==
    [j \in Jobs |-> IF j \notin R THEN status[j] ELSE IF Retries(j) THEN "AVAILABLE" ELSE "FAILED"]
\* A mutant of ReclaimedLedger: the attempt of a reclaimed lease stays open.
ReclaimedLedgerUntouched(R) == ledger

ReclaimedLedger(R)  == [j \in Jobs |-> IF j \in R THEN Closed(j, "EXPIRED", Retries(j)) ELSE ledger[j]]
ReclaimedAllowed(R) == [j \in Jobs |-> IF j \in R /\ Continues(j) THEN attempts[j] + 1 ELSE allowed[j]]
ReclaimedDue(R)     == [j \in Jobs |-> IF j \in R /\ Retries(j) THEN ~Continues(j) ELSE due[j]]
ReclaimedSafety(R)  == [j \in Jobs |-> IF j \in R /\ Continues(j) THEN revision[j] ELSE safety[j]]

Claimable(R, skipped) ==
    {j \in Jobs \ skipped : /\ ReclaimedStatus(R)[j] = "AVAILABLE"
                            /\ ReclaimedDue(R)[j]
                            /\ attempts[j] < ReclaimedAllowed(R)[j]
                            /\ attempts[j] < ClaimBound}

\* leaseJobTx on top of the reclaimed rows.
LeaseJob(w, R, j) ==
    /\ status' = [ReclaimedStatus(R) EXCEPT ![j] = "LEASED"]
    /\ attempts' = [attempts EXCEPT ![j] = @ + 1]
    /\ ledger' = [ReclaimedLedger(R) EXCEPT ![j] = Append(@, [status |-> "LEASED", retryable |-> FALSE])]
    /\ held' = [held EXCEPT ![w] = [job |-> j, attempt |-> attempts[j] + 1]]

\* ClaimJobKind: expired leases first, then one job that is due.  One transaction: a reclaim that
\* fails takes the whole claim with it.
ClaimJobKind(w, skipped) ==
    /\ held[w] = NoLease
    /\ LET stale == {j \in Jobs \ skipped : status[j] = "LEASED" /\ expired[j]}
       IN  \E R \in SUBSET stale :
              /\ R = stale \/ Cardinality(R) = ReclaimLimit
              /\ Cardinality(R) <= ReclaimLimit
              /\ \A j \in R : ~(Continues(j) /\ SafetyConflict(j))
              /\ R # {} \/ Claimable(R, skipped) # {}
              /\ allowed' = ReclaimedAllowed(R)
              /\ due' = ReclaimedDue(R)
              /\ safety' = ReclaimedSafety(R)
              /\ expired' = [j \in Jobs |-> expired[j] /\ j \notin R]
              /\ \/ \E j \in Claimable(R, skipped) : LeaseJob(w, R, j)
                 \/ /\ Claimable(R, skipped) = {}
                    /\ status' = ReclaimedStatus(R)
                    /\ ledger' = ReclaimedLedger(R)
                    /\ UNCHANGED <<attempts, held>>
    /\ UNCHANGED revision

HeartbeatJob(w) ==
    /\ Live(held[w])
    /\ expired' = [expired EXCEPT ![held[w].job] = FALSE]
    /\ UNCHANGED <<status, attempts, allowed, due, ledger, held, revision, safety>>

\* CompleteJob, and the acknowledgement of a fenced kind.
CompleteJob(w) ==
    /\ Live(held[w])
    /\ SettleRow(held[w].job, "SUCCEEDED", "SUCCEEDED", FALSE)
    /\ Drop(w)
    /\ UNCHANGED <<allowed, revision, safety>>

\* FailJob, and failWorkflowActionJobTx as the acknowledgements of abandonable kinds call it.
FailJob(w, retryable) ==
    LET j == held[w].job
    IN  /\ ~Irreversible
        /\ Live(held[w])
        /\ SettleRow(j, "FAILED", IF retryable /\ ~Exhausted(j) THEN "AVAILABLE" ELSE "FAILED", retryable)
        /\ Drop(w)
        /\ UNCHANGED <<allowed, revision, safety>>

\* AcknowledgeClosureActionFailure, AcknowledgeRecoveredRuntimeStopFailure.
AcknowledgeIrreversibleFailure(w) ==
    LET j == held[w].job
    IN  /\ Irreversible
        /\ Live(held[w])
        /\ ~(Exhausted(j) /\ SafetyConflict(j))
        /\ SettleRow(j, "FAILED", "AVAILABLE", TRUE)
        /\ allowed' = IF Exhausted(j) THEN [allowed EXCEPT ![j] = attempts[j] + 1] ELSE allowed
        /\ safety' = IF Exhausted(j) THEN [safety EXCEPT ![j] = revision[j]] ELSE safety
        /\ Drop(w)
        /\ UNCHANGED revision

\* AcknowledgeClosureSettlementWait, DeferReviewAdmission: a healthy wait costs no attempt.
AcknowledgeWait(w) ==
    LET j == held[w].job
    IN  /\ Kind \in WaitingKinds
        /\ Live(held[w])
        /\ IF Kind = "SETTLE_CLOSURE"
           THEN SettleRow(j, "FAILED", "AVAILABLE", TRUE)
           ELSE SettleRow(j, "SUCCEEDED", "AVAILABLE", FALSE)
        /\ allowed' = [allowed EXCEPT ![j] = @ + 1]
        /\ Drop(w)
        /\ UNCHANGED <<revision, safety>>

\* cancelOutstandingTerminalRevalidationTx, cancelPendingAgentTurnPreparationsTx, settleClosedAgentTurnTx.
CancelJob(j) ==
    /\ Kind \in CancellableKinds
    /\ status[j] \in {"AVAILABLE", "LEASED"}
    /\ IF status[j] = "LEASED"
       THEN SettleRow(j, "FAILED", "CANCELLED", FALSE)
       ELSE /\ status' = [status EXCEPT ![j] = "CANCELLED"]
            /\ UNCHANGED <<attempts, due, expired, ledger>>
    /\ UNCHANGED <<allowed, held, revision, safety>>

-----------------------------------------------------------------------------
\* The environment: time passes, worker processes die or find out their lease is lost, Workflows move on.

Fall(j) ==
    /\ status[j] = "AVAILABLE" /\ ~due[j]
    /\ due' = [due EXCEPT ![j] = TRUE]
    /\ UNCHANGED <<status, attempts, allowed, expired, ledger, held, revision, safety>>

Expire(j) ==
    /\ status[j] = "LEASED" /\ ~expired[j]
    /\ expired' = [expired EXCEPT ![j] = TRUE]
    /\ UNCHANGED <<status, attempts, allowed, due, ledger, held, revision, safety>>

\* ErrJobLeaseLost, or the process ends: the row is left as it is.
LoseLease(w) ==
    /\ held[w] # NoLease
    /\ Drop(w)
    /\ UNCHANGED <<rows, revision, safety>>

\* Another event is applied to the Workflow (an issue reopened while it is closing).
AdvanceRevision(j) ==
    /\ status[j] \in {"AVAILABLE", "LEASED"}
    /\ revision[j] < RevisionBound
    /\ revision' = [revision EXCEPT ![j] = @ + 1]
    /\ UNCHANGED <<rows, held, safety>>

Init ==
    /\ status = [j \in Jobs |-> "ABSENT"]
    /\ attempts = [j \in Jobs |-> 0]
    /\ allowed = [j \in Jobs |-> MaxAttempts]
    /\ due = [j \in Jobs |-> FALSE]
    /\ expired = [j \in Jobs |-> FALSE]
    /\ ledger = [j \in Jobs |-> <<>>]
    /\ held = [w \in Workers |-> NoLease]
    /\ revision = [j \in Jobs |-> 1]
    /\ safety = [j \in Jobs |-> 0]

Next ==
    \/ \E j \in Jobs : Enqueue(j) \/ CancelJob(j) \/ Fall(j) \/ Expire(j) \/ AdvanceRevision(j)
    \/ \E w \in Workers :
          \/ \E skipped \in SUBSET Jobs : ClaimJobKind(w, skipped)
          \/ HeartbeatJob(w) \/ CompleteJob(w) \/ AcknowledgeIrreversibleFailure(w)
          \/ AcknowledgeWait(w) \/ LoseLease(w)
          \/ \E retryable \in BOOLEAN : FailJob(w, retryable)

Spec == Init /\ [][Next]_vars

\* Workers poll (a claim that no other transaction gets in the way of is made again and again), a
\* process stops believing in a lease it lost, and time passes.
Fairness ==
    /\ \A w \in Workers : WF_vars(ClaimJobKind(w, {})) /\ WF_vars(LoseLease(w))
    /\ \A j \in Jobs : WF_vars(Fall(j)) /\ WF_vars(Expire(j))

FairSpec == Spec /\ Fairness

-----------------------------------------------------------------------------
\* Properties.

\* The rows of the queue keep their types.
TypeOK ==
    /\ status \in [Jobs -> {"ABSENT", "AVAILABLE", "LEASED"} \cup Settled]
    /\ attempts \in [Jobs -> Nat] /\ allowed \in [Jobs -> Nat]
    /\ due \in [Jobs -> BOOLEAN] /\ expired \in [Jobs -> BOOLEAN]
    /\ ledger \in [Jobs -> Seq(Attempt)]
    /\ held \in [Workers -> Lease \cup {NoLease}]
    /\ revision \in [Jobs -> Nat \ {0}] /\ safety \in [Jobs -> Nat]

\* The ledger has one entry per claim, and an attempt is open exactly while its lease is the row's
\* lease: however an attempt ends (completion, failure, reclaim, cancellation), both are settled.
LedgerMatchesRow ==
    \A j \in Jobs :
        /\ Len(ledger[j]) = attempts[j]
        /\ \A n \in 1..Len(ledger[j]) :
              ledger[j][n].status = "LEASED" <=> status[j] = "LEASED" /\ n = attempts[j]

\* Two workers never both pass the fence of one job, however late the loser of an expired lease
\* reports its result (the lease token and attempt compared in withLockedJobLease).
OneLiveHolder ==
    \A v, w \in Workers : v # w /\ Live(held[v]) /\ Live(held[w]) => held[v].job # held[w].job

\* A row is never put back on the queue in a state in which no claim can select it again
\* (attempt_count < max_attempts in every claim query).
NeverStranded == \A j \in Jobs : status[j] = "AVAILABLE" => attempts[j] < allowed[j]

\* Stopping a runtime and settling a closure are retried until they succeed, whichever way the
\* attempts end (continueIrreversibleJobAfterExhaustionTx).
WorkNotAbandoned == Irreversible => \A j \in Jobs : status[j] \notin {"FAILED", "CANCELLED"}

\* A job on the queue is in the reach of a claim, also after its limit was raised, and cleanup stays there until it is
\* done (reclaimExpiredJobsTx, continueIrreversibleJobAfterExhaustionTx).
WorkStaysOnOffer == NeverStranded /\ WorkNotAbandoned

\* Every job of a kind with a finite number of attempts reaches a settled state.
EveryJobSettles == \A j \in Jobs : status[j] = "AVAILABLE" ~> status[j] \in Settled

\* "AcknowledgeClosureActionFailure records one closure worker failure and preserves cleanup authority
\* after escalation" (workflow_acknowledgements.go:876): after the safety Human Handoff the job of an
\* expired lease is still offered again.
CleanupAuthorityPreserved ==
    \A j \in Jobs : status[j] = "LEASED" /\ expired[j] /\ safety[j] # 0 ~> status[j] # "LEASED"
=============================================================================
