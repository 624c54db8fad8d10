# A TLA+ specification of Omnigrex

Omnigrex turns a GitHub issue into a Pull Request by running agents (Planner, Developer, Reviewer) one turn at a time.
Everything it knows about a Work Item is in PostgreSQL: webhooks are recorded and reduced to decisions, decisions are persisted with the jobs they ask for, and workers lease those jobs.
Everything it does is outside: containers, git, GitHub, an agent process, a provider.
Two kinds of things can go wrong. Transactions interleave: a webhook against a worker that read GitHub a moment ago, a lease that ran out against a result that arrives late. And the outside does not take part in a transaction: a push that lands after its sender died, a container that is created after it was looked for, a prompt that outlives the process that sent it.
These modules model both.

Paths are relative to the repository's `src/`; `store/` stands for `internal/store/`.

## Inventory

`PROJECT.json` lists every component with its files, its modules and what is left out of it, and under `hazards` what each is exposed to.

| Component | State | Operations | Hard behaviour | What makes it correct |
|---|---|---|---|---|
| Workflow Reducer (`internal/workflow`) | none: a pure function | `Reduce`, one function per event kind, `validSnapshot` | combinations of state, Attempt, turn, Change Proposal, closure | never an invalid Snapshot; budgets and readiness belong to one Attempt and one commit |
| Durable job queue (`store/jobs.go`, `job_writes.go`, `safety_handoffs.go`) | `jobs`, `job_attempts` | insert, claim with reclaim, heartbeat, complete, fail, acknowledge, cancel | workers die, leases expire, results arrive late, attempts run out | one holder; row and ledger agree; what must not be abandoned is not; everything else settles |
| Workflow transactions (`store/workflow.go`, `preparation.go`, `settlement.go`, `workflow_acknowledgements.go`, `workflow_action_failures.go`) | `workflows`, `workflow_attempts`, `change_proposals`, `normalized_events`, `workflow_action_failures`, `workflow_closure_barriers` | apply a webhook, prepare, settle, replay, escalate, close | observations older than their transaction; pushes out of order; several sources of the next turn | one authority and never none; no deferred event lost; readiness only for an approved commit |
| Webhook inbox (`store/webhook.go`, `github/webhook/processor.go`) | `webhook_deliveries`, `normalized_events` | insert, claim in order, renew, complete, fail | claims expire during processing; a reopening waits for a collection | nothing overtakes a reopening; every event settles |
| Agent Turns and mutation ledger (`store/turns.go`, `mutation_recovery.go`, `agentturn/`, `mcp/gateway.go`) | `agent_turns`, slots, `tool_invocations`, the grant of a gateway | claim, launch, admit, reserve, start, record, drain, settle, recover, reconcile | crashes and late effects at every step, two processes at once | an operation takes effect at most once, and the ledger tells the truth about it |
| Publication (`mcp/backend.go`, `workspace/publish.go`, `reconcile.go`, `agentturn/publication_recovery.go`, `outcome_reconciler.go`) | rows of publications, the head a turn goes on from, the branch on GitHub | publish, open and request review, reconcile, prove, corroborate, bind | pushes that land late; people on the same branch | no push takes a commit off; a turn goes on from all that was published |
| Execution (`store/execution_reservations.go`, `runtime/docker/execution.go`) | `execution_reservations`, containers | reserve, begin phases, create, revoke, resolve, remove, confirm | the daemon creates after its client gave up | recorded absence is final |
| Workspaces (`workspace/`) | the active directory, staging, captures | stage, swap, load, capture, remove | a launcher without its lease goes on | no work and no evidence lost |
| Session state (`runtime/dirstate/`, `store/retained_state.go`) | the directory of a Participant, its metadata row | first launch, restore, collect | a restore or launch that outlives its lock | a lost session is not replaced by an empty one, nor a running one by an archive |
| Session control (`runtime/session/`, `store/runtime_sessions.go`) | owner, control revision, runtime binding, a person's prompt lease | transfer, bind, prompt, release, export | prompts outlive leases and processes | one writer |
| Retention (`store/retention.go`, `internal/retention/`) | generations, participants, collections | authorize, remove, finalize | the issue is reopened meanwhile | what was deleted was authorized, and is not used again |
| Collaboration and planning (`internal/collaboration`, `store/collaboration.go`, `planning.go`) | one JSON document | admit, deliver, assess, resolve, ask, publish, complete | input at any time during a turn; publications confirmed late | nothing said is passed over; only a confirmed plan is executed |
| Review admission and CI (`store/review_admission.go`, `agentturn/review_admission.go`, `github/ci*.go`) | the admission row, its generations | begin, record, defer, consume | deadlines against pushes and observations | a review starts on complete evidence of its own head, or at its deadline |
| Terminal corroboration (`store/terminal_*.go`) | checkpoint, verification jobs | begin, read, settle, hand off, revalidate, redirect | verifiers that lost their lease with what they read | a review counts once and for its own head |
| Visible effects (`github/visible_effect_workers.go`, `store/workflow_github_effects.go`) | label and comment jobs | claim, read, write, verify, acknowledge, clean up | the state moves between any two calls | at rest, labels and hand-offs tell the state |
| Label provisioning (`github/provisioning.go`, `label_provisioning_worker.go`, `store/label_provisioning.go`) | a delivery in batches, a job per repository | list, queue, resolve, create | pages shift, claims lapse, names move | every repository is provisioned, or its job says why not |
| Pi connection (`runtime/pi/`) | records on two streams, the active prompt | prepare, prompt, cancel, emit | streams end, sinks block, aborts cross prompts | an ending is evidence; a read outcome is reported |
| Registry cache (`runtime/microsandbox/image_cache.go`) | documents, locks, cooldowns on disk | look, lock, recheck, fetch, publish, record | processes wait for each other's failures | a registry that asks to be left alone is |
| Provider authentication (`internal/providerauth`) | one credential file and an intent | renew, log in and out, block | a rotating token cannot be one transaction with the file | the newest credential of a login that has not ended |

Not modelled: the GitHub client and its token cache, container drivers below the execution ledger, policies, profiles and prompts, server, configuration, telemetry, doctor, website and images. They are input and output, parsing and wiring.

### How the components interact

    GitHub --webhook--> Inbox --processor--> Reducer --decision--> workflows + jobs
       ^                                        ^                        |
       |                                        |                   claim / lease
       |                                   settlement, replay,           v
       +-- labels, comments, pushes, ---- failure, closure <---- workers: preparation, turns,
           reviews                                               recovery, verification, effects
                                                                        |
                                    gateway <-- agent (Pi) <-- container, workspace, session

All shared state is in the database, and every module takes a slice of it.
An event is reduced in the transaction that persists its decision, so the Reducer is sequential for one Workflow; what is concurrent is everything read before that transaction began and everything sent after another one ended.

## Modules

| Module | Models | Depends on |
|---|---|---|
| `WorkflowReducer`, `WorkflowReducerProofs` | Snapshots, their validity, one operator per event kind; theorems | – |
| `Workflow`, `WorkflowProofs` | one Work Item: Snapshot, jobs, deferred events, the Pull Request, webhooks on their way; theorems | `WorkflowReducer`; the proofs use `WorkflowReducerProofs` |
| `JobLease`, `JobLeaseProofs` | one queue and kind: rows, attempts, leases, worker processes; theorems about it and about `LabelProvisioning` | the proofs extend both |
| `MutationPromise` | abstract: what a mutation ledger promises | – |
| `AgentTurn`, `AgentTurnProofs` | the turns of one session, their worker, gateway, ledger, recovery and closure; theorems about it and about `Execution`, `Workspaces` and `SessionState` | `MutationPromise`; the proofs extend all four |
| `Publication`, `PublicationProofs` | the commits and Change Proposal a Developer publishes; theorems | – |
| `Execution` | the containers of one execution epoch | – |
| `Workspaces` | the workspace of an Assignment and the captures of its turns | – |
| `SessionState` | the directory of a session | – |
| `SessionControl`, `SessionControlProofs` | who may write to a session; theorems about it and about the three clients below | the proofs extend all four |
| `Inbox` | deliveries, claims and pending events of one issue | – |
| `Retention`, `RetentionProofs` | participants and collections, reduced events of the inbox included; theorems about both, about `GitHubEffects` and about `Collaboration` | extends `Inbox`; the proofs extend the other two as well |
| `Collaboration` | human input, rounds, plan checkpoints | – |
| `CIEvidence`, `ReviewAdmission` | pure evaluation of CI; the gate before a Reviewer | `CIEvidence` |
| `TerminalIntent`, `TerminalIntentProofs` | a review GitHub has not confirmed yet; theorems about it and about `ReviewAdmission` | the proofs extend both |
| `GitHubEffects`, `LabelProvisioning` | labels and hand-off comments; labels of a new repository | – |
| `PiConnection`, `ProviderAuth`, `ImageCache` | the clients the workers share | – |
| `MCJobs`, `MCWork`, `MCTurns`, `MCLive`, `MCWorkflow` | instances for TLC | the above |

The header of each module says which files it translates and what it abstracts; `map` in `PROJECT.json` gives the lines of every definition.
Conventions they share: an action is one transaction, one external call or one step of a process; a step of another system (GitHub, a daemon, a person) is an action of its own; a crash leaves what is durable and loses what is not; time is a counter or a flag that falls. A lease is lost at any moment, and the process that lost it goes on until the code makes it notice.

### Workflow and its Reducer

`Dispatch` is `Reducer.dispatch`, `Reduce` the function around it that validates the Snapshot before and after, `Reduce<Event>` the function of an event. The four dispositions that leave a Workflow alone are one, `REJECTED`, because no caller treats them differently.

| Variable of `Workflow` | Code |
|---|---|
| `snap` | `rehydrateWorkflow`: workflows, workflow_attempts, change_proposals, the active agent_turns row |
| `prepare` | the live `PREPARE_AGENT_TURN` job with its payload; `seen` is the head its worker read from GitHub |
| `reconciles` | the live `RECONCILE_PENDING_EVENTS` jobs with their payload |
| `failures` | pending `workflow_action_failures`; 0 is a job other than a reconciliation |
| `deferred` | `normalized_events` with status DEFERRED, and the turn they wait for |
| `barrier` | `workflow_closure_barriers` |
| `input`, `planned`, `assigned` | undelivered human input by Stage, the recorded plan, existing participants |
| `remote`, `inbox` | the head of the Pull Request, and pushes whose webhook has not been processed |
| `opened`, `evidence` | what the active turn published; the head the settling worker read |
| `verdict` | history: accepted reviews of the Attempt and the commit the approving Reviewer was given |
| `stopped`, `turns`, `events` | turns a closure ended, turns created, steps counted against the bound |

Each action is a whole transaction: `SettleAgentTurn` derives the publication and the pending events, fences the outcome by collaboration, reduces, persists, and checks that the pending events were handed over; `ReconcilePendingEvents` orders the pushes, replays every event, normalises the one successor and enqueues it.
Reading GitHub (`ObservePreparation`, `Corroborate`) is an action of its own, because the code reads before the transaction.
A turn simply runs until one of its settlements; what happens meanwhile is `AgentTurn`.

### JobLease

Each worker process believes in at most one lease. `ClaimJobKind` is one transaction: it reclaims up to `jobClaimReclaimLimit` expired leases, then leases one job that is due; rows that other transactions hold locked are any set `skipped`. `CompleteJob`, `FailJob`, `AcknowledgeIrreversibleFailure` and `AcknowledgeWait` are the ways a holder settles, and the kind decides which its worker uses. `AdvanceRevision` is what other modules do to the Workflow of the job; `safety` is the revision in the payload of its safety Human Handoff. Two kinds, the collection of Assignments and the reconciliation of mutations, are irreversible under a condition on other rows; `Retention` and `AgentTurn` have them.

### AgentTurn

Turn *n* + 1 retries turn *n*: they share a lineage of operations, and the preparation of the next waits until the rows of the one before are decided (`PriorSettled`).
Per turn: `status`, `admission`, `recovery`, its recovery jobs and their `tries` (rows), `lease` (the leases of job, turn and slot, written together), `worker` (where `ExecutionWorker.execute` is), `grant` and `dirty` (the gateway), `runtime` and `captured` (the outside).
Per operation: `ledger`, `owner`, `why` it failed, its frozen `artifact`, and its `effect` at GitHub.
`pc[t]` is the call the gateway of turn *t* executes: it reserves, starts, freezes, sends, hears or does not hear, and records, each step separate, and the gateway of a turn whose lease is gone goes on with what it was doing.
`Land` is GitHub applying what it was sent, at any time, also after the sender is dead.
A recovery is begun by the worker itself (`BeginRecovery`), by another one that finds the lease expired (`RecoverExpired`), or by a duplicate at start-up; it stops the runtime, captures the workspace, reconciles the rows, and settles.

`MutationPromise` is the abstract ledger: an operation is asked for once, performed at most once, decided once and truthfully (or declared unknowable), and a next turn begins only when nothing is undecided. `AgentTurn!Promise` is the refinement mapping.

### The others, in a sentence each

`Publication`: a commit is its first-parent history, so that *descends from* is *is a prefix of*; a push carries the head it expects, and `RequestLands` applies it at any later time if the branch still has it.
`Execution`: a create request lands some time after it was sent; the ledger row says which phases may have been sent, and who revoked it.
`Workspaces`: fences are transactions on the row of the turn; every file operation between two of them is a step.
`SessionState`: the directory, its staging and the lock, seen by a launch (reads metadata, inspects, makes, records) and by a restore (stages, unpacks, compares, renames).
`Inbox` leaves to `Retention` what an event does; `Retention` reduces it to what participants depend on and models the collector's authorization, removal and finalization as three steps under one lease.
`TerminalIntent`: the verifier reads GitHub twice outside of any transaction; triggers, pushes, closures and hand-offs go on beside it.
`GitHubEffects`: a call takes effect or not, whatever its answer; two targets are written one after the other.
`LabelProvisioning`: a listing is a page at a time under a claim that lapses, and repositories join, leave and are renamed meanwhile.
`PiConnection`: goroutines as program counters over a shared record; a command carries the prompt it is about, which only the properties look at.

## Runs

Modules that share no variable at the level they are modelled are checked side by side in one run: the MC module holds the variables of all, chooses one part as the `focus` of a behaviour in its initial state, and lets the others rest. Each part is checked exhaustively within its own bounds, exactly as if it were alone; no interaction between parts of one run is claimed. The MC module extends the components its properties are named in (`MCJobs` all of its parts, `MCWork` the retention, the session control, the visible effects and the planning, `MCTurns` the turns, the publications, the executions, the workspaces and the session state), so that a run checks the very definition a theorem states, and has instances of the parts it checks with other bounds as well (`Rebased` in `MCJobs`, `Amending` and `Asking` in `MCWork`, `Disturbed` and `Rewritten` in `MCTurns`). Where parts do interact they are one module (`Retention` with `Inbox`, `Workflow` with its Reducer, `AgentTurn` with its gateway and closure).

| Run | States | Parts (focuses) and properties |
|---|---|---|
| `jobs` | 4.27 M | queue (closure jobs: 2 jobs, 2 workers, 1 attempt, 4 claims): `LedgerMatchesRow`, `OneLiveHolder`, `WorkStaysOnOffer`; review admission, with pushes and a retried turn, then with a moving base and failing reads: `ReviewStartsOnItsEvidence`; terminal intent, 2 pushes, 3 triggers, 2 upsets: `AppliedOnce`, `ApprovalIsCurrent`; provisioning, a listing of 3 repositories, then 2 labels on 2 repositories with renames: `ProvisioningIsComplete`; Pi, 2 prompts, 1 outside cancellation: `EndingsAreEvidence`, `SettlementIsReported`; provider, 3 tokens and 4 changes: `CredentialIsCurrent`; registry cache, 2 fetchers, 2 references and a limit of 2 failures: `RegistryIsLeftAlone` |
| `work` | 2.0 M | inbox and retention, 3 events, 2 processors, 2 collectors: `ReopenHoldsTheLine`, `CollectionIsSafe`; planning (three bounds: confirming a plan, amending answers, two rounds): `NothingSaidIsPassedOver`; session control, 2 persons, 2 turns: `OneWriter`; labels and hand-offs, 3 revisions, 2 workers: `LabelsTellTheState`, `HandoffsAreToldOrTakenBack` |
| `turns` | 1.44 M | 2 turns and 1 mutation: `LedgerTellsTheTruth`, `NeverTwice`, `HandoverIsClean`, refinement `KeepsPromise`; publication (three bounds, with and without a person on the branch): `PublishedWorkStands`, `NothingIsTakenOff`; execution: `AbsenceIsFinal`; workspaces, 2 turns: `WorkIsNotLost`; session state, 2 launchers, 2 operators, 1 loss of the disk: `SessionIsKept` |
| `live` | 185 K | the same parts smaller, with fairness: `EventsSettle`, `EveryJobSettles`, `TurnsEnd`, `RecoverySettles` (a turn that asks for a clarification, on an issue that may be closed), `ReviewIsNotHeldForever`, `IntentResolves`, `PromptEnds` |
| `workflow` | 774 K | 2 commits, 4 steps of people, GitHub and failing effects, planning and no planning: `CurrentPreparationIsUsable`, `VerdictsHold`, `WorkHasOneAuthority`, `DeferredEventsHeld` |
| `workflow_live` | 120 K | 2 commits, 3 steps of all seven kinds, fair workers: `NoInvalidDecision`, `WorkMovesOn`, `ClosureSettles` |

Six more runs each show one sentence of the documents violated; see below.

Every run says `CHECK_DEADLOCK FALSE`: a settled queue, a finished prompt, a closed Work Item or one that waits for a person really is at rest, and the bounds on the environment stop the rest. Progress is checked by the liveness properties instead.

**Why the bounds are enough.**
What is counted is what the environment does: pushes, labels, closings, failures, crashes that restart. Retries, deferrals, replays and reconciliations of the program are bounded only where the code bounds them or by a claim counter (`ClaimBound`).
Two of everything that competes (workers, processors, collectors, launchers, fetchers, persons) is a stale actor and its successor; a third would be stale in the same way. Two turns are a turn and the one that must find what it left.
Three events of an issue are a label, a closing and a reopening, in any order. Four steps of a Workflow are a push that is deferred, one that overtakes it, a closure or hand-off, and a label after it; two commits let a push be reverted and repeated.
A review limit of 1 (3 in the builtin Definition) and a retry limit of 1 reach both sides of each limit, and the code compares with a limit only; so do the 2 failures of a registry that can be read back (`ReadableFailures`, 100 in the code), past which all counts act alike. Three repositories let one leave an earlier page while another joins a later one. A publication needs two commits for one to be taken off, and three rows for a push, a request and a repeated push.
What the bounds do leave out: three turns in a row of one lineage and two mutations at once are not model-checked; the theorems of `AgentTurnProofs` hold for any number of both, and those of `PublicationProofs` and of planning for any number of commits, rows, inputs and turns.

**Symmetry.** Commits are interchangeable in `workflow`, which has no liveness property. No other run uses symmetry.

**Preconditions.** `LabelDuringTurn` and `PreparationLost` separate two of the known disagreements below from the rest of `Workflow`, so that they do not hide others. `MayClose` is FALSE in `turns`, where two turns are checked, and TRUE in `live`. `RecoverySettles` excludes a recovery whose issue is closed meanwhile, and `TurnsEnd` counts a recovery as an end.

### Fairness

All of it is weak, and of steps the program's own loops retry.

- *Queues and inbox*: workers poll, nothing locks rows for ever, time passes, and a process finds out that it lost a lease. Nothing is assumed about success.
- *Turns*: the step a live worker is at is taken; a call that was admitted ends, since its context has a deadline; a lease nobody renews expires; recovery and closure workers poll. GitHub need not apply or refuse what it was sent, and agents need not call anything.
- *Reviews*: the gate and the verifier are claimed again, and clocks tick. CI need not finish, GitHub need not answer.
- *Pi*: goroutines run and the deadline comes. Pi, its streams and the sink owe nothing.
- *Workflow*: the transactions of the preparation, reconciliation, escalation and closure workers. `[]<>~TurnRuns` says that a turn does not run for ever; `TurnsEnd` of `AgentTurn` is what justifies it, and the end it names is one of a settlement or a recovery, as left open here. People and webhooks owe nothing.

## What the code does otherwise than its documents say

Each of these is a run that TLC finds violated.

1. **A second safety hand-off aborts the reclaim** (`jobs_reopen`). One idempotency key per job, and the revision of the Workflow in the payload: once an issue is reopened while it is closing, the next exhaustion conflicts, the claim rolls back, and cleanup stops for every job of the kind.
2. **A question with an event behind it cannot be settled** (`workflow_clarification`). `clarificationWaitDecision` carries no reconciliation, and `resolveSettlementActionJobs` refuses a settlement that leaves events behind.
3. **A label added during a turn that hands off starts an Attempt without a turn** (`workflow_relabel`). The successor of the replay carries the Attempt of the reconciliation job.
4. **A preparation whose leases all expire fails unreported** (`workflow_killed`). The kind is not among those whose exhaustion is escalated.
5. **A closure whose turn is recovered never settles** (`turns_stranded`). The recovery of an expired lease takes a CANCELLING turn to INTERRUPTED; the closure's own jobs require CANCELLING.
6. **After a reopening only the first stage is reactivated** (`retention_reactivated`). The next stage's preparation has the mode CURRENT, and its participant is COMPLETED.

Five more were met while translating the code and have no run of their own:

- An issue closed while a recovery is pending finds no active turn: its closure completes with mutations unsettled (`store/workflow.go:782`), where `docs/operators/retention.md:7` and `docs/users/workflow-and-labels.md:61` promise that they are settled first.
- Closing, reopening and closing again while the first closure settles leaves a DORMANT Workflow of an open issue: `reduceIssueClosed` is not legal in CLOSING (`docs/implementation-plan.md:246`).
- An unanswered push and a repeated publication without changes, then the first push lands: the recovery records the first as found, and the next `Observe` reports a conflict although the branch is at the last published head (`agentturn/publication_recovery.go`; `docs/operators/troubleshooting.md:134`).
- Events deferred behind a turn that a closure ends stay DEFERRED; `DeferredEventsHeld` and `WorkMovesOn` make that exception explicitly.
- A registry that has throttled too often is not left alone any more. `recordOriginFailure` counts without a cap and nothing removes the file of a registry, not even a success (`image_cache.go:467` removes that of the reference); `readRegistryRetryState` refuses a state with more than 100 failures (`image_cache.go:172`). From the 101st throttled request in the life of a home on, `inCooldown` does not see the deadline, and the next failure may replace it by a shorter one, where the comment at `image_cache.go:362` says "Overlapping 429 responses must not shorten an existing server-requested origin deadline: retain the maximum of the active and new deadlines." `ImageCache` has this behaviour; `RegistryIsLeftAlone` says what holds before (`origin.failures < ReadableFailures`), and without that condition TLC finds it violated.

## Proofs

All theorems are about the specification of a component, `Init /\ [][Next]_vars` without fairness, and for every value of its constants: the bounds of the runs (`MaxTurn`, `MaxPush`, `ClaimBound` and the like) are parameters here.
They assume only the assumptions named in the modules, which TLC evaluates in the runs: positive limits (`BoundsAssumption`, `LimitsAssumption`, `InboxAssumption`, `RetentionAssumption`, `WorkspacesAssumption`, `ConstantsAssumption`, `EffectBounds`, `ProvisioningAssumption`, `CacheAssumption`), that CI reports are check runs or statuses (`AdmissionAssumption`), and that the values that stand for absence are none of those present (`AbsentAssumption`, `WorkItemAssumption`, `SessionAssumption`, `DistinctNames`, `HolderIsNobody`). Those about `Publication` and `Collaboration` assume nothing.
Each proof has the same shape: an inductive invariant that TLC has checked on the instance of the run before it was proved, one lemma per action or group of actions, one step per part of the invariant, and a temporal step at the end.

| Module | Properties of the runs it proves | Inductive invariant |
|---|---|---|
| `JobLeaseProofs` | `LedgerMatchesRow`, `OneLiveHolder`, `WorkStaysOnOffer`, `ProvisioningIsComplete` | `IInv`; `ProvisioningInv` |
| `AgentTurnProofs` | `LedgerTellsTheTruth`, `NeverTwice`, `HandoverIsClean`, `KeepsPromise`; `AbsenceIsFinal`, `WorkIsNotLost`, `SessionIsKept` (an action property) | `IInv`; `ExecutionInv`, `WorkspacesInv`, `StateInv` |
| `PublicationProofs` | `PublishedWorkStands`, `NothingIsTakenOff` (an action property) | `PublicationInv` |
| `WorkflowReducerProofs` | – (what one call of `Reduce` answers) | – |
| `WorkflowProofs` | `VerdictsHold`, `DeferredEventsHeld`, `CurrentPreparationIsUsable`, `WorkHasOneAuthority`, `NoInvalidDecision` | `Inv`, then `Authority`; `Decidable` |
| `SessionControlProofs` | `OneWriter`, `CredentialIsCurrent`, `EndingsAreEvidence`, `SettlementIsReported` and `RegistryIsLeftAlone` (action properties) | `ControlInv`, `CredentialInv`, `ConnectionInv`, `CacheInv` |
| `TerminalIntentProofs` | `AppliedOnce`, `ApprovalIsCurrent`, `ReviewStartsOnItsEvidence` | `IntentInv`, `AdmissionInv` |
| `RetentionProofs` | `CollectionIsSafe`, `ReopenHoldsTheLine`, `LabelsTellTheState`, `HandoffsAreToldOrTakenBack`, `NothingSaidIsPassedOver` | `InboxInv` with `CollectionInv`; `LabelsInv`, `HandoffsInv`; `PlanningInv` |

### JobLeaseProofs

For every set of jobs and workers, every kind and every bound: `TypeCorrect`; `LedgerCorrect` (one ledger entry per claim, and an attempt is open exactly while its lease is the row's); `CleanupNotAbandoned` (a row on offer can be claimed, an irreversible kind never ends FAILED or CANCELLED); `MutualExclusion` (no two workers pass the fence of one job).

The inductive invariant `IInv` adds to the types, `LedgerMatchesRow` and `WorkNotAbandoned`

- `AttemptsWithinLimit`: a row on offer has attempts left and a leased row has not exceeded its limit, preserved by a retry only because `Exhausted` was false or the limit was raised above the attempts;
- `LeasesWereGranted`: no worker believes in an attempt the row has not counted, and two workers never believe in the same one. That is what keeps a stale token stale: the next claim hands out a number nobody holds.

`NextPreserves` has one step per action; claims go through `ClaimKeeps`, since a claim changes many rows at once. `MutualExclusion` follows from `LeasesWereGranted`.

`ProvisioningCompletes` is about a listing whose pages shift under it. `ListingSound` says what a listing may conclude from a count: as long as no repository both came and went (`Swapped`, which the count hides, and the property excepts), a count that still agrees means that every entry up to the page was taken. Counting members that come before a repository is what relates pages to repositories, so this proof rests on cardinalities.
`WorkerSound` is about one repository: a worker goes by a name the repository has or had first, and what it need not create is there or its name was taken; `JobsSound` carries that to the end the job records. The listing and the labelling run separately in TLC and together in the theorem.

### AgentTurnProofs

For every number of turns, mutations and attempts, with crashes and late effects: `TypeCorrect`; `Truth` (a mutation recorded as done has landed, and one recorded as failed has not and never will, unless it was given up as unknowable); `Once` (no operation lands twice); `Implements` (`Spec => Promise!Spec`); `CleanHandover` (a turn that may be prepared finds no row of its predecessor undecided, and none that a gateway could still send: what the preparation reads of the rows is true of the processes, because a gateway that can send owns a row that is not decided).

The inductive invariant is `TypeOK` with three parts:

- `TurnInv`: a turn under recovery has no lease and does not become claimable again, so that no fence of it ever passes;
- `RowInv`: what the state of a row says about its effect and its artifact. In particular a frozen operation declared absent has no artifact and an owner under recovery, who can therefore never freeze it;
- `CallInv`: what the place of a gateway says about the row it works on. A row has one owner and the owner's gateway one call at a time, so that at most one call can ever send the effect.

The central difficulty is that a reconciliation may declare an operation absent while the gateway that started it is still alive in a process that has lost its lease. It is sound for an operation that freezes an artifact because freezing is fenced, and for any other only once nothing can be sent any more.
`TypeStep` is about types alone; `InvStep` splits on the actions; `Frame`, `TurnFrame`, `OneRow` and `OrphanInv` carry what a step leaves alone.
For the refinement every step is one of four: it begins a turn (`Prepare`), asks (`Reserve`), performs (`Land`), or decides some operations or none (`DecideStep`, from `BegunStep`, `LedgerStep` and `EffectStep`). `BegunFinite` is needed because the mapping counts turns.

The same module has the theorems about what a turn leaves outside the store.

`AbsenceIsFinalAlways`: `Recorded` (a request that is about to be sent, or in flight, is on record and unresolved) and `SeenStands` (the row is frozen once it is revoked, but for what is bound and settled) together leave no request outstanding when a remover lists the containers.
`WorkIsNotLostAlways`: `Works` says that a turn whose container runs, may still be created, or has stopped and is not removed is the current one and not settled; only its holder can then change the workspace, and a holder that cleans up has removed its container. `Launches` is about the race of a launch with its own recovery: the stop revokes the execution before anything else, so that nothing the recovery has read is changed by a container created late. `Captures` follows the evidence from the read to the seal through both actors.
`SessionIsKeptAlways`: an operator on its way holds the lock, the lock excludes a turn and a collection (`LockSound`), and a state that was lost was recorded before it, so that no launch which read the record earlier is about to make it (`LostIsKnown`).

### PublicationProofs

For every number of turns, commits, rows and interferences of people on the branch: `PublishedWorkAlwaysStands` (a running turn goes on from everything the ledger says was published, and what a settlement proposes is proven by it) and `NothingIsEverTakenOff` (no push of an agent takes a commit off the branch, however late it lands).

The parts of `PublicationInv` beyond the types:

- `RowsSound`: the tip of a push is recorded before it is sent and descends from the head its call started from, and the push carries the lease of that head. This is why a late push is harmless: it lands only where it extends;
- `TurnSound`: a row that is not decided belongs to the current turn, and a reconciliation leaves none behind its cursor, so that a turn which starts finds all rows of the one before decided;
- `CallSound`: a call is about the last row, which starts from the head the turn is at, so that two calls of one turn form a chain;
- `ProgressSound`: every row that moved the head the ledger knows of is an ancestor of the head a running turn goes on from, and a turn that is bound to an earlier publication asks for reviews only at heads it was bound to or has pushed itself (`Sourced`), which its settlement needs when it has opened no Pull Request of its own;
- `ProposalSound`: what was settled was on the branch and is of a row that succeeded.

What a ledger proves (`ProofOf`) is a recursive function over its rows, and the chain it finds has to be related to all of them. `FromZero` gives induction over a set of numbers; `ProvingExists` says that the function is there, `ProofIs` what its steps are, `ProofStable` that it reads nothing of a row that still changes once the row is decided, and `LinkProves` and `LedgerProves` that, when the ledger proves anything, its rows form one chain and every one that moved the head is an ancestor of its end.

The proof corrected the statement. A settled head was first said to have been the head of the branch; that held within the bounds of the run. It does not in general: a push that an earlier turn gave up may land with the settled commit below its own, and the branch was never at that commit itself. `ProposalIsProven` now says what the code relies on, that the branch contained it.

### WorkflowReducerProofs

`WebhookReduced` and `SettlementReduced` say of `Reduce` what the transactions of the store rely on: on a valid Snapshot a webhook answers with a valid Snapshot, at most one revision further, that keeps the active turn and asks for a new one only when there is none; the settlement of a turn takes the turn off and leaves exactly the successor its outcome calls for, and what becomes ready is what an accepted approval was given.
`PushWaits` and `PushRevokes` are the two halves of a push (behind a running turn it is put off, past a ready commit it is taken), `EscalationReduced`, `PreparationReduced` and `ClosureReduced` the transactions that are not webhooks.

These take the validation at the end of `Reduce` as given. `WebhookTotal` and `SettlementTotal` are about the decision before it: on a Workflow that is `Able` every handler answers with one that is `Able` again, so that the validation has nothing to reject. `Able` says what `validateSnapshot` does not: an active Workflow has reviews left, a ready one is in review and waits for nobody, a Workflow continues with planning only if it is planning-only, and nothing is ready without a Change Proposal. `Founded`, `Free` and `Unturned` are the intermediate forms of a Snapshot inside a handler: with an Attempt, without a turn, and without a turn while its state is still to be chosen.

### WorkflowProofs

The invariant `Inv` joins the properties with what keeps them: `SnapshotSound`, `TurnSound` (no reconciliation is ahead of the Workflow, and none is of a turn that has not been), `PreparationSound`, `PushesSound` and `EvidenceCovered`.
The last carries the verdicts. A turn may be settled with evidence that is stale by the time of its transaction; that is sound only because the push that moved the head is then still on its way, or deferred behind this very turn, and will revoke what the settlement declares ready.
The replay of deferred events is a fold over a sequence of any length. Its loop invariant is `Replaying`; induction over the events is over a set of numbers and its least element (`Induction`), not over the sequence.
`AuthorityAlways` needs a second invariant over the first, `Authority`, under the two preconditions of the property, `~LabelDuringTurn` and `~PreparationLost`: each names the disagreement a run of its own shows. What the proof adds is that they are the only ones.
`NoDecisionIsInvalid` needs a third, `Decidable`: the Workflow is `Able`, whoever has a turn or a finished plan has its Participants, and the Sessions of assigned Participants are not collected; the last two because a label on a finished plan asks for the Sessions of the planning. For a reconciliation it is carried through the states of the replay (`ReplayRuns`, `ReplayKept`).

### SessionControlProofs

A prompt outlives the lease and the process that sent it, so the lease says nothing about who writes. What does is the token of the admission: it is neither replaced nor released while the prompt it admitted may still run, and control is not transferred, no turn begins and no export starts while there is one (`ControlHeld`, `PromptAdmitted`, `ExportExclusive`).

`CredentialIsCurrentAlways`: the provider replaces the token before the answer to a renewal arrives, if it does, and a process may die anywhere around it. `RenewalHasIntent` says that whenever the token on disk has been replaced, the intent that was saved before the request is still there or the login is blocked; a process that opens the directory finds it and blocks. `LoginsSurvive` says that a login under way began after the last logout, so that completing it brings none back. `RemembersDisk` is what lets the code decide from memory: a manager whose save failed in doubt is broken and decides nothing.

`RegistryLeftAlone`: while fewer failures of a registry are recorded than can be read back, the time until which it asked to be left alone never moves back and stays visible to the next fetch. Two processes may both have failed; whoever records its failure has read the state it replaces under the lock that it still holds (`LocksInv`), and the next time is at least the one it read, in a state that can be read again (`NextRetryIsLater`). The theorem is about every limit, and stops at it because the code does: past it the time may be cut short, as told above. That a document has one request at a time needs no such limit.

`EndingsCanBeReliedOn` and `SettlementsAreReported`: an ending of a prompt other than *unknown* is evidence that Pi does not work on it and will not, although commands and records cross on two streams and aborts of one prompt may arrive during the next. `AtRest` is that evidence: nothing is being worked on, no prompt is on its way in either stream, and no event is left to be read. What keeps it true is in five parts of `ConnectionInv`:

- `CallsSound`: who holds the connection, the prompt and the calls that cancel it, and that a cancellation which goes on is about the prompt there is;
- `CommandsSound`: a command on its way is about the current prompt, and an abort whose caller does not wait for it any more has taken the connection with it. Identifiers are fresh and appear once, in the queue, the stream, the debts of Pi or the answers;
- `RecordsSound`: a settlement is the last that is said of a prompt, a refusal the only thing, and nothing is said before the admission;
- `WorkSound`: what Pi works on, and that it was never told to abort another prompt than the caller meant;
- `EvidenceSound`: each of the code's grounds for an ending implies `AtRest`.

The properties follow because an ending is chosen only from what `EvidenceSound` covers, and the deadline or a failure of the caller, the only other ways out, end in *unknown* and lose the connection.

### TerminalIntentProofs

The verifier reads GitHub outside of any transaction and may have lost its lease when it settles. `SourceWaits` and `RevalidationWaits` say that the Workflow waits for the source turn, or for the revalidation, exactly while there is one: whatever moves the Workflow on takes the job away in the same transaction. `CountsOnce` follows. `PushesKnown`, `ReadyHead` and `ComparesHeads` relate the stored head, the deferred push and the heads compared to the pushes processed so far; `LateApprovalIsCurrent` follows from them.

`ReviewIsSupported` has two halves. `CompletedIsComplete` is about the evaluation: for every policy, set of required contexts and results, the decision that checks have completed leaves no newest result of a required context unfinished (`UnfinishedIsSeen`, `TerminalIsAdmitted`). `AdmissionInv` carries this evidence, with the head it is of, through the worker's observation, the row that is released and the turn that consumes it, across deferrals, new heads and retries.

### RetentionProofs

`InboxInv`: the rows of deliveries and events agree (`RowsAgree`), an event is reduced once (`ReducedOnce`), and one behind a reopen only after it (`InOrder`).
`CollectionInv`: a worker deletes without a fence and perhaps without its lease, so that what it deletes must stay condemned. The generation it was authorized to is minted by the current collection (`GenerationMinted`) and can only become COLLECTED (`StaysAuthorized`); a collection under way keeps the issue closed (`CollectingCloses`) and its targets at rest (`ClosedRests`).

`LabelsTellTheStateAlways`: two targets are written one after the other, in calls the Workflow moves between. `Progresses` says what a worker has written stays written while it holds its job, since there is one of them (`OneLabeller`); `DoneIsTold`, that a worker with all of it done has shown the state the Workflow is in, or has read an older one and will notice, or somebody else has a job; `RestIsTold` is the property once nobody works.
`HandoffsAreToldAlways`: `Publishing` says which comments the publisher has written by the step it is at, and `HandoffRows` that no hand-off is there of a revision the Workflow has not had.

`NothingSaidIsEverPassedOver`: people speak at any time, and a publication outlives the lease under which it was frozen. `CallSound` and `PostedStands` say that nothing is seen of a publication before its bytes are frozen, that it is frozen only while it is neither refused nor given up, and that it is given up only before it can be seen; a stopped turn whose comment lands afterwards is therefore found, not failed. `ChecksSound` relates a validation to the confirmation somebody gave for that revision, and `ReadyIsDone` says that no step follows the settlement of a finished plan. Whether decisions are current does not matter to the induction: the settlement reads it in its own transaction, and nothing changes it afterwards.

### Only model-checked

All liveness properties: fairness and ENABLED are out of the prover's reach.

Every invariant and every action property of a safety run is a theorem.
Induction over data is out of reach as well. Where a proof needs one (`ProofOf`, the replay of deferred events, the prefixes of a history) it goes over a set of numbers, as described above; no theorem is about a `RECURSIVE` operator.

## Not modelled, and why

- **Order of claims between Work Items, slots** (`store/turns.go:322`): `AgentTurn` has one lineage. That an undecodable head of the queue blocks the turns behind it is listed as a hazard without a property.
- **Reducer**: a Workflow with an incompatible Definition; the activation by a label on a Pull Request.
- **Turns**: budgets of steps and tokens, out-of-memory reports, profiles. A request to the daemon whose answer stays ambiguous keeps its recovery retrying, as the code intends. The start-up reconciler's removal of containers nobody authorized.
- **Publication**: merges, the rules a diff must keep. In the reconciler the head a push expected is empty without a Change Proposal, and a publication that changed nothing is never found again by a recovery; both are modelled as they are.
- **Workspaces**: removal of owned trees file by file, the encoding of a capture, its loss by the disk. Two processes share no lock on captures.
- **Session state**: a rename the disk had not synced; a database connection lost while its process goes on.
- **Session control**: an export is one step.
- **Collaboration**: several Participants, several questions in a round, rejected commands. The code does not refuse mutations after a terminal intent; an unproven publication stays fenced after a hand-off by design.
- **Retention**: an active turn defers the events of its issue (`Workflow` has that); the safety hand-off of a collection with invalid targets; the replay of a finalized collection changes nothing.
- **Terminal corroboration**: the Developer's request for a review, and the backoff of retries.
- **Provider**: a renewal whose answer was lost is retried with the old token, and blocks when it is refused; revocation at the provider and bundles are left out.
- **Pi**: replay, budgets, retries, compaction. An abort queued before the command of its own prompt finds nothing to abort, and the cancellation returns at its deadline. After the connection has failed the writer's `select` may still take one queued command, which nobody waits for; `Write` stops at the failure.
- **Visible effects**: a call of a worker that has lost its lease and lands later: a worker without its lease is taken for dead.
- **Label provisioning**: a repository renamed away and back, and a name that another repository takes after the last check. A listing whose count stays the same while one repository leaves and one joins may skip one, and a rename between the check of identity and the creation ends the job for good; both are in the model, and stated by `ProvisioningIsComplete` as far as the code promises it. That every repository gets its job is stated of listings; a delivery that names the repositories it adds goes through the same batches.
- **GitHub client, container drivers, policies, server, telemetry, website**: input and output, parsing and wiring.

## Plan

1. *Done*: the queue, the Reducer and the Workflow; the turns with their ledger; the parts around them. Proofs about the queue, the turns and the refinement of their ledger, the Reducer and the Work Item, session control, the clients the workers share (provider, Pi, registry), terminal intent and review admission, inbox and retention, the visible effects, label provisioning, planning with people, publications, and what a turn leaves outside the store.
2. **Composition.** `Workflow` with `AgentTurn` in place of its abstract turn, and with `JobLease` in place of its abstract jobs, by refinement: the settlements `Workflow` allows are the ends `AgentTurn` reaches.
3. **Breadth.** Several Work Items in one queue of turns with slots; the corroboration of a Developer's request; activation by a label on a Pull Request.
