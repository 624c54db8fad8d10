----------------------------- MODULE Publication ------------------------------
(***************************************************************************)
(* The publications of one Developer across its turns, up to the Change     *)
(* Proposal of the Workflow: publish_changes, open_pr and request_review    *)
(* (src/internal/mcp/backend.go, src/internal/workspace/publish.go), the    *)
(* search for their effects after a crash (src/internal/mcp/reconciler.go,  *)
(* src/internal/workspace/reconcile.go), the proof a later turn needs       *)
(* before it goes on from what was published                               *)
(* (src/internal/agentturn/publication_recovery.go), and the settlement     *)
(* (src/internal/agentturn/outcome_reconciler.go,                          *)
(* src/internal/store/publication_association.go).                         *)
(*                                                                         *)
(* A commit is its first-parent history above the default branch: a         *)
(* sequence of authors' marks, the mark 0 a person's.  One commit descends  *)
(* from another when the other is its prefix.  Git and GitHub are external: *)
(* a push or a request may be applied after its sender has given up.  Turns *)
(* follow one another; how they are leased, stopped and reconciled within   *)
(* their budgets is AgentTurn.                                              *)
(***************************************************************************)
EXTENDS Integers, Sequences, FiniteSets
History == INSTANCE SequencesExt

CONSTANTS
    MaxCommit,   \* bound of the model on the agent's commits
    MaxRow,      \* bound of the model on the mutations
    MaxDevTurn,  \* bound of the model on the turns
    MaxForeign   \* bound of the model on what people do to the branch and its Pull Requests

VARIABLES
    branch,     \* the feature branch on GitHub
    visited,    \* history: every head it has had
    pulls,      \* its Pull Requests, oldest first: the row that opened each (0: a person), open, edited
    foreign,    \* history: how often people have touched either
    made,       \* the agent's commits in its workspace
    mutations,  \* the mutations, in the order of their reservation, and what became of each request
    devTurn,    \* the current turn: its number, where it is, how its prompt ended, the rows reconciled
    bound,      \* the publication the turn was bound to when it started
    progress,   \* publishedHeads of the backend: the head to publish from, whether the branch exists, its Pull Request
    call,       \* the call being executed
    proposal    \* the Change Proposal settled

publicationVars == <<branch, visited, pulls, foreign, made, mutations, devTurn, bound, progress, call, proposal>>
hub   == <<branch, visited, pulls, foreign>>
local == <<devTurn, bound, progress, call, proposal>>

Base     == <<>>      \* the head of the default branch
NoCommit == <<-1>>    \* no head: the branch does not exist
NoCall   == [row |-> 0, at |-> "none", tip |-> Base]
Unbound  == [head |-> NoCommit, pull |-> 0]

PublicationInit ==
    /\ branch = NoCommit /\ visited = {} /\ pulls = <<>> /\ foreign = 0
    /\ made = {Base} /\ mutations = <<>>
    /\ devTurn = [n |-> 1, at |-> "observe", prompt |-> "none", cursor |-> 0, outcome |-> "none"]
    /\ bound = Unbound /\ progress = [head |-> Base, exists |-> FALSE, pull |-> 0]
    /\ call = NoCall /\ proposal = Unbound

Extends(commit, onto) == commit # NoCommit /\ onto # commit /\ History!IsPrefix(onto, commit)
Open == {p \in DOMAIN pulls : pulls[p].open}

-----------------------------------------------------------------------------
(* GitHub, and people.                                                     *)

Moved(head) == branch' = head /\ visited' = visited \cup {head}

\* A person pushes on the branch, takes its last commit off, or deletes it, which closes its Pull Request.
PersonPushes ==
    /\ foreign < MaxForeign /\ foreign' = foreign + 1
    /\ branch # NoCommit
    /\ \/ Moved(Append(branch, 0)) /\ UNCHANGED pulls
       \/ branch # Base /\ Len(branch) > 1 /\ Moved(History!Front(branch)) /\ UNCHANGED pulls
       \/ branch' = NoCommit /\ UNCHANGED visited /\ pulls' = [p \in DOMAIN pulls |-> [pulls[p] EXCEPT !.open = FALSE]]
    /\ UNCHANGED <<made, mutations, local>>

\* A person opens, closes or edits a Pull Request of the branch.
PersonEdits ==
    /\ foreign < MaxForeign /\ foreign' = foreign + 1
    /\ \/ branch # NoCommit /\ Open = {} /\ pulls' = Append(pulls, [by |-> 0, open |-> TRUE, edited |-> FALSE])
       \/ \E p \in Open : pulls' = [pulls EXCEPT ![p].open = FALSE]
       \/ \E p \in Open : pulls' = [pulls EXCEPT ![p].edited = TRUE]
    /\ UNCHANGED <<branch, visited, made, mutations, local>>

Became(r, fate) == mutations' = [mutations EXCEPT ![r].sent = fate]

\* A mutant of Accepted: the push is forced.
AcceptedByForce(row) == TRUE
\* --force-with-lease: the branch is where the sender saw it.
Accepted(row) == branch = row.lease

\* A request arrives, in the time of its call or after.  A push of what the branch has already is up to date.
RequestLands(r) ==
    /\ mutations[r].sent = "flying"
    /\ LET row == mutations[r] IN
       \/ /\ row.tool = "publish"
          /\ \/ branch # row.tip /\ Accepted(row) /\ Moved(row.tip) /\ Became(r, "landed")
             \/ branch = row.tip /\ Became(r, "landed") /\ UNCHANGED <<branch, visited>>
             \/ branch # row.tip /\ ~Accepted(row) /\ Became(r, "refused") /\ UNCHANGED <<branch, visited>>
          /\ UNCHANGED pulls
       \/ /\ row.tool = "open" /\ branch # NoCommit /\ Open = {}
          /\ pulls'  = Append(pulls, [by |-> r, open |-> TRUE, edited |-> FALSE])
          /\ mutations' = [mutations EXCEPT ![r].sent = "landed", ![r].head = branch]
          /\ UNCHANGED <<branch, visited>>
       \/ row.tool = "open" /\ (branch = NoCommit \/ Open # {}) /\ Became(r, "refused") /\ UNCHANGED <<branch, visited, pulls>>
       \/ row.tool = "review" /\ Became(r, "landed") /\ UNCHANGED <<branch, visited, pulls>>
    /\ UNCHANGED <<foreign, made, local>>

RequestLost(r) ==
    /\ mutations[r].sent = "flying" /\ Became(r, "lost")
    /\ UNCHANGED <<hub, made, local>>

-----------------------------------------------------------------------------
(* The calls of the agent, one at a time.                                  *)

\* The agent commits, on any commit of its workspace or on the head it was given.
Commit ==
    /\ devTurn.at = "running" /\ Cardinality(made) <= MaxCommit
    /\ \E c \in made \cup {progress.head} : made' = made \cup {Append(c, Cardinality(made))}
    /\ UNCHANGED <<hub, mutations, local>>

At(r, where) == call' = [call EXCEPT !.row = r, !.at = where]
Resolved(r, state, why) == mutations' = [mutations EXCEPT ![r].state = state, ![r].why = why]
Return(state, why) == Resolved(call.row, state, why) /\ call' = NoCall

\* callMutation, PlanMutation: what the call starts from is frozen in its row.
ReserveMutation(tool, tip, where) ==
    /\ devTurn.at = "running" /\ call = NoCall /\ Len(mutations) < MaxRow
    /\ mutations' = Append(mutations,
           [turn |-> devTurn.n, tool |-> tool, state |-> "IN_FLIGHT", old |-> progress.head, tip |-> NoCommit, head |-> NoCommit,
            lease |-> IF progress.exists THEN progress.head ELSE NoCommit, sent |-> "no", why |-> "none"])
    /\ call' = [row |-> Len(mutations) + 1, at |-> where, tip |-> tip]
    /\ UNCHANGED <<hub, made, devTurn, bound, progress, proposal>>

Publish       == \E tip \in made : ReserveMutation("publish", tip, "inspect")
\* openPullRequest: refused when this turn has opened or was bound to a Pull Request.
OpenPR        == progress.pull = 0 /\ progress.exists /\ ReserveMutation("open", Base, "send")
\* requestReview: refused without one.
RequestReview == progress.pull # 0 /\ ReserveMutation("review", Base, "read")

Row == mutations[call.row]
InCall(where) == devTurn.at = "running" /\ call.at = where

\* publishFromPaths, up to the record of the tip: the remote branch, what there is to publish, and its history.
InspectRemote ==
    /\ InCall("inspect")
    /\ IF branch # Row.lease THEN Return("FAILED", "remote_head") /\ UNCHANGED progress
       ELSE IF call.tip = Row.old
       THEN /\ mutations' = [mutations EXCEPT ![call.row].state = "SUCCEEDED", ![call.row].head = Row.old]
            /\ call' = NoCall /\ UNCHANGED progress
       ELSE IF Extends(call.tip, Row.old) THEN At(call.row, "record") /\ UNCHANGED <<mutations, progress>>
       ELSE Return("FAILED", "history") /\ UNCHANGED progress
    /\ UNCHANGED <<hub, made, devTurn, bound, proposal>>

\* RecordProposedPublicationTip, before anything is pushed.
RecordTip ==
    /\ InCall("record")
    /\ mutations' = [mutations EXCEPT ![call.row].tip = call.tip]
    /\ At(call.row, "recheck")
    /\ UNCHANGED <<hub, made, devTurn, bound, progress, proposal>>

\* expectRemoteHead, once more.
Recheck ==
    /\ InCall("recheck")
    /\ IF branch # Row.lease THEN Return("FAILED", "remote_head") ELSE At(call.row, "send") /\ UNCHANGED mutations
    /\ UNCHANGED <<hub, made, devTurn, bound, progress, proposal>>

\* requestReview reads the Pull Request: open, and at the head this turn has published.
ReadPull ==
    /\ InCall("read")
    /\ IF pulls[progress.pull].open /\ branch = progress.head THEN At(call.row, "send") /\ UNCHANGED mutations
       ELSE Return("FAILED", "pull_mismatch")
    /\ UNCHANGED <<hub, made, devTurn, bound, progress, proposal>>

SendRequest ==
    /\ InCall("send") /\ At(call.row, "answer") /\ Became(call.row, "flying")
    /\ UNCHANGED <<hub, made, devTurn, bound, progress, proposal>>

\* The pull request of an answer to open_pr.
Opened(r) == CHOOSE p \in DOMAIN pulls : pulls[p].by = r

\* The answer of the backend is a result; its record is one too, or uncertain.
Hear ==
    /\ InCall("answer") /\ Row.sent = "landed"
    /\ Row.tool = "open" => Row.head = progress.head
    /\ \E state \in {"SUCCEEDED", "UNKNOWN"} :
           mutations' = [mutations EXCEPT ![call.row].state = state,
                                          ![call.row].head = CASE Row.tool = "publish" -> Row.tip [] OTHER -> Row.old]
    /\ progress' = CASE Row.tool = "publish" -> [progress EXCEPT !.head = Row.tip, !.exists = TRUE]
                     [] Row.tool = "open"    -> [progress EXCEPT !.exists = TRUE, !.pull = Opened(call.row)]
                     [] OTHER                -> progress
    /\ call' = NoCall
    /\ UNCHANGED <<hub, made, devTurn, bound, proposal>>

\* No answer, one that contradicts the row, or a push that git reports as rejected: the outcome is unknown.
Unheard ==
    /\ InCall("answer")
    /\ IF Row.sent = "refused" /\ Row.tool # "publish" THEN Return("FAILED", "refused") ELSE Return("UNKNOWN", "none")
    /\ UNCHANGED <<hub, made, devTurn, bound, progress, proposal>>

\* What RestoreMutationReplay makes of a result of an earlier turn.
Restored(r) == [progress EXCEPT !.head = mutations[r].head, !.exists = @ \/ mutations[r].head # Base]
\* In a turn bound to a publication, an old result does not move the head back.
Replayed(r) == IF bound.head # NoCommit THEN progress ELSE Restored(r)

\* ReserveMutation finds the operation of an earlier turn: its result is the answer.  A turn that was bound to nothing
\* takes it from the head it is at only.
ReplayPublication(r) ==
    /\ devTurn.at = "running" /\ call = NoCall
    /\ bound.head # NoCommit \/ progress.head = mutations[r].old
    /\ mutations[r].turn < devTurn.n /\ mutations[r].state = "SUCCEEDED" /\ mutations[r].tool = "publish"
    /\ progress' = Replayed(r)
    /\ UNCHANGED <<hub, made, mutations, devTurn, bound, call, proposal>>

-----------------------------------------------------------------------------
(* The end of a turn, and the reconciliation of what it left open.          *)

Mine == {r \in DOMAIN mutations : mutations[r].turn = devTurn.n}
LeftOpen == {r \in Mine : mutations[r].state \in {"IN_FLIGHT", "UNKNOWN"}}
Asked == {r \in Mine : mutations[r].tool = "review" /\ mutations[r].state = "SUCCEEDED"}

\* The prompt ends and the calls are drained.
PromptIsOver ==
    /\ devTurn.at = "running" /\ call = NoCall
    /\ \E prompt \in {"completed", "cancelled"} :
           devTurn' = [devTurn EXCEPT !.prompt = prompt, !.at = IF LeftOpen = {} THEN "corroborate" ELSE "reconcile"]
    /\ UNCHANGED <<hub, made, mutations, bound, progress, call, proposal>>

\* The process is killed, or its lease expires: what it was sending is not stopped.
TurnDies ==
    /\ devTurn.at = "running"
    /\ mutations' = [r \in DOMAIN mutations |-> IF mutations[r].state = "IN_FLIGHT" THEN [mutations[r] EXCEPT !.state = "UNKNOWN"] ELSE mutations[r]]
    /\ devTurn' = [devTurn EXCEPT !.prompt = "lost", !.at = IF LeftOpen = {} THEN "interrupted" ELSE "reconcile"]
    /\ call' = NoCall
    /\ UNCHANGED <<hub, made, bound, progress, proposal>>

\* A mutant of FoundOnBranch: the record of the tip is taken for the push.
FoundRecorded(row) == row.tip # NoCommit
\* ReconcilePublication: the recorded tip is the head of the branch, or an ancestor of it, and descends from the old head.
FoundOnBranch(row) == /\ branch # NoCommit /\ row.tip # NoCommit
                      /\ History!IsPrefix(row.tip, branch) /\ Extends(row.tip, row.old)

\* Reconcile of the reconciler: the commit on the branch, or the exact Pull Request or comment with the marker of the row.
FindsEffect(r) ==
    CASE mutations[r].tool = "publish" -> FoundOnBranch(mutations[r])
      [] mutations[r].tool = "open"    -> \E p \in DOMAIN pulls : pulls[p].by = r /\ ~pulls[p].edited
      [] OTHER                         -> /\ mutations[r].sent = "landed"
                                          /\ Cardinality({p \in DOMAIN pulls : pulls[p].by # 0 /\ ~pulls[p].edited}) = 1

\* What a prompt that ended with a request for a review leaves to the verifier of that request.
Deferred(r) == devTurn.prompt = "completed" /\ Asked # {} /\ mutations[r].state = "SUCCEEDED"
Listed == {r \in Mine : r > devTurn.cursor /\ mutations[r].state \in {"UNKNOWN", "SUCCEEDED"} /\ ~Deferred(r)}

\* reconcileJob: the next row of its list is searched for; one that succeeded must be found again.
ReconcileRow(r) ==
    /\ devTurn.at = "reconcile" /\ r \in Listed /\ (\A s \in Listed : r <= s) /\ FindsEffect(r)
    /\ mutations' = IF mutations[r].state = "SUCCEEDED" THEN mutations
                    ELSE [mutations EXCEPT ![r].state = "SUCCEEDED",
                                           ![r].head = IF mutations[r].tool = "publish" THEN mutations[r].tip ELSE mutations[r].old]
    /\ devTurn' = [devTurn EXCEPT !.cursor = r]
    /\ UNCHANGED <<hub, made, bound, progress, call, proposal>>

\* AcknowledgeAgentTurnMutationReconciliationFailure, the last: nothing is settled of the publication.
GiveUp ==
    /\ devTurn.at = "reconcile"
    /\ mutations' = [r \in DOMAIN mutations |-> IF r \in LeftOpen THEN [mutations[r] EXCEPT !.state = "FAILED"] ELSE mutations[r]]
    /\ devTurn' = [devTurn EXCEPT !.at = "over", !.outcome = "handoff"]
    /\ UNCHANGED <<hub, made, bound, progress, call, proposal>>

\* CompleteAgentTurnMutationReconciliation: the request for a review is then verified, or the turn was interrupted.
Reconciled ==
    /\ devTurn.at = "reconcile" /\ Listed = {}
    /\ devTurn' = [devTurn EXCEPT !.at = IF devTurn.prompt = "completed" /\ Asked # {} THEN "corroborate" ELSE "interrupted"]
    /\ UNCHANGED <<hub, made, mutations, bound, progress, call, proposal>>

-----------------------------------------------------------------------------
(* What the ledger proves.                                                 *)

\* One more row: it starts from the head the rows before it left, and one Pull Request is opened, of a published head.
Link(proof, row, r) ==
    IF ~proof.ok \/ row.state # "SUCCEEDED" \/ row.tool = "review" THEN proof
    ELSE IF proof.head # NoCommit /\ row.old # proof.head THEN [proof EXCEPT !.ok = FALSE]
    ELSE IF row.tool = "publish" THEN [proof EXCEPT !.head = IF row.head # row.old THEN row.head ELSE @]
    ELSE IF proof.pull # 0 \/ proof.head = NoCommit THEN [proof EXCEPT !.ok = FALSE]
    ELSE [proof EXCEPT !.pull = r]

\* The rows of a set, in the order of their reservation.
ProofOf(rows, set, start) ==
    LET proof[n \in 0..Len(rows)] == IF n = 0 THEN [head |-> start, pull |-> 0, ok |-> TRUE]
                                    ELSE IF n \in set THEN Link(proof[n - 1], rows[n], n) ELSE proof[n - 1]
    IN  proof[Len(rows)]

\* ListParticipantPublicationMutations: what earlier turns of the participant published.
Earlier == ProofOf(mutations, {r \in DOMAIN mutations : mutations[r].turn < devTurn.n}, NoCommit)

\* deriveSettlementPublicationTx: what this turn published, from the publication it was bound to.
Derived == ProofOf(mutations, Mine, bound.head)

-----------------------------------------------------------------------------
(* Recover: may this turn go on from what was published?                    *)

Go(where)  == devTurn' = [devTurn EXCEPT !.at = where]
Over(outcome) == devTurn' = [devTurn EXCEPT !.at = "over", !.outcome = outcome]
Keep == UNCHANGED <<hub, made, mutations, bound, progress, call, proposal>>

\* The ledger and the branch.  A turn that finds nothing published starts from the default branch.
Observe ==
    /\ devTurn.at = "observe"
    /\ IF ~Earlier.ok \/ branch # Earlier.head THEN Over("conflict")
       ELSE IF Earlier.head = NoCommit THEN Go("running") ELSE Go("prove")
    /\ Keep

\* The last publication, in a clone of its own.
LastPublish == CHOOSE r \in DOMAIN mutations : mutations[r].head = Earlier.head /\ mutations[r].tip = Earlier.head /\ mutations[r].state = "SUCCEEDED"
Prove ==
    /\ devTurn.at = "prove"
    /\ IF FoundOnBranch(mutations[LastPublish]) THEN Go("verify") ELSE Over("conflict")
    /\ Keep

\* verifyPullRequest: no open Pull Request but the one of the ledger, unedited and at the published head.
PullProven == IF Earlier.pull = 0 THEN Open = {}
              ELSE \E p \in Open : Open = {p} /\ pulls[p].by = Earlier.pull /\ ~pulls[p].edited /\ branch = Earlier.head

\* Before the checkout of the published head is prepared, and after.
VerifyPull ==
    /\ devTurn.at \in {"verify", "reverify"}
    /\ IF ~PullProven THEN Over("conflict") ELSE Go(IF devTurn.at = "verify" THEN "reverify" ELSE "reobserve")
    /\ Keep

Reobserve ==
    /\ devTurn.at = "reobserve"
    /\ IF branch # Earlier.head THEN Over("conflict") ELSE Go("bind")
    /\ Keep

\* BindAgentTurnPublication, then the launch with the authority that is bound.
BindPublication ==
    /\ devTurn.at = "bind" /\ Go("running")
    /\ LET pull == IF Earlier.pull = 0 THEN 0 ELSE Opened(Earlier.pull) IN
       /\ bound'    = [head |-> Earlier.head, pull |-> pull]
       /\ progress' = [head |-> Earlier.head, exists |-> TRUE, pull |-> pull]
    /\ UNCHANGED <<hub, made, mutations, call, proposal>>

\* GitHub cannot be read: the turn fails without a prompt.
Unread ==
    /\ devTurn.at \in {"observe", "prove", "verify", "reverify", "reobserve", "bind"}
    /\ Over("failed")
    /\ Keep

-----------------------------------------------------------------------------
(* ReconcileRecorded and the settlement.                                   *)

FailedFor(tool, why) == \E r \in Mine : mutations[r].tool = tool /\ mutations[r].state = "FAILED" /\ mutations[r].why = why
OpenedHere == {r \in Mine : mutations[r].tool = "open" /\ mutations[r].state = "SUCCEEDED"}

\* No request for a review: a turn bound to a publication that changed meets a conflict, any other has failed.
WithoutIntent ==
    IF /\ bound.head # NoCommit
       /\ \/ FailedFor("publish", "remote_head")
          \/ FailedFor("review", "pull_mismatch") /\ (bound.pull # 0 \/ Cardinality(OpenedHere) = 1)
    THEN "conflict" ELSE "failed"

\* reconcileDeveloper: the Pull Request read again, and the captured workspace, against the head of the request.
FromIntent(r, captured) ==
    LET p == IF bound.pull # 0 THEN bound.pull ELSE progress.pull IN
    IF pulls[p].edited \/ ~pulls[p].open \/ branch # mutations[r].old THEN "conflict"
    ELSE IF captured # mutations[r].old THEN "failed" ELSE "ready"

\* The outcome of a turn whose every mutation is settled; a cancelled prompt has none.
Corroborate ==
    /\ devTurn.at = "corroborate"
    /\ \E captured \in made \cup {progress.head} :
           devTurn' = [devTurn EXCEPT !.at = "settle", !.outcome =
               IF devTurn.prompt = "cancelled" \/ Cardinality(Asked) > 1 THEN "failed"
               ELSE IF Asked = {} THEN WithoutIntent
               ELSE FromIntent(CHOOSE r \in Asked : TRUE, captured)]
    /\ Keep

AskedHead == mutations[CHOOSE r \in Asked : TRUE].old

\* SettleAgentTurn and settleAgentTurnRecoveryTx: the Pull Request this turn has opened becomes the Change Proposal,
\* whatever the outcome; one that was bound does when it is ready.  A ledger that proves nothing ends in a handoff.
SettlePublication ==
    /\ devTurn.at \in {"settle", "interrupted"}
    /\ IF OpenedHere # {} /\ (~Derived.ok \/ (devTurn.outcome = "ready" /\ AskedHead # Derived.head))
       THEN devTurn' = [devTurn EXCEPT !.at = "reconcile", !.cursor = 0, !.outcome = "none"] /\ UNCHANGED proposal
       ELSE /\ devTurn' = [devTurn EXCEPT !.at = "over", !.outcome = IF devTurn.at = "interrupted" THEN "failed" ELSE @]
            /\ proposal' = IF OpenedHere # {} THEN [head |-> Derived.head, pull |-> Opened(Derived.pull)]
                           ELSE IF devTurn.outcome = "ready" THEN [head |-> AskedHead, pull |-> bound.pull]
                           ELSE proposal
    /\ UNCHANGED <<hub, made, mutations, bound, progress, call>>

\* A retry, or another Attempt after a person was asked.  A Workflow with its Change Proposal is not followed further.
RetryTurn ==
    /\ devTurn.at = "over" /\ proposal = Unbound /\ devTurn.n < MaxDevTurn
    /\ devTurn' = [n |-> devTurn.n + 1, at |-> "observe", prompt |-> "none", cursor |-> 0, outcome |-> "none"]
    /\ bound' = Unbound /\ progress' = [head |-> Base, exists |-> FALSE, pull |-> 0]
    /\ UNCHANGED <<hub, made, mutations, call, proposal>>

PublicationNext ==
    \/ PersonPushes \/ PersonEdits \/ Commit \/ Publish \/ OpenPR \/ RequestReview
    \/ InspectRemote \/ RecordTip \/ Recheck \/ ReadPull \/ SendRequest \/ Hear \/ Unheard
    \/ \E r \in DOMAIN mutations : RequestLands(r) \/ RequestLost(r) \/ ReplayPublication(r) \/ ReconcileRow(r)
    \/ PromptIsOver \/ TurnDies \/ GiveUp \/ Reconciled
    \/ Observe \/ Prove \/ VerifyPull \/ Reobserve \/ BindPublication \/ Unread \/ Corroborate \/ SettlePublication \/ RetryTurn

-----------------------------------------------------------------------------
(* Properties.                                                             *)

Pushed(r) == mutations[r].tool = "publish" /\ mutations[r].sent # "landed" /\ mutations'[r].sent = "landed"

\* No push of Omnigrex takes a commit off the branch, whenever it arrives: neither a person's, nor one an earlier push
\* of its own has put there (publishFromPaths pushes with the lease of the head it has read).
NothingIsTakenOff == [][\A r \in DOMAIN mutations : Pushed(r) => (branch \in {NoCommit, branch'} \/ History!IsPrefix(branch, branch'))]_publicationVars

\* A running turn goes on from everything the ledger says was published: no push it makes can be of an older history,
\* whatever was replayed, restarted or reconciled (Recover, RestoreMutationReplay, publishChanges).
GoesOnFromTheLedger ==
    devTurn.at = "running" => \A r \in DOMAIN mutations :
        mutations[r].tool = "publish" /\ mutations[r].state = "SUCCEEDED" /\ mutations[r].head # mutations[r].old
            => History!IsPrefix(mutations[r].head, progress.head)

\* The Change Proposal that is settled has a head that was on the branch, published by this participant, and the Pull
\* Request it opened (deriveSettlementPublicationTx, ReconcilePublication).  It need not have been the head of the
\* branch: a push that an earlier turn gave up on may land with this commit below its own.
ProposalIsProven ==
    proposal # Unbound =>
        /\ (\E head \in visited : History!IsPrefix(proposal.head, head)) /\ pulls[proposal.pull].by # 0
        /\ \E r \in DOMAIN mutations : mutations[r].tool = "publish" /\ mutations[r].tip = proposal.head /\ mutations[r].state = "SUCCEEDED"

\* What was published stays the base of the work: the turn goes on from it and the settlement is proven by it.
PublishedWorkStands == GoesOnFromTheLedger /\ ProposalIsProven
==============================================================================
