------------------------- MODULE TerminalIntentProofs -------------------------
(***************************************************************************)
(* Proofs about a review that GitHub could not confirm: it is applied at   *)
(* most once, and makes no other head ready than its own, for every set of *)
(* workers and every number of pushes, Attempts, leases lost and upsets.   *)
(*                                                                         *)
(* The worker reads GitHub outside of any transaction and may have lost    *)
(* its lease when it settles.  What carries the proof is the place of the  *)
(* Workflow: it waits for the source turn, or for the revalidation, exactly *)
(* while there is one, and whatever moves it on takes the job away in the  *)
(* same transaction.  Meanwhile the stored head and the deferred push       *)
(* together tell of every push that was processed.                         *)
(*                                                                         *)
(* And about the gate before a review: what it hands to the store, the row *)
(* that is released and the turn that consumes it carry the same head, and *)
(* the decision that the checks have completed is the truth, whatever the  *)
(* policy, the required contexts and the results.                          *)
(***************************************************************************)
EXTENDS TerminalIntent, ReviewAdmission, TLAPS

intentVars == <<remote, flow, intent, recovery, verifier, owner, upsets>>
IntentSpec == IntentInit /\ [][IntentNext]_intentVars

\* The word that stands for the absence of a holder is no process.
DistinctNames == "none" \notin Verifiers

-----------------------------------------------------------------------------
(* The inductive invariant.                                                *)

Remotes == [head : Nat, delivered : Nat]
Flows   == [state : {"reviewing", "developing", "ready", "needs_human", "closing", "closed"},
            stage : {"review", "development"}, attempt : Nat, revision : Nat, head : Nat, ready : Nat,
            reason : Terminal \cup {"none", "effect", "blocked"},
            next : {"source", "none", "turn", "reconcile", "revalidate"}, pending : Nat]
Intents == [turn : {"settling", "corroborating", "failed", "succeeded", "cancelled"},
            checkpoint : {"none", "pending", "handed_off", "verified", "cancelled"},
            attempt : Nat, revalidated : Nat, applied : Nat]
Jobs    == [kind : {"none", "verify", "revalidate"}, status : {"none", "available", "leased", "done", "cancelled"},
            holder : Verifiers \cup {"none"}, attempt : Nat, age : Nat]
Steps   == [at : {"idle", "load", "verify_head", "read", "list", "settle", "retry", "refuse", "redirect", "give_up"},
            revision : Nat, seen : Nat]

TypeOK ==
    /\ remote \in Remotes /\ flow \in Flows /\ intent \in Intents /\ recovery \in Jobs
    /\ verifier \in [Verifiers -> Steps]

\* The job of an intent is held by nobody unless it is leased.
JobSound ==
    /\ recovery.holder # "none" => recovery.status = "leased"
    /\ recovery.kind = "none" => recovery.status = "none"

\* The Workflow waits for the source turn until it has ended, and for a revalidation exactly while there is one.
SourceWaits ==
    /\ flow.next = "source" <=> intent.turn \in {"settling", "corroborating"}
    /\ intent.checkpoint = "pending" <=> intent.turn = "corroborating"
    /\ intent.checkpoint = "none" => intent.turn \in {"settling", "cancelled"}
    /\ intent.turn = "settling" => intent.checkpoint = "none"
    /\ flow.next = "source" => flow.head = 1 /\ flow.state \in {"reviewing", "closing"}
    /\ Outstanding("verify") => flow.next = "source"
RevalidationWaits ==
    Outstanding("revalidate") =>
        /\ recovery.attempt = flow.attempt /\ flow.next = "revalidate" /\ flow.state = "reviewing" /\ flow.head = 1

\* A review counts once: what could apply it, or ask for its application, is there only before.
CountsOnce ==
    /\ intent.applied <= 1
    /\ intent.checkpoint \in {"none", "pending"} => intent.applied = 0
    /\ Outstanding("revalidate") => intent.applied = 0
    /\ flow.reason \in Terminal => intent.applied = 0
    /\ flow.state \in {"reviewing", "developing", "ready"} => flow.reason = "none"

\* A push that was processed is the deferred one, or not past the stored head.
Open == flow.state \notin {"closing", "closed"}
PushesKnown ==
    /\ 1 <= remote.delivered /\ remote.delivered <= remote.head
    /\ flow.pending # 1
    /\ Open /\ flow.pending # 0 => flow.pending = remote.delivered
    /\ Open /\ flow.pending = 0 => remote.delivered <= flow.head
    /\ Open /\ flow.next \notin {"source", "reconcile"} => flow.pending = 0
    /\ Open /\ flow.next = "reconcile" => flow.pending # 0

\* Only a Workflow that is ready names a ready head, its own.
ReadyHead ==
    /\ flow.ready # 0 => flow.state = "ready" /\ flow.ready = flow.head /\ flow.next \notin {"source", "reconcile"}
    /\ ApprovalIsCurrent

\* A worker that goes on after reading GitHub has seen a head.
HeadSeen == \A w \in Verifiers : verifier[w].at \in {"list", "settle", "redirect"} => verifier[w].seen >= 1

\* A worker that compares heads before it reads the reviews holds the job of a revalidation.
ComparesHeads ==
    \A w \in Verifiers :
        recovery.status = "leased" /\ recovery.holder = w /\ verifier[w].at \in {"verify_head", "redirect"} =>
            recovery.kind = "revalidate"

IntentInv ==
    /\ ComparesHeads
    /\ TypeOK /\ JobSound /\ SourceWaits /\ RevalidationWaits /\ CountsOnce /\ PushesKnown /\ ReadyHead /\ HeadSeen

-----------------------------------------------------------------------------
\* The initial state satisfies the invariant.
LEMMA IntentInitially == ASSUME IntentInit PROVE IntentInv
<1>1. TypeOK
  BY DEF IntentInit, TypeOK, Remotes, Flows, Intents, Jobs, Steps, NoJob, Idle, Terminal
<1> QED BY <1>1 DEF IntentInit, IntentInv, JobSound, SourceWaits, RevalidationWaits, CountsOnce, PushesKnown, ComparesHeads, ReadyHead, HeadSeen,
        Open, Outstanding, NoJob, Idle, Terminal, ApprovalIsCurrent

-----------------------------------------------------------------------------
(* Steps of the worker that settle nothing.                                *)

\* Reading GitHub changes the worker alone.
LEMMA ReadKeeps ==
    ASSUME IntentInv, NEW w \in Verifiers, Load(w) \/ Unread(w) \/ Read(w) PROVE IntentInv'
<1>1. UNCHANGED <<remote, flow, intent, recovery, owner, upsets>>
  BY DEF Load, Unread, Read
<1>2. verifier \in [Verifiers -> Steps] /\ remote \in Remotes /\ remote.head >= 1
  BY DEF IntentInv, TypeOK, PushesKnown, Remotes
<1>3. verifier' \in [Verifiers -> Steps] /\ HeadSeen' /\ ComparesHeads'
  <2>1. HeadSeen /\ ComparesHeads
    BY DEF IntentInv
  <2>2. CASE Load(w)
    <3> DEFINE at == IF Expired THEN "give_up" ELSE IF Purpose = "revalidate" THEN "verify_head" ELSE "read"
               loaded == [at |-> at, revision |-> flow.revision, seen |-> 0]
    <3>1. flow.revision \in Nat /\ at \in {"give_up", "verify_head", "read"}
      BY DEF IntentInv, TypeOK, Flows
    <3>2. \/ verifier' = [verifier EXCEPT ![w] = Idle]
          \/ verifier' = [verifier EXCEPT ![w] = loaded] /\ (at = "verify_head" => recovery.kind = "revalidate")
      BY <2>2 DEF Load, Stop, Idle, Purpose
    <3> HIDE DEF at
    <3>3. /\ loaded \in Steps /\ Idle \in Steps /\ loaded.at \in {"give_up", "verify_head", "read"} /\ Idle.at = "idle"
          /\ loaded.at = at
      BY <3>1 DEF Steps, Idle
    <3> HIDE DEF loaded
    <3> QED BY <1>1, <1>2, <2>1, <3>2, <3>3 DEF HeadSeen, ComparesHeads
  <2>3. CASE Unread(w)
    BY <1>1, <1>2, <2>1, <2>3 DEF Unread, Goto, HeadSeen, ComparesHeads, Steps
  <2>4. CASE Read(w)
    BY <1>1, <1>2, <2>1, <2>4 DEF Read, Goto, At, HeadSeen, ComparesHeads, Steps, Remotes
  <2> QED BY <2>2, <2>3, <2>4
<1> QED BY <1>1, <1>3 DEF IntentInv, TypeOK, JobSound, SourceWaits, RevalidationWaits, CountsOnce, PushesKnown, ComparesHeads, ReadyHead,
        Open, Outstanding, ApprovalIsCurrent

\* The job passes on; what it is for stays.
PassedOn ==
    /\ recovery' \in Jobs /\ recovery'.kind = recovery.kind /\ recovery'.attempt = recovery.attempt
    /\ recovery' = recovery \/ recovery.status \in {"available", "leased"}
    /\ recovery'.holder # "none" => recovery'.status = "leased"
    /\ verifier' \in [Verifiers -> Steps] /\ HeadSeen' /\ ComparesHeads'

\* The job changes hands, or grows older.
LEMMA JobKeeps ==
    ASSUME IntentInv, DistinctNames,
           (\E w \in Verifiers : Claim(w) \/ Retry(w) \/ LoseRecoveryLease(w)) \/ ExpireRecoveryLease \/ Tick
    PROVE  IntentInv'
<1>1. UNCHANGED <<remote, flow, intent, owner>>
  BY DEF Claim, Retry, LoseRecoveryLease, ExpireRecoveryLease, Tick
<1>2. recovery \in Jobs /\ JobSound /\ verifier \in [Verifiers -> Steps] /\ HeadSeen /\ ComparesHeads
  BY DEF IntentInv, TypeOK
<1>3. PassedOn
  <2>1. ASSUME NEW w \in Verifiers, Claim(w) PROVE PassedOn
    BY <1>2, <2>1 DEF PassedOn, Claim, Goto, Jobs, Steps, HeadSeen, ComparesHeads, JobSound
  <2>2. ASSUME NEW w \in Verifiers, Retry(w) PROVE PassedOn
    BY <1>2, <2>2 DEF PassedOn, Retry, Stop, Idle, Jobs, Steps, HeadSeen, ComparesHeads, JobSound, Fenced
  <2>3. ASSUME NEW w \in Verifiers, LoseRecoveryLease(w) PROVE PassedOn
    <3>1. recovery.status = "leased" /\ recovery' = [recovery EXCEPT !.status = "available", !.holder = "none"]
      BY <1>2, <2>3 DEF LoseRecoveryLease, DistinctNames, JobSound
    <3>2. verifier' \in [Verifiers -> Steps] /\ HeadSeen' /\ ComparesHeads'
      BY <1>2, <2>3, <3>1 DEF LoseRecoveryLease, Stop, Idle, Steps, HeadSeen, ComparesHeads, Jobs
    <3> QED BY <1>2, <3>1, <3>2 DEF PassedOn, Jobs
  <2>4. CASE ExpireRecoveryLease
    BY <1>2, <2>4 DEF PassedOn, ExpireRecoveryLease, Jobs, Steps, HeadSeen, ComparesHeads, JobSound
  <2>5. CASE Tick
    BY <1>2, <2>5 DEF PassedOn, Tick, Jobs, Steps, HeadSeen, ComparesHeads, JobSound
  <2> QED BY <2>1, <2>2, <2>3, <2>4, <2>5
<1> QED BY <1>1, <1>2, <1>3 DEF PassedOn, IntentInv, TypeOK, JobSound, SourceWaits, RevalidationWaits, CountsOnce, PushesKnown, ComparesHeads, ReadyHead,
        Open, Outstanding, ApprovalIsCurrent

-----------------------------------------------------------------------------
(* Steps that move the Workflow.                                           *)

\* The types and bounds each of them starts from.
LEMMA Sorts ==
    ASSUME IntentInv
    PROVE  /\ remote \in Remotes /\ remote.head \in Nat /\ remote.delivered \in Nat
           /\ flow \in Flows /\ flow.attempt \in Nat /\ flow.revision \in Nat /\ flow.head \in Nat /\ flow.pending \in Nat
           /\ flow.ready \in Nat /\ flow.revision + 1 \in Nat /\ flow.attempt + 1 \in Nat
           /\ flow.state \in {"reviewing", "developing", "ready", "needs_human", "closing", "closed"}
           /\ flow.next \in {"source", "none", "turn", "reconcile", "revalidate"}
           /\ intent \in Intents /\ recovery \in Jobs /\ verifier \in [Verifiers -> Steps]
  BY DEF IntentInv, TypeOK, Remotes, Flows

\* The source turn starts to wait for its corroboration.
LEMMA BeginKeeps == ASSUME IntentInv, Begin PROVE IntentInv'
<1>1. UNCHANGED <<remote, flow, verifier>>
  BY DEF Begin
<1>2. /\ intent' \in Intents /\ intent'.turn = "corroborating" /\ intent'.checkpoint = "pending"
      /\ intent'.applied = intent.applied /\ intent.turn = "settling" /\ flow.state = "reviewing"
  BY Sorts DEF Begin, Intents
<1>3. recovery' \in Jobs /\ recovery'.kind = "verify" /\ recovery'.holder = "none" /\ recovery'.status = "available"
  BY Sorts DEF Begin, NoJob, Jobs
<1> QED BY <1>1, <1>2, <1>3 DEF IntentInv, TypeOK, JobSound, SourceWaits, RevalidationWaits, CountsOnce, PushesKnown,
        ComparesHeads, ReadyHead, HeadSeen, Open, Outstanding, ApprovalIsCurrent

\* A push changes what GitHub shows.
LEMMA PushKeeps == ASSUME IntentInv, Push PROVE IntentInv'
<1>1. UNCHANGED <<flow, intent, recovery, verifier>>
  BY DEF Push
<1>2. remote' \in Remotes /\ remote'.head = remote.head + 1 /\ remote'.delivered = remote.delivered
  BY Sorts DEF Push, Remotes
<1> QED BY <1>1, <1>2, Sorts DEF IntentInv, TypeOK, JobSound, SourceWaits, RevalidationWaits, CountsOnce, PushesKnown,
        ComparesHeads, ReadyHead, HeadSeen, Open, Outstanding, ApprovalIsCurrent

\* Control changes hands.
LEMMA TransferKeeps == ASSUME IntentInv, TransferControl PROVE IntentInv'
<1>1. UNCHANGED <<remote, flow, intent, recovery, verifier>>
  BY DEF TransferControl
<1> QED BY <1>1 DEF IntentInv, TypeOK, JobSound, SourceWaits, RevalidationWaits, CountsOnce, PushesKnown,
        ComparesHeads, ReadyHead, HeadSeen, Open, Outstanding, ApprovalIsCurrent

\* What becomes of the job when a revalidation of the present Attempt is cancelled.
LEMMA CancelledJob ==
    ASSUME IntentInv
    PROVE  /\ Cancelled \in Jobs /\ Cancelled.kind = recovery.kind
           /\ Cancelled.holder # "none" => Cancelled.status = "leased"
           /\ Cancelled.kind = "none" => Cancelled.status = "none"
           /\ ~(Cancelled.kind = "revalidate" /\ Cancelled.status \in {"available", "leased"})
           /\ recovery.kind = "verify" => Cancelled = recovery
           /\ Cancelled.status = "leased" => Cancelled = recovery
<1>1. recovery \in Jobs /\ JobSound /\ RevalidationWaits
  BY DEF IntentInv, TypeOK
<1> QED BY <1>1 DEF Cancelled, Jobs, JobSound, Outstanding, RevalidationWaits

\* A turn ends with a person.
LEMMA BlockedKeeps == ASSUME IntentInv, TurnBlocked PROVE IntentInv'
<1>1. UNCHANGED <<remote, intent, recovery, verifier>>
  BY DEF TurnBlocked
<1>2. flow' \in Flows
  BY Sorts, Zenon DEF TurnBlocked, Flows
<1>3. /\ flow.next = "turn" /\ flow.state \in {"reviewing", "developing"}
      /\ flow'.state = "needs_human" /\ flow'.next = "none" /\ flow'.reason = "blocked"
      /\ flow'.head = flow.head /\ flow'.ready = flow.ready /\ flow'.pending = flow.pending
  BY Sorts DEF TurnBlocked, Flows
<1> QED BY <1>1, <1>2, <1>3 DEF IntentInv, TypeOK, JobSound, SourceWaits, RevalidationWaits, CountsOnce, PushesKnown,
        ComparesHeads, ReadyHead, HeadSeen, Open, Outstanding, ApprovalIsCurrent, Terminal

\* An effect that failed for good hands the Workflow to a person, and takes a revalidation away.
LEMMA EscalateKeeps == ASSUME IntentInv, EscalateEffect PROVE IntentInv'
<1>1. UNCHANGED <<remote, intent, verifier>> /\ recovery' = Cancelled
  BY DEF EscalateEffect
<1>2. flow' \in Flows
  BY Sorts, Zenon DEF EscalateEffect, Flows
<1>3. /\ flow.next \in {"none", "revalidate"} /\ flow.state \in {"reviewing", "developing", "ready"}
      /\ flow'.state = "needs_human" /\ flow'.next = "none" /\ flow'.reason = "effect"
      /\ flow'.head = flow.head /\ flow'.ready = 0 /\ flow'.pending = flow.pending
  BY Sorts DEF EscalateEffect, Flows
<1> QED BY <1>1, <1>2, <1>3, CancelledJob DEF IntentInv, TypeOK, JobSound, SourceWaits, RevalidationWaits, CountsOnce, PushesKnown,
        ComparesHeads, ReadyHead, HeadSeen, Open, Outstanding, ApprovalIsCurrent, Terminal

\* The deferred push is applied.
LEMMA ReconcileKeeps == ASSUME IntentInv, Reconcile PROVE IntentInv'
<1> DEFINE state == IF flow.state = "ready" THEN "reviewing" ELSE flow.state
           next  == IF flow.state = "needs_human" THEN "none" ELSE "turn"
<1>1. UNCHANGED <<remote, intent, recovery, verifier>> /\ flow.next = "reconcile"
  BY DEF Reconcile
<1>2. /\ flow' = [flow EXCEPT !.head = flow.pending, !.pending = 0, !.ready = 0, !.revision = flow.revision + 1,
                              !.state = state, !.next = next]
      /\ state \in {"reviewing", "developing", "ready", "needs_human", "closing", "closed"}
      /\ next \in {"none", "turn"}
  BY Sorts DEF Reconcile
<1> HIDE DEF next, state
<1>3. flow' \in Flows
  BY <1>2, Sorts, Zenon DEF Flows
<1>4. /\ flow'.state = state /\ flow'.next = next /\ flow'.reason = flow.reason
      /\ flow'.head = flow.pending /\ flow'.ready = 0 /\ flow'.pending = 0
  BY <1>2, Sorts DEF Flows
<1> QED BY <1>1, <1>2, <1>3, <1>4, Sorts DEF state, IntentInv, TypeOK, JobSound, SourceWaits, RevalidationWaits, CountsOnce, PushesKnown,
        ComparesHeads, ReadyHead, HeadSeen, Open, Outstanding, ApprovalIsCurrent, Terminal

\* The issue is closed.
LEMMA CloseKeeps == ASSUME IntentInv, CloseIssue PROVE IntentInv'
<1> DEFINE next == IF flow.next = "source" THEN "source" ELSE "none"
<1>1. UNCHANGED <<remote, intent, verifier>> /\ flow.state \notin {"closing", "closed"}
      /\ recovery' = IF flow.next = "source" THEN recovery ELSE Cancelled
  BY DEF CloseIssue
<1>2. /\ flow' = [flow EXCEPT !.state = "closing", !.ready = 0, !.revision = flow.revision + 1, !.next = next]
      /\ next \in {"source", "none"} /\ (next = "source" <=> flow.next = "source")
  BY Sorts DEF CloseIssue
<1> HIDE DEF next
<1>3. flow' \in Flows
  BY <1>2, Sorts, Zenon DEF Flows
<1>4. /\ flow'.state = "closing" /\ flow'.next = next /\ flow'.reason = flow.reason
      /\ flow'.head = flow.head /\ flow'.ready = 0 /\ flow'.pending = flow.pending
  BY <1>2, Sorts DEF Flows
<1> QED BY <1>1, <1>2, <1>3, <1>4, Sorts, CancelledJob DEF IntentInv, TypeOK, JobSound, SourceWaits, RevalidationWaits, CountsOnce,
        PushesKnown, ComparesHeads, ReadyHead, HeadSeen, Open, Outstanding, ApprovalIsCurrent, Terminal

\* The closure is settled, and the source turn with it.
LEMMA ClosureKeeps == ASSUME IntentInv, CompleteClosure PROVE IntentInv'
<1>1. UNCHANGED <<remote, verifier>> /\ flow.state = "closing"
  BY DEF CompleteClosure
<1>2. flow' \in Flows
  BY Sorts, Zenon DEF CompleteClosure, Flows
<1>3. /\ flow'.state = "closed" /\ flow'.next = "none" /\ flow'.reason = flow.reason
      /\ flow'.head = flow.head /\ flow'.ready = flow.ready /\ flow'.pending = flow.pending
  BY Sorts DEF CompleteClosure, Flows
<1>4. CASE flow.next = "source"
  <2>1. /\ intent' \in Intents /\ intent'.turn = "cancelled" /\ intent'.applied = intent.applied
        /\ intent'.checkpoint \in {"none", "cancelled", "handed_off", "verified"}
        /\ intent'.checkpoint = "none" => intent.checkpoint = "none"
    BY <1>4, Sorts DEF CompleteClosure, Intents
  <2>2. /\ recovery' \in Jobs /\ recovery'.kind = recovery.kind /\ recovery'.attempt = recovery.attempt
        /\ recovery'.holder # "none" => recovery'.status = "leased"
        /\ recovery'.kind = "none" => recovery'.status = "none"
        /\ ~(recovery'.kind = "verify" /\ recovery'.status \in {"available", "leased"})
        /\ recovery'.kind = "revalidate" \/ recovery'.status = "leased" => recovery' = recovery
    BY <1>4, Sorts DEF CompleteClosure, Jobs, Outstanding, IntentInv, JobSound
  <2> QED BY <1>1, <1>2, <1>3, <1>4, <2>1, <2>2 DEF IntentInv, TypeOK, JobSound, SourceWaits, RevalidationWaits, CountsOnce,
        PushesKnown, ComparesHeads, ReadyHead, HeadSeen, Open, Outstanding, ApprovalIsCurrent, Terminal
<1>5. CASE flow.next # "source"
  <2>1. UNCHANGED <<intent, recovery>>
    BY <1>5 DEF CompleteClosure
  <2> QED BY <1>1, <1>2, <1>3, <1>5, <2>1 DEF IntentInv, TypeOK, JobSound, SourceWaits, RevalidationWaits, CountsOnce,
        PushesKnown, ComparesHeads, ReadyHead, HeadSeen, Open, Outstanding, ApprovalIsCurrent, Terminal
<1> QED BY <1>4, <1>5

\* The webhook of a push is processed.
LEMMA SynchronizeKeeps == ASSUME IntentInv, Synchronize PROVE IntentInv'
<1> DEFINE head  == remote.delivered + 1
           state == IF flow.state = "ready" THEN "reviewing" ELSE flow.state
           next  == IF flow.state \in {"ready", "reviewing"} THEN "turn" ELSE flow.next
           pending == IF flow.next = "reconcile" THEN head ELSE flow.pending
<1>1. UNCHANGED <<intent, verifier>> /\ remote.delivered < remote.head
  BY DEF Synchronize
<1>2. remote' \in Remotes /\ remote'.head = remote.head /\ remote'.delivered = head /\ head \in Nat /\ head = remote.delivered + 1
  BY Sorts DEF Synchronize, Remotes
<1>3. \/ /\ flow.next = "source" /\ flow.state # "closing"
         /\ flow' = [flow EXCEPT !.pending = head] /\ recovery' = recovery
      \/ /\ flow.state \in {"closing", "closed"} \/ flow.next = "reconcile" \/ head = flow.head
         /\ ~(flow.next = "source" /\ flow.state # "closing")
         /\ flow' = [flow EXCEPT !.pending = pending] /\ recovery' = recovery
      \/ /\ flow.state \notin {"closing", "closed"} /\ flow.next \notin {"source", "reconcile"}
         /\ flow' = [flow EXCEPT !.head = head, !.ready = 0, !.revision = flow.revision + 1, !.state = state, !.next = next]
         /\ recovery' = IF flow.state = "reviewing" THEN Cancelled ELSE recovery
  BY DEF Synchronize, Fresh
<1>4. /\ state \in {"reviewing", "developing", "needs_human", "closing", "closed"}
      /\ flow.state # "ready" => state = flow.state
      /\ flow.state = "ready" => state = "reviewing"
      /\ next = IF flow.state \in {"ready", "reviewing"} THEN "turn" ELSE flow.next
      /\ next \in {"source", "none", "turn", "reconcile", "revalidate"}
      /\ pending = IF flow.next = "reconcile" THEN head ELSE flow.pending
      /\ pending \in Nat
  BY <1>2, Sorts
<1> HIDE DEF head, state, next, pending
<1>5. CASE flow.next = "source" /\ flow.state # "closing" /\ flow' = [flow EXCEPT !.pending = head] /\ recovery' = recovery
  <2>1. flow' \in Flows
    BY <1>2, <1>5, Sorts, Zenon DEF Flows
  <2>2. /\ flow'.state = flow.state /\ flow'.next = flow.next /\ flow'.reason = flow.reason
        /\ flow'.head = flow.head /\ flow'.ready = flow.ready /\ flow'.pending = head
    BY <1>5, Sorts DEF Flows
  <2> QED BY <1>1, <1>2, <1>5, <2>1, <2>2, Sorts DEF IntentInv, TypeOK, JobSound, SourceWaits, RevalidationWaits, CountsOnce,
        PushesKnown, ComparesHeads, ReadyHead, HeadSeen, Open, Outstanding, ApprovalIsCurrent, Terminal
<1>6. CASE /\ flow.state \in {"closing", "closed"} \/ flow.next = "reconcile" \/ head = flow.head
           /\ ~(flow.next = "source" /\ flow.state # "closing")
           /\ flow' = [flow EXCEPT !.pending = pending] /\ recovery' = recovery
  <2>1. flow' \in Flows
    BY <1>4, <1>6, Sorts, Zenon DEF Flows
  <2>2. /\ flow'.state = flow.state /\ flow'.next = flow.next /\ flow'.reason = flow.reason
        /\ flow'.head = flow.head /\ flow'.ready = flow.ready /\ flow'.pending = pending /\ flow'.attempt = flow.attempt
    BY <1>6, Sorts DEF Flows
  <2> QED BY <1>1, <1>2, <1>4, <1>6, <2>1, <2>2, Sorts DEF IntentInv, TypeOK, JobSound, SourceWaits, RevalidationWaits, CountsOnce,
        PushesKnown, ComparesHeads, ReadyHead, HeadSeen, Open, Outstanding, ApprovalIsCurrent, Terminal
<1>7. CASE /\ flow.state \notin {"closing", "closed"} /\ flow.next \notin {"source", "reconcile"}
           /\ flow' = [flow EXCEPT !.head = head, !.ready = 0, !.revision = flow.revision + 1, !.state = state, !.next = next]
           /\ recovery' = IF flow.state = "reviewing" THEN Cancelled ELSE recovery
  <2>1. flow' \in Flows
    BY <1>2, <1>4, <1>7, Sorts, Zenon DEF Flows
  <2>2. /\ flow'.state = state /\ flow'.next = next /\ flow'.reason = flow.reason
        /\ flow'.head = head /\ flow'.ready = 0 /\ flow'.pending = flow.pending /\ flow'.attempt = flow.attempt
    BY <1>7, Sorts DEF Flows
  <2>3. /\ recovery' \in Jobs /\ recovery'.kind = recovery.kind
        /\ recovery'.holder # "none" => recovery'.status = "leased"
        /\ recovery'.kind = "none" => recovery'.status = "none"
        /\ ~(recovery'.kind = "revalidate" /\ recovery'.status \in {"available", "leased"})
        /\ recovery.kind = "verify" \/ recovery'.status = "leased" => recovery' = recovery
    BY <1>7, CancelledJob, Sorts DEF IntentInv, JobSound, RevalidationWaits, Outstanding
  <2> QED BY <1>1, <1>2, <1>4, <1>7, <2>1, <2>2, <2>3, Sorts DEF IntentInv, TypeOK, JobSound, SourceWaits, RevalidationWaits, CountsOnce,
        PushesKnown, ComparesHeads, ReadyHead, HeadSeen, Open, Outstanding, ApprovalIsCurrent, Terminal
<1> QED BY <1>3, <1>5, <1>6, <1>7

\* The label is added again.
LEMMA TriggerKeeps == ASSUME IntentInv, Trigger PROVE IntentInv'
<1> DEFINE prior == PriorIntent /\ flow.stage = "review" /\ flow.head = 1
           state == IF flow.stage = "review" THEN "reviewing" ELSE "developing"
           next  == IF prior THEN "revalidate" ELSE "turn"
<1>1. UNCHANGED <<remote, intent, verifier>> /\ flow.state \in {"needs_human", "ready"} /\ flow.next = "none"
  BY DEF Trigger
<1>2. CASE PriorIntent /\ owner = "human"
  <2>1. flow' = [flow EXCEPT !.revision = flow.revision + 1, !.reason = "human_control"] /\ recovery' = recovery
    BY <1>2 DEF Trigger
  <2>2. flow' \in Flows
    BY <2>1, Sorts, Zenon DEF Flows, Terminal
  <2>3. /\ flow'.state = flow.state /\ flow'.next = flow.next /\ flow'.reason = "human_control" /\ flow'.attempt = flow.attempt
        /\ flow'.head = flow.head /\ flow'.ready = flow.ready /\ flow'.pending = flow.pending
    BY <2>1, Sorts DEF Flows
  <2> QED BY <1>1, <1>2, <2>1, <2>2, <2>3 DEF PriorIntent, IntentInv, TypeOK, JobSound, SourceWaits, RevalidationWaits, CountsOnce,
        PushesKnown, ComparesHeads, ReadyHead, HeadSeen, Open, Outstanding, ApprovalIsCurrent, Terminal
<1>3. CASE ~(PriorIntent /\ owner = "human")
  <2>1. flow' = [flow EXCEPT !.state = state, !.attempt = flow.attempt + 1, !.revision = flow.revision + 1, !.ready = 0,
                             !.reason = "none", !.next = next]
    BY <1>3 DEF Trigger
  <2>2. recovery' = IF prior THEN [NoJob EXCEPT !.kind = "revalidate", !.status = "available", !.attempt = flow.attempt + 1]
                    ELSE recovery
    BY <1>3 DEF Trigger
  <2>3. /\ state \in {"reviewing", "developing"} /\ next = IF prior THEN "revalidate" ELSE "turn"
        /\ prior => state = "reviewing" /\ flow.head = 1 /\ flow.reason \in Terminal
        /\ next \in {"revalidate", "turn"}
    BY DEF PriorIntent
  <2> HIDE DEF state, next, prior
  <2>4. flow' \in Flows
    BY <2>1, <2>3, Sorts, Zenon DEF Flows
  <2>5. /\ flow'.state = state /\ flow'.next = next /\ flow'.reason = "none" /\ flow'.attempt = flow.attempt + 1
        /\ flow'.head = flow.head /\ flow'.ready = 0 /\ flow'.pending = flow.pending
    BY <2>1, Sorts DEF Flows
  <2>6. /\ recovery' \in Jobs
        /\ prior => recovery'.kind = "revalidate" /\ recovery'.attempt = flow.attempt + 1
        /\ ~prior => recovery' = recovery
        /\ recovery'.holder # "none" => recovery'.status = "leased"
        /\ recovery'.kind = "none" => recovery'.status = "none"
    BY <2>2, Sorts DEF IntentInv, JobSound, NoJob, Jobs
  <2> QED BY <1>1, <2>3, <2>4, <2>5, <2>6 DEF IntentInv, TypeOK, JobSound, SourceWaits, RevalidationWaits, CountsOnce,
        PushesKnown, ComparesHeads, ReadyHead, HeadSeen, Open, Outstanding, ApprovalIsCurrent, Terminal
<1> QED BY <1>2, <1>3

-----------------------------------------------------------------------------
(* Steps that settle the intent.                                           *)

\* A worker that passes the fence finds the Workflow where the job was created, and the review not counted.
LEMMA FencedFacts ==
    ASSUME IntentInv, NEW w \in Verifiers, Fenced(w)
    PROVE  /\ recovery.status = "leased" /\ recovery.kind \in {"verify", "revalidate"}
           /\ flow.state = "reviewing" /\ flow.head = 1 /\ flow.ready = 0 /\ flow.reason = "none" /\ intent.applied = 0
           /\ recovery.kind = "verify" =>
                 intent.turn = "corroborating" /\ intent.checkpoint = "pending" /\ flow.next = "source"
           /\ recovery.kind = "revalidate" =>
                 /\ intent.turn = "failed" /\ intent.checkpoint = "handed_off"
                 /\ flow.next = "revalidate" /\ flow.pending = 0 /\ remote.delivered = 1
           /\ flow.pending = 0 => remote.delivered = 1
  BY Sorts DEF Fenced, Purpose, IntentInv, JobSound, SourceWaits, RevalidationWaits, CountsOnce, PushesKnown, ComparesHeads, ReadyHead, Open,
        Outstanding, Jobs, Remotes

\* A job that is done is held by nobody, and no longer outstanding.
LEMMA DoneJob ==
    ASSUME IntentInv, recovery.kind # "none"
    PROVE  Done \in Jobs /\ Done.kind = recovery.kind /\ Done.status = "done" /\ Done.holder = "none"
  BY Sorts DEF Done, Jobs

\* A worker that stops, or goes to another step, has not seen less.
LEMMA Stopped ==
    ASSUME IntentInv, NEW w \in Verifiers, Stop(w) \/ Goto(w, "retry")
    PROVE  /\ verifier' \in [Verifiers -> Steps] /\ HeadSeen'
           /\ \A v \in Verifiers : verifier'[v] = verifier[v] \/ verifier'[v].at \in {"idle", "retry"}
<1>1. verifier \in [Verifiers -> Steps] /\ HeadSeen
  BY DEF IntentInv, TypeOK
<1>2. CASE Stop(w)
  BY <1>1, <1>2 DEF Stop, Idle, Steps, HeadSeen
<1>3. CASE Goto(w, "retry")
  BY <1>1, <1>3 DEF Goto, Steps, HeadSeen
<1> QED BY <1>2, <1>3

\* What the settlement leaves to do; the deferred events come first.
LEMMA AfterNext ==
    ASSUME NEW next
    PROVE  After(next) = IF flow.pending # 0 THEN "reconcile" ELSE next
  BY DEF After

\* A worker gives up, and asks a person.
LEMMA HandOffKeeps == ASSUME IntentInv, NEW w \in Verifiers, HandOff(w) PROVE IntentInv'
<1> DEFINE next   == After("none")
           reason == IF At(w) = "give_up" THEN "exhausted" ELSE "prerequisite"
           revalidated == IF Purpose = "revalidate" THEN recovery.attempt ELSE intent.revalidated
<1>1. /\ UNCHANGED remote /\ verifier' \in [Verifiers -> Steps] /\ HeadSeen'
      /\ \A v \in Verifiers : verifier'[v] = verifier[v] \/ verifier'[v].at \in {"idle", "retry"}
  BY Stopped DEF HandOff
<1>2. CASE ~Fenced(w)
  <2>1. UNCHANGED <<flow, intent, recovery>>
    BY <1>2 DEF HandOff
  <2> QED BY <1>1, <2>1 DEF IntentInv, TypeOK, JobSound, SourceWaits, RevalidationWaits, CountsOnce,
        PushesKnown, ComparesHeads, ReadyHead, HeadSeen, Open, Outstanding, ApprovalIsCurrent, Terminal
<1>3. CASE Fenced(w)
  <2>1. /\ flow' = [flow EXCEPT !.state = "needs_human", !.revision = flow.revision + 1, !.next = next, !.reason = reason]
        /\ intent' = [intent EXCEPT !.checkpoint = "handed_off", !.turn = "failed", !.revalidated = revalidated]
        /\ recovery' = Done
    BY <1>3, Zenon DEF HandOff
  <2>2. /\ next = (IF flow.pending # 0 THEN "reconcile" ELSE "none") /\ reason \in Terminal /\ revalidated \in Nat
    BY AfterNext, Sorts DEF Intents, Jobs, Terminal
  <2> HIDE DEF next, reason, revalidated
  <2>3. flow' \in Flows
    <3>1. next \in {"source", "none", "turn", "reconcile", "revalidate"} /\ reason \in Terminal \cup {"none", "effect", "blocked"}
      BY <2>2
    <3> QED BY <2>1, <3>1, Sorts, Zenon DEF Flows
  <2>4. intent' \in Intents /\ intent'.turn = "failed" /\ intent'.checkpoint = "handed_off" /\ intent'.applied = intent.applied
    BY <2>1, <2>2, Sorts DEF Intents
  <2>5. /\ flow'.state = "needs_human" /\ flow'.next = next /\ flow'.reason = reason
        /\ flow'.head = flow.head /\ flow'.ready = flow.ready /\ flow'.pending = flow.pending
    BY <2>1, Sorts DEF Flows
  <2> QED BY <1>1, <1>3, <2>1, <2>2, <2>3, <2>4, <2>5, FencedFacts, DoneJob, Sorts
        DEF IntentInv, TypeOK, JobSound, SourceWaits, RevalidationWaits, CountsOnce,
        PushesKnown, ComparesHeads, ReadyHead, Open, Outstanding, ApprovalIsCurrent
<1> QED BY <1>2, <1>3

\* A revalidation that finds another head starts a turn.
LEMMA RedirectKeeps == ASSUME IntentInv, NEW w \in Verifiers, Redirect(w) PROVE IntentInv'
<1>1. /\ UNCHANGED remote /\ verifier' \in [Verifiers -> Steps] /\ HeadSeen'
      /\ \A v \in Verifiers : verifier'[v] = verifier[v] \/ verifier'[v].at \in {"idle", "retry"}
  BY Stopped DEF Redirect
<1>2. CASE ~(Fenced(w) /\ flow.revision = verifier[w].revision)
  <2>1. UNCHANGED <<flow, intent, recovery>>
    BY <1>2 DEF Redirect
  <2> QED BY <1>1, <2>1 DEF IntentInv, TypeOK, JobSound, SourceWaits, RevalidationWaits, CountsOnce,
        PushesKnown, ComparesHeads, ReadyHead, HeadSeen, Open, Outstanding, ApprovalIsCurrent, Terminal
<1>3. CASE Fenced(w) /\ flow.revision = verifier[w].revision
  <2>0. recovery.kind = "revalidate"
    BY <1>3 DEF Redirect, At, Fenced, IntentInv, ComparesHeads
  <2>1. /\ flow' = [flow EXCEPT !.head = verifier[w].seen, !.ready = 0, !.next = "turn"]
        /\ intent' = [intent EXCEPT !.revalidated = recovery.attempt]
        /\ recovery' = Done
    BY <1>3 DEF Redirect
  <2>2. verifier[w].seen \in Nat /\ verifier[w].seen >= 1 /\ recovery.attempt \in Nat
    BY Sorts DEF Redirect, At, IntentInv, HeadSeen, Steps, Jobs
  <2>3. flow' \in Flows
    BY <2>1, <2>2, Sorts, Zenon DEF Flows
  <2>4. /\ intent' \in Intents /\ intent'.turn = intent.turn /\ intent'.checkpoint = intent.checkpoint
        /\ intent'.applied = intent.applied
    BY <2>1, <2>2, Sorts DEF Intents
  <2>5. /\ flow'.state = flow.state /\ flow'.next = "turn" /\ flow'.reason = flow.reason
        /\ flow'.head = verifier[w].seen /\ flow'.ready = 0 /\ flow'.pending = flow.pending
    BY <2>1, Sorts DEF Flows
  <2> QED BY <1>1, <1>3, <2>0, <2>1, <2>2, <2>3, <2>4, <2>5, FencedFacts, DoneJob, Sorts
        DEF IntentInv, TypeOK, JobSound, SourceWaits, RevalidationWaits, CountsOnce,
        PushesKnown, ComparesHeads, ReadyHead, Open, Outstanding, ApprovalIsCurrent
<1> QED BY <1>2, <1>3

\* What a settlement makes of the intent: nothing but an application counts.
Answered(applied) ==
    /\ intent' \in Intents /\ intent'.applied = applied
    /\ intent.turn = "corroborating" => intent'.turn = "succeeded"
    /\ intent.turn # "corroborating" => intent'.turn = intent.turn
    /\ intent.checkpoint = "pending" => intent'.checkpoint = "verified"
    /\ intent.checkpoint # "pending" => intent'.checkpoint = intent.checkpoint

\* The verdict is applied to the Workflow, or the review starts again on the head that was seen.
LEMMA ApplyKeeps ==
    ASSUME IntentInv, NEW w \in Verifiers, Fenced(w), NEW verdict, NEW seen \in Nat, seen >= 1, Apply(verdict, seen),
           recovery' = Done, UNCHANGED remote, Stop(w)
    PROVE  IntentInv'
<1> DEFINE revalidated == IF Purpose = "revalidate" THEN recovery.attempt ELSE intent.revalidated
           ended == IF intent.turn = "corroborating" THEN "succeeded" ELSE intent.turn
           checkpoint == IF intent.checkpoint = "pending" THEN "verified" ELSE intent.checkpoint
           toTurn == After("turn")
           toNone == After("none")
<1>1. /\ verifier' \in [Verifiers -> Steps] /\ HeadSeen'
      /\ \A v \in Verifiers : verifier'[v] = verifier[v] \/ verifier'[v].at \in {"idle", "retry"}
  BY Stopped
<1>2. /\ revalidated \in Nat
      /\ ended \in {"settling", "corroborating", "failed", "succeeded", "cancelled"}
      /\ checkpoint \in {"none", "pending", "handed_off", "verified", "cancelled"}
      /\ intent.applied \in Nat /\ intent.applied + 1 \in Nat
  BY Sorts DEF Intents, Jobs
<1>3. /\ toTurn = (IF flow.pending # 0 THEN "reconcile" ELSE "turn")
      /\ toNone = (IF flow.pending # 0 THEN "reconcile" ELSE "none")
      /\ toTurn \in {"source", "none", "turn", "reconcile", "revalidate"}
      /\ toNone \in {"source", "none", "turn", "reconcile", "revalidate"}
  BY AfterNext
<1>4. ASSUME NEW applied \in Nat,
             intent' = [intent EXCEPT !.applied = applied, !.turn = ended, !.checkpoint = checkpoint, !.revalidated = revalidated]
      PROVE  Answered(applied)
  <2>1. /\ intent.turn = "corroborating" => ended = "succeeded"
        /\ intent.turn # "corroborating" => ended = intent.turn
        /\ intent.checkpoint = "pending" => checkpoint = "verified"
        /\ intent.checkpoint # "pending" => checkpoint = intent.checkpoint
    OBVIOUS
  <2> HIDE DEF revalidated, ended, checkpoint
  <2> QED BY <1>2, <1>4, <2>1, Sorts DEF Intents, Answered
<1>5. CASE ReviewIsStale(seen)
  <2>1. /\ flow' = [flow EXCEPT !.head = seen, !.ready = 0, !.revision = flow.revision + 1, !.next = toTurn]
        /\ intent' = [intent EXCEPT !.turn = ended, !.checkpoint = checkpoint, !.revalidated = revalidated]
    BY <1>5, Zenon DEF Apply
  <2>2. Answered(intent.applied)
    <3>1. [intent EXCEPT !.turn = ended, !.checkpoint = checkpoint, !.revalidated = revalidated]
          = [intent EXCEPT !.applied = intent.applied, !.turn = ended, !.checkpoint = checkpoint, !.revalidated = revalidated]
      <4> HIDE DEF revalidated, ended, checkpoint
      <4> QED BY Sorts DEF Intents
    <3> QED BY <1>2, <1>4, <2>1, <3>1
  <2> HIDE DEF toTurn, toNone, revalidated, ended, checkpoint
  <2>3. flow' \in Flows
    BY <1>3, <2>1, Sorts, Zenon DEF Flows
  <2>4. /\ flow'.state = flow.state /\ flow'.next = toTurn /\ flow'.reason = flow.reason
        /\ flow'.head = seen /\ flow'.ready = 0 /\ flow'.pending = flow.pending
    BY <2>1, Sorts DEF Flows
  <2> QED BY <1>1, <1>3, <2>2, <2>3, <2>4, FencedFacts, DoneJob, Sorts
        DEF Answered, IntentInv, TypeOK, JobSound, SourceWaits, RevalidationWaits, CountsOnce,
        PushesKnown, ComparesHeads, ReadyHead, Open, Outstanding, ApprovalIsCurrent
<1>6. CASE ~ReviewIsStale(seen)
  <2>1. seen = 1 /\ flow.pending = 0 /\ intent.applied = 0 /\ intent.applied + 1 = 1
    BY <1>6, Sorts, FencedFacts DEF ReviewIsStale, IntentInv, PushesKnown
  <2>2. /\ intent' = [intent EXCEPT !.applied = intent.applied + 1, !.turn = ended, !.checkpoint = checkpoint, !.revalidated = revalidated]
        /\ \/ flow' = [flow EXCEPT !.state = "ready", !.ready = 1, !.revision = flow.revision + 1, !.next = toNone]
           \/ flow' = [flow EXCEPT !.state = "developing", !.stage = "development", !.revision = flow.revision + 1, !.next = toTurn]
    BY <1>6, Zenon DEF Apply
  <2>3. Answered(1)
    BY <1>2, <1>4, <2>1, <2>2
  <2> HIDE DEF toTurn, toNone, revalidated, ended, checkpoint
  <2>4. CASE flow' = [flow EXCEPT !.state = "ready", !.ready = 1, !.revision = flow.revision + 1, !.next = toNone]
    <3>1. 1 \in Nat
      OBVIOUS
    <3>2. flow' \in Flows
      BY <1>3, <2>4, <3>1, Sorts, Zenon DEF Flows
    <3>3. /\ flow'.state = "ready" /\ flow'.next = toNone /\ flow'.reason = flow.reason
          /\ flow'.head = flow.head /\ flow'.ready = 1 /\ flow'.pending = flow.pending
      BY <2>4, Sorts DEF Flows
    <3> QED BY <1>1, <1>3, <2>1, <2>3, <3>2, <3>3, FencedFacts, DoneJob, Sorts
        DEF Answered, Terminal, IntentInv, TypeOK, JobSound, SourceWaits, RevalidationWaits, CountsOnce,
        PushesKnown, ComparesHeads, ReadyHead, Open, Outstanding, ApprovalIsCurrent
  <2>5. CASE flow' = [flow EXCEPT !.state = "developing", !.stage = "development", !.revision = flow.revision + 1, !.next = toTurn]
    <3>1. flow' \in Flows
      BY <1>3, <2>5, Sorts, Zenon DEF Flows
    <3>2. /\ flow'.state = "developing" /\ flow'.next = toTurn /\ flow'.reason = flow.reason
          /\ flow'.head = flow.head /\ flow'.ready = flow.ready /\ flow'.pending = flow.pending
      BY <2>5, Sorts DEF Flows
    <3> QED BY <1>1, <1>3, <2>1, <2>3, <3>1, <3>2, FencedFacts, DoneJob, Sorts
        DEF Answered, Terminal, IntentInv, TypeOK, JobSound, SourceWaits, RevalidationWaits, CountsOnce,
        PushesKnown, ComparesHeads, ReadyHead, Open, Outstanding, ApprovalIsCurrent
  <2> QED BY <2>2, <2>4, <2>5
<1> QED BY <1>5, <1>6

\* A worker settles with what it has read.
LEMMA SettleKeeps == ASSUME IntentInv, NEW w \in Verifiers, Settle(w) PROVE IntentInv'
<1>1. verifier[w].seen \in Nat /\ verifier[w].seen >= 1 /\ UNCHANGED remote
  BY Sorts DEF Settle, At, IntentInv, HeadSeen, Steps
<1>2. CASE Fenced(w) /\ ~Superseded(w)
  BY <1>1, <1>2, ApplyKeeps DEF Settle
<1>3. CASE ~(Fenced(w) /\ ~Superseded(w))
  <2>1. UNCHANGED <<flow, intent, recovery>> /\ (Stop(w) \/ Goto(w, "retry"))
    BY <1>3 DEF Settle
  <2>2. /\ verifier' \in [Verifiers -> Steps] /\ HeadSeen'
        /\ \A v \in Verifiers : verifier'[v] = verifier[v] \/ verifier'[v].at \in {"idle", "retry"}
    BY <2>1, Stopped
  <2> QED BY <1>1, <2>1, <2>2 DEF IntentInv, TypeOK, JobSound, SourceWaits, RevalidationWaits, CountsOnce,
        PushesKnown, ComparesHeads, ReadyHead, HeadSeen, Open, Outstanding, ApprovalIsCurrent
<1> QED BY <1>2, <1>3

-----------------------------------------------------------------------------
(* The theorems.                                                           *)

\* Every step preserves the invariant.
LEMMA IntentStep == ASSUME DistinctNames, IntentInv, [IntentNext]_intentVars PROVE IntentInv'
<1>1. CASE Begin
  BY <1>1, BeginKeeps
<1>2. ASSUME NEW w \in Verifiers, VerifierStep(w) \/ LoseRecoveryLease(w) PROVE IntentInv'
  BY <1>2, ReadKeeps, JobKeeps, HandOffKeeps, RedirectKeeps, SettleKeeps DEF VerifierStep
<1>3. CASE ExpireRecoveryLease \/ Tick
  BY <1>3, JobKeeps
<1>4. CASE Push \/ Synchronize \/ Reconcile
  BY <1>4, PushKeeps, SynchronizeKeeps, ReconcileKeeps
<1>5. CASE TurnBlocked \/ EscalateEffect \/ Trigger
  BY <1>5, BlockedKeeps, EscalateKeeps, TriggerKeeps
<1>6. CASE TransferControl \/ CloseIssue \/ CompleteClosure
  BY <1>6, TransferKeeps, CloseKeeps, ClosureKeeps
<1>7. CASE UNCHANGED intentVars
  BY <1>7 DEF intentVars, IntentInv, TypeOK, JobSound, SourceWaits, RevalidationWaits, CountsOnce,
        PushesKnown, ComparesHeads, ReadyHead, HeadSeen, Open, Outstanding, ApprovalIsCurrent
<1> QED BY <1>1, <1>2, <1>3, <1>4, <1>5, <1>6, <1>7 DEF IntentNext

\* The inductive invariant: Workflow, source turn, checkpoint, job, worker and pushes together.
THEOREM IntentInvariance == ASSUME DistinctNames PROVE IntentSpec => []IntentInv
<1>1. IntentInit => IntentInv
  BY IntentInitially
<1>2. IntentInv /\ [IntentNext]_intentVars => IntentInv'
  BY IntentStep
<1> QED BY <1>1, <1>2, PTL DEF IntentSpec

\* One review is applied to the Workflow at most once, however it was verified, handed off, revalidated and taken over
\* (settleTerminalCorroboration, applyTerminalRevalidation, reduceWorkflowEvent).
THEOREM ReviewCountsOnce == ASSUME DistinctNames PROVE IntentSpec => []AppliedOnce
<1>1. IntentInv => AppliedOnce
  BY DEF IntentInv, CountsOnce, AppliedOnce
<1> QED BY <1>1, IntentInvariance, PTL

\* A late approval makes no other head ready than its own, and only before a newer push has reached the Workflow
\* (reduceReviewSettled, reducePreviouslyAcceptedTerminalReview).
THEOREM LateApprovalIsCurrent == ASSUME DistinctNames PROVE IntentSpec => []ApprovalIsCurrent
<1>1. IntentInv => ApprovalIsCurrent
  BY DEF IntentInv, ReadyHead
<1> QED BY <1>1, IntentInvariance, PTL

-----------------------------------------------------------------------------
(* The gate before a review: what a Reviewer is started on.                *)

AdmissionVars == <<pr, runs, clock, faults, request, proposal, gate, turn>>
AdmissionSpec == AdmissionInit /\ [][AdmissionNext]_AdmissionVars

\* A result that is reported: it comes from an App.
IsResult(r) ==
    /\ DOMAIN r = {"id", "commit", "kind", "context", "app", "done"}
    /\ r.app = 1 /\ r.kind \in Kinds

\* Every result is reported by an App, as a kind the constants name.
RunInv == \A r \in runs : IsResult(r)

\* The newest of its kind on its commit.
IsNewest(R, r) == \A s \in R : s.commit = r.commit /\ s.kind = r.kind => s.id <= r.id

-----------------------------------------------------------------------------
\* A required context that is terminal anywhere admits the results of the App that reports them.
LEMMA TerminalIsAdmitted ==
    ASSUME NEW R, \A r \in R : r.app = 1, NEW c, NEW F, NEW q, NEW o, o = ObserveCI(R, c, F),
           "terminal" \in MatchRequiredCI(q, Selected(q, o))
    PROVE  q.app = 0 \/ q.app = 1
<1> DEFINE x == Selected(q, o)
<1>1. x.checks \subseteq R
  BY Zenon DEF ObserveCI, Selected
<1>. HIDE DEF x
<1>2. "terminal" \in MatchRequiredCI(q, x)
  BY DEF x
<1>. QED  BY <1>1, <1>2 DEF MatchRequiredCI, Latest

\* A result that is unfinished and the newest of its kind keeps the context that asks for it from completing.
LEMMA UnfinishedIsSeen ==
    ASSUME NEW R, \A r \in R : r.app = 1, NEW F, NEW q, NEW r \in R, NEW o, o = ObserveCI(R, r.commit, F),
           r.kind \in {"check", "status"}, IsNewest(R, r), ~r.done,
           r.context = q.context, q.type \in {"any", r.kind}, q.app = 0 \/ q.app = 1
    PROVE  ~(MatchRequiredCI(q, Selected(q, o)) \subseteq {"terminal", "missing"})
<1> DEFINE x == Selected(q, o)
<1>1. CASE r.kind = "check"
  <2>1. CASE {"checks", "repository"} \cap F = {}
    <3>1. r \in x.checks /\ \A s \in x.checks : s \in R /\ s.commit = r.commit /\ s.kind = r.kind
      BY <1>1, <2>1 DEF ObserveCI, Selected
    <3>. HIDE DEF x
    <3>2. r \in Latest({c \in {c \in x.checks : c.context = q.context} : c.app # 0 /\ q.app \in {0, c.app}})
      BY <3>1 DEF Latest, IsNewest
    <3>3. "pending" \in MatchRequiredCI(q, x)
      BY <3>2 DEF MatchRequiredCI
    <3>. QED  BY <3>3 DEF x
  <2>2. CASE {"checks", "repository"} \cap F # {}
    <3>1. Failed(x, "checks")
      BY <1>1, <2>2 DEF ObserveCI, Selected, Failed
    <3>. HIDE DEF x
    <3>3. "unavailable" \in MatchRequiredCI(q, x)
      BY <3>1 DEF MatchRequiredCI
    <3>. QED  BY <3>3 DEF x
  <2>. QED  BY <2>1, <2>2
<1>2. CASE r.kind = "status"
  <2>1. CASE {"statuses", "repository"} \cap F = {}
    <3>1. r \in x.statuses /\ \A s \in x.statuses : s \in R /\ s.commit = r.commit /\ s.kind = r.kind
      BY <1>2, <2>1 DEF ObserveCI, Selected
    <3>. HIDE DEF x
    <3>2. \A s \in x.statuses : s.id <= r.id
      BY <3>1 DEF IsNewest
    <3>3. "pending" \in MatchRequiredCI(q, x) \/ "unresolved" \in MatchRequiredCI(q, x)
      BY <3>1, <3>2 DEF MatchRequiredCI
    <3>. QED  BY <3>3 DEF x
  <2>2. CASE {"statuses", "repository"} \cap F # {}
    <3>1. Failed(x, "statuses")
      BY <1>2, <2>2 DEF ObserveCI, Selected, Failed
    <3>. HIDE DEF x
    <3>3. "unavailable" \in MatchRequiredCI(q, x)
      BY <3>1 DEF MatchRequiredCI
    <3>. QED  BY <3>3 DEF x
  <2>. QED  BY <2>1, <2>2
<1>. QED  BY <1>1, <1>2

\* A review that starts because its checks completed leaves no required result of its head unfinished.
LEMMA CompletedIsComplete ==
    ASSUME RunInv, NEW policy, NEW inventory, NEW mapping, NEW commits, NEW failures, NEW head, <<head, 0>> \in commits,
           NEW graceDone, NEW late,
           EvaluateReviewCI(policy, inventory, mapping, Observations(policy, commits, failures), graceDone, late) = "completed_ci",
           NEW q \in IF inventory.required = {} THEN {Requirement("build", 0, "any")} ELSE inventory.required
    PROVE  ~Unfinished(head, q)
<1> DEFINE observations == Observations(policy, commits, failures)
           o == ObserveCI(runs, <<head, 0>>, failures)
           required == IF inventory.required = {} THEN Observed(observations) ELSE inventory.required
<1>. SUFFICES ASSUME NEW r \in runs, r.commit = <<head, 0>>, r.context = q.context, q.type \in {"any", r.kind}, ~r.done,
                     \A s \in runs : s.commit = r.commit /\ s.kind = r.kind => s.id <= r.id
              PROVE  FALSE
  BY Zenon DEF Unfinished
<1>0. IsNewest(runs, r)
  BY DEF IsNewest
<1>1. /\ policy.start # "immediate"
      /\ inventory.required = {} => policy.selection # "explicit"
      /\ policy.selection = "explicit" \/ \A p \in observations : p.failures = {}
      /\ Complete(required, observations)
  BY DEF EvaluateReviewCI
<1>2. observations = {ObserveCI(runs, c, failures) : c \in commits} /\ o \in observations
  BY <1>1 DEF Observations
<1>3. r.app = 1 /\ r.kind \in {"check", "status"}
  BY AdmissionAssumption DEF RunInv, IsResult
<1>4. q \in required
  <2>1. CASE inventory.required = {}
    <3>1. q = Requirement("build", 0, "any") /\ o.failures = {}
      BY <2>1, <1>1, <1>2
    <3>2. failures = {}
      BY <3>1 DEF ObserveCI
    <3>3. r \in o.checks \cup o.statuses
      BY <3>2, <1>3 DEF ObserveCI
    <3>4. Requirement(r.context, 0, "any") \in Observed(observations)
      BY <3>3, <1>2, Zenon DEF Observed
    <3>5. r.context = "build"
      BY <3>1 DEF Requirement
    <3>. QED  BY <3>1, <3>4, <3>5, <2>1
  <2>2. CASE inventory.required # {}
    BY <2>2
  <2>. QED  BY <2>1, <2>2
<1>5. /\ \E p \in observations : "terminal" \in MatchRequiredCI(q, Selected(q, p))
      /\ MatchRequiredCI(q, Selected(q, o)) \subseteq {"terminal", "missing"}
  BY <1>1, <1>2, <1>4, Zenon DEF Complete
<1>6. \A s \in runs : s.app = 1
  BY DEF RunInv, IsResult
<1>7. PICK c \in commits : "terminal" \in MatchRequiredCI(q, Selected(q, ObserveCI(runs, c, failures)))
  BY <1>2, <1>5
<1>8. q.app = 0 \/ q.app = 1
  BY <1>6, <1>7, TerminalIsAdmitted
<1>9. o = ObserveCI(runs, r.commit, failures)
  OBVIOUS
<1>. HIDE DEF o
<1>. QED  BY <1>0, <1>3, <1>5, <1>6, <1>8, <1>9, UnfinishedIsSeen

-----------------------------------------------------------------------------
(* The inductive invariant.                                                *)

\* Evidence of a head.
Supports(e, head) == e.head = head /\ e.complete

\* A row of review_admission_requests that was not cancelled.
IsRequest(r) ==
    /\ DOMAIN r = {"status", "generation", "head", "base", "merge", "policy", "inventory", "observed", "deadline",
                    "created", "anchor", "evidence"}
    /\ r.status \in {"WAITING", "RELEASED", "ADMITTED"}

\* What is released rests on evidence of the head it names.
RequestInv ==
    \/ request \in {NoRequest, CancelledRequest}
    \/ IsRequest(request) /\ (request.status = "RELEASED" => Supports(request.evidence, request.head))

\* What the worker is about to record rests on evidence of the head it read.
GateInv ==
    /\ DOMAIN gate = {"at", "pass", "copy", "verified", "read"}
    /\ gate.at = "record" => Supports(gate.read.evidence, gate.read.head)

\* So does the turn that was started.
TurnInv ==
    /\ DOMAIN turn = {"status", "head", "evidence", "retries"}
    /\ turn.status = "active" => Supports(turn.evidence, turn.head)

AdmissionInv == RunInv /\ RequestInv /\ GateInv /\ TurnInv

-----------------------------------------------------------------------------
LEMMA ResultCompletes == ASSUME NEW r, IsResult(r) PROVE IsResult([r EXCEPT !.done = TRUE])
<1>. QED  BY DEF IsResult

LEMMA ReportKept == ASSUME RunInv, ReportResult PROVE RunInv'
<1>1. CASE \E commit \in {<<pr.head, 0>>, <<pr.head, pr.base>>}, kind \in Kinds :
                runs' = runs \cup {[id |-> Cardinality(runs) + 1, commit |-> commit, kind |-> kind,
                                    context |-> "build", app |-> 1, done |-> FALSE]}
  BY <1>1 DEF RunInv, IsResult
<1>2. CASE \E r \in runs : ~r.done /\ runs' = (runs \ {r}) \cup {[r EXCEPT !.done = TRUE]}
  <2>1. PICK r \in runs : runs' = (runs \ {r}) \cup {[r EXCEPT !.done = TRUE]}
    BY <1>2
  <2>2. IsResult(r)
    BY DEF RunInv
  <2>3. IsResult([r EXCEPT !.done = TRUE])
    BY <2>2, ResultCompletes
  <2>. QED  BY <2>1, <2>3 DEF RunInv
<1>. QED  BY <1>1, <1>2 DEF ReportResult

\* What the worker observed supports the decision it hands over.
LEMMA ObservedSupports ==
    ASSUME RunInv, NEW mapped, NEW listed, NEW failures, NEW protection
    PROVE  LET o == Look(mapped, listed, failures, protection) IN Supports(o.evidence, o.head)
<1> DEFINE mapping   == VerifyCITarget(pr, gate.read.head, mapped)
           inventory == IF gate.copy.inventory.available THEN gate.copy.inventory
                        ELSE Inventory(gate.read.policy, protection, listed)
           commits   == {<<gate.read.head, 0>>} \cup (IF mapping.state = "verified" THEN {mapping.merge} ELSE {})
           observations == Observations(gate.read.policy, commits, failures)
           o == Observation(mapping, inventory, observations)
<1>1. o = Look(mapped, listed, failures, protection)
  BY Zenon DEF Look
<1>2. <<gate.read.head, 0>> \in commits
  OBVIOUS
<1>. HIDE DEF mapping, inventory, commits
<1>3. ASSUME NEW graceDone, NEW late,
             EvaluateReviewCI(gate.read.policy, inventory, mapping, observations, graceDone, late) = "completed_ci",
             NEW q \in IF inventory.required = {} THEN {Requirement("build", 0, "any")} ELSE inventory.required
      PROVE  ~Unfinished(gate.read.head, q)
  <2> DEFINE policy == gate.read.policy
             head == gate.read.head
  <2>1. EvaluateReviewCI(policy, inventory, mapping, Observations(policy, commits, failures), graceDone, late) = "completed_ci"
    BY <1>3
  <2>2. <<head, 0>> \in commits
    BY <1>2
  <2>3. q \in IF inventory.required = {} THEN {Requirement("build", 0, "any")} ELSE inventory.required
    BY <1>3
  <2> HIDE DEF policy, head
  <2>4. ~Unfinished(head, q)
    BY <2>1, <2>2, <2>3, CompletedIsComplete
  <2>. QED  BY <2>4 DEF head
<1>. HIDE DEF observations
<1>4. Supports(o.evidence, o.head)
  BY <1>3 DEF Observation, Supports
<1>. QED  BY <1>1, <1>4

-----------------------------------------------------------------------------
LEMMA AdmissionInitInv == AdmissionInit => AdmissionInv
<1>. SUFFICES ASSUME AdmissionInit PROVE AdmissionInv
  OBVIOUS
<1>1. RunInv /\ RequestInv
  BY DEF AdmissionInit, RunInv, RequestInv
<1>2. GateInv /\ TurnInv
  BY DEF AdmissionInit, GateInv, TurnInv, GateAt, NoTurn
<1>. QED  BY <1>1, <1>2 DEF AdmissionInv

\* GitHub and time, and the reads of GitHub but the one of the target.
LEMMA SurroundingsKept ==
    ASSUME AdmissionInv, PushHead \/ Remerge \/ ReportResult \/ ClockTicks \/ ReadPullRequest \/ GiveBack \/ Verify
    PROVE  AdmissionInv'
<1>1. RunInv'
  <2>1. CASE ReportResult
    BY <2>1, ReportKept DEF AdmissionInv
  <2>2. CASE PushHead \/ Remerge \/ ClockTicks \/ ReadPullRequest \/ GiveBack \/ Verify
    BY <2>2 DEF PushHead, Remerge, ClockTicks, ReadPullRequest, GiveBack, Verify, github, AdmissionInv, RunInv
  <2>. QED  BY <2>1, <2>2
<1>2. RequestInv' /\ TurnInv'
  <2>1. UNCHANGED <<request, turn>>
    BY DEF PushHead, Remerge, ReportResult, ClockTicks, ReadPullRequest, GiveBack, Verify, durable
  <2>. QED  BY <2>1 DEF AdmissionInv, RequestInv, TurnInv
<1>3. GateInv'
  <2>1. CASE PushHead \/ Remerge \/ ReportResult \/ ClockTicks
    BY <2>1 DEF PushHead, Remerge, ReportResult, ClockTicks, AdmissionInv, GateInv
  <2>2. CASE GiveBack
    BY <2>2 DEF GiveBack, GateAt, GateInv
  <2>3. CASE Verify
    BY <2>3 DEF Verify, AdmissionInv, GateInv
  <2>4. CASE ReadPullRequest
    <3>1. PICK read : \/ gate' = [gate EXCEPT !.at = "observe", !.read = read]
                      \/ gate' = [gate EXCEPT !.at = "record", !.read = Unavailable(gate.copy)]
      BY <2>4 DEF ReadPullRequest
    <3>2. Supports(Unavailable(gate.copy).evidence, Unavailable(gate.copy).head)
      BY DEF Unavailable, Supports
    <3>. QED  BY <3>1, <3>2 DEF AdmissionInv, GateInv
  <2>. QED  BY <2>1, <2>2, <2>3, <2>4
<1>. QED  BY <1>1, <1>2, <1>3 DEF AdmissionInv

LEMMA ObserveKept == ASSUME AdmissionInv, ObserveTarget PROVE AdmissionInv'
<1>1. PICK mapped \in BOOLEAN, listed \in BOOLEAN, failures \in {{}, {"checks"}, {"repository"}}, protection \in Protections :
         gate' = [gate EXCEPT !.at = "record", !.read = Look(mapped, listed, failures, protection)]
  BY Zenon DEF ObserveTarget
<1> DEFINE o == Look(mapped, listed, failures, protection)
<1>2. Supports(o.evidence, o.head)
  BY ObservedSupports, Zenon DEF AdmissionInv
<1>. HIDE DEF o
<1>3. gate' = [gate EXCEPT !.at = "record", !.read = o]
  BY <1>1 DEF o
<1>4. GateInv'
  BY <1>2, <1>3 DEF AdmissionInv, GateInv
<1>5. UNCHANGED <<runs, request, turn>>
  BY DEF ObserveTarget, github, durable
<1>. QED  BY <1>4, <1>5 DEF AdmissionInv, RunInv, RequestInv, TurnInv

\* The request the worker finds is opened again, or a new one is.
LEMMA BeginKept == ASSUME AdmissionInv, BeginReviewAdmission PROVE AdmissionInv'
<1>1. RunInv' /\ TurnInv'
  BY DEF BeginReviewAdmission, github, AdmissionInv, RunInv, TurnInv
<1>2. CASE request.status = "CANCELLED"
  BY <1>1, <1>2 DEF BeginReviewAdmission, Lost, GateAt, AdmissionInv, GateInv, RequestInv
<1>3. CASE request.status # "CANCELLED"
  <2>1. /\ request' = CASE request = NoRequest         -> NewRequest
                        [] request.status = "ADMITTED" -> [request EXCEPT !.status = "WAITING", !.evidence = NoEvidence]
                        [] OTHER                       -> request
        /\ gate' = [GateAt("read") EXCEPT !.pass = 1, !.copy = request']
    BY <1>3 DEF BeginReviewAdmission
  <2>2. GateInv'
    BY <2>1 DEF GateAt, GateInv
  <2>3. RequestInv'
    <3>1. CASE request = NoRequest
      <4>1. request' = NewRequest
        BY <2>1, <3>1 DEF NoRequest
      <4>. QED  BY <4>1 DEF NewRequest, RequestInv, IsRequest
    <3>2. CASE request # NoRequest
      <4>1. IsRequest(request) /\ (request.status = "RELEASED" => Supports(request.evidence, request.head))
        BY <1>3, <3>2 DEF AdmissionInv, RequestInv, CancelledRequest
      <4>2. CASE request.status = "ADMITTED"
        <5>1. request' = [request EXCEPT !.status = "WAITING", !.evidence = NoEvidence]
          BY <2>1, <3>2, <4>2
        <5>. QED  BY <4>1, <5>1 DEF RequestInv, IsRequest
      <4>3. CASE request.status # "ADMITTED"
        <5>1. request' = request
          BY <2>1, <3>2, <4>3
        <5>. QED  BY <4>1, <5>1 DEF RequestInv
      <4>. QED  BY <4>2, <4>3
    <3>. QED  BY <3>1, <3>2
  <2>. QED  BY <1>1, <2>2, <2>3 DEF AdmissionInv
<1>. QED  BY <1>2, <1>3

\* Whatever it was opened for, the row now names the head that was observed.
LEMMA RecordedHead ==
    ASSUME NEW r, NEW o, IsRequest(r)
    PROVE  LET n == Frozen(Retargeted(r, o), o) IN DOMAIN n = DOMAIN r /\ n.head = o.head
<1>1. DOMAIN Retargeted(r, o) = DOMAIN r /\ Retargeted(r, o).head = o.head
  <2>1. CASE <<r.head, r.base, r.merge>> = <<o.head, o.base, o.merge>>
    BY <2>1 DEF Retargeted
  <2>2. CASE <<r.head, r.base, r.merge>> # <<o.head, o.base, o.merge>>
    <3> DEFINE anchor == IF r.head # o.head \/ r.observed THEN (IF clock < r.deadline THEN clock ELSE r.deadline) ELSE r.anchor
    <3>1. Retargeted(r, o) = [r EXCEPT !.generation = @ + 1, !.head = o.head, !.base = o.base, !.merge = o.merge,
                                       !.anchor = anchor]
      BY <2>2, Zenon DEF Retargeted
    <3>. HIDE DEF anchor
    <3>. QED  BY <3>1 DEF IsRequest
  <2>. QED  BY <2>1, <2>2
<1> DEFINE t == Retargeted(r, o)
<1>. HIDE DEF t
<1>2. ASSUME DOMAIN t = DOMAIN r PROVE DOMAIN Frozen(t, o) = DOMAIN r /\ Frozen(t, o).head = t.head
  BY <1>2 DEF Frozen, IsRequest
<1>. QED  BY <1>1, <1>2 DEF t

LEMMA RecordKept == ASSUME AdmissionInv, Record PROVE AdmissionInv'
<1> DEFINE o == gate.read
           n == Frozen(Retargeted(request, o), o)
           r == [n EXCEPT !.status   = IF o.reason = "waiting" THEN "WAITING" ELSE "RELEASED",
                          !.observed = TRUE,
                          !.evidence = IF o.reason = "waiting" THEN NoEvidence ELSE o.evidence]
<1>1. RunInv' /\ TurnInv'
  BY DEF Record, github, AdmissionInv, RunInv, TurnInv
<1>2. gate.at = "record" /\ Supports(o.evidence, o.head)
  BY DEF Record, AdmissionInv, GateInv
<1>3. CASE Recordable
  <2>1. /\ request' = r
        /\ IF r.status = "WAITING" THEN Defer
           ELSE gate' = [gate EXCEPT !.at = IF gate.pass = 1 THEN "verify" ELSE "prepare", !.copy = r, !.read = NoEvidence]
    BY <1>3 DEF Record
  <2>2. IsRequest(request)
    BY <1>3 DEF AdmissionInv, RequestInv, Recordable, NoRequest, CancelledRequest
  <2>3. DOMAIN n = DOMAIN request /\ n.head = o.head
    BY <2>2, RecordedHead
  <2>. HIDE DEF n
  <2>4. /\ DOMAIN r = DOMAIN request /\ r.head = o.head
        /\ r.status = IF o.reason = "waiting" THEN "WAITING" ELSE "RELEASED"
        /\ r.evidence = IF o.reason = "waiting" THEN NoEvidence ELSE o.evidence
    BY <2>2, <2>3 DEF IsRequest
  <2>. HIDE DEF r
  <2>5. RequestInv'
    BY <2>1, <2>2, <2>4, <1>2 DEF RequestInv, IsRequest
  <2>6. GateInv'
    <3>1. \/ gate' = GateAt("idle")
          \/ \E step \in {"verify", "prepare"} : gate' = [gate EXCEPT !.at = step, !.copy = r, !.read = NoEvidence]
      BY <2>1 DEF Defer
    <3>2. CASE gate' = GateAt("idle")
      BY <3>2 DEF GateAt, GateInv
    <3>3. ASSUME NEW step \in {"verify", "prepare"}, gate' = [gate EXCEPT !.at = step, !.copy = r, !.read = NoEvidence]
          PROVE  GateInv'
      BY <3>3 DEF AdmissionInv, GateInv
    <3>. QED  BY <3>1, <3>2, <3>3
  <2>. QED  BY <1>1, <2>5, <2>6 DEF AdmissionInv
<1>4. CASE ~Recordable
  <2>1. Refused
    BY <1>4 DEF Record
  <2>. QED  BY <1>1, <2>1 DEF Refused, Defer, Lost, GateAt, AdmissionInv, GateInv, RequestInv
<1>. QED  BY <1>3, <1>4

\* What is consumed was released for the head that was verified.
LEMMA PrepareKept == ASSUME AdmissionInv, Prepare PROVE AdmissionInv'
<1>1. RunInv'
  BY DEF Prepare, github, AdmissionInv, RunInv
<1>2. CASE Consumable(gate.verified)
  <2>1. /\ turn' = [turn EXCEPT !.status = "active", !.head = gate.verified, !.evidence = request.evidence]
        /\ request' = [request EXCEPT !.status = "ADMITTED"] /\ gate' = GateAt("idle")
    BY <1>2 DEF Prepare
  <2>2. IsRequest(request) /\ Supports(request.evidence, gate.verified)
    BY <1>2 DEF Consumable, AdmissionInv, RequestInv, NoRequest, CancelledRequest
  <2>3. TurnInv'
    BY <2>1, <2>2 DEF AdmissionInv, TurnInv
  <2>4. RequestInv'
    BY <2>1, <2>2 DEF RequestInv, IsRequest
  <2>5. GateInv'
    BY <2>1 DEF GateInv, GateAt
  <2>. QED  BY <1>1, <2>3, <2>4, <2>5 DEF AdmissionInv
<1>3. CASE ~Consumable(gate.verified)
  <2>1. Refused /\ UNCHANGED turn
    BY <1>3 DEF Prepare
  <2>. QED  BY <1>1, <2>1 DEF Refused, Defer, Lost, GateAt, AdmissionInv, GateInv, RequestInv, TurnInv
<1>. QED  BY <1>2, <1>3

\* A push, a person in control, and a turn that failed.
LEMMA OutsideKept == ASSUME AdmissionInv, RetryTurn \/ SynchronizeProposal \/ HumanControl PROVE AdmissionInv'
<1>1. CASE RetryTurn
  BY <1>1 DEF RetryTurn, NoTurn, github, AdmissionInv, RunInv, RequestInv, GateInv, TurnInv
<1>2. CASE HumanControl
  BY <1>2 DEF HumanControl, CancelledRequest, github, AdmissionInv, RunInv, RequestInv, GateInv, TurnInv
<1>3. CASE SynchronizeProposal
  <2>1. UNCHANGED <<runs, gate, turn>>
    BY <1>3 DEF SynchronizeProposal, github
  <2>2. RequestInv'
    <3> DEFINE anchor == IF clock < request.deadline THEN clock ELSE request.deadline
    <3>1. \/ request.status \in {"WAITING", "RELEASED"} /\
             request' = [request EXCEPT !.status = "WAITING", !.generation = @ + 1, !.head = pr.head, !.base = 0,
                                        !.merge = NoCommit, !.observed = FALSE, !.evidence = NoEvidence, !.anchor = anchor]
          \/ request' = request
      BY <1>3 DEF SynchronizeProposal
    <3>. HIDE DEF anchor
    <3>2. CASE request' = request
      BY <3>2 DEF AdmissionInv, RequestInv
    <3>3. CASE request' # request
      <4>1. IsRequest(request)
        BY <3>1, <3>3 DEF AdmissionInv, RequestInv, NoRequest, CancelledRequest
      <4>2. IsRequest(request') /\ request'.status = "WAITING"
        BY <3>1, <3>3, <4>1 DEF IsRequest
      <4>. QED  BY <4>2 DEF RequestInv
    <3>. QED  BY <3>2, <3>3
  <2>. QED  BY <2>1, <2>2 DEF AdmissionInv, RunInv, GateInv, TurnInv
<1>. QED  BY <1>1, <1>2, <1>3

LEMMA AdmissionNextInv == AdmissionInv /\ [AdmissionNext]_AdmissionVars => AdmissionInv'
<1>. SUFFICES ASSUME AdmissionInv, [AdmissionNext]_AdmissionVars PROVE AdmissionInv'
  OBVIOUS
<1>1. CASE PushHead \/ Remerge \/ ReportResult \/ ClockTicks \/ ReadPullRequest \/ GiveBack \/ Verify
  BY <1>1, SurroundingsKept
<1>2. CASE ObserveTarget
  BY <1>2, ObserveKept
<1>3. CASE BeginReviewAdmission
  BY <1>3, BeginKept
<1>4. CASE Record
  BY <1>4, RecordKept
<1>5. CASE Prepare
  BY <1>5, PrepareKept
<1>6. CASE RetryTurn \/ SynchronizeProposal \/ HumanControl
  BY <1>6, OutsideKept
<1>7. CASE UNCHANGED AdmissionVars
  BY <1>7 DEF AdmissionVars, AdmissionInv, RunInv, RequestInv, GateInv, TurnInv
<1>. QED  BY <1>1, <1>2, <1>3, <1>4, <1>5, <1>6, <1>7 DEF AdmissionNext, Gate

\* A Reviewer starts on evidence of the head it reviews, and what was released as completed was complete
\* (consumeReviewAdmissionTx, RecordReviewAdmission, evaluateReviewCI).
THEOREM ReviewIsSupported == AdmissionSpec => []ReviewStartsOnItsEvidence
<1>1. AdmissionInv => ReviewStartsOnItsEvidence
  BY DEF AdmissionInv, TurnInv, Supports, ReviewStartsOnItsEvidence
<1>. QED  BY <1>1, AdmissionInitInv, AdmissionNextInv, PTL DEF AdmissionSpec
=============================================================================
