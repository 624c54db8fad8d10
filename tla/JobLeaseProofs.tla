--------------------------- MODULE JobLeaseProofs ---------------------------
(***************************************************************************)
(* Safety of the job queue for any number of jobs and workers, any limits  *)
(* and every kind.  The inductive invariant says, besides the properties   *)
(* themselves, that a row never has more attempts than it is allowed, that *)
(* a row not yet leased has one left, and that the leases workers believe  *)
(* they hold were granted one each.                                        *)
(*                                                                         *)
(* Completeness of the label provisioning for any number of repositories,  *)
(* labels, processors and workers.  Its invariant says what a listing, a   *)
(* worker or a job may rely on in every one of its steps: which entries a  *)
(* listing has taken, under which names a worker looks for its repository, *)
(* and which labels it need not create.                                    *)
(***************************************************************************)
EXTENDS JobLease, LabelProvisioning, SequenceTheorems, FiniteSetTheorems, TLAPS

\* jobs_attempt_limit_check, and one attempt left for a row that waits for a claim.
AttemptsWithinLimit ==
    \A j \in Jobs : /\ attempts[j] <= allowed[j]
                    /\ status[j] \in {"ABSENT", "AVAILABLE"} => attempts[j] < allowed[j]
                    /\ status[j] = "LEASED" => attempts[j] > 0

\* A lease in a worker's hands was granted, and to no other worker.
LeasesWereGranted ==
    \A w \in Workers : held[w] # NoLease =>
        /\ held[w].attempt \in 1..attempts[held[w].job]
        /\ \A v \in Workers \ {w} : held[v] # held[w]

IInv == TypeOK /\ LedgerMatchesRow /\ WorkNotAbandoned /\ AttemptsWithinLimit /\ LeasesWereGranted

-----------------------------------------------------------------------------
\* Closing the current attempt of a leased job leaves the other attempts alone.
LEMMA ClosedAttempt ==
    ASSUME IInv, NEW j \in Jobs, status[j] = "LEASED",
           NEW outcome \in {"SUCCEEDED", "FAILED", "EXPIRED"}, NEW retryable \in BOOLEAN
    PROVE  /\ Closed(j, outcome, retryable) \in Seq(Attempt)
           /\ Len(Closed(j, outcome, retryable)) = attempts[j]
           /\ \A n \in 1..attempts[j] : Closed(j, outcome, retryable)[n].status # "LEASED"
<1> DEFINE e == [status |-> outcome, retryable |-> retryable]
<1>1. ledger[j] \in Seq(Attempt) /\ attempts[j] \in Nat
  BY DEF IInv, TypeOK
<1>2. Len(ledger[j]) = attempts[j] /\ attempts[j] \in 1..Len(ledger[j])
  BY <1>1 DEF IInv, LedgerMatchesRow, AttemptsWithinLimit
<1>3. e \in Attempt
  BY DEF Attempt
<1>4. /\ Closed(j, outcome, retryable) \in Seq(Attempt)
      /\ Len(Closed(j, outcome, retryable)) = Len(ledger[j])
      /\ \A n \in 1..Len(ledger[j]) :
            Closed(j, outcome, retryable)[n] = IF n = attempts[j] THEN e ELSE ledger[j][n]
  <2> HIDE DEF e
  <2> QED BY <1>1, <1>2, <1>3, ExceptSeq DEF Closed, e
<1>5. \A n \in 1..attempts[j] : n # attempts[j] => ledger[j][n].status # "LEASED"
  BY <1>2 DEF IInv, LedgerMatchesRow
<1> QED BY <1>2, <1>4, <1>5

\* What every action that ends an attempt does to the rows.
LEMMA SettleRowKeeps ==
    ASSUME IInv, NEW j \in Jobs, status[j] = "LEASED",
           NEW outcome \in {"SUCCEEDED", "FAILED", "EXPIRED"},
           NEW state \in {"AVAILABLE"} \cup Settled, NEW retryable \in BOOLEAN,
           SettleRow(j, outcome, state, retryable)
    PROVE  /\ status' \in [Jobs -> {"ABSENT", "AVAILABLE", "LEASED"} \cup Settled]
           /\ due' \in [Jobs -> BOOLEAN] /\ expired' \in [Jobs -> BOOLEAN]
           /\ ledger' \in [Jobs -> Seq(Attempt)]
           /\ attempts' = attempts
           /\ status'[j] = state
           /\ \A k \in Jobs \ {j} : status'[k] = status[k]
           /\ LedgerMatchesRow'
<1>1. TypeOK
  BY DEF IInv
<1>2. /\ Closed(j, outcome, retryable) \in Seq(Attempt)
      /\ Len(Closed(j, outcome, retryable)) = attempts[j]
      /\ \A n \in 1..attempts[j] : Closed(j, outcome, retryable)[n].status # "LEASED"
  BY ClosedAttempt
<1>3. /\ status' \in [Jobs -> {"ABSENT", "AVAILABLE", "LEASED"} \cup Settled]
      /\ due' \in [Jobs -> BOOLEAN] /\ expired' \in [Jobs -> BOOLEAN]
      /\ attempts' = attempts
      /\ status'[j] = state
      /\ \A k \in Jobs \ {j} : status'[k] = status[k]
  BY <1>1 DEF TypeOK, SettleRow, Settled
<1>4. /\ ledger' \in [Jobs -> Seq(Attempt)]
      /\ ledger'[j] = Closed(j, outcome, retryable)
      /\ \A k \in Jobs \ {j} : ledger'[k] = ledger[k]
  BY <1>1, <1>2 DEF TypeOK, SettleRow
<1>5. state # "LEASED"
  BY DEF Settled
<1>6. LedgerMatchesRow'
  <2> SUFFICES ASSUME NEW k \in Jobs
               PROVE  /\ Len(ledger'[k]) = attempts'[k]
                      /\ \A n \in 1..Len(ledger'[k]) :
                            ledger'[k][n].status = "LEASED" <=> status'[k] = "LEASED" /\ n = attempts'[k]
    BY DEF LedgerMatchesRow
  <2>1. CASE k = j
    BY <2>1, <1>2, <1>3, <1>4, <1>5
  <2>2. CASE k # j
    <3>1. ledger'[k] = ledger[k] /\ attempts'[k] = attempts[k] /\ status'[k] = status[k]
      BY <2>2, <1>3, <1>4
    <3>2. /\ Len(ledger[k]) = attempts[k]
          /\ \A n \in 1..Len(ledger[k]) :
                ledger[k][n].status = "LEASED" <=> status[k] = "LEASED" /\ n = attempts[k]
      BY DEF IInv, LedgerMatchesRow
    <3> QED BY <3>1, <3>2
  <2> QED BY <2>1, <2>2
<1> QED BY <1>3, <1>4, <1>6

\* A worker that drops its lease leaves the leases of the others as they were.
LEMMA DropKeeps ==
    ASSUME IInv, NEW w \in Workers, Drop(w), attempts' = attempts
    PROVE  held' \in [Workers -> Lease \cup {NoLease}] /\ LeasesWereGranted'
BY DEF IInv, TypeOK, Drop, LeasesWereGranted

\* The holder of a live lease holds the current attempt of a leased row.
LEMMA LiveRow ==
    ASSUME IInv, NEW w \in Workers, Live(held[w])
    PROVE  held[w].job \in Jobs /\ status[held[w].job] = "LEASED"
BY DEF IInv, TypeOK, Live, Lease, NoLease

-----------------------------------------------------------------------------
\* Reclaiming a set of expired leases and leasing one due job, in one transaction (ClaimJobKind).
LEMMA ClaimKeeps ==
    ASSUME IInv, NEW w \in Workers, NEW skipped \in SUBSET Jobs, ClaimJobKind(w, skipped)
    PROVE  IInv'
<1>1. TypeOK /\ AttemptsWithinLimit /\ LeasesWereGranted /\ LedgerMatchesRow /\ WorkNotAbandoned
  BY DEF IInv
<1>2. PICK R \in SUBSET Jobs :
        /\ \A j \in R : status[j] = "LEASED"
        /\ allowed' = ReclaimedAllowed(R)
        /\ due' = ReclaimedDue(R)
        /\ safety' = ReclaimedSafety(R)
        /\ expired' = [j \in Jobs |-> expired[j] /\ j \notin R]
        /\ \/ \E j \in Claimable(R, skipped) : LeaseJob(w, R, j)
           \/ /\ status' = ReclaimedStatus(R)
              /\ ledger' = ReclaimedLedger(R)
              /\ UNCHANGED <<attempts, held>>
  BY DEF ClaimJobKind
<1>3. held[w] = NoLease /\ revision' = revision
  BY DEF ClaimJobKind
<1> DEFINE st == ReclaimedStatus(R)
           led == ReclaimedLedger(R)
<1>4. \A j \in R : /\ led[j] \in Seq(Attempt)
                   /\ Len(led[j]) = attempts[j]
                   /\ \A n \in 1..attempts[j] : led[j][n].status # "LEASED"
  <2> SUFFICES ASSUME NEW j \in R
               PROVE  /\ Closed(j, "EXPIRED", Retries(j)) \in Seq(Attempt)
                      /\ Len(Closed(j, "EXPIRED", Retries(j))) = attempts[j]
                      /\ \A n \in 1..attempts[j] : Closed(j, "EXPIRED", Retries(j))[n].status # "LEASED"
    BY DEF ReclaimedLedger
  <2>1. Retries(j) \in BOOLEAN
    BY DEF Retries, Irreversible, Exhausted
  <2> QED BY <1>2, <2>1, ClosedAttempt
<1>5. /\ led \in [Jobs -> Seq(Attempt)]
      /\ \A j \in Jobs \ R : led[j] = ledger[j]
  BY <1>1, <1>4 DEF ReclaimedLedger, TypeOK
<1>6. /\ st \in [Jobs -> {"ABSENT", "AVAILABLE", "LEASED"} \cup Settled]
      /\ \A j \in R : st[j] # "LEASED" /\ st[j] # "ABSENT" /\ (st[j] = "AVAILABLE" => Retries(j))
                      /\ st[j] # "CANCELLED" /\ (Irreversible => st[j] = "AVAILABLE")
      /\ \A j \in Jobs \ R : st[j] = status[j]
  BY <1>1 DEF ReclaimedStatus, TypeOK, Settled, Retries
<1>7. /\ allowed' \in [Jobs -> Nat]
      /\ \A j \in Jobs : allowed'[j] >= allowed[j]
      /\ \A j \in R : Retries(j) => attempts[j] < allowed'[j]
  BY <1>1, <1>2 DEF ReclaimedAllowed, TypeOK, AttemptsWithinLimit, Continues, Retries, Exhausted
<1>8. due' \in [Jobs -> BOOLEAN] /\ expired' \in [Jobs -> BOOLEAN]
      /\ safety' \in [Jobs -> Nat] /\ revision' \in [Jobs -> Nat \ {0}]
  BY <1>1, <1>2, <1>3 DEF ReclaimedDue, ReclaimedSafety, TypeOK, Continues, Irreversible, Exhausted
<1>9. CASE status' = st /\ ledger' = led /\ UNCHANGED <<attempts, held>>
  <2>1. TypeOK'
    BY <1>1, <1>5, <1>6, <1>7, <1>8, <1>9 DEF TypeOK
  <2>2. LedgerMatchesRow'
    <3> SUFFICES ASSUME NEW j \in Jobs
                 PROVE  /\ Len(led[j]) = attempts[j]
                        /\ \A n \in 1..Len(led[j]) :
                              led[j][n].status = "LEASED" <=> st[j] = "LEASED" /\ n = attempts[j]
      BY <1>9 DEF LedgerMatchesRow
    <3>1. CASE j \in R
      BY <3>1, <1>4, <1>6
    <3>2. CASE j \notin R
      BY <3>2, <1>1, <1>5, <1>6 DEF LedgerMatchesRow
    <3> QED BY <3>1, <3>2
  <2>3. WorkNotAbandoned'
    BY <1>1, <1>6, <1>9 DEF WorkNotAbandoned, Irreversible
  <2>4. AttemptsWithinLimit'
    BY <1>1, <1>6, <1>7, <1>9 DEF AttemptsWithinLimit, TypeOK
  <2>5. LeasesWereGranted'
    BY <1>1, <1>9 DEF LeasesWereGranted
  <2> QED BY <2>1, <2>2, <2>3, <2>4, <2>5 DEF IInv
<1>10. CASE \E j \in Claimable(R, skipped) : LeaseJob(w, R, j)
  <2> DEFINE open == [status |-> "LEASED", retryable |-> FALSE]
  <2>1. PICK j \in Jobs : /\ st[j] = "AVAILABLE" /\ attempts[j] < allowed'[j]
                          /\ status' = [st EXCEPT ![j] = "LEASED"]
                          /\ attempts' = [attempts EXCEPT ![j] = @ + 1]
                          /\ ledger' = [led EXCEPT ![j] = Append(@, open)]
                          /\ held' = [held EXCEPT ![w] = [job |-> j, attempt |-> attempts[j] + 1]]
    BY <1>2, <1>10 DEF Claimable, LeaseJob
  <2>2. /\ led[j] \in Seq(Attempt) /\ Len(led[j]) = attempts[j]
        /\ \A n \in 1..attempts[j] : led[j][n].status # "LEASED"
    <3>1. CASE j \in R
      BY <3>1, <1>4
    <3>2. CASE j \notin R
      BY <3>2, <2>1, <1>1, <1>5, <1>6 DEF LedgerMatchesRow, TypeOK
    <3> QED BY <3>1, <3>2
  <2>3. open \in Attempt
    BY DEF Attempt
  <2>4. /\ Append(led[j], open) \in Seq(Attempt)
        /\ Len(Append(led[j], open)) = attempts[j] + 1
        /\ \A n \in 1..attempts[j] : Append(led[j], open)[n] = led[j][n]
        /\ Append(led[j], open)[attempts[j] + 1] = open
    <3> HIDE DEF led, open
    <3> QED BY <2>2, <2>3, AppendProperties
  <2>5. /\ attempts' \in [Jobs -> Nat] /\ attempts'[j] = attempts[j] + 1
        /\ \A k \in Jobs \ {j} : attempts'[k] = attempts[k]
    BY <1>1, <2>1 DEF TypeOK
  <2>6. /\ status' \in [Jobs -> {"ABSENT", "AVAILABLE", "LEASED"} \cup Settled] /\ status'[j] = "LEASED"
        /\ \A k \in Jobs \ {j} : status'[k] = st[k]
    BY <1>6, <2>1
  <2>7. /\ ledger' \in [Jobs -> Seq(Attempt)] /\ ledger'[j] = Append(led[j], open)
        /\ \A k \in Jobs \ {j} : ledger'[k] = led[k]
    BY <1>5, <2>1, <2>4
  <2>8. /\ held' \in [Workers -> Lease \cup {NoLease}]
        /\ held'[w] = [job |-> j, attempt |-> attempts[j] + 1]
        /\ \A v \in Workers \ {w} : held'[v] = held[v]
    BY <1>1, <2>1 DEF TypeOK, Lease
  <2>9. TypeOK'
    BY <1>7, <1>8, <2>5, <2>6, <2>7, <2>8 DEF TypeOK
  <2>10. LedgerMatchesRow'
    <3> SUFFICES ASSUME NEW k \in Jobs
                 PROVE  /\ Len(ledger'[k]) = attempts'[k]
                        /\ \A n \in 1..Len(ledger'[k]) :
                              ledger'[k][n].status = "LEASED" <=> status'[k] = "LEASED" /\ n = attempts'[k]
      BY DEF LedgerMatchesRow
    <3>1. CASE k = j
      <4>1. attempts[j] \in Nat
        BY <1>1 DEF TypeOK
      <4>2. Len(ledger'[k]) = attempts[j] + 1 /\ attempts'[k] = attempts[j] + 1 /\ status'[k] = "LEASED"
        BY <3>1, <2>4, <2>5, <2>6, <2>7
      <4>3. ASSUME NEW n \in 1..(attempts[j] + 1)
            PROVE  ledger'[k][n].status = "LEASED" <=> n = attempts[j] + 1
        <5>1. CASE n = attempts[j] + 1
          BY <5>1, <3>1, <2>4, <2>7
        <5>2. CASE n # attempts[j] + 1
          <6>1. n \in 1..attempts[j]
            BY <4>1, <5>2
          <6> QED BY <5>2, <6>1, <3>1, <2>2, <2>4, <2>7
        <5> QED BY <5>1, <5>2
      <4> QED BY <4>2, <4>3
    <3>2. CASE k # j /\ k \in R
      <4>1. ledger'[k] = led[k] /\ status'[k] = st[k] /\ attempts'[k] = attempts[k]
        <5> HIDE DEF led, st
        <5> QED BY <3>2, <2>5, <2>6, <2>7
      <4>2. Len(led[k]) = attempts[k] /\ \A n \in 1..attempts[k] : led[k][n].status # "LEASED"
        BY <3>2, <1>4
      <4>3. st[k] # "LEASED"
        BY <3>2, <1>6
      <4> HIDE DEF led, st
      <4> QED BY <4>1, <4>2, <4>3
    <3>3. CASE k # j /\ k \notin R
      <4>1. ledger'[k] = ledger[k] /\ status'[k] = status[k] /\ attempts'[k] = attempts[k]
        BY <3>3, <1>5, <1>6, <2>5, <2>6, <2>7
      <4>2. /\ Len(ledger[k]) = attempts[k]
            /\ \A n \in 1..Len(ledger[k]) :
                  ledger[k][n].status = "LEASED" <=> status[k] = "LEASED" /\ n = attempts[k]
        BY <1>1 DEF LedgerMatchesRow
      <4> QED BY <4>1, <4>2
    <3> QED BY <3>1, <3>2, <3>3
  <2>11. WorkNotAbandoned'
    BY <1>1, <1>6, <2>6 DEF WorkNotAbandoned, Irreversible
  <2>12. AttemptsWithinLimit'
    <3> SUFFICES ASSUME NEW k \in Jobs
                 PROVE  /\ attempts'[k] <= allowed'[k]
                        /\ status'[k] \in {"ABSENT", "AVAILABLE"} => attempts'[k] < allowed'[k]
                        /\ status'[k] = "LEASED" => attempts'[k] > 0
      BY DEF AttemptsWithinLimit
    <3>1. attempts[k] \in Nat /\ allowed[k] \in Nat /\ allowed'[k] \in Nat
      BY <1>1, <1>7 DEF TypeOK
    <3>2. CASE k = j
      BY <3>1, <3>2, <2>1, <2>5, <2>6
    <3>3. CASE k # j
      BY <3>1, <3>3, <1>1, <1>6, <1>7, <2>5, <2>6 DEF AttemptsWithinLimit
    <3> QED BY <3>2, <3>3
  <2>13. LeasesWereGranted'
    <3>1. \A v \in Workers : held[v] # NoLease => held[v].job \in Jobs /\ held[v].attempt \in 1..attempts[held[v].job]
      BY <1>1 DEF LeasesWereGranted, TypeOK, Lease
    <3>2. \A v \in Workers \ {w} : held'[v] # held'[w]
      BY <3>1, <1>1, <2>8 DEF TypeOK, NoLease
    <3>3. \A v \in Workers : held'[v] # NoLease => held'[v].attempt \in 1..attempts'[held'[v].job]
      <4> SUFFICES ASSUME NEW v \in Workers, held'[v] # NoLease
                   PROVE  held'[v].attempt \in 1..attempts'[held'[v].job]
        OBVIOUS
      <4>1. ASSUME NEW k \in Jobs
            PROVE  attempts[k] \in Nat /\ attempts'[k] \in Nat /\ attempts[k] <= attempts'[k]
        <5>1. attempts[k] \in Nat /\ attempts'[k] \in Nat
          BY <1>1, <2>5 DEF TypeOK
        <5>2. CASE k = j
          BY <5>1, <5>2, <2>5
        <5>3. CASE k # j
          BY <5>1, <5>3, <2>5
        <5> QED BY <5>1, <5>2, <5>3
      <4>2. CASE v = w
        <5>1. held'[v].job = j /\ held'[v].attempt = attempts[j] + 1 /\ attempts'[j] = attempts[j] + 1
          BY <4>2, <2>5, <2>8
        <5> HIDE DEF led, st
        <5> QED BY <5>1, <4>1
      <4>3. CASE v # w
        BY <4>1, <4>3, <3>1, <2>8
      <4> QED BY <4>2, <4>3
    <3> QED BY <1>1, <2>8, <3>2, <3>3 DEF LeasesWereGranted
  <2> QED BY <2>9, <2>10, <2>11, <2>12, <2>13 DEF IInv
<1> QED BY <1>2, <1>9, <1>10

-----------------------------------------------------------------------------
\* Before any job is enqueued (an empty jobs table, no lease held) the invariant holds.
LEMMA InitEstablishes == Init => IInv
<1> SUFFICES ASSUME Init PROVE IInv
  OBVIOUS
<1>1. TypeOK
  BY BoundsAssumption DEF Init, TypeOK
<1>2. LedgerMatchesRow /\ WorkNotAbandoned /\ AttemptsWithinLimit /\ LeasesWereGranted
  BY BoundsAssumption DEF Init, LedgerMatchesRow, WorkNotAbandoned, AttemptsWithinLimit, LeasesWereGranted
<1> QED BY <1>1, <1>2 DEF IInv

\* Every transaction on the queue (claim, heartbeat, completion, failure, wait, cancellation) keeps it.
LEMMA NextPreserves == IInv /\ [Next]_vars => IInv'
<1> SUFFICES ASSUME IInv, [Next]_vars PROVE IInv'
  OBVIOUS
<1>0. TypeOK /\ LedgerMatchesRow /\ WorkNotAbandoned /\ AttemptsWithinLimit /\ LeasesWereGranted
  BY DEF IInv
<1>1. ASSUME NEW j \in Jobs, Enqueue(j) PROVE IInv'
  <2>1. TypeOK' /\ WorkNotAbandoned' /\ AttemptsWithinLimit' /\ LeasesWereGranted'
    BY <1>0, <1>1 DEF Enqueue, TypeOK, WorkNotAbandoned, AttemptsWithinLimit, LeasesWereGranted, Irreversible
  <2>2. LedgerMatchesRow'
    BY <1>0, <1>1 DEF Enqueue, TypeOK, LedgerMatchesRow
  <2> QED BY <2>1, <2>2 DEF IInv
<1>2. ASSUME NEW j \in Jobs, CancelJob(j) PROVE IInv'
  <2>1. ~Irreversible
    BY <1>2 DEF CancelJob, CancellableKinds, Irreversible, IrreversibleKinds
  <2>2. CASE status[j] = "LEASED"
    <3>1. SettleRow(j, "FAILED", "CANCELLED", FALSE) /\ UNCHANGED <<allowed, held, revision, safety>>
      BY <1>2, <2>2 DEF CancelJob
    <3>2. /\ status' \in [Jobs -> {"ABSENT", "AVAILABLE", "LEASED"} \cup Settled]
          /\ due' \in [Jobs -> BOOLEAN] /\ expired' \in [Jobs -> BOOLEAN]
          /\ ledger' \in [Jobs -> Seq(Attempt)] /\ attempts' = attempts
          /\ status'[j] = "CANCELLED" /\ \A k \in Jobs \ {j} : status'[k] = status[k]
          /\ LedgerMatchesRow'
      BY <2>2, <3>1, SettleRowKeeps DEF Settled
    <3> QED BY <1>0, <2>1, <3>1, <3>2
        DEF IInv, TypeOK, WorkNotAbandoned, AttemptsWithinLimit, LeasesWereGranted, Irreversible
  <2>3. CASE status[j] = "AVAILABLE"
    <3>1. /\ status' = [status EXCEPT ![j] = "CANCELLED"]
          /\ UNCHANGED <<attempts, due, expired, ledger, allowed, held, revision, safety>>
      BY <1>2, <2>3 DEF CancelJob
    <3>2. TypeOK' /\ WorkNotAbandoned' /\ AttemptsWithinLimit' /\ LeasesWereGranted'
      BY <1>0, <2>1, <3>1
      DEF TypeOK, Settled, WorkNotAbandoned, AttemptsWithinLimit, LeasesWereGranted, Irreversible
    <3>3. LedgerMatchesRow'
      BY <1>0, <2>3, <3>1 DEF TypeOK, LedgerMatchesRow
    <3> QED BY <3>2, <3>3 DEF IInv
  <2> QED BY <1>2, <2>2, <2>3 DEF CancelJob
<1>3. ASSUME NEW j \in Jobs, Fall(j) \/ Expire(j) \/ AdvanceRevision(j) PROVE IInv'
  <2>1. /\ UNCHANGED <<status, attempts, allowed, ledger, held, safety>>
        /\ due' \in [Jobs -> BOOLEAN] /\ expired' \in [Jobs -> BOOLEAN]
        /\ revision' \in [Jobs -> Nat \ {0}]
    <3>1. CASE Fall(j)
      BY <1>0, <3>1 DEF Fall, TypeOK
    <3>2. CASE Expire(j)
      BY <1>0, <3>2 DEF Expire, TypeOK
    <3>3. CASE AdvanceRevision(j)
      BY <1>0, <3>3 DEF AdvanceRevision, rows, TypeOK
    <3> QED BY <1>3, <3>1, <3>2, <3>3
  <2> QED BY <1>0, <2>1 DEF IInv, TypeOK, LedgerMatchesRow, WorkNotAbandoned,
                            AttemptsWithinLimit, LeasesWereGranted, Irreversible
<1>4. ASSUME NEW w \in Workers, NEW skipped \in SUBSET Jobs, ClaimJobKind(w, skipped) PROVE IInv'
  BY <1>4, ClaimKeeps
<1>5. ASSUME NEW w \in Workers, HeartbeatJob(w) PROVE IInv'
  BY <1>0, <1>5 DEF HeartbeatJob, IInv, TypeOK, LedgerMatchesRow,
                    WorkNotAbandoned, AttemptsWithinLimit, LeasesWereGranted, Irreversible
<1>6. ASSUME NEW w \in Workers, NEW outcome \in {"SUCCEEDED", "FAILED"},
             NEW state \in {"AVAILABLE", "SUCCEEDED", "FAILED"}, NEW retryable \in BOOLEAN,
             Live(held[w]), SettleRow(held[w].job, outcome, state, retryable), Drop(w),
             state = "FAILED" => ~Irreversible,
             allowed' \in [Jobs -> Nat], \A j \in Jobs : allowed'[j] >= allowed[j],
             state = "AVAILABLE" => attempts[held[w].job] < allowed'[held[w].job],
             revision' = revision, safety' \in [Jobs -> Nat]
      PROVE  IInv'
  <2> DEFINE j == held[w].job
  <2>1. j \in Jobs /\ status[j] = "LEASED"
    BY <1>6, LiveRow
  <2>2. /\ status' \in [Jobs -> {"ABSENT", "AVAILABLE", "LEASED"} \cup Settled]
        /\ due' \in [Jobs -> BOOLEAN] /\ expired' \in [Jobs -> BOOLEAN]
        /\ ledger' \in [Jobs -> Seq(Attempt)] /\ attempts' = attempts
        /\ status'[j] = state /\ \A k \in Jobs \ {j} : status'[k] = status[k]
        /\ LedgerMatchesRow'
    <3> HIDE DEF j
    <3>1. state \in {"AVAILABLE"} \cup Settled
      BY DEF Settled
    <3>2. SettleRow(j, outcome, state, retryable)
      BY <1>6 DEF j
    <3> QED BY <2>1, <3>1, <3>2, SettleRowKeeps
  <2>3. held' \in [Workers -> Lease \cup {NoLease}] /\ LeasesWereGranted'
    BY <1>6, <2>2, DropKeeps
  <2>4. TypeOK'
    BY <1>0, <1>6, <2>2, <2>3 DEF TypeOK
  <2>5. WorkNotAbandoned'
    BY <1>0, <1>6, <2>2 DEF WorkNotAbandoned, Irreversible
  <2>6. AttemptsWithinLimit'
    <3> SUFFICES ASSUME NEW k \in Jobs
                 PROVE  /\ attempts[k] <= allowed'[k]
                        /\ status'[k] \in {"ABSENT", "AVAILABLE"} => attempts[k] < allowed'[k]
                        /\ status'[k] = "LEASED" => attempts[k] > 0
      BY <2>2 DEF AttemptsWithinLimit
    <3>1. attempts[k] \in Nat /\ allowed[k] \in Nat /\ allowed'[k] \in Nat /\ allowed'[k] >= allowed[k]
      BY <1>0, <1>6 DEF TypeOK
    <3>2. CASE k = j
      BY <1>0, <1>6, <2>2, <3>1, <3>2 DEF AttemptsWithinLimit
    <3>3. CASE k # j
      BY <1>0, <2>2, <3>1, <3>3 DEF AttemptsWithinLimit
    <3> QED BY <3>2, <3>3
  <2> QED BY <2>2, <2>3, <2>4, <2>5, <2>6 DEF IInv
<1>7. ASSUME NEW w \in Workers, CompleteJob(w) PROVE IInv'
  <2>1. SettleRow(held[w].job, "SUCCEEDED", "SUCCEEDED", FALSE) /\ Live(held[w]) /\ Drop(w)
    BY <1>7 DEF CompleteJob
  <2>2. /\ allowed' \in [Jobs -> Nat] /\ \A j \in Jobs : allowed'[j] >= allowed[j]
        /\ revision' = revision /\ safety' \in [Jobs -> Nat]
    BY <1>0, <1>7 DEF CompleteJob, TypeOK
  <2> QED BY <1>6, <2>1, <2>2
<1>8. ASSUME NEW w \in Workers, NEW retryable \in BOOLEAN, FailJob(w, retryable) PROVE IInv'
  <2>1. held[w].job \in Jobs
    BY <1>8, LiveRow DEF FailJob
  <2>2. attempts[held[w].job] \in Nat /\ allowed[held[w].job] \in Nat
    BY <1>0, <2>1 DEF TypeOK
  <2>3. /\ allowed' \in [Jobs -> Nat] /\ \A j \in Jobs : allowed'[j] >= allowed[j]
        /\ revision' = revision /\ safety' \in [Jobs -> Nat] /\ allowed' = allowed
    BY <1>0, <1>8 DEF FailJob, TypeOK
  <2>4. ~Irreversible /\ Live(held[w]) /\ Drop(w)
    BY <1>8 DEF FailJob
  <2>5. CASE retryable /\ ~Exhausted(held[w].job)
    <3>1. SettleRow(held[w].job, "FAILED", "AVAILABLE", retryable)
      BY <1>8, <2>5 DEF FailJob
    <3>2. attempts[held[w].job] < allowed'[held[w].job]
      BY <2>2, <2>3, <2>5 DEF Exhausted
    <3> QED BY <1>6, <2>3, <2>4, <3>1, <3>2
  <2>6. CASE ~(retryable /\ ~Exhausted(held[w].job))
    <3>1. SettleRow(held[w].job, "FAILED", "FAILED", retryable)
      BY <1>8, <2>6 DEF FailJob
    <3> QED BY <1>6, <2>3, <2>4, <3>1
  <2> QED BY <2>5, <2>6
<1>9. ASSUME NEW w \in Workers, AcknowledgeIrreversibleFailure(w) PROVE IInv'
  <2>1. held[w].job \in Jobs
    BY <1>9, LiveRow DEF AcknowledgeIrreversibleFailure
  <2>2. attempts[held[w].job] \in Nat /\ allowed[held[w].job] \in Nat
        /\ attempts[held[w].job] <= allowed[held[w].job]
    BY <1>0, <2>1 DEF TypeOK, AttemptsWithinLimit
  <2>3. /\ allowed' \in [Jobs -> Nat] /\ \A j \in Jobs : allowed'[j] >= allowed[j]
        /\ attempts[held[w].job] < allowed'[held[w].job]
    BY <1>0, <1>9, <2>1, <2>2 DEF AcknowledgeIrreversibleFailure, TypeOK, Exhausted
  <2>4. safety' \in [Jobs -> Nat]
    BY <1>0, <1>9, <2>1 DEF AcknowledgeIrreversibleFailure, TypeOK
  <2> QED BY <1>6, <1>9, <2>3, <2>4 DEF AcknowledgeIrreversibleFailure
<1>10. ASSUME NEW w \in Workers, AcknowledgeWait(w) PROVE IInv'
  <2>1. held[w].job \in Jobs
    BY <1>10, LiveRow DEF AcknowledgeWait
  <2>2. attempts[held[w].job] \in Nat /\ allowed[held[w].job] \in Nat
        /\ attempts[held[w].job] <= allowed[held[w].job]
    BY <1>0, <2>1 DEF TypeOK, AttemptsWithinLimit
  <2>3. /\ allowed' \in [Jobs -> Nat] /\ \A j \in Jobs : allowed'[j] >= allowed[j]
        /\ attempts[held[w].job] < allowed'[held[w].job]
    BY <1>0, <1>10, <2>1, <2>2 DEF AcknowledgeWait, TypeOK
  <2>4. safety' \in [Jobs -> Nat]
    BY <1>0, <1>10 DEF AcknowledgeWait, TypeOK
  <2>5. CASE Kind = "SETTLE_CLOSURE"
    BY <1>6, <1>10, <2>3, <2>4, <2>5 DEF AcknowledgeWait
  <2>6. CASE Kind # "SETTLE_CLOSURE"
    BY <1>6, <1>10, <2>3, <2>4, <2>6 DEF AcknowledgeWait
  <2> QED BY <2>5, <2>6
<1>11. ASSUME NEW w \in Workers, LoseLease(w) PROVE IInv'
  <2>1. UNCHANGED <<status, attempts, allowed, due, expired, ledger, revision, safety>> /\ Drop(w)
    BY <1>11 DEF LoseLease, rows
  <2>2. held' \in [Workers -> Lease \cup {NoLease}] /\ LeasesWereGranted'
    BY <2>1, DropKeeps
  <2> QED BY <1>0, <2>1, <2>2
      DEF IInv, TypeOK, LedgerMatchesRow, WorkNotAbandoned, AttemptsWithinLimit, Irreversible
<1>12. CASE UNCHANGED vars
  BY <1>0, <1>12 DEF vars, IInv, TypeOK, LedgerMatchesRow, WorkNotAbandoned,
                     AttemptsWithinLimit, LeasesWereGranted, Irreversible
<1> QED
  BY <1>1, <1>2, <1>3, <1>4, <1>5, <1>7, <1>8, <1>9, <1>10, <1>11, <1>12 DEF Next

-----------------------------------------------------------------------------
\* The invariant holds in every state the queue reaches, by the two lemmas above.
THEOREM Invariance == Spec => []IInv
BY InitEstablishes, NextPreserves, PTL DEF Spec

\* The rows, the ledger and the leases keep their types (jobs.go).
THEOREM TypeCorrect == Spec => []TypeOK
<1>1. IInv => TypeOK
  BY DEF IInv
<1> QED BY <1>1, Invariance, PTL

\* job_attempts and jobs agree about every attempt, whichever transaction ended it.
THEOREM LedgerCorrect == Spec => []LedgerMatchesRow
<1>1. IInv => LedgerMatchesRow
  BY DEF IInv
<1> QED BY <1>1, Invariance, PTL

\* No row is left AVAILABLE out of the reach of every claim query, and irreversible cleanup is never given up.
THEOREM CleanupNotAbandoned == Spec => []WorkStaysOnOffer
<1>1. IInv => WorkStaysOnOffer
  BY DEF IInv, AttemptsWithinLimit, NeverStranded, WorkStaysOnOffer
<1> QED BY <1>1, Invariance, PTL

\* At most one worker passes the fence of a job at any time.
THEOREM MutualExclusion == Spec => []OneLiveHolder
<1>1. IInv => OneLiveHolder
  <2> SUFFICES ASSUME IInv, NEW v \in Workers, NEW w \in Workers, v # w,
                      Live(held[v]), Live(held[w]), held[v].job = held[w].job
               PROVE  FALSE
    BY DEF OneLiveHolder
  <2>1. held[v] \in Lease /\ held[w] \in Lease /\ held[v].attempt = held[w].attempt
    BY DEF IInv, TypeOK, Live
  <2>2. held[v] = held[w]
    BY <2>1 DEF Lease
  <2> QED BY <2>2 DEF IInv, LeasesWereGranted, Live
<1> QED BY <1>1, Invariance, PTL

-----------------------------------------------------------------------------
(* The provisioning of labels.                                             *)

provisioningVars == <<installed, gone, name, labels, delivery, job, processor, worker>>

\* The listing of an installation and the work of its jobs together, beside people who join, leave and rename.
ProvisioningNext ==
    \/ \E added \in SUBSET Repos : Receive(added)
    \/ ProcessorStep \/ WorkerStep
    \/ \E r \in Repos : Join(r) \/ Leave(r) \/ \E n : Rename(r, n)

ProvisioningSpec == ProvisioningInit /\ [][ProvisioningNext]_provisioningVars

-----------------------------------------------------------------------------
(* The inductive invariant.                                                *)

LabelJobs  == [status : {"none", "PENDING", "LEASED", "SUCCEEDED", "FAILED"}, attempts : Nat, live : BOOLEAN,
               why : {"none", "retried", "repository", "installation", "labels"}]
Listings   == [at : {"idle", "listing", "queueing"}, claim : Nat, page : Nat, total : Nat, todo : SUBSET Repos,
               invalid : BOOLEAN]
Deliveries == [status : {"none", "PENDING", "PROCESSING", "PROCESSED", "FAILED"}, claims : Nat, live : BOOLEAN,
               added : SUBSET Repos]
LabelSteps == [at : {"idle", "resolve", "verify", "refresh", "read", "labels", "create", "relist"}, repo : Repos,
               attempt : Nat, name : Repos \X {1, 2}, missing : SUBSET Labels]
ProvisioningTypeOK ==
    /\ installed \subseteq Repos /\ gone \subseteq Repos
    /\ name \in [Repos -> Repos \X {1, 2}] /\ labels \in [Repos -> SUBSET Labels]
    /\ delivery \in Deliveries
    /\ job \in [Repos -> LabelJobs]
    /\ processor \in [Processors -> Listings] /\ worker \in [JobWorkers -> LabelSteps]

\* Nothing is queued, or worked on, but for a repository that is or was of the installation.
Seen == installed \cup gone
Membership ==
    /\ \A r \in Repos : r < MaxRepo => r \in Seen
    /\ delivery.added \subseteq Seen
    /\ \A p \in Processors : /\ processor[p].todo \subseteq Seen
                             /\ processor[p].at # "idle" => delivery.status # "none"
    /\ \A r \in Repos : job[r] # NoLabelJob => r \in Seen

\* No two repositories bear one name.
NamesDiffer == \A q, r \in Repos : name[q] = name[r] => q = r

\* Another repository bears the name this one was created with.
Taken(r) == \E q \in Repos \ {r} : name[q] = First(r)

\* A worker goes by a name its repository has or had first; what it need not create is there; and it looks a second
\* time for the name of a repository that has it still only if that left.
WorkerSound(v) ==
    /\ v.at # "idle" => job[v.repo] # NoLabelJob
    /\ v.at \notin {"idle", "resolve"} => v.name \in {name[v.repo], First(v.repo)}
    /\ v.at \in {"create", "relist"} => Labels \ v.missing \subseteq labels[v.repo] \/ Taken(v.repo)
    /\ v.at = "refresh" /\ name[v.repo] = v.name => v.repo \in gone
WorkersSound == \A w \in JobWorkers : WorkerSound(worker[w])

\* What a job records of its end.
JobsSound == \A r \in Repos :
    /\ job[r].status = "SUCCEEDED" => labels[r] = Labels \/ Taken(r)
    /\ job[r].why \in {"repository", "installation"} => r \in gone

\* One repository came while another went: the count hides both.
Swapped == gone # {} /\ MaxRepo \in Seen

Before(r) == {q \in installed : q <= r}

\* Of a listing whose count still holds every entry up to its page was taken; a count that changed does not come back.
ListingSound(l) ==
    /\ l.at = "listing" /\ l.page > 0 =>
         /\ MaxRepo \notin Seen => l.total >= Cardinality(installed)
         /\ gone = {} => l.total <= Cardinality(installed)
         /\ ~Swapped /\ ~l.invalid /\ l.total = Cardinality(installed) =>
              \A r \in installed : Cardinality(Before(r)) <= l.page => r \in l.todo
    /\ l.at = "queueing" /\ ~Swapped /\ ~l.invalid /\ delivery.added = {} =>
         \A r \in installed : r < MaxRepo => r \in l.todo \/ job[r] # NoLabelJob
ListingsSound == \A p \in Processors : ListingSound(processor[p])

ProvisioningInv ==
    /\ ProvisioningTypeOK /\ Membership /\ NamesDiffer /\ WorkersSound /\ JobsSound /\ ListingsSound
    /\ EveryRepositoryIsQueued

-----------------------------------------------------------------------------
\* The label to create next is one that is missing.
LEMMA NextIsMissing ==
    ASSUME ProvisioningTypeOK, NEW w \in JobWorkers, worker[w].missing # {}
    PROVE  Next1(w) \in worker[w].missing
<1>1. worker[w].missing \subseteq Nat
  BY ProvisioningAssumption DEF ProvisioningTypeOK, LabelSteps, Labels
<1> DEFINE T == {1 .. l : l \in worker[w].missing}
<1>2. T \subseteq FiniteSubsetsOf(Nat) /\ T # {}
  <2>1. ASSUME NEW l \in worker[w].missing PROVE 1 .. l \in FiniteSubsetsOf(Nat)
    <3>1. l \in Int /\ 1 .. l \in SUBSET Nat
      BY <1>1
    <3>2. IsFiniteSet(1 .. l)
      BY <3>1, FS_Interval
    <3>. QED  BY <3>1, <3>2 DEF FiniteSubsetsOf
  <2>. QED  BY <2>1
<1>3. PICK s \in T : \A t \in T : ~(<<t, s>> \in StrictSubsetOrdering(Nat))
  BY <1>2, WFMin, FS_StrictSubsetOrderingWellFounded
<1>4. PICK l \in worker[w].missing : s = 1 .. l
  OBVIOUS
<1>5. ASSUME NEW k \in worker[w].missing, k < l PROVE FALSE
  <2>1. 1 .. k \in SUBSET Nat /\ 1 .. l \in SUBSET Nat /\ 1 .. k \subseteq 1 .. l
    BY <1>1, <1>5
  <2>2. l \in 1 .. l /\ l \notin 1 .. k
    BY <1>5, ProvisioningAssumption DEF ProvisioningTypeOK, LabelSteps, Labels
  <2>3. <<1 .. k, 1 .. l>> \in StrictSubsetOrdering(Nat)
    BY <2>1, <2>2 DEF StrictSubsetOrdering
  <2>. QED  BY <1>3, <1>4, <2>3
<1>6. \A k \in worker[w].missing : l <= k
  BY <1>1, <1>5
<1>. QED  BY <1>6 DEF Next1

LEMMA InstalledIsFinite ==
    ASSUME ProvisioningTypeOK
    PROVE  /\ IsFiniteSet(installed) /\ Cardinality(installed) \in Nat
           /\ \A r : /\ IsFiniteSet(Before(r)) /\ Cardinality(Before(r)) \in Nat
                    /\ Cardinality(Before(r)) <= Cardinality(installed)
           /\ \A r \in installed : Cardinality(Before(r)) >= 1
<1>1. IsFiniteSet(Repos)
  BY FS_Interval, ProvisioningAssumption DEF Repos
<1>2. IsFiniteSet(installed) /\ Cardinality(installed) \in Nat
  BY <1>1, FS_Subset, FS_CardinalityType DEF ProvisioningTypeOK
<1>3. ASSUME NEW r
      PROVE  /\ IsFiniteSet(Before(r)) /\ Cardinality(Before(r)) \in Nat
             /\ Cardinality(Before(r)) <= Cardinality(installed)
  <2>1. Before(r) \subseteq installed
    BY DEF Before
  <2>. QED  BY <1>2, <2>1, FS_Subset, FS_CardinalityType
<1>4. ASSUME NEW r \in installed PROVE Cardinality(Before(r)) >= 1
  <2>1. {r} \subseteq Before(r)
    BY ProvisioningAssumption DEF Before, ProvisioningTypeOK, Repos
  <2>2. Cardinality({r}) = 1
    BY FS_Singleton
  <2>. QED  BY <1>3, <2>1, <2>2, FS_Subset
<1>. QED  BY <1>2, <1>3, <1>4

-----------------------------------------------------------------------------
LEMMA ProvisioningInitInv == ProvisioningInit => ProvisioningInv
<1>. SUFFICES ASSUME ProvisioningInit PROVE ProvisioningInv
  OBVIOUS
<1>1. 1 \in Repos
  BY ProvisioningAssumption DEF Repos
<1>2. NoLabelJob \in LabelJobs /\ Resting \in Listings /\ Resting.at = "idle" /\ Free.at = "idle"
  BY DEF NoLabelJob, LabelJobs, Resting, Listings, Free
<1>3. Free \in LabelSteps
  BY <1>1 DEF Free, LabelSteps, First
<1>4. ProvisioningTypeOK
  BY <1>2, <1>3 DEF ProvisioningInit, ProvisioningTypeOK, First, Deliveries
<1>5. Membership
  BY <1>2 DEF ProvisioningInit, Membership, Seen, Resting
<1>6. NamesDiffer
  BY DEF ProvisioningInit, NamesDiffer, First
<1>7. WorkersSound
  BY <1>2 DEF ProvisioningInit, WorkersSound, WorkerSound
<1>8. JobsSound
  BY DEF ProvisioningInit, JobsSound, NoLabelJob
<1>9. ListingsSound
  BY <1>2 DEF ProvisioningInit, ListingsSound, ListingSound
<1>10. EveryRepositoryIsQueued
  BY DEF ProvisioningInit, EveryRepositoryIsQueued
<1>. QED  BY <1>4, <1>5, <1>6, <1>7, <1>8, <1>9, <1>10 DEF ProvisioningInv

-----------------------------------------------------------------------------
(* What people do.                                                         *)

\* Only the last repository can join, and then the count of a listing under way is too small for good.
LEMMA JoinKept == ASSUME ProvisioningInv, NEW r \in Repos, Join(r) PROVE ProvisioningInv'
<1>1. /\ r \notin Seen /\ installed' = installed \cup {r}
      /\ UNCHANGED <<gone, name, labels, delivery, job, processor, worker>>
  BY DEF Join, Seen
<1>2. r = MaxRepo
  BY <1>1, ProvisioningAssumption DEF ProvisioningInv, Membership, Repos
<1>3. Seen' = Seen \cup {MaxRepo}
  BY <1>1, <1>2 DEF Seen
<1>4. ProvisioningTypeOK' /\ Membership' /\ NamesDiffer' /\ WorkersSound' /\ JobsSound'
  <2>1. ProvisioningTypeOK'
    BY <1>1 DEF ProvisioningInv, ProvisioningTypeOK
  <2>2. Membership'
    BY <1>1, <1>3 DEF ProvisioningInv, Membership
  <2>3. NamesDiffer' /\ JobsSound'
    BY <1>1 DEF ProvisioningInv, NamesDiffer, JobsSound, Taken
  <2>4. WorkersSound'
    BY <1>1 DEF ProvisioningInv, WorkersSound, WorkerSound, Taken
  <2>. QED  BY <2>1, <2>2, <2>3, <2>4
<1>5. Cardinality(installed) \in Nat /\ Cardinality(installed') = Cardinality(installed) + 1
  BY <1>1, InstalledIsFinite, FS_AddElement DEF ProvisioningInv, Seen
<1>6. ASSUME NEW p \in Processors PROVE ListingSound(processor[p])'
  <2>. DEFINE l == processor[p]
  <2>1. ListingSound(l) /\ l' = l /\ l.total \in Nat
    BY <1>1 DEF ProvisioningInv, ListingsSound, ProvisioningTypeOK, Listings
  <2>. HIDE DEF l
  <2>2. l.at = "listing" /\ l.page > 0 => (gone = {} => l.total < Cardinality(installed'))
    BY <1>5, <2>1 DEF ListingSound
  <2>3. MaxRepo \in Seen' /\ (~Swapped' => gone = {} /\ ~Swapped) /\ gone' = gone
    BY <1>1, <1>3 DEF Swapped
  <2>4. l.at = "queueing" /\ ~Swapped' /\ ~l.invalid /\ delivery.added = {} =>
           \A q \in installed' : q < MaxRepo => q \in l.todo \/ job[q] # NoLabelJob
    BY <1>1, <1>2, <2>1, <2>3, ProvisioningAssumption DEF ListingSound
  <2>5. ListingSound(l)'
    BY <1>1, <1>5, <2>1, <2>2, <2>3, <2>4 DEF ListingSound
  <2>. QED  BY <2>5 DEF l
<1>7. EveryRepositoryIsQueued'
  BY <1>1, <1>2, ProvisioningAssumption DEF ProvisioningInv, EveryRepositoryIsQueued
<1>. QED  BY <1>4, <1>6, <1>7 DEF ProvisioningInv, ListingsSound

\* Unless one joined before, the count of a listing under way is too large for good.
LEMMA LeaveKept == ASSUME ProvisioningInv, NEW r \in Repos, Leave(r) PROVE ProvisioningInv'
<1>1. /\ r \in installed /\ installed' = installed \ {r} /\ gone' = gone \cup {r}
      /\ UNCHANGED <<name, labels, delivery, job, processor, worker>>
  BY DEF Leave
<1>3. Seen' = Seen /\ gone' # {} /\ gone \subseteq gone' /\ (~Swapped' => ~Swapped /\ MaxRepo \notin Seen)
  BY <1>1 DEF Seen, Swapped
<1>4. ProvisioningTypeOK' /\ Membership' /\ NamesDiffer' /\ WorkersSound' /\ JobsSound'
  <2>1. ProvisioningTypeOK'
    BY <1>1 DEF ProvisioningInv, ProvisioningTypeOK
  <2>2. Membership'
    BY <1>1, <1>3 DEF ProvisioningInv, Membership
  <2>3. NamesDiffer' /\ JobsSound'
    BY <1>1, <1>3 DEF ProvisioningInv, NamesDiffer, JobsSound, Taken
  <2>4. WorkersSound'
    BY <1>1, <1>3 DEF ProvisioningInv, WorkersSound, WorkerSound, Taken
  <2>. QED  BY <2>1, <2>2, <2>3, <2>4
<1>5. Cardinality(installed) \in Nat /\ Cardinality(installed') = Cardinality(installed) - 1
  BY <1>1, InstalledIsFinite, FS_RemoveElement DEF ProvisioningInv
<1>6. ASSUME NEW p \in Processors PROVE ListingSound(processor[p])'
  <2>. DEFINE l == processor[p]
  <2>1. ListingSound(l) /\ l' = l /\ l.total \in Nat
    BY <1>1 DEF ProvisioningInv, ListingsSound, ProvisioningTypeOK, Listings
  <2>. HIDE DEF l
  <2>2. l.at = "listing" /\ l.page > 0 => (MaxRepo \notin Seen => l.total > Cardinality(installed'))
    BY <1>5, <2>1 DEF ListingSound
  <2>4. l.at = "queueing" /\ ~Swapped' /\ ~l.invalid /\ delivery.added = {} =>
           \A q \in installed' : q < MaxRepo => q \in l.todo \/ job[q] # NoLabelJob
    BY <1>1, <1>3, <2>1 DEF ListingSound
  <2>5. ListingSound(l)'
    BY <1>1, <1>3, <1>5, <2>1, <2>2, <2>4 DEF ListingSound
  <2>. QED  BY <2>5 DEF l
<1>7. EveryRepositoryIsQueued'
  BY <1>1, <1>3 DEF ProvisioningInv, EveryRepositoryIsQueued, Swapped, Seen
<1>. QED  BY <1>4, <1>6, <1>7 DEF ProvisioningInv, ListingsSound

\* A repository is renamed once, and never back.
LEMMA RenameKept == ASSUME ProvisioningInv, NEW r \in Repos, NEW n, Rename(r, n) PROVE ProvisioningInv'
<1>1. /\ name[r] = First(r) /\ n # First(r) /\ \A q \in Repos : name[q] # n
      /\ name' = [name EXCEPT ![r] = n] /\ n \in Repos \X {1, 2}
      /\ UNCHANGED <<installed, gone, labels, delivery, job, processor, worker>>
  BY DEF Rename, First, Second
<1>2. name \in [Repos -> Repos \X {1, 2}]
  BY DEF ProvisioningInv, ProvisioningTypeOK
<1>3. ProvisioningTypeOK' /\ Membership' /\ NamesDiffer'
  <2>1. ProvisioningTypeOK'
    BY <1>1 DEF ProvisioningInv, ProvisioningTypeOK
  <2>2. Membership'
    BY <1>1 DEF ProvisioningInv, Membership, Seen
  <2>3. NamesDiffer'
    BY <1>1, <1>2 DEF ProvisioningInv, NamesDiffer
  <2>. QED  BY <2>1, <2>2, <2>3
<1>4. ASSUME NEW q \in Repos, Taken(q) PROVE Taken(q)'
  <2>1. PICK x \in Repos \ {q} : name[x] = First(q)
    BY <1>4 DEF Taken
  <2>2. x # r
    BY <1>1, <2>1 DEF First
  <2>. QED  BY <1>1, <1>2, <2>1, <2>2 DEF Taken, First
<1>5. JobsSound'
  BY <1>1, <1>4 DEF ProvisioningInv, JobsSound
<1>6. ASSUME NEW w \in JobWorkers PROVE WorkerSound(worker[w])'
  <2>. DEFINE v == worker[w]
  <2>1. WorkerSound(v) /\ v' = v /\ v.repo \in Repos
    BY <1>1 DEF ProvisioningInv, WorkersSound, ProvisioningTypeOK, LabelSteps
  <2>. HIDE DEF v
  <2>2. v.repo # r => name'[v.repo] = name[v.repo]
    BY <1>1, <1>2, <2>1
  <2>3. v.at \notin {"idle", "resolve"} =>
          v.name \in {name'[v.repo], First(v.repo)} /\ (v.repo = r => v.name = First(r) /\ name'[r] = n)
    BY <1>1, <1>2, <2>1, <2>2 DEF WorkerSound
  <2>4. v.at = "refresh" /\ name'[v.repo] = v.name => v.repo \in gone
    BY <1>1, <2>1, <2>2, <2>3 DEF WorkerSound
  <2>5. WorkerSound(v)'
    BY <1>1, <1>4, <2>1, <2>3, <2>4 DEF WorkerSound, First
  <2>. QED  BY <2>5 DEF v
<1>7. ListingsSound' /\ EveryRepositoryIsQueued'
  BY <1>1 DEF ProvisioningInv, ListingsSound, ListingSound, Swapped, Seen, Before, EveryRepositoryIsQueued
<1>. QED  BY <1>3, <1>5, <1>6, <1>7 DEF ProvisioningInv, WorkersSound

-----------------------------------------------------------------------------
(* The delivery.                                                           *)

LEMMA ReceiveKept == ASSUME ProvisioningInv, NEW added \in SUBSET Repos, Receive(added) PROVE ProvisioningInv'
<1>1. /\ delivery.status = "none" /\ added \subseteq installed
      /\ delivery' = [delivery EXCEPT !.status = "PENDING", !.added = added]
      /\ UNCHANGED <<installed, gone, name, labels, job, processor, worker>>
  BY DEF Receive, worldVars
<1>2. ProvisioningTypeOK' /\ delivery'.added = added /\ delivery'.status = "PENDING"
  BY <1>1 DEF ProvisioningInv, ProvisioningTypeOK, Deliveries
<1>3. Membership'
  BY <1>1, <1>2 DEF ProvisioningInv, Membership, Seen
<1>4. NamesDiffer' /\ WorkersSound' /\ JobsSound'
  BY <1>1 DEF ProvisioningInv, NamesDiffer, WorkersSound, WorkerSound, JobsSound, Taken
<1>5. \A p \in Processors : processor[p].at = "idle"
  BY <1>1 DEF ProvisioningInv, Membership
<1>6. ListingsSound' /\ EveryRepositoryIsQueued'
  BY <1>1, <1>2, <1>5 DEF ListingsSound, ListingSound, EveryRepositoryIsQueued
<1>. QED  BY <1>2, <1>3, <1>4, <1>6 DEF ProvisioningInv

\* A step of one processor that queues nothing and does not complete the delivery.
LEMMA ListingKept ==
    ASSUME ProvisioningInv, NEW p \in Processors, NEW n \in Listings, processor' = [processor EXCEPT ![p] = n],
           UNCHANGED <<installed, gone, name, labels, job, worker>>,
           delivery' \in Deliveries,
           delivery'.added = delivery.added, delivery.status # "none" => delivery'.status # "none",
           delivery'.status = "PROCESSED" => delivery.status = "PROCESSED",
           n.todo \subseteq Seen, n.at # "idle" => delivery'.status # "none", ListingSound(n)
    PROVE  ProvisioningInv'
<1>1. /\ processor' \in [Processors -> Listings] /\ processor'[p] = n
      /\ \A q \in Processors \ {p} : processor'[q] = processor[q]
  BY DEF ProvisioningInv, ProvisioningTypeOK
<1>2. ProvisioningTypeOK'
  BY <1>1 DEF ProvisioningInv, ProvisioningTypeOK
<1>3. Membership'
  BY <1>1 DEF ProvisioningInv, Membership, Seen
<1>4. NamesDiffer' /\ WorkersSound' /\ JobsSound'
  BY DEF ProvisioningInv, NamesDiffer, WorkersSound, WorkerSound, JobsSound, Taken
<1>5. \A l : ListingSound(l) => ListingSound(l)'
  BY DEF ListingSound, Swapped, Seen, Before
<1>6. ASSUME NEW q \in Processors PROVE ListingSound(processor[q])'
  <2>1. PICK l : l = processor'[q]
    OBVIOUS
  <2>2. ListingSound(l)
    BY <1>1, <2>1 DEF ProvisioningInv, ListingsSound
  <2>3. ListingSound(l)'
    BY <1>5, <2>2
  <2>. QED  BY <2>1, <2>3 DEF ListingSound
<1>7. EveryRepositoryIsQueued'
  BY DEF ProvisioningInv, EveryRepositoryIsQueued
<1>. QED  BY <1>2, <1>3, <1>4, <1>6, <1>7 DEF ProvisioningInv, ListingsSound

\* An idle processor claims nothing of what it took.
LEMMA RestingSound == Resting \in Listings /\ Resting.at = "idle" /\ Resting.todo = {} /\ ListingSound(Resting)
BY DEF Resting, Listings, ListingSound

LEMMA ClaimDeliveryKept == ASSUME ProvisioningInv, NEW p \in Processors, ClaimDelivery(p) PROVE ProvisioningInv'
<1>1. PICK n : n = [Resting EXCEPT !.at = IF delivery.added = {} THEN "listing" ELSE "queueing",
                                   !.claim = delivery.claims + 1, !.todo = delivery.added]
  OBVIOUS
<1>2. /\ processor' = [processor EXCEPT ![p] = n]
      /\ delivery' = [delivery EXCEPT !.status = "PROCESSING", !.claims = @ + 1, !.live = TRUE]
      /\ UNCHANGED <<installed, gone, name, labels, job, worker>>
  BY <1>1 DEF ClaimDelivery, worldVars
<1>3. delivery \in Deliveries
  BY DEF ProvisioningInv, ProvisioningTypeOK
<1>4. /\ delivery' \in Deliveries /\ delivery'.added = delivery.added /\ delivery'.status = "PROCESSING"
  <2>1. delivery.claims + 1 \in Nat
    BY <1>3 DEF Deliveries
  <2>. QED  BY <1>2, <1>3, <2>1 DEF Deliveries
<1>5. /\ n.at = (IF delivery.added = {} THEN "listing" ELSE "queueing") /\ n.claim = delivery.claims + 1
      /\ n.page = 0 /\ n.total = 0 /\ n.todo = delivery.added /\ n.invalid = FALSE
      /\ DOMAIN n = {"at", "claim", "page", "total", "todo", "invalid"}
  BY <1>1 DEF Resting
<1>6. n \in Listings
  <2>1. delivery.claims + 1 \in Nat /\ delivery.added \in SUBSET Repos
    BY <1>3 DEF Deliveries
  <2>. QED  BY <1>1, <2>1 DEF Listings, Resting
<1>7. ListingSound(n)
  BY <1>5 DEF ListingSound
<1>8. n.todo \subseteq Seen
  BY <1>5 DEF ProvisioningInv, Membership
<1>. QED  BY <1>2, <1>4, <1>5, <1>6, <1>7, <1>8, ListingKept

LEMMA FailDeliveryKept ==
    ASSUME ProvisioningInv, NEW p \in Processors, FailDelivery(p),
           UNCHANGED <<installed, gone, name, labels, job, worker>>
    PROVE  ProvisioningInv'
<1>1. /\ processor' = [processor EXCEPT ![p] = Resting]
      /\ \/ delivery' = delivery
         \/ \E ending \in {"PENDING", "FAILED"} : delivery' = [delivery EXCEPT !.status = ending, !.live = FALSE]
  BY DEF FailDelivery
<1>2. /\ delivery' \in Deliveries
      /\ delivery'.added = delivery.added
      /\ delivery'.status # delivery.status => delivery'.status \in {"PENDING", "FAILED"}
  BY <1>1 DEF ProvisioningInv, ProvisioningTypeOK, Deliveries
<1>. QED  BY <1>1, <1>2, RestingSound, ListingKept

\* A page read while the count stands: its entry is taken, or known to be invalid.
LEMMA ListPageKept == ASSUME ProvisioningInv, NEW p \in Processors, ListPage(p) PROVE ProvisioningInv'
<1> DEFINE count == Cardinality(installed)
<1>. DEFINE l == processor[p]
<1>1. UNCHANGED <<installed, gone, name, labels, job, worker>> /\ l.at = "listing"
  BY DEF ListPage, worldVars, Doing
<1>2. /\ l \in Listings /\ ListingSound(l) /\ l.todo \subseteq Seen /\ delivery.status # "none"
      /\ delivery \in Deliveries
  BY <1>1 DEF ProvisioningInv, ProvisioningTypeOK, ListingsSound, Membership
<1>3. count \in Nat /\ \A r \in installed : Cardinality(Before(r)) \in 1 .. count
  BY InstalledIsFinite DEF ProvisioningInv
<1>4. CASE FailDelivery(p)
  BY <1>1, <1>4, FailDeliveryKept
<1>5. CASE ~FailDelivery(p)
  <2> DEFINE page == l.page + 1
  <2>1. l.page = 0 \/ l.total = count
    BY <1>2, <1>5 DEF ListPage, Listings
  <2>2. \/ /\ Entry(page) = {} /\ l.page = count
           /\ processor' = [processor EXCEPT ![p] = [l EXCEPT !.at = "queueing"]]
           /\ UNCHANGED delivery
        \/ /\ \E bad \in BOOLEAN :
                processor' = [processor EXCEPT ![p] =
                  [l EXCEPT !.at = IF page < count THEN "listing" ELSE "queueing",
                            !.page = page, !.total = count, !.invalid = @ \/ bad,
                            !.todo = IF bad THEN @ ELSE @ \cup Entry(page)]]
           /\ UNCHANGED delivery
    <3>1. l.page + 1 - 1 = l.page /\ l.page \in Nat
      BY <1>2 DEF Listings
    <3>2. ReadPage(p, count)
      BY <1>5 DEF ListPage
    <3>3. ~(Entry(page) = {} /\ page - 1 = count) => Entry(page) # {} /\ ~(Entry(page) \subseteq l.todo)
      BY <1>5, <3>2 DEF ReadPage
    <3>4. CASE Entry(page) = {} /\ page - 1 = count
      <4>1. l.page = count
        BY <3>1, <3>4
      <4>2. processor' = [processor EXCEPT ![p] = [l EXCEPT !.at = "queueing"]] /\ UNCHANGED delivery
        BY <3>2, <3>4, Zenon DEF ReadPage
      <4>. QED  BY <3>4, <4>1, <4>2
    <3>5. CASE ~(Entry(page) = {} /\ page - 1 = count)
      <4>1. /\ \E bad \in BOOLEAN :
                  processor' = [processor EXCEPT ![p] =
                    [processor[p] EXCEPT !.at = IF page < count THEN "listing" ELSE "queueing",
                              !.page = page, !.total = count, !.invalid = @ \/ bad,
                              !.todo = IF bad THEN @ ELSE @ \cup Entry(page)]]
            /\ UNCHANGED delivery
        BY <3>2, <3>3, <3>5, Zenon DEF ReadPage
      <4>. QED  BY <4>1
    <3>. QED  BY <3>4, <3>5
  <2>3. \A r \in installed : ~Swapped /\ ~l.invalid /\ Cardinality(Before(r)) <= l.page => r \in l.todo
    BY <1>1, <1>2, <1>3, <2>1 DEF ListingSound, Listings
  <2>4. Entry(page) = {r \in installed : Cardinality(Before(r)) = page}
    BY DEF Entry, Before
  <2>5. CASE /\ l.page = count /\ UNCHANGED delivery
             /\ processor' = [processor EXCEPT ![p] = [l EXCEPT !.at = "queueing"]]
    <3>1. PICK n : n = [l EXCEPT !.at = "queueing"]
      OBVIOUS
    <3>2. n \in Listings /\ n.at = "queueing" /\ n.todo = l.todo /\ n.invalid = l.invalid
      BY <1>2, <3>1 DEF Listings
    <3>3. ListingSound(n)
      BY <1>3, <2>3, <2>5, <3>2 DEF ListingSound
    <3>. QED  BY <1>1, <1>2, <2>5, <3>1, <3>2, <3>3, ListingKept
  <2>6. ASSUME NEW bad \in BOOLEAN, UNCHANGED delivery,
               processor' = [processor EXCEPT ![p] =
                  [l EXCEPT !.at = IF page < count THEN "listing" ELSE "queueing",
                            !.page = page, !.total = count, !.invalid = @ \/ bad,
                            !.todo = IF bad THEN @ ELSE @ \cup Entry(page)]]
        PROVE  ProvisioningInv'
    <3>1. PICK n : n = [l EXCEPT !.at = IF page < count THEN "listing" ELSE "queueing",
                                 !.page = page, !.total = count, !.invalid = @ \/ bad,
                                 !.todo = IF bad THEN @ ELSE @ \cup Entry(page)]
      OBVIOUS
    <3>2. /\ n.at = IF page < count THEN "listing" ELSE "queueing"
          /\ n.page = page /\ n.total = count /\ n.todo = IF bad THEN l.todo ELSE l.todo \cup Entry(page)
      BY <1>2, <3>1 DEF Listings
    <3>3. n.invalid = (l.invalid \/ bad)
      BY <1>2, <3>1 DEF Listings
    <3>4. Entry(page) \subseteq installed
      BY <2>4
    <3>5. n \in Listings
      <4>1. (l.invalid \/ bad) \in BOOLEAN
        OBVIOUS
      <4>2. (IF bad THEN l.todo ELSE l.todo \cup Entry(page)) \in SUBSET Repos
        BY <1>2, <3>4 DEF Listings, ProvisioningInv, ProvisioningTypeOK
      <4>3. n = [l EXCEPT !.at = n.at, !.page = n.page, !.total = n.total, !.invalid = n.invalid, !.todo = n.todo]
        BY <1>2, <3>1, <3>2, <3>3 DEF Listings
      <4>4. n.at \in {"idle", "listing", "queueing"} /\ n.page \in Nat /\ n.total \in Nat
        BY <1>2, <1>3, <3>2 DEF Listings
      <4>5. n.todo \in SUBSET Repos /\ n.invalid \in BOOLEAN
        BY <3>2, <3>3, <4>1, <4>2
      <4>. HIDE <3>1, <3>2, <3>3
      <4>. QED  BY <1>2, <4>3, <4>4, <4>5 DEF Listings
    <3>6. \A r \in installed : ~Swapped /\ ~n.invalid /\ Cardinality(Before(r)) <= page => r \in n.todo
      BY <1>2, <1>3, <2>3, <2>4, <3>2, <3>3 DEF Listings
    <3>7. ListingSound(n)
      BY <1>2, <1>3, <3>2, <3>6 DEF ListingSound, Listings
    <3>8. n.todo \subseteq Seen
      BY <1>2, <3>2, <3>4 DEF Seen
    <3>. QED  BY <1>1, <1>2, <2>6, <3>1, <3>5, <3>7, <3>8, ListingKept
  <2>. QED  BY <2>2, <2>5, <2>6
<1>. QED  BY <1>4, <1>5

\* A batch queues what it takes off the list, and the last one leaves nothing of a sound listing without a job.
LEMMA BatchKept == ASSUME ProvisioningInv, NEW p \in Processors, Batch(p) PROVE ProvisioningInv'
<1>. DEFINE l == processor[p]
<1>1. UNCHANGED <<installed, gone, name, labels, worker>> /\ l.at = "queueing"
  BY DEF Batch, worldVars, Doing
<1>2. l \in Listings /\ ListingSound(l) /\ l.todo \subseteq Seen /\ delivery.status # "none" /\ delivery \in Deliveries
  BY <1>1 DEF ProvisioningInv, ProvisioningTypeOK, ListingsSound, Membership
<1>3. CASE ~Holds(p)
  <2>1. processor' = [processor EXCEPT ![p] = Resting] /\ UNCHANGED <<delivery, job>>
    BY <1>3 DEF Batch
  <2>. QED  BY <1>1, <1>2, <2>1, RestingSound, ListingKept
<1>4. CASE Holds(p)
  <2>1. PICK chunk : chunk = {r \in l.todo : \A q \in l.todo : r <= q}
    OBVIOUS
  <2>2. PICK queued : queued = [NoLabelJob EXCEPT !.status = "PENDING"]
    OBVIOUS
  <2>3. queued \in LabelJobs /\ queued # NoLabelJob /\ queued.status = "PENDING" /\ queued.why = "none"
    BY <2>2 DEF NoLabelJob, LabelJobs
  <2>4. /\ job' = [r \in Repos |-> IF r \in chunk /\ job[r] = NoLabelJob THEN queued ELSE job[r]]
        /\ IF l.todo \ chunk # {}
           THEN /\ processor' = [processor EXCEPT ![p].todo = l.todo \ chunk]
                /\ UNCHANGED delivery
           ELSE /\ processor' = [processor EXCEPT ![p] = Resting]
                /\ delivery' = [delivery EXCEPT !.status = IF l.invalid THEN "FAILED" ELSE "PROCESSED", !.live = FALSE]
    BY <1>4, <2>1, <2>2, Zenon DEF Batch
  <2>5. chunk \subseteq l.todo /\ l.todo \subseteq Repos
    BY <1>2, <2>1 DEF Listings
  <2>6. job \in [Repos -> LabelJobs] /\ processor \in [Processors -> Listings]
    BY DEF ProvisioningInv, ProvisioningTypeOK
  <2>7. /\ job' \in [Repos -> LabelJobs]
        /\ \A r \in Repos : job[r] # NoLabelJob => job'[r] = job[r]
        /\ \A r \in chunk : job'[r] # NoLabelJob
        /\ \A r \in Repos : job'[r] = job[r] \/ (r \in chunk /\ job'[r] = queued)
    BY <2>3, <2>4, <2>5, <2>6
  <2>8. PICK n \in Listings : /\ processor' = [processor EXCEPT ![p] = n]
                              /\ \/ n = Resting
                                 \/ n.at = "queueing" /\ n.todo = l.todo \ chunk /\ n.invalid = l.invalid
    <3>1. CASE l.todo \ chunk # {}
      <4>1. PICK n : n = [l EXCEPT !.todo = l.todo \ chunk]
        OBVIOUS
      <4>2. n \in Listings /\ n.at = "queueing" /\ n.todo = l.todo \ chunk /\ n.invalid = l.invalid
        BY <1>1, <1>2, <2>5, <4>1 DEF Listings
      <4>3. processor' = [processor EXCEPT ![p] = n]
        BY <2>4, <3>1, <4>1
      <4>. QED  BY <4>2, <4>3
    <3>2. CASE l.todo \ chunk = {}
      BY <2>4, <3>2, RestingSound
    <3>. QED  BY <3>1, <3>2
  <2>9. /\ delivery' \in Deliveries /\ delivery'.added = delivery.added /\ delivery'.status # "none"
        /\ delivery'.status = "PROCESSED" => delivery.status = "PROCESSED" \/ (l.todo \ chunk = {} /\ ~l.invalid)
    <3>1. CASE UNCHANGED delivery
      BY <1>2, <3>1
    <3>2. CASE l.todo \ chunk = {} /\ ~l.invalid
      <4>1. delivery' = [delivery EXCEPT !.status = "PROCESSED", !.live = FALSE]
        BY <2>4, <3>2
      <4>. QED  BY <1>2, <3>2, <4>1 DEF Deliveries
    <3>3. CASE l.todo \ chunk = {} /\ l.invalid
      <4>1. delivery' = [delivery EXCEPT !.status = "FAILED", !.live = FALSE]
        BY <2>4, <3>3
      <4>. QED  BY <1>2, <4>1 DEF Deliveries
    <3>. QED  BY <2>4, <3>1, <3>2, <3>3
  <2>10. /\ processor' \in [Processors -> Listings] /\ processor'[p] = n
         /\ \A q \in Processors \ {p} : processor'[q] = processor[q]
    BY <2>6, <2>8
  <2>11. ProvisioningTypeOK'
    BY <1>1, <2>7, <2>9, <2>10 DEF ProvisioningInv, ProvisioningTypeOK
  <2>12. Membership'
    <3>1. Seen' = Seen /\ n.todo \subseteq Seen
      BY <1>1, <1>2, <2>8, RestingSound DEF Seen
    <3>2. \A q \in Processors : processor'[q].todo \subseteq Seen
      BY <2>10, <3>1 DEF ProvisioningInv, Membership
    <3>3. \A r \in Repos : job'[r] # NoLabelJob => r \in Seen
      BY <1>2, <2>5, <2>7 DEF ProvisioningInv, Membership
    <3>. QED  BY <2>9, <3>1, <3>2, <3>3 DEF ProvisioningInv, Membership
  <2>13. NamesDiffer' /\ WorkersSound' /\ JobsSound'
    <3>1. NamesDiffer'
      BY <1>1 DEF ProvisioningInv, NamesDiffer
    <3>2. JobsSound'
      BY <1>1, <2>3, <2>7 DEF ProvisioningInv, JobsSound, Taken
    <3>3. \A w \in JobWorkers : worker[w].repo \in Repos
      BY DEF ProvisioningInv, ProvisioningTypeOK, LabelSteps
    <3>4. WorkersSound'
      BY <1>1, <2>7, <3>3 DEF ProvisioningInv, WorkersSound, WorkerSound, Taken
    <3>. QED  BY <3>1, <3>2, <3>4
  <2>14. Swapped' = Swapped /\ Seen' = Seen /\ installed \subseteq Repos
    BY <1>1 DEF Swapped, Seen, ProvisioningInv, ProvisioningTypeOK
  <2>15. ~Swapped /\ ~l.invalid /\ delivery.added = {} =>
            \A r \in installed : r < MaxRepo => r \in l.todo \ chunk \/ job'[r] # NoLabelJob
    BY <1>1, <1>2, <2>5, <2>7, <2>14 DEF ListingSound
  <2>16. ListingSound(n)'
    BY <1>1, <2>8, <2>9, <2>14, <2>15, RestingSound DEF ListingSound
  <2>17. ASSUME NEW q \in Processors PROVE ListingSound(processor[q])'
    <3>1. PICK k : k = processor'[q]
      OBVIOUS
    <3>2. CASE q = p
      BY <2>10, <2>16, <3>1, <3>2 DEF ListingSound
    <3>3. CASE q # p
      <4>1. ListingSound(k)
        BY <2>10, <3>1, <3>3 DEF ProvisioningInv, ListingsSound
      <4>2. ListingSound(k)'
        BY <1>1, <2>7, <2>9, <2>14, <4>1 DEF ListingSound, Before
      <4>. QED  BY <3>1, <4>2 DEF ListingSound
    <3>. QED  BY <3>2, <3>3
  <2>18. EveryRepositoryIsQueued'
    <3>1. CASE delivery.status = "PROCESSED"
      BY <1>1, <2>7, <2>9, <2>14, <3>1, ProvisioningAssumption DEF ProvisioningInv, EveryRepositoryIsQueued, Repos
    <3>2. CASE delivery'.status = "PROCESSED" /\ l.todo \ chunk = {} /\ ~l.invalid
      BY <1>1, <2>9, <2>14, <2>15, <3>2, ProvisioningAssumption DEF EveryRepositoryIsQueued, Swapped, Seen
    <3>. QED  BY <2>9, <3>1, <3>2 DEF EveryRepositoryIsQueued
  <2>. QED  BY <2>11, <2>12, <2>13, <2>17, <2>18 DEF ProvisioningInv, ListingsSound
<1>. QED  BY <1>3, <1>4

LEMMA ExpireClaimKept == ASSUME ProvisioningInv, ExpireClaim PROVE ProvisioningInv'
<1>1. /\ delivery.status = "PROCESSING" /\ delivery' = [delivery EXCEPT !.live = FALSE]
      /\ UNCHANGED <<installed, gone, name, labels, job, worker>>
      /\ \/ UNCHANGED processor
         \/ \E p \in Processors : processor' = [processor EXCEPT ![p] = Resting]
  BY DEF ExpireClaim, worldVars
<1>2. delivery \in Deliveries
  BY DEF ProvisioningInv, ProvisioningTypeOK
<1>3. delivery' \in Deliveries /\ delivery'.added = delivery.added /\ delivery'.status = "PROCESSING"
  BY <1>1, <1>2 DEF Deliveries
<1>4. CASE \E p \in Processors : processor' = [processor EXCEPT ![p] = Resting]
  BY <1>1, <1>2, <1>3, <1>4, RestingSound, ListingKept
<1>5. CASE UNCHANGED processor
  <2>1. ProvisioningTypeOK'
    BY <1>1, <1>3, <1>5 DEF ProvisioningInv, ProvisioningTypeOK
  <2>2. Membership'
    BY <1>1, <1>3, <1>5 DEF ProvisioningInv, Membership, Seen
  <2>3. NamesDiffer' /\ WorkersSound' /\ JobsSound'
    BY <1>1 DEF ProvisioningInv, NamesDiffer, WorkersSound, WorkerSound, JobsSound, Taken
  <2>4. ListingsSound' /\ EveryRepositoryIsQueued'
    BY <1>1, <1>3, <1>5 DEF ProvisioningInv, ListingsSound, ListingSound, Swapped, Seen, Before, EveryRepositoryIsQueued
  <2>. QED  BY <2>1, <2>2, <2>3, <2>4 DEF ProvisioningInv
<1>. QED  BY <1>1, <1>4, <1>5

-----------------------------------------------------------------------------
(* The workers of the jobs.                                                *)

\* A step of the workers: no job is new or gone, no label is lost.
LEMMA WorkKept ==
    ASSUME ProvisioningInv, UNCHANGED <<installed, gone, name, delivery, processor>>,
           worker' \in [JobWorkers -> LabelSteps], job' \in [Repos -> LabelJobs], labels' \in [Repos -> SUBSET Labels],
           \A r \in Repos : labels[r] \subseteq labels'[r] /\ (job[r] = NoLabelJob <=> job'[r] = NoLabelJob),
           \A w \in JobWorkers : worker'[w] = worker[w] \/ \E n : n = worker'[w] /\ WorkerSound(n)',
           JobsSound'
    PROVE  ProvisioningInv'
<1>1. ProvisioningTypeOK'
  BY DEF ProvisioningInv, ProvisioningTypeOK
<1>2. Membership' /\ NamesDiffer'
  BY DEF ProvisioningInv, Membership, Seen, NamesDiffer
<1>3. ASSUME NEW w \in JobWorkers PROVE WorkerSound(worker[w])'
  <2>1. PICK n : n = worker'[w]
    OBVIOUS
  <2>2. CASE worker'[w] = worker[w]
    <3>1. WorkerSound(n) /\ n.repo \in Repos
      BY <2>1, <2>2 DEF ProvisioningInv, ProvisioningTypeOK, LabelSteps, WorkersSound
    <3>2. WorkerSound(n)'
      BY <3>1 DEF WorkerSound, Taken
    <3>. QED  BY <2>1, <3>2 DEF WorkerSound
  <2>3. CASE WorkerSound(n)'
    BY <2>1, <2>3 DEF WorkerSound
  <2>. QED  BY <2>1, <2>2, <2>3
<1>4. ListingsSound' /\ EveryRepositoryIsQueued'
  <2>1. \A r \in installed : r \in Repos
    BY DEF ProvisioningInv, ProvisioningTypeOK
  <2>2. ASSUME NEW p \in Processors PROVE ListingSound(processor[p])'
    <3>1. PICK l : l = processor[p]
      OBVIOUS
    <3>2. ListingSound(l)
      BY <3>1 DEF ProvisioningInv, ListingsSound
    <3>3. ListingSound(l)'
      BY <2>1, <3>2 DEF ListingSound, Swapped, Seen, Before
    <3>. QED  BY <3>1, <3>3 DEF ListingSound
  <2>3. EveryRepositoryIsQueued'
    BY ProvisioningAssumption DEF ProvisioningInv, EveryRepositoryIsQueued, Repos
  <2>. QED  BY <2>2, <2>3 DEF ListingsSound
<1>. QED  BY <1>1, <1>2, <1>3, <1>4 DEF ProvisioningInv, WorkersSound

\* Of these a worker's step in its work is one.
LEMMA MoveKept ==
    ASSUME ProvisioningInv, UNCHANGED <<installed, gone, name, delivery, processor, job>>,
           NEW w \in JobWorkers, NEW n \in LabelSteps, worker' = [worker EXCEPT ![w] = n],
           labels' \in [Repos -> SUBSET Labels], \A r \in Repos : labels[r] \subseteq labels'[r], WorkerSound(n)'
    PROVE  ProvisioningInv'
<1>1. /\ worker' \in [JobWorkers -> LabelSteps] /\ worker'[w] = n
      /\ \A v \in JobWorkers \ {w} : worker'[v] = worker[v]
  BY DEF ProvisioningInv, ProvisioningTypeOK
<1>2. job' \in [Repos -> LabelJobs] /\ labels \in [Repos -> SUBSET Labels]
  BY DEF ProvisioningInv, ProvisioningTypeOK
<1>3. JobsSound'
  <2>1. \A r \in Repos : labels[r] = Labels => labels'[r] = Labels
    BY <1>2
  <2>. QED  BY <2>1 DEF ProvisioningInv, JobsSound, Taken
<1>4. \A v \in JobWorkers : worker'[v] = worker[v] \/ \E k : k = worker'[v] /\ WorkerSound(k)'
  BY <1>1
<1>. QED  BY <1>1, <1>2, <1>3, <1>4, WorkKept

\* A worker without work claims nothing.
LEMMA FreeSound == Free \in LabelSteps /\ Free.at = "idle" /\ WorkerSound(Free)'
<1>1. 1 \in Repos
  BY ProvisioningAssumption DEF Repos
<1>. QED  BY <1>1 DEF Free, LabelSteps, First, WorkerSound

\* The end of an attempt, if what it records is true.
LEMMA SettleKept ==
    ASSUME ProvisioningInv, UNCHANGED <<installed, gone, name, delivery, processor>>,
           NEW w \in JobWorkers, NEW ending \in {"PENDING", "SUCCEEDED", "FAILED"},
           NEW why \in {"none", "retried", "repository", "installation", "labels"}, Settles(w, ending, why),
           labels' \in [Repos -> SUBSET Labels], \A r \in Repos : labels[r] \subseteq labels'[r],
           ending = "SUCCEEDED" => labels[worker[w].repo] = Labels \/ Taken(worker[w].repo),
           why \in {"repository", "installation"} => worker[w].repo \in gone
    PROVE  ProvisioningInv'
<1>1. worker \in [JobWorkers -> LabelSteps] /\ job \in [Repos -> LabelJobs] /\ labels \in [Repos -> SUBSET Labels]
  BY DEF ProvisioningInv, ProvisioningTypeOK
<1>2. PICK r \in Repos : r = worker[w].repo
  BY <1>1 DEF LabelSteps
<1>3. /\ worker' \in [JobWorkers -> LabelSteps] /\ worker'[w] = Free
      /\ \A v \in JobWorkers \ {w} : worker'[v] = worker[v]
  BY <1>1, FreeSound DEF Settles
<1>4. \A v \in JobWorkers : worker'[v] = worker[v] \/ \E k : k = worker'[v] /\ WorkerSound(k)'
  BY <1>3, FreeSound
<1>5. \A q \in Repos : labels[q] = Labels => labels'[q] = Labels
  BY <1>1
<1>6. CASE job' = job
  BY <1>1, <1>3, <1>4, <1>5, <1>6, WorkKept DEF ProvisioningInv, JobsSound, Taken
<1>7. CASE Leased(w) /\ job' = [job EXCEPT ![r] = [job[r] EXCEPT !.status = ending, !.live = FALSE, !.why = why]]
  <2>1. PICK j : j = [job[r] EXCEPT !.status = ending, !.live = FALSE, !.why = why]
    OBVIOUS
  <2>2. j \in LabelJobs /\ j.status = ending /\ j.why = why
    BY <1>1, <2>1 DEF LabelJobs
  <2>3. j # NoLabelJob /\ job[r] # NoLabelJob
    BY <1>2, <1>7, <2>2 DEF NoLabelJob, Leased
  <2>4. job' \in [Repos -> LabelJobs] /\ job'[r] = j /\ \A q \in Repos \ {r} : job'[q] = job[q]
    BY <1>1, <1>7, <2>1, <2>2
  <2>5. \A q \in Repos : job[q] = NoLabelJob <=> job'[q] = NoLabelJob
    BY <2>3, <2>4
  <2>6. JobsSound'
    <3>1. j.status = "SUCCEEDED" => labels'[r] = Labels \/ Taken(r)
      BY <1>2, <1>5, <2>2
    <3>2. j.why \in {"repository", "installation"} => r \in gone
      BY <1>2, <2>2
    <3>. QED  BY <1>5, <2>4, <3>1, <3>2 DEF ProvisioningInv, JobsSound, Taken
  <2>. QED  BY <1>3, <1>4, <2>4, <2>5, <2>6, WorkKept
<1>. QED  BY <1>2, <1>6, <1>7 DEF Settles

LEMMA TriesAgainKept ==
    ASSUME ProvisioningInv, UNCHANGED <<installed, gone, name, delivery, processor>>,
           NEW w \in JobWorkers, TriesAgain(w),
           labels' \in [Repos -> SUBSET Labels], \A r \in Repos : labels[r] \subseteq labels'[r]
    PROVE  ProvisioningInv'
<1>1. PICK ending \in {"PENDING", "SUCCEEDED", "FAILED"} :
         ending = (IF worker[w].attempt < MaxAttempt THEN "PENDING" ELSE "FAILED")
  OBVIOUS
<1>2. Settles(w, ending, "retried") /\ ending # "SUCCEEDED"
  BY <1>1 DEF TriesAgain
<1>. QED  BY <1>2, SettleKept

\* What bears the name a worker goes by is its repository, or another one that took that name.
LEMMA NamedIsItsOwn ==
    ASSUME ProvisioningInv, NEW w \in JobWorkers, worker[w].at \notin {"idle", "resolve"}, NEW q \in Named(w)
    PROVE  q \in Repos /\ (q = worker[w].repo \/ Taken(worker[w].repo))
<1>1. worker[w].repo \in Repos /\ q \in Repos /\ name[q] = worker[w].name
  BY DEF ProvisioningInv, ProvisioningTypeOK, LabelSteps, Named
<1>2. name[q] \in {name[worker[w].repo], First(worker[w].repo)}
  BY <1>1 DEF ProvisioningInv, WorkersSound, WorkerSound
<1>. QED  BY <1>1, <1>2 DEF ProvisioningInv, NamesDiffer, Taken

LEMMA ClaimJobKept ==
    ASSUME ProvisioningInv, NEW w \in JobWorkers, NEW r \in Repos, ClaimJob(w, r) PROVE ProvisioningInv'
<1>1. /\ job \in [Repos -> LabelJobs] /\ worker \in [JobWorkers -> LabelSteps] /\ labels \in [Repos -> SUBSET Labels]
      /\ UNCHANGED <<installed, gone, name, labels, delivery, processor>>
  BY DEF ProvisioningInv, ProvisioningTypeOK, ClaimJob, worldVars
<1>2. PICK n : n = [Free EXCEPT !.at = "resolve", !.repo = r, !.attempt = job[r].attempts + 1]
  OBVIOUS
<1>3. PICK j : j = [job[r] EXCEPT !.status = "LEASED", !.attempts = @ + 1, !.live = TRUE]
  OBVIOUS
<1>4. job[r].attempts \in Nat
  BY <1>1 DEF LabelJobs
<1>5. n \in LabelSteps /\ n.at = "resolve" /\ n.repo = r
  <2>1. Free \in LabelSteps /\ job[r].attempts + 1 \in Nat
    BY <1>4, FreeSound
  <2>. QED  BY <1>2, <2>1 DEF LabelSteps
<1>6. j \in LabelJobs /\ j.status = "LEASED" /\ j.why = job[r].why
  <2>1. job[r].attempts + 1 \in Nat /\ job[r] \in LabelJobs
    BY <1>1, <1>4
  <2>. QED  BY <1>3, <2>1 DEF LabelJobs
<1>7. job[r] # NoLabelJob /\ j # NoLabelJob
  BY <1>6 DEF ClaimJob, NoLabelJob
<1>8. job' = [job EXCEPT ![r] = j] /\ worker' = [worker EXCEPT ![w] = n]
  BY <1>2, <1>3 DEF ClaimJob
<1>9. /\ job' \in [Repos -> LabelJobs] /\ job'[r] = j /\ \A q \in Repos \ {r} : job'[q] = job[q]
      /\ worker' \in [JobWorkers -> LabelSteps] /\ worker'[w] = n /\ \A v \in JobWorkers \ {w} : worker'[v] = worker[v]
  BY <1>1, <1>5, <1>6, <1>8
<1>10. WorkerSound(n)'
  BY <1>5, <1>7, <1>9 DEF WorkerSound
<1>11. JobsSound'
  BY <1>1, <1>6, <1>9 DEF ProvisioningInv, JobsSound, Taken
<1>12. \A v \in JobWorkers : worker'[v] = worker[v] \/ \E k : k = worker'[v] /\ WorkerSound(k)'
  BY <1>9, <1>10
<1>13. \A q \in Repos : job[q] = NoLabelJob <=> job'[q] = NoLabelJob
  BY <1>7, <1>9
<1>. QED  BY <1>1, <1>9, <1>11, <1>12, <1>13, WorkKept

LEMMA ResolveKept == ASSUME ProvisioningInv, NEW w \in JobWorkers, Resolve(w) PROVE ProvisioningInv'
<1>1. /\ worker[w] \in LabelSteps /\ WorkerSound(worker[w]) /\ worker[w].at = "resolve"
      /\ name \in [Repos -> Repos \X {1, 2}] /\ labels \in [Repos -> SUBSET Labels]
      /\ UNCHANGED <<installed, gone, name, labels, delivery, processor>>
  BY DEF ProvisioningInv, ProvisioningTypeOK, WorkersSound, Resolve, worldVars, On
<1>2. worker[w].repo \in Repos /\ worker[w].repo \in Seen
  BY <1>1 DEF WorkerSound, LabelSteps, ProvisioningInv, Membership
<1>3. CASE /\ worker' = [worker EXCEPT ![w] = [worker[w] EXCEPT !.at = "verify", !.name = name[worker[w].repo]]]
           /\ job' = job
  <2>1. PICK n : n = [worker[w] EXCEPT !.at = "verify", !.name = name[worker[w].repo]]
    OBVIOUS
  <2>2. n \in LabelSteps /\ n.at = "verify" /\ n.repo = worker[w].repo /\ n.name = name[worker[w].repo]
    BY <1>1, <1>2, <2>1 DEF LabelSteps
  <2>3. WorkerSound(n)'
    BY <1>1, <1>3, <2>2 DEF WorkerSound
  <2>. QED  BY <1>1, <1>3, <2>1, <2>2, <2>3, MoveKept
<1>4. CASE worker[w].repo \notin installed /\ GivesUp(w, "repository")
  BY <1>1, <1>2, <1>4, SettleKept DEF GivesUp, Seen
<1>. QED  BY <1>3, <1>4 DEF Resolve

\* A worker that goes on to another step of its work on the same labels.
LEMMA StepKept ==
    ASSUME ProvisioningInv, UNCHANGED <<installed, gone, name, delivery, processor, job>>,
           NEW w \in JobWorkers, worker[w].at # "idle", NEW missing \in SUBSET Labels,
           NEW at \in {"verify", "refresh", "read", "labels", "create", "relist"},
           worker' = [worker EXCEPT ![w] = [worker[w] EXCEPT !.at = at, !.missing = missing]],
           worker[w].at # "resolve",
           at \in {"create", "relist"} => Labels \ missing \subseteq labels'[worker[w].repo] \/ Taken(worker[w].repo),
           at = "refresh" /\ name[worker[w].repo] = worker[w].name => worker[w].repo \in gone,
           labels' \in [Repos -> SUBSET Labels], \A r \in Repos : labels[r] \subseteq labels'[r]
    PROVE  ProvisioningInv'
<1>1. worker[w] \in LabelSteps /\ WorkerSound(worker[w])
  BY DEF ProvisioningInv, ProvisioningTypeOK, WorkersSound
<1>2. PICK n : n = [worker[w] EXCEPT !.at = at, !.missing = missing]
  OBVIOUS
<1>3. n \in LabelSteps /\ n.at = at /\ n.repo = worker[w].repo /\ n.name = worker[w].name /\ n.missing = missing
  BY <1>1, <1>2 DEF LabelSteps
<1>4. Taken(n.repo)' <=> Taken(n.repo)
  BY DEF Taken
<1>5. WorkerSound(n)'
  BY <1>1, <1>3, <1>4 DEF WorkerSound
<1>. QED  BY <1>2, <1>3, <1>5, MoveKept

\* The same without another look at the labels.
LEMMA GoesKept ==
    ASSUME ProvisioningInv, UNCHANGED <<installed, gone, name, labels, delivery, processor, job>>,
           NEW w \in JobWorkers, worker[w].at \notin {"idle", "resolve"},
           NEW at \in {"verify", "refresh", "read", "labels", "relist"}, Goes(w, at),
           at = "relist" => worker[w].at = "create",
           at = "refresh" /\ name[worker[w].repo] = worker[w].name => worker[w].repo \in gone
    PROVE  ProvisioningInv'
<1>1. /\ worker \in [JobWorkers -> LabelSteps] /\ WorkerSound(worker[w]) /\ labels \in [Repos -> SUBSET Labels]
      /\ worker[w] \in LabelSteps
  BY DEF ProvisioningInv, ProvisioningTypeOK, WorkersSound
<1>2. worker[w].missing \in SUBSET Labels
  BY <1>1 DEF LabelSteps
<1>3. [worker[w] EXCEPT !.at = at] = [worker[w] EXCEPT !.at = at, !.missing = worker[w].missing]
  BY <1>1 DEF LabelSteps
<1>4. worker' = [worker EXCEPT ![w] = [worker[w] EXCEPT !.at = at, !.missing = worker[w].missing]]
  BY <1>3 DEF Goes
<1>5. at = "relist" => Labels \ worker[w].missing \subseteq labels'[worker[w].repo] \/ Taken(worker[w].repo)
  BY <1>1 DEF WorkerSound
<1>. QED  BY <1>1, <1>2, <1>4, <1>5, StepKept

LEMMA VerifyInstallationKept ==
    ASSUME ProvisioningInv, NEW w \in JobWorkers, VerifyInstallation(w) PROVE ProvisioningInv'
<1>1. /\ UNCHANGED <<installed, gone, name, labels, delivery, processor, job>> /\ worker[w].at = "verify"
  BY DEF VerifyInstallation, worldVars, On
<1>2. PICK at \in {"verify", "refresh", "read", "labels", "relist"} :
         at = (IF Named(w) \cap installed # {} THEN "read" ELSE "refresh")
  OBVIOUS
<1>3. Goes(w, at)
  BY <1>2 DEF VerifyInstallation
<1>4. worker[w].repo \in Repos /\ worker[w].repo \in Seen
  BY <1>1 DEF ProvisioningInv, ProvisioningTypeOK, LabelSteps, WorkersSound, WorkerSound, Membership
<1>5. at = "refresh" /\ name[worker[w].repo] = worker[w].name => worker[w].repo \in gone
  BY <1>2, <1>4 DEF Named, Seen
<1>. QED  BY <1>1, <1>2, <1>3, <1>5, GoesKept

LEMMA RefreshKept == ASSUME ProvisioningInv, NEW w \in JobWorkers, Refresh(w) PROVE ProvisioningInv'
<1>1. /\ UNCHANGED <<installed, gone, name, labels, delivery, processor>> /\ worker[w].at = "refresh"
      /\ labels \in [Repos -> SUBSET Labels] /\ WorkerSound(worker[w])
  BY DEF Refresh, worldVars, On, ProvisioningInv, ProvisioningTypeOK, WorkersSound
<1>2. CASE name[worker[w].repo] # worker[w].name
  BY <1>1, <1>2, TriesAgainKept DEF Refresh
<1>3. CASE name[worker[w].repo] = worker[w].name
  <2>1. worker[w].repo \in gone /\ Settles(w, "FAILED", "installation")
    BY <1>1, <1>3 DEF Refresh, WorkerSound, GivesUp
  <2>. QED  BY <1>1, <2>1, SettleKept
<1>. QED  BY <1>2, <1>3

LEMMA ReadIdentityKept == ASSUME ProvisioningInv, NEW w \in JobWorkers, ReadIdentity(w) PROVE ProvisioningInv'
<1>1. /\ UNCHANGED <<installed, gone, name, labels, delivery, processor>> /\ worker[w].at = "read"
      /\ labels \in [Repos -> SUBSET Labels]
  BY DEF ReadIdentity, worldVars, On, ProvisioningInv, ProvisioningTypeOK
<1>2. CASE Goes(w, "labels") /\ job' = job
  BY <1>1, <1>2, GoesKept
<1>3. CASE TriesAgain(w)
  BY <1>1, <1>3, TriesAgainKept
<1>. QED  BY <1>2, <1>3 DEF ReadIdentity

\* A worker gives up for the labels' sake.
LEMMA GivesUpKept ==
    ASSUME ProvisioningInv, UNCHANGED <<installed, gone, name, labels, delivery, processor>>, NEW w \in JobWorkers,
           GivesUp(w, "labels")
    PROVE  ProvisioningInv'
<1>1. labels \in [Repos -> SUBSET Labels] /\ Settles(w, "FAILED", "labels")
  BY DEF ProvisioningInv, ProvisioningTypeOK, GivesUp
<1>. QED  BY <1>1, SettleKept

LEMMA ListLabelsKept == ASSUME ProvisioningInv, NEW w \in JobWorkers, ListLabels(w) PROVE ProvisioningInv'
<1>1. /\ UNCHANGED <<installed, gone, name, labels, delivery, processor>> /\ worker[w].at = "labels"
      /\ labels \in [Repos -> SUBSET Labels]
  BY DEF ListLabels, worldVars, On, ProvisioningInv, ProvisioningTypeOK
<1>2. CASE GivesUp(w, "labels")
  BY <1>1, <1>2, GivesUpKept
<1>3. ASSUME NEW q \in Named(w), job' = job,
             worker' = [worker EXCEPT ![w] = [worker[w] EXCEPT !.at = "create", !.missing = Labels \ labels[q]]]
      PROVE  ProvisioningInv'
  <2>1. q \in Repos /\ (q = worker[w].repo \/ Taken(worker[w].repo))
    BY <1>1, NamedIsItsOwn
  <2>2. PICK missing \in SUBSET Labels : missing = Labels \ labels[q]
    OBVIOUS
  <2>3. Labels \ missing \subseteq labels'[worker[w].repo] \/ Taken(worker[w].repo)
    BY <1>1, <2>1, <2>2
  <2>. QED  BY <1>1, <1>3, <2>2, <2>3, StepKept
<1>. QED  BY <1>2, <1>3 DEF ListLabels

\* What is created is missing no more, if it was created where it belongs.
LEMMA CreateKept == ASSUME ProvisioningInv, NEW w \in JobWorkers, Create(w) PROVE ProvisioningInv'
<1>1. /\ UNCHANGED <<installed, gone, name, delivery, processor>> /\ worker[w].at = "create" /\ worker[w].missing # {}
      /\ labels \in [Repos -> SUBSET Labels] /\ worker[w] \in LabelSteps /\ WorkerSound(worker[w])
  BY DEF Create, On, ProvisioningInv, ProvisioningTypeOK, WorkersSound
<1>2. PICK next : next = Next1(w)
  OBVIOUS
<1>3. next \in worker[w].missing /\ worker[w].missing \subseteq Labels /\ worker[w].repo \in Repos
  BY <1>1, <1>2, NextIsMissing DEF ProvisioningInv, LabelSteps
<1>4. CASE GivesUp(w, "labels") /\ UNCHANGED labels
  BY <1>1, <1>4, GivesUpKept
<1>5. CASE Goes(w, "relist") /\ UNCHANGED <<labels, job>>
  BY <1>1, <1>5, GoesKept
<1>6. ASSUME NEW q \in Named(w), UNCHANGED job, labels' = [labels EXCEPT ![q] = labels[q] \cup {next}],
             worker' = [worker EXCEPT ![w] = [worker[w] EXCEPT !.missing = worker[w].missing \ {next}]]
      PROVE  ProvisioningInv'
  <2>1. q \in Repos /\ (q = worker[w].repo \/ Taken(worker[w].repo))
    BY <1>1, NamedIsItsOwn
  <2>2. /\ labels' \in [Repos -> SUBSET Labels] /\ labels'[q] = labels[q] \cup {next}
        /\ \A r \in Repos : labels[r] \subseteq labels'[r]
    BY <1>1, <1>3, <1>6, <2>1
  <2>3. PICK missing \in SUBSET Labels : missing = worker[w].missing \ {next}
    BY <1>3
  <2>4. Labels \ worker[w].missing \subseteq labels[worker[w].repo] \/ Taken(worker[w].repo)
    BY <1>1 DEF WorkerSound
  <2>5. Labels \ missing \subseteq labels'[worker[w].repo] \/ Taken(worker[w].repo)
    BY <1>3, <2>1, <2>2, <2>3, <2>4
  <2>6. [worker[w] EXCEPT !.missing = missing] = [worker[w] EXCEPT !.at = "create", !.missing = missing]
    BY <1>1 DEF LabelSteps
  <2>7. worker' = [worker EXCEPT ![w] = [worker[w] EXCEPT !.at = "create", !.missing = missing]]
    BY <1>6, <2>3, <2>6
  <2>. QED  BY <1>1, <1>6, <2>2, <2>5, <2>7, StepKept
<1>7. \/ GivesUp(w, "labels") /\ UNCHANGED labels
      \/ Goes(w, "relist") /\ UNCHANGED <<labels, job>>
      \/ \E q \in Named(w) : /\ UNCHANGED job /\ labels' = [labels EXCEPT ![q] = labels[q] \cup {next}]
                             /\ worker' = [worker EXCEPT ![w] =
                                             [worker[w] EXCEPT !.missing = worker[w].missing \ {next}]]
  BY <1>2 DEF Create
<1>. QED  BY <1>4, <1>5, <1>6, <1>7

\* A refused label is missing no more if it is there, and that where it belongs.
LEMMA RelistKept == ASSUME ProvisioningInv, NEW w \in JobWorkers, Relist(w) PROVE ProvisioningInv'
<1>1. /\ UNCHANGED <<installed, gone, name, labels, delivery, processor>> /\ worker[w].at = "relist"
      /\ labels \in [Repos -> SUBSET Labels] /\ worker[w] \in LabelSteps /\ WorkerSound(worker[w])
  BY DEF Relist, worldVars, On, ProvisioningInv, ProvisioningTypeOK, WorkersSound
<1>2. CASE GivesUp(w, "labels")
  BY <1>1, <1>2, GivesUpKept
<1>3. ASSUME NEW q \in Named(w), Next1(w) \in labels[q], job' = job,
             worker' = [worker EXCEPT ![w] =
                          [worker[w] EXCEPT !.at = "create", !.missing = worker[w].missing \ {Next1(w)}]]
      PROVE  ProvisioningInv'
  <2>1. q \in Repos /\ (q = worker[w].repo \/ Taken(worker[w].repo))
    BY <1>1, NamedIsItsOwn
  <2>2. worker[w].missing \subseteq Labels
    BY <1>1 DEF LabelSteps
  <2>3. PICK missing \in SUBSET Labels : missing = worker[w].missing \ {Next1(w)}
    BY <2>2
  <2>4. Labels \ worker[w].missing \subseteq labels[worker[w].repo] \/ Taken(worker[w].repo)
    BY <1>1 DEF WorkerSound
  <2>5. Labels \ missing \subseteq labels'[worker[w].repo] \/ Taken(worker[w].repo)
    BY <1>1, <1>3, <2>1, <2>3, <2>4
  <2>. QED  BY <1>1, <1>3, <2>3, <2>5, StepKept
<1>. QED  BY <1>2, <1>3 DEF Relist

\* A job is done when nothing is missing.
LEMMA CompleteProvisioningKept ==
    ASSUME ProvisioningInv, NEW w \in JobWorkers, CompleteProvisioning(w) PROVE ProvisioningInv'
<1>1. /\ UNCHANGED <<installed, gone, name, labels, delivery, processor>> /\ worker[w].at = "create"
      /\ worker[w].missing = {} /\ Settles(w, "SUCCEEDED", "none")
      /\ labels \in [Repos -> SUBSET Labels] /\ worker[w] \in LabelSteps /\ WorkerSound(worker[w])
  BY DEF CompleteProvisioning, worldVars, On, ProvisioningInv, ProvisioningTypeOK, WorkersSound
<1>2. labels[worker[w].repo] = Labels \/ Taken(worker[w].repo)
  <2>1. labels[worker[w].repo] \subseteq Labels
    BY <1>1 DEF LabelSteps
  <2>. QED  BY <1>1, <2>1 DEF WorkerSound
<1>. QED  BY <1>1, <1>2, SettleKept

\* Not even a request that failed took a label away.
LEMMA FaltersKept == ASSUME ProvisioningInv, NEW w \in JobWorkers, Falters(w) PROVE ProvisioningInv'
<1>1. /\ UNCHANGED <<installed, gone, name, delivery, processor>> /\ TriesAgain(w)
      /\ labels \in [Repos -> SUBSET Labels] /\ worker[w] \in LabelSteps
  BY DEF Falters, ProvisioningInv, ProvisioningTypeOK
<1>2. CASE UNCHANGED labels
  BY <1>1, <1>2, TriesAgainKept
<1>3. ASSUME worker[w].missing # {}, NEW q \in Named(w), labels' = [labels EXCEPT ![q] = labels[q] \cup {Next1(w)}]
      PROVE  ProvisioningInv'
  <2>1. q \in Repos /\ Next1(w) \in Labels
    BY <1>1, <1>3, NextIsMissing DEF Named, ProvisioningInv, LabelSteps
  <2>2. labels' \in [Repos -> SUBSET Labels] /\ \A r \in Repos : labels[r] \subseteq labels'[r]
    BY <1>1, <1>3, <2>1
  <2>. QED  BY <1>1, <2>2, TriesAgainKept
<1>. QED  BY <1>2, <1>3 DEF Falters

LEMMA ExpireLeaseKept == ASSUME ProvisioningInv, NEW r \in Repos, ExpireLease(r) PROVE ProvisioningInv'
<1>1. /\ job \in [Repos -> LabelJobs] /\ worker \in [JobWorkers -> LabelSteps] /\ labels \in [Repos -> SUBSET Labels]
      /\ UNCHANGED <<installed, gone, name, labels, delivery, processor>> /\ job[r].status = "LEASED"
      /\ job' = [job EXCEPT ![r].live = FALSE]
      /\ UNCHANGED worker \/ \E w \in JobWorkers : worker' = [worker EXCEPT ![w] = Free]
  BY DEF ProvisioningInv, ProvisioningTypeOK, ExpireLease, worldVars
<1>2. PICK j : j = [job[r] EXCEPT !.live = FALSE]
  OBVIOUS
<1>3. j \in LabelJobs /\ j.status = "LEASED" /\ j.why = job[r].why /\ j # NoLabelJob /\ job[r] # NoLabelJob
  <2>1. job[r] \in LabelJobs
    BY <1>1
  <2>2. j \in LabelJobs /\ j.status = job[r].status /\ j.why = job[r].why
    BY <1>2, <2>1 DEF LabelJobs
  <2>. QED  BY <1>1, <2>2 DEF NoLabelJob
<1>4. job' \in [Repos -> LabelJobs] /\ job'[r] = j /\ \A q \in Repos \ {r} : job'[q] = job[q]
  BY <1>1, <1>2, <1>3
<1>5. \A q \in Repos : job[q] = NoLabelJob <=> job'[q] = NoLabelJob
  BY <1>3, <1>4
<1>6. JobsSound'
  BY <1>1, <1>3, <1>4 DEF ProvisioningInv, JobsSound, Taken
<1>7. worker' \in [JobWorkers -> LabelSteps] /\ \A v \in JobWorkers : worker'[v] = worker[v] \/ worker'[v] = Free
  BY <1>1, FreeSound
<1>8. \A v \in JobWorkers : worker'[v] = worker[v] \/ \E k : k = worker'[v] /\ WorkerSound(k)'
  BY <1>7, FreeSound
<1>. QED  BY <1>1, <1>4, <1>5, <1>6, <1>7, <1>8, WorkKept

LEMMA ExhaustKept == ASSUME ProvisioningInv, NEW r \in Repos, Exhaust(r) PROVE ProvisioningInv'
<1>1. /\ job \in [Repos -> LabelJobs] /\ worker \in [JobWorkers -> LabelSteps] /\ labels \in [Repos -> SUBSET Labels]
      /\ UNCHANGED <<installed, gone, name, labels, delivery, processor, worker>> /\ job[r].status = "LEASED"
      /\ job' = [job EXCEPT ![r] = [job[r] EXCEPT !.status = "FAILED", !.why = "retried"]]
  BY DEF ProvisioningInv, ProvisioningTypeOK, Exhaust, worldVars
<1>2. PICK j : j = [job[r] EXCEPT !.status = "FAILED", !.why = "retried"]
  OBVIOUS
<1>3. j \in LabelJobs /\ j.status = "FAILED" /\ j.why = "retried" /\ j # NoLabelJob /\ job[r] # NoLabelJob
  <2>1. job[r] \in LabelJobs
    BY <1>1
  <2>2. j \in LabelJobs /\ j.status = "FAILED" /\ j.why = "retried"
    BY <1>2, <2>1 DEF LabelJobs
  <2>. QED  BY <1>1, <2>2 DEF NoLabelJob
<1>4. job' \in [Repos -> LabelJobs] /\ job'[r] = j /\ \A q \in Repos \ {r} : job'[q] = job[q]
  BY <1>1, <1>2, <1>3
<1>5. \A q \in Repos : job[q] = NoLabelJob <=> job'[q] = NoLabelJob
  BY <1>3, <1>4
<1>6. JobsSound'
  BY <1>1, <1>3, <1>4 DEF ProvisioningInv, JobsSound, Taken
<1>7. worker' \in [JobWorkers -> LabelSteps] /\ \A v \in JobWorkers : worker'[v] = worker[v]
  BY <1>1
<1>. QED  BY <1>1, <1>4, <1>5, <1>6, <1>7, WorkKept

-----------------------------------------------------------------------------
LEMMA ProvisioningNextInv == ProvisioningInv /\ [ProvisioningNext]_provisioningVars => ProvisioningInv'
<1>. SUFFICES ASSUME ProvisioningInv, [ProvisioningNext]_provisioningVars PROVE ProvisioningInv'
  OBVIOUS
<1>1. CASE UNCHANGED provisioningVars
  <2>1. ProvisioningTypeOK' /\ Membership' /\ NamesDiffer' /\ EveryRepositoryIsQueued'
    BY <1>1 DEF provisioningVars, ProvisioningInv, ProvisioningTypeOK, Membership, Seen, NamesDiffer,
       EveryRepositoryIsQueued
  <2>2. WorkersSound' /\ JobsSound'
    BY <1>1 DEF provisioningVars, ProvisioningInv, WorkersSound, WorkerSound, JobsSound, Taken
  <2>3. ListingsSound'
    BY <1>1 DEF provisioningVars, ProvisioningInv, ListingsSound, ListingSound, Swapped, Seen, Before
  <2>. QED  BY <2>1, <2>2, <2>3 DEF ProvisioningInv
<1>2. CASE \E added \in SUBSET Repos : Receive(added)
  BY <1>2, ReceiveKept
<1>3. CASE ProcessorStep
  BY <1>3, ClaimDeliveryKept, ListPageKept, BatchKept, ExpireClaimKept DEF ProcessorStep
<1>4. CASE WorkerStep
  BY <1>4, ClaimJobKept, ResolveKept, VerifyInstallationKept, RefreshKept, ReadIdentityKept, ListLabelsKept, CreateKept,
     RelistKept, CompleteProvisioningKept, FaltersKept, ExpireLeaseKept, ExhaustKept DEF WorkerStep
<1>5. CASE \E r \in Repos : Join(r) \/ Leave(r) \/ \E n : Rename(r, n)
  BY <1>5, JoinKept, LeaveKept, RenameKept
<1>. QED  BY <1>1, <1>2, <1>3, <1>4, <1>5 DEF ProvisioningNext

\* A sound worker's record of the end of a job is all that ProvisioningIsComplete says of it.
LEMMA ProvisioningInvImplies == ProvisioningInv => ProvisioningIsComplete
<1>. SUFFICES ASSUME ProvisioningInv PROVE ProvisioningIsComplete
  OBVIOUS
<1>1. DoneMeansLabelled /\ RenameIsNoEnd
  BY DEF ProvisioningInv, JobsSound, Taken, DoneMeansLabelled, RenameIsNoEnd
<1>. QED  BY <1>1 DEF ProvisioningInv, ProvisioningIsComplete

\* Both systems the runs check are parts of this one.
LEMMA ProvisioningRunsAreParts == ListingNext \/ (MaxRepo > 1 /\ LabelsNext) => ProvisioningNext
<1>1. 1 \in Repos /\ (MaxRepo > 1 => 2 \in Repos)
  BY ProvisioningAssumption DEF Repos
<1>. QED  BY <1>1 DEF ListingNext, LabelsNext, ProvisioningNext

\* Every repository that was in the installation all along gets its job, though its listing was read page by page while
\* others joined and left and the claim changed hands, unless a swap kept the count; a job that succeeded left every
\* label in its own repository, unless another took its name, though it was renamed, answers were lost and other workers
\* were at it; and a job given up for its repository's or its installation's sake belongs to a repository that left.
THEOREM ProvisioningCompletes == ProvisioningSpec => []ProvisioningIsComplete
<1>1. ProvisioningSpec => []ProvisioningInv
  BY ProvisioningInitInv, ProvisioningNextInv, PTL DEF ProvisioningSpec
<1>. QED  BY <1>1, ProvisioningInvImplies, PTL
=============================================================================
