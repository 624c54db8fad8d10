--------------------------- MODULE WorkflowProofs ---------------------------
(***************************************************************************)
(* Proofs about one Work Item as the store keeps it, for every set of heads, *)
(* every review and retry budget and every number of events.               *)
(*                                                                         *)
(* The invariant Inv joins what the properties say with what keeps them:   *)
(*                                                                         *)
(*   SnapshotSound     the Snapshot is valid, and has a head exactly with a *)
(*                     Change Proposal                                     *)
(*   TurnSound         turns are numbered, and no RECONCILE is ahead of the *)
(*                     Workflow                                            *)
(*   PreparationSound  the PREPARE fits the Workflow, or is behind it      *)
(*   PushesSound       a push moves the head, and evidence needs a proposal *)
(*   EvidenceCovered   when the head has left the commit a worker has seen, *)
(*                     the push that moved it is on its way or deferred    *)
(*                                                                         *)
(* The last one carries the verdicts: a turn may be settled with evidence  *)
(* that is stale by then, and only the push that is still to come revokes  *)
(* what the settlement declares ready.                                     *)
(*                                                                         *)
(* The replay of deferred events is a loop; its invariant is Replaying, and *)
(* the induction over the events is over a set of numbers (Induction).     *)
(* Authority is a second invariant over the first, for Work Items that see *)
(* no label during a turn and no PREPARE whose leases are all lost.        *)
(* Decidable is a third: with it no decision of the reducer about webhooks *)
(* and settlements is refused by its own check.                            *)
(***************************************************************************)
EXTENDS Workflow, WorkflowReducerProofs, FunctionTheorems, FiniteSetTheorems, SequenceTheorems

-----------------------------------------------------------------------------
(* Numbers and sequences.                                                  *)

\* Every set of natural numbers has a least element (the library's induction theorem has an operator parameter).
LEMMA Least ==
    ASSUME NEW S \in SUBSET Nat, S # {}
    PROVE  \E n \in S : \A m \in S : n <= m
<1> DEFINE R == {ss \in Nat \X Nat : ss[1] < ss[2]}
<1>1. IsWellFoundedOn(R, Nat)
  BY ONLY NatLessThanWellFounded DEF OpToRel
<1> HIDE DEF R
<1>2. \E x \in S : \A y \in S : ~(<<y, x>> \in R)
  BY <1>1, WFMin
<1>3. \A x, y \in S : y < x => <<y, x>> \in R
  BY DEF R
<1>4. \A x, y \in S : ~(y < x) => x <= y
  OBVIOUS
<1>5. \E x \in S : \A y \in S : ~(y < x)
  BY ONLY <1>2, <1>3
<1> QED BY ONLY <1>4, <1>5

\* Induction over the natural numbers, for a set instead of a predicate.
LEMMA Induction ==
    ASSUME NEW S, 0 \in S, \A n \in Nat : n \in S => n + 1 \in S
    PROVE  Nat \subseteq S
<1> SUFFICES ASSUME Nat \ S # {} PROVE FALSE
  OBVIOUS
<1>1. PICK n \in Nat \ S : \A m \in Nat \ S : n <= m
  BY Least
<1>2. n - 1 \in Nat \ S
  BY <1>1
<1> QED BY <1>1, <1>2

\* What At returns: the entries at the positions, each of them once.
LEMMA AtEntries ==
    ASSUME NEW seq, NEW positions, NEW N \in Nat, positions \subseteq 1..N
    PROVE  /\ Cardinality(positions) \in Nat
           /\ Cardinality(positions) = 0 <=> positions = {}
           /\ DOMAIN At(seq, positions) = 1..Cardinality(positions)
           /\ \A n \in 1..Cardinality(positions) : \E i \in positions : At(seq, positions)[n] = seq[i]
           /\ \A i \in positions : \E n \in 1..Cardinality(positions) : At(seq, positions)[n] = seq[i]
<1> DEFINE K == Cardinality(positions)
           upto(i) == {j \in positions : j <= i}
           rank == [i \in positions |-> Cardinality(upto(i))]
<1>1. IsFiniteSet(1..N)
  BY FS_Interval
<1>2. IsFiniteSet(positions) /\ K \in Nat
  BY <1>1, FS_Subset, FS_CardinalityType
<1>3. ASSUME NEW i \in positions
      PROVE  /\ upto(i) \subseteq positions /\ i \in upto(i) /\ IsFiniteSet(upto(i))
             /\ Cardinality(upto(i)) \in 1..K
  <2>1. upto(i) \subseteq positions /\ i \in upto(i)
    OBVIOUS
  <2>2. IsFiniteSet(upto(i)) /\ Cardinality(upto(i)) \in Nat /\ Cardinality(upto(i)) <= K
    BY <1>2, <2>1, FS_Subset, FS_CardinalityType
  <2>3. Cardinality(upto(i)) # 0
    BY <2>1, <2>2, FS_EmptySet
  <2> HIDE DEF upto, K
  <2> QED BY <1>2, <2>1, <2>2, <2>3
<1>4. ASSUME NEW i \in positions, NEW j \in positions, i < j
      PROVE  Cardinality(upto(i)) # Cardinality(upto(j))
  <2>1. upto(i) \subseteq upto(j) /\ j \notin upto(i) /\ j \in upto(j)
    <3>1. i \in Nat /\ j \in Nat /\ (\A k \in positions : k \in Nat)
      OBVIOUS
    <3>2. \A k \in positions : k <= i => k <= j
      BY <1>4, <3>1
    <3>3. ~(j <= i) /\ j <= j
      BY <1>4, <3>1
    <3> QED BY <3>2, <3>3
  <2> HIDE DEF upto
  <2> QED BY <1>3, <2>1, FS_Subset
<1>5. \A i, j \in positions : Cardinality(upto(i)) = Cardinality(upto(j)) => i = j
  <2> HIDE DEF upto
  <2>1. \A i, j \in positions : i = j \/ i < j \/ j < i
    OBVIOUS
  <2> QED BY <1>4, <2>1
<1>6. rank \in Injection(positions, 1..K)
  <2>1. rank \in [positions -> 1..K]
    BY <1>3
  <2>2. \A i, j \in positions : rank[i] = rank[j] => i = j
    BY <1>5
  <2> HIDE DEF rank, K
  <2> QED BY <2>1, <2>2, Fun_IsInj
<1>7. IsFiniteSet(1..K) /\ Cardinality(1..K) = K
  <2> HIDE DEF K
  <2> QED BY <1>2, FS_Interval
<1>8. rank \in Surjection(positions, 1..K)
  <2> HIDE DEF rank
  <2> QED BY <1>6, <1>7, FS_Injection
<1>9. \A n \in 1..K : \E i \in positions : Cardinality(upto(i)) = n
  <2>1. \A n \in 1..K : \E i \in positions : rank[i] = n
    <3> HIDE DEF rank, K
    <3> QED BY <1>8, Fun_SurjectionProperties
  <2> QED BY <2>1
<1> DEFINE pick(n) == CHOOSE i \in positions : Cardinality(upto(i)) = n
<1>10. \A n \in 1..K : pick(n) \in positions /\ Cardinality(upto(pick(n))) = n
  <2> HIDE DEF upto, K
  <2> QED BY <1>9
<1>11. \A i \in positions : pick(Cardinality(upto(i))) = i
  <2> HIDE DEF K, pick, upto
  <2> QED BY <1>3, <1>5, <1>10
<1>12. At(seq, positions) = [n \in 1..K |-> seq[pick(n)]]
  BY DEF At
<1> HIDE DEF pick, upto
<1>13. K = 0 <=> positions = {}
  BY <1>2, FS_EmptySet
<1>14. \A i \in positions : Cardinality(upto(i)) \in 1..K /\ At(seq, positions)[Cardinality(upto(i))] = seq[i]
  <2> HIDE DEF K
  <2> QED BY <1>3, <1>11, <1>12
<1> HIDE DEF K
<1>15. \A n \in 1..K : \E i \in positions : At(seq, positions)[n] = seq[i]
  BY <1>10, <1>12
<1>16. DOMAIN At(seq, positions) = 1..K
  BY <1>12
<1> QED BY <1>2, <1>13, <1>14, <1>15, <1>16 DEF K

\* The entries of a sequence at some of its positions are a sequence of the same things.
LEMMA AtSequence ==
    ASSUME NEW S, NEW seq \in Seq(S), NEW positions, positions \subseteq DOMAIN seq
    PROVE  /\ At(seq, positions) \in Seq(S)
           /\ Len(At(seq, positions)) = Cardinality(positions)
           /\ At(seq, positions) = <<>> <=> positions = {}
           /\ \A n \in DOMAIN At(seq, positions) : \E i \in positions : At(seq, positions)[n] = seq[i]
           /\ \A i \in positions : \E n \in DOMAIN At(seq, positions) : At(seq, positions)[n] = seq[i]
<1> DEFINE a == At(seq, positions)
           K == Cardinality(positions)
<1>1. Len(seq) \in Nat /\ DOMAIN seq = 1..Len(seq) /\ seq \in [1..Len(seq) -> S]
  BY LenProperties
<1>2. /\ K \in Nat
      /\ K = 0 <=> positions = {}
      /\ DOMAIN a = 1..K
      /\ \A n \in 1..K : \E i \in positions : a[n] = seq[i]
      /\ \A i \in positions : \E n \in 1..K : a[n] = seq[i]
  BY <1>1, AtEntries
<1>3. a = [n \in 1..K |-> a[n]]
  BY <1>2 DEF At
<1>4. \A n \in 1..K : a[n] \in S
  BY <1>1, <1>2
<1> HIDE DEF a, K
<1>5. a \in [1..K -> S]
  BY <1>3, <1>4
<1>6. a \in Seq(S)
  BY <1>2, <1>5, SeqDef
<1>7. Len(a) = K
  BY <1>2, <1>6, LenProperties
<1>8. a = <<>> <=> K = 0
  BY <1>2, <1>6, <1>7, EmptySeq
<1> QED BY <1>2, <1>6, <1>7, <1>8 DEF a, K

-----------------------------------------------------------------------------
(* The events a turn holds up, and the order they are replayed in.         *)

Kinds == {"TRIGGER", "ISSUE_CLOSED", "ISSUE_REOPENED", "REVIEW_OBSERVED", "SYNCHRONIZATION"}
HeadOrNone == Heads \cup {NoHead}
Event == [kind : Kinds, planningOnly : BOOLEAN, previous : HeadOrNone, head : HeadOrNone]
Held == [turn : Nat, event : Event]

\* Leaving one entry of a sequence out keeps the others.
LEMMA WithoutOne ==
    ASSUME NEW S, NEW seq \in Seq(S), NEW i \in DOMAIN seq
    PROVE  /\ Without(seq, i) \in Seq(S) /\ Len(Without(seq, i)) = Len(seq) - 1
           /\ \A n \in DOMAIN Without(seq, i) : \E j \in DOMAIN seq : Without(seq, i)[n] = seq[j]
           /\ \A j \in DOMAIN seq \ {i} : \E n \in DOMAIN Without(seq, i) : Without(seq, i)[n] = seq[j]
<1> DEFINE L == Len(seq)
           a == SubSeq(seq, 1, i - 1)
           b == SubSeq(seq, i + 1, L)
           w == Without(seq, i)
<1>1. L \in Nat /\ DOMAIN seq = 1..L /\ seq \in [1..L -> S] /\ i \in 1..L
  BY LenProperties
<1>2. a \in Seq(S) /\ Len(a) = i - 1 /\ \A n \in 1..(i - 1) : a[n] = seq[n]
  <2> HIDE DEF L
  <2>1. /\ a \in Seq(S) /\ Len(a) = IF 1 <= i - 1 THEN i - 1 - 1 + 1 ELSE 0
        /\ \A n \in 1..(i - 1 - 1 + 1) : a[n] = seq[1 + n - 1]
    BY <1>1, SubSeqProperties
  <2> HIDE DEF a
  <2> QED BY <1>1, <2>1
<1>3. b \in Seq(S) /\ Len(b) = L - i /\ \A n \in 1..(L - i) : b[n] = seq[i + n]
  <2> HIDE DEF L
  <2>1. /\ b \in Seq(S) /\ Len(b) = IF i + 1 <= L THEN L - (i + 1) + 1 ELSE 0
        /\ \A n \in 1..(L - (i + 1) + 1) : b[n] = seq[(i + 1) + n - 1]
    BY <1>1, SubSeqProperties
  <2> HIDE DEF b
  <2> QED BY <1>1, <2>1
<1>4. w = a \o b
  BY DEF Without
<1> HIDE DEF L, a, b, w
<1>5. /\ w \in Seq(S) /\ Len(w) = Len(a) + Len(b)
      /\ \A n \in 1..(Len(a) + Len(b)) : w[n] = IF n <= Len(a) THEN a[n] ELSE b[n - Len(a)]
  BY <1>2, <1>3, <1>4, ConcatProperties
<1>6. Len(w) = L - 1 /\ DOMAIN w = 1..(L - 1)
  <2>1. Len(w) = L - 1
    BY <1>1, <1>2, <1>3, <1>5
  <2> QED BY <2>1, <1>5, LenProperties
<1>7. \A n \in 1..(i - 1) : n \in 1..(L - 1) /\ w[n] = seq[n]
  <2> TAKE n \in 1..(i - 1)
  <2>1. n \in 1..(L - 1) /\ n \in 1..(Len(a) + Len(b)) /\ n <= Len(a)
    BY <1>1, <1>2, <1>3
  <2>2. w[n] = a[n]
    BY <1>5, <2>1
  <2> QED BY <1>2, <2>1, <2>2
<1>8. \A n \in i..(L - 1) : n \in 1..(L - 1) /\ w[n] = seq[n + 1] /\ n + 1 \in 1..L
  <2> TAKE n \in i..(L - 1)
  <2>1. n \in 1..(L - 1) /\ n \in 1..(Len(a) + Len(b)) /\ ~(n <= Len(a)) /\ n + 1 \in 1..L
    BY <1>1, <1>2, <1>3
  <2>2. w[n] = b[n - Len(a)]
    BY <1>5, <2>1
  <2>3. n - Len(a) \in 1..(L - i) /\ i + (n - Len(a)) = n + 1
    BY <1>1, <1>2, <2>1
  <2>4. b[n - Len(a)] = seq[i + (n - Len(a))]
    BY <1>3, <2>3
  <2> QED BY <2>1, <2>2, <2>3, <2>4
<1>9. \A n \in DOMAIN w : \E j \in DOMAIN seq : w[n] = seq[j]
  <2> TAKE n \in DOMAIN w
  <2>1. n \in 1..(i - 1) \/ n \in i..(L - 1)
    BY <1>1, <1>6
  <2>2. CASE n \in 1..(i - 1)
    <3>1. n \in 1..L
      BY <1>1, <2>2
    <3> QED BY <3>1, <2>2, <1>1, <1>7
  <2>3. CASE n \in i..(L - 1)
    BY <2>3, <1>1, <1>8
  <2> QED BY <2>1, <2>2, <2>3
<1>10. \A j \in DOMAIN seq \ {i} : \E n \in DOMAIN w : w[n] = seq[j]
  <2> TAKE j \in DOMAIN seq \ {i}
  <2>1. j \in 1..(i - 1) \/ (j - 1 \in i..(L - 1) /\ (j - 1) + 1 = j)
    BY <1>1
  <2>2. CASE j \in 1..(i - 1)
    BY <2>2, <1>6, <1>7
  <2>3. CASE j - 1 \in i..(L - 1) /\ (j - 1) + 1 = j
    <3>1. w[j - 1] = seq[(j - 1) + 1] /\ j - 1 \in DOMAIN w
      BY <2>3, <1>6, <1>8
    <3> QED BY <3>1, <2>3
  <2> QED BY <2>1, <2>2, <2>3
<1> QED BY <1>5, <1>6, <1>9, <1>10 DEF w, L

\* The event that is replayed next is one of those that are left.
LEMMA NextLinkedIsLeft ==
    ASSUME NEW S, NEW rest \in Seq(S), rest # <<>>, NEW path, DOMAIN path \subseteq Nat,
           \A i \in DOMAIN rest : IsPush(rest[i]) => \E n \in DOMAIN path : path[n] = rest[i].event.previous
    PROVE  NextLinked(rest, path) \in DOMAIN rest
<1> DEFINE rank(i) == CHOOSE n \in DOMAIN path : path[n] = rest[i].event.previous
           pushes  == {i \in DOMAIN rest : IsPush(rest[i])}
           first(i) == \A j \in pushes : rank(i) < rank(j) \/ (rank(i) = rank(j) /\ i <= j)
<1>1. Len(rest) \in Nat \ {0} /\ DOMAIN rest = 1..Len(rest)
  BY LenProperties, EmptySeq
<1>2. 1 \in DOMAIN rest
  BY <1>1
<1>3. NextLinked(rest, path) = IF ~IsPush(rest[1]) THEN 1 ELSE CHOOSE i \in pushes : first(i)
  BY DEF NextLinked
<1>4. pushes \subseteq DOMAIN rest /\ pushes \subseteq Nat
  BY <1>1
<1>5. ASSUME NEW i \in pushes PROVE rank(i) \in Nat
  BY <1>4
<1> HIDE DEF rank
<1>6. ASSUME IsPush(rest[1]) PROVE \E i \in pushes : first(i)
  <2>1. pushes # {}
    BY <1>2, <1>6
  <2> HIDE DEF pushes
  <2> DEFINE ranks == {rank(i) : i \in pushes}
  <2>2. ranks \in SUBSET Nat /\ ranks # {}
    BY <1>5, <2>1
  <2>3. \E r \in ranks : \A m \in ranks : r <= m
    <3> HIDE DEF ranks
    <3> QED BY <2>2, Least
  <2>4. PICK k \in pushes : \A j \in pushes : rank(k) <= rank(j)
    BY <2>3
  <2> DEFINE ties == {i \in pushes : rank(i) = rank(k)}
  <2>5. ties \in SUBSET Nat /\ ties # {}
    BY <1>4, <2>4
  <2>6. \E i \in ties : \A m \in ties : i <= m
    <3> HIDE DEF ties
    <3> QED BY <2>5, Least
  <2>7. PICK i \in ties : \A m \in ties : i <= m
    BY <2>6
  <2>8. ASSUME NEW j \in pushes
        PROVE  rank(i) < rank(j) \/ (rank(i) = rank(j) /\ i <= j)
    <3>1. rank(i) <= rank(j) /\ rank(i) \in Nat /\ rank(j) \in Nat
      BY <1>5, <2>4
    <3>2. CASE rank(i) = rank(j)
      BY <3>2, <2>7
    <3>3. CASE rank(i) # rank(j)
      BY <3>1, <3>3
    <3> QED BY <3>2, <3>3
  <2> QED BY <2>7, <2>8
<1> HIDE DEF first
<1>7. (CHOOSE i \in pushes : first(i)) \in pushes \/ ~IsPush(rest[1])
  BY <1>6
<1> HIDE DEF pushes
<1> QED BY <1>2, <1>3, <1>4, <1>7

\* What a replay has come to after each of its events.
ReplayTo(acc, k, start, path) == acc = [n \in 0..k |-> IF n = 0 THEN start ELSE ReplayOne(acc[n - 1], path)]

\* The replay is what it computes one event after the other.
LEMMA ReplayExists ==
    ASSUME NEW start, NEW path, NEW L \in Nat
    PROVE  \E acc : ReplayTo(acc, L, start, path)
<1> DEFINE Good(f, k) == ReplayTo(f, k, start, path)
           S == {k \in Nat : \E f : Good(f, k)}
<1>1. 0 \in S
  <2> DEFINE f == [n \in 0..0 |-> start]
  <2>1. \A n \in 0..0 : start = IF n = 0 THEN start ELSE ReplayOne(f[n - 1], path)
    OBVIOUS
  <2> DEFINE g == [n \in 0..0 |-> IF n = 0 THEN start ELSE ReplayOne(f[n - 1], path)]
  <2>2. f = g
    BY <2>1
  <2>3. Good(f, 0)
    BY <2>2 DEF ReplayTo
  <2> HIDE DEF f, g, Good
  <2> QED BY <2>3
<1>2. \A k \in Nat : k \in S => k + 1 \in S
  <2> SUFFICES ASSUME NEW k \in Nat, NEW f, Good(f, k) PROVE k + 1 \in S
    OBVIOUS
  <2> DEFINE g == [n \in 0..(k + 1) |-> IF n = k + 1 THEN ReplayOne(f[k], path) ELSE f[n]]
  <2>1. \A n \in 0..(k + 1) : g[n] = IF n = 0 THEN start ELSE ReplayOne(g[n - 1], path)
    <3> TAKE n \in 0..(k + 1)
    <3>1. CASE n = k + 1
      <4>1. n # 0 /\ n - 1 = k /\ n - 1 \in 0..(k + 1) /\ k # k + 1
        BY <3>1
      <4>2. g[n] = ReplayOne(f[k], path)
        BY <3>1
      <4>3. g[n - 1] = f[k]
        BY <4>1
      <4> HIDE DEF g
      <4> QED BY <4>1, <4>2, <4>3
    <3>2. CASE n = 0
      <4>1. g[n] = f[0] /\ 0 \in 0..k
        BY <3>2
      <4>2. f[0] = start
        BY <4>1 DEF ReplayTo
      <4> HIDE DEF g
      <4> QED BY <3>2, <4>1, <4>2
    <3>3. CASE n # 0 /\ n # k + 1
      <4>1. n \in 0..k /\ n - 1 \in 0..(k + 1) /\ n - 1 # k + 1
        BY <3>3
      <4>2. g[n] = f[n] /\ g[n - 1] = f[n - 1]
        BY <4>1, <3>3
      <4>3. f[n] = ReplayOne(f[n - 1], path)
        BY <4>1, <3>3 DEF ReplayTo
      <4> HIDE DEF g
      <4> QED BY <3>3, <4>2, <4>3
    <3> QED BY <3>1, <3>2, <3>3
  <2>2. g = [n \in 0..(k + 1) |-> g[n]]
    OBVIOUS
  <2> HIDE DEF g
  <2>3. Good(g, k + 1)
    BY <2>1, <2>2 DEF ReplayTo
  <2> HIDE DEF Good
  <2> QED BY <2>3
<1> HIDE DEF S
<1>3. L \in S
  BY <1>1, <1>2, Induction
<1> QED BY <1>3 DEF S

-----------------------------------------------------------------------------
(* The invariant, and the state of a replay.                               *)

TypeOK ==
    /\ snap \in Snapshot
    /\ planned \in BOOLEAN /\ input \subseteq Stages /\ assigned \in BOOLEAN
    /\ barrier \in {"NONE", "STOPPING", "CLEAR"}
    /\ deferred \in Seq(Held)
    /\ prepare \in [attempt : Nat, stage : Stages \cup {""}, head : HeadOrNone, revision : Nat, seen : HeadOrNone]
    /\ \A r \in reconciles :
          r \in [turn : Nat, attempt : Nat, fallback : Stages \cup {""}, revision : Nat, edges : SUBSET Edges]
          /\ IsFiniteSet(r.edges)
    /\ failures \subseteq Nat /\ stopped \subseteq 1..turns
    /\ remote \in HeadOrNone
    /\ opened \in [turn : Nat, head : HeadOrNone, edges : SUBSET Edges] /\ IsFiniteSet(opened.edges)
    /\ opened.turn # 0 => opened.head \in Heads
    /\ inbox \subseteq Edges /\ evidence \in HeadOrNone /\ turns \in Nat
    /\ verdict \in [count : Nat, approved : HeadOrNone] /\ events \in Nat

SnapshotSound ==
    /\ ValidSnapshot(snap)
    /\ snap.pr \in {NoPR, Proposal} /\ Headed(snap)
    /\ snap.state = "PR_READY" => snap.stage = "review" /\ ~snap.waiting

TurnSound ==
    /\ HasTurn(snap) => snap.turn.id \in 1..turns /\ snap.turn.id \notin stopped /\ ~snap.waiting
    /\ \A r \in reconciles : r.turn \in 1..turns /\ r.revision <= snap.revision
    /\ \A i \in DOMAIN deferred : deferred[i].turn \in 1..turns

\* A PREPARE and the Workflow it was enqueued for, or one the Workflow has left behind.
Fits(p, s) ==
    /\ p.stage \in Stages /\ p.revision <= s.revision
    /\ p.revision = s.revision => IF HasProposal(s) THEN p.head = s.head ELSE p.head = NoHead /\ p.stage # "review"
PreparationSound == prepare # NoPrepare => Fits(prepare, snap)

PushesSound ==
    /\ \A e \in inbox : e.previous # e.head
    /\ \A i \in DOMAIN deferred :
          /\ IsPush(deferred[i]) <=> deferred[i].event.previous # NoHead
          /\ IsPush(deferred[i]) =>
                deferred[i].event.previous # deferred[i].event.head /\ deferred[i].event.head # NoHead
    /\ remote = NoHead => evidence = NoHead

EvidenceCovered ==
    HasTurn(snap) /\ snap.state \in ActiveStates /\ evidence \notin {NoHead, remote} =>
        \/ \E e \in inbox : e.previous = evidence
        \/ \E i \in DOMAIN deferred : deferred[i].event.previous = evidence /\ deferred[i].turn = snap.turn.id

\* The state of a replay between two events.
Replaying(r, acc) ==
    /\ acc.rest \in Seq(Held)
    /\ \A i \in DOMAIN acc.rest : \E j \in DOMAIN deferred : deferred[j].turn = r.turn /\ acc.rest[i] = deferred[j]
    /\ acc.snap \in Snapshot /\ ValidSnapshot(acc.snap) /\ Headed(acc.snap)
    /\ acc.snap.pr = snap.pr /\ acc.snap.turn = NoTurn
    /\ \/ acc.snap = snap /\ ~acc.fresh
       \/ acc.snap.revision > snap.revision /\ acc.snap.state # "PR_READY"
    /\ acc.stage \in Stages \cup {""}
    /\ IF acc.fresh THEN acc.snap.usage = 0
       ELSE acc.snap.attempt = snap.attempt /\ acc.snap.usage = snap.usage /\ acc.snap.stage = snap.stage
    /\ snap.state = "PR_READY" /\ acc.snap = snap =>
          \A j \in DOMAIN deferred :
              deferred[j].turn = r.turn /\ IsPush(deferred[j]) /\ deferred[j].event.previous = snap.ready =>
                  \E i \in DOMAIN acc.rest : acc.rest[i] = deferred[j]
    /\ (\A j \in DOMAIN deferred : deferred[j].event.kind # "TRIGGER") /\ (snap.state \in ActiveStates => r.fallback # "") =>
          acc.snap.attempt = snap.attempt /\ (acc.snap.state \in ActiveStates => acc.stage # "")

\* The event a webhook stands for is one the reducer knows, about the Workflow it is reduced on.
LEMMA BuiltEvent ==
    ASSUME NEW c \in Event, c.kind = "SYNCHRONIZATION" => c.head \in Heads, NEW s \in Snapshot, planned \in BOOLEAN
    PROVE  LET e == Built(c, s)
           IN  /\ e \in WebhookEvent /\ e.kind = c.kind /\ e.revision = s.revision
               /\ c.kind = "SYNCHRONIZATION" => e.pr = Proposal /\ e.previous = c.previous /\ e.head = c.head
<1>1. s.revision \in Nat /\ s.attempt \in Nat
  BY Zenon DEF Snapshot
<1>2. s.revision + 1 \in Nat /\ s.attempt + 1 \in Nat
  BY <1>1
<1>3. c.kind \in Kinds /\ c.planningOnly \in BOOLEAN /\ c.previous \in Heads \cup {NoHead}
  BY DEF Event, HeadOrNone
<1>4. CASE c.kind = "TRIGGER"
  BY <1>1, <1>2, <1>3, <1>4 DEF Built, WebhookEvent
<1>5. CASE c.kind = "SYNCHRONIZATION"
  BY <1>1, <1>2, <1>3, <1>5, WorkItemAssumption DEF Built, WebhookEvent
<1>6. CASE c.kind = "ISSUE_CLOSED"
  BY <1>1, <1>2, <1>3, <1>6 DEF Built, WebhookEvent
<1>7. CASE c.kind = "ISSUE_REOPENED"
  BY <1>1, <1>2, <1>3, <1>7 DEF Built, WebhookEvent
<1>8. CASE c.kind = "REVIEW_OBSERVED"
  BY <1>1, <1>2, <1>3, <1>8 DEF Built, WebhookEvent
<1> QED BY <1>3, <1>4, <1>5, <1>6, <1>7, <1>8 DEF Kinds

\* Replaying one event takes the replay from one of its states to the next.
LEMMA ReplayStep ==
    ASSUME TypeOK, SnapshotSound, PushesSound, ~HasTurn(snap),
           NEW r, NEW path, NEW acc, Replaying(r, acc), acc.rest # <<>>, DOMAIN path \subseteq Nat,
           \A i \in DOMAIN acc.rest : IsPush(acc.rest[i]) => \E n \in DOMAIN path : path[n] = acc.rest[i].event.previous
    PROVE  LET new == ReplayOne(acc, path) IN Replaying(r, new) /\ Len(new.rest) = Len(acc.rest) - 1
<1> DEFINE i == NextLinked(acc.rest, path)
           c == acc.rest[i].event
           e == Built(c, acc.snap)
           d == Reduce(acc.snap, e)
           new == ReplayOne(acc, path)
<1>1. /\ acc.rest \in Seq(Held)
      /\ \A k \in DOMAIN acc.rest : \E j \in DOMAIN deferred : deferred[j].turn = r.turn /\ acc.rest[k] = deferred[j]
      /\ acc.snap \in Snapshot /\ ValidSnapshot(acc.snap) /\ Headed(acc.snap)
      /\ acc.snap.pr = snap.pr /\ acc.snap.turn = NoTurn
      /\ \/ acc.snap = snap /\ ~acc.fresh
         \/ acc.snap.revision > snap.revision /\ acc.snap.state # "PR_READY"
      /\ acc.stage \in Stages \cup {""}
      /\ IF acc.fresh THEN acc.snap.usage = 0
         ELSE acc.snap.attempt = snap.attempt /\ acc.snap.usage = snap.usage /\ acc.snap.stage = snap.stage
  BY DEF Replaying
<1>2. /\ snap.state = "PR_READY" /\ acc.snap = snap =>
            \A j \in DOMAIN deferred :
                deferred[j].turn = r.turn /\ IsPush(deferred[j]) /\ deferred[j].event.previous = snap.ready =>
                    \E k \in DOMAIN acc.rest : acc.rest[k] = deferred[j]
      /\ (\A j \in DOMAIN deferred : deferred[j].event.kind # "TRIGGER") /\ (snap.state \in ActiveStates => r.fallback # "") =>
            acc.snap.attempt = snap.attempt /\ (acc.snap.state \in ActiveStates => acc.stage # "")
  BY DEF Replaying
<1>3. i \in DOMAIN acc.rest
  BY <1>1, NextLinkedIsLeft
<1>4. PICK j \in DOMAIN deferred : deferred[j].turn = r.turn /\ acc.rest[i] = deferred[j]
  BY <1>1, <1>3
<1> HIDE DEF i
<1>5. /\ acc.rest[i] \in Held /\ c \in Event /\ planned \in BOOLEAN
      /\ IsPush(acc.rest[i]) => c.previous # c.head /\ c.head \in Heads
  <2>1. acc.rest[i] \in Held
    BY <1>1, <1>3, LenProperties
  <2>2. c \in Event
    BY <2>1 DEF Held
  <2>3. IsPush(acc.rest[i]) => c.previous # c.head /\ c.head # NoHead
    BY <1>4 DEF PushesSound
  <2> QED BY <2>1, <2>2, <2>3 DEF TypeOK, Event, HeadOrNone
<1>6. IsPush(acc.rest[i]) <=> c.kind = "SYNCHRONIZATION"
  BY DEF IsPush
<1> HIDE DEF c
<1>7. /\ e \in WebhookEvent /\ e.kind = c.kind /\ e.revision = acc.snap.revision
      /\ c.kind = "SYNCHRONIZATION" => e.pr = Proposal /\ e.previous = c.previous /\ e.head = c.head
  BY <1>1, <1>5, <1>6, BuiltEvent
<1> HIDE DEF e
<1>8. WebhookSound(acc.snap, e, d)
  BY <1>1, <1>7, WebhookReduced
<1>9. new = [rest |-> Without(acc.rest, i), snap |-> d.snap,
             stage |-> IF d.disposition # "APPLIED" THEN acc.stage
                       ELSE IF d.effects.intent.kind = "turn" THEN d.effects.intent.stage
                       ELSE IF d.snap.state \notin ActiveStates THEN "" ELSE acc.stage,
             fresh |-> acc.fresh \/ d.snap.attempt # acc.snap.attempt]
  BY Zenon DEF ReplayOne, i, e, c
<1>10. /\ new.rest = Without(acc.rest, i) /\ new.snap = d.snap
       /\ new.stage = IF d.disposition # "APPLIED" THEN acc.stage
                       ELSE IF d.effects.intent.kind = "turn" THEN d.effects.intent.stage
                       ELSE IF d.snap.state \notin ActiveStates THEN "" ELSE acc.stage
       /\ new.fresh = (acc.fresh \/ d.snap.attempt # acc.snap.attempt)
  <2> HIDE DEF new, d, i
  <2> QED BY ONLY <1>9, Zenon
<1> HIDE DEF new
<1>11. /\ new.rest \in Seq(Held) /\ Len(new.rest) = Len(acc.rest) - 1
       /\ \A n \in DOMAIN new.rest : \E k \in DOMAIN acc.rest : new.rest[n] = acc.rest[k]
       /\ \A k \in DOMAIN acc.rest \ {i} : \E n \in DOMAIN new.rest : new.rest[n] = acc.rest[k]
  <2> HIDE DEF d
  <2> DEFINE w == Without(acc.rest, i)
  <2>1. /\ w \in Seq(Held) /\ Len(w) = Len(acc.rest) - 1
        /\ \A n \in DOMAIN w : \E k \in DOMAIN acc.rest : w[n] = acc.rest[k]
        /\ \A k \in DOMAIN acc.rest \ {i} : \E n \in DOMAIN w : w[n] = acc.rest[k]
    BY ONLY <1>1, <1>3, WithoutOne
  <2>2. new.rest = w
    BY <1>10
  <2> HIDE DEF w
  <2> QED BY ONLY <2>1, <2>2
<1> HIDE DEF d
<1>12. /\ d.disposition \in {"APPLIED", "DEFERRED", "REJECTED"}
       /\ d.snap \in Snapshot /\ ValidSnapshot(d.snap)
       /\ d.disposition # "APPLIED" => d.snap = acc.snap
       /\ d.disposition = "APPLIED" =>
            /\ d.snap.revision = acc.snap.revision + 1 /\ d.snap.turn = acc.snap.turn
            /\ d.snap.waiting = acc.snap.waiting /\ d.snap.pr = acc.snap.pr
            /\ Headed(d.snap) /\ d.snap.state # "PR_READY"
            /\ d.effects.intent.kind \in {"none", "turn"}
            /\ d.effects.intent.kind = "turn" =>
                  /\ d.snap.state \in ActiveStates
                  /\ d.effects.intent.stage = d.snap.stage
            /\ d.effects.intent.kind = "none" /\ d.snap.state \in ActiveStates => d.snap.state = acc.snap.state
            /\ \/ d.snap.attempt = acc.snap.attempt /\ d.snap.usage = acc.snap.usage /\ d.snap.stage = acc.snap.stage
               \/ d.snap.attempt = acc.snap.attempt + 1 /\ d.snap.usage = 0 /\ e.kind = "TRIGGER"
  BY <1>1, <1>8 DEF WebhookSound
<1>13. /\ d.snap.attempt \in Nat /\ acc.snap.attempt \in Nat /\ acc.snap.revision \in Nat /\ snap.revision \in Nat
  BY <1>1, <1>12, Zenon DEF Snapshot, TypeOK
<1>14. d.snap.state \in ActiveStates => d.snap.stage \in Stages
  BY <1>12, ActiveFacts
<1>15. \A n \in DOMAIN new.rest : \E k \in DOMAIN deferred : deferred[k].turn = r.turn /\ new.rest[n] = deferred[k]
  <2> TAKE n \in DOMAIN new.rest
  <2>1. PICK k \in DOMAIN acc.rest : new.rest[n] = acc.rest[k]
    BY ONLY <1>11, n \in DOMAIN new.rest
  <2>2. PICK m \in DOMAIN deferred : deferred[m].turn = r.turn /\ acc.rest[k] = deferred[m]
    BY ONLY <1>1, <2>1
  <2> QED BY ONLY <2>1, <2>2
<1>16. new.snap \in Snapshot /\ ValidSnapshot(new.snap) /\ Headed(new.snap) /\ new.snap.pr = snap.pr /\ new.snap.turn = NoTurn
  BY <1>1, <1>10, <1>12
<1>17. \/ new.snap = snap /\ ~new.fresh
       \/ new.snap.revision > snap.revision /\ new.snap.state # "PR_READY"
  <2>1. CASE d.disposition # "APPLIED"
    BY <2>1, <1>1, <1>10, <1>12
  <2>2. CASE d.disposition = "APPLIED"
    <3>1. acc.snap.revision >= snap.revision
      <4>1. acc.snap = snap \/ acc.snap.revision > snap.revision
        BY ONLY <1>1, Zenon
      <4> QED BY ONLY <4>1, <1>13
    <3>2. d.snap.revision = acc.snap.revision + 1 /\ d.snap.state # "PR_READY"
      BY ONLY <1>12, <2>2
    <3>3. new.snap = d.snap
      BY ONLY <1>10
    <3> QED BY ONLY <3>1, <3>2, <3>3, <1>13
  <2> QED BY <2>1, <2>2
<1>18. new.stage \in Stages \cup {""}
  BY <1>1, <1>10, <1>12, <1>14
<1>19. IF new.fresh THEN new.snap.usage = 0
       ELSE new.snap.attempt = snap.attempt /\ new.snap.usage = snap.usage /\ new.snap.stage = snap.stage
  <2>1. CASE d.disposition # "APPLIED"
    BY <2>1, <1>1, <1>10, <1>12
  <2>2. CASE d.disposition = "APPLIED"
    <3>1. \/ d.snap.attempt = acc.snap.attempt /\ d.snap.usage = acc.snap.usage /\ d.snap.stage = acc.snap.stage
          \/ d.snap.attempt = acc.snap.attempt + 1 /\ d.snap.usage = 0
      BY ONLY <1>12, <2>2
    <3>2. CASE d.snap.attempt = acc.snap.attempt + 1 /\ d.snap.usage = 0
      <4>1. d.snap.attempt # acc.snap.attempt
        BY ONLY <3>2, <1>13
      <4> QED BY ONLY <4>1, <3>2, <1>10
    <3>3. CASE d.snap.attempt = acc.snap.attempt /\ d.snap.usage = acc.snap.usage /\ d.snap.stage = acc.snap.stage
      <4>1. new.fresh <=> acc.fresh
        BY ONLY <3>3, <1>10, <1>1, Zenon
      <4> QED BY ONLY <4>1, <3>3, <1>1, <1>10
    <3> QED BY ONLY <3>1, <3>2, <3>3
  <2> QED BY <2>1, <2>2
<1>20. ASSUME snap.state = "PR_READY", new.snap = snap, NEW k \in DOMAIN deferred,
              deferred[k].turn = r.turn, IsPush(deferred[k]), deferred[k].event.previous = snap.ready
       PROVE  \E n \in DOMAIN new.rest : new.rest[n] = deferred[k]
  <2>1. d.disposition # "APPLIED" /\ d.snap = snap /\ acc.snap = snap
    BY <1>10, <1>12, <1>20
  <2>2. PICK m \in DOMAIN acc.rest : acc.rest[m] = deferred[k]
    BY <1>2, <1>20, <2>1
  <2>3. CASE m # i
    BY <1>11, <2>2, <2>3
  <2>4. CASE m = i
    <3>1. c = deferred[k].event /\ c.kind = "SYNCHRONIZATION" /\ c.previous = snap.ready
      BY <2>2, <2>4, <1>20 DEF c, IsPush
    <3>2. ValidChangeProposal(snap) /\ snap.ready = snap.head /\ snap.stage = "review" /\ ~snap.waiting
      BY <1>20, ReadyFacts DEF TypeOK, SnapshotSound
    <3>3. snap.pr = Proposal
      BY <3>2 DEF SnapshotSound, ValidChangeProposal, HasProposal
    <3>4. /\ e \in WebhookEvent /\ e.kind = "SYNCHRONIZATION" /\ e.revision = snap.revision /\ e.pr = snap.pr
          /\ e.previous = snap.head /\ e.head # snap.head
      BY <1>5, <1>6, <1>7, <2>1, <3>1, <3>2, <3>3
    <3>5. Reduce(snap, e).disposition = "APPLIED"
      BY <1>20, <3>2, <3>4, PushRevokes DEF TypeOK, SnapshotSound
    <3> QED BY <2>1, <3>5 DEF d
  <2> QED BY <2>3, <2>4
<1>21. ASSUME \A k \in DOMAIN deferred : deferred[k].event.kind # "TRIGGER", snap.state \in ActiveStates => r.fallback # ""
       PROVE  new.snap.attempt = snap.attempt /\ (new.snap.state \in ActiveStates => new.stage # "")
  <2>1. e.kind # "TRIGGER"
    BY <1>4, <1>7, <1>21 DEF c
  <2>2. acc.snap.attempt = snap.attempt /\ (acc.snap.state \in ActiveStates => acc.stage # "")
    BY <1>2, <1>21
  <2>3. "" \notin Stages
    BY DEF Stages
  <2> QED BY <1>10, <1>12, <1>14, <2>1, <2>2, <2>3
<1>22. Replaying(r, new)
  BY <1>11, <1>15, <1>16, <1>17, <1>18, <1>19, <1>20, <1>21 DEF Replaying
<1> QED BY <1>11, <1>22 DEF new

-----------------------------------------------------------------------------
(* The whole replay.                                                       *)

\* The events behind a turn, and the pushes among them.
LEMMA BacklogEntries ==
    ASSUME deferred \in Seq(Held), NEW turn
    PROVE  /\ Backlog(turn) \in Seq(Held)
           /\ Backlog(turn) = <<>> <=> \A i \in DOMAIN deferred : deferred[i].turn # turn
           /\ \A n \in DOMAIN Backlog(turn) : \E i \in DOMAIN deferred : deferred[i].turn = turn /\ Backlog(turn)[n] = deferred[i]
           /\ \A i \in DOMAIN deferred : deferred[i].turn = turn => \E n \in DOMAIN Backlog(turn) : Backlog(turn)[n] = deferred[i]
<1> DEFINE P == {i \in DOMAIN deferred : deferred[i].turn = turn}
<1>1. P \subseteq DOMAIN deferred /\ Backlog(turn) = At(deferred, P)
  BY DEF Backlog
<1> HIDE DEF P
<1>2. /\ At(deferred, P) \in Seq(Held)
      /\ At(deferred, P) = <<>> <=> P = {}
      /\ \A n \in DOMAIN At(deferred, P) : \E i \in P : At(deferred, P)[n] = deferred[i]
      /\ \A i \in P : \E n \in DOMAIN At(deferred, P) : At(deferred, P)[n] = deferred[i]
  BY <1>1, AtSequence
<1> QED BY <1>1, <1>2 DEF P

\* What stays deferred when the events of one turn are taken out.
LEMMA WithoutBacklogEntries ==
    ASSUME deferred \in Seq(Held), NEW turn
    PROVE  /\ WithoutBacklog(turn) \in Seq(Held)
           /\ \A n \in DOMAIN WithoutBacklog(turn) : \E i \in DOMAIN deferred :
                 deferred[i].turn # turn /\ WithoutBacklog(turn)[n] = deferred[i]
           /\ \A i \in DOMAIN deferred : deferred[i].turn # turn =>
                 \E n \in DOMAIN WithoutBacklog(turn) : WithoutBacklog(turn)[n] = deferred[i]
<1> DEFINE P == {i \in DOMAIN deferred : deferred[i].turn # turn}
<1>1. P \subseteq DOMAIN deferred /\ WithoutBacklog(turn) = At(deferred, P)
  BY DEF WithoutBacklog
<1> HIDE DEF P
<1>2. /\ At(deferred, P) \in Seq(Held)
      /\ \A n \in DOMAIN At(deferred, P) : \E i \in P : At(deferred, P)[n] = deferred[i]
      /\ \A i \in P : \E n \in DOMAIN At(deferred, P) : At(deferred, P)[n] = deferred[i]
  BY <1>1, AtSequence
<1> QED BY <1>1, <1>2 DEF P

\* The pushes among deferred events.
LEMMA PushesEntries ==
    ASSUME NEW backlog \in Seq(Held)
    PROVE  /\ Pushes(backlog) \in Seq(Held)
           /\ \A n \in DOMAIN Pushes(backlog) : \E i \in DOMAIN backlog : IsPush(backlog[i]) /\ Pushes(backlog)[n] = backlog[i]
           /\ \A i \in DOMAIN backlog : IsPush(backlog[i]) => \E n \in DOMAIN Pushes(backlog) : Pushes(backlog)[n] = backlog[i]
<1> DEFINE P == {i \in DOMAIN backlog : backlog[i].event.kind = "SYNCHRONIZATION"}
<1>1. P \subseteq DOMAIN backlog /\ Pushes(backlog) = At(backlog, P)
  BY DEF Pushes
<1> HIDE DEF P
<1>2. /\ At(backlog, P) \in Seq(Held)
      /\ \A n \in DOMAIN At(backlog, P) : \E i \in P : At(backlog, P)[n] = backlog[i]
      /\ \A i \in P : \E n \in DOMAIN At(backlog, P) : At(backlog, P)[n] = backlog[i]
  BY <1>1, AtSequence
<1> QED BY <1>1, <1>2 DEF P, IsPush

PathOf(r) == IF ReplayEdges(r) = {} THEN <<>> ELSE CHOOSE p \in CausalPaths(ReplayEdges(r)) : TRUE

\* The path of a replay reaches every push that is replayed.
LEMMA PathReaches ==
    ASSUME TypeOK, NEW r \in reconciles, Replayable(r)
    PROVE  /\ DOMAIN PathOf(r) \subseteq Nat
           /\ \A i \in DOMAIN Backlog(r.turn) : IsPush(Backlog(r.turn)[i]) =>
                 \E n \in DOMAIN PathOf(r) : PathOf(r)[n] = Backlog(r.turn)[i].event.previous
<1> DEFINE path    == PathOf(r)
           backlog == Backlog(r.turn)
           pushes  == Pushes(backlog)
           edges   == ReplayEdges(r)
           image   == {EdgeOf(pushes[i].event) : i \in DOMAIN pushes}
           K       == Cardinality(edges)
<1>1. backlog \in Seq(Held)
  BY BacklogEntries DEF TypeOK
<1> HIDE DEF backlog
<1>2. /\ pushes \in Seq(Held)
      /\ \A i \in DOMAIN backlog : IsPush(backlog[i]) => \E n \in DOMAIN pushes : pushes[n] = backlog[i]
  BY <1>1, PushesEntries
<1>3. edges = r.edges \cup image
  BY DEF ReplayEdges, backlog
<1> HIDE DEF pushes
<1>4. IsFiniteSet(image)
  <2>1. Len(pushes) \in Nat /\ DOMAIN pushes = 1..Len(pushes)
    BY <1>2, LenProperties
  <2>2. IsFiniteSet(DOMAIN pushes)
    BY <2>1, FS_Interval
  <2> DEFINE f == [i \in DOMAIN pushes |-> EdgeOf(pushes[i].event)]
  <2>3. f \in Surjection(DOMAIN pushes, image)
    BY DEF Surjection
  <2> HIDE DEF f, image
  <2> QED BY <2>2, <2>3, FS_Surjection
<1>5. IsFiniteSet(r.edges)
  BY DEF TypeOK
<1> HIDE DEF image, edges
<1>6. K \in Nat
  BY <1>3, <1>4, <1>5, FS_Union, FS_CardinalityType
<1>7. CASE edges = {}
  <2>1. path = <<>> /\ image = {}
    BY <1>3, <1>7 DEF edges, PathOf
  <2>2. DOMAIN pushes = {}
    BY <2>1 DEF image
  <2>3. \A i \in DOMAIN backlog : ~IsPush(backlog[i])
    BY <1>2, <2>2
  <2>4. DOMAIN path \subseteq Nat
    BY <2>1
  <2> QED BY <2>3, <2>4 DEF backlog
<1>8. CASE edges # {}
  <2>1. path \in CausalPaths(edges)
    BY <1>8 DEF Replayable, edges, PathOf
  <2>2. /\ path \in [1..K + 1 -> Heads]
        /\ edges = {[previous |-> path[i], head |-> path[i + 1]] : i \in 1..K}
    BY <2>1 DEF CausalPaths
  <2> HIDE DEF K
  <2>3. DOMAIN path = 1..K + 1
    BY <2>2
  <2>4. DOMAIN path \subseteq Nat
    BY <1>6, <2>3
  <2>5. ASSUME NEW i \in DOMAIN backlog, IsPush(backlog[i])
        PROVE  \E n \in DOMAIN path : path[n] = backlog[i].event.previous
    <3>1. PICK m \in DOMAIN pushes : pushes[m] = backlog[i]
      BY <1>2, <2>5
    <3>2. EdgeOf(pushes[m].event) \in edges
      BY <1>3 DEF image
    <3>3. PICK n \in 1..K : EdgeOf(pushes[m].event) = [previous |-> path[n], head |-> path[n + 1]]
      BY <2>2, <3>2
    <3>4. pushes[m].event.previous = path[n]
      BY <3>3 DEF EdgeOf
    <3>5. n \in DOMAIN path
      BY <1>6, <2>3
    <3> QED BY <3>1, <3>4, <3>5
  <2> QED BY <2>4, <2>5 DEF backlog
<1> QED BY <1>7, <1>8

\* The states a replay goes through, from the Workflow as it is to the one it ends in.
ReplayRun(r, acc, L) ==
    /\ L \in Nat /\ Replay(r) = acc[L] /\ acc[L].rest = <<>> /\ acc[0].snap = snap
    /\ \A n \in Nat : n <= L => Replaying(r, acc[n])
    /\ \A n \in Nat : n < L => /\ acc[n + 1] = ReplayOne(acc[n], PathOf(r))
                               /\ NextLinked(acc[n].rest, PathOf(r)) \in DOMAIN acc[n].rest

\* A reconciliation replays everything its turn held up, and ends in a sound Workflow.
LEMMA ReplayRuns ==
    ASSUME TypeOK, SnapshotSound, PushesSound, NEW r \in reconciles, Reconcilable(r)
    PROVE  \E acc, L : ReplayRun(r, acc, L)
<1> DEFINE backlog == Backlog(r.turn)
           path    == PathOf(r)
           start   == [rest |-> backlog, snap |-> snap, stage |-> r.fallback, fresh |-> FALSE]
           L       == Len(backlog)
           runs(a) == ReplayTo(a, L, start, path)
<1>1. ~HasTurn(snap) /\ Replayable(r)
  BY DEF Reconcilable
<1>2. backlog \in Seq(Held) /\ L \in Nat
  <2>1. backlog \in Seq(Held)
    BY BacklogEntries DEF TypeOK
  <2> HIDE DEF backlog
  <2> QED BY <2>1, LenProperties
<1>3. \A n \in DOMAIN backlog : \E i \in DOMAIN deferred : deferred[i].turn = r.turn /\ backlog[n] = deferred[i]
  BY BacklogEntries DEF TypeOK
<1>4. \A i \in DOMAIN deferred : deferred[i].turn = r.turn => \E n \in DOMAIN backlog : backlog[n] = deferred[i]
  BY BacklogEntries DEF TypeOK
<1>5. /\ DOMAIN path \subseteq Nat
      /\ \A i \in DOMAIN backlog : IsPush(backlog[i]) => \E n \in DOMAIN path : path[n] = backlog[i].event.previous
  BY <1>1, PathReaches
<1>6. ASSUME NEW acc, Replaying(r, acc), NEW i \in DOMAIN acc.rest, IsPush(acc.rest[i])
      PROVE  \E n \in DOMAIN path : path[n] = acc.rest[i].event.previous
  <2> HIDE DEF path, backlog
  <2>1. PICK j \in DOMAIN deferred : deferred[j].turn = r.turn /\ acc.rest[i] = deferred[j]
    BY <1>6 DEF Replaying
  <2>2. PICK n \in DOMAIN backlog : backlog[n] = deferred[j]
    BY <1>4, <2>1
  <2> QED BY <1>5, <1>6, <2>1, <2>2
<1>7. Replaying(r, start) /\ start.rest = backlog
  <2>1. start.rest = backlog /\ start.snap = snap /\ start.stage = r.fallback /\ start.fresh = FALSE
    OBVIOUS
  <2>2. snap.turn = NoTurn /\ r.fallback \in Stages \cup {""} /\ snap \in Snapshot
    BY <1>1 DEF HasTurn, TypeOK
  <2>3. \A j \in DOMAIN deferred : deferred[j].turn = r.turn => \E i \in DOMAIN backlog : backlog[i] = deferred[j]
    BY <1>4
  <2> HIDE DEF start, backlog
  <2> QED BY <1>2, <1>3, <2>1, <2>2, <2>3 DEF Replaying, SnapshotSound
<1>8. Replay(r) = LET acc == CHOOSE a : runs(a) IN acc[L]
  BY Zenon DEF Replay, ReplayTo, PathOf
<1>9. \E a : runs(a)
  <2> HIDE DEF start, path, L
  <2> QED BY ONLY <1>2, ReplayExists
<1> HIDE DEF start, path, L, backlog
<1>10. PICK acc : runs(acc) /\ Replay(r) = acc[L]
  BY <1>8, <1>9
<1> DEFINE S == {n \in Nat : n <= L => Replaying(r, acc[n]) /\ Len(acc[n].rest) = L - n}
<1>11. 0 \in S
  <2>1. acc[0] = start
    BY <1>2, <1>10 DEF ReplayTo
  <2> QED BY <1>2, <1>7, <2>1 DEF L
<1>12. \A n \in Nat : n \in S => n + 1 \in S
  <2> SUFFICES ASSUME NEW n \in Nat, n + 1 <= L, Replaying(r, acc[n]) /\ Len(acc[n].rest) = L - n
               PROVE  Replaying(r, acc[n + 1]) /\ Len(acc[n + 1].rest) = L - (n + 1)
    BY <1>2
  <2>1. acc[n + 1] = ReplayOne(acc[n], path)
    <3>1. n + 1 \in 0..L /\ n + 1 # 0 /\ (n + 1) - 1 = n
      BY <1>2
    <3> QED BY <1>10, <3>1 DEF ReplayTo
  <2>2. acc[n].rest # <<>>
    <3>1. Len(acc[n].rest) # 0
      BY <1>2
    <3> QED BY <3>1, EmptySeq
  <2>3. Replaying(r, ReplayOne(acc[n], path)) /\ Len(ReplayOne(acc[n], path).rest) = Len(acc[n].rest) - 1
    <3> DEFINE a == acc[n]
    <3>1. Replaying(r, a) /\ a.rest # <<>>
      BY <2>2
    <3> HIDE DEF a
    <3>2. \A i \in DOMAIN a.rest : IsPush(a.rest[i]) => \E m \in DOMAIN path : path[m] = a.rest[i].event.previous
      BY <1>6, <3>1
    <3>3. Replaying(r, ReplayOne(a, path)) /\ Len(ReplayOne(a, path).rest) = Len(a.rest) - 1
      BY ONLY TypeOK, SnapshotSound, PushesSound, <1>1, <1>5, <3>1, <3>2, ReplayStep, ZenonT(60)
    <3> QED BY <3>3 DEF a
  <2> QED BY <1>2, <2>1, <2>3
<1> HIDE DEF S
<1>13. Nat \subseteq S
  BY <1>11, <1>12, Induction
<1>14. \A n \in Nat : n <= L => Replaying(r, acc[n]) /\ Len(acc[n].rest) = L - n
  BY <1>13 DEF S
<1>15. acc[L].rest = <<>>
  <2>1. Replaying(r, acc[L]) /\ Len(acc[L].rest) = 0
    BY <1>2, <1>14
  <2>2. acc[L].rest \in Seq(Held)
    BY <2>1 DEF Replaying
  <2> QED BY <2>1, <2>2, EmptySeq
<1>16. acc[0].snap = snap
  <2>1. acc[0] = start
    BY <1>2, <1>10 DEF ReplayTo
  <2> QED BY <2>1 DEF start
<1>17. ASSUME NEW n \in Nat, n < L
       PROVE  acc[n + 1] = ReplayOne(acc[n], path) /\ NextLinked(acc[n].rest, path) \in DOMAIN acc[n].rest
  <2>1. acc[n + 1] = ReplayOne(acc[n], path)
    <3>1. n + 1 \in 0..L /\ n + 1 # 0 /\ (n + 1) - 1 = n
      BY <1>2, <1>17
    <3> QED BY <1>10, <3>1 DEF ReplayTo
  <2> DEFINE rest == acc[n].rest
  <2>2. Replaying(r, acc[n]) /\ Len(rest) # 0
    BY <1>2, <1>14, <1>17
  <2>3. rest \in Seq(Held)
    BY <2>2 DEF Replaying
  <2>4. \A i \in DOMAIN rest : IsPush(rest[i]) => \E m \in DOMAIN path : path[m] = rest[i].event.previous
    BY <1>6, <2>2
  <2> HIDE DEF rest
  <2>5. rest # <<>>
    BY <2>2, EmptySeq
  <2>6. NextLinked(rest, path) \in DOMAIN rest
    BY ONLY <1>5, <2>3, <2>4, <2>5, NextLinkedIsLeft
  <2> QED BY <2>1, <2>6 DEF rest
<1>18. ReplayRun(r, acc, L)
  BY <1>2, <1>10, <1>14, <1>15, <1>16, <1>17 DEF ReplayRun, path
<1> QED BY <1>18

\* A replay ends in one of its states, with nothing left.
LEMMA ReplayEnds ==
    ASSUME TypeOK, SnapshotSound, PushesSound, NEW r \in reconciles, Reconcilable(r)
    PROVE  Replaying(r, Replay(r)) /\ Replay(r).rest = <<>>
<1>1. PICK acc, L : ReplayRun(r, acc, L)
  BY ReplayRuns
<1>2. L \in Nat /\ L <= L
  BY <1>1 DEF ReplayRun
<1> QED BY <1>1, <1>2 DEF ReplayRun

-----------------------------------------------------------------------------
(* The steps that leave the Snapshot alone.                                *)

Preparations == [attempt : Nat, stage : Stages \cup {""}, head : HeadOrNone, revision : Nat, seen : HeadOrNone]

Inv ==
    /\ TypeOK /\ SnapshotSound /\ TurnSound /\ PreparationSound /\ PushesSound /\ EvidenceCovered
    /\ OneAuthority /\ DeferredEventsHeld /\ VerdictsHold

\* The steps that leave the Snapshot alone.
Quiet ==
    \/ \E h \in Heads : Push(h) \/ OpenProposal(h) \/ Publish(h)
    \/ AdmitHumanInput \/ ExhaustEffect \/ ObservePreparation \/ RefreshPreparation \/ LosePreparation
    \/ Corroborate \/ AcknowledgeClosureTurnStopped
    \/ \E r \in reconciles : GiveUpReconciliation(r)

\* The types of the fields of a Snapshot.
LEMMA SnapshotFields ==
    ASSUME NEW s \in Snapshot
    PROVE  /\ s.revision \in Nat /\ s.attempt \in Nat /\ s.usage \in Nat /\ s.stage \in Stages \cup {""}
           /\ s.head \in HeadOrNone /\ s.ready \in HeadOrNone /\ s.pr \in PRs \cup {NoPR}
           /\ s.turn \in Turn /\ s.waiting \in BOOLEAN
BY Zenon DEF Snapshot, HeadOrNone

\* A PREPARE is well typed.
LEMMA PreparationType ==
    ASSUME NEW s \in Snapshot, NEW attempt \in Nat, NEW intent, intent.stage \in Stages \cup {""}, intent.head \in HeadOrNone
    PROVE  Preparation(s, attempt, intent) \in Preparations
<1>1. s.revision \in Nat /\ NoHead \in HeadOrNone
  BY SnapshotFields DEF HeadOrNone
<1> QED BY <1>1 DEF Preparation, Preparations

\* A PREPARE enqueued for a Workflow passes the fences of its own claim.
LEMMA PreparationFits ==
    ASSUME NEW s \in Snapshot, ValidSnapshot(s), s.state \in ActiveStates, Headed(s), NEW attempt, NEW purpose
    PROVE  LET p == Preparation(s, attempt, EnqueueTurn(s.stage, purpose, s.head))
           IN  Fits(p, s) /\ p # NoPrepare /\ p.stage = s.stage /\ p.attempt = attempt /\ p.revision = s.revision
<1>1. s.stage \in Stages /\ (s.stage = "review" => ValidChangeProposal(s)) /\ s.revision \in Nat
  BY ActiveFacts, SnapshotFields
<1>2. "" \notin Stages
  BY DEF Stages
<1> DEFINE p == Preparation(s, attempt, EnqueueTurn(s.stage, purpose, s.head))
<1>3. p.stage = s.stage /\ p.attempt = attempt /\ p.revision = s.revision /\ p.head = s.head
  BY DEF Preparation, EnqueueTurn
<1>4. NoPrepare.stage = ""
  BY DEF NoPrepare
<1> HIDE DEF p
<1>5. p # NoPrepare
  BY <1>1, <1>2, <1>3, <1>4
<1>6. p.revision <= s.revision
  BY ONLY <1>1, <1>3
<1>7. ~HasProposal(s) => s.head = NoHead /\ s.stage # "review"
  BY <1>1 DEF Headed, ValidChangeProposal
<1>8. Fits(p, s)
  BY <1>1, <1>3, <1>6, <1>7 DEF Fits
<1> QED BY <1>3, <1>5, <1>8 DEF p

\* So is its absence.
LEMMA NoPrepareType == NoPrepare \in Preparations
BY DEF NoPrepare, Preparations, HeadOrNone

\* The steps that leave the Snapshot alone keep the types.
LEMMA QuietTypes ==
    ASSUME Inv, Quiet PROVE TypeOK'
<1> USE DEF TypeOK
<1>1. TypeOK /\ prepare \in Preparations
  BY DEF Inv, Preparations
<1>0. ASSUME NEW step, Happens(step) PROVE events' \in Nat
  <2>1. events \in Nat
    BY <1>1
  <2> QED BY ONLY <2>1, <1>0 DEF Happens
<1>2. ASSUME NEW h \in Heads, Push(h) PROVE TypeOK'
  <2>1. remote \in Heads /\ [previous |-> remote, head |-> h] \in Edges
    BY <1>1, <1>2 DEF Push, PushTo, HeadOrNone, Edges
  <2>2. remote' \in HeadOrNone /\ inbox' \subseteq Edges
    BY <1>1, <1>2, <2>1 DEF Push, PushTo, HeadOrNone
  <2>3. events' \in Nat
    BY <1>0, <1>2 DEF Push, PushTo
  <2> QED BY <1>1, <1>2, <2>2, <2>3 DEF Push, PushTo, people, jobs
<1>3. ASSUME NEW h \in Heads, OpenProposal(h) PROVE TypeOK'
  <2>1. remote' \in Heads /\ remote' \in HeadOrNone
    BY <1>1, <1>3 DEF OpenProposal, HeadOrNone
  <2>2. snap.turn.id \in Nat
    BY <1>1, SnapshotFields DEF Turn
  <2>3. opened' \in [turn : Nat, head : HeadOrNone, edges : SUBSET Edges] /\ opened'.head \in Heads /\ opened'.edges = {}
    BY <1>1, <1>3, <2>1, <2>2 DEF OpenProposal
  <2> QED BY <1>1, <1>3, <2>1, <2>3, FS_EmptySet DEF OpenProposal, people, jobs
<1>4. ASSUME NEW h \in Heads, Publish(h) PROVE TypeOK'
  <2>1. remote \in Heads /\ [previous |-> remote, head |-> h] \in Edges /\ h \in HeadOrNone
    BY <1>1, <1>4 DEF Publish, PushTo, HeadOrNone, Edges
  <2>2. remote' \in HeadOrNone /\ inbox' \subseteq Edges
    BY <1>1, <1>4, <2>1 DEF Publish, PushTo, HeadOrNone
  <2>3. events' \in Nat
    BY <1>0, <1>4 DEF Publish, PushTo
  <2>4. /\ opened' \in [turn : Nat, head : HeadOrNone, edges : SUBSET Edges] /\ opened'.head \in Heads
        /\ opened'.edges = opened.edges \cup {[previous |-> remote, head |-> h]}
    BY <1>1, <1>4, <2>1 DEF Publish
  <2>5. IsFiniteSet(opened'.edges)
    <3>1. IsFiniteSet(opened.edges)
      BY <1>1
    <3>2. IsFiniteSet(opened.edges \cup {[previous |-> remote, head |-> h]})
      BY ONLY <3>1, FS_AddElement
    <3> QED BY ONLY <2>4, <3>2
  <2> QED BY <1>1, <1>4, <2>2, <2>3, <2>4, <2>5 DEF Publish, PushTo, people, jobs
<1>5. ASSUME AdmitHumanInput PROVE TypeOK'
  <2>1. snap.stage \in Stages /\ snap.attempt \in Nat /\ snap.head \in HeadOrNone
    BY <1>1, <1>5, ActiveFacts, SnapshotFields DEF Inv, SnapshotSound, AdmitHumanInput
  <2>2. prepare' \in Preparations
    <3>1. Preparation(snap, snap.attempt, EnqueueTurn(snap.stage, "REACTIVATION", snap.head)) \in Preparations
      BY <1>1, <2>1, PreparationType DEF EnqueueTurn
    <3> QED BY <1>1, <1>5, <3>1 DEF AdmitHumanInput
  <2>3. input' \subseteq Stages /\ events' \in Nat
    BY <1>0, <1>1, <1>5, <2>1 DEF AdmitHumanInput
  <2> QED BY <1>1, <1>5, <2>2, <2>3 DEF AdmitHumanInput, github, Preparations
<1>6. ASSUME ExhaustEffect PROVE TypeOK'
  <2>1. events' \in Nat
    BY <1>0, <1>6 DEF ExhaustEffect
  <2>2. failures' \subseteq Nat
    <3>1. failures \subseteq Nat
      BY <1>1
    <3>2. failures' = failures \cup {0}
      BY <1>6 DEF ExhaustEffect
    <3> QED BY ONLY <3>1, <3>2
  <2> QED BY <1>1, <1>6, <2>1, <2>2, Zenon DEF ExhaustEffect, people, github
<1>7. ASSUME ObservePreparation \/ RefreshPreparation \/ LosePreparation PROVE TypeOK'
  <2>1. snap.revision \in Nat /\ snap.head \in HeadOrNone /\ NoHead \in HeadOrNone
    BY <1>1, SnapshotFields DEF HeadOrNone
  <2>2. prepare' \in Preparations
    <3>1. CASE ObservePreparation
      BY <1>1, <3>1 DEF ObservePreparation, Preparations
    <3>2. CASE RefreshPreparation
      BY <1>1, <2>1, <3>2 DEF RefreshPreparation, Preparations
    <3>3. CASE LosePreparation
      BY <3>3, NoPrepareType DEF LosePreparation
    <3> QED BY <1>7, <3>1, <3>2, <3>3
  <2> QED BY <1>1, <1>7, <2>2 DEF ObservePreparation, RefreshPreparation, LosePreparation, people, github, Preparations
<1>8. ASSUME Corroborate \/ AcknowledgeClosureTurnStopped PROVE TypeOK'
  BY <1>1, <1>8 DEF Corroborate, AcknowledgeClosureTurnStopped, people, github, jobs
<1>9. ASSUME NEW r \in reconciles, GiveUpReconciliation(r) PROVE TypeOK'
  BY <1>1, <1>9 DEF GiveUpReconciliation, people, github
<1> QED BY <1>2, <1>3, <1>4, <1>5, <1>6, <1>7, <1>8, <1>9 DEF Quiet

\* They keep the turns, the verdicts and what is deferred as well.
LEMMA QuietKeeps ==
    ASSUME Inv, Quiet PROVE snap' = snap /\ verdict' = verdict /\ turns' = turns /\ stopped' = stopped /\ deferred' = deferred
BY DEF Quiet, Push, PushTo, OpenProposal, Publish, AdmitHumanInput, ExhaustEffect, ObservePreparation, RefreshPreparation,
       LosePreparation, Corroborate, AcknowledgeClosureTurnStopped, GiveUpReconciliation, github, people, jobs

\* They start no turn, and no second authority beside one.
LEMMA QuietTurns ==
    ASSUME Inv, Quiet PROVE TurnSound' /\ OneAuthority'
<1>1. snap' = snap /\ turns' = turns /\ stopped' = stopped /\ deferred' = deferred
  BY QuietKeeps
<1>2. reconciles' \subseteq reconciles
  BY DEF Quiet, Push, PushTo, OpenProposal, Publish, AdmitHumanInput, ExhaustEffect, ObservePreparation, RefreshPreparation,
         LosePreparation, Corroborate, AcknowledgeClosureTurnStopped, GiveUpReconciliation, jobs
<1>3. HasTurn(snap) => prepare' = prepare \/ prepare' = NoPrepare
  BY DEF Quiet, Push, PushTo, OpenProposal, Publish, AdmitHumanInput, ExhaustEffect, ObservePreparation, RefreshPreparation,
         LosePreparation, Corroborate, AcknowledgeClosureTurnStopped, GiveUpReconciliation, jobs, Inv, OneAuthority,
         Refreshable, Bound
<1>4. TurnSound /\ OneAuthority
  BY DEF Inv
<1>5. TurnSound'
  BY <1>1, <1>2, <1>4 DEF TurnSound
<1>6. OneAuthority'
  BY <1>1, <1>2, <1>3, <1>4 DEF OneAuthority
<1> QED BY <1>5, <1>6

\* A PREPARE they enqueue, observe or refresh fits the Workflow.
LEMMA QuietPreparations ==
    ASSUME Inv, Quiet PROVE PreparationSound'
<1>1. snap' = snap /\ PreparationSound /\ prepare \in Preparations /\ snap \in Snapshot /\ ValidSnapshot(snap) /\ Headed(snap)
  BY QuietKeeps DEF Inv, TypeOK, Preparations, SnapshotSound
<1>2. CASE prepare' = prepare \/ prepare' = NoPrepare
  BY <1>1, <1>2 DEF PreparationSound
<1>3. CASE ObservePreparation
  <2>1. prepare # NoPrepare /\ prepare' = [prepare EXCEPT !.seen = remote]
    BY <1>3 DEF ObservePreparation
  <2>2. prepare'.stage = prepare.stage /\ prepare'.revision = prepare.revision /\ prepare'.head = prepare.head
    BY <1>1, <2>1 DEF Preparations
  <2> QED BY <1>1, <2>1, <2>2 DEF PreparationSound, Fits
<1>4. CASE RefreshPreparation
  <2>1. prepare # NoPrepare /\ HasProposal(snap) /\ prepare' = [prepare EXCEPT !.revision = snap.revision, !.head = snap.head, !.seen = NoHead]
    BY <1>4 DEF RefreshPreparation, Refreshable, Bound
  <2>2. prepare'.stage = prepare.stage /\ prepare'.revision = snap.revision /\ prepare'.head = snap.head
    BY <1>1, <2>1 DEF Preparations
  <2>3. snap.revision <= snap.revision
    <3>1. snap.revision \in Nat
      BY <1>1, SnapshotFields
    <3> QED BY ONLY <3>1
  <2> QED BY <1>1, <2>1, <2>2, <2>3 DEF PreparationSound, Fits
<1>5. CASE AdmitHumanInput
  <2>1. snap.state \in ActiveStates
    BY <1>5 DEF AdmitHumanInput
  <2>2. Fits(Preparation(snap, snap.attempt, EnqueueTurn(snap.stage, "REACTIVATION", snap.head)), snap)
    BY <1>1, <2>1, PreparationFits
  <2> QED BY <1>1, <1>5, <2>2 DEF AdmitHumanInput, PreparationSound
<1> QED BY <1>2, <1>3, <1>4, <1>5 DEF Quiet, Push, PushTo, OpenProposal, Publish, ExhaustEffect,
         LosePreparation, Corroborate, AcknowledgeClosureTurnStopped, GiveUpReconciliation, jobs

\* A push that moves the head away from the evidence is on its way as a webhook.
LEMMA QuietPushes ==
    ASSUME Inv, Quiet PROVE PushesSound' /\ EvidenceCovered'
<1>1. snap' = snap /\ deferred' = deferred
  BY QuietKeeps
<1>2. PushesSound /\ EvidenceCovered /\ remote \in HeadOrNone
  BY DEF Inv, TypeOK
<1>3. NoHead \notin Heads
  BY AbsentAssumption
<1>4. ASSUME NEW h \in Heads, PushTo(h), evidence' = evidence
      PROVE  PushesSound' /\ EvidenceCovered'
  <2> DEFINE edge == [previous |-> remote, head |-> h]
  <2>1. remote # NoHead /\ remote # h /\ remote' = h /\ inbox' = inbox \cup {edge}
    BY <1>4 DEF PushTo
  <2>2. edge.previous = remote /\ edge.head = h /\ edge \in inbox'
    BY <2>1
  <2>3. PushesSound'
    BY <1>1, <1>2, <1>3, <1>4, <2>1, <2>2 DEF PushesSound, IsPush
  <2>4. EvidenceCovered'
    <3> HIDE DEF edge
    <3>1. CASE evidence = remote
      BY <2>2, <3>1, <1>4 DEF EvidenceCovered
    <3>2. CASE evidence # remote
      BY <1>1, <1>2, <1>4, <2>1, <3>2 DEF EvidenceCovered
    <3> QED BY <3>1, <3>2
  <2> QED BY <2>3, <2>4
<1>5. ASSUME NEW h \in Heads, Push(h) \/ Publish(h) PROVE PushesSound' /\ EvidenceCovered'
  BY <1>4, <1>5 DEF Push, Publish, PushTo
<1>6. ASSUME NEW h \in Heads, OpenProposal(h) PROVE PushesSound' /\ EvidenceCovered'
  <2>1. inbox' = inbox /\ evidence' = evidence /\ (remote' = remote \/ (remote = NoHead /\ remote' = h))
    BY <1>6 DEF OpenProposal
  <2> QED BY <1>1, <1>2, <1>3, <2>1 DEF PushesSound, EvidenceCovered, IsPush
<1>7. ASSUME Corroborate PROVE PushesSound' /\ EvidenceCovered'
  <2>1. inbox' = inbox /\ remote' = remote /\ evidence' = remote
    BY <1>7 DEF Corroborate
  <2> QED BY <1>1, <1>2, <1>3, <2>1 DEF PushesSound, EvidenceCovered, IsPush
<1>8. ASSUME inbox' = inbox /\ remote' = remote /\ evidence' = evidence PROVE PushesSound' /\ EvidenceCovered'
  BY <1>1, <1>2, <1>8 DEF PushesSound, EvidenceCovered, IsPush
<1> QED BY <1>5, <1>6, <1>7, <1>8 DEF Quiet, AdmitHumanInput, ExhaustEffect, ObservePreparation, RefreshPreparation,
         LosePreparation, AcknowledgeClosureTurnStopped, GiveUpReconciliation, github

\* A RECONCILE that is given up leaves a failure behind, which disposes of its events.
LEMMA QuietDeferred ==
    ASSUME Inv, Quiet PROVE DeferredEventsHeld'
<1>1. snap' = snap /\ deferred' = deferred /\ stopped' = stopped /\ DeferredEventsHeld
  BY QuietKeeps DEF Inv
<1>2. failures \subseteq failures'
  BY DEF Quiet, Push, PushTo, OpenProposal, Publish, AdmitHumanInput, ExhaustEffect, ObservePreparation, RefreshPreparation,
       LosePreparation, Corroborate, AcknowledgeClosureTurnStopped, GiveUpReconciliation, jobs
<1>3. \A r \in reconciles : r \in reconciles' \/ r.turn \in failures'
  BY DEF Quiet, Push, PushTo, OpenProposal, Publish, AdmitHumanInput, ExhaustEffect, ObservePreparation, RefreshPreparation,
       LosePreparation, Corroborate, AcknowledgeClosureTurnStopped, GiveUpReconciliation, jobs
<1> QED BY <1>1, <1>2, <1>3 DEF DeferredEventsHeld

\* A push that replaces the ready commit is on its way as a webhook.
LEMMA QuietVerdicts ==
    ASSUME Inv, Quiet PROVE VerdictsHold'
<1>1. snap' = snap /\ deferred' = deferred /\ stopped' = stopped /\ verdict' = verdict
  BY QuietKeeps
<1>2. ReadyHeadWasApproved /\ ReadinessIsRevoked /\ ReviewBudgetHolds
  BY DEF Inv, VerdictsHold
<1>3. ReadyHeadWasApproved' /\ ReviewBudgetHolds'
  BY <1>1, <1>2 DEF ReadyHeadWasApproved, ReviewBudgetHolds
<1>4. ASSUME remote' = remote, inbox \subseteq inbox' PROVE ReadinessIsRevoked'
  BY <1>1, <1>2, <1>4 DEF ReadinessIsRevoked
<1>5. ASSUME NEW h, PushTo(h) PROVE ReadinessIsRevoked'
  <2> DEFINE edge == [previous |-> remote, head |-> h]
  <2>1. inbox' = inbox \cup {edge} /\ edge.previous = remote
    BY <1>5 DEF PushTo
  <2> HIDE DEF edge
  <2> QED BY <1>1, <1>2, <2>1 DEF ReadinessIsRevoked
<1>6. ASSUME NEW h, OpenProposal(h) PROVE ReadinessIsRevoked'
  <2>1. HasTurn(snap) /\ snap \in Snapshot /\ ValidSnapshot(snap)
    BY <1>6 DEF OpenProposal, Inv, TypeOK, SnapshotSound
  <2>2. snap.state # "PR_READY"
    BY <2>1, ReadyFacts
  <2> QED BY <1>1, <2>2 DEF ReadinessIsRevoked
<1> QED BY <1>3, <1>4, <1>5, <1>6 DEF VerdictsHold, Quiet, Push, Publish, Corroborate, AdmitHumanInput, ExhaustEffect, ObservePreparation,
         RefreshPreparation, LosePreparation, AcknowledgeClosureTurnStopped, GiveUpReconciliation, github

\* The steps that leave the Snapshot alone preserve the invariant.
LEMMA QuietInvariant ==
    ASSUME Inv, Quiet PROVE Inv'
<1>1. SnapshotSound'
  BY QuietKeeps DEF Inv, SnapshotSound
<1> QED BY <1>1, QuietTypes, QuietTurns, QuietPreparations, QuietPushes, QuietDeferred, QuietVerdicts DEF Inv

-----------------------------------------------------------------------------
(* Webhooks.                                                               *)

\* An event a webhook stands for.
Sound(c) ==
    /\ c \in Event
    /\ c.kind = "SYNCHRONIZATION" <=> c.previous # NoHead
    /\ c.kind = "SYNCHRONIZATION" => c.previous # c.head /\ c.head \in Heads

\* A webhook is processed: it is applied, put off behind the turn, or dropped.
Handled(c) ==
    LET d == Reduce(snap, Built(c, snap))
    IN  /\ \/ d.disposition = "APPLIED" /\ PersistWebhookDecision(d)
           \/ d.disposition = "DEFERRED" /\ Defer(c)
           \/ /\ d.disposition = "REJECTED" /\ c.kind = "SYNCHRONIZATION"
              /\ UNCHANGED <<snap, prepare, barrier, verdict, deferred>>
        /\ c.kind = "TRIGGER" /\ HasTurn(snap) => LabelDuringTurn
        /\ UNCHANGED <<people, reconciles, failures, stopped, remote, opened, evidence, turns>>
        /\ inbox' \subseteq inbox
        /\ \A e \in inbox \ inbox' : c.kind = "SYNCHRONIZATION" /\ c.previous = e.previous
        /\ events' \in Nat

\* The three ways it can end.
WebhookApplied ==
    /\ snap' \in Snapshot /\ ValidSnapshot(snap') /\ snap'.revision = snap.revision + 1
    /\ snap'.turn = snap.turn /\ snap'.waiting = snap.waiting /\ snap'.pr = snap.pr /\ Headed(snap')
    /\ snap'.state # "PR_READY" /\ (HasTurn(snap) => snap'.state = "CLOSING")
    /\ deferred' = deferred
    /\ \/ /\ prepare' \in Preparations /\ Fits(prepare', snap') /\ prepare' # NoPrepare
          /\ prepare'.stage = snap'.stage /\ prepare'.attempt = snap'.attempt /\ prepare'.revision = snap'.revision
          /\ ~HasTurn(snap) /\ snap'.state \in ActiveStates
       \/ /\ prepare' = prepare
          /\ snap'.state \in ActiveStates =>
                HasProposal(snap) /\ snap'.state = snap.state /\ snap'.stage = snap.stage /\ snap'.attempt = snap.attempt
          /\ snap.state \in ActiveStates \cup {"CLOSING"} => snap'.state \in ActiveStates \cup {"CLOSING"}
    /\ \/ snap'.attempt = snap.attempt /\ snap'.usage = snap.usage /\ snap'.stage = snap.stage /\ verdict' = verdict
       \/ snap'.usage = 0 /\ verdict' = NoVerdict
WebhookDeferred(c) ==
    /\ HasTurn(snap) /\ snap.state \in ActiveStates
    /\ UNCHANGED <<snap, prepare, verdict>>
    /\ deferred' = Append(deferred, [turn |-> snap.turn.id, event |-> c])
WebhookDropped(c) ==
    /\ UNCHANGED <<snap, prepare, verdict, deferred>>
    /\ ~(HasTurn(snap) /\ snap.state \in ActiveStates)
    /\ ~(snap.state = "PR_READY" /\ c.previous = snap.head)

\* A webhook ends in one of the three ways, with the prepare job that suits the decision.
LEMMA WebhookEnds ==
    ASSUME Inv, NEW c, Sound(c), Handled(c)
    PROVE  /\ WebhookApplied \/ WebhookDeferred(c) \/ WebhookDropped(c)
           /\ barrier' \in {"NONE", "STOPPING", "CLEAR"}
<1> DEFINE e == Built(c, snap)
           d == Reduce(snap, e)
<1>1. /\ snap \in Snapshot /\ ValidSnapshot(snap) /\ planned \in BOOLEAN /\ snap.pr \in {NoPR, Proposal} /\ Headed(snap)
      /\ barrier \in {"NONE", "STOPPING", "CLEAR"}
      /\ snap.state = "PR_READY" => snap.stage = "review" /\ ~snap.waiting
  BY DEF Inv, TypeOK, SnapshotSound
<1>2. /\ e \in WebhookEvent /\ e.kind = c.kind /\ e.revision = snap.revision
      /\ c.kind = "SYNCHRONIZATION" => e.pr = Proposal /\ e.previous = c.previous /\ e.head = c.head
  BY <1>1, BuiltEvent DEF Sound
<1> HIDE DEF e
<1>3. WebhookSound(snap, e, d)
  BY <1>1, <1>2, WebhookReduced
<1>4. d.disposition = "REJECTED" /\ c.kind = "SYNCHRONIZATION" =>
          /\ ~(HasTurn(snap) /\ snap.state \in ActiveStates)
          /\ ~(snap.state = "PR_READY" /\ c.previous = snap.head)
  <2>1. ASSUME c.kind = "SYNCHRONIZATION", HasTurn(snap), snap.state \in ActiveStates PROVE d.disposition = "DEFERRED"
    BY <1>1, <1>2, <2>1, PushWaits
  <2>2. ASSUME c.kind = "SYNCHRONIZATION", snap.state = "PR_READY", c.previous = snap.head PROVE d.disposition = "APPLIED"
    <3>1. HasProposal(snap)
      BY <1>1, <2>2, ReadyFacts DEF ValidChangeProposal
    <3>2. snap.pr = Proposal /\ c.head # snap.head
      BY <1>1, <2>2, <3>1 DEF HasProposal, Sound
    <3> QED BY <1>1, <1>2, <2>2, <3>2, PushRevokes
  <2> QED BY <2>1, <2>2
<1>5. d = Reduce(snap, Built(c, snap))
  BY DEF e
<1> HIDE DEF d
<1>6. /\ \/ d.disposition = "APPLIED" /\ PersistWebhookDecision(d)
         \/ d.disposition = "DEFERRED" /\ Defer(c)
         \/ /\ d.disposition = "REJECTED" /\ c.kind = "SYNCHRONIZATION"
            /\ UNCHANGED <<snap, prepare, barrier, verdict, deferred>>
  BY <1>5 DEF Handled
<1>7. CASE d.disposition = "APPLIED"
  <2>1. PersistWebhookDecision(d)
    BY <1>6, <1>7
  <2>2. /\ d.snap \in Snapshot /\ ValidSnapshot(d.snap)
        /\ d.snap.revision = snap.revision + 1 /\ d.snap.turn = snap.turn
        /\ d.snap.waiting = snap.waiting /\ d.snap.pr = snap.pr
        /\ Headed(d.snap) /\ d.snap.state # "PR_READY"
        /\ HasTurn(snap) => d.snap.state = "CLOSING"
        /\ d.effects.intent.kind \in {"none", "turn"}
        /\ d.effects.intent.kind = "turn" =>
              /\ ~HasTurn(snap) /\ d.snap.state \in ActiveStates
              /\ d.effects.intent.stage = d.snap.stage /\ d.effects.intent.head = d.snap.head
        /\ d.effects.intent.kind = "none" /\ d.snap.state \in ActiveStates =>
              HasProposal(snap) /\ d.snap.state = snap.state /\ d.snap.stage = snap.stage /\ d.snap.attempt = snap.attempt
        /\ d.effects.intent.kind = "none" /\ snap.state \in ActiveStates \cup {"CLOSING"} =>
              d.snap.state \in ActiveStates \cup {"CLOSING"}
        /\ \/ d.snap.attempt = snap.attempt /\ d.snap.usage = snap.usage /\ d.snap.stage = snap.stage
           \/ d.snap.attempt = snap.attempt + 1 /\ d.snap.usage = 0 /\ e.kind = "TRIGGER"
    BY <1>1, <1>3, <1>7 DEF WebhookSound
  <2>3. snap' = d.snap /\ deferred' = deferred /\ barrier' \in {"NONE", "STOPPING", "CLEAR"}
    BY <1>1, <2>1 DEF PersistWebhookDecision
  <2>4. \/ d.snap.attempt = snap.attempt /\ d.snap.usage = snap.usage /\ d.snap.stage = snap.stage /\ verdict' = verdict
        \/ d.snap.usage = 0 /\ verdict' = NoVerdict
    <3>1. verdict' = IF d.snap.attempt = snap.attempt THEN verdict ELSE NoVerdict
      BY <2>1 DEF PersistWebhookDecision
    <3>2. snap.attempt \in Nat
      BY <1>1, SnapshotFields
    <3>3. d.snap.attempt = snap.attempt + 1 => d.snap.attempt # snap.attempt
      BY ONLY <3>2
    <3> QED BY ONLY <2>2, <3>1, <3>3
  <2>5. CASE d.effects.intent.kind = "turn"
    <3> DEFINE p == Preparation(d.snap, d.snap.attempt, d.effects.intent)
               q == Preparation(d.snap, d.snap.attempt, EnqueueTurn(d.snap.stage, "", d.snap.head))
    <3>1. prepare' = p
      BY <2>1, <2>5 DEF PersistWebhookDecision, PersistTurnIntent
    <3>2. p = q
      BY <2>2, <2>5 DEF Preparation, EnqueueTurn
    <3>3. Fits(q, d.snap) /\ q # NoPrepare /\ q.stage = d.snap.stage /\ q.attempt = d.snap.attempt /\ q.revision = d.snap.revision
      <4>1. d.snap \in Snapshot /\ ValidSnapshot(d.snap) /\ d.snap.state \in ActiveStates /\ Headed(d.snap)
        BY <2>2, <2>5
      <4> DEFINE s == d.snap
      <4> HIDE DEF s
      <4>2. s \in Snapshot /\ ValidSnapshot(s) /\ s.state \in ActiveStates /\ Headed(s)
        BY ONLY <4>1 DEF s
      <4> DEFINE w == Preparation(s, s.attempt, EnqueueTurn(s.stage, "", s.head))
      <4>3. Fits(w, s) /\ w # NoPrepare /\ w.stage = s.stage /\ w.attempt = s.attempt /\ w.revision = s.revision
        <5>1. Fits(w, s)
          BY ONLY <4>2, PreparationFits DEF w
        <5>2. w.stage = s.stage /\ w.attempt = s.attempt /\ w.revision = s.revision
          BY DEF Preparation, EnqueueTurn
        <5>3. s.stage \in Stages /\ "" \notin Stages /\ NoPrepare.stage = ""
          BY ONLY <4>2, ActiveFacts DEF Stages, NoPrepare
        <5>4. w # NoPrepare
          BY <5>2, <5>3
        <5> QED BY ONLY <5>1, <5>2, <5>4
      <4> QED BY ONLY <4>3 DEF s
    <3>4. q \in Preparations
      <4>1. d.snap.attempt \in Nat /\ d.snap.stage \in Stages \cup {""} /\ d.snap.head \in HeadOrNone
        BY <2>2, SnapshotFields
      <4> QED BY <2>2, <4>1, PreparationType DEF EnqueueTurn
    <3> HIDE DEF p, q
    <3> QED BY <2>2, <2>3, <2>4, <2>5, <3>1, <3>2, <3>3, <3>4 DEF WebhookApplied
  <2>6. CASE d.effects.intent.kind = "none"
    <3>1. prepare' = prepare
      BY <2>1, <2>6 DEF PersistWebhookDecision, PersistTurnIntent
    <3> QED BY <2>2, <2>3, <2>4, <2>6, <3>1 DEF WebhookApplied
  <2> QED BY <2>2, <2>5, <2>6
<1>8. CASE d.disposition = "DEFERRED"
  <2>1. Defer(c) /\ HasTurn(snap) /\ snap.state \in ActiveStates
    BY <1>3, <1>6, <1>8 DEF WebhookSound
  <2> QED BY <1>1, <2>1 DEF Defer, WebhookDeferred
<1>9. CASE d.disposition = "REJECTED"
  BY <1>1, <1>4, <1>6, <1>9 DEF WebhookDropped
<1> QED BY <1>6, <1>7, <1>8, <1>9

\* Deferring adds one event and keeps the others.
LEMMA DeferredEntries ==
    ASSUME deferred \in Seq(Held), NEW h \in Held, deferred' = Append(deferred, h)
    PROVE  /\ deferred' \in Seq(Held)
           /\ \A i \in DOMAIN deferred : i \in DOMAIN deferred' /\ deferred'[i] = deferred[i]
           /\ \E i \in DOMAIN deferred' : deferred'[i] = h
           /\ \A i \in DOMAIN deferred' : deferred'[i] = h \/ (i \in DOMAIN deferred /\ deferred'[i] = deferred[i])
<1> DEFINE L == Len(deferred)
<1>1. L \in Nat /\ DOMAIN deferred = 1..L
  BY LenProperties
<1>2. /\ deferred' \in Seq(Held) /\ Len(deferred') = L + 1
      /\ \A i \in 1..L : deferred'[i] = deferred[i]
      /\ deferred'[L + 1] = h
  BY AppendProperties
<1>3. DOMAIN deferred' = 1..(L + 1)
  BY <1>2, LenProperties
<1> HIDE DEF L
<1>4. \A i \in 1..L : i \in 1..(L + 1)
  BY <1>1
<1>5. L + 1 \in 1..(L + 1)
  BY <1>1
<1>6. \A i \in 1..(L + 1) : i = L + 1 \/ i \in 1..L
  BY <1>1
<1>7. \A i \in DOMAIN deferred : i \in DOMAIN deferred' /\ deferred'[i] = deferred[i]
  BY ONLY <1>1, <1>2, <1>3, <1>4
<1>8. \E i \in DOMAIN deferred' : deferred'[i] = h
  BY ONLY <1>2, <1>3, <1>5
<1>9. \A i \in DOMAIN deferred' : deferred'[i] = h \/ (i \in DOMAIN deferred /\ deferred'[i] = deferred[i])
  <2> TAKE i \in DOMAIN deferred'
  <2>1. i = L + 1 \/ i \in 1..L
    BY ONLY i \in DOMAIN deferred', <1>3, <1>6
  <2> QED BY ONLY <1>1, <1>2, <2>1
<1> QED BY <1>2, <1>7, <1>8, <1>9

\* Webhooks preserve the invariant (applyWorkflowEventTx, the push processor).
LEMMA HandledInvariant ==
    ASSUME Inv, NEW c, Sound(c), Handled(c) PROVE Inv'
<1>1. /\ WebhookApplied \/ WebhookDeferred(c) \/ WebhookDropped(c)
      /\ barrier' \in {"NONE", "STOPPING", "CLEAR"}
  BY WebhookEnds
<1>2. /\ UNCHANGED <<planned, input, assigned, reconciles, failures, stopped, remote, opened, evidence, turns>>
      /\ inbox' \subseteq inbox /\ events' \in Nat
      /\ \A e \in inbox \ inbox' : c.kind = "SYNCHRONIZATION" /\ c.previous = e.previous
  BY DEF Handled, people
<1>3. /\ TypeOK /\ SnapshotSound /\ TurnSound /\ PreparationSound /\ PushesSound /\ EvidenceCovered
      /\ OneAuthority /\ DeferredEventsHeld /\ VerdictsHold
  BY DEF Inv
<1>4. snap \in Snapshot /\ ValidSnapshot(snap) /\ snap.revision \in Nat /\ deferred \in Seq(Held) /\ snap.turn.id \in Nat
  BY <1>3, SnapshotFields DEF TypeOK, SnapshotSound, Turn
<1>5. WebhookDeferred(c) =>
         LET h == [turn |-> snap.turn.id, event |-> c]
         IN  /\ h \in Held /\ deferred' \in Seq(Held)
             /\ \A i \in DOMAIN deferred : i \in DOMAIN deferred' /\ deferred'[i] = deferred[i]
             /\ \E i \in DOMAIN deferred' : deferred'[i] = h
             /\ \A i \in DOMAIN deferred' : deferred'[i] = h \/ (i \in DOMAIN deferred /\ deferred'[i] = deferred[i])
  <2> DEFINE h == [turn |-> snap.turn.id, event |-> c]
  <2>1. h \in Held
    BY <1>4 DEF Held, Sound
  <2> HIDE DEF h
  <2>2. ASSUME deferred' = Append(deferred, h)
        PROVE  /\ deferred' \in Seq(Held)
               /\ \A i \in DOMAIN deferred : i \in DOMAIN deferred' /\ deferred'[i] = deferred[i]
               /\ \E i \in DOMAIN deferred' : deferred'[i] = h
               /\ \A i \in DOMAIN deferred' : deferred'[i] = h \/ (i \in DOMAIN deferred /\ deferred'[i] = deferred[i])
    BY <1>4, <2>1, <2>2, DeferredEntries
  <2>3. WebhookDeferred(c) => deferred' = Append(deferred, h)
    BY DEF WebhookDeferred, h
  <2> QED BY <2>1, <2>2, <2>3 DEF h
<1>6. /\ verdict' \in [count : Nat, approved : HeadOrNone]
      /\ prepare' \in Preparations
      /\ snap' \in Snapshot /\ ValidSnapshot(snap') /\ snap'.turn = snap.turn
  <2>1. /\ verdict \in [count : Nat, approved : HeadOrNone] /\ prepare \in Preparations
        /\ NoVerdict \in [count : Nat, approved : HeadOrNone]
    BY <1>3 DEF TypeOK, Preparations, NoVerdict, HeadOrNone
  <2> QED BY <1>1, <1>4, <2>1 DEF WebhookApplied, WebhookDeferred, WebhookDropped
<1>7. TypeOK'
  <2>1. deferred' \in Seq(Held)
    BY <1>1, <1>4, <1>5 DEF WebhookApplied, WebhookDropped
  <2> QED BY <1>1, <1>2, <1>3, <1>6, <2>1 DEF TypeOK, Preparations
<1>8. SnapshotSound'
  BY <1>1, <1>3, <1>6 DEF SnapshotSound, WebhookApplied, WebhookDeferred, WebhookDropped
<1>9. snap'.revision >= snap.revision
  BY <1>1, <1>4 DEF WebhookApplied, WebhookDeferred, WebhookDropped
<1>10. HasTurn(snap) => snap.turn.id \in 1..turns /\ ~snap.waiting
  BY <1>3 DEF TurnSound
<1>11. TurnSound'
  <2>1. HasTurn(snap)' => (snap.turn.id \in 1..turns /\ snap.turn.id \notin stopped /\ ~snap.waiting)'
    <3>1. snap'.waiting = snap.waiting
      BY <1>1 DEF WebhookApplied, WebhookDeferred, WebhookDropped
    <3> QED BY <1>2, <1>3, <1>6, <3>1 DEF TurnSound, HasTurn
  <2>2. \A r \in reconciles' : r.turn \in 1..turns' /\ r.revision <= snap'.revision
    <3>1. \A r \in reconciles : r.turn \in 1..turns /\ r.revision <= snap.revision /\ r.revision \in Nat
      BY <1>3 DEF TurnSound, TypeOK
    <3>2. snap'.revision \in Nat
      BY <1>6, SnapshotFields
    <3> QED BY <1>2, <1>4, <1>9, <3>1, <3>2
  <2>3. \A i \in DOMAIN deferred' : deferred'[i].turn \in 1..turns'
    <3>1. CASE deferred' = deferred
      BY <1>2, <1>3, <3>1 DEF TurnSound
    <3>2. CASE WebhookDeferred(c)
      BY <1>2, <1>3, <1>5, <1>10, <3>2 DEF TurnSound, WebhookDeferred
    <3> QED BY <1>1, <3>1, <3>2 DEF WebhookApplied, WebhookDropped
  <2> QED BY <2>1, <2>2, <2>3 DEF TurnSound
<1>12. PreparationSound'
  <2>1. CASE prepare' = prepare /\ snap' = snap
    BY <1>3, <2>1 DEF PreparationSound
  <2>2. CASE Fits(prepare', snap')
    BY <2>2 DEF PreparationSound
  <2>3. CASE prepare' = prepare /\ snap'.revision = snap.revision + 1
    <3>1. prepare.revision \in Nat
      BY <1>3 DEF TypeOK
    <3>2. prepare # NoPrepare => prepare.stage \in Stages /\ prepare.revision <= snap.revision
      BY <1>3 DEF PreparationSound, Fits
    <3>3. prepare # NoPrepare => prepare.revision <= snap'.revision /\ prepare.revision # snap'.revision
      BY ONLY <1>4, <2>3, <3>1, <3>2
    <3> QED BY <2>3, <3>2, <3>3 DEF PreparationSound, Fits
  <2> QED BY <1>1, <2>1, <2>2, <2>3 DEF WebhookApplied, WebhookDeferred, WebhookDropped
<1>13. PushesSound'
  <2>1. CASE deferred' = deferred
    BY <1>2, <1>3, <2>1 DEF PushesSound
  <2>2. CASE WebhookDeferred(c)
    <3>1. /\ c.kind = "SYNCHRONIZATION" <=> c.previous # NoHead
          /\ c.kind = "SYNCHRONIZATION" => c.previous # c.head /\ c.head # NoHead
      BY AbsentAssumption DEF Sound
    <3>2. \A i \in DOMAIN deferred' :
             /\ IsPush(deferred'[i]) <=> deferred'[i].event.previous # NoHead
             /\ IsPush(deferred'[i]) =>
                   deferred'[i].event.previous # deferred'[i].event.head /\ deferred'[i].event.head # NoHead
      BY <1>3, <1>5, <2>2, <3>1 DEF PushesSound, IsPush
    <3> QED BY <1>2, <1>3, <3>2 DEF PushesSound
  <2> QED BY <1>1, <2>1, <2>2 DEF WebhookApplied, WebhookDropped
<1>14. EvidenceCovered'
  <2>1. CASE HasTurn(snap) /\ snap.state \in ActiveStates
    <3>1. CASE WebhookApplied
      <4>1. snap'.state = "CLOSING" /\ "CLOSING" \notin ActiveStates
        BY <2>1, <3>1 DEF WebhookApplied, ActiveStates
      <4> QED BY <4>1 DEF EvidenceCovered
    <3>2. CASE WebhookDeferred(c)
      <4>1. snap' = snap
        BY <3>2 DEF WebhookDeferred
      <4> QED BY <1>2, <1>3, <1>5, <2>1, <3>2, <4>1 DEF EvidenceCovered
    <3> QED BY <1>1, <2>1, <3>1, <3>2 DEF WebhookDropped
  <2>2. CASE ~HasTurn(snap)
    BY <1>6, <2>2 DEF EvidenceCovered, HasTurn
  <2>3. CASE HasTurn(snap) /\ snap.state \notin ActiveStates
    <3>1. snap'.state \notin ActiveStates
      BY <1>1, <2>3 DEF WebhookApplied, WebhookDeferred, WebhookDropped, ActiveStates
    <3> QED BY <3>1 DEF EvidenceCovered
  <2> QED BY <2>1, <2>2, <2>3
<1>15. OneAuthority'
  <2>1. HasTurn(snap) => prepare' = prepare
    BY <1>1 DEF WebhookApplied, WebhookDeferred, WebhookDropped
  <2> QED BY <1>2, <1>3, <1>6, <2>1 DEF OneAuthority, HasTurn
<1>16. DeferredEventsHeld'
  <2>1. CASE deferred' = deferred
    BY <1>2, <1>3, <1>6, <2>1 DEF DeferredEventsHeld
  <2>2. CASE WebhookDeferred(c)
    BY <1>2, <1>3, <1>5, <1>6, <2>2 DEF DeferredEventsHeld
  <2> QED BY <1>1, <2>1, <2>2 DEF WebhookApplied, WebhookDropped
<1>17. VerdictsHold'
  <2>1. ReadyHeadWasApproved'
    BY <1>1, <1>3 DEF VerdictsHold, ReadyHeadWasApproved, WebhookApplied, WebhookDeferred, WebhookDropped
  <2>2. ReviewBudgetHolds'
    <3>1. CASE snap' = snap /\ verdict' = verdict
      BY <1>3, <3>1 DEF VerdictsHold, ReviewBudgetHolds
    <3>2. CASE snap'.usage = snap.usage /\ snap'.stage = snap.stage /\ verdict' = verdict
      BY <1>3, <3>2 DEF VerdictsHold, ReviewBudgetHolds, HasAttempt
    <3>3. CASE snap'.usage = 0 /\ verdict' = NoVerdict
      <4>1. verdict'.count = 0 /\ 0 <= ReviewLimit
        BY <3>3, LimitsAssumption DEF NoVerdict
      <4> QED BY <3>3, <4>1 DEF ReviewBudgetHolds
    <3> QED BY <1>1, <3>1, <3>2, <3>3 DEF WebhookApplied, WebhookDeferred, WebhookDropped
  <2>3. ReadinessIsRevoked'
    <3>1. CASE WebhookApplied
      BY <3>1 DEF ReadinessIsRevoked, WebhookApplied
    <3>2. CASE WebhookDeferred(c)
      <4>1. snap'.state # "PR_READY"
        BY <3>2 DEF WebhookDeferred, ActiveStates
      <4> QED BY <4>1 DEF ReadinessIsRevoked
    <3>3. CASE WebhookDropped(c)
      <4>1. snap.state = "PR_READY" => snap.ready = snap.head /\ c.previous # snap.ready
        BY <1>4, <3>3, ReadyFacts DEF WebhookDropped
      <4> QED BY <1>2, <1>3, <3>3, <4>1 DEF VerdictsHold, ReadinessIsRevoked, WebhookDropped
    <3> QED BY <1>1, <3>1, <3>2, <3>3
  <2> QED BY <2>1, <2>2, <2>3 DEF VerdictsHold
<1> QED BY <1>7, <1>8, <1>11, <1>12, <1>13, <1>14, <1>15, <1>16, <1>17 DEF Inv

-----------------------------------------------------------------------------
(* Turns that start, and those that cannot.                                *)

\* The Workflow with a turn prepared for it.
Prepared(s, turn, head) ==
    [s EXCEPT !.turn = turn, !.head = head, !.ready = IF head = s.head THEN @ ELSE NoHead, !.waiting = FALSE]

\* A turn that suits the Workflow it is prepared for, with the head it is given.
Suits(s, turn, head) ==
    /\ s \in Snapshot /\ ValidSnapshot(s) /\ s.state \in ActiveStates
    /\ turn \in Turn /\ turn # NoTurn /\ turn.id > 0
    /\ turn.attempt = s.attempt /\ turn.stage = s.stage /\ turn.pr = s.pr /\ turn.head = head
    /\ head \in HeadOrNone /\ (HasProposal(s) => head # NoHead)

\* t is the Workflow s with that turn.
Starts(t, s, turn, head) ==
    /\ t \in Snapshot /\ ValidSnapshot(t)
    /\ t.turn = turn /\ t.head = head /\ t.waiting = FALSE /\ t.state = s.state /\ t.revision = s.revision
    /\ t.pr = s.pr /\ t.stage = s.stage /\ t.attempt = s.attempt /\ t.usage = s.usage

\* A prepared turn leaves a valid Workflow: the head, the turn and what was ready move together.
LEMMA PreparedSnapshot ==
    ASSUME NEW s, NEW turn, NEW head, Suits(s, turn, head)
    PROVE  Starts(Prepared(s, turn, head), s, turn, head)
<1>0. /\ s \in Snapshot /\ ValidSnapshot(s) /\ s.state \in ActiveStates
      /\ turn \in Turn /\ turn # NoTurn /\ turn.id > 0
      /\ turn.attempt = s.attempt /\ turn.stage = s.stage /\ turn.pr = s.pr /\ turn.head = head
      /\ head \in HeadOrNone /\ (HasProposal(s) => head # NoHead)
  BY DEF Suits
<1> DEFINE ready == IF head = s.head THEN s.ready ELSE NoHead
           t == [s EXCEPT !.turn = turn, !.head = head, !.ready = ready, !.waiting = FALSE]
<1>1. s.ready \in HeadOrNone /\ ready \in HeadOrNone
  BY <1>0, SnapshotFields DEF HeadOrNone
<1>2. HasProposal(s) => s.ready = NoHead
  BY <1>0, ActiveFacts
<1>3. HasProposal(s) => ready = NoHead
  BY <1>2
<1>4. Prepared(s, turn, head) = t
  BY DEF Prepared
<1> HIDE DEF ready
<1>5. t \in Snapshot
  BY <1>0, <1>1, ZenonT(60) DEF Snapshot, HeadOrNone
<1>6. /\ t.turn = turn /\ t.head = head /\ t.ready = ready /\ t.waiting = FALSE
      /\ t.state = s.state /\ t.revision = s.revision
      /\ t.pr = s.pr /\ t.stage = s.stage
  BY <1>0 DEF Snapshot
<1>7. /\ t.attempt = s.attempt /\ t.usage = s.usage /\ t.retries = s.retries /\ t.status = s.status
      /\ t.runtime = s.runtime /\ t.token = s.token /\ t.closure = s.closure /\ t.planningOnly = s.planningOnly
  BY <1>0 DEF Snapshot
<1> HIDE DEF t
<1>8. s.state # "ABSENT" /\ s # Absent
  BY <1>0, AbsentFacts DEF ActiveStates
<1>9. ValidAssignments(t)
  BY <1>0, <1>6, <1>7, <1>8 DEF ValidSnapshot, ValidAssignments, ActiveStates
<1>10. ValidAttempt(t)
  BY <1>0, <1>6, <1>7, <1>8 DEF ValidSnapshot, ValidAttempt, HasAttempt
<1>11. ValidStateShape(t)
  <2>1. /\ s.closure = 0 /\ (s.stage = "review" => ValidChangeProposal(s)) /\ StageState[s.stage] = s.state /\ s.stage \in Stages
    BY <1>0, ActiveFacts
  <2>2. t.closure = 0 /\ StageState[t.stage] = t.state
    BY <1>0, <1>6, <1>7, <2>1
  <2>3. t.state = "REVIEWING" => ValidChangeProposal(t)
    BY <1>0, <1>6, <2>1 DEF StageState, Stages, ValidChangeProposal, HasProposal
  <2>4. ValidActiveTurn(t)
    BY <1>0, <1>6, <1>7 DEF ValidActiveTurn
  <2> QED BY <1>0, <1>6, <2>2, <2>3, <2>4 DEF ValidStateShape, ActiveStates
<1>12. ValidSnapshot(t)
  BY <1>0, <1>3, <1>6, <1>7, <1>8, <1>9, <1>10, <1>11 DEF ValidSnapshot, HasProposal
<1> QED BY <1>4, <1>5, <1>6, <1>7, <1>12 DEF Starts

\* A turn that starts preserves the invariant (PrepareAgentTurn of the store).
LEMMA PrepareInvariant ==
    ASSUME Inv, PrepareAgentTurn PROVE Inv'
<1> DEFINE head == IF HasProposal(snap) THEN prepare.seen ELSE NoHead
           turn == [id |-> turns + 1, attempt |-> snap.attempt, stage |-> snap.stage, pr |-> snap.pr, head |-> head]
<1>1. /\ TypeOK /\ SnapshotSound /\ TurnSound /\ PreparationSound /\ PushesSound /\ EvidenceCovered
      /\ OneAuthority /\ DeferredEventsHeld /\ VerdictsHold
  BY DEF Inv
<1>2. /\ snap \in Snapshot /\ ValidSnapshot(snap) /\ Headed(snap) /\ turns \in Nat
      /\ prepare.seen \in HeadOrNone /\ NoHead \in HeadOrNone
  BY <1>1 DEF TypeOK, SnapshotSound, HeadOrNone
<1>3. /\ snap.state \in ActiveStates /\ ~HasTurn(snap)
      /\ HasProposal(snap) => prepare.seen # NoHead
  BY DEF PrepareAgentTurn, Preparable, Current, Bound
<1>4. /\ snap' = Prepared(snap, turn, head)
      /\ turns' = turns + 1 /\ evidence' = NoHead /\ prepare' = NoPrepare /\ input' = input \ {snap.stage} /\ assigned' = TRUE
      /\ UNCHANGED <<planned, barrier, deferred, reconciles, failures, stopped, remote, opened, inbox, verdict, events>>
  BY Zenon DEF PrepareAgentTurn, Prepared
<1>5. head \in HeadOrNone /\ (HasProposal(snap) => head # NoHead) /\ (~HasProposal(snap) => head = NoHead)
  BY <1>2, <1>3
<1>6. turn \in Turn /\ turn # NoTurn /\ turn.id > 0 /\ turn.id = turns + 1
  <2> HIDE DEF head
  <2>1. turn.id = turns + 1 /\ turns + 1 \in Nat /\ turns + 1 > 0 /\ NoTurn.id = 0
    BY <1>2 DEF NoTurn
  <2>2. turn \in Turn
    BY <1>2, <1>5, <2>1, SnapshotFields DEF Turn, HeadOrNone
  <2> HIDE DEF turn
  <2> QED BY <2>1, <2>2
<1>7. turn.attempt = snap.attempt /\ turn.stage = snap.stage /\ turn.pr = snap.pr /\ turn.head = head
  OBVIOUS
<1> HIDE DEF turn, head
<1>8. /\ snap' \in Snapshot /\ ValidSnapshot(snap')
      /\ snap'.turn = turn /\ snap'.head = head /\ snap'.waiting = FALSE /\ snap'.state = snap.state /\ snap'.revision = snap.revision
      /\ snap'.pr = snap.pr /\ snap'.stage = snap.stage /\ snap'.attempt = snap.attempt /\ snap'.usage = snap.usage
  <2>1. Suits(snap, turn, head)
    BY ONLY <1>2, <1>3, <1>5, <1>6, <1>7 DEF Suits
  <2>2. Starts(Prepared(snap, turn, head), snap, turn, head)
    BY ONLY <2>1, PreparedSnapshot
  <2>3. Starts(snap', snap, turn, head)
    BY ONLY <2>2, <1>4
  <2> QED BY ONLY <2>3 DEF Starts
<1>9. TypeOK'
  <2>1. turns' \in Nat /\ stopped' \subseteq 1..turns'
    <3>1. stopped \subseteq 1..turns
      BY <1>1 DEF TypeOK
    <3> QED BY ONLY <1>2, <1>4, <3>1
  <2>2. prepare' \in Preparations
    BY <1>4, NoPrepareType
  <2> QED BY <1>1, <1>2, <1>4, <1>8, <2>1, <2>2 DEF TypeOK, Preparations
<1>10. SnapshotSound'
  <2>1. Headed(snap') /\ snap'.state # "PR_READY"
    BY <1>3, <1>5, <1>8 DEF Headed, HasProposal, ActiveStates
  <2> QED BY <1>1, <1>8, <2>1 DEF SnapshotSound
<1>11. TurnSound'
  <2>1. turns + 1 \in 1..(turns + 1) /\ turns + 1 \notin stopped /\ \A n \in 1..turns : n \in 1..(turns + 1)
    <3>1. stopped \subseteq 1..turns
      BY <1>1 DEF TypeOK
    <3> QED BY ONLY <1>2, <3>1
  <2> QED BY <1>1, <1>4, <1>6, <1>8, <2>1 DEF TurnSound
<1>12. PreparationSound'
  BY <1>4 DEF PreparationSound
<1>13. PushesSound' /\ EvidenceCovered'
  BY <1>1, <1>4 DEF PushesSound, EvidenceCovered
<1>14. OneAuthority'
  <2>1. turns + 1 \notin 1..turns
    BY <1>2
  <2> QED BY <1>1, <1>4, <1>6, <1>8, <2>1 DEF OneAuthority, TurnSound
<1>15. DeferredEventsHeld'
  <2>1. snap.turn.id = 0 /\ 0 \notin 1..turns
    <3>1. snap.turn.id = 0
      <4>1. snap.turn = NoTurn
        BY <1>3 DEF HasTurn
      <4>2. NoTurn.id = 0
        BY DEF NoTurn
      <4> QED BY ONLY <4>1, <4>2
    <3> QED BY ONLY <1>2, <3>1
  <2> QED BY <1>1, <1>4, <2>1 DEF DeferredEventsHeld, TurnSound
<1>16. VerdictsHold'
  <2>1. snap'.state # "PR_READY"
    BY <1>3, <1>8 DEF ActiveStates
  <2> QED BY <1>1, <1>4, <1>8, <2>1 DEF VerdictsHold, ReadyHeadWasApproved, ReadinessIsRevoked, ReviewBudgetHolds, HasAttempt
<1> QED BY <1>9, <1>10, <1>11, <1>12, <1>13, <1>14, <1>15, <1>16 DEF Inv

\* What a step that leaves no turn running has to keep.
LEMMA TurnlessParts ==
    ASSUME Inv, snap'.turn = NoTurn, snap' \in Snapshot, snap'.revision >= snap.revision, turns' = turns,
           UNCHANGED <<inbox, remote, evidence>>,
           \A r \in reconciles' : r \in reconciles \/ (r.turn \in 1..turns /\ r.revision <= snap'.revision),
           \A i \in DOMAIN deferred' : \E j \in DOMAIN deferred : deferred'[i] = deferred[j]
    PROVE  TurnSound' /\ EvidenceCovered' /\ OneAuthority' /\ PushesSound'
<1>1. TypeOK /\ SnapshotSound /\ TurnSound /\ PushesSound /\ EvidenceCovered
  BY DEF Inv
<1>2. ~HasTurn(snap)'
  BY DEF HasTurn
<1>3. snap.revision \in Nat /\ snap'.revision \in Nat
  BY <1>1, SnapshotFields DEF TypeOK
<1>4. TurnSound'
  <2>1. \A r \in reconciles : r.turn \in 1..turns /\ r.revision <= snap.revision /\ r.revision \in Nat
    BY <1>1 DEF TurnSound, TypeOK
  <2>2. \A r \in reconciles : r.revision <= snap'.revision
    BY <1>3, <2>1
  <2>3. \A i \in DOMAIN deferred' : deferred'[i].turn \in 1..turns
    BY <1>1 DEF TurnSound
  <2> QED BY <1>2, <2>1, <2>2, <2>3 DEF TurnSound
<1>5. EvidenceCovered' /\ OneAuthority'
  BY <1>2 DEF EvidenceCovered, OneAuthority
<1>6. PushesSound'
  BY <1>1 DEF PushesSound, IsPush
<1> QED BY <1>4, <1>5, <1>6

\* A preparation that failed for good preserves the invariant.
LEMMA FailsInvariant ==
    ASSUME Inv, NEW kind \in PreparationReports, PreparationFails(kind) PROVE Inv'
<1> DEFINE e == [kind |-> kind, revision |-> snap.revision, role |-> StageRole[prepare.stage], assignmentsExist |-> assigned]
           d == Reduce(snap, e)
<1>1. /\ TypeOK /\ SnapshotSound /\ TurnSound /\ PreparationSound /\ PushesSound /\ EvidenceCovered
      /\ OneAuthority /\ DeferredEventsHeld /\ VerdictsHold
  BY DEF Inv
<1>2. /\ snap \in Snapshot /\ ValidSnapshot(snap) /\ Headed(snap)
  BY <1>1 DEF TypeOK, SnapshotSound
<1>3. ~HasTurn(snap)
  BY DEF PreparationFails, Usable, Current, Refreshable, Bound
<1>4. d.disposition = "APPLIED" /\ snap' = d.snap
  BY DEF PreparationFails
<1>5. prepare' = NoPrepare /\ UNCHANGED <<planned, input, assigned, barrier, deferred, reconciles, failures, stopped, remote, opened, inbox, evidence, turns, verdict, events>>
  BY DEF PreparationFails, people, github
<1>6. e.kind \in {"ASSIGNMENT_CONFIGURATION_CONFLICT", "AGENT_TURN_PREPARATION_FAILED"}
  BY DEF PreparationReports
<1> HIDE DEF e
<1>7. HandedOff(snap, d)
  BY <1>2, <1>4, <1>6, PreparationReduced
<1> HIDE DEF d
<1>8. /\ snap' \in Snapshot /\ ValidSnapshot(snap')
      /\ snap'.state = "NEEDS_HUMAN" /\ snap'.revision = snap.revision + 1
      /\ snap'.turn = NoTurn /\ snap'.waiting = snap.waiting /\ snap'.pr = snap.pr /\ snap'.head = snap.head
      /\ snap'.attempt = snap.attempt /\ snap'.usage = snap.usage /\ snap'.stage = snap.stage
  BY <1>3, <1>4, <1>7 DEF HandedOff, HasTurn
<1>9. snap'.revision >= snap.revision
  <2>1. snap.revision \in Nat
    BY <1>2, SnapshotFields
  <2> QED BY ONLY <1>8, <2>1
<1>10. TypeOK'
  BY <1>1, <1>5, <1>8, NoPrepareType DEF TypeOK, Preparations
<1>11. SnapshotSound' /\ PreparationSound'
  BY <1>1, <1>5, <1>8 DEF SnapshotSound, PreparationSound, Headed, HasProposal
<1>12. TurnSound' /\ EvidenceCovered' /\ OneAuthority' /\ PushesSound'
  BY <1>5, <1>8, <1>9, TurnlessParts
<1>13. DeferredEventsHeld' /\ VerdictsHold'
  BY <1>1, <1>3, <1>5, <1>8 DEF DeferredEventsHeld, VerdictsHold, ReadyHeadWasApproved, ReadinessIsRevoked, ReviewBudgetHolds, HasAttempt, HasTurn
<1> QED BY <1>10, <1>11, <1>12, <1>13 DEF Inv

-----------------------------------------------------------------------------
(* Escalation, closure, reconciliation.                                    *)

\* The escalation of a failure preserves the invariant; the events it disposes of were behind no turn that runs.
LEMMA EscalateInvariant ==
    ASSUME Inv, NEW f \in failures, EscalateWorkflowActionFailure(f) PROVE Inv'
<1> DEFINE e == [kind |-> "WORKFLOW_ACTION_EXHAUSTED", revision |-> snap.revision]
           d == Reduce(snap, e)
<1>1. /\ TypeOK /\ SnapshotSound /\ TurnSound /\ PreparationSound /\ PushesSound /\ EvidenceCovered
      /\ OneAuthority /\ DeferredEventsHeld /\ VerdictsHold
  BY DEF Inv
<1>2. /\ snap \in Snapshot /\ ValidSnapshot(snap) /\ Headed(snap) /\ deferred \in Seq(Held)
  BY <1>1 DEF TypeOK, SnapshotSound
<1>3. /\ ~HasTurn(snap) /\ prepare = NoPrepare /\ reconciles = {} /\ snap' = d.snap
      /\ failures' = failures \ {f} /\ deferred' = WithoutBacklog(f)
      /\ UNCHANGED <<planned, input, assigned, barrier, prepare, reconciles, stopped, remote, opened, inbox, evidence, turns, verdict, events>>
  BY DEF EscalateWorkflowActionFailure, people, github
<1>4. e.kind = "WORKFLOW_ACTION_EXHAUSTED" /\ e.revision = snap.revision
  OBVIOUS
<1> HIDE DEF e
<1>5. IF snap.state \in AttemptStates \ {"NEEDS_HUMAN"} THEN HandedOff(snap, d) ELSE d = Rejected(snap)
  BY <1>2, <1>3, <1>4, EscalationReduced
<1> HIDE DEF d
<1>6. \/ snap' = snap /\ snap.state # "PR_READY"
      \/ snap'.state = "NEEDS_HUMAN" /\ snap'.revision = snap.revision + 1
  <2>1. CASE snap.state \in AttemptStates \ {"NEEDS_HUMAN"}
    <3>1. HandedOff(snap, d)
      BY ONLY <1>5, <2>1
    <3> QED BY ONLY <1>3, <3>1 DEF HandedOff
  <2>2. CASE snap.state \notin AttemptStates \ {"NEEDS_HUMAN"}
    <3>1. d = Rejected(snap)
      BY ONLY <1>5, <2>2
    <3>2. Rejected(snap).snap = snap
      BY DEF Rejected
    <3> QED BY <1>3, <2>2, <3>1, <3>2 DEF AttemptStates
  <2> QED BY <2>1, <2>2
<1>7. /\ snap' \in Snapshot /\ ValidSnapshot(snap') /\ snap'.turn = NoTurn /\ snap'.state # "PR_READY"
      /\ snap'.waiting = snap.waiting /\ snap'.pr = snap.pr /\ snap'.head = snap.head
      /\ snap'.attempt = snap.attempt /\ snap'.usage = snap.usage /\ snap'.stage = snap.stage
  <2>1. snap.turn = NoTurn
    BY <1>3 DEF HasTurn
  <2>2. CASE snap' = snap /\ snap.state # "PR_READY"
    BY <1>2, <2>1, <2>2
  <2>3. CASE snap'.state = "NEEDS_HUMAN" /\ snap'.revision = snap.revision + 1
    <3>1. CASE snap.state \in AttemptStates \ {"NEEDS_HUMAN"}
      <4>1. HandedOff(snap, d)
        BY ONLY <1>5, <3>1
      <4> QED BY <1>3, <2>1, <4>1 DEF HandedOff
    <3>2. CASE snap.state \notin AttemptStates \ {"NEEDS_HUMAN"}
      <4>1. d = Rejected(snap)
        BY ONLY <1>5, <3>2
      <4>2. Rejected(snap).snap = snap
        BY DEF Rejected
      <4>3. snap' = snap
        BY <1>3, <4>1, <4>2
      <4>4. snap.revision \in Nat
        BY <1>2, SnapshotFields
      <4> QED BY ONLY <2>3, <4>3, <4>4
    <3> QED BY <3>1, <3>2
  <2> QED BY <1>6, <2>2, <2>3
<1>8. snap'.revision >= snap.revision
  <2>1. snap.revision \in Nat
    BY <1>2, SnapshotFields
  <2> QED BY ONLY <1>6, <2>1
<1>9. /\ WithoutBacklog(f) \in Seq(Held)
      /\ \A n \in DOMAIN WithoutBacklog(f) : \E i \in DOMAIN deferred :
            deferred[i].turn # f /\ WithoutBacklog(f)[n] = deferred[i]
  BY <1>2, WithoutBacklogEntries
<1> HIDE DEF WithoutBacklog
<1>10. TypeOK'
  <2>1. failures' \subseteq Nat
    <3>1. failures \subseteq Nat
      BY <1>1 DEF TypeOK
    <3> QED BY ONLY <1>3, <3>1
  <2> QED BY <1>1, <1>3, <1>7, <1>9, <2>1 DEF TypeOK
<1>11. SnapshotSound' /\ PreparationSound'
  BY <1>1, <1>3, <1>7 DEF SnapshotSound, PreparationSound, Headed, HasProposal
<1>12. TurnSound' /\ EvidenceCovered' /\ OneAuthority' /\ PushesSound'
  <2>1. \A i \in DOMAIN deferred' : \E j \in DOMAIN deferred : deferred'[i] = deferred[j]
    BY <1>3, <1>9
  <2> QED BY <1>3, <1>7, <1>8, <2>1, TurnlessParts
<1>13. DeferredEventsHeld'
  <2> SUFFICES ASSUME NEW n \in DOMAIN deferred'
               PROVE  \/ deferred'[n].turn \in failures' \/ deferred'[n].turn \in stopped'
                      \/ \E r \in reconciles' : r.turn = deferred'[n].turn
    BY DEF DeferredEventsHeld
  <2>1. PICK i \in DOMAIN deferred : deferred[i].turn # f /\ deferred'[n] = deferred[i]
    BY <1>3, <1>9
  <2>2. deferred[i].turn # snap.turn.id
    <3>1. snap.turn.id = 0
      <4>1. snap.turn = NoTurn
        BY <1>3 DEF HasTurn
      <4>2. NoTurn.id = 0
        BY DEF NoTurn
      <4> QED BY ONLY <4>1, <4>2
    <3>2. deferred[i].turn \in 1..turns /\ turns \in Nat
      BY <1>1 DEF TurnSound, TypeOK
    <3> QED BY ONLY <3>1, <3>2
  <2> QED BY <1>1, <1>3, <2>1, <2>2 DEF DeferredEventsHeld
<1>14. VerdictsHold'
  BY <1>1, <1>3, <1>7 DEF VerdictsHold, ReadyHeadWasApproved, ReadinessIsRevoked, ReviewBudgetHolds, HasAttempt
<1> QED BY <1>10, <1>11, <1>12, <1>13, <1>14 DEF Inv

\* The settlement of a closure preserves the invariant; what was behind its turn stays, and is known to.
LEMMA CompleteInvariant ==
    ASSUME Inv, CompleteClosureSettlement PROVE Inv'
<1> DEFINE e == [kind |-> "CLOSURE_SETTLED", revision |-> snap.revision, closure |-> snap.closure,
                 turn |-> snap.turn, assignmentsExist |-> assigned]
           d == Reduce(snap, e)
<1>1. /\ TypeOK /\ SnapshotSound /\ TurnSound /\ PreparationSound /\ PushesSound /\ EvidenceCovered
      /\ OneAuthority /\ DeferredEventsHeld /\ VerdictsHold
  BY DEF Inv
<1>2. /\ snap \in Snapshot /\ ValidSnapshot(snap) /\ Headed(snap) /\ turns \in Nat
  BY <1>1 DEF TypeOK, SnapshotSound
<1>3. /\ d.disposition = "APPLIED" /\ snap' = d.snap /\ barrier' = "NONE" /\ prepare' = NoPrepare
      /\ stopped' = IF HasTurn(snap) THEN stopped \cup {snap.turn.id} ELSE stopped
      /\ UNCHANGED <<planned, input, assigned, deferred, reconciles, failures, remote, opened, inbox, evidence, turns, verdict, events>>
  BY DEF CompleteClosureSettlement, people, github
<1>4. e.kind = "CLOSURE_SETTLED"
  OBVIOUS
<1> HIDE DEF e
<1>5. /\ d.snap \in Snapshot /\ ValidSnapshot(d.snap)
      /\ d.snap.state \in {"DORMANT", "CLOSED"} /\ d.snap.revision = snap.revision + 1
      /\ d.snap.turn = NoTurn /\ d.snap.stage = "" /\ d.snap.pr = snap.pr /\ d.snap.head = snap.head
  BY <1>2, <1>3, <1>4, ClosureReduced
<1> HIDE DEF d
<1>6. /\ snap' \in Snapshot /\ ValidSnapshot(snap')
      /\ snap'.state # "PR_READY" /\ snap'.revision = snap.revision + 1
      /\ snap'.turn = NoTurn /\ snap'.stage = "" /\ snap'.pr = snap.pr /\ snap'.head = snap.head
  BY <1>3, <1>5
<1>7. snap'.revision >= snap.revision
  <2>1. snap.revision \in Nat
    BY <1>2, SnapshotFields
  <2>2. snap'.revision = snap.revision + 1
    BY <1>6
  <2> QED BY ONLY <2>1, <2>2
<1>8. stopped' \subseteq 1..turns
  <2>1. HasTurn(snap) => snap.turn.id \in 1..turns
    BY <1>1 DEF TurnSound
  <2>2. stopped \subseteq 1..turns
    BY <1>1 DEF TypeOK
  <2> QED BY ONLY <1>3, <2>1, <2>2
<1>9. TypeOK'
  BY <1>1, <1>3, <1>6, <1>8, NoPrepareType DEF TypeOK, Preparations
<1>10. SnapshotSound' /\ PreparationSound'
  BY <1>1, <1>3, <1>6 DEF SnapshotSound, PreparationSound, Headed, HasProposal
<1>11. TurnSound' /\ EvidenceCovered' /\ OneAuthority' /\ PushesSound'
  BY <1>3, <1>6, <1>7, TurnlessParts
<1>12. DeferredEventsHeld'
  <2>1. ~HasTurn(snap) => \A i \in DOMAIN deferred : deferred[i].turn # snap.turn.id
    <3>1. ~HasTurn(snap) => snap.turn.id = 0
      <4>1. NoTurn.id = 0
        BY DEF NoTurn
      <4> QED BY ONLY <4>1 DEF HasTurn
    <3>2. \A i \in DOMAIN deferred : deferred[i].turn \in 1..turns
      BY <1>1 DEF TurnSound
    <3> QED BY ONLY <1>2, <3>1, <3>2
  <2> QED BY <1>1, <1>3, <2>1 DEF DeferredEventsHeld
<1>13. VerdictsHold'
  BY <1>3, <1>6 DEF VerdictsHold, ReadyHeadWasApproved, ReadinessIsRevoked, ReviewBudgetHolds, HasAttempt
<1> QED BY <1>9, <1>10, <1>11, <1>12, <1>13 DEF Inv

\* A reconciliation preserves the invariant: no push that revokes a ready commit is lost in it.
LEMMA ReconcileInvariant ==
    ASSUME Inv, NEW r \in reconciles, ReconcilePendingEvents(r) PROVE Inv'
<1> DEFINE end == Replay(r)
<1>1. /\ TypeOK /\ SnapshotSound /\ TurnSound /\ PreparationSound /\ PushesSound /\ EvidenceCovered
      /\ OneAuthority /\ DeferredEventsHeld /\ VerdictsHold
  BY DEF Inv
<1>2. /\ snap \in Snapshot /\ ValidSnapshot(snap) /\ Headed(snap) /\ deferred \in Seq(Held) /\ turns \in Nat
  BY <1>1 DEF TypeOK, SnapshotSound
<1>3. /\ Reconcilable(r) /\ Normalizes(end.snap, end.stage) /\ snap' = end.snap
      /\ prepare' = ReplayPreparation(r, end.snap, end.stage)
      /\ reconciles' = reconciles \ {r} /\ deferred' = WithoutBacklog(r.turn)
      /\ verdict' = IF end.fresh THEN NoVerdict ELSE verdict
      /\ UNCHANGED <<planned, input, assigned, barrier, failures, stopped, remote, opened, inbox, evidence, turns, events>>
  BY DEF ReconcilePendingEvents, people, github
<1>4. Replaying(r, end) /\ end.rest = <<>>
  BY <1>1, <1>3, ReplayEnds
<1> HIDE DEF end
<1>5. /\ snap' \in Snapshot /\ ValidSnapshot(snap') /\ Headed(snap') /\ snap'.pr = snap.pr /\ snap'.turn = NoTurn
      /\ \/ snap' = snap /\ ~end.fresh
         \/ snap'.revision > snap.revision /\ snap'.state # "PR_READY"
      /\ end.stage \in Stages \cup {""}
      /\ IF end.fresh THEN snap'.usage = 0
         ELSE snap'.attempt = snap.attempt /\ snap'.usage = snap.usage /\ snap'.stage = snap.stage
  BY <1>3, <1>4 DEF Replaying
<1>6. snap'.revision >= snap.revision
  <2>1. snap.revision \in Nat /\ snap'.revision \in Nat
    BY <1>2, <1>5, SnapshotFields
  <2>2. snap' = snap \/ snap'.revision > snap.revision
    BY <1>5
  <2> QED BY ONLY <2>1, <2>2
<1>7. /\ WithoutBacklog(r.turn) \in Seq(Held)
      /\ \A n \in DOMAIN WithoutBacklog(r.turn) : \E i \in DOMAIN deferred :
            deferred[i].turn # r.turn /\ WithoutBacklog(r.turn)[n] = deferred[i]
      /\ \A i \in DOMAIN deferred : deferred[i].turn # r.turn =>
            \E n \in DOMAIN WithoutBacklog(r.turn) : WithoutBacklog(r.turn)[n] = deferred[i]
  BY <1>2, WithoutBacklogEntries
<1>8. prepare' \in Preparations /\ (prepare' # NoPrepare => Fits(prepare', snap'))
  <2>1. CASE snap'.state \notin ActiveStates \/ end.stage = ""
    BY <1>3, <2>1, NoPrepareType DEF ReplayPreparation
  <2>2. CASE snap'.state \in ActiveStates /\ end.stage # ""
    <3>1. end.stage = snap'.stage
      BY <1>3, <2>2 DEF Normalizes
    <3>2. prepare' = Preparation(snap', r.attempt, EnqueueTurn(snap'.stage, "", snap'.head))
      BY <1>3, <2>2, <3>1 DEF ReplayPreparation
    <3>3. Fits(Preparation(snap', r.attempt, EnqueueTurn(snap'.stage, "", snap'.head)), snap')
      BY <1>5, <2>2, PreparationFits
    <3>4. Preparation(snap', r.attempt, EnqueueTurn(snap'.stage, "", snap'.head)) \in Preparations
      <4>1. snap'.stage \in Stages \cup {""} /\ snap'.head \in HeadOrNone /\ r.attempt \in Nat
        BY <1>1, <1>5, SnapshotFields DEF TypeOK
      <4> QED BY <1>5, <4>1, PreparationType DEF EnqueueTurn
    <3> QED BY <3>2, <3>3, <3>4
  <2> QED BY <2>1, <2>2
<1>9. verdict' \in [count : Nat, approved : HeadOrNone]
  <2>1. verdict \in [count : Nat, approved : HeadOrNone] /\ NoVerdict \in [count : Nat, approved : HeadOrNone]
    BY <1>1 DEF TypeOK, NoVerdict, HeadOrNone
  <2> QED BY <1>3, <2>1
<1>10. TypeOK'
  BY <1>1, <1>3, <1>5, <1>7, <1>8, <1>9 DEF TypeOK, Preparations
<1>11. SnapshotSound' /\ PreparationSound'
  BY <1>1, <1>5, <1>8 DEF SnapshotSound, PreparationSound
<1>12. TurnSound' /\ EvidenceCovered' /\ OneAuthority' /\ PushesSound'
  <2>1. \A i \in DOMAIN deferred' : \E j \in DOMAIN deferred : deferred'[i] = deferred[j]
    BY <1>3, <1>7
  <2> QED BY <1>3, <1>5, <1>6, <2>1, TurnlessParts
<1>13. DeferredEventsHeld'
  <2> SUFFICES ASSUME NEW n \in DOMAIN deferred'
               PROVE  \/ deferred'[n].turn \in failures' \/ deferred'[n].turn \in stopped'
                      \/ \E q \in reconciles' : q.turn = deferred'[n].turn
    BY DEF DeferredEventsHeld
  <2>1. PICK i \in DOMAIN deferred : deferred[i].turn # r.turn /\ deferred'[n] = deferred[i]
    BY <1>3, <1>7
  <2>2. deferred[i].turn # snap.turn.id
    <3>1. snap.turn.id = 0
      <4>1. snap.turn = NoTurn
        BY <1>3 DEF Reconcilable, HasTurn
      <4>2. NoTurn.id = 0
        BY DEF NoTurn
      <4> QED BY ONLY <4>1, <4>2
    <3>2. deferred[i].turn \in 1..turns
      BY <1>1 DEF TurnSound
    <3> QED BY ONLY <1>2, <3>1, <3>2
  <2> QED BY <1>1, <1>3, <2>1, <2>2 DEF DeferredEventsHeld
<1>14. VerdictsHold'
  <2>1. ReadyHeadWasApproved'
    BY <1>1, <1>3, <1>5 DEF VerdictsHold, ReadyHeadWasApproved
  <2>2. ReviewBudgetHolds'
    <3>1. CASE end.fresh
      <4>1. verdict'.count = 0 /\ 0 <= ReviewLimit
        BY <1>3, <3>1, LimitsAssumption DEF NoVerdict
      <4> QED BY <1>5, <3>1, <4>1 DEF ReviewBudgetHolds
    <3>2. CASE ~end.fresh
      BY <1>1, <1>3, <1>5, <3>2 DEF VerdictsHold, ReviewBudgetHolds, HasAttempt
    <3> QED BY <3>1, <3>2
  <2>3. ReadinessIsRevoked'
    <3> SUFFICES ASSUME snap'.state = "PR_READY", snap'.ready # remote'
                 PROVE  \/ \E e \in inbox' : e.previous = snap'.ready
                        \/ \E n \in DOMAIN deferred' : deferred'[n].event.previous = snap'.ready /\ deferred'[n].turn \notin stopped'
      BY DEF ReadinessIsRevoked
    <3>1. snap' = snap /\ end.snap = snap
      BY <1>3, <1>5
    <3>2. snap.ready # NoHead
      BY <1>2, <3>1, ReadyFacts DEF ValidChangeProposal
    <3>3. CASE \E e \in inbox : e.previous = snap.ready
      BY <1>3, <3>1, <3>3
    <3>4. ASSUME NEW i \in DOMAIN deferred, deferred[i].event.previous = snap.ready, deferred[i].turn \notin stopped
          PROVE  \E n \in DOMAIN deferred' : deferred'[n].event.previous = snap'.ready /\ deferred'[n].turn \notin stopped'
      <4>1. IsPush(deferred[i])
        BY <1>1, <3>2, <3>4 DEF PushesSound
      <4>2. deferred[i].turn # r.turn
        <5>1. ASSUME deferred[i].turn = r.turn PROVE FALSE
          <6>1. \E k \in DOMAIN end.rest : end.rest[k] = deferred[i]
            BY <1>4, <3>1, <3>4, <4>1, <5>1 DEF Replaying
          <6> QED BY <1>4, <6>1
        <5> QED BY <5>1
      <4>3. PICK n \in DOMAIN deferred' : deferred'[n] = deferred[i]
        BY <1>3, <1>7, <4>2
      <4> QED BY <1>3, <3>1, <3>4, <4>3
    <3> QED BY <1>1, <1>3, <3>1, <3>3, <3>4 DEF VerdictsHold, ReadinessIsRevoked
  <2> QED BY <2>1, <2>2, <2>3 DEF VerdictsHold
<1> QED BY <1>10, <1>11, <1>12, <1>13, <1>14 DEF Inv

-----------------------------------------------------------------------------
(* Settlement of a turn.                                                   *)

\* The event of every report a worker can submit.
LEMMA ReportEvent ==
    ASSUME Inv, NEW r \in Reports
    PROVE  LET e == SettlementOf(r)
           IN  /\ HasTurn(snap) /\ snap.state \in ActiveStates
               /\ SettlementEvent(snap, e, Proposal)
               /\ e.outcome = "APPROVED" => e.head = evidence
               /\ e.pending.some = (Backlog(snap.turn.id) # <<>>)
               /\ e.inputPending = (snap.stage \in input)
<1> DEFINE e == SettlementOf(r)
<1>1. /\ snap \in Snapshot /\ evidence \in HeadOrNone
      /\ opened.turn # 0 => opened.head \in Heads
      /\ ValidSnapshot(snap)
  BY DEF Inv, TypeOK, SnapshotSound
<1>2. HasTurn(snap) /\ snap.state \in ActiveStates
  BY DEF Reports
<1>3. /\ r.outcome \in Outcomes
      /\ r.outcome \in Corroborated => r.head \in Observable \ {NoHead}
      /\ r.outcome \in Accepts["review"] => r.review \in (Observable \cup {snap.turn.head}) \ {NoHead}
  <2>1. PICK o \in Outcomes :
           r \in [outcome : {o}, blocked : IF o \in Successes /\ snap.stage \notin input THEN BOOLEAN ELSE {FALSE},
                  head    : IF o \in Corroborated THEN Observable \ {NoHead} ELSE {NoHead},
                  review  : IF o \in Accepts["review"] THEN (Observable \cup {snap.turn.head}) \ {NoHead} ELSE {NoHead}]
    BY <1>2 DEF Reports
  <2>2. r.outcome = o
    BY <2>1
  <2>3. r.head \in IF o \in Corroborated THEN Observable \ {NoHead} ELSE {NoHead}
    BY <2>1
  <2>4. r.review \in IF o \in Accepts["review"] THEN (Observable \cup {snap.turn.head}) \ {NoHead} ELSE {NoHead}
    BY <2>1
  <2> QED BY ONLY <2>2, <2>3, <2>4
<1>4. Observable \ {NoHead} \subseteq Heads /\ Observable \subseteq {evidence}
  BY <1>1 DEF Observable, HeadOrNone
<1>5. snap.turn.head \in HeadOrNone /\ snap.turn.id > 0 /\ snap.stage \in Stages
  <2>1. snap.turn \in Turn
    BY <1>1, SnapshotFields
  <2>2. snap.turn.head \in HeadOrNone
    BY <2>1 DEF Turn, HeadOrNone
  <2> QED BY <1>1, <1>2, <2>2, ActiveFacts
<1>6. Publishes => opened.head \in Heads
  <2>1. Publishes => opened.turn = snap.turn.id
    BY DEF Publishes
  <2>2. snap.turn.id # 0
    BY <1>5
  <2> QED BY <1>1, <2>1, <2>2
<1> DEFINE outcome == Fenced(r.outcome, r.blocked)
<1>7. /\ e.kind = "TURN_SETTLED" /\ e.revision = snap.revision /\ e.turn = snap.turn /\ e.outcome = outcome
      /\ e.pr = IF r.outcome \in Corroborated THEN Proposal ELSE NoPR
      /\ e.head = IF r.outcome \in Corroborated THEN r.head ELSE NoHead
      /\ e.existingReview = FALSE /\ e.handoff = "" /\ e.pending = PendingEvents(snap.turn.id)
  BY DEF SettlementOf, TurnSettled
<1>8. /\ e.review = IF outcome \in Accepts["review"]
                    THEN [id |-> 1, pr |-> Proposal, head |-> r.review, authorized |-> TRUE] ELSE NoReview
      /\ e.publication = IF Publishes THEN Proposal ELSE NoPR
      /\ e.publicationHead = IF Publishes THEN opened.head ELSE NoHead
      /\ e.inputPending = (snap.stage \in input)
  BY DEF SettlementOf, TurnSettled
<1>9. e.pending.some = (Backlog(snap.turn.id) # <<>>)
  <2>1. PendingEvents(snap.turn.id).some = (Backlog(snap.turn.id) # <<>>)
    BY Zenon DEF PendingEvents
  <2> HIDE DEF e
  <2> QED BY <1>7, <2>1
<1>10. outcome \in {r.outcome, "CLARIFICATION_WAIT"}
  BY DEF Fenced
<1> HIDE DEF e, outcome
<1>11. (e.review.pr = Proposal /\ e.review.head = r.review /\ e.review.authorized = TRUE) \/ outcome \notin Accepts["review"]
  <2> DEFINE v == [id |-> 1, pr |-> Proposal, head |-> r.review, authorized |-> TRUE]
  <2>1. v.pr = Proposal /\ v.head = r.review /\ v.authorized = TRUE
    OBVIOUS
  <2>2. e.review = IF outcome \in Accepts["review"] THEN v ELSE NoReview
    BY <1>8
  <2> HIDE DEF v
  <2> QED BY <2>1, <2>2
<1>12. Accepts["review"] = {"CHANGES_REQUESTED", "APPROVED"}
  BY DEF Accepts
<1>13. Corroborated = {"CHANGE_PROPOSAL_READY", "CHANGES_REQUESTED", "APPROVED"}
  BY DEF Corroborated, Successes
<1>14. outcome \in Accepts[snap.stage] \cup {"CLARIFICATION_WAIT", "BLOCKED", "INFRASTRUCTURE_FAILED"}
  BY <1>3, <1>10 DEF Outcomes
<1>15. outcome \in Corroborated => r.outcome = outcome /\ e.pr = Proposal /\ e.head = r.head /\ r.head \in Observable \ {NoHead}
  BY <1>3, <1>7, <1>10, <1>13
<1>16. \/ e.pr = NoPR /\ e.head = NoHead
       \/ e.pr = Proposal /\ e.head \in Heads
  BY <1>3, <1>4, <1>7
<1>17. outcome \in Accepts["review"] => e.review.pr = Proposal /\ e.review.head \in Heads /\ e.review.authorized = TRUE
  <2>1. outcome \in Accepts["review"] => r.review \in (Observable \cup {snap.turn.head}) \ {NoHead}
    BY <1>3, <1>10, <1>12
  <2>2. outcome \in Accepts["review"] => r.review \in Heads
    BY <1>4, <1>5, <2>1 DEF HeadOrNone
  <2> QED BY <1>11, <2>2
<1>18. e.publication = NoPR \/ (e.publication = Proposal /\ e.publicationHead \in Heads)
  BY <1>6, <1>8
<1>19. SettlementEvent(snap, e, Proposal)
  <2>0. e.pr # NoPR \/ e.publication # NoPR => snap.stage # "planning"
    <3>1. Accepts["planning"] = {"PLANNING_READY"}
      BY DEF Accepts
    <3>2. r.outcome \in Corroborated => snap.stage # "planning"
      BY <1>3, <1>13, <3>1 DEF Outcomes
    <3>3. Publishes => snap.stage # "planning"
      <4>1. snap.turn.stage = snap.stage
        BY <1>1, <1>2, ActiveFacts
      <4> QED BY <4>1 DEF Publishes
    <3> QED BY <1>7, <1>8, <3>2, <3>3
  <2>1. outcome \in {"CHANGE_PROPOSAL_READY", "CHANGES_REQUESTED", "APPROVED"} => e.pr = Proposal
    BY <1>13, <1>15
  <2>2. e.pending.some \in BOOLEAN /\ e.inputPending \in BOOLEAN
    BY <1>8, <1>9
  <2> QED BY <1>7, <1>14, <1>16, <1>17, <1>18, <2>0, <2>1, <2>2, Zenon DEF SettlementEvent
<1>20. outcome = "APPROVED" => e.head = evidence
  BY <1>4, <1>13, <1>15
<1>21. e.outcome = "APPROVED" => e.head = evidence
  BY <1>7, <1>20
<1> QED BY <1>2, <1>8, <1>9, <1>19, <1>21 DEF e

\* The settlement of a turn preserves the invariant: its backlog is handed over, its evidence covered, its verdict counted.
LEMMA SettleInvariant ==
    ASSUME Inv, NEW r \in Reports, SettleAgentTurn(r) PROVE Inv'
<1> DEFINE e == SettlementOf(r)
           d == Reduce(snap, e)
           job == [turn |-> snap.turn.id, attempt |-> snap.attempt, fallback |-> d.effects.intent.stage,
                   revision |-> d.snap.revision, edges |-> IF Publishes THEN opened.edges ELSE {}]
<1>1. /\ TypeOK /\ SnapshotSound /\ TurnSound /\ PreparationSound /\ PushesSound /\ EvidenceCovered
      /\ OneAuthority /\ DeferredEventsHeld /\ VerdictsHold
  BY DEF Inv
<1>2. /\ snap \in Snapshot /\ ValidSnapshot(snap) /\ Headed(snap) /\ snap.pr \in {NoPR, Proposal} /\ Proposal \in PRs
      /\ deferred \in Seq(Held) /\ turns \in Nat
  BY <1>1, WorkItemAssumption DEF TypeOK, SnapshotSound
<1>3. /\ HasTurn(snap) /\ snap.state \in ActiveStates
      /\ SettlementEvent(snap, e, Proposal)
      /\ e.outcome = "APPROVED" => e.head = evidence
      /\ e.pending.some = (Backlog(snap.turn.id) # <<>>)
  BY ReportEvent
<1>4. /\ d.disposition = "APPLIED" /\ HandsOver(d, e.pending) /\ snap' = d.snap
      /\ PersistTurnIntent(d)
      /\ reconciles' = IF d.effects.intent.kind # "reconcile" THEN reconciles ELSE reconciles \cup {job}
      /\ planned' = (planned \/ e.outcome = "PLANNING_READY")
      /\ verdict' = IF d.effects.review # "ACCEPTED" THEN verdict
                    ELSE [count |-> verdict.count + 1,
                          approved |-> IF e.outcome = "APPROVED" THEN snap.turn.head ELSE verdict.approved]
      /\ UNCHANGED <<input, assigned, barrier, deferred, failures, stopped, remote, opened, inbox, evidence, turns, events>>
  BY DEF SettleAgentTurn, github
<1> HIDE DEF e
<1>5. /\ d.snap \in Snapshot /\ ValidSnapshot(d.snap) /\ d.snap.revision = snap.revision + 1
      /\ Settled(snap, e, Proposal, d.snap, d.effects)
  BY <1>2, <1>3, <1>4, SettlementReduced
<1> DEFINE intent == d.effects.intent
<1>6. /\ snap' \in Snapshot /\ ValidSnapshot(snap') /\ snap'.revision = snap.revision + 1
      /\ snap'.attempt = snap.attempt /\ snap'.turn = NoTurn /\ snap'.stage \in Stages
      /\ snap'.pr \in {NoPR, Proposal} /\ Headed(snap')
      /\ snap'.state = "PR_READY" \/ snap'.waiting = snap.waiting \/ snap'.state \in ActiveStates
      /\ intent.stage \in Stages \cup {""}
      /\ intent.kind = "turn" => snap'.state \in ActiveStates /\ intent.stage = snap'.stage /\ intent.head = snap'.head
  BY <1>4, <1>5 DEF Settled
<1>7. /\ snap'.state = "PR_READY" =>
            /\ e.outcome = "APPROVED" /\ d.effects.review = "ACCEPTED" /\ snap'.stage = "review" /\ snap'.waiting = snap.waiting
            /\ snap'.ready = snap.turn.head /\ snap'.ready = e.head
      /\ snap'.usage = IF d.effects.review = "ACCEPTED" THEN snap.usage + 1 ELSE snap.usage
  BY <1>4, <1>5 DEF Settled
<1>8. job.turn = snap.turn.id /\ job.attempt = snap.attempt /\ job.fallback = intent.stage /\ job.revision = snap'.revision
      /\ job.edges = IF Publishes THEN opened.edges ELSE {}
  BY <1>4
<1>9. snap.turn.id \in 1..turns /\ snap.turn.id \notin stopped /\ snap.turn.id \in Nat /\ snap.turn.id > 0
      /\ prepare = NoPrepare /\ ~snap.waiting
  <2>1. snap.turn.id \in 1..turns /\ snap.turn.id \notin stopped /\ prepare = NoPrepare /\ ~snap.waiting
    BY <1>1, <1>3 DEF TurnSound, OneAuthority
  <2> QED BY ONLY <1>2, <2>1
<1>10. snap'.revision \in Nat /\ snap.attempt \in Nat /\ snap'.revision >= snap.revision /\ snap'.head \in HeadOrNone
  <2>1. snap.revision \in Nat /\ snap.attempt \in Nat /\ snap'.head \in HeadOrNone
    BY <1>2, <1>6, SnapshotFields
  <2>2. snap'.revision = snap.revision + 1
    BY <1>6
  <2> QED BY ONLY <2>1, <2>2
<1>11. job \in [turn : Nat, attempt : Nat, fallback : Stages \cup {""}, revision : Nat, edges : SUBSET Edges] /\ IsFiniteSet(job.edges)
  <2>1. IsFiniteSet(opened.edges) /\ opened.edges \subseteq Edges
    BY <1>1 DEF TypeOK
  <2>2. (IF Publishes THEN opened.edges ELSE {}) \subseteq Edges /\ IsFiniteSet(IF Publishes THEN opened.edges ELSE {})
    BY <2>1, FS_EmptySet
  <2>3. d.effects.intent.stage \in Stages \cup {""} /\ d.snap.revision \in Nat
    BY <1>4, <1>6, <1>10
  <2> HIDE DEF d
  <2> QED BY <1>9, <1>10, <2>2, <2>3
<1>12. prepare' \in Preparations /\ (prepare' # NoPrepare => Fits(prepare', snap'))
  <2>1. CASE intent.kind # "turn"
    <3>1. prepare' = prepare
      BY <1>4, <2>1 DEF PersistTurnIntent
    <3> QED BY <1>9, <3>1, NoPrepareType
  <2>2. CASE intent.kind = "turn"
    <3>1. prepare' = Preparation(snap', snap'.attempt, intent)
      BY <1>4, <2>2 DEF PersistTurnIntent
    <3> DEFINE p == Preparation(snap', snap'.attempt, EnqueueTurn(snap'.stage, intent.purpose, snap'.head))
    <3>2. prepare' = p
      BY <1>6, <2>2, <3>1 DEF Preparation, EnqueueTurn
    <3> HIDE DEF d
    <3>3. Fits(p, snap')
      BY <1>6, <2>2, PreparationFits
    <3>4. p \in Preparations
      <4>1. EnqueueTurn(snap'.stage, intent.purpose, snap'.head).stage \in Stages \cup {""}
            /\ EnqueueTurn(snap'.stage, intent.purpose, snap'.head).head \in HeadOrNone
        BY <1>6, <1>10 DEF EnqueueTurn
      <4>2. snap'.attempt \in Nat
        BY <1>6, <1>10
      <4> QED BY <1>6, <4>1, <4>2, PreparationType
    <3> QED BY <3>2, <3>3, <3>4
  <2> QED BY <2>1, <2>2
<1> HIDE DEF job, d, intent
<1>13. verdict' \in [count : Nat, approved : HeadOrNone]
  <2>1. verdict \in [count : Nat, approved : HeadOrNone]
    BY <1>1 DEF TypeOK
  <2>2. snap.turn.head \in HeadOrNone
    <3>1. snap.turn \in Turn
      BY <1>2, SnapshotFields
    <3> QED BY <3>1 DEF Turn, HeadOrNone
  <2>3. verdict.count + 1 \in Nat /\ verdict.approved \in HeadOrNone
    BY <2>1
  <2> QED BY <1>4, <2>1, <2>2, <2>3
<1>14. TypeOK'
  <2>1. \A q \in reconciles' : q \in [turn : Nat, attempt : Nat, fallback : Stages \cup {""}, revision : Nat, edges : SUBSET Edges]
                               /\ IsFiniteSet(q.edges)
    <3>1. \A q \in reconciles : q \in [turn : Nat, attempt : Nat, fallback : Stages \cup {""}, revision : Nat, edges : SUBSET Edges]
                                /\ IsFiniteSet(q.edges)
      BY <1>1 DEF TypeOK
    <3>2. reconciles' \subseteq reconciles \cup {job}
      BY <1>4
    <3> QED BY ONLY <1>11, <3>1, <3>2
  <2>2. planned' \in BOOLEAN
    BY <1>1, <1>4 DEF TypeOK
  <2> QED BY <1>1, <1>4, <1>6, <1>12, <1>13, <2>1, <2>2 DEF TypeOK, Preparations
<1>15. SnapshotSound'
  <2>1. snap'.state = "PR_READY" => snap'.stage = "review" /\ ~snap'.waiting
    BY <1>7, <1>9
  <2> QED BY <1>6, <2>1 DEF SnapshotSound
<1>16. PreparationSound'
  BY <1>12 DEF PreparationSound
<1>17. TurnSound' /\ EvidenceCovered' /\ OneAuthority' /\ PushesSound'
  <2>1. \A q \in reconciles' : q \in reconciles \/ (q.turn \in 1..turns /\ q.revision <= snap'.revision)
    <3>1. \A q \in reconciles' : q \in reconciles \/ q = job
      BY <1>4
    <3>2. job.turn \in 1..turns /\ job.revision <= snap'.revision
      BY <1>8, <1>9, <1>10
    <3> QED BY <3>1, <3>2
  <2> QED BY <1>4, <1>6, <1>10, <2>1, TurnlessParts
<1>18. DeferredEventsHeld'
  <2> SUFFICES ASSUME NEW n \in DOMAIN deferred
               PROVE  \/ deferred[n].turn \in failures \/ deferred[n].turn \in stopped
                      \/ \E q \in reconciles' : q.turn = deferred[n].turn
    BY <1>4 DEF DeferredEventsHeld
  <2>1. CASE deferred[n].turn # snap.turn.id
    <3>1. reconciles \subseteq reconciles'
      BY <1>4
    <3> QED BY <1>1, <2>1, <3>1 DEF DeferredEventsHeld
  <2>2. CASE deferred[n].turn = snap.turn.id
    <3>1. Backlog(snap.turn.id) # <<>>
      BY <1>2, <2>2, BacklogEntries
    <3>2. d.effects.intent.kind = "reconcile"
      BY <1>3, <1>4, <3>1 DEF HandsOver
    <3> QED BY <1>4, <1>8, <2>2, <3>2
  <2> QED BY <2>1, <2>2
<1>19. ReadyHeadWasApproved'
  <2>1. snap'.state = "PR_READY" => verdict'.approved = snap.turn.head
    BY <1>4, <1>7
  <2> QED BY <1>7, <2>1 DEF ReadyHeadWasApproved
<1>20. ReadinessIsRevoked'
  <2> SUFFICES ASSUME snap'.state = "PR_READY", snap'.ready # remote
               PROVE  \/ \E edge \in inbox : edge.previous = snap'.ready
                      \/ \E i \in DOMAIN deferred : deferred[i].event.previous = snap'.ready /\ deferred[i].turn \notin stopped
    BY <1>4 DEF ReadinessIsRevoked
  <2>1. snap'.ready = evidence /\ evidence # remote
    BY <1>3, <1>7
  <2>2. evidence # NoHead
    BY <1>6, <2>1, ReadyFacts DEF ValidChangeProposal
  <2> QED BY <1>1, <1>3, <1>9, <2>1, <2>2 DEF EvidenceCovered
<1>21. ReviewBudgetHolds'
  <2>1. snap.usage = verdict.count /\ verdict.count \in Nat
    <3>1. HasAttempt(snap)
      BY <1>2, <1>3, ActiveFacts
    <3> QED BY <1>1, <3>1 DEF VerdictsHold, ReviewBudgetHolds, TypeOK
  <2>2. snap'.usage = verdict'.count
    <3>1. CASE d.effects.review = "ACCEPTED"
      <4>1. verdict'.count = verdict.count + 1 /\ snap'.usage = snap.usage + 1
        BY <1>4, <1>7, <3>1
      <4> QED BY ONLY <2>1, <4>1
    <3>2. CASE d.effects.review # "ACCEPTED"
      BY <1>4, <1>7, <2>1, <3>2
    <3> QED BY <3>1, <3>2
  <2>3. HasAttempt(snap') => snap'.usage <= ReviewLimit
    <3>1. snap' # Absent
      <4>1. Absent.stage = "" /\ "" \notin Stages
        BY DEF Absent, Stages
      <4> QED BY <1>6, <4>1
    <3> QED BY <1>6, <3>1 DEF ValidSnapshot, ValidAttempt
  <2> QED BY <2>2, <2>3 DEF ReviewBudgetHolds, HasAttempt
<1>22. VerdictsHold'
  BY <1>19, <1>20, <1>21 DEF VerdictsHold
<1> QED BY <1>14, <1>15, <1>16, <1>17, <1>18, <1>22 DEF Inv

-----------------------------------------------------------------------------
(* The theorems.                                                           *)

\* The webhooks of an issue are handled as HandledInvariant supposes.
LEMMA ExternalHandled ==
    ASSUME Inv, NEW c \in External, ApplyWorkflowEvent(c) PROVE Sound(c) /\ Handled(c)
<1>1. c.kind \in {"TRIGGER", "ISSUE_CLOSED", "ISSUE_REOPENED", "REVIEW_OBSERVED"} /\ c.planningOnly \in BOOLEAN
      /\ c.previous = NoHead /\ c.head = NoHead /\ c = [kind |-> c.kind, planningOnly |-> c.planningOnly, previous |-> NoHead, head |-> NoHead]
  <2>1. \A p \in Activations : p \in BOOLEAN
    BY WorkItemAssumption
  <2>2. CASE \E p \in Activations : c = [Plain("TRIGGER") EXCEPT !.planningOnly = p]
    BY <2>1, <2>2 DEF Plain
  <2>3. CASE \E k \in {"ISSUE_CLOSED", "ISSUE_REOPENED", "REVIEW_OBSERVED"} : c = Plain(k)
    BY <2>3 DEF Plain
  <2> QED BY <2>2, <2>3 DEF External
<1>2. c \in Event
  BY <1>1 DEF Event, Kinds, HeadOrNone
<1>3. Sound(c)
  BY <1>1, <1>2 DEF Sound
<1>4. events' \in Nat
  <2>1. events \in Nat
    BY DEF Inv, TypeOK
  <2>2. events' = events + 1
    BY DEF ApplyWorkflowEvent, Happens
  <2> QED BY ONLY <2>1, <2>2
<1>5. Handled(c)
  BY <1>4 DEF ApplyWorkflowEvent, Handled, github
<1> QED BY <1>3, <1>5

\* So are the webhooks of pushes.
LEMMA PushHandled ==
    ASSUME Inv, NEW edge \in inbox, ProcessPush(edge) PROVE Sound(Synchronized(edge)) /\ Handled(Synchronized(edge))
<1> DEFINE c == Synchronized(edge)
<1>1. edge \in Edges /\ edge.previous # edge.head /\ events \in Nat
  BY DEF Inv, TypeOK, PushesSound
<1>2. edge.previous \in Heads /\ edge.head \in Heads
  BY <1>1 DEF Edges
<1>3. Plain("SYNCHRONIZATION") \in Event /\ Plain("SYNCHRONIZATION").kind = "SYNCHRONIZATION"
  BY DEF Plain, Event, Kinds, HeadOrNone
<1>4. c.kind = "SYNCHRONIZATION" /\ c.previous = edge.previous /\ c.head = edge.head
  BY <1>3 DEF Synchronized, Event
<1>5. c \in Event
  BY <1>2, <1>3 DEF Synchronized, Event, HeadOrNone
<1> HIDE DEF c
<1>6. Sound(c)
  BY <1>1, <1>2, <1>4, <1>5, AbsentAssumption DEF Sound
<1>7. Handled(c)
  <2>1. inbox' = inbox \ {edge} /\ events' = events
    BY DEF ProcessPush
  <2>2. inbox' \subseteq inbox /\ \A q \in inbox \ inbox' : q = edge
    BY <2>1
  <2>3. events' \in Nat
    BY <1>1, <2>1
  <2> QED BY <1>4, <2>2, <2>3 DEF ProcessPush, Handled, c
<1> QED BY <1>6, <1>7 DEF c

\* A Work Item nobody has labelled.
LEMMA InitInvariant == Init => Inv
<1> SUFFICES ASSUME Init PROVE Inv
  OBVIOUS
<1>1. Absent \in Snapshot /\ ValidSnapshot(Absent)
  BY DEF Absent, Snapshot, ValidSnapshot, States, AttemptStates, ActiveStates, Stages, Turn, NoTurn
<1>2. Absent.turn = NoTurn /\ Absent.state = "ABSENT" /\ Absent.pr = NoPR /\ Absent.head = NoHead /\ Absent.stage = ""
  BY DEF Absent
<1>3. snap = Absent /\ deferred = <<>> /\ reconciles = {} /\ inbox = {} /\ failures = {} /\ stopped = {}
      /\ prepare = NoPrepare /\ opened = NoOpened /\ verdict = NoVerdict /\ remote = NoHead /\ evidence = NoHead /\ turns = 0 /\ events = 0
      /\ planned = FALSE /\ assigned = FALSE /\ input = {} /\ barrier = "NONE"
  BY DEF Init
<1>4. deferred \in Seq(Held) /\ DOMAIN deferred = {}
  BY <1>3
<1>5. opened \in [turn : Nat, head : HeadOrNone, edges : SUBSET Edges] /\ IsFiniteSet(opened.edges) /\ opened.turn = 0
      /\ verdict \in [count : Nat, approved : HeadOrNone]
  BY <1>3, FS_EmptySet DEF NoOpened, NoVerdict, HeadOrNone
<1>6. TypeOK
  BY <1>1, <1>3, <1>4, <1>5, NoPrepareType DEF TypeOK, HeadOrNone, Preparations
<1>7. SnapshotSound /\ PreparationSound
  BY <1>1, <1>2, <1>3 DEF SnapshotSound, PreparationSound, Headed, HasProposal
<1>8. TurnSound /\ PushesSound /\ EvidenceCovered /\ OneAuthority /\ DeferredEventsHeld
  BY <1>2, <1>3, <1>4 DEF TurnSound, PushesSound, EvidenceCovered, OneAuthority, DeferredEventsHeld, HasTurn
<1>9. VerdictsHold
  BY <1>2, <1>3 DEF VerdictsHold, ReadyHeadWasApproved, ReadinessIsRevoked, ReviewBudgetHolds, HasAttempt
<1> QED BY <1>6, <1>7, <1>8, <1>9 DEF Inv

\* A step of something else.
LEMMA StutterInvariant == ASSUME Inv, UNCHANGED vars PROVE Inv'
<1>1. UNCHANGED <<snap, planned, input, assigned, barrier, deferred, prepare, reconciles, failures, stopped,
                  remote, opened, inbox, evidence, turns, verdict, events>>
  BY DEF vars
<1>2. TypeOK' /\ SnapshotSound' /\ TurnSound' /\ PreparationSound'
  BY <1>1 DEF Inv, TypeOK, SnapshotSound, TurnSound, PreparationSound
<1>3. PushesSound' /\ EvidenceCovered' /\ OneAuthority' /\ DeferredEventsHeld'
  BY <1>1 DEF Inv, PushesSound, EvidenceCovered, OneAuthority, DeferredEventsHeld, IsPush
<1>4. VerdictsHold'
  BY <1>1 DEF Inv, VerdictsHold, ReadyHeadWasApproved, ReadinessIsRevoked, ReviewBudgetHolds
<1> QED BY <1>2, <1>3, <1>4 DEF Inv

\* Every step preserves the invariant.
LEMMA NextInvariant == ASSUME Inv, Next PROVE Inv'
<1>1. ASSUME NEW c \in External, ApplyWorkflowEvent(c) PROVE Inv'
  BY <1>1, ExternalHandled, HandledInvariant
<1>2. ASSUME NEW edge \in inbox, ProcessPush(edge) PROVE Inv'
  BY <1>2, PushHandled, HandledInvariant
<1>3. ASSUME Quiet PROVE Inv'
  BY <1>3, QuietInvariant
<1>4. ASSUME PrepareAgentTurn PROVE Inv'
  BY <1>4, PrepareInvariant
<1>5. ASSUME NEW kind \in PreparationReports, PreparationFails(kind) PROVE Inv'
  BY <1>5, FailsInvariant
<1>6. ASSUME NEW r \in Reports, SettleAgentTurn(r) PROVE Inv'
  BY <1>6, SettleInvariant
<1>7. ASSUME NEW r \in reconciles, ReconcilePendingEvents(r) PROVE Inv'
  BY <1>7, ReconcileInvariant
<1>8. ASSUME NEW f \in failures, EscalateWorkflowActionFailure(f) PROVE Inv'
  BY <1>8, EscalateInvariant
<1>9. ASSUME CompleteClosureSettlement PROVE Inv'
  BY <1>9, CompleteInvariant
<1> QED BY <1>1, <1>2, <1>3, <1>4, <1>5, <1>6, <1>7, <1>8, <1>9
        DEF Next, Quiet, Settle, Reconcile, Escalate, Webhook

\* The inductive invariant holds for every number of events, heads and activations, label during a turn and lost
\* leases included: Snapshot, turn, jobs, deferred events, pushes and verdicts together.
THEOREM Invariance == Spec => []Inv
<1>1. Init => Inv
  BY InitInvariant
<1>2. Inv /\ [Next]_vars => Inv'
  BY NextInvariant, StutterInvariant
<1> QED BY <1>1, <1>2, PTL DEF Spec

\* A ready commit is the one an approving Reviewer was given, it is revoked by the push that replaces it, and the
\* review budget counts the accepted reviews (ReduceReviewSettled, persistAppliedSettlementDecision, the replay).
THEOREM Verdicts == Spec => []VerdictsHold
<1>1. Inv => VerdictsHold
  BY DEF Inv
<1> QED BY <1>1, Invariance, PTL

\* No deferred event is forgotten: it has its turn, its RECONCILE or its failure, unless a closure ended its turn
\* (resolveSettlementActionJobs, requestWorkflowActionFailureEscalationTx).
THEOREM EventsHeld == Spec => []DeferredEventsHeld
<1>1. Inv => DeferredEventsHeld
  BY DEF Inv
<1> QED BY <1>1, Invariance, PTL

\* A PREPARE of the current revision passes the head fence of its own claim (lockPreparationWorkflow).
THEOREM CurrentIsUsable == Spec => []CurrentPreparationIsUsable
<1>1. Inv => CurrentPreparationIsUsable
  BY DEF Inv, CurrentPreparationIsUsable, PreparationSound, Current, Bound, HeadFenced, Fits
<1> QED BY <1>1, Invariance, PTL

-----------------------------------------------------------------------------
(* Work always has an authority.                                           *)

\* What holds besides while nobody adds a label during a turn and no usable PREPARE loses its lease.
Authority ==
    /\ \A i \in DOMAIN deferred : deferred[i].event.kind # "TRIGGER"
    /\ \A r \in reconciles :
          r.revision = snap.revision => r.attempt = snap.attempt /\ (snap.state \in ActiveStates => r.fallback # "")
    /\ prepare # NoPrepare => snap.state \in ActiveStates \cup {"CLOSING"} /\ (snap.state \in ActiveStates => Usable)
    /\ ActiveWorkHasAuthority

\* What makes a PREPARE usable.
LEMMA UsableNext ==
    ASSUME snap' \in Snapshot, ValidSnapshot(snap'), snap'.state \in ActiveStates, snap'.turn = NoTurn, prepare' # NoPrepare,
           prepare'.attempt = snap'.attempt, prepare'.stage = snap'.stage,
           IF prepare'.revision = snap'.revision THEN Fits(prepare', snap') ELSE HasProposal(snap')
    PROVE  Usable'
<1>1. snap'.status = "ACTIVE" /\ snap'.runtime = "ACTIVE" /\ ~HasTurn(snap')
  BY ActiveFacts DEF HasTurn
<1>2. Bound'
  BY <1>1 DEF Bound
<1>3. CASE prepare'.revision = snap'.revision
  BY <1>2, <1>3 DEF Usable, Current, HeadFenced, Fits
<1>4. CASE prepare'.revision # snap'.revision
  BY <1>2, <1>4 DEF Usable, Refreshable
<1> QED BY <1>3, <1>4

\* The RECONCILE jobs a new revision leaves behind are not those of the Workflow as it is.
LEMMA RevisionsPass ==
    ASSUME Inv, snap'.revision = snap.revision + 1, NEW r \in reconciles PROVE r.revision # snap'.revision
<1>1. snap.revision \in Nat /\ r.revision \in Nat /\ r.revision <= snap.revision
  BY SnapshotFields DEF Inv, TypeOK, TurnSound
<1> QED BY ONLY <1>1, snap'.revision = snap.revision + 1

\* The steps that leave the Snapshot alone keep the authority: a PREPARE is enqueued, kept or refreshed, or a
\* failure takes the place of a RECONCILE.
LEMMA QuietAuthority ==
    ASSUME Inv, Authority, ~PreparationLost, Quiet, Inv' PROVE Authority'
<1>1. snap' = snap /\ deferred' = deferred
  BY QuietKeeps
<1>2. reconciles' \subseteq reconciles /\ failures \subseteq failures' /\ input \subseteq input'
  BY DEF Quiet, Push, PushTo, OpenProposal, Publish, AdmitHumanInput, ExhaustEffect, ObservePreparation, RefreshPreparation,
         LosePreparation, Corroborate, AcknowledgeClosureTurnStopped, GiveUpReconciliation, people, jobs
<1>3. /\ \A i \in DOMAIN deferred' : deferred'[i].event.kind # "TRIGGER"
      /\ \A r \in reconciles' :
            r.revision = snap'.revision => r.attempt = snap'.attempt /\ (snap'.state \in ActiveStates => r.fallback # "")
  BY <1>1, <1>2 DEF Authority
<1>4. snap \in Snapshot /\ ValidSnapshot(snap) /\ prepare \in Preparations /\ PreparationSound'
  BY DEF Inv, TypeOK, SnapshotSound, Preparations
<1>5. CASE AdmitHumanInput
  <2>1. snap.state \in ActiveStates /\ reconciles' = reconciles /\ failures' = failures
        /\ prepare' = IF HasTurn(snap) \/ prepare # NoPrepare THEN prepare
                      ELSE Preparation(snap, snap.attempt, EnqueueTurn(snap.stage, "REACTIVATION", snap.head))
    BY <1>5 DEF AdmitHumanInput
  <2>2. CASE HasTurn(snap)
    <3>1. prepare' = NoPrepare
      BY <2>1, <2>2 DEF Inv, OneAuthority
    <3> QED BY <1>1, <1>3, <2>2, <3>1 DEF Authority, ActiveWorkHasAuthority
  <2>3. CASE ~HasTurn(snap) /\ prepare # NoPrepare
    <3>1. Usable' /\ prepare' = prepare
      BY <1>1, <2>1, <2>3 DEF Authority, Usable, Refreshable, Current, Bound, HeadFenced
    <3> QED BY <1>1, <1>3, <2>1, <3>1 DEF Authority, ActiveWorkHasAuthority, MovesOn
  <2>4. CASE ~HasTurn(snap) /\ prepare = NoPrepare
    <3>1. prepare' = Preparation(snap, snap.attempt, EnqueueTurn(snap.stage, "REACTIVATION", snap.head))
      BY <2>1, <2>4
    <3>2. prepare' # NoPrepare /\ prepare'.stage = snap.stage /\ prepare'.attempt = snap.attempt
          /\ prepare'.revision = snap.revision /\ Fits(prepare', snap)
      <4>1. Headed(snap)
        BY DEF Inv, SnapshotSound
      <4> QED BY <1>4, <2>1, <3>1, <4>1, PreparationFits
    <3>3. Usable'
      BY <1>1, <1>4, <2>1, <2>4, <3>2, UsableNext DEF HasTurn
    <3> QED BY <1>1, <1>3, <2>1, <3>3 DEF Authority, ActiveWorkHasAuthority, MovesOn
  <2> QED BY <2>2, <2>3, <2>4
<1>6. CASE LosePreparation
  <2>1. prepare # NoPrepare /\ ~Usable /\ prepare' = NoPrepare
    BY <1>6 DEF LosePreparation
  <2>2. snap.state \notin ActiveStates
    BY <2>1 DEF Authority
  <2> QED BY <1>1, <1>3, <2>1, <2>2 DEF Authority, ActiveWorkHasAuthority
<1>7. CASE ObservePreparation \/ RefreshPreparation
  <2>1. prepare # NoPrepare /\ reconciles' = reconciles /\ failures' = failures /\ input' = input
    BY <1>7 DEF ObservePreparation, RefreshPreparation, Refreshable, Bound, people
  <2>2. /\ prepare'.attempt = prepare.attempt /\ prepare'.stage = prepare.stage
        /\ prepare'.revision \in {prepare.revision, snap.revision}
    <3>1. CASE ObservePreparation
      BY <1>4, <3>1 DEF ObservePreparation, Preparations
    <3>2. CASE RefreshPreparation
      BY <1>4, <3>2 DEF RefreshPreparation, Preparations
    <3> QED BY <1>7, <3>1, <3>2
  <2>3. snap.state \in ActiveStates => Usable'
    <3> SUFFICES ASSUME snap.state \in ActiveStates PROVE Usable'
      OBVIOUS
    <3>1. Usable
      BY <2>1 DEF Authority
    <3>2. snap.turn = NoTurn /\ prepare.attempt = snap.attempt /\ prepare.stage = snap.stage
      BY <3>1 DEF Usable, Refreshable, Current, Bound, HasTurn
    <3>3. prepare.revision # snap.revision => HasProposal(snap)
      BY <3>1 DEF Usable, Refreshable, Current
    <3>4. prepare' # NoPrepare
      <4>1. snap.stage \in Stages /\ NoPrepare.stage = "" /\ "" \notin Stages
        BY <1>4, ActiveFacts DEF NoPrepare, Stages
      <4> QED BY <2>2, <3>2, <4>1
    <3>5. Fits(prepare', snap')
      BY <1>4, <3>4 DEF PreparationSound
    <3> QED BY <1>1, <1>4, <2>2, <3>2, <3>3, <3>4, <3>5, UsableNext
  <2>4. prepare' # NoPrepare => snap'.state \in ActiveStates \cup {"CLOSING"} /\ (snap'.state \in ActiveStates => Usable')
    BY <1>1, <2>1, <2>3 DEF Authority
  <2>5. ActiveWorkHasAuthority'
    BY <1>1, <2>3 DEF ActiveWorkHasAuthority, MovesOn
  <2> QED BY <1>3, <2>4, <2>5 DEF Authority
<1>8. CASE \E r \in reconciles : GiveUpReconciliation(r)
  <2>1. prepare' = prepare /\ failures' # {}
    BY <1>8 DEF GiveUpReconciliation
  <2>2. Usable' <=> Usable
    BY <1>1, <2>1 DEF Usable, Refreshable, Current, Bound, HeadFenced
  <2> QED BY <1>1, <1>3, <2>1, <2>2 DEF Authority, ActiveWorkHasAuthority, MovesOn
<1>9. CASE (\E h \in Heads : Push(h) \/ OpenProposal(h) \/ Publish(h)) \/ ExhaustEffect \/ Corroborate \/ AcknowledgeClosureTurnStopped
  <2>1. prepare' = prepare /\ reconciles' = reconciles /\ input' = input
    BY <1>9 DEF Push, PushTo, OpenProposal, Publish, ExhaustEffect, Corroborate, AcknowledgeClosureTurnStopped, jobs, people
  <2>2. Usable' <=> Usable
    BY <1>1, <2>1 DEF Usable, Refreshable, Current, Bound, HeadFenced
  <2> QED BY <1>1, <1>2, <1>3, <2>1, <2>2 DEF Authority, ActiveWorkHasAuthority, MovesOn
<1> QED BY <1>5, <1>6, <1>7, <1>8, <1>9 DEF Quiet

\* Webhooks keep it: a PREPARE that falls behind the Workflow stays refreshable.
LEMMA HandledAuthority ==
    ASSUME Inv, Authority, ~LabelDuringTurn, NEW c, Sound(c), Handled(c), Inv' PROVE Authority'
<1>1. WebhookApplied \/ WebhookDeferred(c) \/ WebhookDropped(c)
  BY WebhookEnds
<1>2. UNCHANGED <<reconciles, failures, input>> /\ (c.kind = "TRIGGER" /\ HasTurn(snap) => LabelDuringTurn)
  BY DEF Handled, people
<1>3. CASE WebhookApplied
  <2>1. /\ snap' \in Snapshot /\ ValidSnapshot(snap') /\ snap'.revision = snap.revision + 1
        /\ snap'.turn = snap.turn /\ snap'.waiting = snap.waiting /\ snap'.pr = snap.pr
        /\ (HasTurn(snap) => snap'.state = "CLOSING") /\ deferred' = deferred
        /\ \/ /\ prepare' \in Preparations /\ Fits(prepare', snap') /\ prepare' # NoPrepare
              /\ prepare'.stage = snap'.stage /\ prepare'.attempt = snap'.attempt /\ prepare'.revision = snap'.revision
              /\ ~HasTurn(snap) /\ snap'.state \in ActiveStates
           \/ /\ prepare' = prepare
              /\ snap'.state \in ActiveStates =>
                    HasProposal(snap) /\ snap'.state = snap.state /\ snap'.stage = snap.stage /\ snap'.attempt = snap.attempt
              /\ snap.state \in ActiveStates \cup {"CLOSING"} => snap'.state \in ActiveStates \cup {"CLOSING"}
    BY <1>3 DEF WebhookApplied
  <2>2. /\ \A i \in DOMAIN deferred' : deferred'[i].event.kind # "TRIGGER"
        /\ \A r \in reconciles' :
              r.revision = snap'.revision => r.attempt = snap'.attempt /\ (snap'.state \in ActiveStates => r.fallback # "")
    BY <1>2, <2>1, RevisionsPass DEF Authority
  <2>3. snap'.state \in ActiveStates => snap'.turn = NoTurn
    BY <2>1 DEF HasTurn, ActiveStates
  <2>4. CASE /\ prepare' \in Preparations /\ Fits(prepare', snap') /\ prepare' # NoPrepare
             /\ prepare'.stage = snap'.stage /\ prepare'.attempt = snap'.attempt /\ prepare'.revision = snap'.revision
             /\ ~HasTurn(snap) /\ snap'.state \in ActiveStates
    <3>1. Usable'
      BY <2>1, <2>3, <2>4, UsableNext
    <3> QED BY <2>2, <2>4, <3>1 DEF Authority, ActiveWorkHasAuthority, MovesOn
  <2>5. CASE /\ prepare' = prepare
             /\ snap'.state \in ActiveStates =>
                   HasProposal(snap) /\ snap'.state = snap.state /\ snap'.stage = snap.stage /\ snap'.attempt = snap.attempt
             /\ snap.state \in ActiveStates \cup {"CLOSING"} => snap'.state \in ActiveStates \cup {"CLOSING"}
    <3>1. snap'.state \in ActiveStates /\ Usable => Usable'
      <4> SUFFICES ASSUME snap'.state \in ActiveStates, Usable PROVE Usable'
        OBVIOUS
      <4>1. prepare # NoPrepare /\ prepare.attempt = snap.attempt /\ prepare.stage = snap.stage
        BY DEF Usable, Refreshable, Current, Bound
      <4>2. Fits(prepare, snap) /\ prepare.revision \in Nat /\ snap.revision \in Nat
        BY <4>1, SnapshotFields DEF Inv, PreparationSound, TypeOK
      <4>3. prepare'.revision # snap'.revision
        <5>1. prepare.revision <= snap.revision
          BY <4>2 DEF Fits
        <5>2. prepare'.revision = prepare.revision /\ snap'.revision = snap.revision + 1
          BY <2>1, <2>5
        <5> QED BY ONLY <4>2, <5>1, <5>2
      <4> QED BY <2>1, <2>3, <2>5, <4>1, <4>3, UsableNext DEF HasProposal
    <3>2. prepare' # NoPrepare => snap'.state \in ActiveStates \cup {"CLOSING"} /\ (snap'.state \in ActiveStates => Usable')
      BY <2>5, <3>1 DEF Authority
    <3>3. ActiveWorkHasAuthority'
      BY <1>2, <2>1, <2>5, <3>1 DEF Authority, ActiveWorkHasAuthority, MovesOn, HasTurn
    <3> QED BY <2>2, <3>2, <3>3 DEF Authority
  <2> QED BY <2>1, <2>4, <2>5
<1>4. CASE WebhookDeferred(c) \/ WebhookDropped(c)
  <2>1. snap' = snap /\ prepare' = prepare
    BY <1>4 DEF WebhookDeferred, WebhookDropped
  <2>2. Usable' <=> Usable
    BY <2>1 DEF Usable, Refreshable, Current, Bound, HeadFenced
  <2>3. \A i \in DOMAIN deferred' : deferred'[i].event.kind # "TRIGGER"
    <3>1. CASE WebhookDeferred(c)
      <4> DEFINE h == [turn |-> snap.turn.id, event |-> c]
      <4>1. deferred' = Append(deferred, h) /\ HasTurn(snap)
        BY <3>1 DEF WebhookDeferred
      <4>2. c.kind # "TRIGGER"
        BY <1>2, <4>1
      <4>3. h \in Held /\ h.event = c /\ deferred \in Seq(Held)
        <5>1. snap.turn.id \in Nat
          BY SnapshotFields DEF Inv, TypeOK, Turn
        <5> QED BY <5>1 DEF Held, Sound, Inv, TypeOK
      <4> HIDE DEF h
      <4>4. \A i \in DOMAIN deferred' : deferred'[i] = h \/ (i \in DOMAIN deferred /\ deferred'[i] = deferred[i])
        BY <4>1, <4>3, DeferredEntries
      <4> QED BY <4>2, <4>3, <4>4 DEF Authority
    <3>2. CASE WebhookDropped(c)
      BY <3>2 DEF WebhookDropped, Authority
    <3> QED BY <1>4, <3>1, <3>2
  <2> QED BY <1>2, <2>1, <2>2, <2>3 DEF Authority, ActiveWorkHasAuthority, MovesOn
<1> QED BY <1>1, <1>3, <1>4

\* A turn that starts takes it over.
LEMMA PrepareAuthority ==
    ASSUME Inv, Authority, PrepareAgentTurn PROVE Authority'
<1> DEFINE head == IF HasProposal(snap) THEN prepare.seen ELSE NoHead
           turn == [id |-> turns + 1, attempt |-> snap.attempt, stage |-> snap.stage, pr |-> snap.pr, head |-> head]
<1>1. snap \in Snapshot /\ turns \in Nat
  BY DEF Inv, TypeOK
<1>2. /\ snap' = Prepared(snap, turn, head) /\ prepare' = NoPrepare
      /\ UNCHANGED <<deferred, reconciles, failures>>
  BY Zenon DEF PrepareAgentTurn, Prepared
<1>3. turn.id = turns + 1
  OBVIOUS
<1> HIDE DEF turn, head
<1>4. turn # NoTurn
  <2>1. NoTurn.id = 0
    BY DEF NoTurn
  <2> QED BY ONLY <1>1, <1>3, <2>1
<1>5. snap'.turn = turn /\ snap'.state = snap.state /\ snap'.revision = snap.revision /\ snap'.attempt = snap.attempt
  BY <1>1, <1>2 DEF Prepared, Snapshot
<1> QED BY <1>2, <1>4, <1>5 DEF Authority, ActiveWorkHasAuthority, HasTurn

\* A preparation that failed for good hands it to a person.
LEMMA FailsAuthority ==
    ASSUME Inv, Authority, NEW kind \in PreparationReports, PreparationFails(kind) PROVE Authority'
<1> DEFINE e == [kind |-> kind, revision |-> snap.revision, role |-> StageRole[prepare.stage], assignmentsExist |-> assigned]
           d == Reduce(snap, e)
<1>1. /\ snap \in Snapshot /\ ValidSnapshot(snap)
  BY DEF Inv, TypeOK, SnapshotSound
<1>2. ~HasTurn(snap)
  BY DEF PreparationFails, Usable, Current, Refreshable, Bound
<1>3. d.disposition = "APPLIED" /\ snap' = d.snap /\ prepare' = NoPrepare /\ UNCHANGED <<deferred, reconciles>>
  BY DEF PreparationFails
<1>4. e.kind \in {"ASSIGNMENT_CONFIGURATION_CONFLICT", "AGENT_TURN_PREPARATION_FAILED"}
  BY DEF PreparationReports
<1> HIDE DEF e
<1>5. HandedOff(snap, d)
  BY <1>1, <1>2, <1>3, <1>4, PreparationReduced
<1> HIDE DEF d
<1>6. snap'.state = "NEEDS_HUMAN" /\ snap'.revision = snap.revision + 1
  BY <1>3, <1>5 DEF HandedOff
<1> QED BY <1>3, <1>6, RevisionsPass DEF Authority, ActiveWorkHasAuthority, ActiveStates

\* So does the escalation of a failure.
LEMMA EscalateAuthority ==
    ASSUME Inv, Authority, NEW f \in failures, EscalateWorkflowActionFailure(f) PROVE Authority'
<1> DEFINE e == [kind |-> "WORKFLOW_ACTION_EXHAUSTED", revision |-> snap.revision]
           d == Reduce(snap, e)
<1>1. /\ snap \in Snapshot /\ ValidSnapshot(snap) /\ deferred \in Seq(Held)
  BY DEF Inv, TypeOK, SnapshotSound
<1>2. /\ ~HasTurn(snap) /\ prepare = NoPrepare /\ reconciles = {} /\ snap' = d.snap
      /\ deferred' = WithoutBacklog(f) /\ prepare' = prepare /\ reconciles' = reconciles
  BY DEF EscalateWorkflowActionFailure
<1>3. e.kind = "WORKFLOW_ACTION_EXHAUSTED" /\ e.revision = snap.revision
  OBVIOUS
<1> HIDE DEF e
<1>4. IF snap.state \in AttemptStates \ {"NEEDS_HUMAN"} THEN HandedOff(snap, d) ELSE d = Rejected(snap)
  BY <1>1, <1>2, <1>3, EscalationReduced
<1> HIDE DEF d
<1>5. snap'.state \notin ActiveStates
  <2>1. CASE snap.state \in AttemptStates \ {"NEEDS_HUMAN"}
    <3>1. HandedOff(snap, d)
      BY ONLY <1>4, <2>1
    <3> QED BY <1>2, <3>1 DEF HandedOff, ActiveStates
  <2>2. CASE snap.state \notin AttemptStates \ {"NEEDS_HUMAN"}
    <3>1. d = Rejected(snap)
      BY ONLY <1>4, <2>2
    <3>2. Rejected(snap).snap = snap
      BY DEF Rejected
    <3> QED BY <1>2, <2>2, <3>1, <3>2 DEF AttemptStates, ActiveStates
  <2> QED BY <2>1, <2>2
<1>6. \A n \in DOMAIN WithoutBacklog(f) : \E i \in DOMAIN deferred : WithoutBacklog(f)[n] = deferred[i]
  BY <1>1, WithoutBacklogEntries
<1> HIDE DEF WithoutBacklog
<1> QED BY <1>2, <1>5, <1>6 DEF Authority, ActiveWorkHasAuthority

\* A closure ends the work.
LEMMA CompleteAuthority ==
    ASSUME Inv, Authority, CompleteClosureSettlement PROVE Authority'
<1> DEFINE e == [kind |-> "CLOSURE_SETTLED", revision |-> snap.revision, closure |-> snap.closure,
                 turn |-> snap.turn, assignmentsExist |-> assigned]
           d == Reduce(snap, e)
<1>1. /\ snap \in Snapshot /\ ValidSnapshot(snap)
  BY DEF Inv, TypeOK, SnapshotSound
<1>2. /\ d.disposition = "APPLIED" /\ snap' = d.snap /\ prepare' = NoPrepare /\ UNCHANGED <<deferred, reconciles>>
  BY DEF CompleteClosureSettlement
<1>3. e.kind = "CLOSURE_SETTLED"
  OBVIOUS
<1> HIDE DEF e
<1>4. d.snap.state \in {"DORMANT", "CLOSED"} /\ d.snap.revision = snap.revision + 1
  BY <1>1, <1>2, <1>3, ClosureReduced
<1> HIDE DEF d
<1>5. snap'.state \notin ActiveStates /\ snap'.revision = snap.revision + 1
  BY <1>2, <1>4 DEF ActiveStates
<1> QED BY <1>2, <1>5, RevisionsPass DEF Authority, ActiveWorkHasAuthority

\* A reconciliation passes it on to the PREPARE it ends in: nothing it replays takes the fallback away.
LEMMA ReconcileAuthority ==
    ASSUME Inv, Authority, NEW r \in reconciles, ReconcilePendingEvents(r), Inv' PROVE Authority'
<1> DEFINE end == Replay(r)
<1>1. /\ TypeOK /\ SnapshotSound /\ TurnSound /\ PushesSound /\ deferred \in Seq(Held)
      /\ snap' \in Snapshot /\ ValidSnapshot(snap') /\ PreparationSound'
  BY DEF Inv, TypeOK, SnapshotSound
<1>2. /\ Reconcilable(r) /\ Normalizes(end.snap, end.stage) /\ snap' = end.snap
      /\ prepare' = ReplayPreparation(r, end.snap, end.stage)
      /\ reconciles' = reconciles \ {r} /\ deferred' = WithoutBacklog(r.turn)
      /\ UNCHANGED <<failures, input>>
  BY DEF ReconcilePendingEvents, people
<1>3. Replaying(r, end)
  BY <1>1, <1>2, ReplayEnds
<1> HIDE DEF end
<1>4. r.revision = snap.revision /\ r.attempt = snap.attempt /\ (snap.state \in ActiveStates => r.fallback # "")
  BY <1>2 DEF Reconcilable, Authority
<1>5. end.snap.attempt = snap.attempt /\ (end.snap.state \in ActiveStates => end.stage # "")
  <2>1. \A j \in DOMAIN deferred : deferred[j].event.kind # "TRIGGER"
    BY DEF Authority
  <2> QED BY <1>3, <1>4, <2>1 DEF Replaying
<1>6. snap' = snap \/ snap'.revision > snap.revision
  BY <1>2, <1>3 DEF Replaying
<1>7. snap'.turn = NoTurn
  BY <1>2, <1>3 DEF Replaying
<1>8. \A n \in DOMAIN WithoutBacklog(r.turn) : \E i \in DOMAIN deferred : WithoutBacklog(r.turn)[n] = deferred[i]
  BY <1>1, WithoutBacklogEntries
<1> HIDE DEF WithoutBacklog
<1>9. \A i \in DOMAIN deferred' : deferred'[i].event.kind # "TRIGGER"
  BY <1>2, <1>8 DEF Authority
<1>10. \A q \in reconciles' :
          q.revision = snap'.revision => q.attempt = snap'.attempt /\ (snap'.state \in ActiveStates => q.fallback # "")
  <2> SUFFICES ASSUME NEW q \in reconciles, q.revision = snap'.revision
               PROVE  q.attempt = snap'.attempt /\ (snap'.state \in ActiveStates => q.fallback # "")
    BY <1>2
  <2>1. q.revision <= snap.revision /\ q.revision \in Nat /\ snap.revision \in Nat
    BY <1>1, SnapshotFields DEF TurnSound, TypeOK
  <2>2. ~(snap'.revision > snap.revision)
    BY ONLY <2>1, q.revision = snap'.revision
  <2>3. snap' = snap
    BY <1>6, <2>2
  <2> QED BY <2>3 DEF Authority
<1>11. CASE snap'.state \in ActiveStates
  <2>1. end.stage # "" /\ end.stage = snap'.stage
    BY <1>2, <1>5, <1>11 DEF Normalizes
  <2> DEFINE p == Preparation(snap', r.attempt, EnqueueTurn(snap'.stage, "", snap'.head))
  <2>2. prepare' = p
    BY <1>2, <1>11, <2>1 DEF ReplayPreparation
  <2>3. p.attempt = snap'.attempt /\ p.stage = snap'.stage /\ p.revision = snap'.revision
    BY <1>2, <1>4, <1>5 DEF Preparation, EnqueueTurn
  <2> HIDE DEF p
  <2>4. prepare' # NoPrepare
    <3>1. NoPrepare.stage = ""
      BY DEF NoPrepare
    <3> QED BY <2>1, <2>2, <2>3, <3>1
  <2>5. Fits(prepare', snap')
    BY <1>1, <2>4 DEF PreparationSound
  <2>6. Usable'
    BY <1>1, <1>7, <1>11, <2>2, <2>3, <2>4, <2>5, UsableNext
  <2> QED BY <1>9, <1>10, <1>11, <2>6 DEF Authority, ActiveWorkHasAuthority, MovesOn
<1>12. CASE snap'.state \notin ActiveStates
  <2>1. prepare' = NoPrepare
    BY <1>2, <1>12 DEF ReplayPreparation
  <2> QED BY <1>9, <1>10, <1>12, <2>1 DEF Authority, ActiveWorkHasAuthority
<1> QED BY <1>11, <1>12

\* The settlement of a turn passes it on to a PREPARE, to a RECONCILE with a fallback, or to the person it waits for.
LEMMA SettleAuthority ==
    ASSUME Inv, Authority, NEW r \in Reports, SettleAgentTurn(r), Inv' PROVE Authority'
<1> DEFINE e == SettlementOf(r)
           d == Reduce(snap, e)
           job == [turn |-> snap.turn.id, attempt |-> snap.attempt, fallback |-> d.effects.intent.stage,
                   revision |-> d.snap.revision, edges |-> IF Publishes THEN opened.edges ELSE {}]
<1>1. /\ snap \in Snapshot /\ ValidSnapshot(snap) /\ Headed(snap) /\ snap.pr \in {NoPR, Proposal} /\ Proposal \in PRs
      /\ PreparationSound' /\ OneAuthority
  BY WorkItemAssumption DEF Inv, TypeOK, SnapshotSound
<1>2. /\ HasTurn(snap) /\ snap.state \in ActiveStates
      /\ SettlementEvent(snap, e, Proposal)
      /\ e.inputPending = (snap.stage \in input)
  BY ReportEvent
<1>3. /\ d.disposition = "APPLIED" /\ snap' = d.snap /\ PersistTurnIntent(d)
      /\ reconciles' = IF d.effects.intent.kind # "reconcile" THEN reconciles ELSE reconciles \cup {job}
      /\ UNCHANGED <<input, deferred>>
  BY DEF SettleAgentTurn
<1> HIDE DEF e
<1>4. /\ d.snap \in Snapshot /\ ValidSnapshot(d.snap) /\ d.snap.revision = snap.revision + 1
      /\ Settled(snap, e, Proposal, d.snap, d.effects)
  BY <1>1, <1>2, <1>3, SettlementReduced
<1> DEFINE intent == d.effects.intent
<1>5. /\ snap' \in Snapshot /\ ValidSnapshot(snap') /\ snap'.revision = snap.revision + 1
      /\ snap'.attempt = snap.attempt /\ snap'.turn = NoTurn /\ snap'.stage \in Stages
      /\ intent.kind \in {"none", "turn", "reconcile"}
      /\ intent.kind = "turn" => snap'.state \in ActiveStates /\ intent.stage = snap'.stage
      /\ intent.kind = "reconcile" /\ snap'.state \in ActiveStates => intent.stage = snap'.stage
      /\ intent.kind = "none" /\ snap'.state \in ActiveStates => snap'.waiting /\ snap'.stage = snap.stage /\ ~e.inputPending
  BY <1>3, <1>4 DEF Settled
<1>6. job.attempt = snap'.attempt /\ job.fallback = intent.stage
  BY <1>5
<1>7. CASE intent.kind = "turn"
  <2>1. prepare' = Preparation(snap', snap'.attempt, intent)
    BY <1>3, <1>7 DEF PersistTurnIntent
  <2>2. prepare'.attempt = snap'.attempt /\ prepare'.stage = snap'.stage /\ prepare'.revision = snap'.revision
    BY <1>5, <1>7, <2>1 DEF Preparation
  <2> HIDE DEF d
  <2>3. prepare' # NoPrepare
    <3>1. NoPrepare.stage = "" /\ "" \notin Stages
      BY DEF NoPrepare, Stages
    <3> QED BY <1>5, <2>2, <3>1
  <2>4. Usable'
    BY <1>1, <1>5, <1>7, <2>2, <2>3, UsableNext DEF PreparationSound
  <2>5. reconciles' = reconciles
    BY <1>3, <1>7
  <2> QED BY <1>3, <1>5, <1>7, <2>4, <2>5, RevisionsPass DEF Authority, ActiveWorkHasAuthority, MovesOn
<1>8. CASE intent.kind = "reconcile"
  <2>1. reconciles' = reconciles \cup {job} /\ prepare' = prepare /\ prepare = NoPrepare
    BY <1>1, <1>2, <1>3, <1>8 DEF PersistTurnIntent, OneAuthority
  <2> HIDE DEF d, job
  <2>2. snap'.state \in ActiveStates => job.fallback # ""
    <3>1. "" \notin Stages
      BY DEF Stages
    <3> QED BY <1>5, <1>6, <1>8, <3>1
  <2>3. \A q \in reconciles' :
            q.revision = snap'.revision => q.attempt = snap'.attempt /\ (snap'.state \in ActiveStates => q.fallback # "")
    BY <1>5, <1>6, <2>1, <2>2, RevisionsPass
  <2> QED BY <1>3, <2>1, <2>3 DEF Authority, ActiveWorkHasAuthority, MovesOn
<1>9. CASE intent.kind = "none"
  <2>1. reconciles' = reconciles /\ prepare' = prepare /\ prepare = NoPrepare
    BY <1>1, <1>2, <1>3, <1>9 DEF PersistTurnIntent, OneAuthority
  <2> HIDE DEF d, job
  <2>2. ActiveWorkHasAuthority'
    BY <1>2, <1>3, <1>5, <1>9 DEF ActiveWorkHasAuthority
  <2> QED BY <1>3, <1>5, <2>1, <2>2, RevisionsPass DEF Authority
<1> QED BY <1>5, <1>7, <1>8, <1>9

\* Every step keeps the authority.
LEMMA NextAuthority ==
    ASSUME ~LabelDuringTurn, ~PreparationLost, Inv, Authority, Next, Inv' PROVE Authority'
<1>1. ASSUME NEW c \in External, ApplyWorkflowEvent(c) PROVE Authority'
  BY <1>1, ExternalHandled, HandledAuthority
<1>2. ASSUME NEW edge \in inbox, ProcessPush(edge) PROVE Authority'
  BY <1>2, PushHandled, HandledAuthority
<1>3. ASSUME Quiet PROVE Authority'
  BY <1>3, QuietAuthority
<1>4. ASSUME PrepareAgentTurn PROVE Authority'
  BY <1>4, PrepareAuthority
<1>5. ASSUME NEW kind \in PreparationReports, PreparationFails(kind) PROVE Authority'
  BY <1>5, FailsAuthority
<1>6. ASSUME NEW r \in Reports, SettleAgentTurn(r) PROVE Authority'
  BY <1>6, SettleAuthority
<1>7. ASSUME NEW r \in reconciles, ReconcilePendingEvents(r) PROVE Authority'
  BY <1>7, ReconcileAuthority
<1>8. ASSUME NEW f \in failures, EscalateWorkflowActionFailure(f) PROVE Authority'
  BY <1>8, EscalateAuthority
<1>9. ASSUME CompleteClosureSettlement PROVE Authority'
  BY <1>9, CompleteAuthority
<1> QED BY <1>1, <1>2, <1>3, <1>4, <1>5, <1>6, <1>7, <1>8, <1>9
        DEF Next, Quiet, Settle, Reconcile, Escalate, Webhook

\* A Workflow that works has exactly one authority that moves it (one live successor per Workflow, and never none),
\* as long as no label comes during a turn and no usable PREPARE loses its last lease: the two ways the code can
\* lose it, which the runs workflow_relabel and workflow_killed show.
THEOREM AuthorityAlways ==
    ASSUME ~LabelDuringTurn, ~PreparationLost PROVE Spec => []WorkHasOneAuthority
<1>1. Init => Authority
  <2>1. Absent.state = "ABSENT"
    BY DEF Absent
  <2> QED BY <2>1 DEF Init, Authority, ActiveWorkHasAuthority, ActiveStates
<1>2. Inv /\ Authority /\ [Next]_vars /\ Inv' => Authority'
  <2>1. Inv /\ Authority /\ Next /\ Inv' => Authority'
    BY NextAuthority
  <2>2. Authority /\ UNCHANGED vars => Authority'
    <3> SUFFICES ASSUME Authority, UNCHANGED vars PROVE Authority'
      OBVIOUS
    <3>1. UNCHANGED <<snap, input, deferred, prepare, reconciles, failures>>
      BY DEF vars
    <3> QED BY <3>1 DEF Authority, ActiveWorkHasAuthority, MovesOn, Usable, Refreshable, Current, Bound, HeadFenced
  <2> QED BY <2>1, <2>2
<1>3. Inv /\ Authority => WorkHasOneAuthority
  BY DEF Inv, Authority, WorkHasOneAuthority
<1> QED BY <1>1, <1>2, <1>3, Invariance, PTL DEF Spec

-----------------------------------------------------------------------------
(* Every decision is valid.                                                *)

\* What holds besides of a Workflow: a result Reduce would reject is out of reach (Able), a turn and a plan need the
\* participants that were assigned, and the Sessions of assigned participants are not collected.
Decidable ==
    /\ Able(snap)
    /\ planned \/ HasTurn(snap) => assigned
    /\ snap.runtime = "COLLECTED" => ~assigned

\* The events that stand for webhooks are those WebhookTotal asks for.
LEMMA WebhookAble ==
    ASSUME TypeOK, Decidable, NEW c \in Event, c.kind = "SYNCHRONIZATION" => c.head \in Heads,
           NEW s, Able(s), s.runtime = "COLLECTED" => snap.runtime = "COLLECTED"
    PROVE  Kept(s, Dispatch(s, Built(c, s)))
<1> DEFINE e == Built(c, s)
<1>1. s \in Snapshot /\ s.revision \in Nat /\ planned \in BOOLEAN
  BY SnapshotFields DEF Able, TypeOK
<1>2. e \in WebhookEvent /\ e.kind = c.kind
  BY <1>1, BuiltEvent
<1>3. e.kind = "ISSUE_CLOSED" => e.closure # 0
  <2>1. ASSUME c.kind = "ISSUE_CLOSED" PROVE e.closure = s.revision + 1
    BY <2>1 DEF Built
  <2>2. s.revision + 1 # 0
    BY ONLY <1>1
  <2> HIDE DEF e
  <2> QED BY <1>2, <2>1, <2>2
<1>4. e.kind = "TRIGGER" /\ e.planningCompleted => s.runtime # "COLLECTED"
  <2>1. ASSUME c.kind = "TRIGGER" PROVE e.planningCompleted = planned
    BY <2>1 DEF Built
  <2> HIDE DEF e
  <2>2. planned => snap.runtime # "COLLECTED"
    BY DEF Decidable
  <2> QED BY <1>2, <2>1, <2>2
<1> HIDE DEF e
<1>5. Kept(s, Dispatch(s, e))
  BY <1>2, <1>3, <1>4, WebhookTotal
<1> QED BY <1>5 DEF e

\* The reducer answers with the decision of the handler or with the Snapshot as it was.
LEMMA ReduceKept ==
    ASSUME NEW s, Able(s), NEW e, Kept(s, Dispatch(s, e)) PROVE Kept(s, Reduce(s, e))
<1>1. Reduce(s, e) = Rejected(s) \/ Reduce(s, e) = Dispatch(s, e)
  BY ReduceCases
<1> QED BY <1>1, LeftKept

\* The steps that leave the Snapshot alone assign nobody.
LEMMA QuietDecidable ==
    ASSUME Decidable, Inv, Quiet PROVE Decidable'
<1>1. snap' = snap
  BY QuietKeeps
<1>2. planned' = planned /\ assigned' = assigned
  BY DEF Quiet, Push, PushTo, OpenProposal, Publish, AdmitHumanInput, ExhaustEffect, ObservePreparation, RefreshPreparation,
         LosePreparation, Corroborate, AcknowledgeClosureTurnStopped, GiveUpReconciliation, people
<1> QED BY <1>1, <1>2, Zenon DEF Decidable, HasTurn

\* A webhook takes the Workflow to one every decision about which is valid again.
LEMMA HandledDecidable ==
    ASSUME Decidable, Inv, NEW c, Sound(c), Handled(c) PROVE Decidable'
<1> DEFINE d == Reduce(snap, Built(c, snap))
<1>1. Able(snap) /\ TypeOK
  BY DEF Decidable, Inv
<1>2. Kept(snap, d)
  <2>1. c \in Event /\ (c.kind = "SYNCHRONIZATION" => c.head \in Heads)
    BY DEF Sound
  <2> QED BY <1>1, <2>1, WebhookAble, ReduceKept
<1>3. snap' \in {snap, d.snap} /\ planned' = planned /\ assigned' = assigned
  BY DEF Handled, PersistWebhookDecision, Defer, people
<1> HIDE DEF d
<1>4. Able(snap') /\ (snap'.runtime = "COLLECTED" => snap.runtime = "COLLECTED")
  BY <1>1, <1>2, <1>3 DEF Kept
<1>5. snap'.turn = snap.turn
  BY WebhookEnds DEF WebhookApplied, WebhookDeferred, WebhookDropped
<1> QED BY <1>3, <1>4, <1>5, Zenon DEF Decidable, HasTurn

\* The Workflow with a turn prepared for it, on the head it is prepared for.
LEMMA PreparedAble ==
    ASSUME NEW s, Able(s), NEW turn, NEW head, Suits(s, turn, head), ~HasProposal(s) => head = NoHead
    PROVE  Able(Prepared(s, turn, head)) /\ Prepared(s, turn, head).runtime = s.runtime
<1> DEFINE t == Prepared(s, turn, head)
           ready == IF head = s.head THEN s.ready ELSE NoHead
<1>1. Starts(t, s, turn, head)
  BY PreparedSnapshot
<1>2. s \in Snapshot /\ s.state \in ActiveStates /\ (HasProposal(s) => head # NoHead)
  BY DEF Suits
<1>3. t.runtime = s.runtime /\ t.planningOnly = s.planningOnly /\ t.continuation = s.continuation
      /\ t.ready = IF head = s.head THEN s.ready ELSE NoHead
  BY <1>2 DEF Prepared, Snapshot
<1> HIDE DEF t
<1>4. /\ t \in Snapshot /\ ValidSnapshot(t) /\ t.head = head /\ t.state = s.state /\ t.pr = s.pr /\ t.usage = s.usage
  BY <1>1 DEF Starts
<1>5. Headed(t) /\ (~HasProposal(t) => t.ready = NoHead) /\ t.state # "PR_READY" /\ t.usage < ReviewLimit
  BY <1>2, <1>3, <1>4 DEF Able, Headed, HasProposal, ActiveStates
<1>6. ~t.planningOnly => t.continuation # "planning"
  BY <1>3, Zenon DEF Able
<1> QED BY <1>3, <1>4, <1>5, <1>6 DEF Able, t

\* A turn that starts has its participant assigned, in a Workflow whose Sessions are there.
LEMMA PrepareDecidable ==
    ASSUME Decidable, Inv, PrepareAgentTurn PROVE Decidable'
<1> DEFINE head == IF HasProposal(snap) THEN prepare.seen ELSE NoHead
           turn == [id |-> turns + 1, attempt |-> snap.attempt, stage |-> snap.stage, pr |-> snap.pr, head |-> head]
<1>1. /\ snap \in Snapshot /\ ValidSnapshot(snap) /\ turns \in Nat /\ prepare.seen \in HeadOrNone /\ NoHead \in HeadOrNone
  BY DEF Inv, TypeOK, SnapshotSound, HeadOrNone
<1>2. /\ snap.state \in ActiveStates /\ snap.runtime = "ACTIVE"
      /\ HasProposal(snap) => prepare.seen # NoHead
  BY DEF PrepareAgentTurn, Preparable, Current, Bound
<1>3. snap' = Prepared(snap, turn, head) /\ assigned' = TRUE
  BY Zenon DEF PrepareAgentTurn, Prepared
<1>4. head \in HeadOrNone /\ (HasProposal(snap) => head # NoHead) /\ (~HasProposal(snap) => head = NoHead)
  BY <1>1, <1>2
<1>5. turn \in Turn /\ turn # NoTurn /\ turn.id > 0
  <2> HIDE DEF head
  <2>1. turn.id = turns + 1 /\ turns + 1 \in Nat /\ turns + 1 > 0 /\ NoTurn.id = 0
    BY <1>1 DEF NoTurn
  <2>2. turn \in Turn
    BY <1>1, <1>4, <2>1, SnapshotFields DEF Turn, HeadOrNone
  <2> HIDE DEF turn
  <2> QED BY <2>1, <2>2
<1>6. turn.attempt = snap.attempt /\ turn.stage = snap.stage /\ turn.pr = snap.pr /\ turn.head = head
  OBVIOUS
<1> HIDE DEF turn, head
<1>7. Suits(snap, turn, head)
  BY ONLY <1>1, <1>2, <1>4, <1>5, <1>6 DEF Suits
<1>8. Able(snap') /\ snap'.runtime = "ACTIVE"
  BY <1>2, <1>3, <1>4, <1>7, PreparedAble DEF Decidable
<1> QED BY <1>3, <1>8 DEF Decidable

\* A preparation that failed for good gives the Sessions up only of a Workflow without participants.
LEMMA FailsDecidable ==
    ASSUME Decidable, Inv, NEW kind \in PreparationReports, PreparationFails(kind) PROVE Decidable'
<1> DEFINE e == [kind |-> kind, revision |-> snap.revision, role |-> StageRole[prepare.stage], assignmentsExist |-> assigned]
           d == Reduce(snap, e)
<1>1. snap \in Snapshot /\ ValidSnapshot(snap) /\ ~HasTurn(snap) /\ Able(snap)
  BY DEF Decidable, Inv, TypeOK, SnapshotSound, PreparationFails, Usable, Current, Refreshable, Bound
<1>2. d.disposition = "APPLIED" /\ snap' = d.snap /\ planned' = planned /\ assigned' = assigned
  BY DEF PreparationFails, people
<1>3. e.kind \in {"ASSIGNMENT_CONFIGURATION_CONFLICT", "AGENT_TURN_PREPARATION_FAILED"} /\ e.assignmentsExist = assigned
  BY DEF PreparationReports
<1> HIDE DEF e
<1>4. HandedOff(snap, d) /\ (d.snap.runtime = snap.runtime \/ ~assigned)
  BY <1>1, <1>2, <1>3, PreparationReduced
<1> HIDE DEF d
<1>5. Able(snap') /\ ~HasTurn(snap') /\ (snap'.runtime = snap.runtime \/ ~assigned)
  BY <1>1, <1>2, <1>4, HandedOffAble DEF HandedOff, HasTurn
<1> QED BY <1>2, <1>5, Zenon DEF Decidable, HasTurn

\* The escalation of a failure leaves the Sessions as they are.
LEMMA EscalateDecidable ==
    ASSUME Decidable, Inv, NEW f \in failures, EscalateWorkflowActionFailure(f) PROVE Decidable'
<1> DEFINE e == [kind |-> "WORKFLOW_ACTION_EXHAUSTED", revision |-> snap.revision]
           d == Reduce(snap, e)
<1>1. snap \in Snapshot /\ ValidSnapshot(snap) /\ Able(snap)
  BY DEF Decidable, Inv, TypeOK, SnapshotSound
<1>2. ~HasTurn(snap) /\ snap' = d.snap /\ planned' = planned /\ assigned' = assigned
  BY DEF EscalateWorkflowActionFailure, people
<1>3. e.kind = "WORKFLOW_ACTION_EXHAUSTED" /\ e.revision = snap.revision
  OBVIOUS
<1> HIDE DEF e
<1>4. IF snap.state \in AttemptStates \ {"NEEDS_HUMAN"} THEN HandedOff(snap, d) /\ d.snap.runtime = snap.runtime
      ELSE d = Rejected(snap)
  BY <1>1, <1>2, <1>3, EscalationReduced
<1> HIDE DEF d
<1>5. Able(snap') /\ ~HasTurn(snap') /\ snap'.runtime = snap.runtime
  <2>1. CASE snap.state \in AttemptStates \ {"NEEDS_HUMAN"}
    <3>1. HandedOff(snap, d) /\ d.snap.runtime = snap.runtime
      BY ONLY <1>4, <2>1
    <3> QED BY <1>1, <1>2, <3>1, HandedOffAble DEF HandedOff, HasTurn
  <2>2. CASE snap.state \notin AttemptStates \ {"NEEDS_HUMAN"}
    <3>1. d = Rejected(snap)
      BY ONLY <1>4, <2>2
    <3>2. Rejected(snap).snap = snap
      BY DEF Rejected
    <3> QED BY <1>1, <1>2, <3>1, <3>2
  <2> QED BY <2>1, <2>2
<1> QED BY <1>2, <1>5, Zenon DEF Decidable, HasTurn

\* The settlement of a closure gives up the Sessions only of a Workflow without participants.
LEMMA CompleteDecidable ==
    ASSUME Decidable, Inv, CompleteClosureSettlement PROVE Decidable'
<1> DEFINE e == [kind |-> "CLOSURE_SETTLED", revision |-> snap.revision, closure |-> snap.closure,
                 turn |-> snap.turn, assignmentsExist |-> assigned]
           d == Reduce(snap, e)
<1>1. snap \in Snapshot /\ ValidSnapshot(snap) /\ Able(snap)
  BY DEF Decidable, Inv, TypeOK, SnapshotSound
<1>2. d.disposition = "APPLIED" /\ snap' = d.snap /\ planned' = planned /\ assigned' = assigned
  BY DEF CompleteClosureSettlement, people
<1>3. e.kind = "CLOSURE_SETTLED" /\ e.assignmentsExist = assigned
  OBVIOUS
<1> HIDE DEF e
<1>4. /\ d.snap \in Snapshot /\ ValidSnapshot(d.snap) /\ d.snap.state \in {"DORMANT", "CLOSED"}
      /\ d.snap.turn = NoTurn /\ d.snap.pr = snap.pr /\ d.snap.head = snap.head
      /\ d.snap.planningOnly = snap.planningOnly /\ d.snap.continuation = snap.continuation /\ d.snap.ready = NoHead
      /\ d.snap.runtime = "COLLECTED" => ~assigned \/ snap.runtime = "COLLECTED"
  BY <1>1, <1>2, <1>3, ClosureReduced
<1> HIDE DEF d
<1>5. Able(snap') /\ ~HasTurn(snap') /\ (snap'.runtime = "COLLECTED" => ~assigned \/ snap.runtime = "COLLECTED")
  BY <1>1, <1>2, <1>4, SettledClosureAble DEF HasTurn
<1> QED BY <1>2, <1>5, Zenon DEF Decidable, HasTurn

\* A settlement takes the turn off, and answers with a Workflow every decision about which is valid again.
LEMMA SettleDecidable ==
    ASSUME Decidable, Inv, NEW r \in Reports, SettleAgentTurn(r) PROVE Decidable'
<1> DEFINE e == SettlementOf(r)
           d == Reduce(snap, e)
<1>1. /\ Able(snap) /\ ValidSnapshot(snap) /\ snap \in Snapshot /\ snap.pr \in {NoPR, Proposal} /\ Proposal \in PRs
  BY WorkItemAssumption DEF Decidable, Inv, TypeOK, SnapshotSound
<1>2. HasTurn(snap) /\ snap.state \in ActiveStates /\ SettlementEvent(snap, e, Proposal)
  BY ReportEvent
<1>3. ~snap.waiting
  BY <1>2 DEF Inv, TurnSound
<1>4. snap' = d.snap /\ assigned' = assigned
  BY DEF SettleAgentTurn
<1> HIDE DEF e
<1>5. Kept(snap, d)
  BY <1>1, <1>2, <1>3, SettlementTotal, ReduceKept
<1> HIDE DEF d
<1>6. assigned /\ snap.runtime # "COLLECTED"
  BY <1>2 DEF Decidable
<1> QED BY <1>4, <1>5, <1>6 DEF Decidable, Kept

\* What is still to be replayed stands for events WebhookTotal covers.
LEMMA ReplayKept ==
    ASSUME Inv, Decidable, NEW r, NEW acc, Replaying(r, acc), NEW path, NextLinked(acc.rest, path) \in DOMAIN acc.rest,
           Able(acc.snap), acc.snap.runtime = "COLLECTED" => snap.runtime = "COLLECTED"
    PROVE  LET t == ReplayOne(acc, path).snap
           IN  Able(t) /\ (t.runtime = "COLLECTED" => snap.runtime = "COLLECTED")
<1> DEFINE i == NextLinked(acc.rest, path)
           c == acc.rest[i].event
           d == Reduce(acc.snap, Built(c, acc.snap))
<1>1. PICK j \in DOMAIN deferred : acc.rest[i] = deferred[j]
  BY DEF Replaying
<1>2. deferred \in Seq(Held) /\ TypeOK /\ PushesSound
  BY DEF Inv, TypeOK
<1>3. deferred[j] \in Held
  BY <1>2, ElementOfSeq
<1>4. c \in Event /\ c = deferred[j].event
  BY <1>1, <1>3 DEF Held
<1>5. c.kind = "SYNCHRONIZATION" => c.head \in Heads
  <2> HIDE DEF c
  <2>1. ASSUME c.kind = "SYNCHRONIZATION" PROVE c.head # NoHead
    BY <1>2, <1>4, <2>1 DEF PushesSound, IsPush
  <2>2. c.head \in HeadOrNone
    BY <1>4 DEF Event
  <2> QED BY <2>1, <2>2 DEF HeadOrNone
<1>6. ReplayOne(acc, path).snap = d.snap
  BY DEF ReplayOne
<1> HIDE DEF c
<1>7. Kept(acc.snap, d)
  BY <1>2, <1>4, <1>5, WebhookAble, ReduceKept
<1> HIDE DEF d
<1> QED BY <1>6, <1>7 DEF Kept

\* A reconciliation reduces one event after the other, each on the Workflow the one before left behind.
LEMMA ReconcileDecidable ==
    ASSUME Decidable, Inv, NEW r \in reconciles, ReconcilePendingEvents(r) PROVE Decidable'
<1>1. /\ Reconcilable(r) /\ snap' = Replay(r).snap /\ planned' = planned /\ assigned' = assigned
  BY DEF ReconcilePendingEvents, people
<1>2. PICK acc, L : ReplayRun(r, acc, L)
  <2>1. TypeOK /\ SnapshotSound /\ PushesSound
    BY DEF Inv
  <2> QED BY <1>1, <2>1, ReplayRuns
<1>3. /\ L \in Nat /\ Replay(r) = acc[L] /\ acc[0].snap = snap
      /\ \A n \in Nat : n <= L => Replaying(r, acc[n])
      /\ \A n \in Nat : n < L => /\ acc[n + 1] = ReplayOne(acc[n], PathOf(r))
                                 /\ NextLinked(acc[n].rest, PathOf(r)) \in DOMAIN acc[n].rest
  BY <1>2 DEF ReplayRun
<1> DEFINE Good(t) == Able(t) /\ (t.runtime = "COLLECTED" => snap.runtime = "COLLECTED")
           S == {n \in Nat : n <= L => Good(acc[n].snap)}
<1>4. 0 \in S
  BY <1>3 DEF Decidable
<1>5. \A n \in Nat : n \in S => n + 1 \in S
  <2> SUFFICES ASSUME NEW n \in Nat, n <= L => Good(acc[n].snap), n + 1 <= L PROVE Good(acc[n + 1].snap)
    OBVIOUS
  <2>1. n <= L /\ n < L
    BY <1>3
  <2> DEFINE a == acc[n]
  <2>2. Replaying(r, a) /\ Good(a.snap) /\ acc[n + 1] = ReplayOne(a, PathOf(r)) /\ NextLinked(a.rest, PathOf(r)) \in DOMAIN a.rest
    BY <1>3, <2>1
  <2> HIDE DEF a
  <2> QED BY <2>2, ReplayKept
<1> HIDE DEF S
<1>6. L \in S
  BY <1>3, <1>4, <1>5, Induction
<1>7. Good(snap')
  <2>1. L <= L
    BY <1>3
  <2> QED BY <1>1, <1>3, <1>6, <2>1 DEF S
<1>8. ~HasTurn(snap')
  <2>1. Replaying(r, Replay(r))
    <3>1. TypeOK /\ SnapshotSound /\ PushesSound
      BY DEF Inv
    <3> QED BY <1>1, <3>1, ReplayEnds
  <2> QED BY <1>1, <2>1 DEF Replaying, HasTurn
<1> QED BY <1>1, <1>7, <1>8, Zenon DEF Decidable, HasTurn

\* Nobody has labelled the Work Item.
LEMMA InitDecidable == Init => Decidable
<1> SUFFICES ASSUME Init PROVE Decidable
  OBVIOUS
<1>1. snap = Absent /\ planned = FALSE /\ assigned = FALSE /\ SnapshotSound /\ TypeOK
  BY InitInvariant DEF Init, Inv
<1>2. /\ Absent.turn = NoTurn /\ Absent.state = "ABSENT" /\ Absent.pr = NoPR /\ Absent.ready = NoHead
      /\ Absent.continuation = "" /\ Absent.planningOnly = FALSE
  BY DEF Absent
<1>3. Able(snap)
  BY <1>1, <1>2 DEF Able, SnapshotSound, TypeOK, HasProposal, ActiveStates
<1> QED BY <1>1, <1>2, <1>3 DEF Decidable, HasTurn

\* Every step keeps every decision valid.
LEMMA NextDecidable ==
    ASSUME Decidable, Inv, Next PROVE Decidable'
<1>1. ASSUME NEW c \in External, ApplyWorkflowEvent(c) PROVE Decidable'
  BY <1>1, ExternalHandled, HandledDecidable
<1>2. ASSUME NEW edge \in inbox, ProcessPush(edge) PROVE Decidable'
  BY <1>2, PushHandled, HandledDecidable
<1>3. ASSUME Quiet PROVE Decidable'
  BY <1>3, QuietDecidable
<1>4. ASSUME PrepareAgentTurn PROVE Decidable'
  BY <1>4, PrepareDecidable
<1>5. ASSUME NEW kind \in PreparationReports, PreparationFails(kind) PROVE Decidable'
  BY <1>5, FailsDecidable
<1>6. ASSUME NEW r \in Reports, SettleAgentTurn(r) PROVE Decidable'
  BY <1>6, SettleDecidable
<1>7. ASSUME NEW r \in reconciles, ReconcilePendingEvents(r) PROVE Decidable'
  BY <1>7, ReconcileDecidable
<1>8. ASSUME NEW f \in failures, EscalateWorkflowActionFailure(f) PROVE Decidable'
  BY <1>8, EscalateDecidable
<1>9. ASSUME CompleteClosureSettlement PROVE Decidable'
  BY <1>9, CompleteDecidable
<1> QED BY <1>1, <1>2, <1>3, <1>4, <1>5, <1>6, <1>7, <1>8, <1>9
        DEF Next, Quiet, Settle, Reconcile, Escalate, Webhook

\* No webhook and no report the Workflow can meet, in any state the transactions of the store leave it in, makes
\* the reducer build a Snapshot its own check refuses (reduce, validateSnapshot): a Workflow is never stuck behind
\* an event that fails every time it is tried.
THEOREM NoDecisionIsInvalid == Spec => []NoInvalidDecision
<1>1. Init => Decidable
  BY InitDecidable
<1>2. Inv /\ Decidable /\ [Next]_vars => Decidable'
  <2>1. Inv /\ Decidable /\ Next => Decidable'
    BY NextDecidable
  <2>2. Decidable /\ UNCHANGED vars => Decidable'
    <3> SUFFICES ASSUME Decidable, UNCHANGED vars PROVE Decidable'
      OBVIOUS
    <3>1. snap' = snap /\ planned' = planned /\ assigned' = assigned
      BY DEF vars
    <3> QED BY <3>1, Zenon DEF Decidable, HasTurn
  <2> QED BY <2>1, <2>2
<1>3. Inv /\ Decidable => NoInvalidDecision
  <2> SUFFICES ASSUME Inv, Decidable PROVE NoInvalidDecision
    OBVIOUS
  <2>1. Able(snap) /\ TypeOK /\ PushesSound /\ snap.pr \in {NoPR, Proposal} /\ Proposal \in PRs
    BY WorkItemAssumption DEF Inv, Decidable, SnapshotSound
  <2>2. ASSUME NEW c \in Event, c.kind = "SYNCHRONIZATION" => c.head \in Heads
        PROVE  LET after == Dispatch(snap, Built(c, snap)).snap IN after \in Snapshot /\ ValidSnapshot(after)
    BY <2>1, <2>2, WebhookAble DEF Kept, Able
  <2>3. \A c \in External \cup {Synchronized(edge) : edge \in inbox} :
            c \in Event /\ (c.kind = "SYNCHRONIZATION" => c.head \in Heads)
    <3>1. ASSUME NEW p \in Activations
          PROVE  LET c == [Plain("TRIGGER") EXCEPT !.planningOnly = p] IN c \in Event /\ c.kind = "TRIGGER"
      <4>1. p \in BOOLEAN
        BY WorkItemAssumption
      <4> QED BY <4>1 DEF Plain, Event, Kinds, HeadOrNone
    <3>2. ASSUME NEW k \in {"ISSUE_CLOSED", "ISSUE_REOPENED", "REVIEW_OBSERVED"}
          PROVE  Plain(k) \in Event /\ Plain(k).kind = k
      BY DEF Plain, Event, Kinds, HeadOrNone
    <3>3. ASSUME NEW edge \in inbox
          PROVE  Synchronized(edge) \in Event /\ Synchronized(edge).head \in Heads
      <4>1. edge.previous \in Heads /\ edge.head \in Heads
        BY <2>1 DEF TypeOK, Edges
      <4> QED BY <4>1 DEF Synchronized, Plain, Event, Kinds, HeadOrNone
    <3> QED BY <3>1, <3>2, <3>3 DEF External
  <2>4. ASSUME NEW r \in Reports
        PROVE  LET after == Dispatch(snap, SettlementOf(r)).snap IN after \in Snapshot /\ ValidSnapshot(after)
    <3> DEFINE e == SettlementOf(r)
    <3>1. HasTurn(snap) /\ snap.state \in ActiveStates /\ SettlementEvent(snap, e, Proposal)
      BY ReportEvent
    <3>2. ~snap.waiting
      BY <3>1 DEF Inv, TurnSound
    <3> HIDE DEF e
    <3>3. Kept(snap, Dispatch(snap, e))
      BY <2>1, <3>1, <3>2, SettlementTotal
    <3>4. Dispatch(snap, e).snap \in Snapshot /\ ValidSnapshot(Dispatch(snap, e).snap)
      BY <3>3 DEF Kept, Able
    <3> QED BY <3>4 DEF e
  <2> QED BY <2>2, <2>3, <2>4 DEF NoInvalidDecision
<1> QED BY <1>1, <1>2, <1>3, Invariance, PTL DEF Spec
=============================================================================
