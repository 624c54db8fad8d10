--------------------------- MODULE PublicationProofs ---------------------------
(***************************************************************************)
(* Theorems about Publication, for every number of turns, commits,          *)
(* mutations and interferences of people.                                   *)
(*                                                                         *)
(* The argument: a tip is recorded before it is pushed and descends from    *)
(* the head its call started from, and the push carries the lease of that   *)
(* head (SoundRow), so that a push which lands late takes nothing off.      *)
(* The rows that succeeded and moved the head are links of one chain when   *)
(* the ledger proves anything (Proven), so a turn that starts from its end  *)
(* starts from all of them, and goes on by its own calls only               *)
(* (ProgressSound).  A request for a review is made at a head the turn was  *)
(* bound to or has pushed itself (Sourced), which the settlement needs when *)
(* the turn has opened no Pull Request.                                     *)
(*                                                                         *)
(* What a ledger proves is defined by a recursive function over its rows.   *)
(* Induction is over sets of natural numbers (FromZero), and a ledger's     *)
(* proof is a function that exists (ProvingExists), read at its last row.   *)
(***************************************************************************)
EXTENDS Publication, SequenceTheorems, FiniteSetTheorems, NaturalsInduction, WellFoundedInduction, TLAPS

PublicationSpec == PublicationInit /\ [][PublicationNext]_publicationVars

-----------------------------------------------------------------------------
(* The inductive invariant.                                                *)

\* A commit, and the head of a branch that may not exist.
Commits == Seq(Nat)
Heads   == Commits \cup {NoCommit}

Whys == {"none", "remote_head", "history", "pull_mismatch", "refused"}
Mutations == [turn : Nat, tool : {"publish", "open", "review"}, state : {"IN_FLIGHT", "UNKNOWN", "SUCCEEDED", "FAILED"},
              old : Commits, tip : Heads, head : Heads, lease : Heads,
              sent : {"no", "flying", "landed", "refused", "lost"},
              why : Whys]
Recovering == {"observe", "prove", "verify", "reverify", "reobserve", "bind"}
DevTurns == [n : Nat, at : Recovering \cup {"running", "reconcile", "corroborate", "interrupted", "settle", "over"},
             prompt : {"none", "completed", "cancelled", "lost"}, cursor : Nat,
             outcome : {"none", "conflict", "failed", "ready", "handoff"}]
DevCalls == [row : Nat, at : {"none", "inspect", "record", "recheck", "read", "send", "answer"}, tip : Commits]
PublicationTypeOK ==
    /\ branch \in Heads /\ visited \subseteq Commits
    /\ pulls \in Seq([by : Nat, open : BOOLEAN, edited : BOOLEAN])
    /\ made \subseteq Commits /\ IsFiniteSet(made)
    /\ mutations \in Seq(Mutations) /\ devTurn \in DevTurns /\ call \in DevCalls
    /\ bound \in [head : Heads, pull : Nat] /\ proposal \in [head : Heads, pull : Nat]
    /\ progress \in [head : Commits, exists : BOOLEAN, pull : Nat]

\* The branch contained this commit once.
WasOnBranch(commit) == \E head \in visited : History!IsPrefix(commit, head)
IsOpened(p) == p \in DOMAIN pulls /\ pulls[p].by # 0
HasPull(r) == \E p \in DOMAIN pulls : pulls[p].by = r

\* A row that moved the head the ledger knows of.
MovesHead(row) == row.tool = "publish" /\ row.state = "SUCCEEDED" /\ row.head # row.old

\* A tip that is recorded descends from the head its call started from, nothing is pushed but with the lease of that
\* head, and what succeeded was on the branch, or has its Pull Request.
SoundRow(row, r) ==
    /\ row.lease \in {NoCommit, row.old}
    /\ row.tool = "publish" /\ row.tip # NoCommit => Extends(row.tip, row.old)
    /\ row.tool = "publish" /\ row.sent # "no" => row.tip # NoCommit
    /\ row.tool = "publish" /\ row.sent = "landed" => row.tip \in visited
    /\ row.tool = "publish" /\ row.state = "SUCCEEDED" /\ row.head # row.old =>
         row.head = row.tip /\ row.tip # NoCommit /\ WasOnBranch(row.tip)
    /\ row.tool = "open" /\ (row.sent = "landed" \/ row.state = "SUCCEEDED") => HasPull(r)
RowSound(r) == SoundRow(mutations[r], r)
RowsSound == \A r \in DOMAIN mutations : RowSound(r)

\* A row is open only in its own turn, in flight only in the call, and behind the reconciliation not at all.
RowInTurn(r) ==
    LET row == mutations[r] IN
    /\ row.turn <= devTurn.n
    /\ devTurn.at \in Recovering => row.turn # devTurn.n
    /\ row.state = "IN_FLIGHT" => call.row = r
    /\ row.state = "UNKNOWN" => /\ row.turn = devTurn.n /\ devTurn.at \in {"running", "reconcile"}
                                /\ r > devTurn.cursor
TurnSound ==
    /\ \A r \in DOMAIN mutations : RowInTurn(r)
    /\ devTurn.at \in Recovering \cup {"running"} => devTurn.cursor = 0
    /\ devTurn.at \in Recovering => bound = Unbound /\ progress.pull = 0
    /\ devTurn.at \notin {"settle", "over"} => devTurn.outcome = "none"
    /\ devTurn.at = "settle" /\ devTurn.outcome = "ready" => Asked # {}

\* The call is about the last row, which starts from the head there is; before it sends, the tip is recorded.
CallSound ==
    \/ call = NoCall
    \/ /\ call.row = Len(mutations) /\ call.row # 0 /\ call.at # "none" /\ devTurn.at = "running"
       /\ Row.turn = devTurn.n /\ Row.state = "IN_FLIGHT" /\ Row.old = progress.head
       /\ call.at \in {"inspect", "record", "recheck"} => Row.tool = "publish"
       /\ call.at = "read" => Row.tool = "review"
       /\ call.at = "record" => Extends(call.tip, Row.old)
       /\ call.at \in {"recheck", "send", "answer"} /\ Row.tool = "publish" => Row.tip # NoCommit
       /\ call.at # "answer" => Row.sent = "no"

\* What a commit of this turn is known from: the publication the turn was bound to, or a push of its own that landed.
Sourced(commit) ==
    \/ commit = bound.head
    \/ \E r \in Mine : /\ mutations[r].tool = "publish" /\ mutations[r].tip = commit
                       /\ mutations[r].sent = "landed" /\ mutations[r].state \in {"UNKNOWN", "SUCCEEDED"}

\* A turn goes on from what the ledger proves, and asks for a review of a Pull Request and a head it has.
ProgressSound ==
    /\ branch # NoCommit => branch \in visited
    /\ devTurn.at \in Recovering \ {"observe"} => Earlier.ok /\ Earlier.head # NoCommit
    /\ bound.head # NoCommit => \E r \in DOMAIN mutations : MovesHead(mutations[r]) /\ mutations[r].head = bound.head
    /\ bound.pull # 0 => bound.head # NoCommit /\ IsOpened(bound.pull)
    /\ devTurn.at = "running" =>
         \A r \in DOMAIN mutations : MovesHead(mutations[r]) => History!IsPrefix(mutations[r].head, progress.head)
    /\ \A r \in Mine : mutations[r].tool = "review" => progress.pull # 0
    /\ devTurn.at # "over" =>
         /\ progress.pull # 0 => \/ progress.pull = bound.pull
                                 \/ \E r \in Mine : mutations[r].tool = "open" /\ mutations[r].state \in {"UNKNOWN", "SUCCEEDED"}
         /\ bound.head # NoCommit =>
              /\ devTurn.at = "running" => Sourced(progress.head)
              /\ \A r \in Mine : mutations[r].tool = "review" => Sourced(mutations[r].old)

\* The Change Proposal that was settled.
ProposalSound ==
    proposal # Unbound =>
        /\ proposal.head \in Commits /\ WasOnBranch(proposal.head) /\ IsOpened(proposal.pull)
        /\ \E r \in DOMAIN mutations : /\ mutations[r].tool = "publish" /\ mutations[r].tip = proposal.head
                                       /\ mutations[r].state = "SUCCEEDED"

PublicationInv ==
    PublicationTypeOK /\ RowsSound /\ TurnSound /\ CallSound /\ ProgressSound /\ ProposalSound

-----------------------------------------------------------------------------
(* Histories of commits.                                                   *)

\* The history of one commit is the beginning of another's.
LEMMA PrefixIs ==
    ASSUME NEW s \in Seq(Int), NEW t \in Seq(Int)
    PROVE  History!IsPrefix(s, t) <=> Len(s) <= Len(t) /\ \A i \in 1 .. Len(s) : s[i] = t[i]
<1>1. Len(s) \in Nat /\ Len(t) \in Nat
  OBVIOUS
<1>2. CASE Len(s) <= Len(t)
  <2>1. SubSeq(s, 1, Len(s)) \in Seq(Int) /\ SubSeq(t, 1, Len(s)) \in Seq(Int)
    BY <1>1, <1>2
  <2>2. Len(SubSeq(s, 1, Len(s))) = Len(s) /\ Len(SubSeq(t, 1, Len(s))) = Len(s)
    BY <1>1, <1>2
  <2>3. \A i \in 1 .. Len(s) : SubSeq(s, 1, Len(s))[i] = s[i] /\ SubSeq(t, 1, Len(s))[i] = t[i]
    BY <1>1, <1>2
  <2>4. SubSeq(s, 1, Len(s)) = SubSeq(t, 1, Len(s)) <=> \A i \in 1 .. Len(s) : s[i] = t[i]
    BY <2>1, <2>2, <2>3, SeqEqual
  <2>. QED  BY <1>2, <2>4 DEF History!IsPrefix
<1>3. CASE ~(Len(s) <= Len(t))
  BY <1>3 DEF History!IsPrefix
<1>. QED  BY <1>2, <1>3

\* No commit stands for the absence of one.
LEMMA NoCommitIsNone == NoCommit \notin Commits
<1>1. -1 \notin Nat /\ Len(<<-1>>) = 1 /\ <<-1>>[1] = -1
  OBVIOUS
<1>. QED  BY <1>1, ElementOfSeq DEF NoCommit, Commits

\* A history is the beginning of itself.
LEMMA PrefixReflexive == ASSUME NEW c \in Commits PROVE History!IsPrefix(c, c)
<1>. QED  BY DEF History!IsPrefix

\* The ancestors of an ancestor are ancestors.
LEMMA PrefixTransitive ==
    ASSUME NEW c \in Commits, NEW d \in Commits, NEW e \in Commits, History!IsPrefix(c, d), History!IsPrefix(d, e)
    PROVE  History!IsPrefix(c, e)
<1>1. c \in Seq(Int) /\ d \in Seq(Int) /\ e \in Seq(Int) /\ Len(c) \in Nat /\ Len(d) \in Nat /\ Len(e) \in Nat
  BY DEF Commits
<1>2. Len(c) <= Len(d) /\ \A i \in 1 .. Len(c) : c[i] = d[i]
  BY <1>1, PrefixIs
<1>3. Len(d) <= Len(e) /\ \A i \in 1 .. Len(d) : d[i] = e[i]
  BY <1>1, PrefixIs
<1>4. Len(c) <= Len(e) /\ \A i \in 1 .. Len(c) : c[i] = e[i]
  BY <1>1, <1>2, <1>3
<1>. QED  BY <1>1, <1>4, PrefixIs

\* Two commits that are each the beginning of the other are the same.
LEMMA PrefixAntisymmetric ==
    ASSUME NEW c \in Commits, NEW d \in Commits, History!IsPrefix(c, d), History!IsPrefix(d, c)
    PROVE  c = d
<1>1. c \in Seq(Int) /\ d \in Seq(Int) /\ Len(c) \in Nat /\ Len(d) \in Nat
  BY DEF Commits
<1>2. Len(c) = Len(d) /\ \A i \in 1 .. Len(c) : c[i] = d[i]
  BY <1>1, PrefixIs
<1>. QED  BY <1>2, SeqEqual DEF Commits

-----------------------------------------------------------------------------
(* The proof a ledger gives is found one row after the other.               *)

\* Induction over the natural numbers, for a set instead of a predicate.
LEMMA FromZero ==
    ASSUME NEW T, 0 \in T, \A n \in Nat : n \in T => n + 1 \in T
    PROVE  Nat \subseteq T
<1>. SUFFICES ASSUME Nat \ T # {} PROVE FALSE
  OBVIOUS
<1> DEFINE R == {pair \in Nat \X Nat : pair[1] < pair[2]}
<1>1. IsWellFoundedOn(R, Nat)
  BY ONLY NatLessThanWellFounded DEF OpToRel
<1> HIDE DEF R
<1>2. PICK n \in Nat \ T : \A m \in Nat \ T : ~(<<m, n>> \in R)
  BY <1>1, WFMin
<1>3. n # 0 /\ n - 1 \in Nat
  BY <1>2
<1>4. n - 1 \in Nat \ T
  BY <1>2, <1>3
<1>5. <<n - 1, n>> \in R
  BY <1>3 DEF R
<1>. QED  BY <1>2, <1>4, <1>5

NoProof(start) == [head |-> start, pull |-> 0, ok |-> TRUE]
ProofStep(proof, rows, set, n) == IF n \in set THEN Link(proof, rows[n], n) ELSE proof
\* The proof after every row up to the last.
Proving(f, rows, set, start, last) ==
    f = [n \in 0 .. last |-> IF n = 0 THEN NoProof(start) ELSE ProofStep(f[n - 1], rows, set, n)]

\* There is such a proof for every row: one more row is read in one more step.
LEMMA ProvingExists ==
    ASSUME NEW rows, NEW set, NEW start, NEW last \in Nat
    PROVE  \E f : Proving(f, rows, set, start, last)
<1> DEFINE Good(f, k) == Proving(f, rows, set, start, k)
           T == {k \in Nat : \E f : Good(f, k)}
<1>1. 0 \in T
  <2> DEFINE f == [n \in 0 .. 0 |-> NoProof(start)]
             g == [n \in 0 .. 0 |-> IF n = 0 THEN NoProof(start) ELSE ProofStep(f[n - 1], rows, set, n)]
  <2>1. \A n \in 0 .. 0 : NoProof(start) = IF n = 0 THEN NoProof(start) ELSE ProofStep(f[n - 1], rows, set, n)
    OBVIOUS
  <2>2. f = g
    BY <2>1
  <2>3. Good(f, 0)
    BY <2>2 DEF Proving
  <2> HIDE DEF f, g, Good
  <2>. QED  BY <2>3
<1>2. \A k \in Nat : k \in T => k + 1 \in T
  <2> SUFFICES ASSUME NEW k \in Nat, NEW f, Good(f, k) PROVE k + 1 \in T
    OBVIOUS
  <2> DEFINE g == [n \in 0 .. (k + 1) |-> IF n = k + 1 THEN ProofStep(f[k], rows, set, n) ELSE f[n]]
  <2>1. \A n \in 0 .. (k + 1) : g[n] = IF n = 0 THEN NoProof(start) ELSE ProofStep(g[n - 1], rows, set, n)
    <3> TAKE n \in 0 .. (k + 1)
    <3>1. CASE n = k + 1
      <4>1. n # 0 /\ n - 1 = k /\ n - 1 \in 0 .. (k + 1) /\ k # k + 1
        BY <3>1
      <4>2. g[n] = ProofStep(f[k], rows, set, n)
        BY <3>1
      <4>3. g[n - 1] = f[k]
        BY <4>1
      <4> HIDE DEF g
      <4>. QED  BY <4>1, <4>2, <4>3
    <3>2. CASE n = 0
      <4>1. g[n] = f[0] /\ 0 \in 0 .. k
        BY <3>2
      <4>2. f[0] = NoProof(start)
        BY <4>1 DEF Proving
      <4> HIDE DEF g
      <4>. QED  BY <3>2, <4>1, <4>2
    <3>3. CASE n # 0 /\ n # k + 1
      <4>1. n \in 0 .. k /\ n - 1 \in 0 .. (k + 1) /\ n - 1 # k + 1
        BY <3>3
      <4>2. g[n] = f[n] /\ g[n - 1] = f[n - 1]
        BY <4>1, <3>3
      <4>3. f[n] = ProofStep(f[n - 1], rows, set, n)
        BY <4>1, <3>3 DEF Proving
      <4> HIDE DEF g
      <4>. QED  BY <3>3, <4>2, <4>3
    <3>. QED  BY <3>1, <3>2, <3>3
  <2>2. g = [n \in 0 .. (k + 1) |-> g[n]]
    OBVIOUS
  <2> HIDE DEF g
  <2>3. Good(g, k + 1)
    BY <2>1, <2>2 DEF Proving
  <2> HIDE DEF Good
  <2>. QED  BY <2>3
<1> HIDE DEF T
<1>3. last \in T
  BY <1>1, <1>2, FromZero
<1>. QED  BY <1>3 DEF T

\* The proof of a ledger is the last of such proofs.
LEMMA ProofIs ==
    ASSUME NEW rows, Len(rows) \in Nat, NEW set, NEW start
    PROVE  \E f : Proving(f, rows, set, start, Len(rows)) /\ ProofOf(rows, set, start) = f[Len(rows)]
<1> DEFINE runs(f) == Proving(f, rows, set, start, Len(rows))
<1>1. \E f : runs(f)
  BY ProvingExists
<1>2. ProofOf(rows, set, start) = (CHOOSE f : runs(f))[Len(rows)]
  BY Zenon DEF ProofOf, Proving, NoProof, ProofStep
<1>3. runs(CHOOSE f : runs(f))
  <2> HIDE DEF runs
  <2>. QED  BY <1>1, Zenon
<1>. QED  BY <1>2, <1>3

\* It reads nothing else of a row than what does not change once the row is settled.
SameRow(row, other) ==
    /\ other.tool = row.tool /\ other.state = row.state /\ other.old = row.old
    /\ row.tool = "publish" => other.head = row.head

\* A ledger whose rows are the same in that proves the same.
LEMMA ProofStable ==
    ASSUME NEW rows, Len(rows) \in Nat, NEW others, Len(others) = Len(rows), NEW set, NEW start,
           \A n \in 1 .. Len(rows) : SameRow(rows[n], others[n]),
           \A n \in 1 .. Len(rows) : rows[n].tool \in {"publish", "open", "review"}
    PROVE  ProofOf(others, set, start) = ProofOf(rows, set, start)
<1>1. PICK f : Proving(f, rows, set, start, Len(rows)) /\ ProofOf(rows, set, start) = f[Len(rows)]
  BY ProofIs
<1>2. PICK g : Proving(g, others, set, start, Len(rows)) /\ ProofOf(others, set, start) = g[Len(rows)]
  BY ProofIs
<1> DEFINE T == {k \in Nat : k <= Len(rows) => f[k] = g[k]}
<1>3. 0 \in T
  <2>1. 0 \in 0 .. Len(rows)
    OBVIOUS
  <2>2. f[0] = NoProof(start) /\ g[0] = NoProof(start)
    BY <1>1, <1>2, <2>1 DEF Proving
  <2>. QED  BY <2>2
<1>4. \A k \in Nat : k \in T => k + 1 \in T
  <2> SUFFICES ASSUME NEW k \in Nat, k + 1 <= Len(rows), f[k] = g[k] PROVE f[k + 1] = g[k + 1]
    OBVIOUS
  <2>1. k + 1 \in 0 .. Len(rows) /\ k + 1 # 0 /\ (k + 1) - 1 = k /\ k + 1 \in 1 .. Len(rows)
    OBVIOUS
  <2>2. f[k + 1] = ProofStep(f[k], rows, set, k + 1) /\ g[k + 1] = ProofStep(g[k], others, set, k + 1)
    BY <1>1, <1>2, <2>1 DEF Proving
  <2>3. Link(f[k], others[k + 1], k + 1) = Link(f[k], rows[k + 1], k + 1)
    <3>1. SameRow(rows[k + 1], others[k + 1]) /\ rows[k + 1].tool \in {"publish", "open", "review"}
      BY <2>1
    <3>. QED  BY <3>1 DEF SameRow, Link
  <2>. QED  BY <2>2, <2>3 DEF ProofStep
<1> HIDE DEF T
<1>5. Len(rows) \in T
  BY <1>3, <1>4, FromZero
<1>. QED  BY <1>1, <1>2, <1>5 DEF T

\* A row of the ledger, with what is true of one that moves the head.
WellFormed(row) == row \in Mutations /\ (MovesHead(row) => Extends(row.head, row.old) /\ row.head \in Commits)
Opens(row) == row.tool = "open" /\ row.state = "SUCCEEDED"

\* What a proof says of the rows up to the last one it has read: they are links of one chain, from what it started
\* with to its head, and at most one of them opens a Pull Request, of a published head.
Proven(proof, rows, set, start, last) ==
    /\ proof \in [head : Heads, pull : Nat, ok : BOOLEAN]
    /\ proof.ok =>
         /\ \A r \in set : r <= last /\ MovesHead(rows[r]) =>
               proof.head # NoCommit /\ History!IsPrefix(rows[r].head, proof.head)
         /\ proof.head = start \/ \E r \in set : MovesHead(rows[r]) /\ rows[r].head = proof.head
         /\ proof.pull # 0 => proof.pull \in set /\ Opens(rows[proof.pull]) /\ proof.head # NoCommit
         /\ \A r \in set : r <= last /\ Opens(rows[r]) => proof.pull # 0

\* One more row: it goes on from the head the rows before it left, or nothing is proven any more.
LEMMA LinkProves ==
    ASSUME NEW rows, Len(rows) \in Nat, NEW set \in SUBSET (1 .. Len(rows)), NEW start \in Heads,
           NEW k \in Nat, k + 1 <= Len(rows), \A n \in 1 .. Len(rows) : WellFormed(rows[n]),
           NEW proof, Proven(proof, rows, set, start, k)
    PROVE  Proven(ProofStep(proof, rows, set, k + 1), rows, set, start, k + 1)
<1> DEFINE n == k + 1
           row == rows[n]
           next == ProofStep(proof, rows, set, n)
<1>1. n \in 1 .. Len(rows) /\ row \in Mutations /\ WellFormed(row)
  BY DEF WellFormed
<1>2. \A r \in set : r \in Nat /\ (r <= n <=> r <= k \/ r = n)
  OBVIOUS
<1>3. proof \in [head : Heads, pull : Nat, ok : BOOLEAN]
  BY DEF Proven
<1>4. row.tool \in {"publish", "open", "review"} /\ row.head \in Heads /\ row.old \in Commits
  BY <1>1 DEF Mutations
<1> HIDE DEF n, row
<1>5. CASE n \notin set \/ ~proof.ok \/ row.state # "SUCCEEDED" \/ row.tool = "review"
  <2>1. next = proof
    BY <1>5 DEF ProofStep, Link, row
  <2>2. n \in set /\ proof.ok => ~MovesHead(row) /\ ~Opens(row)
    BY <1>5 DEF MovesHead, Opens
  <2>3. proof.ok => \A r \in set : r <= n /\ (MovesHead(rows[r]) \/ Opens(rows[r])) => r <= k
    BY <2>2, <1>2 DEF row
  <2>. QED  BY <2>1, <2>3 DEF Proven, n
<1>6. CASE n \in set /\ proof.ok /\ row.state = "SUCCEEDED" /\ row.tool # "review"
           /\ proof.head # NoCommit /\ row.old # proof.head
  <2>1. next = [proof EXCEPT !.ok = FALSE]
    BY <1>6 DEF ProofStep, Link, row
  <2>2. next \in [head : Heads, pull : Nat, ok : BOOLEAN] /\ ~next.ok
    BY <2>1, <1>3
  <2> HIDE DEF next
  <2>. QED  BY <2>2 DEF Proven, next, n
<1>7. CASE n \in set /\ proof.ok /\ row.state = "SUCCEEDED" /\ row.tool = "publish"
           /\ (proof.head = NoCommit \/ row.old = proof.head)
  <2>1. CASE row.head = row.old
    <3>1. next = proof
      BY <2>1, <1>3, <1>7 DEF ProofStep, Link, row
    <3>2. ~MovesHead(row) /\ ~Opens(row)
      BY <2>1, <1>7 DEF MovesHead, Opens
    <3>3. \A r \in set : r <= n /\ (MovesHead(rows[r]) \/ Opens(rows[r])) => r <= k
      BY <3>2, <1>2 DEF row
    <3>. QED  BY <3>1, <3>3 DEF Proven, n
  <2>2. CASE row.head # row.old
    <3>1. next = [proof EXCEPT !.head = row.head]
      BY <2>2, <1>7 DEF ProofStep, Link, row
    <3>2. MovesHead(row) /\ ~Opens(row)
      BY <2>2, <1>7 DEF MovesHead, Opens
    <3>3. row.head \in Commits /\ Extends(row.head, row.old)
      BY <1>1, <3>2 DEF WellFormed
    <3>4. next.head = row.head /\ next.pull = proof.pull /\ next.ok
      BY <3>1, <1>3, <1>7
    <3>5. next \in [head : Heads, pull : Nat, ok : BOOLEAN]
      BY <3>1, <1>3, <1>4
    <3>6. row.head # NoCommit /\ History!IsPrefix(row.old, row.head)
      BY <3>3 DEF Extends
    <3> HIDE DEF next
    <3>7. ASSUME NEW r \in set, r <= n, MovesHead(rows[r]) PROVE History!IsPrefix(rows[r].head, row.head)
      <4>1. CASE r = n
        BY <4>1, <3>3, PrefixReflexive DEF row
      <4>2. CASE r <= k
        <5>1. proof.head # NoCommit /\ History!IsPrefix(rows[r].head, proof.head)
          BY <4>2, <1>7, <3>7 DEF Proven
        <5>2. rows[r].head \in Commits /\ proof.head = row.old
          BY <5>1, <1>7, <3>7 DEF WellFormed
        <5>. QED  BY <5>1, <5>2, <3>3, <3>6, <1>4, PrefixTransitive
      <4>. QED  BY <4>1, <4>2, <3>7, <1>2
    <3>8. \E r \in set : MovesHead(rows[r]) /\ rows[r].head = next.head
      BY <1>7, <3>2, <3>4 DEF row
    <3>9. \A r \in set : r <= n /\ Opens(rows[r]) => r <= k
      BY <3>2, <1>2 DEF row
    <3>10. next.pull # 0 => next.pull \in set /\ Opens(rows[next.pull]) /\ next.head # NoCommit
      BY <1>7, <3>4, <3>6 DEF Proven
    <3>11. \A r \in set : r <= n /\ Opens(rows[r]) => next.pull # 0
      BY <1>7, <3>4, <3>9 DEF Proven
    <3>12. \A r \in set : r <= n /\ MovesHead(rows[r]) => next.head # NoCommit /\ History!IsPrefix(rows[r].head, next.head)
      BY <3>4, <3>6, <3>7
    <3>. QED  BY <3>5, <3>8, <3>10, <3>11, <3>12 DEF Proven, next, n
  <2>. QED  BY <2>1, <2>2
<1>8. CASE n \in set /\ proof.ok /\ row.state = "SUCCEEDED" /\ row.tool = "open"
           /\ (proof.head = NoCommit \/ row.old = proof.head)
  <2>1. ~MovesHead(row) /\ Opens(row)
    BY <1>8 DEF MovesHead, Opens
  <2>2. \A r \in set : r <= n /\ MovesHead(rows[r]) => r <= k
    BY <2>1, <1>2 DEF row
  <2>3. CASE proof.pull # 0 \/ proof.head = NoCommit
    <3>1. next = [proof EXCEPT !.ok = FALSE]
      BY <2>3, <1>8 DEF ProofStep, Link, row
    <3>2. next \in [head : Heads, pull : Nat, ok : BOOLEAN] /\ ~next.ok
      BY <3>1, <1>3
    <3> HIDE DEF next
    <3>. QED  BY <3>2 DEF Proven, next, n
  <2>4. CASE ~(proof.pull # 0 \/ proof.head = NoCommit)
    <3>1. next = [proof EXCEPT !.pull = n]
      BY <2>4, <1>8 DEF ProofStep, Link, row
    <3>2. next \in [head : Heads, pull : Nat, ok : BOOLEAN] /\ next.pull = n /\ next.head = proof.head /\ next.ok
      BY <3>1, <1>1, <1>3, <1>8
    <3> HIDE DEF next
    <3>3. n # 0 /\ n \in set /\ Opens(rows[n]) /\ next.head # NoCommit
      BY <2>1, <2>4, <3>2, <1>1, <1>8 DEF row
    <3>. QED  BY <2>2, <3>2, <3>3, <1>8 DEF Proven, next, n
  <2>. QED  BY <2>3, <2>4
<1>. QED  BY <1>4, <1>5, <1>6, <1>7, <1>8 DEF n

\* So it is for a whole ledger.
LEMMA LedgerProves ==
    ASSUME NEW rows, Len(rows) \in Nat, NEW set \in SUBSET (1 .. Len(rows)), NEW start \in Heads,
           \A n \in 1 .. Len(rows) : WellFormed(rows[n])
    PROVE  Proven(ProofOf(rows, set, start), rows, set, start, Len(rows))
<1>1. PICK f : Proving(f, rows, set, start, Len(rows)) /\ ProofOf(rows, set, start) = f[Len(rows)]
  BY ProofIs
<1> DEFINE T == {k \in Nat : k <= Len(rows) => Proven(f[k], rows, set, start, k)}
<1>2. 0 \in T
  <2>1. 0 \in 0 .. Len(rows)
    OBVIOUS
  <2>2. f[0] = NoProof(start)
    BY <1>1, <2>1 DEF Proving
  <2>3. NoProof(start) \in [head : Heads, pull : Nat, ok : BOOLEAN] /\ NoProof(start).head = start /\ NoProof(start).pull = 0
    BY DEF NoProof
  <2>4. \A r \in set : ~(r <= 0)
    OBVIOUS
  <2>5. Proven(f[0], rows, set, start, 0)
    BY <2>2, <2>3, <2>4 DEF Proven
  <2>. QED  BY <2>5
<1>3. \A k \in Nat : k \in T => k + 1 \in T
  <2> SUFFICES ASSUME NEW k \in Nat, k + 1 <= Len(rows), Proven(f[k], rows, set, start, k)
               PROVE  Proven(f[k + 1], rows, set, start, k + 1)
    OBVIOUS
  <2>1. k + 1 \in 0 .. Len(rows) /\ k + 1 # 0 /\ (k + 1) - 1 = k
    OBVIOUS
  <2>2. f[k + 1] = ProofStep(f[k], rows, set, k + 1)
    BY <1>1, <2>1 DEF Proving
  <2>3. Proven(ProofStep(f[k], rows, set, k + 1), rows, set, start, k + 1)
    BY LinkProves
  <2>. QED  BY <2>2, <2>3
<1> HIDE DEF T
<1>4. Len(rows) \in T
  BY <1>2, <1>3, FromZero
<1>. QED  BY <1>1, <1>4 DEF T

-----------------------------------------------------------------------------
(* What most steps leave alone.                                            *)

\* The branch may have one more head, and every Pull Request stays whose it is.
HubGrows ==
    /\ visited \subseteq visited' /\ (branch' # NoCommit => branch' \in visited')
    /\ \A p \in DOMAIN pulls : p \in DOMAIN pulls' /\ pulls'[p].by = pulls[p].by

\* What was on the branch stays something that was, and an opened Pull Request stays one.
LEMMA HubKeeps ==
    ASSUME HubGrows
    PROVE  /\ \A commit : WasOnBranch(commit) => WasOnBranch(commit)'
           /\ \A p : IsOpened(p) => IsOpened(p)'
           /\ \A r : HasPull(r) => HasPull(r)'
<1>1. ASSUME NEW commit, WasOnBranch(commit) PROVE WasOnBranch(commit)'
  BY <1>1 DEF HubGrows, WasOnBranch
<1>2. ASSUME NEW p, IsOpened(p) PROVE IsOpened(p)'
  BY <1>2 DEF HubGrows, IsOpened
<1>3. ASSUME NEW r, HasPull(r) PROVE HasPull(r)'
  BY <1>3 DEF HubGrows, HasPull
<1>. QED  BY <1>1, <1>2, <1>3

\* The ledger is a sequence of rows.
LEMMA RowFacts ==
    ASSUME PublicationTypeOK
    PROVE  /\ Len(mutations) \in Nat /\ DOMAIN mutations = 1 .. Len(mutations)
           /\ \A r \in DOMAIN mutations : mutations[r] \in Mutations
<1>. QED  BY LenProperties, ElementOfSeq DEF PublicationTypeOK

\* A row that moved the head moved it to a descendant.
LEMMA RowsWellFormed ==
    ASSUME PublicationTypeOK, RowsSound
    PROVE  \A r \in DOMAIN mutations : WellFormed(mutations[r])
<1> SUFFICES ASSUME NEW r \in DOMAIN mutations, MovesHead(mutations[r])
             PROVE  Extends(mutations[r].head, mutations[r].old) /\ mutations[r].head \in Commits
  BY RowFacts DEF WellFormed
<1>1. mutations[r].head = mutations[r].tip /\ mutations[r].tip # NoCommit /\ Extends(mutations[r].tip, mutations[r].old)
  BY DEF MovesHead, RowsSound, RowSound, SoundRow
<1>2. mutations[r].tip \in Heads
  BY RowFacts DEF Mutations
<1>. QED  BY <1>1, <1>2 DEF Heads

\* What earlier turns have proven does not change while their rows are settled.
LEMMA EarlierKept ==
    ASSUME PublicationTypeOK, Len(mutations') = Len(mutations), DOMAIN mutations' = DOMAIN mutations,
           devTurn'.n = devTurn.n,
           \A r \in DOMAIN mutations : SameRow(mutations[r], mutations'[r]) /\ mutations'[r].turn = mutations[r].turn
    PROVE  Earlier' = Earlier
<1> DEFINE set == {r \in DOMAIN mutations : mutations[r].turn < devTurn.n}
<1>1. {r \in DOMAIN mutations' : mutations'[r].turn < devTurn'.n} = set
  OBVIOUS
<1>2. Earlier' = ProofOf(mutations', set, NoCommit)
  BY <1>1 DEF Earlier
<1>3. Earlier = ProofOf(mutations, set, NoCommit)
  BY DEF Earlier
<1>4. \A n \in 1 .. Len(mutations) : mutations[n].tool \in {"publish", "open", "review"} /\ SameRow(mutations[n], mutations'[n])
  BY RowFacts DEF Mutations
<1>5. Len(mutations) \in Nat
  BY RowFacts
<1> HIDE DEF set
<1>6. ProofOf(mutations', set, NoCommit) = ProofOf(mutations, set, NoCommit)
  BY <1>4, <1>5, ProofStable
<1>. QED  BY <1>2, <1>3, <1>6

\* Settled rows are all there is outside of a turn that runs or is reconciled.
LEMMA RowsAreSettled ==
    ASSUME PublicationInv, devTurn.at \notin {"running", "reconcile"}, NEW r \in DOMAIN mutations
    PROVE  mutations[r].state \in {"SUCCEEDED", "FAILED"}
<1>1. mutations[r].state # "UNKNOWN"
  BY DEF PublicationInv, TurnSound, RowInTurn
<1>2. mutations[r].state # "IN_FLIGHT"
  <2>1. call = NoCall
    BY DEF PublicationInv, CallSound
  <2>2. r # 0
    BY RowFacts DEF PublicationInv
  <2>. QED  BY <2>1, <2>2 DEF PublicationInv, TurnSound, RowInTurn, NoCall
<1>. QED  BY <1>1, <1>2, RowFacts DEF PublicationInv, Mutations

-----------------------------------------------------------------------------
(* A step that changes one row, and perhaps the branch and the progress.   *)

SettledRow(old, new) ==
    /\ new.turn = old.turn /\ new.tool = old.tool /\ new.old = old.old
    /\ old.state \in {"SUCCEEDED", "FAILED"} => /\ new.state = old.state
                                                /\ old.tool = "publish" => new.head = old.head /\ new.tip = old.tip
    /\ old.state = "UNKNOWN" => new.state \in {"UNKNOWN", "SUCCEEDED"}
    /\ old.state \in {"UNKNOWN", "SUCCEEDED"} /\ old.tool = "publish" /\ old.sent = "landed" =>
         new.sent = "landed" /\ new.tip = old.tip

RowStep(r) ==
    /\ r \in DOMAIN mutations /\ DOMAIN mutations' = DOMAIN mutations /\ Len(mutations') = Len(mutations)
    /\ \A s \in DOMAIN mutations \ {r} : mutations'[s] = mutations[s]
    /\ SettledRow(mutations[r], mutations'[r])
    /\ devTurn'.n = devTurn.n /\ devTurn'.at = devTurn.at /\ devTurn'.outcome = devTurn.outcome
    /\ devTurn.at # "reconcile" => devTurn'.cursor = devTurn.cursor
    /\ \A s \in DOMAIN mutations \ {r} : mutations[s].state = "UNKNOWN" => s > devTurn'.cursor
    /\ call'.row = call.row \/ call.row = r
    /\ bound' = bound /\ proposal' = proposal

\* The progress of a running turn only grows, by the row that is heard of.
ProgressStep(r) ==
    /\ progress'.pull # progress.pull =>
         /\ progress'.pull # 0 /\ devTurn.at = "running"
         /\ mutations[r].turn = devTurn.n /\ mutations'[r].tool = "open" /\ mutations'[r].state \in {"UNKNOWN", "SUCCEEDED"}
    /\ devTurn.at = "running" =>
         /\ History!IsPrefix(progress.head, progress'.head)
         /\ MovesHead(mutations'[r]) => History!IsPrefix(mutations'[r].head, progress'.head)
         /\ \/ progress'.head = progress.head
            \/ /\ mutations'[r].turn = devTurn.n /\ mutations'[r].tool = "publish" /\ mutations'[r].tip = progress'.head
               /\ mutations'[r].sent = "landed" /\ mutations'[r].state \in {"UNKNOWN", "SUCCEEDED"}

\* The other rows stay what they were.
LEMMA RowStepRows ==
    ASSUME PublicationInv, HubGrows, NEW r, RowStep(r), RowSound(r)'
    PROVE  RowsSound'
<1> SUFFICES ASSUME NEW s \in DOMAIN mutations, s # r PROVE RowSound(s)'
  BY DEF RowsSound, RowStep
<1>1. mutations'[s] = mutations[s] /\ RowSound(s)
  BY DEF RowStep, PublicationInv, RowsSound
<1>. QED  BY <1>1, HubKeeps DEF RowSound, SoundRow, HubGrows

\* No other row is opened.
LEMMA RowStepTurn ==
    ASSUME PublicationInv, NEW r, RowStep(r), RowInTurn(r)',
           devTurn.at \in Recovering => progress'.pull = progress.pull
    PROVE  TurnSound'
<1>1. ASSUME NEW s \in DOMAIN mutations', s # r PROVE RowInTurn(s)'
  <2>1. mutations'[s] = mutations[s] /\ RowInTurn(s) /\ s \in DOMAIN mutations
    BY <1>1 DEF RowStep, PublicationInv, TurnSound
  <2>. QED  BY <1>1, <2>1 DEF RowInTurn, RowStep
<1>2. \A s \in DOMAIN mutations' : RowInTurn(s)'
  BY <1>1
<1>3. Asked # {} => Asked' # {}
  <2> SUFFICES ASSUME NEW s \in Asked PROVE s \in Asked'
    OBVIOUS
  <2>1. s \in DOMAIN mutations /\ mutations[s].turn = devTurn.n /\ mutations[s].tool = "review" /\ mutations[s].state = "SUCCEEDED"
    BY DEF Asked, Mine
  <2>2. s \in DOMAIN mutations' /\ mutations'[s].turn = devTurn'.n /\ mutations'[s].tool = "review" /\ mutations'[s].state = "SUCCEEDED"
    BY <2>1 DEF RowStep, SettledRow
  <2>. QED  BY <2>2 DEF Asked, Mine
<1>4. devTurn.at \in Recovering \cup {"running"} => devTurn'.cursor = 0
  BY DEF RowStep, PublicationInv, TurnSound, Recovering
<1>. QED  BY <1>2, <1>3, <1>4 DEF RowStep, PublicationInv, TurnSound

\* The Change Proposal stays proven by its row.
LEMMA RowStepProposal ==
    ASSUME PublicationInv, HubGrows, NEW r, RowStep(r)
    PROVE  ProposalSound'
<1> SUFFICES ASSUME proposal # Unbound PROVE ProposalSound'
  BY DEF RowStep, ProposalSound
<1>1. PICK s \in DOMAIN mutations : /\ mutations[s].tool = "publish" /\ mutations[s].tip = proposal.head
                                    /\ mutations[s].state = "SUCCEEDED"
  BY DEF PublicationInv, ProposalSound
<1>2. s \in DOMAIN mutations' /\ mutations'[s].tool = "publish" /\ mutations'[s].tip = proposal.head /\ mutations'[s].state = "SUCCEEDED"
  BY <1>1 DEF RowStep, SettledRow
<1>. QED  BY <1>2, HubKeeps DEF PublicationInv, ProposalSound, RowStep

\* What the turn goes on from stays the end of the ledger, and known.
LEMMA RowStepProgress ==
    ASSUME PublicationInv, PublicationTypeOK', RowsSound', HubGrows, NEW r, RowStep(r), ProgressStep(r)
    PROVE  ProgressSound'
<1> USE DEF PublicationInv
<1>0. /\ DOMAIN mutations' = DOMAIN mutations /\ bound' = bound /\ devTurn'.n = devTurn.n /\ devTurn'.at = devTurn.at
      /\ \A s \in DOMAIN mutations : SettledRow(mutations[s], mutations'[s])
  <2>1. ASSUME NEW s \in DOMAIN mutations, s # r PROVE SettledRow(mutations[s], mutations'[s])
    BY <2>1 DEF RowStep, SettledRow
  <2>. QED  BY <2>1 DEF RowStep
<1>1. branch' # NoCommit => branch' \in visited'
  BY DEF HubGrows
<1>2. devTurn.at \in Recovering \ {"observe"} => Earlier'.ok /\ Earlier'.head # NoCommit
  <2> SUFFICES ASSUME devTurn.at \in Recovering PROVE Earlier' = Earlier
    BY DEF ProgressSound
  <2>1. ASSUME NEW s \in DOMAIN mutations PROVE SameRow(mutations[s], mutations'[s]) /\ mutations'[s].turn = mutations[s].turn
    <3>1. mutations[s].state \in {"SUCCEEDED", "FAILED"}
      BY RowsAreSettled DEF Recovering
    <3>. QED  BY <3>1, <1>0 DEF SameRow, SettledRow
  <2>. QED  BY <2>1, EarlierKept DEF RowStep
<1>3. bound.head # NoCommit => \E s \in DOMAIN mutations : MovesHead(mutations'[s]) /\ mutations'[s].head = bound.head
  <2> SUFFICES ASSUME bound.head # NoCommit PROVE \E s \in DOMAIN mutations : MovesHead(mutations'[s]) /\ mutations'[s].head = bound.head
    OBVIOUS
  <2>1. PICK s \in DOMAIN mutations : MovesHead(mutations[s]) /\ mutations[s].head = bound.head
    BY DEF ProgressSound
  <2>. QED  BY <1>0, <2>1 DEF MovesHead, SettledRow
<1>4. bound.pull # 0 => bound.head # NoCommit /\ IsOpened(bound.pull)'
  <2>1. PICK p : p = bound.pull
    OBVIOUS
  <2>2. bound.pull # 0 => bound.head # NoCommit /\ IsOpened(p)
    BY <2>1 DEF ProgressSound
  <2>3. IsOpened(p) => IsOpened(p)'
    BY HubKeeps
  <2>. QED  BY <2>1, <2>2, <2>3, <1>0 DEF IsOpened
<1>5. devTurn.at = "running" =>
         \A s \in DOMAIN mutations : MovesHead(mutations'[s]) => History!IsPrefix(mutations'[s].head, progress'.head)
  <2> SUFFICES ASSUME devTurn.at = "running", NEW s \in DOMAIN mutations, s # r, MovesHead(mutations'[s])
               PROVE  History!IsPrefix(mutations'[s].head, progress'.head)
    BY DEF ProgressStep
  <2>1. mutations'[s] = mutations[s] /\ MovesHead(mutations[s])
    BY DEF RowStep
  <2>2. History!IsPrefix(mutations[s].head, progress.head)
    BY <2>1 DEF ProgressSound
  <2>3. mutations[s].head \in Commits
    BY <2>1, RowsWellFormed DEF WellFormed
  <2>. QED  BY <2>1, <2>2, <2>3, PrefixTransitive DEF ProgressStep, PublicationTypeOK
<1>6. Mine' = Mine
  BY <1>0 DEF Mine, SettledRow
<1>7. \A s \in Mine : mutations'[s].tool = "review" => progress'.pull # 0
  BY <1>0, RowFacts DEF ProgressSound, SettledRow, ProgressStep, Mine
<1>8. devTurn.at # "over" => (progress'.pull # 0 => \/ progress'.pull = bound.pull
                                \/ \E s \in Mine : mutations'[s].tool = "open" /\ mutations'[s].state \in {"UNKNOWN", "SUCCEEDED"})
  <2> SUFFICES ASSUME devTurn.at # "over", progress'.pull # 0, progress'.pull # bound.pull
               PROVE  \E s \in Mine : mutations'[s].tool = "open" /\ mutations'[s].state \in {"UNKNOWN", "SUCCEEDED"}
    OBVIOUS
  <2>1. CASE progress'.pull = progress.pull
    <3>1. PICK s \in Mine : mutations[s].tool = "open" /\ mutations[s].state \in {"UNKNOWN", "SUCCEEDED"}
      BY <2>1 DEF ProgressSound
    <3>2. s \in DOMAIN mutations
      BY DEF Mine
    <3>. QED  BY <3>1, <3>2, <1>0 DEF SettledRow
  <2>2. CASE progress'.pull # progress.pull
    BY <2>2 DEF ProgressStep, Mine, RowStep
  <2>. QED  BY <2>1, <2>2
<1>9. ASSUME NEW CONSTANT commit, Sourced(commit) PROVE Sourced(commit)'
  <2>1. CASE commit = bound.head
    BY <2>1, <1>0 DEF Sourced
  <2>2. CASE commit # bound.head
    <3>1. PICK s \in Mine : /\ mutations[s].tool = "publish" /\ mutations[s].tip = commit
                            /\ mutations[s].sent = "landed" /\ mutations[s].state \in {"UNKNOWN", "SUCCEEDED"}
      BY <2>2, <1>9 DEF Sourced
    <3>2. SettledRow(mutations[s], mutations'[s])
      BY <1>0 DEF Mine
    <3>3. /\ mutations'[s].tool = "publish" /\ mutations'[s].tip = commit
          /\ mutations'[s].sent = "landed" /\ mutations'[s].state \in {"UNKNOWN", "SUCCEEDED"}
      BY <3>1, <3>2 DEF SettledRow
    <3>. QED  BY <3>3, <1>6 DEF Sourced
  <2>. QED  BY <2>1, <2>2
<1>10. devTurn.at = "running" /\ bound.head # NoCommit => Sourced(progress.head)'
  <2> SUFFICES ASSUME devTurn.at = "running", bound.head # NoCommit PROVE Sourced(progress.head)'
    OBVIOUS
  <2>1. CASE progress'.head = progress.head
    <3>1. PICK head : head = progress.head
      OBVIOUS
    <3>2. Sourced(head)
      BY <3>1 DEF ProgressSound
    <3>3. Sourced(head)'
      BY <3>2, <1>9
    <3>. QED  BY <3>1, <3>3, <2>1 DEF Sourced
  <2>2. CASE progress'.head # progress.head
    <3>1. r \in Mine'
      BY <2>2, <1>0 DEF ProgressStep, Mine, RowStep
    <3>2. /\ mutations'[r].tool = "publish" /\ mutations'[r].tip = progress'.head
          /\ mutations'[r].sent = "landed" /\ mutations'[r].state \in {"UNKNOWN", "SUCCEEDED"}
      BY <2>2 DEF ProgressStep
    <3>. QED  BY <3>1, <3>2 DEF Sourced
  <2>. QED  BY <2>1, <2>2
<1>11. devTurn.at # "over" /\ bound.head # NoCommit =>
         \A s \in Mine : mutations'[s].tool = "review" => Sourced(mutations[s].old)'
  <2> SUFFICES ASSUME devTurn.at # "over", bound.head # NoCommit, NEW s \in Mine, mutations'[s].tool = "review"
               PROVE  Sourced(mutations[s].old)'
    OBVIOUS
  <2>1. PICK commit : commit = mutations[s].old
    OBVIOUS
  <2>2. mutations[s].tool = "review" /\ mutations'[s].old = commit
    BY <2>1, <1>0 DEF SettledRow, Mine
  <2>3. Sourced(commit)
    BY <2>1, <2>2 DEF ProgressSound
  <2>4. Sourced(commit)'
    BY <2>3, <1>9
  <2>. QED  BY <2>2, <2>4 DEF Sourced
<1>. QED  BY <1>0, <1>1, <1>2, <1>3, <1>4, <1>5, <1>6, <1>7, <1>8, <1>10, <1>11 DEF ProgressSound

\* Together: such a step keeps the invariant when the row and the call stay sound.
LEMMA RowStepKeeps ==
    ASSUME PublicationInv, PublicationTypeOK', HubGrows, NEW r, RowStep(r),
           RowSound(r)', RowInTurn(r)', CallSound', ProgressStep(r)
    PROVE  PublicationInv'
<1>1. RowsSound'
  BY RowStepRows
<1>2. TurnSound'
  BY RowStepTurn DEF ProgressStep, Recovering
<1>3. ProgressSound' /\ ProposalSound'
  BY <1>1, RowStepProgress, RowStepProposal
<1>. QED  BY <1>1, <1>2, <1>3 DEF PublicationInv

-----------------------------------------------------------------------------
(* What people do.                                                         *)

\* A step that leaves the ledger and the turn alone keeps the invariant.
LEMMA HubStep ==
    ASSUME PublicationInv, PublicationTypeOK', HubGrows, UNCHANGED <<mutations, local>>
    PROVE  PublicationInv'
<1> USE DEF PublicationInv, local
<1>1. RowsSound'
  BY HubKeeps DEF RowsSound, RowSound, SoundRow, HubGrows
<1>2. TurnSound' /\ CallSound'
  BY DEF TurnSound, RowInTurn, CallSound, Row, Asked, Mine
<1>3. ProgressSound'
  <2>1. bound.pull # 0 => bound.head # NoCommit /\ IsOpened(bound.pull)'
    <3>1. PICK p : p = bound.pull
      OBVIOUS
    <3>2. bound.pull # 0 => bound.head # NoCommit /\ IsOpened(p)
      BY <3>1 DEF ProgressSound
    <3>. QED  BY <3>1, <3>2, HubKeeps DEF IsOpened
  <2>2. Earlier' = Earlier /\ Mine' = Mine
    BY DEF Earlier, Mine
  <2>. QED  BY <2>1, <2>2 DEF ProgressSound, HubGrows, Sourced
<1>4. ProposalSound'
  <2> SUFFICES ASSUME proposal # Unbound PROVE ProposalSound'
    BY DEF ProposalSound
  <2>1. PICK h : h = proposal.head
    OBVIOUS
  <2>2. PICK p : p = proposal.pull
    OBVIOUS
  <2>3. WasOnBranch(h)' /\ IsOpened(p)'
    BY <2>1, <2>2, HubKeeps DEF ProposalSound
  <2>. QED  BY <2>1, <2>2, <2>3 DEF ProposalSound, WasOnBranch, IsOpened
<1>. QED  BY <1>1, <1>2, <1>3, <1>4

Pulls == Seq([by : Nat, open : BOOLEAN, edited : BOOLEAN])
\* The Pull Requests are a sequence.
LEMMA PullFacts ==
    ASSUME PublicationTypeOK
    PROVE  /\ Len(pulls) \in Nat /\ DOMAIN pulls = 1 .. Len(pulls)
           /\ \A p \in DOMAIN pulls : pulls[p] \in [by : Nat, open : BOOLEAN, edited : BOOLEAN]
<1> DEFINE S == [by : Nat, open : BOOLEAN, edited : BOOLEAN]
<1>1. pulls \in Seq(S)
  BY DEF PublicationTypeOK
<1> HIDE DEF S
<1>2. Len(pulls) \in Nat /\ DOMAIN pulls = 1 .. Len(pulls) /\ \A p \in DOMAIN pulls : pulls[p] \in S
  BY <1>1, LenProperties, ElementOfSeq
<1>. QED  BY <1>2 DEF S

\* A function on the Pull Requests there are is their sequence.
LEMMA PullsAre ==
    ASSUME PublicationTypeOK, NEW f \in [DOMAIN pulls -> [by : Nat, open : BOOLEAN, edited : BOOLEAN]]
    PROVE  f \in Pulls
<1> DEFINE S == [by : Nat, open : BOOLEAN, edited : BOOLEAN]
<1>1. Len(pulls) \in Nat /\ f \in [1 .. Len(pulls) -> S]
  BY PullFacts
<1> HIDE DEF S
<1>2. f \in Seq(S)
  BY <1>1, IsASeq
<1>. QED  BY <1>2 DEF S, Pulls

\* A push of a person adds a head, or leads back to one the branch had.
LEMMA PersonPushesKeeps ==
    ASSUME PublicationInv, PersonPushes
    PROVE  PublicationInv'
<1> USE DEF PersonPushes
<1>1. CASE branch # NoCommit /\ Moved(Append(branch, 0)) /\ UNCHANGED pulls
  <2>1. Append(branch, 0) \in Commits
    BY <1>1 DEF PublicationInv, PublicationTypeOK, Heads, Commits
  <2>2. PublicationTypeOK'
    BY <1>1, <2>1 DEF PublicationInv, PublicationTypeOK, Moved, local, Heads
  <2>3. HubGrows
    BY <1>1 DEF Moved, HubGrows
  <2>. QED  BY <2>2, <2>3, HubStep
<1>2. CASE branch # NoCommit /\ branch # Base /\ Len(branch) > 1 /\ Moved(History!Front(branch)) /\ UNCHANGED pulls
  <2>1. branch \in Seq(Nat)
    BY <1>2 DEF PublicationInv, PublicationTypeOK, Heads, Commits
  <2>2. History!Front(branch) \in Commits
    BY <1>2, <2>1 DEF History!Front, Commits
  <2>3. PublicationTypeOK'
    BY <1>2, <2>2 DEF PublicationInv, PublicationTypeOK, Moved, local, Heads
  <2>4. HubGrows
    BY <1>2 DEF Moved, HubGrows
  <2>. QED  BY <2>3, <2>4, HubStep
<1>3. CASE branch' = NoCommit /\ UNCHANGED visited /\ pulls' = [p \in DOMAIN pulls |-> [pulls[p] EXCEPT !.open = FALSE]]
  <2>1. \A p \in DOMAIN pulls : /\ pulls'[p] \in [by : Nat, open : BOOLEAN, edited : BOOLEAN]
                                /\ pulls'[p].by = pulls[p].by
    BY <1>3, PullFacts DEF PublicationInv
  <2>2. pulls' \in [DOMAIN pulls -> [by : Nat, open : BOOLEAN, edited : BOOLEAN]]
    BY <1>3, <2>1
  <2>3. PublicationTypeOK'
    BY <1>3, <2>2, PullsAre DEF PublicationInv, PublicationTypeOK, local, Heads, Pulls
  <2>4. HubGrows
    BY <1>3, <2>1 DEF HubGrows
  <2>. QED  BY <2>3, <2>4, HubStep
<1>. QED  BY <1>1, <1>2, <1>3

\* A Pull Request that is opened, closed or edited by a person stays whose it was.
LEMMA PersonEditsKeeps ==
    ASSUME PublicationInv, PersonEdits
    PROVE  PublicationInv'
<1> USE DEF PersonEdits
<1>0. branch' = branch /\ visited' = visited /\ (branch # NoCommit => branch \in visited)
  BY DEF PublicationInv, ProgressSound
<1>1. CASE pulls' = Append(pulls, [by |-> 0, open |-> TRUE, edited |-> FALSE])
  <2> DEFINE pull == [by |-> 0, open |-> TRUE, edited |-> FALSE]
  <2>1. pull \in [by : Nat, open : BOOLEAN, edited : BOOLEAN]
    OBVIOUS
  <2> HIDE DEF pull
  <2>2. pulls' \in Pulls
    BY <1>1, <2>1, AppendProperties DEF Pulls, PublicationInv, PublicationTypeOK, pull
  <2>3. \A p \in DOMAIN pulls : p \in DOMAIN pulls' /\ pulls'[p] = pulls[p]
    BY <1>1, <2>1, PullFacts, AppendProperties DEF PublicationInv, PublicationTypeOK, pull
  <2>4. PublicationTypeOK'
    BY <2>2 DEF PublicationInv, PublicationTypeOK, local, Pulls
  <2>5. HubGrows
    BY <1>0, <2>3 DEF HubGrows
  <2>. QED  BY <2>4, <2>5, HubStep
<1>2. ASSUME NEW q \in Open, \/ pulls' = [pulls EXCEPT ![q].open = FALSE]
                             \/ pulls' = [pulls EXCEPT ![q].edited = TRUE]
      PROVE  PublicationInv'
  <2>1. q \in DOMAIN pulls
    BY DEF Open
  <2>2. DOMAIN pulls' = DOMAIN pulls
    BY <1>2
  <2>3. \A p \in DOMAIN pulls : /\ pulls'[p] \in [by : Nat, open : BOOLEAN, edited : BOOLEAN]
                                /\ pulls'[p].by = pulls[p].by
    <3> TAKE p \in DOMAIN pulls
    <3>1. pulls[p] \in [by : Nat, open : BOOLEAN, edited : BOOLEAN]
      BY PullFacts DEF PublicationInv
    <3>2. \/ pulls'[p] = pulls[p]
          \/ pulls'[p] = [pulls[p] EXCEPT !.open = FALSE]
          \/ pulls'[p] = [pulls[p] EXCEPT !.edited = TRUE]
      BY <1>2, <2>1
    <3>. QED  BY <3>1, <3>2
  <2>4. pulls' \in [DOMAIN pulls -> [by : Nat, open : BOOLEAN, edited : BOOLEAN]]
    <3>1. \/ pulls' = [p \in DOMAIN pulls |-> IF p = q THEN [pulls[q] EXCEPT !.open = FALSE] ELSE pulls[p]]
          \/ pulls' = [p \in DOMAIN pulls |-> IF p = q THEN [pulls[q] EXCEPT !.edited = TRUE] ELSE pulls[p]]
      BY <1>2
    <3>2. pulls' = [p \in DOMAIN pulls |-> pulls'[p]]
      BY <3>1
    <3>. QED  BY <3>2, <2>3
  <2>5. PublicationTypeOK'
    BY <2>4, PullsAre DEF PublicationInv, PublicationTypeOK, local, Pulls
  <2>6. HubGrows
    BY <1>0, <2>2, <2>3 DEF HubGrows
  <2>. QED  BY <2>5, <2>6, HubStep
<1>. QED  BY <1>1, <1>2

-----------------------------------------------------------------------------
(* What becomes of a request.                                              *)

\* One row of the ledger is written.
LEMMA OneRow ==
    ASSUME PublicationTypeOK, NEW r \in DOMAIN mutations, NEW row \in Mutations, mutations' = [mutations EXCEPT ![r] = row]
    PROVE  /\ mutations' \in Seq(Mutations) /\ DOMAIN mutations' = DOMAIN mutations /\ Len(mutations') = Len(mutations)
           /\ mutations'[r] = row /\ \A s \in DOMAIN mutations \ {r} : mutations'[s] = mutations[s]
<1>1. mutations \in Seq(Mutations)
  BY DEF PublicationTypeOK
<1>2. r \in 1 .. Len(mutations)
  BY RowFacts
<1>3. mutations' \in Seq(Mutations) /\ Len(mutations') = Len(mutations)
  BY <1>1, <1>2, ExceptSeq
<1>. QED  BY <1>3

\* A request arrives, is refused or is lost: nothing else changes of its row but the head of a Pull Request.
LEMMA SentChanges ==
    ASSUME PublicationInv, NEW r \in DOMAIN mutations, mutations[r].sent = "flying",
           NEW fate \in {"landed", "refused", "lost"}, NEW head \in Heads,
           mutations[r].tool = "publish" => head = mutations[r].head,
           mutations' = [mutations EXCEPT ![r] = [mutations[r] EXCEPT !.sent = fate, !.head = head]],
           HubGrows, branch' \in Heads, visited' \subseteq Commits, pulls' \in Pulls,
           fate = "landed" /\ mutations[r].tool = "publish" => mutations[r].tip \in visited',
           fate = "landed" /\ mutations[r].tool = "open" => HasPull(r)',
           UNCHANGED <<made, local>>
    PROVE  PublicationInv'
<1> DEFINE row == [mutations[r] EXCEPT !.sent = fate, !.head = head]
<1>0. PublicationTypeOK /\ mutations[r] \in Mutations
  BY RowFacts DEF PublicationInv
<1>1. /\ row \in Mutations /\ row.sent = fate /\ row.head = head
      /\ row.turn = mutations[r].turn /\ row.tool = mutations[r].tool /\ row.state = mutations[r].state
      /\ row.old = mutations[r].old /\ row.tip = mutations[r].tip /\ row.lease = mutations[r].lease
  BY <1>0 DEF Mutations
<1>2. /\ mutations' \in Seq(Mutations) /\ DOMAIN mutations' = DOMAIN mutations /\ Len(mutations') = Len(mutations)
      /\ mutations'[r] = row /\ \A s \in DOMAIN mutations \ {r} : mutations'[s] = mutations[s]
  BY <1>0, <1>1, OneRow
<1> HIDE DEF row
<1>3. PublicationTypeOK'
  BY <1>2 DEF PublicationInv, PublicationTypeOK, local, Pulls
<1>4. RowSound(r) /\ RowInTurn(r)
  BY DEF PublicationInv, RowsSound, TurnSound
<1>5. RowStep(r)
  <2>1. SettledRow(mutations[r], mutations'[r])
    BY <1>1, <1>2 DEF SettledRow
  <2>2. \A s \in DOMAIN mutations \ {r} : mutations[s].state = "UNKNOWN" => s > devTurn.cursor
    BY DEF PublicationInv, TurnSound, RowInTurn
  <2>. QED  BY <1>2, <2>1, <2>2 DEF RowStep, local
<1>6. RowSound(r)'
  BY <1>1, <1>2, <1>4, HubKeeps DEF RowSound, SoundRow
<1>7. RowInTurn(r)'
  BY <1>1, <1>2, <1>4 DEF RowInTurn, local
<1>8. ProgressStep(r)
  <2>1. progress' = progress /\ progress.head \in Commits
    BY DEF local, PublicationInv, PublicationTypeOK
  <2>2. MovesHead(mutations'[r]) => MovesHead(mutations[r]) /\ mutations'[r].head = mutations[r].head
    BY <1>1, <1>2 DEF MovesHead
  <2>. QED  BY <2>1, <2>2, PrefixReflexive DEF ProgressStep, PublicationInv, ProgressSound
<1>9. CallSound'
  <2>1. CASE call = NoCall
    BY <2>1 DEF CallSound, local
  <2>2. CASE call # NoCall
    <3>1. call.row \in DOMAIN mutations
      BY <2>2, RowFacts DEF PublicationInv, CallSound
    <3>2. CASE call.row = r
      <4>1. call.at = "answer"
        BY <2>2, <3>2 DEF PublicationInv, CallSound, Row
      <4>. QED  BY <1>1, <1>2, <2>2, <3>2, <4>1 DEF PublicationInv, CallSound, Row, local
    <3>3. CASE call.row # r
      BY <1>2, <2>2, <3>1, <3>3 DEF PublicationInv, CallSound, Row, local
    <3>. QED  BY <3>2, <3>3
  <2>. QED  BY <2>1, <2>2
<1>. QED  BY <1>3, <1>5, <1>6, <1>7, <1>8, <1>9, RowStepKeeps

\* A request that is lost has no effect.
LEMMA RequestLostKeeps ==
    ASSUME PublicationInv, NEW r \in DOMAIN mutations, RequestLost(r)
    PROVE  PublicationInv'
<1>1. mutations[r] \in Mutations
  BY RowFacts DEF PublicationInv
<1>2. [mutations[r] EXCEPT !.sent = "lost"] = [mutations[r] EXCEPT !.sent = "lost", !.head = mutations[r].head]
  BY <1>1 DEF Mutations
<1>3. mutations' = [mutations EXCEPT ![r] = [mutations[r] EXCEPT !.sent = "lost", !.head = mutations[r].head]]
  BY <1>2 DEF RequestLost, Became
<1>4. mutations[r].head \in Heads /\ branch \in Heads /\ visited \subseteq Commits /\ pulls \in Pulls
  BY <1>1 DEF Mutations, PublicationInv, PublicationTypeOK, Pulls
<1>5. HubGrows
  BY DEF RequestLost, hub, HubGrows, PublicationInv, ProgressSound
<1>. QED  BY <1>3, <1>4, <1>5, SentChanges DEF RequestLost, hub

\* A push that lands puts its recorded tip on the branch, a Pull Request that is opened is its own.
LEMMA RequestLandsKeeps ==
    ASSUME PublicationInv, NEW r \in DOMAIN mutations, RequestLands(r)
    PROVE  PublicationInv'
<1> DEFINE row == mutations[r]
           Fated(fate, head) == mutations' = [mutations EXCEPT ![r] = [mutations[r] EXCEPT !.sent = fate, !.head = head]]
<1>1. mutations[r] \in Mutations
  BY RowFacts DEF PublicationInv
<1>2. row.head \in Heads /\ branch \in Heads /\ visited \subseteq Commits /\ pulls \in Pulls
  BY <1>1 DEF Mutations, PublicationInv, PublicationTypeOK, Pulls
<1>3. ASSUME NEW fate, Became(r, fate) PROVE Fated(fate, row.head)
  <2>1. [mutations[r] EXCEPT !.sent = fate] = [mutations[r] EXCEPT !.sent = fate, !.head = row.head]
    BY <1>1 DEF Mutations
  <2>. QED  BY <1>3, <2>1 DEF Became
<1>4. branch # NoCommit => branch \in visited
  BY DEF PublicationInv, ProgressSound
<1>5. row.sent = "flying" /\ UNCHANGED <<made, local>>
  BY DEF RequestLands, local
<1>6. CASE /\ row.tool = "publish" /\ branch # row.tip /\ Accepted(row) /\ Moved(row.tip) /\ Became(r, "landed")
           /\ UNCHANGED pulls
  <2>1. row.tip # NoCommit
    BY <1>5, <1>6 DEF PublicationInv, RowsSound, RowSound, SoundRow
  <2>2. row.tip \in Commits
    BY <1>1, <2>1 DEF Mutations, Heads
  <2>3. /\ HubGrows /\ row.tip \in visited' /\ visited' \subseteq Commits /\ branch' \in Heads /\ pulls' \in Pulls
    BY <1>2, <1>6, <2>1, <2>2 DEF Moved, HubGrows, Heads
  <2>4. Fated("landed", row.head)
    BY <1>3, <1>6
  <2>. QED  BY <1>2, <1>5, <1>6, <2>3, <2>4, SentChanges
<1>7. CASE /\ row.tool = "publish" /\ branch = row.tip /\ Became(r, "landed") /\ UNCHANGED <<branch, visited>>
           /\ UNCHANGED pulls
  <2>1. row.tip # NoCommit
    BY <1>5, <1>7 DEF PublicationInv, RowsSound, RowSound, SoundRow
  <2>2. HubGrows /\ row.tip \in visited'
    BY <1>4, <1>7, <2>1 DEF HubGrows
  <2>3. Fated("landed", row.head)
    BY <1>3, <1>7
  <2>. QED  BY <1>2, <1>5, <1>7, <2>2, <2>3, SentChanges
<1>8. CASE /\ row.tool \in {"publish", "open"} /\ Became(r, "refused") /\ UNCHANGED <<branch, visited, pulls>>
  <2>1. HubGrows
    BY <1>4, <1>8 DEF HubGrows
  <2>2. Fated("refused", row.head)
    BY <1>3, <1>8
  <2>. QED  BY <1>2, <1>5, <1>8, <2>1, <2>2, SentChanges
<1>9. CASE /\ row.tool = "open" /\ branch # NoCommit /\ Open = {}
           /\ pulls'  = Append(pulls, [by |-> r, open |-> TRUE, edited |-> FALSE])
           /\ mutations' = [mutations EXCEPT ![r].sent = "landed", ![r].head = branch]
           /\ UNCHANGED <<branch, visited>>
  <2> DEFINE pull == [by |-> r, open |-> TRUE, edited |-> FALSE]
  <2>1. pull \in [by : Nat, open : BOOLEAN, edited : BOOLEAN] /\ pull.by = r
    BY RowFacts DEF PublicationInv
  <2> HIDE DEF pull
  <2>2. pulls' \in Pulls
    BY <1>9, <2>1, AppendProperties DEF Pulls, PublicationInv, PublicationTypeOK, pull
  <2>3. \A p \in DOMAIN pulls : p \in DOMAIN pulls' /\ pulls'[p] = pulls[p]
    BY <1>9, <2>1, PullFacts, AppendProperties DEF PublicationInv, PublicationTypeOK, pull
  <2>4. pulls'[Len(pulls) + 1] = pull /\ Len(pulls) + 1 \in DOMAIN pulls'
    BY <1>9, <2>1, PullFacts, AppendProperties DEF PublicationInv, PublicationTypeOK, pull
  <2>5. HasPull(r)'
    BY <2>1, <2>4 DEF HasPull
  <2>6. HubGrows
    BY <1>4, <1>9, <2>3 DEF HubGrows
  <2>7. Fated("landed", branch)
    BY <1>9
  <2>. QED  BY <1>2, <1>5, <1>9, <2>2, <2>5, <2>6, <2>7, SentChanges
<1>10. CASE /\ row.tool = "review" /\ Became(r, "landed") /\ UNCHANGED <<branch, visited, pulls>>
  <2>1. HubGrows
    BY <1>4, <1>10 DEF HubGrows
  <2>2. Fated("landed", row.head)
    BY <1>3, <1>10
  <2>. QED  BY <1>2, <1>5, <1>10, <2>1, <2>2, SentChanges
<1>. QED  BY <1>6, <1>7, <1>8, <1>9, <1>10 DEF RequestLands

-----------------------------------------------------------------------------
(* The agent commits, and reserves a mutation.                             *)

\* Only the workspace knows of a commit that is not published.
LEMMA CommitKeeps ==
    ASSUME PublicationInv, Commit
    PROVE  PublicationInv'
<1>1. PICK c \in made \cup {progress.head} : made' = made \cup {Append(c, Cardinality(made))}
  BY DEF Commit
<1>2. made \subseteq Commits /\ IsFiniteSet(made) /\ progress.head \in Commits
  BY DEF PublicationInv, PublicationTypeOK
<1>3. Cardinality(made) \in Nat
  BY <1>2, FS_CardinalityType
<1>4. Append(c, Cardinality(made)) \in Commits
  BY <1>2, <1>3 DEF Commits
<1>5. IsFiniteSet(made')
  BY <1>1, <1>2, FS_AddElement
<1>6. PublicationTypeOK'
  BY <1>1, <1>2, <1>4, <1>5 DEF PublicationInv, PublicationTypeOK, Commit, hub, local
<1>7. HubGrows
  BY DEF Commit, hub, HubGrows, PublicationInv, ProgressSound
<1>. QED  BY <1>6, <1>7, HubStep DEF Commit

\* The new row is the last, starts from the head of the turn and has sent nothing.
LEMMA ReserveKeeps ==
    ASSUME PublicationInv, NEW tool \in {"publish", "open", "review"}, NEW tip \in Commits, NEW where,
           where = (IF tool = "publish" THEN "inspect" ELSE IF tool = "open" THEN "send" ELSE "read"),
           tool = "review" => progress.pull # 0,
           ReserveMutation(tool, tip, where)
    PROVE  PublicationInv'
<1> DEFINE n == Len(mutations) + 1
           row == [turn |-> devTurn.n, tool |-> tool, state |-> "IN_FLIGHT", old |-> progress.head, tip |-> NoCommit, head |-> NoCommit,
                   lease |-> IF progress.exists THEN progress.head ELSE NoCommit, sent |-> "no", why |-> "none"]
<1> USE DEF PublicationInv
<1>0. /\ PublicationTypeOK /\ Len(mutations) \in Nat /\ DOMAIN mutations = 1 .. Len(mutations)
      /\ devTurn.at = "running" /\ call = NoCall /\ call.row = 0
  BY RowFacts DEF ReserveMutation, NoCall
<1>1. /\ row \in Mutations /\ row.turn = devTurn.n /\ row.tool = tool /\ row.state = "IN_FLIGHT" /\ row.old = progress.head
      /\ row.tip = NoCommit /\ row.lease \in {NoCommit, row.old} /\ row.sent = "no"
  <2>1. progress.head \in Heads /\ NoCommit \in Heads /\ devTurn.n \in Nat
    BY <1>0 DEF PublicationTypeOK, Heads, DevTurns
  <2>2. progress.head \in Commits
    BY <1>0 DEF PublicationTypeOK
  <2>3. (IF progress.exists THEN progress.head ELSE NoCommit) \in {NoCommit, progress.head}
    OBVIOUS
  <2>. QED  BY <2>1, <2>2, <2>3 DEF Mutations, Whys
<1> HIDE DEF row
<1>2. /\ mutations' = Append(mutations, row) /\ call' = [row |-> n, at |-> where, tip |-> tip]
      /\ UNCHANGED <<branch, visited, pulls, made, devTurn, bound, progress, proposal>>
  BY DEF ReserveMutation, row, hub
<1>3. /\ mutations' \in Seq(Mutations) /\ Len(mutations') = n /\ DOMAIN mutations' = 1 .. n
      /\ mutations'[n] = row /\ \A r \in DOMAIN mutations : r \in DOMAIN mutations' /\ r # n /\ mutations'[r] = mutations[r]
  <2>1. mutations \in Seq(Mutations)
    BY <1>0 DEF PublicationTypeOK
  <2>. QED  BY <1>0, <1>1, <1>2, <2>1, AppendProperties
<1>4. DOMAIN mutations' = DOMAIN mutations \cup {n} /\ n \in DOMAIN mutations' /\ n # 0
  BY <1>0, <1>3
<1>5. PublicationTypeOK'
  <2>1. call' \in DevCalls
    BY <1>0, <1>2 DEF DevCalls
  <2>. QED  BY <1>2, <1>3, <2>1 DEF PublicationTypeOK
<1>6. RowsSound'
  <2> SUFFICES ASSUME NEW r \in DOMAIN mutations' PROVE RowSound(r)'
    BY DEF RowsSound
  <2>1. CASE r = n
    BY <1>1, <1>3, <2>1 DEF RowSound, SoundRow
  <2>2. CASE r \in DOMAIN mutations
    <3>1. mutations'[r] = mutations[r] /\ RowSound(r)
      BY <1>3, <2>2 DEF RowsSound
    <3>. QED  BY <1>2, <3>1 DEF RowSound, SoundRow, WasOnBranch, HasPull
  <2>. QED  BY <1>4, <2>1, <2>2
<1>7. TurnSound'
  <2>1. ASSUME NEW r \in DOMAIN mutations' PROVE RowInTurn(r)'
    <3>1. CASE r = n
      <4>1. devTurn.n \in Nat /\ devTurn.at = "running" /\ call'.row = n
        BY <1>0, <1>2 DEF PublicationTypeOK, DevTurns
      <4>. QED  BY <1>1, <1>2, <1>3, <3>1, <4>1 DEF RowInTurn, Recovering
    <3>2. CASE r \in DOMAIN mutations
      <4>1. mutations'[r] = mutations[r] /\ RowInTurn(r) /\ r # 0
        BY <1>0, <1>3, <3>2 DEF TurnSound
      <4>. QED  BY <1>0, <1>2, <4>1 DEF RowInTurn
    <3>. QED  BY <1>4, <3>1, <3>2
  <2>. QED  BY <1>0, <1>2, <2>1 DEF TurnSound, Recovering
<1>8. CallSound'
  BY <1>0, <1>1, <1>2, <1>3, <1>4 DEF CallSound, Row
<1>9. ProgressSound'
  <2>1. ~MovesHead(mutations'[n]) /\ \A r \in DOMAIN mutations : MovesHead(mutations'[r]) <=> MovesHead(mutations[r])
    BY <1>1, <1>3 DEF MovesHead
  <2>2. Mine' = Mine \cup {n}
    BY <1>1, <1>2, <1>3, <1>4 DEF Mine
  <2>3. Mine \subseteq DOMAIN mutations
    BY DEF Mine
  <2>4. bound.head # NoCommit => \E r \in DOMAIN mutations' : MovesHead(mutations'[r]) /\ mutations'[r].head = bound.head
    BY <1>3, <2>1 DEF ProgressSound
  <2>5. \A r \in DOMAIN mutations' : MovesHead(mutations'[r]) => History!IsPrefix(mutations'[r].head, progress.head)
    BY <1>0, <1>3, <1>4, <2>1 DEF ProgressSound
  <2>6. \A r \in Mine' : mutations'[r].tool = "review" => progress.pull # 0
    BY <1>1, <1>3, <2>2, <2>3 DEF ProgressSound
  <2>7. progress.pull # 0 => \/ progress.pull = bound.pull
                             \/ \E r \in Mine' : mutations'[r].tool = "open" /\ mutations'[r].state \in {"UNKNOWN", "SUCCEEDED"}
    BY <1>0, <1>3, <2>2, <2>3 DEF ProgressSound
  <2>8. ASSUME NEW CONSTANT commit, Sourced(commit) PROVE Sourced(commit)'
    BY <1>2, <1>3, <2>2, <2>3, <2>8 DEF Sourced
  <2>9. bound.head # NoCommit => Sourced(progress.head)'
    <3>1. PICK commit : commit = progress.head
      OBVIOUS
    <3>2. bound.head # NoCommit => Sourced(commit)
      BY <1>0, <3>1 DEF ProgressSound
    <3>. QED  BY <1>2, <2>8, <3>1, <3>2 DEF Sourced
  <2>10. bound.head # NoCommit => \A r \in Mine' : mutations'[r].tool = "review" => Sourced(mutations[r].old)'
    <3> SUFFICES ASSUME bound.head # NoCommit, NEW r \in Mine', mutations'[r].tool = "review"
                 PROVE  Sourced(mutations[r].old)'
      OBVIOUS
    <3>1. CASE r = n
      <4>1. mutations'[r].old = progress'.head
        BY <1>1, <1>2, <1>3, <3>1
      <4>. QED  BY <2>9, <4>1 DEF Sourced
    <3>2. CASE r \in Mine
      <4>1. PICK commit : commit = mutations[r].old
        OBVIOUS
      <4>2. mutations'[r] = mutations[r]
        BY <1>3, <2>3, <3>2
      <4>3. Sourced(commit)
        BY <1>0, <3>2, <4>1, <4>2 DEF ProgressSound
      <4>. QED  BY <2>8, <4>1, <4>2, <4>3 DEF Sourced
    <3>. QED  BY <2>2, <3>1, <3>2
  <2>11. (branch # NoCommit => branch \in visited) /\ (bound.pull # 0 => bound.head # NoCommit /\ IsOpened(bound.pull)')
    BY <1>2 DEF ProgressSound, IsOpened
  <2>12. devTurn'.at \notin Recovering
    BY <1>0, <1>2 DEF Recovering
  <2>. QED  BY <1>2, <2>4, <2>5, <2>6, <2>7, <2>9, <2>10, <2>11, <2>12 DEF ProgressSound
<1>10. ProposalSound'
  BY <1>2, <1>3 DEF ProposalSound, WasOnBranch, IsOpened
<1>. QED  BY <1>5, <1>6, <1>7, <1>8, <1>9, <1>10

-----------------------------------------------------------------------------
(* The calls of the agent.                                                 *)

\* What the row of the call tells the turn.
Advances(row) ==
    \/ progress' = progress /\ ~MovesHead(row)
    \/ /\ row.tool = "publish" /\ row.tip # NoCommit /\ row.head = row.tip /\ row.sent = "landed"
       /\ row.state \in {"UNKNOWN", "SUCCEEDED"}
       /\ progress'.head = row.tip /\ progress'.pull = progress.pull
    \/ /\ row.tool = "open" /\ row.state \in {"UNKNOWN", "SUCCEEDED"}
       /\ progress'.head = progress.head /\ progress'.pull # 0

\* The call ends with its row settled, or goes on.
GoesOn(r, row) ==
    \/ call' = NoCall /\ row.state # "IN_FLIGHT"
    \/ /\ call'.row = r /\ call'.at # "none" /\ row.state = "IN_FLIGHT" /\ progress' = progress
       /\ call'.at \in {"inspect", "record", "recheck"} => row.tool = "publish"
       /\ call'.at = "read" => row.tool = "review"
       /\ call'.at = "record" => Extends(call'.tip, row.old)
       /\ call'.at \in {"recheck", "send", "answer"} /\ row.tool = "publish" => row.tip # NoCommit
       /\ call'.at # "answer" => row.sent = "no"

\* The turn is in a call about row r.
Calling(r) == devTurn.at = "running" /\ call # NoCall /\ r = call.row

\* The row of a call is the last one, in flight, and of this turn.
LEMMA CallFacts ==
    ASSUME PublicationInv, NEW r, Calling(r)
    PROVE  /\ r \in DOMAIN mutations /\ r = Len(mutations) /\ r \in Nat /\ r > 0 /\ mutations[r] \in Mutations
           /\ mutations[r].turn = devTurn.n /\ mutations[r].state = "IN_FLIGHT" /\ mutations[r].old = progress.head
           /\ call.at # "none" /\ progress.head \in Commits /\ devTurn.n \in Nat /\ devTurn.cursor = 0
           /\ SoundRow(mutations[r], r)
<1>1. /\ r = Len(mutations) /\ r # 0 /\ mutations[r].turn = devTurn.n /\ mutations[r].state = "IN_FLIGHT"
      /\ mutations[r].old = progress.head /\ call.at # "none"
  BY DEF PublicationInv, CallSound, Calling, Row
<1>2. r \in DOMAIN mutations /\ r \in Nat /\ r > 0 /\ mutations[r] \in Mutations
  BY <1>1, RowFacts DEF PublicationInv
<1>3. SoundRow(mutations[r], r)
  BY <1>2 DEF PublicationInv, RowsSound, RowSound
<1>4. progress.head \in Commits /\ devTurn.n \in Nat /\ devTurn.cursor = 0
  BY DEF PublicationInv, PublicationTypeOK, DevTurns, TurnSound, Calling
<1>. QED  BY <1>1, <1>2, <1>3, <1>4

\* A step of a call keeps the invariant when its row stays sound, tells the turn what happened, and is settled last.
LEMMA CallStep ==
    ASSUME PublicationInv, NEW r, Calling(r), NEW row \in Mutations, mutations' = [mutations EXCEPT ![r] = row],
           row.turn = mutations[r].turn, row.tool = mutations[r].tool, row.old = mutations[r].old,
           SoundRow(row, r), Advances(row), GoesOn(r, row),
           UNCHANGED <<hub, made, devTurn, bound, proposal>>,
           call' \in DevCalls, progress' \in [head : Commits, exists : BOOLEAN, pull : Nat]
    PROVE  PublicationInv'
<1>0. PublicationTypeOK
  BY DEF PublicationInv
<1>1. /\ r \in DOMAIN mutations /\ r = Len(mutations) /\ r \in Nat /\ r > 0
      /\ mutations[r].turn = devTurn.n /\ mutations[r].state = "IN_FLIGHT" /\ mutations[r].old = progress.head
      /\ progress.head \in Commits /\ devTurn.n \in Nat /\ devTurn.cursor = 0 /\ devTurn.at = "running" /\ call.row = r
  BY CallFacts DEF Calling
<1>2. /\ mutations' \in Seq(Mutations) /\ DOMAIN mutations' = DOMAIN mutations /\ Len(mutations') = Len(mutations)
      /\ mutations'[r] = row /\ \A s \in DOMAIN mutations \ {r} : mutations'[s] = mutations[s]
  BY <1>0, <1>1, OneRow
<1>3. UNCHANGED <<branch, visited, pulls, made, devTurn, bound, proposal>>
  BY DEF hub
<1>4. PublicationTypeOK'
  BY <1>0, <1>2, <1>3 DEF PublicationTypeOK
<1>5. HubGrows
  BY <1>3 DEF HubGrows, PublicationInv, ProgressSound
<1>6. RowStep(r)
  <2>1. SettledRow(mutations[r], mutations'[r])
    BY <1>1, <1>2 DEF SettledRow
  <2>2. \A s \in DOMAIN mutations \ {r} : mutations[s].state = "UNKNOWN" => s > devTurn.cursor
    BY DEF PublicationInv, TurnSound, RowInTurn
  <2>. QED  BY <1>1, <1>2, <1>3, <2>1, <2>2 DEF RowStep
<1>7. RowSound(r)'
  BY <1>2, <1>3 DEF RowSound, SoundRow, WasOnBranch, HasPull
<1>8. RowInTurn(r)'
  <2>1. row.state = "IN_FLIGHT" => call'.row = r
    BY DEF GoesOn
  <2>2. devTurn'.at = "running" /\ devTurn'.at \notin Recovering /\ row.turn = devTurn'.n /\ devTurn'.n \in Nat /\ r > devTurn'.cursor
    BY <1>1, <1>3 DEF Recovering
  <2>. QED  BY <1>2, <2>1, <2>2 DEF RowInTurn
<1>9. CallSound'
  <2>1. CASE call' = NoCall
    BY <2>1 DEF CallSound
  <2>2. CASE call' # NoCall
    <3>1. call'.row = r /\ row.state = "IN_FLIGHT" /\ progress' = progress
      BY <2>2 DEF GoesOn
    <3>. QED  BY <1>1, <1>2, <1>3, <2>2, <3>1 DEF GoesOn, CallSound, Row
  <2>. QED  BY <2>1, <2>2
<1>10. ProgressStep(r)
  <2>1. CASE progress' = progress /\ ~MovesHead(row)
    BY <1>1, <1>2, <2>1, PrefixReflexive DEF ProgressStep
  <2>2. CASE /\ row.tool = "publish" /\ row.tip # NoCommit /\ row.head = row.tip /\ row.sent = "landed"
             /\ row.state \in {"UNKNOWN", "SUCCEEDED"}
             /\ progress'.head = row.tip /\ progress'.pull = progress.pull
    <3>1. Extends(row.tip, progress.head) /\ row.tip \in Commits
      BY <1>1, <2>2 DEF SoundRow, Mutations, Heads
    <3>. QED  BY <1>1, <1>2, <2>2, <3>1, PrefixReflexive DEF ProgressStep, Extends
  <2>3. CASE /\ row.tool = "open" /\ row.state \in {"UNKNOWN", "SUCCEEDED"}
             /\ progress'.head = progress.head /\ progress'.pull # 0
    BY <1>1, <1>2, <2>3, PrefixReflexive DEF ProgressStep, MovesHead
  <2>. QED  BY <2>1, <2>2, <2>3 DEF Advances
<1>. QED  BY <1>4, <1>5, <1>6, <1>7, <1>8, <1>9, <1>10, RowStepKeeps

\* A call that goes on and has written nothing.
LEMMA CallMoves ==
    ASSUME PublicationInv, NEW r, Calling(r), NEW where, call' = [call EXCEPT !.row = r, !.at = where],
           where \in {"record", "send"}, mutations[r].sent = "no", call.tip \in Commits,
           where = "record" => mutations[r].tool = "publish" /\ Extends(call.tip, mutations[r].old),
           where = "send" /\ mutations[r].tool = "publish" => mutations[r].tip # NoCommit,
           UNCHANGED <<hub, made, mutations, devTurn, bound, progress, proposal>>
    PROVE  PublicationInv'
<1>1. r \in DOMAIN mutations /\ r \in Nat /\ mutations[r] \in Mutations /\ SoundRow(mutations[r], r) /\ mutations[r].state = "IN_FLIGHT"
  BY CallFacts
<1>2. call \in DevCalls /\ progress \in [head : Commits, exists : BOOLEAN, pull : Nat]
  BY DEF PublicationInv, PublicationTypeOK
<1>3. call'.row = r /\ call'.at = where /\ call'.tip = call.tip /\ call' \in DevCalls
  BY <1>1, <1>2 DEF DevCalls
<1>4. mutations' = [mutations EXCEPT ![r] = mutations[r]]
  <2>1. mutations = [s \in DOMAIN mutations |-> mutations[s]]
    BY DEF PublicationInv, PublicationTypeOK
  <2>2. mutations = [mutations EXCEPT ![r] = mutations[r]]
    BY <1>1, <2>1
  <2>. QED  BY <2>2
<1>5. GoesOn(r, mutations[r])
  BY <1>1, <1>3 DEF GoesOn
<1>6. Advances(mutations[r])
  BY <1>1 DEF Advances, MovesHead
<1>. QED  BY <1>1, <1>2, <1>3, <1>4, <1>5, <1>6, CallStep DEF hub

\* A call that ends without an effect: the row is settled, or unknown.
LEMMA CallReturns ==
    ASSUME PublicationInv, NEW r, Calling(r),
           NEW state \in {"FAILED", "UNKNOWN"}, NEW why \in Whys,
           Return(state, why),
           UNCHANGED <<hub, made, devTurn, bound, progress, proposal>>
    PROVE  PublicationInv'
<1> DEFINE row == [mutations[r] EXCEPT !.state = state, !.why = why]
<1>1. r \in DOMAIN mutations /\ mutations[r] \in Mutations /\ SoundRow(mutations[r], r) /\ r = call.row
  BY CallFacts DEF Calling
<1>2. mutations' = [mutations EXCEPT ![r] = row]
  BY <1>1 DEF Return, Resolved
<1>3. /\ row \in Mutations /\ row.state = state /\ row.turn = mutations[r].turn /\ row.tool = mutations[r].tool
      /\ row.old = mutations[r].old /\ row.tip = mutations[r].tip /\ row.lease = mutations[r].lease /\ row.sent = mutations[r].sent
  <2>1. state \in {"IN_FLIGHT", "UNKNOWN", "SUCCEEDED", "FAILED"}
    OBVIOUS
  <2>2. row \in Mutations
    BY <1>1, <2>1 DEF Mutations
  <2>3. /\ row.state = state /\ row.turn = mutations[r].turn /\ row.tool = mutations[r].tool
        /\ row.old = mutations[r].old /\ row.tip = mutations[r].tip /\ row.lease = mutations[r].lease /\ row.sent = mutations[r].sent
    BY <1>1 DEF Mutations
  <2>. QED  BY <2>2, <2>3
<1> HIDE DEF row
<1>4. SoundRow(row, r)
  BY <1>1, <1>3 DEF SoundRow
<1>5. Advances(row)
  BY <1>3 DEF Advances, MovesHead
<1>6. GoesOn(r, row)
  BY <1>3 DEF GoesOn, Return
<1>7. call' \in DevCalls /\ progress' \in [head : Commits, exists : BOOLEAN, pull : Nat]
  <2>1. NoCall \in DevCalls
    BY DEF NoCall, DevCalls, Base, Commits
  <2>. QED  BY <2>1 DEF Return, PublicationInv, PublicationTypeOK
<1>. QED  BY <1>2, <1>3, <1>4, <1>5, <1>6, <1>7, CallStep

\* What is published already succeeds without a push; what does not descend from the head is refused.
LEMMA InspectRemoteKeeps ==
    ASSUME PublicationInv, InspectRemote
    PROVE  PublicationInv'
<1>1. PICK r : r = call.row
  OBVIOUS
<1>2. Calling(r)
  BY <1>1 DEF InspectRemote, InCall, Calling, NoCall
<1>3. /\ r \in DOMAIN mutations /\ mutations[r] \in Mutations /\ SoundRow(mutations[r], r) /\ Row = mutations[r]
      /\ mutations[r].old \in Commits /\ mutations[r].tool = "publish" /\ mutations[r].sent = "no"
  <2>1. r \in DOMAIN mutations /\ mutations[r] \in Mutations /\ SoundRow(mutations[r], r) /\ Row = mutations[r]
    BY <1>1, <1>2, CallFacts DEF Row
  <2>2. Row.tool = "publish" /\ Row.sent = "no"
    BY <1>2 DEF InspectRemote, InCall, PublicationInv, CallSound, Calling
  <2>. QED  BY <2>1, <2>2 DEF Mutations
<1>4. UNCHANGED <<hub, made, devTurn, bound, progress, proposal>>
  BY DEF InspectRemote, Return, At
<1>5. CASE Return("FAILED", "remote_head") \/ Return("FAILED", "history")
  BY <1>2, <1>4, <1>5, CallReturns DEF Whys
<1>6. CASE /\ mutations' = [mutations EXCEPT ![call.row].state = "SUCCEEDED", ![call.row].head = Row.old]
           /\ call' = NoCall
  <2> DEFINE row == [mutations[r] EXCEPT !.state = "SUCCEEDED", !.head = mutations[r].old]
  <2>1. mutations' = [mutations EXCEPT ![r] = row]
    BY <1>1, <1>3, <1>6
  <2>2. /\ row \in Mutations /\ row.state = "SUCCEEDED" /\ row.turn = mutations[r].turn /\ row.tool = "publish" /\ row.head = row.old
        /\ row.old = mutations[r].old /\ row.tip = mutations[r].tip /\ row.lease = mutations[r].lease /\ row.sent = mutations[r].sent
    BY <1>3 DEF Mutations, Heads
  <2> HIDE DEF row
  <2>3. SoundRow(row, r)
    BY <1>3, <2>2 DEF SoundRow
  <2>4. Advances(row) /\ GoesOn(r, row)
    BY <1>4, <1>6, <2>2 DEF Advances, MovesHead, GoesOn
  <2>5. call' \in DevCalls /\ progress' \in [head : Commits, exists : BOOLEAN, pull : Nat]
    <3>1. NoCall \in DevCalls
      BY DEF NoCall, DevCalls, Base, Commits
    <3>. QED  BY <1>4, <1>6, <3>1 DEF PublicationInv, PublicationTypeOK
  <2>. QED  BY <1>2, <1>3, <1>4, <2>1, <2>2, <2>3, <2>4, <2>5, CallStep
<1>7. CASE Extends(call.tip, Row.old) /\ At(call.row, "record") /\ UNCHANGED <<mutations, progress>>
  <2>1. call.tip \in Commits
    BY DEF PublicationInv, PublicationTypeOK, DevCalls
  <2>. QED  BY <1>1, <1>2, <1>3, <1>4, <1>7, <2>1, CallMoves DEF At
<1>. QED  BY <1>5, <1>6, <1>7 DEF InspectRemote

\* The tip that is recorded descends from the head the call started from.
LEMMA RecordTipKeeps ==
    ASSUME PublicationInv, RecordTip
    PROVE  PublicationInv'
<1>1. PICK r : r = call.row
  OBVIOUS
<1>2. Calling(r) /\ UNCHANGED <<hub, made, devTurn, bound, progress, proposal>>
  BY <1>1 DEF RecordTip, InCall, Calling, NoCall
<1>3. /\ r \in DOMAIN mutations /\ r \in Nat /\ mutations[r] \in Mutations /\ SoundRow(mutations[r], r)
      /\ mutations[r].tool = "publish" /\ mutations[r].sent = "no" /\ mutations[r].state = "IN_FLIGHT"
      /\ Extends(call.tip, mutations[r].old) /\ call.tip \in Commits
  <2>1. r \in DOMAIN mutations /\ r \in Nat /\ mutations[r] \in Mutations /\ SoundRow(mutations[r], r) /\ Row = mutations[r]
    BY <1>1, <1>2, CallFacts DEF Row
  <2>2. Row.tool = "publish" /\ Row.sent = "no" /\ Row.state = "IN_FLIGHT" /\ Extends(call.tip, Row.old)
    BY <1>2 DEF RecordTip, InCall, PublicationInv, CallSound, Calling
  <2>3. call.tip \in Commits
    BY DEF PublicationInv, PublicationTypeOK, DevCalls
  <2>. QED  BY <2>1, <2>2, <2>3
<1> DEFINE row == [mutations[r] EXCEPT !.tip = call.tip]
<1>4. mutations' = [mutations EXCEPT ![r] = row]
  BY <1>1 DEF RecordTip
<1>5. row \in Mutations
  BY <1>3 DEF Mutations, Heads
<1>6. /\ row.state = mutations[r].state /\ row.turn = mutations[r].turn /\ row.tool = "publish" /\ row.tip = call.tip
      /\ row.old = mutations[r].old /\ row.head = mutations[r].head /\ row.lease = mutations[r].lease /\ row.sent = mutations[r].sent
  BY <1>3 DEF Mutations
<1> HIDE DEF row
<1>7. SoundRow(row, r) /\ row.tip # NoCommit
  BY <1>3, <1>6, NoCommitIsNone DEF SoundRow
<1>8. Advances(row)
  BY <1>2, <1>3, <1>6 DEF Advances, MovesHead
<1>9. call' \in DevCalls /\ call'.row = r /\ call'.at = "recheck"
  BY <1>1, <1>3 DEF RecordTip, At, PublicationInv, PublicationTypeOK, DevCalls
<1>10. GoesOn(r, row)
  BY <1>2, <1>3, <1>6, <1>7, <1>9 DEF GoesOn
<1>11. progress' \in [head : Commits, exists : BOOLEAN, pull : Nat]
  BY <1>2 DEF PublicationInv, PublicationTypeOK
<1>. QED  BY <1>2, <1>3, <1>4, <1>5, <1>6, <1>7, <1>8, <1>9, <1>10, <1>11, CallStep

\* The branch is read once more, with the tip recorded.
LEMMA RecheckKeeps ==
    ASSUME PublicationInv, Recheck
    PROVE  PublicationInv'
<1>1. PICK r : r = call.row
  OBVIOUS
<1>2. Calling(r) /\ UNCHANGED <<hub, made, devTurn, bound, progress, proposal>>
  BY <1>1 DEF Recheck, InCall, Calling, NoCall
<1>3. CASE Return("FAILED", "remote_head")
  BY <1>2, <1>3, CallReturns DEF Whys
<1>4. CASE At(call.row, "send") /\ UNCHANGED mutations
  <2>1. mutations[r].sent = "no" /\ mutations[r].tip # NoCommit
    BY <1>1, <1>2 DEF Recheck, InCall, PublicationInv, CallSound, Calling, Row
  <2>2. call.tip \in Commits
    BY DEF PublicationInv, PublicationTypeOK, DevCalls
  <2>. QED  BY <1>1, <1>2, <1>4, <2>1, <2>2, CallMoves DEF At
<1>. QED  BY <1>3, <1>4 DEF Recheck

\* A request for a review sends nothing before the Pull Request was read.
LEMMA ReadPullKeeps ==
    ASSUME PublicationInv, ReadPull
    PROVE  PublicationInv'
<1>1. PICK r : r = call.row
  OBVIOUS
<1>2. Calling(r) /\ UNCHANGED <<hub, made, devTurn, bound, progress, proposal>>
  BY <1>1 DEF ReadPull, InCall, Calling, NoCall
<1>3. CASE Return("FAILED", "pull_mismatch")
  BY <1>2, <1>3, CallReturns DEF Whys
<1>4. CASE At(call.row, "send") /\ UNCHANGED mutations
  <2>1. mutations[r].sent = "no" /\ mutations[r].tool = "review"
    BY <1>1, <1>2 DEF ReadPull, InCall, PublicationInv, CallSound, Calling, Row
  <2>2. call.tip \in Commits
    BY DEF PublicationInv, PublicationTypeOK, DevCalls
  <2>. QED  BY <1>1, <1>2, <1>4, <2>1, <2>2, CallMoves DEF At
<1>. QED  BY <1>3, <1>4 DEF ReadPull

\* What is sent is on record.
LEMMA SendRequestKeeps ==
    ASSUME PublicationInv, SendRequest
    PROVE  PublicationInv'
<1>1. PICK r : r = call.row
  OBVIOUS
<1>2. Calling(r) /\ UNCHANGED <<hub, made, devTurn, bound, progress, proposal>>
  BY <1>1 DEF SendRequest, InCall, Calling, NoCall
<1>3. /\ r \in DOMAIN mutations /\ r \in Nat /\ mutations[r] \in Mutations /\ SoundRow(mutations[r], r)
      /\ mutations[r].state = "IN_FLIGHT" /\ (mutations[r].tool = "publish" => mutations[r].tip # NoCommit)
  <2>1. /\ r \in DOMAIN mutations /\ r \in Nat /\ mutations[r] \in Mutations /\ SoundRow(mutations[r], r) /\ Row = mutations[r]
        /\ mutations[r].state = "IN_FLIGHT"
    BY <1>1, <1>2, CallFacts DEF Row
  <2>2. Row.tool = "publish" => Row.tip # NoCommit
    BY <1>2 DEF SendRequest, InCall, PublicationInv, CallSound, Calling
  <2>. QED  BY <2>1, <2>2
<1> DEFINE row == [mutations[r] EXCEPT !.sent = "flying"]
<1>4. mutations' = [mutations EXCEPT ![r] = row]
  BY <1>1 DEF SendRequest, Became
<1>5. row \in Mutations
  BY <1>3 DEF Mutations
<1>6. /\ row.state = mutations[r].state /\ row.turn = mutations[r].turn /\ row.tool = mutations[r].tool /\ row.tip = mutations[r].tip
      /\ row.old = mutations[r].old /\ row.head = mutations[r].head /\ row.lease = mutations[r].lease /\ row.sent = "flying"
  BY <1>3 DEF Mutations
<1> HIDE DEF row
<1>7. SoundRow(row, r)
  BY <1>3, <1>6 DEF SoundRow
<1>8. Advances(row)
  BY <1>2, <1>3, <1>6 DEF Advances, MovesHead
<1>9. call' \in DevCalls /\ call'.row = r /\ call'.at = "answer"
  BY <1>1, <1>3 DEF SendRequest, At, PublicationInv, PublicationTypeOK, DevCalls
<1>10. GoesOn(r, row)
  BY <1>2, <1>3, <1>6, <1>9 DEF GoesOn
<1>11. progress' \in [head : Commits, exists : BOOLEAN, pull : Nat]
  BY <1>2 DEF PublicationInv, PublicationTypeOK
<1>. QED  BY <1>2, <1>3, <1>4, <1>5, <1>6, <1>7, <1>8, <1>9, <1>10, <1>11, CallStep

\* Without an answer the row says that nothing is known.
LEMMA UnheardKeeps ==
    ASSUME PublicationInv, Unheard
    PROVE  PublicationInv'
<1>1. PICK r : r = call.row
  OBVIOUS
<1>2. Calling(r) /\ UNCHANGED <<hub, made, devTurn, bound, progress, proposal>>
  BY <1>1 DEF Unheard, InCall, Calling, NoCall
<1>3. Return("FAILED", "refused") \/ Return("UNKNOWN", "none")
  BY DEF Unheard
<1>. QED  BY <1>2, <1>3, CallReturns DEF Whys

\* An answer moves the turn to what has landed.
LEMMA HearKeeps ==
    ASSUME PublicationInv, Hear
    PROVE  PublicationInv'
<1>1. PICK r : r = call.row
  OBVIOUS
<1>2. Calling(r) /\ UNCHANGED <<hub, made, devTurn, bound, proposal>> /\ call' = NoCall
  BY <1>1 DEF Hear, InCall, Calling, NoCall
<1>3. /\ r \in DOMAIN mutations /\ r \in Nat /\ mutations[r] \in Mutations /\ SoundRow(mutations[r], r)
      /\ mutations[r].sent = "landed" /\ Row = mutations[r] /\ mutations[r].tool \in {"publish", "open", "review"}
      /\ mutations[r].old \in Commits
  <2>1. r \in DOMAIN mutations /\ r \in Nat /\ mutations[r] \in Mutations /\ SoundRow(mutations[r], r) /\ Row = mutations[r]
    BY <1>1, <1>2, CallFacts DEF Row
  <2>2. Row.sent = "landed"
    BY DEF Hear
  <2>. QED  BY <2>1, <2>2 DEF Mutations
<1>4. PICK state \in {"SUCCEEDED", "UNKNOWN"} :
         mutations' = [mutations EXCEPT ![call.row].state = state,
                                        ![call.row].head = CASE Row.tool = "publish" -> Row.tip [] OTHER -> Row.old]
  BY DEF Hear
<1> DEFINE head == IF mutations[r].tool = "publish" THEN mutations[r].tip ELSE mutations[r].old
           row == [mutations[r] EXCEPT !.state = state, !.head = head]
<1>5. mutations' = [mutations EXCEPT ![r] = row]
  BY <1>1, <1>3, <1>4
<1>6. head \in Heads
  BY <1>3 DEF Mutations, Heads
<1>7. /\ row \in Mutations
      /\ row.state = state /\ row.turn = mutations[r].turn /\ row.tool = mutations[r].tool /\ row.tip = mutations[r].tip
      /\ row.old = mutations[r].old /\ row.head = head /\ row.lease = mutations[r].lease /\ row.sent = "landed"
  <2> HIDE DEF head
  <2>1. row \in Mutations
    BY <1>3, <1>6 DEF Mutations
  <2>. QED  BY <1>3, <2>1 DEF Mutations
<1> HIDE DEF row
<1>8. /\ mutations[r].tool = "publish" => mutations[r].tip \in Commits /\ mutations[r].tip # NoCommit /\ WasOnBranch(mutations[r].tip)
      /\ mutations[r].tool = "open" => HasPull(r)
  <2>1. mutations[r].tool = "open" => HasPull(r)
    BY <1>3 DEF SoundRow
  <2>2. mutations[r].tool = "publish" => mutations[r].tip \in visited /\ mutations[r].tip # NoCommit
    BY <1>3 DEF SoundRow
  <2>3. visited \subseteq Commits
    BY DEF PublicationInv, PublicationTypeOK
  <2>. QED  BY <2>1, <2>2, <2>3, PrefixReflexive DEF WasOnBranch
<1>9. SoundRow(row, r)
  BY <1>3, <1>7, <1>8 DEF SoundRow
<1>10. GoesOn(r, row)
  BY <1>2, <1>7 DEF GoesOn
<1>11. call' \in DevCalls
  BY <1>2 DEF NoCall, DevCalls, Base, Commits
<1>12. Advances(row) /\ progress' \in [head : Commits, exists : BOOLEAN, pull : Nat]
  <2>0. progress \in [head : Commits, exists : BOOLEAN, pull : Nat]
    BY DEF PublicationInv, PublicationTypeOK
  <2>1. CASE mutations[r].tool = "publish"
    <3>1. progress' = [progress EXCEPT !.head = mutations[r].tip, !.exists = TRUE]
      BY <1>3, <2>1 DEF Hear
    <3>. QED  BY <1>7, <1>8, <2>0, <2>1, <3>1 DEF Advances
  <2>2. CASE mutations[r].tool = "open"
    <3>1. progress' = [progress EXCEPT !.exists = TRUE, !.pull = Opened(call.row)]
      BY <1>3, <2>2 DEF Hear
    <3>2. Opened(call.row) \in DOMAIN pulls
      BY <1>1, <1>8, <2>2 DEF Opened, HasPull
    <3>3. Opened(call.row) \in Nat /\ Opened(call.row) # 0
      BY <3>2, PullFacts DEF PublicationInv
    <3>. QED  BY <1>7, <2>0, <2>2, <3>1, <3>3 DEF Advances
  <2>3. CASE mutations[r].tool = "review"
    <3>1. progress' = progress
      BY <1>3, <2>3 DEF Hear
    <3>. QED  BY <1>7, <2>0, <2>3, <3>1 DEF Advances, MovesHead
  <2>. QED  BY <1>3, <2>1, <2>2, <2>3
<1>. QED  BY <1>2, <1>5, <1>7, <1>9, <1>10, <1>11, <1>12, CallStep

\* An old result that is replayed does not move the head: what the turn goes on from contains it.
LEMMA ReplayKeeps ==
    ASSUME PublicationInv, NEW r \in DOMAIN mutations, ReplayPublication(r)
    PROVE  PublicationInv'
<1> USE DEF PublicationInv
<1>1. /\ mutations[r] \in Mutations /\ progress \in [head : Commits, exists : BOOLEAN, pull : Nat]
      /\ devTurn.at = "running" /\ call = NoCall /\ mutations[r].state = "SUCCEEDED" /\ mutations[r].tool = "publish"
      /\ UNCHANGED <<branch, visited, pulls, made, mutations, devTurn, bound, call, proposal>>
  BY RowFacts DEF ReplayPublication, hub, PublicationTypeOK
<1>2. progress' = progress \/ (progress' = Restored(r) /\ progress.head = mutations[r].old)
  BY DEF ReplayPublication, Replayed
<1>3. progress.head = mutations[r].old => mutations[r].head = mutations[r].old
  <2> SUFFICES ASSUME progress.head = mutations[r].old, mutations[r].head # mutations[r].old PROVE FALSE
    OBVIOUS
  <2>1. MovesHead(mutations[r])
    BY <1>1 DEF MovesHead
  <2>2. History!IsPrefix(mutations[r].head, progress.head)
    BY <1>1, <2>1 DEF ProgressSound
  <2>3. Extends(mutations[r].head, progress.head) /\ mutations[r].head \in Commits
    BY <2>1, RowsWellFormed DEF WellFormed
  <2>4. mutations[r].head = progress.head
    BY <1>1, <2>2, <2>3, PrefixAntisymmetric DEF Extends
  <2>. QED  BY <2>4
<1>4. /\ progress'.head = progress.head /\ progress'.pull = progress.pull
      /\ progress' \in [head : Commits, exists : BOOLEAN, pull : Nat]
  <2>1. CASE progress' = progress
    BY <1>1, <2>1
  <2>2. CASE progress' = Restored(r) /\ progress.head = mutations[r].old
    <3>1. PICK exists \in BOOLEAN : progress' = [progress EXCEPT !.head = mutations[r].head, !.exists = exists]
      <4>1. (progress.exists \/ mutations[r].head # Base) \in BOOLEAN
        BY <1>1
      <4>. QED  BY <1>1, <2>2, <4>1 DEF Restored
    <3>. QED  BY <1>1, <1>3, <2>2, <3>1
  <2>. QED  BY <1>2, <2>1, <2>2
<1>5. PublicationTypeOK'
  BY <1>1, <1>4 DEF PublicationTypeOK
<1>6. RowsSound' /\ TurnSound' /\ CallSound' /\ ProposalSound'
  BY <1>1, <1>4 DEF RowsSound, RowSound, SoundRow, WasOnBranch, HasPull, TurnSound, RowInTurn, Asked, Mine, CallSound, Row,
                    ProposalSound, IsOpened
<1>7. ProgressSound'
  <2>1. Earlier' = Earlier /\ Mine' = Mine
    BY <1>1 DEF Earlier, Mine
  <2>. QED  BY <1>1, <1>4, <2>1 DEF ProgressSound, Sourced, IsOpened
<1>. QED  BY <1>5, <1>6, <1>7

-----------------------------------------------------------------------------
(* The end of a turn.                                                      *)

\* A row that is settled otherwise than by its effect: its process has died, or the search has been given up.
Abandoned(old, new) ==
    /\ old.state \in {"IN_FLIGHT", "UNKNOWN"} /\ new.state \in {"UNKNOWN", "FAILED"}
    /\ new.turn = old.turn /\ new.tool = old.tool /\ new.old = old.old /\ new.tip = old.tip
    /\ new.head = old.head /\ new.lease = old.lease /\ new.sent = old.sent

\* A step of the turn that does not start it keeps the invariant when no row it leaves open is passed over.
LEMMA TurnMoves ==
    ASSUME PublicationInv, PublicationTypeOK', ProposalSound', UNCHANGED <<hub, made, bound, progress>>, call' = NoCall,
           DOMAIN mutations' = DOMAIN mutations,
           \A s \in DOMAIN mutations : \/ mutations'[s] = mutations[s]
                                       \/ Abandoned(mutations[s], mutations'[s]) /\ devTurn'.at \in {"reconcile", "interrupted", "over"},
           devTurn'.at # "over" => \A s \in DOMAIN mutations : mutations'[s].state # mutations[s].state => mutations'[s].state = "UNKNOWN",
           \A s \in DOMAIN mutations : mutations'[s].state # "IN_FLIGHT",
           \A s \in DOMAIN mutations : mutations'[s].state = "UNKNOWN" =>
                mutations[s].turn = devTurn.n /\ devTurn'.at = "reconcile" /\ s > devTurn'.cursor,
           devTurn'.n = devTurn.n, devTurn.at # "over", devTurn'.at # "running",
           devTurn'.at \in Recovering => devTurn.at \in Recovering /\ mutations' = mutations /\ devTurn'.cursor = 0,
           devTurn'.at \in Recovering \ {"observe"} => Earlier.ok /\ Earlier.head # NoCommit,
           devTurn'.at \notin {"settle", "over"} => devTurn'.outcome = "none",
           devTurn'.at = "settle" /\ devTurn'.outcome = "ready" => mutations' = mutations /\ Asked # {}
    PROVE  PublicationInv'
<1> USE DEF PublicationInv
<1>1. UNCHANGED <<branch, visited, pulls, made, bound, progress>>
  BY DEF hub
<1>2. RowsSound'
  <2> SUFFICES ASSUME NEW s \in DOMAIN mutations PROVE RowSound(s)'
    BY DEF RowsSound
  <2>1. SoundRow(mutations[s], s)
    BY DEF RowsSound, RowSound
  <2>2. CASE mutations'[s] = mutations[s]
    BY <1>1, <2>1, <2>2 DEF RowSound, SoundRow, WasOnBranch, HasPull
  <2>3. CASE Abandoned(mutations[s], mutations'[s])
    <3>1. mutations'[s].state # "SUCCEEDED" /\ mutations[s].state # "SUCCEEDED"
      BY <2>3 DEF Abandoned
    <3>. QED  BY <1>1, <2>1, <2>3, <3>1 DEF Abandoned, RowSound, SoundRow, HasPull
  <2>. QED  BY <2>2, <2>3
<1>3. TurnSound'
  <2>1. ASSUME NEW s \in DOMAIN mutations PROVE RowInTurn(s)'
    <3>1. mutations'[s].turn = mutations[s].turn /\ mutations[s].turn <= devTurn.n
      BY DEF Abandoned, TurnSound, RowInTurn
    <3>2. devTurn'.at \in Recovering => mutations[s].turn # devTurn.n
      BY DEF TurnSound, RowInTurn
    <3>. QED  BY <3>1, <3>2 DEF RowInTurn
  <2>2. devTurn'.at \in Recovering => bound = Unbound /\ progress.pull = 0
    BY DEF TurnSound
  <2>3. devTurn'.at = "settle" /\ devTurn'.outcome = "ready" => Asked' # {}
    BY DEF Asked, Mine
  <2>. QED  BY <1>1, <2>1, <2>2, <2>3 DEF TurnSound
<1>4. CallSound'
  BY DEF CallSound
<1>5. ProgressSound'
  <2>1. \A s \in DOMAIN mutations : /\ mutations'[s].turn = mutations[s].turn /\ mutations'[s].tool = mutations[s].tool
                                    /\ mutations'[s].old = mutations[s].old
    BY DEF Abandoned
  <2>2. Mine' = Mine /\ Mine \subseteq DOMAIN mutations
    BY <2>1 DEF Mine
  <2>3. devTurn'.at \in Recovering \ {"observe"} => Earlier'.ok /\ Earlier'.head # NoCommit
    BY DEF Earlier, Recovering
  <2>4. bound.head # NoCommit => \E s \in DOMAIN mutations : MovesHead(mutations'[s]) /\ mutations'[s].head = bound.head
    <3>1. \A s \in DOMAIN mutations : MovesHead(mutations[s]) => mutations'[s] = mutations[s]
      BY DEF MovesHead, Abandoned
    <3>. QED  BY <3>1 DEF ProgressSound
  <2>5. \A s \in Mine : mutations'[s].tool = "review" => progress.pull # 0
    BY <2>1, <2>2 DEF ProgressSound
  <2>6. ASSUME devTurn'.at # "over", NEW s \in Mine, mutations[s].state \in {"UNKNOWN", "SUCCEEDED"}
        PROVE  mutations'[s] = mutations[s] \/ (Abandoned(mutations[s], mutations'[s]) /\ mutations'[s].state = "UNKNOWN")
    BY <2>2, <2>6 DEF Abandoned
  <2>7. devTurn'.at # "over" /\ progress.pull # 0 =>
           \/ progress.pull = bound.pull
           \/ \E s \in Mine : mutations'[s].tool = "open" /\ mutations'[s].state \in {"UNKNOWN", "SUCCEEDED"}
    BY <2>1, <2>2, <2>6 DEF ProgressSound
  <2>8. ASSUME devTurn'.at # "over", NEW CONSTANT commit, Sourced(commit) PROVE Sourced(commit)'
    BY <1>1, <2>1, <2>2, <2>6, <2>8 DEF Sourced, Abandoned
  <2>9. devTurn'.at # "over" /\ bound.head # NoCommit =>
           \A s \in Mine : mutations'[s].tool = "review" => Sourced(mutations[s].old)'
    <3> SUFFICES ASSUME devTurn'.at # "over", bound.head # NoCommit, NEW s \in Mine, mutations'[s].tool = "review"
                 PROVE  Sourced(mutations[s].old)'
      OBVIOUS
    <3>1. PICK commit : commit = mutations[s].old
      OBVIOUS
    <3>2. Sourced(commit) /\ mutations'[s].old = commit
      BY <2>1, <2>2, <3>1 DEF ProgressSound
    <3>. QED  BY <2>8, <3>2 DEF Sourced
  <2>10. (branch # NoCommit => branch \in visited) /\ (bound.pull # 0 => bound.head # NoCommit /\ IsOpened(bound.pull)')
    BY <1>1 DEF ProgressSound, IsOpened
  <2>. QED  BY <1>1, <2>2, <2>3, <2>4, <2>5, <2>7, <2>9, <2>10 DEF ProgressSound
<1>. QED  BY <1>2, <1>3, <1>4, <1>5

\* A turn that is not running has no call.
LEMMA NoCallIsOpen ==
    ASSUME PublicationInv, devTurn.at # "running"
    PROVE  call = NoCall /\ \A s \in DOMAIN mutations : mutations[s].state # "IN_FLIGHT"
<1>1. call = NoCall
  BY DEF PublicationInv, CallSound
<1>2. ASSUME NEW s \in DOMAIN mutations PROVE mutations[s].state # "IN_FLIGHT"
  <2>1. s # 0
    BY RowFacts DEF PublicationInv
  <2>. QED  BY <1>1, <2>1 DEF PublicationInv, TurnSound, RowInTurn, NoCall
<1>. QED  BY <1>1, <1>2

\* A prompt that ends leaves its open rows to the reconciliation.
LEMMA PromptIsOverKeeps ==
    ASSUME PublicationInv, PromptIsOver
    PROVE  PublicationInv'
<1>1. PICK prompt \in {"completed", "cancelled"} :
        devTurn' = [devTurn EXCEPT !.prompt = prompt, !.at = IF LeftOpen = {} THEN "corroborate" ELSE "reconcile"]
  BY DEF PromptIsOver
<1>2. /\ devTurn \in DevTurns /\ devTurn.at = "running" /\ call = NoCall /\ devTurn.cursor = 0 /\ devTurn.outcome = "none"
      /\ UNCHANGED <<hub, made, mutations, bound, progress, call, proposal>>
  BY DEF PromptIsOver, PublicationInv, PublicationTypeOK, TurnSound
<1>3. /\ devTurn' \in DevTurns /\ devTurn'.n = devTurn.n /\ devTurn'.cursor = 0 /\ devTurn'.outcome = "none"
      /\ devTurn'.at = (IF LeftOpen = {} THEN "corroborate" ELSE "reconcile")
  <2>1. PICK at \in {"corroborate", "reconcile"} : at = IF LeftOpen = {} THEN "corroborate" ELSE "reconcile"
    OBVIOUS
  <2>2. devTurn' = [devTurn EXCEPT !.prompt = prompt, !.at = at]
    BY <1>1, <2>1
  <2>. QED  BY <1>2, <2>1, <2>2 DEF DevTurns
<1>4. ASSUME NEW s \in DOMAIN mutations PROVE mutations[s].state # "IN_FLIGHT"
  <2>1. s # 0
    BY RowFacts DEF PublicationInv
  <2>. QED  BY <1>2, <2>1 DEF PublicationInv, TurnSound, RowInTurn, NoCall
<1>5. ASSUME NEW s \in DOMAIN mutations, mutations[s].state = "UNKNOWN"
      PROVE  mutations[s].turn = devTurn.n /\ devTurn'.at = "reconcile" /\ s > devTurn'.cursor
  <2>1. mutations[s].turn = devTurn.n /\ s > devTurn.cursor
    BY <1>5 DEF PublicationInv, TurnSound, RowInTurn
  <2>2. s \in LeftOpen
    BY <1>5, <2>1 DEF LeftOpen, Mine
  <2>. QED  BY <1>2, <1>3, <2>1, <2>2
<1>6. PublicationTypeOK'
  BY <1>2, <1>3 DEF PublicationInv, PublicationTypeOK, hub
<1>7. ProposalSound'
  BY <1>2 DEF PublicationInv, ProposalSound, WasOnBranch, IsOpened, hub
<1>8. devTurn'.at \notin Recovering /\ devTurn'.at \in {"corroborate", "reconcile"}
  BY <1>3 DEF Recovering
<1>. QED  BY <1>2, <1>3, <1>4, <1>5, <1>6, <1>7, <1>8, TurnMoves

\* What a step does to rows it leaves the effects of alone.
LEMMA RowsAreStill ==
    ASSUME PublicationTypeOK, NEW f, mutations' = [s \in DOMAIN mutations |-> f[s]], \A s \in DOMAIN mutations : f[s] \in Mutations
    PROVE  mutations' \in Seq(Mutations) /\ DOMAIN mutations' = DOMAIN mutations /\ \A s \in DOMAIN mutations : mutations'[s] = f[s]
<1>1. mutations' \in [1 .. Len(mutations) -> Mutations] /\ Len(mutations) \in Nat
  BY RowFacts
<1>. QED  BY <1>1, IsASeq

\* A Change Proposal stays proven while no row that succeeded changes.
LEMMA ProposalStays ==
    ASSUME PublicationInv, UNCHANGED <<hub, proposal>>, DOMAIN mutations' = DOMAIN mutations,
           \A s \in DOMAIN mutations : mutations[s].state = "SUCCEEDED" => mutations'[s] = mutations[s]
    PROVE  ProposalSound'
<1> SUFFICES ASSUME proposal # Unbound PROVE ProposalSound'
  BY DEF ProposalSound
<1>1. UNCHANGED <<visited, pulls, proposal>>
  BY DEF hub
<1>2. PICK s \in DOMAIN mutations : mutations[s].tool = "publish" /\ mutations[s].tip = proposal.head /\ mutations[s].state = "SUCCEEDED"
  BY DEF PublicationInv, ProposalSound
<1>3. mutations'[s] = mutations[s]
  BY <1>2
<1>. QED  BY <1>1, <1>2, <1>3 DEF PublicationInv, ProposalSound, WasOnBranch, IsOpened

\* A turn that dies leaves the row of its call unknown.
LEMMA TurnDiesKeeps ==
    ASSUME PublicationInv, TurnDies
    PROVE  PublicationInv'
<1>0. /\ PublicationTypeOK /\ devTurn \in DevTurns /\ devTurn.at = "running" /\ devTurn.cursor = 0 /\ devTurn.outcome = "none"
      /\ call' = NoCall /\ UNCHANGED <<hub, made, bound, progress, proposal>>
  BY DEF TurnDies, PublicationInv, PublicationTypeOK, TurnSound
<1>1. /\ devTurn' \in DevTurns /\ devTurn'.n = devTurn.n /\ devTurn'.cursor = 0 /\ devTurn'.outcome = "none"
      /\ devTurn'.at = (IF LeftOpen = {} THEN "interrupted" ELSE "reconcile")
  <2>1. PICK at \in {"interrupted", "reconcile"} : at = IF LeftOpen = {} THEN "interrupted" ELSE "reconcile"
    OBVIOUS
  <2>2. devTurn' = [devTurn EXCEPT !.prompt = "lost", !.at = at]
    BY <2>1 DEF TurnDies
  <2>. QED  BY <1>0, <2>1, <2>2 DEF DevTurns
<1> DEFINE new == [s \in DOMAIN mutations |-> IF mutations[s].state = "IN_FLIGHT" THEN [mutations[s] EXCEPT !.state = "UNKNOWN"] ELSE mutations[s]]
<1>2. ASSUME NEW s \in DOMAIN mutations
      PROVE  /\ new[s] \in Mutations /\ new[s].state # "IN_FLIGHT"
             /\ new[s] = mutations[s] \/ (Abandoned(mutations[s], new[s]) /\ new[s].state = "UNKNOWN")
  <2>1. mutations[s] \in Mutations
    BY <1>0, RowFacts
  <2>. QED  BY <2>1 DEF Mutations, Abandoned
<1>3. mutations' = [s \in DOMAIN mutations |-> new[s]]
  BY DEF TurnDies
<1> HIDE DEF new
<1>4. mutations' \in Seq(Mutations) /\ DOMAIN mutations' = DOMAIN mutations /\ \A s \in DOMAIN mutations : mutations'[s] = new[s]
  BY <1>0, <1>2, <1>3, RowsAreStill
<1>5. ASSUME NEW s \in DOMAIN mutations, mutations'[s].state = "UNKNOWN"
      PROVE  mutations[s].turn = devTurn.n /\ devTurn'.at = "reconcile" /\ s > devTurn'.cursor
  <2>1. mutations[s].state \in {"IN_FLIGHT", "UNKNOWN"}
    BY <1>2, <1>4, <1>5 DEF Abandoned
  <2>2. mutations[s].turn = devTurn.n
    <3>1. CASE mutations[s].state = "UNKNOWN"
      BY <3>1 DEF PublicationInv, TurnSound, RowInTurn
    <3>2. CASE mutations[s].state = "IN_FLIGHT"
      <4>1. call.row = s /\ s # 0
        BY <1>0, <3>2, RowFacts DEF PublicationInv, TurnSound, RowInTurn
      <4>. QED  BY <4>1 DEF PublicationInv, CallSound, NoCall, Row
    <3>. QED  BY <2>1, <3>1, <3>2
  <2>3. s \in LeftOpen
    BY <2>1, <2>2 DEF LeftOpen, Mine
  <2>4. s > 0
    BY <1>0, RowFacts
  <2>. QED  BY <1>1, <2>2, <2>3, <2>4
<1>6. PublicationTypeOK'
  <2>1. NoCall \in DevCalls
    BY DEF NoCall, DevCalls, Base, Commits
  <2>. QED  BY <1>0, <1>1, <1>4, <2>1 DEF PublicationTypeOK, hub
<1>7. ProposalSound'
  BY <1>0, <1>2, <1>4, ProposalStays DEF Abandoned
<1>8. devTurn'.at \notin Recovering /\ devTurn'.at \in {"interrupted", "reconcile"}
  BY <1>1 DEF Recovering
<1>9. \A s \in DOMAIN mutations : /\ mutations'[s].state # "IN_FLIGHT" /\ (mutations'[s].state # mutations[s].state => mutations'[s].state = "UNKNOWN")
                                  /\ mutations'[s] = mutations[s] \/ Abandoned(mutations[s], mutations'[s])
  BY <1>2, <1>4
<1>. QED  BY <1>0, <1>1, <1>4, <1>5, <1>6, <1>7, <1>8, <1>9, TurnMoves

\* A reconciliation that is given up fails every row that is open.
LEMMA GiveUpKeeps ==
    ASSUME PublicationInv, GiveUp
    PROVE  PublicationInv'
<1>0. /\ PublicationTypeOK /\ devTurn \in DevTurns /\ devTurn.at = "reconcile"
      /\ UNCHANGED <<hub, made, bound, progress, call, proposal>>
  BY DEF GiveUp, PublicationInv, PublicationTypeOK
<1>1. devTurn' \in DevTurns /\ devTurn'.n = devTurn.n /\ devTurn'.at = "over"
  BY <1>0 DEF GiveUp, DevTurns
<1> DEFINE new == [s \in DOMAIN mutations |-> IF s \in LeftOpen THEN [mutations[s] EXCEPT !.state = "FAILED"] ELSE mutations[s]]
<1>2. call = NoCall /\ \A s \in DOMAIN mutations : mutations[s].state # "IN_FLIGHT"
  BY <1>0, NoCallIsOpen
<1>3. ASSUME NEW s \in DOMAIN mutations
      PROVE  /\ new[s] \in Mutations /\ new[s].state \notin {"IN_FLIGHT", "UNKNOWN"}
             /\ new[s] = mutations[s] \/ Abandoned(mutations[s], new[s])
  <2>1. mutations[s] \in Mutations
    BY <1>0, RowFacts
  <2>2. mutations[s].state = "UNKNOWN" => s \in LeftOpen
    BY DEF PublicationInv, TurnSound, RowInTurn, LeftOpen, Mine
  <2>3. s \in LeftOpen => mutations[s].state \in {"IN_FLIGHT", "UNKNOWN"}
    BY DEF LeftOpen
  <2>. QED  BY <1>2, <2>1, <2>2, <2>3 DEF Mutations, Abandoned
<1>4. mutations' = [s \in DOMAIN mutations |-> new[s]]
  BY DEF GiveUp
<1> HIDE DEF new
<1>5. mutations' \in Seq(Mutations) /\ DOMAIN mutations' = DOMAIN mutations /\ \A s \in DOMAIN mutations : mutations'[s] = new[s]
  BY <1>0, <1>3, <1>4, RowsAreStill
<1>6. PublicationTypeOK'
  BY <1>0, <1>1, <1>5 DEF PublicationTypeOK, hub
<1>7. ProposalSound'
  BY <1>0, <1>3, <1>5, ProposalStays DEF Abandoned
<1>8. \A s \in DOMAIN mutations : /\ mutations'[s].state \notin {"IN_FLIGHT", "UNKNOWN"}
                                  /\ mutations'[s] = mutations[s] \/ Abandoned(mutations[s], mutations'[s])
  BY <1>3, <1>5
<1>9. "over" \notin Recovering
  BY DEF Recovering
<1>. QED  BY <1>0, <1>1, <1>2, <1>5, <1>6, <1>7, <1>8, <1>9, TurnMoves

\* A reconciliation ends with no row open.
LEMMA ReconciledKeeps ==
    ASSUME PublicationInv, Reconciled
    PROVE  PublicationInv'
<1>0. /\ PublicationTypeOK /\ devTurn \in DevTurns /\ devTurn.at = "reconcile" /\ devTurn.outcome = "none"
      /\ UNCHANGED <<hub, made, mutations, bound, progress, call, proposal>>
  BY DEF Reconciled, PublicationInv, PublicationTypeOK, TurnSound
<1>1. /\ devTurn' \in DevTurns /\ devTurn'.n = devTurn.n /\ devTurn'.outcome = "none"
      /\ devTurn'.at \in {"corroborate", "interrupted"}
  <2>1. PICK at \in {"corroborate", "interrupted"} : devTurn' = [devTurn EXCEPT !.at = at]
    BY DEF Reconciled
  <2>. QED  BY <1>0, <2>1 DEF DevTurns
<1>2. call = NoCall /\ \A s \in DOMAIN mutations : mutations[s].state # "IN_FLIGHT"
  BY <1>0, NoCallIsOpen
<1>3. ASSUME NEW s \in DOMAIN mutations PROVE mutations[s].state # "UNKNOWN"
  <2>1. mutations[s].state = "UNKNOWN" => s \in Listed
    BY DEF PublicationInv, TurnSound, RowInTurn, Listed, Mine, Deferred
  <2>. QED  BY <2>1 DEF Reconciled
<1>4. PublicationTypeOK'
  BY <1>0, <1>1 DEF PublicationTypeOK, hub
<1>5. ProposalSound'
  BY <1>0, ProposalStays
<1>6. devTurn'.at \notin Recovering
  BY <1>1 DEF Recovering
<1>. QED  BY <1>0, <1>1, <1>2, <1>3, <1>4, <1>5, <1>6, TurnMoves

\* A row that is found succeeded: its tip is on the branch, or its Pull Request is there.
LEMMA ReconcileRowKeeps ==
    ASSUME PublicationInv, NEW r \in DOMAIN mutations, ReconcileRow(r)
    PROVE  PublicationInv'
<1>0. /\ PublicationTypeOK /\ devTurn \in DevTurns /\ devTurn.at = "reconcile" /\ r \in Listed
      /\ mutations[r] \in Mutations /\ SoundRow(mutations[r], r) /\ RowInTurn(r) /\ r \in Nat
      /\ UNCHANGED <<branch, visited, pulls, made, bound, progress, call, proposal>>
  BY RowFacts DEF ReconcileRow, PublicationInv, PublicationTypeOK, RowsSound, RowSound, TurnSound, hub
<1>1. call = NoCall
  BY <1>0, NoCallIsOpen
<1>2. mutations[r].turn = devTurn.n /\ mutations[r].state \in {"UNKNOWN", "SUCCEEDED"} /\ mutations[r].tool \in {"publish", "open", "review"}
  BY <1>0 DEF Listed, Mine, Mutations
<1> DEFINE head == IF mutations[r].tool = "publish" THEN mutations[r].tip ELSE mutations[r].old
           found == [mutations[r] EXCEPT !.state = "SUCCEEDED", !.head = head]
           row == IF mutations[r].state = "SUCCEEDED" THEN mutations[r] ELSE found
<1>3. mutations' = [mutations EXCEPT ![r] = row]
  <2>1. CASE mutations[r].state = "SUCCEEDED"
    <3>1. mutations = [s \in DOMAIN mutations |-> mutations[s]]
      BY <1>0 DEF PublicationTypeOK
    <3>2. mutations = [mutations EXCEPT ![r] = mutations[r]]
      BY <3>1
    <3>. QED  BY <2>1, <3>2 DEF ReconcileRow
  <2>2. CASE mutations[r].state # "SUCCEEDED"
    BY <2>2 DEF ReconcileRow
  <2>. QED  BY <2>1, <2>2
<1>4. /\ row \in Mutations /\ row.state = "SUCCEEDED" /\ row.turn = mutations[r].turn /\ row.tool = mutations[r].tool
      /\ row.tip = mutations[r].tip /\ row.old = mutations[r].old /\ row.lease = mutations[r].lease /\ row.sent = mutations[r].sent
      /\ row.head = (IF mutations[r].state = "SUCCEEDED" THEN mutations[r].head ELSE head)
  <2>1. head \in Heads
    BY <1>0 DEF Mutations, Heads
  <2> HIDE DEF head
  <2>2. row \in Mutations
    BY <1>0, <2>1 DEF Mutations
  <2>. QED  BY <1>0, <1>2, <2>2 DEF Mutations
<1> HIDE DEF row, found
<1>5. /\ mutations' \in Seq(Mutations) /\ DOMAIN mutations' = DOMAIN mutations /\ Len(mutations') = Len(mutations)
      /\ mutations'[r] = row /\ \A s \in DOMAIN mutations \ {r} : mutations'[s] = mutations[s]
  BY <1>0, <1>3, <1>4, OneRow
<1>6. devTurn' \in DevTurns /\ devTurn'.n = devTurn.n /\ devTurn'.at = devTurn.at /\ devTurn'.outcome = devTurn.outcome /\ devTurn'.cursor = r
  BY <1>0 DEF ReconcileRow, DevTurns
<1>7. PublicationTypeOK'
  BY <1>0, <1>5, <1>6 DEF PublicationTypeOK
<1>8. HubGrows
  BY <1>0 DEF HubGrows, PublicationInv, ProgressSound
<1>9. RowStep(r)
  <2>1. SettledRow(mutations[r], mutations'[r])
    BY <1>2, <1>4, <1>5 DEF SettledRow
  <2>2. ASSUME NEW s \in DOMAIN mutations \ {r}, mutations[s].state = "UNKNOWN" PROVE s > devTurn'.cursor
    <3>1. s \in Listed /\ s \in Nat
      BY <1>0, <2>2, RowFacts DEF PublicationInv, TurnSound, RowInTurn, Listed, Mine, Deferred
    <3>2. r <= s
      BY <3>1 DEF ReconcileRow
    <3>. QED  BY <1>0, <1>6, <3>1, <3>2
  <2>. QED  BY <1>0, <1>5, <1>6, <2>1, <2>2 DEF RowStep
<1>10. RowSound(r)'
  <2>1. mutations[r].state # "SUCCEEDED" /\ mutations[r].tool = "publish" => row.tip # NoCommit /\ WasOnBranch(row.tip)
    <3> SUFFICES ASSUME mutations[r].state # "SUCCEEDED", mutations[r].tool = "publish" PROVE row.tip # NoCommit /\ WasOnBranch(row.tip)
      OBVIOUS
    <3>1. FoundOnBranch(mutations[r])
      BY DEF ReconcileRow, FindsEffect
    <3>2. branch \in visited
      BY <3>1 DEF FoundOnBranch, PublicationInv, ProgressSound
    <3>. QED  BY <1>4, <3>1, <3>2 DEF FoundOnBranch, WasOnBranch
  <2>2. mutations[r].tool = "open" => HasPull(r)
    BY <1>0, <1>2 DEF ReconcileRow, FindsEffect, HasPull, SoundRow
  <2>. QED  BY <1>0, <1>4, <1>5, <2>1, <2>2 DEF RowSound, SoundRow, WasOnBranch, HasPull
<1>11. RowInTurn(r)'
  BY <1>0, <1>4, <1>5, <1>6 DEF RowInTurn
<1>12. CallSound'
  BY <1>0, <1>1 DEF CallSound
<1>13. ProgressStep(r)
  BY <1>0 DEF ProgressStep
<1>. QED  BY <1>7, <1>8, <1>9, <1>10, <1>11, <1>12, <1>13, RowStepKeeps

-----------------------------------------------------------------------------
(* The recovery of the next turn, and the settlement.                      *)

\* What earlier turns have published is a chain, when it is proven.
LEMMA EarlierProves ==
    ASSUME PublicationInv
    PROVE  Proven(Earlier, mutations, {r \in DOMAIN mutations : mutations[r].turn < devTurn.n}, NoCommit, Len(mutations))
<1> DEFINE set == {r \in DOMAIN mutations : mutations[r].turn < devTurn.n}
<1>1. Len(mutations) \in Nat /\ set \in SUBSET (1 .. Len(mutations)) /\ \A n \in 1 .. Len(mutations) : WellFormed(mutations[n])
  BY RowFacts, RowsWellFormed DEF PublicationInv
<1>2. NoCommit \in Heads
  BY DEF Heads
<1>3. Earlier = ProofOf(mutations, set, NoCommit)
  BY DEF Earlier
<1> HIDE DEF set
<1>4. Proven(ProofOf(mutations, set, NoCommit), mutations, set, NoCommit, Len(mutations))
  BY <1>1, <1>2, LedgerProves
<1>. QED  BY <1>3, <1>4 DEF set

\* What this turn has published goes on from the publication it was bound to.
LEMMA DerivedProves ==
    ASSUME PublicationInv
    PROVE  Proven(Derived, mutations, Mine, bound.head, Len(mutations))
<1>1. Len(mutations) \in Nat /\ Mine \in SUBSET (1 .. Len(mutations)) /\ \A n \in 1 .. Len(mutations) : WellFormed(mutations[n])
  BY RowFacts, RowsWellFormed DEF PublicationInv, Mine
<1>2. bound.head \in Heads
  BY DEF PublicationInv, PublicationTypeOK
<1>. QED  BY <1>1, <1>2, LedgerProves DEF Derived

\* A turn that has not started owns no row, and everything before it is settled.
LEMMA BeforeTheTurn ==
    ASSUME PublicationInv, devTurn.at \in Recovering
    PROVE  /\ Mine = {} /\ call = NoCall /\ bound = Unbound /\ progress.pull = 0 /\ devTurn.cursor = 0 /\ devTurn.outcome = "none"
           /\ {r \in DOMAIN mutations : mutations[r].turn < devTurn.n} = DOMAIN mutations
           /\ \A r \in DOMAIN mutations : mutations[r].state \notin {"IN_FLIGHT", "UNKNOWN"}
<1>1. devTurn.at \notin {"running", "reconcile", "settle", "over"}
  BY DEF Recovering
<1>2. call = NoCall /\ \A r \in DOMAIN mutations : mutations[r].state # "IN_FLIGHT"
  BY <1>1, NoCallIsOpen
<1>3. ASSUME NEW r \in DOMAIN mutations PROVE mutations[r].turn < devTurn.n /\ mutations[r].state # "UNKNOWN"
  <2>1. mutations[r].turn <= devTurn.n /\ mutations[r].turn # devTurn.n /\ mutations[r].state # "UNKNOWN"
    BY <1>1 DEF PublicationInv, TurnSound, RowInTurn
  <2>2. mutations[r].turn \in Nat /\ devTurn.n \in Nat
    BY RowFacts DEF PublicationInv, PublicationTypeOK, Mutations, DevTurns
  <2>. QED  BY <2>1, <2>2
<1>4. devTurn.n \in Nat
  BY DEF PublicationInv, PublicationTypeOK, DevTurns
<1>5. Mine = {}
  BY <1>3, <1>4 DEF Mine
<1>. QED  BY <1>1, <1>2, <1>3, <1>5 DEF PublicationInv, TurnSound

\* The recovery goes from one proof to the next, or ends the turn.
LEMMA RecoveryMoves ==
    ASSUME PublicationInv, devTurn.at \in Recovering, Keep,
           \/ \E where \in Recovering \ {"observe"} : Go(where) /\ Earlier.ok /\ Earlier.head # NoCommit
           \/ \E outcome \in {"conflict", "failed"} : Over(outcome)
    PROVE  PublicationInv'
<1>0. /\ PublicationTypeOK /\ devTurn \in DevTurns /\ call = NoCall
      /\ UNCHANGED <<hub, made, mutations, bound, progress, call, proposal>>
      /\ devTurn.cursor = 0 /\ devTurn.outcome = "none"
      /\ \A r \in DOMAIN mutations : mutations[r].state \notin {"IN_FLIGHT", "UNKNOWN"}
  BY BeforeTheTurn DEF Keep, PublicationInv, PublicationTypeOK
<1>1. /\ devTurn' \in DevTurns /\ devTurn'.n = devTurn.n /\ devTurn'.cursor = 0
      /\ \/ devTurn'.at = "over"
         \/ devTurn'.at \in Recovering \ {"observe"} /\ devTurn'.outcome = "none" /\ Earlier.ok /\ Earlier.head # NoCommit
  <2>1. CASE \E where \in Recovering \ {"observe"} : Go(where) /\ Earlier.ok /\ Earlier.head # NoCommit
    <3>1. PICK where \in Recovering \ {"observe"} : Go(where)
      BY <2>1
    <3>. QED  BY <1>0, <2>1, <3>1 DEF Go, DevTurns
  <2>2. CASE \E outcome \in {"conflict", "failed"} : Over(outcome)
    <3>1. PICK outcome \in {"conflict", "failed"} : Over(outcome)
      BY <2>2
    <3>. QED  BY <1>0, <3>1 DEF Over, DevTurns
  <2>. QED  BY <2>1, <2>2
<1>2. PublicationTypeOK'
  BY <1>0, <1>1 DEF PublicationTypeOK, hub
<1>3. ProposalSound'
  BY <1>0, ProposalStays
<1>4. "over" \notin Recovering /\ "running" \notin Recovering /\ "settle" \notin Recovering
  BY DEF Recovering
<1>. QED  BY <1>0, <1>1, <1>2, <1>3, <1>4, TurnMoves

\* No proof of the recovery changes what is proven.
LEMMA RecoveryKeeps ==
    ASSUME PublicationInv, Prove \/ VerifyPull \/ Reobserve \/ Unread
    PROVE  PublicationInv'
<1>1. devTurn.at \in Recovering /\ Keep
  BY DEF Prove, VerifyPull, Reobserve, Unread, Recovering
<1>2. CASE Unread
  BY <1>1, <1>2, RecoveryMoves DEF Unread
<1>3. CASE Prove \/ VerifyPull \/ Reobserve
  <2>1. devTurn.at \in Recovering \ {"observe"}
    BY <1>3 DEF Prove, VerifyPull, Reobserve, Recovering
  <2>2. Earlier.ok /\ Earlier.head # NoCommit
    BY <2>1 DEF PublicationInv, ProgressSound
  <2>3. \/ Go("verify") \/ Go("reverify") \/ Go("reobserve") \/ Go("bind")
        \/ Over("conflict")
    BY <1>3 DEF Prove, VerifyPull, Reobserve
  <2>4. {"verify", "reverify", "reobserve", "bind"} \subseteq Recovering \ {"observe"}
    BY DEF Recovering
  <2>. QED  BY <1>1, <2>2, <2>3, <2>4, RecoveryMoves
<1>. QED  BY <1>2, <1>3

\* A turn that starts to run goes on from what the ledger proves.
LEMMA TurnStarts ==
    ASSUME PublicationInv, PublicationTypeOK', devTurn.at \in Recovering, Go("running"),
           UNCHANGED <<hub, made, mutations, call, proposal>>,
           \A r \in DOMAIN mutations : MovesHead(mutations[r]) => History!IsPrefix(mutations[r].head, progress'.head),
           progress'.pull = bound'.pull,
           bound'.head # NoCommit => /\ progress'.head = bound'.head
                                     /\ \E r \in DOMAIN mutations : MovesHead(mutations[r]) /\ mutations[r].head = bound'.head,
           bound'.pull # 0 => bound'.head # NoCommit /\ bound'.pull \in DOMAIN pulls /\ pulls[bound'.pull].by # 0
    PROVE  PublicationInv'
<1> USE DEF PublicationInv
<1>0. /\ Mine = {} /\ call = NoCall /\ devTurn.cursor = 0 /\ devTurn.outcome = "none" /\ devTurn \in DevTurns
      /\ \A r \in DOMAIN mutations : mutations[r].state \notin {"IN_FLIGHT", "UNKNOWN"}
  BY BeforeTheTurn DEF PublicationTypeOK
<1>1. devTurn'.n = devTurn.n /\ devTurn'.at = "running" /\ devTurn'.cursor = 0 /\ devTurn'.outcome = "none"
  BY <1>0 DEF Go, DevTurns
<1>2. UNCHANGED <<branch, visited, pulls, made, mutations, call, proposal>>
  BY DEF hub
<1>3. RowsSound' /\ ProposalSound' /\ CallSound'
  BY <1>0, <1>2 DEF RowsSound, RowSound, SoundRow, WasOnBranch, HasPull, ProposalSound, IsOpened, CallSound
<1>4. "running" \notin Recovering
  BY DEF Recovering
<1>5. TurnSound'
  <2>1. ASSUME NEW r \in DOMAIN mutations PROVE RowInTurn(r)'
    <3>1. mutations[r].turn <= devTurn.n
      BY DEF TurnSound, RowInTurn
    <3>. QED  BY <1>0, <1>1, <1>2, <1>4, <3>1 DEF RowInTurn
  <2>. QED  BY <1>1, <1>2, <1>4, <2>1 DEF TurnSound
<1>6. ProgressSound'
  <2>1. Mine' = {}
    BY <1>0, <1>1, <1>2 DEF Mine
  <2>2. bound'.head # NoCommit => Sourced(progress.head)'
    BY DEF Sourced
  <2>3. branch # NoCommit => branch \in visited
    BY DEF ProgressSound
  <2>4. bound'.pull # 0 => bound'.head # NoCommit /\ IsOpened(bound.pull)'
    BY <1>2 DEF IsOpened
  <2>. QED  BY <1>1, <1>2, <1>4, <2>1, <2>2, <2>3, <2>4 DEF ProgressSound
<1>. QED  BY <1>3, <1>5, <1>6

\* A turn that starts from the default branch has found that nothing was published.
LEMMA ObserveKeeps ==
    ASSUME PublicationInv, Observe
    PROVE  PublicationInv'
<1>0. devTurn.at \in Recovering /\ Keep /\ UNCHANGED <<hub, made, mutations, bound, progress, call, proposal>>
  BY DEF Observe, Recovering, Keep
<1>1. CASE Over("conflict")
  BY <1>0, <1>1, RecoveryMoves
<1>2. CASE Go("prove") /\ Earlier.ok /\ Earlier.head # NoCommit
  <2>1. "prove" \in Recovering \ {"observe"}
    BY DEF Recovering
  <2>. QED  BY <1>0, <1>2, <2>1, RecoveryMoves
<1>3. CASE Go("running") /\ Earlier.ok /\ Earlier.head = NoCommit
  <2>1. bound = Unbound /\ progress.pull = 0 /\ {r \in DOMAIN mutations : mutations[r].turn < devTurn.n} = DOMAIN mutations
    BY <1>0, BeforeTheTurn
  <2>2. Proven(Earlier, mutations, DOMAIN mutations, NoCommit, Len(mutations))
    BY <2>1, EarlierProves
  <2>3. \A r \in DOMAIN mutations : r <= Len(mutations)
    BY RowFacts DEF PublicationInv
  <2>4. \A r \in DOMAIN mutations : ~MovesHead(mutations[r])
    BY <1>3, <2>2, <2>3 DEF Proven
  <2>5. PublicationTypeOK'
    BY <1>0, <1>3 DEF PublicationInv, PublicationTypeOK, hub, Go, DevTurns
  <2>. QED  BY <1>0, <1>3, <2>1, <2>4, <2>5, TurnStarts DEF Unbound
<1>. QED  BY <1>1, <1>2, <1>3 DEF Observe

\* A turn that is bound starts from the end of the chain, with the Pull Request the ledger says was opened.
LEMMA BindPublicationKeeps ==
    ASSUME PublicationInv, BindPublication
    PROVE  PublicationInv'
<1>0. devTurn.at \in Recovering \ {"observe"} /\ Go("running") /\ UNCHANGED <<hub, made, mutations, call, proposal>>
  BY DEF BindPublication, Recovering
<1>1. Earlier.ok /\ Earlier.head # NoCommit
  BY <1>0 DEF PublicationInv, ProgressSound
<1>2. {r \in DOMAIN mutations : mutations[r].turn < devTurn.n} = DOMAIN mutations
  BY <1>0, BeforeTheTurn
<1>3. Proven(Earlier, mutations, DOMAIN mutations, NoCommit, Len(mutations))
  BY <1>2, EarlierProves
<1>4. PICK pull : pull = IF Earlier.pull = 0 THEN 0 ELSE Opened(Earlier.pull)
  OBVIOUS
<1>5. bound' = [head |-> Earlier.head, pull |-> pull] /\ progress' = [head |-> Earlier.head, exists |-> TRUE, pull |-> pull]
  BY <1>4 DEF BindPublication
<1>6. \A r \in DOMAIN mutations : MovesHead(mutations[r]) => History!IsPrefix(mutations[r].head, Earlier.head)
  <2>1. \A r \in DOMAIN mutations : r <= Len(mutations)
    BY RowFacts DEF PublicationInv
  <2>. QED  BY <1>1, <1>3, <2>1 DEF Proven
<1>7. \E r \in DOMAIN mutations : MovesHead(mutations[r]) /\ mutations[r].head = Earlier.head
  BY <1>1, <1>3 DEF Proven
<1>8. Earlier.head \in Commits
  BY <1>1, <1>7, RowsWellFormed DEF PublicationInv, WellFormed
<1>9. pull # 0 => pull \in DOMAIN pulls /\ pulls[pull].by # 0
  <2> SUFFICES ASSUME Earlier.pull # 0 PROVE pull \in DOMAIN pulls /\ pulls[pull].by # 0
    BY <1>4
  <2>1. Earlier.pull \in DOMAIN mutations /\ Opens(mutations[Earlier.pull])
    BY <1>1, <1>3 DEF Proven
  <2>2. \E p \in DOMAIN pulls : pulls[p].by = Earlier.pull
    BY <2>1 DEF Opens, PublicationInv, RowsSound, RowSound, SoundRow, HasPull
  <2>3. Opened(Earlier.pull) \in DOMAIN pulls /\ pulls[Opened(Earlier.pull)].by = Earlier.pull
    BY <2>2 DEF Opened
  <2>. QED  BY <1>4, <2>3
<1>10. pull \in Nat
  BY <1>9, PullFacts DEF PublicationInv
<1>11. PublicationTypeOK'
  <2>1. devTurn' \in DevTurns
    BY <1>0 DEF PublicationInv, PublicationTypeOK, Go, DevTurns
  <2>2. bound' \in [head : Heads, pull : Nat] /\ progress' \in [head : Commits, exists : BOOLEAN, pull : Nat]
    BY <1>5, <1>8, <1>10 DEF Heads
  <2>. QED  BY <1>0, <2>1, <2>2 DEF PublicationInv, PublicationTypeOK, hub
<1>12. /\ progress'.head = Earlier.head /\ progress'.pull = pull /\ bound'.head = Earlier.head /\ bound'.pull = pull
  BY <1>5
<1>. QED  BY <1>0, <1>1, <1>6, <1>7, <1>9, <1>11, <1>12, TurnStarts

\* An outcome is ready for a request for a review only.
LEMMA CorroborateKeeps ==
    ASSUME PublicationInv, Corroborate
    PROVE  PublicationInv'
<1>0. /\ PublicationTypeOK /\ devTurn \in DevTurns /\ devTurn.at = "corroborate" /\ call = NoCall
      /\ UNCHANGED <<hub, made, mutations, bound, progress, call, proposal>>
  BY NoCallIsOpen DEF Corroborate, Keep, PublicationInv, PublicationTypeOK
<1>1. PICK outcome : /\ devTurn' = [devTurn EXCEPT !.at = "settle", !.outcome = outcome]
                     /\ outcome \in {"failed", "conflict", "ready"} /\ (outcome = "ready" => Asked # {})
  <2>1. PICK captured \in made \cup {progress.head} :
           devTurn' = [devTurn EXCEPT !.at = "settle", !.outcome =
               IF devTurn.prompt = "cancelled" \/ Cardinality(Asked) > 1 THEN "failed"
               ELSE IF Asked = {} THEN WithoutIntent
               ELSE FromIntent(CHOOSE r \in Asked : TRUE, captured)]
    BY DEF Corroborate
  <2>2. WithoutIntent \in {"failed", "conflict"}
    BY DEF WithoutIntent
  <2>3. FromIntent(CHOOSE r \in Asked : TRUE, captured) \in {"failed", "conflict", "ready"}
    BY DEF FromIntent
  <2>4. PICK outcome : outcome = IF devTurn.prompt = "cancelled" \/ Cardinality(Asked) > 1 THEN "failed"
                                 ELSE IF Asked = {} THEN WithoutIntent
                                 ELSE FromIntent(CHOOSE r \in Asked : TRUE, captured)
    OBVIOUS
  <2>5. outcome \in {"failed", "conflict", "ready"} /\ (outcome = "ready" => Asked # {})
    BY <2>2, <2>3, <2>4
  <2>6. devTurn' = [devTurn EXCEPT !.at = "settle", !.outcome = outcome]
    BY <2>1, <2>4
  <2>. QED  BY <2>5, <2>6
<1>2. /\ devTurn' \in DevTurns /\ devTurn'.n = devTurn.n /\ devTurn'.at = "settle" /\ devTurn'.outcome = outcome
  BY <1>0, <1>1 DEF DevTurns
<1>3. \A s \in DOMAIN mutations : mutations[s].state \notin {"IN_FLIGHT", "UNKNOWN"}
  BY <1>0, RowsAreSettled
<1>4. PublicationTypeOK'
  BY <1>0, <1>2 DEF PublicationTypeOK, hub
<1>5. ProposalSound'
  BY <1>0, ProposalStays
<1>6. devTurn'.at \notin Recovering
  BY <1>2 DEF Recovering
<1>. QED  BY <1>0, <1>1, <1>2, <1>3, <1>4, <1>5, <1>6, TurnMoves

\* What the settlement makes the Change Proposal of.
Proposable(commit) ==
    /\ commit \in Commits /\ WasOnBranch(commit)
    /\ \E r \in DOMAIN mutations : /\ mutations[r].tool = "publish" /\ mutations[r].tip = commit /\ mutations[r].state = "SUCCEEDED"

\* The head of a row that moved it can be proposed.
LEMMA MovedHead ==
    ASSUME PublicationInv, NEW r \in DOMAIN mutations, MovesHead(mutations[r])
    PROVE  Proposable(mutations[r].head)
<1>1. SoundRow(mutations[r], r) /\ mutations[r].tool = "publish" /\ mutations[r].state = "SUCCEEDED" /\ mutations[r].head # mutations[r].old
  BY DEF PublicationInv, RowsSound, RowSound, MovesHead
<1>2. mutations[r].head = mutations[r].tip /\ WasOnBranch(mutations[r].tip)
  BY <1>1 DEF SoundRow
<1>3. mutations[r].head \in Commits
  BY RowsWellFormed DEF PublicationInv, WellFormed
<1>. QED  BY <1>1, <1>2, <1>3 DEF Proposable

\* What is settled is the end of the chain, or the head that a bound turn asked a review of.
LEMMA SettlePublicationKeeps ==
    ASSUME PublicationInv, SettlePublication
    PROVE  PublicationInv'
<1>0. /\ PublicationTypeOK /\ devTurn \in DevTurns /\ devTurn.at \in {"settle", "interrupted"} /\ call = NoCall
      /\ UNCHANGED <<hub, made, mutations, bound, progress, call>>
      /\ devTurn.at = "interrupted" => devTurn.outcome = "none"
  BY NoCallIsOpen DEF SettlePublication, PublicationInv, PublicationTypeOK, TurnSound
<1>1. \A s \in DOMAIN mutations : mutations[s].state \in {"SUCCEEDED", "FAILED"}
  BY <1>0, RowsAreSettled
<1>2. CASE /\ devTurn' = [devTurn EXCEPT !.at = "reconcile", !.cursor = 0, !.outcome = "none"] /\ UNCHANGED proposal
  <2>1. devTurn' \in DevTurns /\ devTurn'.n = devTurn.n /\ devTurn'.at = "reconcile" /\ devTurn'.outcome = "none"
    BY <1>0, <1>2 DEF DevTurns
  <2>2. PublicationTypeOK'
    BY <1>0, <1>2, <2>1 DEF PublicationTypeOK, hub
  <2>3. ProposalSound'
    BY <1>0, <1>2, ProposalStays
  <2>4. devTurn'.at \notin Recovering
    BY <2>1 DEF Recovering
  <2>. QED  BY <1>0, <1>1, <1>2, <2>1, <2>2, <2>3, <2>4, TurnMoves
<1>3. CASE /\ ~(OpenedHere # {} /\ (~Derived.ok \/ (devTurn.outcome = "ready" /\ AskedHead # Derived.head)))
           /\ devTurn' = [devTurn EXCEPT !.at = "over", !.outcome = IF devTurn.at = "interrupted" THEN "failed" ELSE @]
           /\ proposal' = IF OpenedHere # {} THEN [head |-> Derived.head, pull |-> Opened(Derived.pull)]
                          ELSE IF devTurn.outcome = "ready" THEN [head |-> AskedHead, pull |-> bound.pull]
                          ELSE proposal
  <2>1. devTurn' \in DevTurns /\ devTurn'.n = devTurn.n /\ devTurn'.at = "over"
    <3>1. PICK outcome \in {"none", "conflict", "failed", "ready", "handoff"} : devTurn' = [devTurn EXCEPT !.at = "over", !.outcome = outcome]
      BY <1>0, <1>3 DEF DevTurns
    <3>. QED  BY <1>0, <3>1 DEF DevTurns
  <2>2. proposal' = proposal \/ (\E commit, pull : /\ proposal' = [head |-> commit, pull |-> pull]
                                                   /\ Proposable(commit) /\ pull \in Nat /\ IsOpened(pull))
    <3>1. CASE OpenedHere # {}
      <4>1. Derived.ok /\ Proven(Derived, mutations, Mine, bound.head, Len(mutations))
        BY <1>3, <3>1, DerivedProves
      <4>2. PICK o \in Mine : Opens(mutations[o]) /\ o <= Len(mutations)
        BY <3>1, RowFacts DEF OpenedHere, Opens, Mine, PublicationInv
      <4>3. Derived.pull \in Mine /\ Opens(mutations[Derived.pull]) /\ Derived.head # NoCommit
        BY <4>1, <4>2 DEF Proven
      <4>4. \E p \in DOMAIN pulls : pulls[p].by = Derived.pull
        BY <4>3 DEF Opens, Mine, PublicationInv, RowsSound, RowSound, SoundRow, HasPull
      <4>5. /\ Opened(Derived.pull) \in DOMAIN pulls /\ pulls[Opened(Derived.pull)].by = Derived.pull
        BY <4>4 DEF Opened
      <4>6. Opened(Derived.pull) \in Nat /\ IsOpened(Opened(Derived.pull))
        <5>1. Derived.pull \in DOMAIN mutations /\ Derived.pull # 0
          BY <4>3, RowFacts DEF Mine, PublicationInv
        <5>. QED  BY <4>5, <5>1, PullFacts DEF IsOpened, PublicationInv
      <4>7. \E r \in DOMAIN mutations : MovesHead(mutations[r]) /\ mutations[r].head = Derived.head
        <5>1. CASE Derived.head = bound.head
          BY <4>3, <5>1 DEF PublicationInv, ProgressSound
        <5>2. CASE Derived.head # bound.head
          BY <4>1, <5>2 DEF Proven, Mine
        <5>. QED  BY <5>1, <5>2
      <4>8. Proposable(Derived.head)
        BY <4>7, MovedHead
      <4>. QED  BY <1>3, <3>1, <4>6, <4>8
    <3>2. CASE OpenedHere = {} /\ devTurn.outcome = "ready"
      <4>0. devTurn.at = "settle" /\ Asked # {}
        BY <1>0, <3>2 DEF PublicationInv, TurnSound
      <4>1. PICK r : r = CHOOSE s \in Asked : TRUE
        OBVIOUS
      <4>2. r \in Mine /\ r \in DOMAIN mutations /\ mutations[r].tool = "review" /\ AskedHead = mutations[r].old
        BY <4>0, <4>1 DEF Asked, Mine, AskedHead
      <4>3. progress.pull # 0
        BY <4>2 DEF PublicationInv, ProgressSound
      <4>4. ~\E s \in Mine : mutations[s].tool = "open" /\ mutations[s].state \in {"UNKNOWN", "SUCCEEDED"}
        BY <1>1, <3>2 DEF OpenedHere, Mine
      <4>5. bound.pull = progress.pull
        BY <4>0, <4>3, <4>4 DEF PublicationInv, ProgressSound
      <4>6. bound.head # NoCommit /\ IsOpened(bound.pull) /\ bound.pull \in Nat
        BY <1>0, <4>3, <4>5 DEF PublicationInv, ProgressSound, PublicationTypeOK
      <4>7. PICK commit : commit = mutations[r].old
        OBVIOUS
      <4>8. Sourced(commit) /\ commit \in Commits
        <5>1. mutations[r].old \in Commits
          BY <1>0, <4>2, RowFacts DEF Mutations
        <5>. QED  BY <4>0, <4>2, <4>6, <4>7, <5>1 DEF PublicationInv, ProgressSound
      <4>9. Proposable(commit)
        <5>1. CASE commit = bound.head
          <6>1. \E s \in DOMAIN mutations : MovesHead(mutations[s]) /\ mutations[s].head = commit
            BY <4>6, <5>1 DEF PublicationInv, ProgressSound
          <6>. QED  BY <6>1, MovedHead
        <5>2. CASE commit # bound.head
          <6>1. PICK s \in Mine : /\ mutations[s].tool = "publish" /\ mutations[s].tip = commit
                                  /\ mutations[s].sent = "landed" /\ mutations[s].state \in {"UNKNOWN", "SUCCEEDED"}
            BY <4>8, <5>2 DEF Sourced
          <6>2. s \in DOMAIN mutations
            BY DEF Mine
          <6>3. mutations[s].state = "SUCCEEDED"
            BY <1>1, <6>1, <6>2
          <6>4. commit \in visited
            BY <6>1, <6>2 DEF PublicationInv, RowsSound, RowSound, SoundRow
          <6>5. WasOnBranch(commit)
            BY <4>8, <6>4, PrefixReflexive DEF WasOnBranch
          <6>. QED  BY <4>8, <6>1, <6>2, <6>3, <6>5 DEF Proposable
        <5>. QED  BY <5>1, <5>2
      <4>. QED  BY <1>3, <3>2, <4>2, <4>6, <4>7, <4>9
    <3>3. CASE OpenedHere = {} /\ devTurn.outcome # "ready"
      BY <1>3, <3>3
    <3>. QED  BY <3>1, <3>2, <3>3
  <2>3. PublicationTypeOK' /\ ProposalSound'
    <3>1. CASE proposal' = proposal
      <4>1. ProposalSound'
        BY <1>0, <3>1, ProposalStays
      <4>. QED  BY <1>0, <2>1, <3>1, <4>1 DEF PublicationTypeOK, hub
    <3>2. CASE proposal' # proposal
      <4>1. PICK commit, pull : /\ proposal' = [head |-> commit, pull |-> pull]
                                /\ Proposable(commit) /\ pull \in Nat /\ IsOpened(pull)
        BY <2>2, <3>2
      <4>2. proposal'.head = commit /\ proposal'.pull = pull /\ proposal' \in [head : Heads, pull : Nat]
        BY <4>1 DEF Proposable, Heads
      <4>3. UNCHANGED <<visited, pulls, mutations>>
        BY <1>0 DEF hub
      <4>4. ProposalSound'
        BY <4>1, <4>2, <4>3 DEF ProposalSound, Proposable, WasOnBranch, IsOpened
      <4>. QED  BY <1>0, <2>1, <4>2, <4>4 DEF PublicationTypeOK, hub
    <3>. QED  BY <3>1, <3>2
  <2>4. devTurn'.at \notin Recovering
    BY <2>1 DEF Recovering
  <2>. QED  BY <1>0, <1>1, <2>1, <2>3, <2>4, TurnMoves
<1>. QED  BY <1>2, <1>3 DEF SettlePublication

\* The next turn starts from nothing.
LEMMA RetryTurnKeeps ==
    ASSUME PublicationInv, RetryTurn
    PROVE  PublicationInv'
<1> USE DEF PublicationInv
<1>0. /\ devTurn \in DevTurns /\ devTurn.at = "over" /\ call = NoCall /\ proposal = Unbound
      /\ UNCHANGED <<branch, visited, pulls, made, mutations, call, proposal>>
  BY NoCallIsOpen DEF RetryTurn, PublicationTypeOK, hub
<1>1. devTurn' = [n |-> devTurn.n + 1, at |-> "observe", prompt |-> "none", cursor |-> 0, outcome |-> "none"]
      /\ bound' = Unbound /\ progress' = [head |-> Base, exists |-> FALSE, pull |-> 0]
  BY DEF RetryTurn
<1>2. devTurn.n \in Nat /\ devTurn'.n = devTurn.n + 1 /\ devTurn'.at = "observe" /\ devTurn'.outcome = "none" /\ devTurn'.cursor = 0
  BY <1>0, <1>1 DEF DevTurns
<1>3. PublicationTypeOK'
  <2>1. Base \in Commits /\ NoCommit \in Heads
    BY DEF Base, Commits, Heads
  <2>2. devTurn' \in DevTurns
    BY <1>1, <1>2 DEF DevTurns, Recovering
  <2>. QED  BY <1>0, <1>1, <2>1, <2>2 DEF PublicationTypeOK, Unbound
<1>4. RowsSound' /\ CallSound' /\ ProposalSound'
  BY <1>0 DEF RowsSound, RowSound, SoundRow, WasOnBranch, HasPull, CallSound, ProposalSound
<1>5. ASSUME NEW r \in DOMAIN mutations PROVE RowInTurn(r)' /\ mutations[r].turn # devTurn'.n
  <2>1. mutations[r].turn \in Nat /\ mutations[r].turn <= devTurn.n
    BY RowFacts DEF TurnSound, RowInTurn, Mutations
  <2>2. mutations[r].state \in {"SUCCEEDED", "FAILED"}
    BY <1>0, RowsAreSettled
  <2>. QED  BY <1>0, <1>2, <2>1, <2>2 DEF RowInTurn
<1>6. TurnSound'
  BY <1>0, <1>1, <1>2, <1>5 DEF TurnSound
<1>7. ProgressSound'
  <2>1. Mine' = {}
    BY <1>0, <1>5 DEF Mine
  <2>2. bound'.head = NoCommit /\ bound'.pull = 0 /\ progress'.pull = 0
    BY <1>1 DEF Unbound
  <2>. QED  BY <1>0, <1>2, <2>1, <2>2 DEF ProgressSound
<1>. QED  BY <1>3, <1>4, <1>6, <1>7

\* Nothing is published at the start.
LEMMA PublicationStarts == ASSUME PublicationInit PROVE PublicationInv
<1> USE DEF PublicationInit
<1>1. /\ Base \in Commits /\ NoCommit \in Heads /\ mutations \in Seq(Mutations) /\ DOMAIN mutations = {}
      /\ pulls \in Seq([by : Nat, open : BOOLEAN, edited : BOOLEAN])
  BY DEF Base, Commits, Heads
<1>2. IsFiniteSet(made)
  BY FS_Singleton
<1>3. call \in DevCalls
  BY <1>1 DEF DevCalls, NoCall
<1>4. devTurn \in DevTurns
  BY DEF DevTurns, Recovering
<1>5. PublicationTypeOK
  BY <1>1, <1>2, <1>3, <1>4 DEF PublicationTypeOK, Unbound
<1>6. RowsSound /\ CallSound /\ ProposalSound
  BY <1>1 DEF RowsSound, CallSound, ProposalSound
<1>7. TurnSound
  BY <1>1 DEF TurnSound, Unbound
<1>8. ProgressSound
  <2>1. Mine = {}
    BY <1>1 DEF Mine
  <2>2. bound.head = NoCommit /\ bound.pull = 0 /\ progress.pull = 0 /\ devTurn.at = "observe"
    BY DEF Unbound
  <2>. QED  BY <1>1, <2>1, <2>2 DEF ProgressSound
<1>. QED  BY <1>5, <1>6, <1>7, <1>8 DEF PublicationInv

\* A step that changes nothing keeps what is known.
LEMMA PublicationStutters == ASSUME PublicationInv, UNCHANGED publicationVars PROVE PublicationInv'
<1>1. HubGrows
  BY DEF publicationVars, HubGrows, PublicationInv, ProgressSound
<1>2. PublicationTypeOK'
  BY DEF publicationVars, PublicationInv, PublicationTypeOK
<1>. QED  BY <1>1, <1>2, HubStep DEF publicationVars, local

\* The three calls of the agent are reserved alike.
LEMMA ReservationsKeep ==
    ASSUME PublicationInv, Publish \/ OpenPR \/ RequestReview
    PROVE  PublicationInv'
<1>1. CASE Publish
  <2>1. PICK tip \in made : ReserveMutation("publish", tip, "inspect")
    BY <1>1 DEF Publish
  <2>2. tip \in Commits
    BY DEF PublicationInv, PublicationTypeOK
  <2>. QED  BY <2>1, <2>2, ReserveKeeps
<1>2. CASE OpenPR \/ RequestReview
  <2>1. Base \in Commits
    BY DEF Base, Commits
  <2>. QED  BY <1>2, <2>1, ReserveKeeps DEF OpenPR, RequestReview
<1>. QED  BY <1>1, <1>2

\* Every step keeps what is known of the ledger, of the turn and of the branch.
LEMMA PublicationSteps ==
    ASSUME PublicationInv, [PublicationNext]_publicationVars
    PROVE  PublicationInv'
<1>1. CASE UNCHANGED publicationVars
  BY <1>1, PublicationStutters
<1>2. CASE PersonPushes \/ PersonEdits \/ Commit \/ Publish \/ OpenPR \/ RequestReview
  BY <1>2, PersonPushesKeeps, PersonEditsKeeps, CommitKeeps, ReservationsKeep
<1>3. CASE InspectRemote \/ RecordTip \/ Recheck \/ ReadPull \/ SendRequest \/ Hear \/ Unheard
  BY <1>3, InspectRemoteKeeps, RecordTipKeeps, RecheckKeeps, ReadPullKeeps, SendRequestKeeps, HearKeeps, UnheardKeeps
<1>4. CASE \E r \in DOMAIN mutations : RequestLands(r) \/ RequestLost(r) \/ ReplayPublication(r) \/ ReconcileRow(r)
  BY <1>4, RequestLandsKeeps, RequestLostKeeps, ReplayKeeps, ReconcileRowKeeps
<1>5. CASE PromptIsOver \/ TurnDies \/ GiveUp \/ Reconciled
  BY <1>5, PromptIsOverKeeps, TurnDiesKeeps, GiveUpKeeps, ReconciledKeeps
<1>6. CASE \/ Observe \/ Prove \/ VerifyPull \/ Reobserve \/ BindPublication \/ Unread
           \/ Corroborate \/ SettlePublication \/ RetryTurn
  BY <1>6, ObserveKeeps, RecoveryKeeps, BindPublicationKeeps, CorroborateKeeps, SettlePublicationKeeps, RetryTurnKeeps
<1>. QED  BY <1>1, <1>2, <1>3, <1>4, <1>5, <1>6 DEF PublicationNext

\* The invariant holds of every behaviour: rows, turn, call and Change Proposal agree on what was published (PlanMutation,
\* RecordProposedPublicationTip, ReconcilePublication, BindAgentTurnPublication).
THEOREM Invariance == PublicationSpec => []PublicationInv
<1>1. PublicationInit => PublicationInv
  BY PublicationStarts
<1>2. PublicationInv /\ [PublicationNext]_publicationVars => PublicationInv'
  BY PublicationSteps
<1>. QED  BY <1>1, <1>2, PTL DEF PublicationSpec

\* What was published stays the base of the work: a running turn goes on from everything the ledger says was
\* published, and a Change Proposal that is settled was on the branch, published by this participant, with the Pull
\* Request it opened - whatever people do to the branch, and however many turns, commits and mutations there are
\* (Recover, RestoreMutationReplay, ReconcilePublication, deriveSettlementPublicationTx).
THEOREM PublishedWorkAlwaysStands == PublicationSpec => []PublishedWorkStands
<1>1. ASSUME PublicationInv PROVE GoesOnFromTheLedger
  BY <1>1 DEF PublicationInv, ProgressSound, MovesHead, GoesOnFromTheLedger
<1>2. ASSUME PublicationInv PROVE ProposalIsProven
  BY <1>2 DEF PublicationInv, ProposalSound, WasOnBranch, IsOpened, ProposalIsProven
<1>3. PublicationInv => PublishedWorkStands
  BY <1>1, <1>2 DEF PublishedWorkStands
<1>. QED  BY <1>3, Invariance, PTL

\* A push that arrives finds the branch at the head its sender saw, or finds what it pushes: the recorded tip descends
\* from that head.
LEMMA LandedPush ==
    ASSUME PublicationInv, NEW r \in DOMAIN mutations, RequestLands(r), Pushed(r)
    PROVE  branch \in {NoCommit, branch'} \/ History!IsPrefix(branch, branch')
<1>1. SoundRow(mutations[r], r) /\ mutations[r].sent = "flying" /\ mutations[r].tool = "publish"
  BY DEF PublicationInv, RowsSound, RowSound, RequestLands, Pushed
<1>2. CASE branch # mutations[r].tip /\ Accepted(mutations[r]) /\ Moved(mutations[r].tip)
  <2>1. Extends(mutations[r].tip, mutations[r].old) /\ mutations[r].lease \in {NoCommit, mutations[r].old}
    BY <1>1 DEF SoundRow
  <2>. QED  BY <1>2, <2>1 DEF Accepted, Moved, Extends
<1>3. CASE UNCHANGED branch
  BY <1>3
<1>. QED  BY <1>1, <1>2, <1>3 DEF RequestLands

\* Nothing but a push and a person moves the branch.
LEMMA BranchMoves ==
    ASSUME [PublicationNext]_publicationVars, branch' # branch
    PROVE  PersonPushes \/ \E r \in DOMAIN mutations : RequestLands(r)
<1>1. CASE PersonEdits \/ Commit \/ Publish \/ OpenPR \/ RequestReview
  BY <1>1 DEF PersonEdits, Commit, Publish, OpenPR, RequestReview, ReserveMutation, hub
<1>2. CASE InspectRemote \/ RecordTip \/ Recheck \/ ReadPull \/ SendRequest \/ Hear \/ Unheard
  BY <1>2 DEF InspectRemote, RecordTip, Recheck, ReadPull, SendRequest, Hear, Unheard, hub
<1>3. CASE \E r \in DOMAIN mutations : RequestLost(r) \/ ReplayPublication(r) \/ ReconcileRow(r)
  BY <1>3 DEF RequestLost, ReplayPublication, ReconcileRow, hub
<1>4. CASE PromptIsOver \/ TurnDies \/ GiveUp \/ Reconciled
  BY <1>4 DEF PromptIsOver, TurnDies, GiveUp, Reconciled, hub
<1>5. CASE \/ Observe \/ Prove \/ VerifyPull \/ Reobserve \/ BindPublication \/ Unread
           \/ Corroborate \/ SettlePublication \/ RetryTurn
  BY <1>5 DEF Observe, Prove, VerifyPull, Reobserve, BindPublication, Unread, Corroborate, SettlePublication, RetryTurn, Keep, hub
<1>6. CASE UNCHANGED publicationVars
  BY <1>6 DEF publicationVars
<1>. QED  BY <1>1, <1>2, <1>3, <1>4, <1>5, <1>6 DEF PublicationNext

\* Of any step: a push that lands takes nothing off.
LEMMA NoCommitIsLost ==
    ASSUME PublicationInv, [PublicationNext]_publicationVars, NEW r \in DOMAIN mutations, Pushed(r)
    PROVE  branch \in {NoCommit, branch'} \/ History!IsPrefix(branch, branch')
<1> SUFFICES ASSUME branch' # branch
             PROVE  branch \in {NoCommit, branch'} \/ History!IsPrefix(branch, branch')
  OBVIOUS
<1>1. ~PersonPushes
  BY DEF PersonPushes, Pushed
<1>2. PICK s \in DOMAIN mutations : RequestLands(s)
  BY <1>1, BranchMoves
<1>3. s = r
  <2> SUFFICES ASSUME s # r PROVE FALSE
    OBVIOUS
  <2>1. mutations'[r] = mutations[r]
    BY <1>2 DEF RequestLands, Became
  <2>. QED  BY <2>1 DEF Pushed
<1>. QED  BY <1>2, <1>3, LandedPush

\* No push of Omnigrex takes a commit off the branch, whenever it arrives and whoever has pushed meanwhile: it is sent
\* with the lease of the head it was read at, and the tip that is recorded before descends from that head
\* (publishFromPaths, RecordProposedPublicationTip).
THEOREM NothingIsEverTakenOff == PublicationSpec => NothingIsTakenOff
<1>1. PublicationInv /\ [PublicationNext]_publicationVars =>
        [\A r \in DOMAIN mutations : Pushed(r) => (branch \in {NoCommit, branch'} \/ History!IsPrefix(branch, branch'))]_publicationVars
  BY NoCommitIsLost
<1>. QED  BY <1>1, Invariance, PTL DEF PublicationSpec, NothingIsTakenOff
================================================================================
