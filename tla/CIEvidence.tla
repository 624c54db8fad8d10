------------------------------ MODULE CIEvidence ------------------------------
(***************************************************************************)
(* What continuous integration says of a Pull Request, as pure operators:   *)
(* the required contexts (DiscoverRequiredCI), the verified test merge      *)
(* (VerifyCITarget), one observation of a commit (ObserveCI), the matching  *)
(* of required contexts against it (MatchRequiredCI) and the decision to    *)
(* start a review (evaluateReviewCI of                                     *)
(* src/internal/agentturn/review_admission.go).                            *)
(*                                                                         *)
(* A check or a status is a record; "done" abstracts its conclusion, which  *)
(* the decision does not look at.  An App of 0 is an unknown producer.      *)
(* HTTP, pagination and the shape of the responses are left out: a read     *)
(* fails as a whole, and what failed is named by "failures".               *)
(***************************************************************************)
EXTENDS Naturals, FiniteSets

NoCommit == <<0, 0>>

\* A required context; the type is that of a selector of the repository's own policy.
Requirement(context, app, type) == [context |-> context, app |-> app, type |-> type]

\* Classic protection and the effective rules.  A rule whose completion is not understood is unresolved.
DiscoverRequiredCI(protection, readable) ==
    IF readable
    THEN [required   |-> {Requirement(q.context, q.app, "any") : q \in protection.checks},
          unresolved |-> protection.workflows,
          available  |-> TRUE]
    ELSE [required |-> {}, unresolved |-> FALSE, available |-> FALSE]

\* The policy's own selection, or the contexts GitHub requires.
Inventory(policy, protection, readable) ==
    IF policy.start = "immediate" \/ policy.selection = "explicit"
    THEN [required |-> policy.checks, unresolved |-> FALSE, available |-> TRUE]
    ELSE DiscoverRequiredCI(protection, readable)

\* The test merge GitHub made of the head and its base, if it is verified to be of this head.
VerifyCITarget(pr, head, readable) ==
    LET Mapping(state, failed, base, merge) == [state |-> state, failed |-> failed, base |-> base, merge |-> merge]
    IN  IF ~readable THEN Mapping("unavailable", TRUE, 0, NoCommit)
        ELSE IF pr.head # head THEN Mapping("stale", FALSE, 0, NoCommit)
        ELSE IF pr.merge # "merged" THEN Mapping("head_only", pr.merge = "pending", pr.base, NoCommit)
        ELSE Mapping("verified", FALSE, pr.base, <<pr.head, pr.base>>)

\* An observation of one commit; "repository" among the failures makes the whole of it unavailable.
ObserveCI(runs, commit, failures) ==
    LET of(kind) == {r \in runs : r.commit = commit /\ r.kind = kind}
    IN  [checks   |-> IF {"checks", "repository"} \cap failures = {} THEN of("check") ELSE {},
         statuses |-> IF {"statuses", "repository"} \cap failures = {} THEN of("status") ELSE {},
         failures |-> failures]

-----------------------------------------------------------------------------
Failed(o, source) == o.failures \cap {source, "repository"} # {}

\* The current result of each producer has the highest id.
Latest(runs) == {r \in runs : \A s \in runs : s.app = r.app => s.id <= r.id}

\* The states of one required context on one commit.
MatchRequiredCI(q, o) ==
    LET named    == {c \in o.checks : c.context = q.context}
        checks   == Latest({c \in named : c.app # 0 /\ q.app \in {0, c.app}})
        statuses == {s \in o.statuses : s.context = q.context}
        status   == {s \in statuses : \A t \in statuses : t.id <= s.id}
        unknown  == \E c \in named : c.app = 0
        failed   == {source \in {"checks", "statuses"} : Failed(o, source)}
        State(r) == IF r.done THEN "terminal" ELSE "pending"
    IN  {State(c) : c \in checks}
        \cup {IF q.app # 0 THEN "unresolved" ELSE State(s) : s \in status}
        \cup (IF unknown THEN {"unresolved"} ELSE {})
        \cup (IF failed # {} THEN {"unavailable"} ELSE {})
        \cup (IF checks = {} /\ status = {} /\ ~unknown /\ failed = {} THEN {"missing"} ELSE {})

\* A selector of the policy narrows the observation to its own kind of result, and to what failed of that.
Selected(q, o) ==
    CASE q.type = "check"  -> [o EXCEPT !.statuses = {}, !.failures = IF {"checks", "statuses"} \subseteq @ THEN {"repository"}
                                                                      ELSE @ \cap {"checks", "repository"}]
      [] q.type = "status" -> [o EXCEPT !.checks = {}, !.failures = IF {"checks", "statuses"} \subseteq @ THEN {"repository"}
                                                                    ELSE @ \cap {"statuses", "repository"}]
      [] OTHER             -> o

-----------------------------------------------------------------------------
\* The contexts seen anywhere, required by nobody: the fallback of a repository without required contexts.
Observed(observations) ==
    {Requirement(r.context, 0, "any") : r \in UNION {o.checks \cup o.statuses : o \in observations}}

\* Each required context is terminal on some commit, and nothing but terminal or missing on all of them.
Complete(required, observations) ==
    \A q \in required :
        /\ \E o \in observations : "terminal" \in MatchRequiredCI(q, Selected(q, o))
        /\ \A o \in observations : MatchRequiredCI(q, Selected(q, o)) \subseteq {"terminal", "missing"}

\* The reason to start the review, or to wait.
EvaluateReviewCI(policy, inventory, mapping, observations, graceDone, late) ==
    LET available == /\ ~mapping.failed /\ mapping.state \in {"verified", "head_only"}
                     /\ inventory.available /\ ~inventory.unresolved
        fallback  == available /\ inventory.required = {} /\ policy.selection = "github_required"
        required  == IF fallback THEN Observed(observations) ELSE inventory.required
        complete  == /\ available /\ observations # {}
                     /\ policy.selection = "explicit" \/ \A o \in observations : o.failures = {}
                     /\ Complete(required, observations)
    IN  IF policy.start = "immediate" THEN "immediate"
        ELSE IF complete /\ (~fallback \/ graceDone)
             THEN IF required = {} THEN "no_ci_after_grace" ELSE "completed_ci"
             ELSE IF late THEN "timeout_incomplete" ELSE "waiting"
=============================================================================
