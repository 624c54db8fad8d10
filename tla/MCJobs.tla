------------------------------ MODULE MCJobs ------------------------------
(***************************************************************************)
(* The durable queue and the work its jobs do beside GitHub, checked side  *)
(* by side: the verification of a verdict, the gate that holds the         *)
(* preparation of a review, the labels of a new repository; and the clients *)
(* its workers share: the connection to Pi, the credentials of the provider, *)
(* the images of a registry.                                               *)
(*                                                                         *)
(* Each has an abstraction of the rows they share, so that a behaviour has *)
(* one focus: the part that moves, with its own bounds.                    *)
(***************************************************************************)
EXTENDS JobLease, TerminalIntent, ProviderAuth, ReviewAdmission, ImageCache, LabelProvisioning, PiConnection

VARIABLE focus

admission    == <<pr, runs, clock, faults, request, proposal, gate, turn>>
verification == <<remote, flow, intent, recovery, verifier, owner, upsets>>
provisioning == <<installed, gone, name, labels, delivery, job, processor, worker>>
connection   == <<pi, writes, conn, piTurn, prompt, calls, struck>>
credentials  == <<disk, holder, memory, broken, login, renewal, provider, logouts, reports, misused>>
images       == <<time, documents, locks, throttle, cooldown, origin, fetcher>>

-----------------------------------------------------------------------------
(* Two review policies, without and with explicit checks, and the contexts *)
(* a repository requires: none, or one.                                    *)
ReviewFiles ==
  {[start |-> "after_ci", selection |-> "github_required", checks |-> {}, timeout |-> 2, grace |-> 1],
   [start |-> "after_ci", selection |-> "explicit", timeout |-> 1, grace |-> 0,
    checks |-> {[context |-> "build", app |-> 0, type |-> "check"]}]}
RequiredContexts ==
  {[checks |-> required, workflows |-> FALSE] : required \in {{}, {[context |-> "build", app |-> 0]}}}

\* Beside a head that is pushed over and a turn that is retried: a base that moves and reads that fail.
Rebased == INSTANCE ReviewAdmission WITH
  MaxHead <- 1, MaxBase <- 2, MaxRun <- 1, MaxFaults <- 1, MaxRetry <- 0, Horizon <- 2,
  Kinds <- {"check"}, DefaultTimeout <- 2

-----------------------------------------------------------------------------
JobsInit ==
  /\ focus \in {"queue", "pushed", "rebased", "intent", "listing", "labelling", "connection",
                "credentials", "images"}
  /\ Init /\ AdmissionInit /\ pr.merge = "pending"
  /\ IntentInit /\ ProvisioningInit /\ ConnectionInit
  /\ AuthInit /\ CacheInit

\* The parts that are not in focus rest.
Rest(part) ==
  /\ UNCHANGED focus
  /\ IF part = "queue" THEN TRUE ELSE UNCHANGED vars
  /\ IF part = "admission" THEN TRUE ELSE UNCHANGED admission
  /\ IF part = "intent" THEN TRUE ELSE UNCHANGED verification
  /\ IF part = "provisioning" THEN TRUE ELSE UNCHANGED provisioning
  /\ IF part = "connection" THEN TRUE ELSE UNCHANGED connection
  /\ IF part = "credentials" THEN TRUE ELSE UNCHANGED credentials
  /\ IF part = "images" THEN TRUE ELSE UNCHANGED images

JobsNext ==
  \/ focus = "queue" /\ Next /\ Rest("queue")
  \/ focus = "pushed" /\ AdmissionNext /\ Rest("admission")
  \/ focus = "rebased" /\ Rebased!AdmissionNext /\ Rest("admission")
  \/ focus = "intent" /\ IntentNext /\ Rest("intent")
  \/ focus = "listing" /\ ListingNext /\ Rest("provisioning")
  \/ focus = "labelling" /\ LabelsNext /\ Rest("provisioning")
  \/ focus = "connection" /\ ConnectionNext /\ Rest("connection")
  \/ focus = "credentials" /\ AuthNext /\ Rest("credentials")
  \/ focus = "images" /\ CacheNext /\ Rest("images")

JobsSpec == JobsInit /\ [][JobsNext]_<<vars, admission, verification, provisioning, connection, credentials, images, focus>>
=============================================================================
