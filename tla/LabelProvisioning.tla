-------------------------- MODULE LabelProvisioning --------------------------
(***************************************************************************)
(* The managed labels of the repositories of an installation.              *)
(*                                                                         *)
(* A delivery that tells of a new installation is processed by listing the *)
(* installation's repositories, a page at a time, and by queueing a job    *)
(* for each in batches, while the claim of the delivery may run out and    *)
(* another processor take over.  A worker then finds the repository of a   *)
(* job by its ID and puts the labels in the repository that bears its      *)
(* name, while people rename repositories, and another worker may work on  *)
(* the same job because its lease ran out.                                 *)
(*                                                                         *)
(* A page and a batch hold one repository.  A repository joins or leaves   *)
(* the installation once, is renamed once, and no label is deleted.        *)
(***************************************************************************)
EXTENDS Naturals, FiniteSets

CONSTANTS MaxRepo, MaxLabel,
          JobWorkers, Processors,
          MaxClaim,      \* max_attempts of the delivery
          MaxAttempt     \* labelProvisioningMaxAttempts

ASSUME ProvisioningAssumption == MaxRepo \in Nat \ {0} /\ MaxLabel \in Nat /\ MaxClaim \in Nat /\ MaxAttempt \in Nat

VARIABLES installed,   \* the repositories of the installation
          gone,        \* those that left it
          name,        \* GitHub's name of a repository
          labels,      \* the labels of a repository
          delivery,    \* the row of webhook_deliveries
          job,         \* the row of jobs of each repository
          processor,   \* the processors of the delivery
          worker       \* the workers of the jobs

worldVars        == <<installed, gone, name, labels>>

Repos  == 1 .. MaxRepo
Labels == 1 .. MaxLabel

(* The name a repository is created with, and a name of its choice.        *)
First(r) == <<r, 1>>
Second(r) == <<r, 2>>

NoLabelJob   == [status |-> "none", attempts |-> 0, live |-> FALSE, why |-> "none"]
Resting == [at |-> "idle", claim |-> 0, page |-> 0, total |-> 0, todo |-> {}, invalid |-> FALSE]
Free    == [at |-> "idle", repo |-> 1, attempt |-> 0, name |-> First(1), missing |-> {}]

ProvisioningInit ==
  /\ installed = {r \in Repos : r < MaxRepo} /\ gone = {}
  /\ name = [r \in Repos |-> First(r)] /\ labels = [r \in Repos |-> {}]
  /\ delivery = [status |-> "none", claims |-> 0, live |-> FALSE, added |-> {}]
  /\ job = [r \in Repos |-> NoLabelJob]
  /\ processor = [p \in Processors |-> Resting]
  /\ worker = [w \in JobWorkers |-> Free]

-----------------------------------------------------------------------------
(* What people do                                                          *)

Join(r) ==
  /\ r \notin installed \cup gone /\ installed' = installed \cup {r}
  /\ UNCHANGED <<gone, name, labels, delivery, job, processor, worker>>

Leave(r) ==
  /\ r \in installed /\ installed' = installed \ {r} /\ gone' = gone \cup {r}
  /\ UNCHANGED <<name, labels, delivery, job, processor, worker>>

(* To a new name, or to one that another repository gave up.               *)
Rename(r, n) ==
  /\ name[r] = First(r) /\ n # First(r) /\ \A q \in Repos : name[q] # n
  /\ n = Second(r) \/ \E q \in Repos \ {r} : n = First(q)
  /\ name' = [name EXCEPT ![r] = n]
  /\ UNCHANGED <<installed, gone, labels, delivery, job, processor, worker>>

-----------------------------------------------------------------------------
(* The delivery                                                            *)

(* installation created, or installation_repositories with its additions.  *)
Receive(added) ==
  /\ delivery.status = "none" /\ added \subseteq installed
  /\ delivery' = [delivery EXCEPT !.status = "PENDING", !.added = added]
  /\ UNCHANGED <<worldVars, job, processor, worker>>

Doing(p, step) == processor[p].at = step
Holds(p) == delivery.status = "PROCESSING" /\ delivery.claims = processor[p].claim /\ delivery.live

ClaimDelivery(p) ==
  /\ Doing(p, "idle") /\ delivery.claims < MaxClaim
  /\ delivery.status = "PENDING" \/ (delivery.status = "PROCESSING" /\ ~delivery.live)
  /\ delivery' = [delivery EXCEPT !.status = "PROCESSING", !.claims = @ + 1, !.live = TRUE]
  /\ processor' = [processor EXCEPT ![p] =
       [Resting EXCEPT !.at = IF delivery.added = {} THEN "listing" ELSE "queueing",
                       !.claim = delivery.claims + 1, !.todo = delivery.added]]
  /\ UNCHANGED <<worldVars, job, worker>>

(* The delivery is tried again later, unless this claim was the last.      *)
FailDelivery(p) ==
  /\ delivery' = IF ~Holds(p) THEN delivery
                 ELSE [delivery EXCEPT !.status = IF delivery.claims < MaxClaim THEN "PENDING" ELSE "FAILED",
                                       !.live = FALSE]
  /\ processor' = [processor EXCEPT ![p] = Resting]

(* The entry of a page, in the order of the repositories' IDs.             *)
Entry(page) == {r \in installed : Cardinality({q \in installed : q <= r}) = page}

(* A page read by a caller that expects the pages to add up to "total".    *)
ReadPage(p, total) ==
  LET page == processor[p].page + 1
      more == page < total
  IN  IF Entry(page) = {} /\ page - 1 = total
      THEN /\ processor' = [processor EXCEPT ![p] = [@ EXCEPT !.at = "queueing"]]
           /\ UNCHANGED delivery
      ELSE IF Entry(page) = {} \/ Entry(page) \subseteq processor[p].todo THEN FailDelivery(p)
      ELSE /\ \E bad \in BOOLEAN :
                processor' = [processor EXCEPT ![p] =
                  [processor[p] EXCEPT !.at = IF more THEN "listing" ELSE "queueing",
                            !.page = page, !.total = total, !.invalid = @ \/ bad,
                            !.todo = IF bad THEN @ ELSE @ \cup Entry(page)]]
           /\ UNCHANGED delivery

(* The count must not change from a page to the next.                      *)
ListPage(p) ==
  /\ Doing(p, "listing")
  /\ IF processor[p].page > 0 /\ processor[p].total # Cardinality(installed) THEN FailDelivery(p)
     ELSE ReadPage(p, Cardinality(installed))
  /\ UNCHANGED <<worldVars, job, worker>>

(* A batch, queued once whoever queues it, and kept only if the claim is.  *)
Batch(p) ==
  /\ Doing(p, "queueing")
  /\ IF ~Holds(p)
     THEN /\ processor' = [processor EXCEPT ![p] = Resting]
          /\ UNCHANGED <<delivery, job>>
     ELSE LET chunk == {r \in processor[p].todo : \A q \in processor[p].todo : r <= q}
              rest  == processor[p].todo \ chunk
          IN  /\ job' = [r \in Repos |-> IF r \in chunk /\ job[r] = NoLabelJob
                                         THEN [NoLabelJob EXCEPT !.status = "PENDING"] ELSE job[r]]
              /\ IF rest # {}
                 THEN /\ processor' = [processor EXCEPT ![p].todo = rest]
                      /\ UNCHANGED delivery
                 ELSE /\ processor' = [processor EXCEPT ![p] = Resting]
                      /\ delivery' = [delivery EXCEPT
                           !.status = IF processor[p].invalid THEN "FAILED" ELSE "PROCESSED",
                           !.live = FALSE]
  /\ UNCHANGED <<worldVars, worker>>

(* The claim runs out, and its holder notices or does not.                 *)
ExpireClaim ==
  /\ delivery.status = "PROCESSING" /\ delivery.live
  /\ delivery' = [delivery EXCEPT !.live = FALSE]
  /\ \/ UNCHANGED processor
     \/ \E p \in Processors : ~Doing(p, "idle") /\ processor' = [processor EXCEPT ![p] = Resting]
  /\ UNCHANGED <<worldVars, job, worker>>

ProcessorStep == \/ \E p \in Processors : ClaimDelivery(p) \/ ListPage(p) \/ Batch(p)
                 \/ ExpireClaim

-----------------------------------------------------------------------------
(* The worker of a job                                                     *)

On(w, step) == worker[w].at = step
Goes(w, step) == worker' = [worker EXCEPT ![w].at = step]
Leased(w) == LET j == job[worker[w].repo]
             IN  j.status = "LEASED" /\ j.attempts = worker[w].attempt /\ j.live

(* What bears the name the worker goes by.                                 *)
Named(w) == {q \in Repos : name[q] = worker[w].name}

ClaimJob(w, r) ==
  /\ On(w, "idle") /\ job[r].attempts < MaxAttempt
  /\ job[r].status = "PENDING" \/ (job[r].status = "LEASED" /\ ~job[r].live)
  /\ job' = [job EXCEPT ![r] = [job[r] EXCEPT !.status = "LEASED", !.attempts = @ + 1, !.live = TRUE]]
  /\ worker' = [worker EXCEPT ![w] = [Free EXCEPT !.at = "resolve", !.repo = r,
                                                  !.attempt = job[r].attempts + 1]]
  /\ UNCHANGED <<worldVars, delivery, processor>>

(* The end of an attempt: the lease decides whether it is recorded.        *)
Settles(w, status, why) ==
  /\ job' = IF ~Leased(w) THEN job
            ELSE [job EXCEPT ![worker[w].repo] = [@ EXCEPT !.status = status, !.live = FALSE, !.why = why]]
  /\ worker' = [worker EXCEPT ![w] = Free]

GivesUp(w, why) == Settles(w, "FAILED", why)
TriesAgain(w) == Settles(w, IF worker[w].attempt < MaxAttempt THEN "PENDING" ELSE "FAILED", "retried")

(* By its ID: a repository that left may be public, or not be seen at all. *)
Resolve(w) ==
  /\ On(w, "resolve")
  /\ \/ /\ worker' = [worker EXCEPT ![w] = [@ EXCEPT !.at = "verify", !.name = name[worker[w].repo]]]
        /\ UNCHANGED job
     \/ worker[w].repo \notin installed /\ GivesUp(w, "repository")
  /\ UNCHANGED <<worldVars, delivery, processor>>

(* The installation of what bears the name.                                *)
VerifyInstallation(w) ==
  /\ On(w, "verify") /\ Goes(w, IF Named(w) \cap installed # {} THEN "read" ELSE "refresh")
  /\ UNCHANGED <<worldVars, delivery, job, processor>>

(* A name without an installation is final unless the repository has       *)
(* another name by now.                                                    *)
Refresh(w) ==
  /\ On(w, "refresh")
  /\ IF name[worker[w].repo] # worker[w].name THEN TriesAgain(w) ELSE GivesUp(w, "installation")
  /\ UNCHANGED <<worldVars, delivery, processor>>

(* The identity of what bears the name.                                    *)
ReadIdentity(w) ==
  /\ On(w, "read")
  /\ IF Named(w) = {worker[w].repo} THEN Goes(w, "labels") /\ UNCHANGED job ELSE TriesAgain(w)
  /\ UNCHANGED <<worldVars, delivery, processor>>

(* EnsureManagedLabels                                                     *)
ListLabels(w) ==
  /\ On(w, "labels")
  /\ IF Named(w) \cap installed = {} THEN GivesUp(w, "labels")
     ELSE /\ \E q \in Named(w) :
               worker' = [worker EXCEPT ![w] = [@ EXCEPT !.at = "create", !.missing = Labels \ labels[q]]]
          /\ UNCHANGED job
  /\ UNCHANGED <<worldVars, delivery, processor>>

Next1(w) == CHOOSE l \in worker[w].missing : \A k \in worker[w].missing : l <= k

(* The next label is created, or refused because it is there or for        *)
(* another reason.                                                         *)
Create(w) ==
  /\ On(w, "create") /\ worker[w].missing # {}
  /\ IF Named(w) \cap installed = {} THEN GivesUp(w, "labels") /\ UNCHANGED labels
     ELSE \E q \in Named(w) :
            /\ UNCHANGED job
            /\ \/ /\ Next1(w) \notin labels[q]
                  /\ labels' = [labels EXCEPT ![q] = @ \cup {Next1(w)}]
                  /\ worker' = [worker EXCEPT ![w].missing = @ \ {Next1(w)}]
               \/ Goes(w, "relist") /\ UNCHANGED labels
  /\ UNCHANGED <<installed, gone, name, delivery, processor>>

(* A mutant of Relist: a refused label is taken for one that is there.     *)
RelistNothing(w) ==
  /\ On(w, "relist")
  /\ worker' = [worker EXCEPT ![w] = [worker[w] EXCEPT !.at = "create", !.missing = @ \ {Next1(w)}]]
  /\ UNCHANGED <<worldVars, delivery, job, processor>>

(* A refused label that is there was created by somebody else.             *)
Relist(w) ==
  /\ On(w, "relist")
  /\ IF \E q \in Named(w) \cap installed : Next1(w) \in labels[q]
     THEN /\ worker' = [worker EXCEPT ![w] = [worker[w] EXCEPT !.at = "create", !.missing = @ \ {Next1(w)}]]
          /\ UNCHANGED job
     ELSE GivesUp(w, "labels")
  /\ UNCHANGED <<worldVars, delivery, processor>>

CompleteProvisioning(w) ==
  /\ On(w, "create") /\ worker[w].missing = {} /\ Settles(w, "SUCCEEDED", "none")
  /\ UNCHANGED <<worldVars, delivery, processor>>

(* A request fails in a way that passes, its answer may be lost.           *)
Falters(w) ==
  /\ ~On(w, "idle") /\ TriesAgain(w)
  /\ \/ UNCHANGED labels
     \/ /\ On(w, "create") /\ worker[w].missing # {}
        /\ \E q \in Named(w) \cap installed : labels' = [labels EXCEPT ![q] = @ \cup {Next1(w)}]
  /\ UNCHANGED <<installed, gone, name, delivery, processor>>

(* The lease runs out; the worker is cancelled by its heartbeat, dies, or  *)
(* goes on for a while.                                                    *)
ExpireLease(r) ==
  /\ job[r].status = "LEASED" /\ job[r].live
  /\ job' = [job EXCEPT ![r].live = FALSE]
  /\ \/ UNCHANGED worker
     \/ \E w \in JobWorkers : /\ worker[w].repo = r /\ worker[w].attempt = job[r].attempts
                              /\ worker' = [worker EXCEPT ![w] = Free]
  /\ UNCHANGED <<worldVars, delivery, processor>>

(* A lease that ran out was the last.                                      *)
Exhaust(r) ==
  /\ job[r].status = "LEASED" /\ ~job[r].live /\ job[r].attempts = MaxAttempt
  /\ job' = [job EXCEPT ![r] = [@ EXCEPT !.status = "FAILED", !.why = "retried"]]
  /\ UNCHANGED <<worldVars, delivery, processor, worker>>

WorkerStep ==
  \/ \E w \in JobWorkers : \/ \E r \in Repos : ClaimJob(w, r)
                           \/ Resolve(w) \/ VerifyInstallation(w) \/ Refresh(w) \/ ReadIdentity(w) \/ ListLabels(w)
                           \/ Create(w) \/ Relist(w) \/ CompleteProvisioning(w) \/ Falters(w)
  \/ \E r \in Repos : ExpireLease(r) \/ Exhaust(r)

(* The listing of an installation, and the work of the jobs of another.    *)
ListingNext == \/ Receive({}) \/ ProcessorStep
               \/ \E r \in Repos : Join(r) \/ Leave(r)
LabelsNext  == \/ Receive({1}) \/ ProcessorStep \/ WorkerStep
               \/ Leave(1) \/ \E r \in {1, 2}, n \in {1, 2} \X {1, 2} : Rename(r, n)

-----------------------------------------------------------------------------
(* A delivery is processed only when every repository that was there all   *)
(* along has its job, unless one came for one that went: pages that shift  *)
(* under the listing are noticed by their count alone.                     *)
EveryRepositoryIsQueued ==
  delivery.status = "PROCESSED" =>
    \/ \A r \in 1 .. MaxRepo - 1 : r \in installed /\ delivery.added = {} => job[r] # NoLabelJob
    \/ gone # {} /\ MaxRepo \in installed \cup gone

(* A job that is done has put every label in its repository, and no other  *)
(* worker, rename or lost answer made it skip one, unless the name was     *)
(* taken by another repository meanwhile.                                  *)
DoneMeansLabelled ==
  \A r \in Repos : job[r].status = "SUCCEEDED" =>
    labels[r] = Labels \/ \E q \in Repos \ {r} : name[q] = First(r)

(* A job is given up before its attempts are used only when its repository *)
(* left the installation; a rename before the identity was checked never   *)
(* does that.                                                              *)
RenameIsNoEnd ==
  \A r \in Repos : job[r].status = "FAILED" /\ job[r].why \in {"repository", "installation"} => r \in gone

(* Every repository of an installation gets every label, or its job tells  *)
(* why not (the listing of the installation, the workers of its jobs).     *)
ProvisioningIsComplete == EveryRepositoryIsQueued /\ DoneMeansLabelled /\ RenameIsNoEnd
=============================================================================
