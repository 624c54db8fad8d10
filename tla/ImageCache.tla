----------------------------- MODULE ImageCache -----------------------------
(***************************************************************************)
(* The cache of registry documents that several executions, and several    *)
(* processes, share under the Microsandbox home: a file per document, a    *)
(* file lock per document and one per registry, and cooldown files that    *)
(* keep a failing or throttling registry from being asked again at once.   *)
(*                                                                         *)
(* Every reference names its own document, all on one registry.  Time is a *)
(* counter, a backoff one or two ticks of it per failure, jitter included, *)
(* and what a server asks for is Long.  A fetcher may give up or die at    *)
(* any point; the system lets go of its locks.                             *)
(***************************************************************************)
EXTENDS Naturals, FiniteSets

CONSTANTS Fetchers, Refs,
          LastTick,       \* the end of time
          Long,          \* the longest a server asks to be left alone
          ReadableFailures  \* the failures a state that is read back counts at most: 100 in the code

ASSUME CacheAssumption == Long \in Nat /\ ReadableFailures \in Nat

VARIABLES time,
          documents,     \* published documents
          locks,         \* the holder of each document's lock
          throttle,      \* the holder of the registry's lock
          cooldown,      \* registryRetryState of each reference
          origin,        \* registryRetryState of the registry
          fetcher        \* the calls of fetch

cacheVars == <<time, documents, locks, throttle, cooldown, origin, fetcher>>

NoHolder == "nobody"
NoState == [failures |-> 0, until |-> 0]
NoFetch == [at |-> "idle", ref |-> CHOOSE r \in Refs : TRUE, asked |-> 0, seen |-> NoState]

CacheInit ==
  /\ time = 0 /\ documents = {}
  /\ locks = [r \in Refs |-> NoHolder] /\ throttle = NoHolder
  /\ cooldown = [r \in Refs |-> NoState] /\ origin = NoState
  /\ fetcher = [f \in Fetchers |-> NoFetch]

-----------------------------------------------------------------------------
(* Cooldowns                                                               *)

(* readRegistryRetryState: a state that counts too many failures is not    *)
(* accepted, as if there were none; but its count goes on.                 *)
Readable(state) == state.failures \in 1 .. ReadableFailures
Cools(state)    == Readable(state) /\ time < state.until

InCooldown(r) == Cools(cooldown[r]) \/ Cools(origin)

(* The next attempt: the backoff, or what the server asked for if that is  *)
(* longer; and never sooner than a deadline that is read back and running. *)
(* Counts past what is readable all act alike, so they are one.            *)
NextRetry(seen, asked, backoff) ==
  LET wait     == IF asked > backoff THEN asked ELSE backoff
      deadline == time + wait
  IN  [failures |-> IF seen.failures <= ReadableFailures THEN seen.failures + 1 ELSE seen.failures,
       until    |-> IF Cools(seen) /\ seen.until > deadline THEN seen.until ELSE deadline]

Backoffs(seen) == 1 .. (IF seen.failures = 0 THEN 1 ELSE 2)

-----------------------------------------------------------------------------
(* fetch                                                                   *)

FetchAt(f, step) == fetcher[f].at = step
FetchGoes(f, step) == fetcher' = [fetcher EXCEPT ![f].at = step]

(* fetch ends, and lets go of the locks it holds.                          *)
Ends(f) ==
  /\ fetcher' = [fetcher EXCEPT ![f] = NoFetch]
  /\ locks' = [r \in Refs |-> IF locks[r] = f THEN NoHolder ELSE locks[r]]
  /\ throttle' = IF throttle = f THEN NoHolder ELSE throttle

(* readVerifiedRegistryDocument: a published document with the digest that *)
(* was asked for.                                                          *)
Cached(r) == r \in documents

(* A document that is there, or a registry to be left alone, needs no lock.*)
LookUp(f, r) ==
  /\ FetchAt(f, "idle") /\ ~Cached(r) /\ ~InCooldown(r)
  /\ fetcher' = [fetcher EXCEPT ![f] = [NoFetch EXCEPT !.at = "waiting", !.ref = r]]
  /\ UNCHANGED <<time, documents, locks, throttle, cooldown, origin>>

LockDocument(f) ==
  /\ FetchAt(f, "waiting") /\ locks[fetcher[f].ref] = NoHolder
  /\ locks' = [locks EXCEPT ![fetcher[f].ref] = f]
  /\ FetchGoes(f, "locked")
  /\ UNCHANGED <<time, documents, throttle, cooldown, origin>>

(* The holder before may have published the document, or failed.           *)
RecheckDocument(f) ==
  /\ FetchAt(f, "locked")
  /\ IF Cached(fetcher[f].ref) \/ InCooldown(fetcher[f].ref) THEN Ends(f)
     ELSE FetchGoes(f, "fetching") /\ UNCHANGED <<locks, throttle>>
  /\ UNCHANGED <<time, documents, cooldown, origin>>

(* The registry answers with the document, which is published and may not  *)
(* be; with anything else; or with too many requests.                      *)
RegistryAnswers(f) ==
  /\ FetchAt(f, "fetching")
  /\ \/ documents' = documents \cup {fetcher[f].ref} /\ FetchGoes(f, "published")
     \/ /\ \E asked \in {0, Long} :
             fetcher' = [fetcher EXCEPT ![f] = [@ EXCEPT !.at = "failed", !.asked = asked,
                                                         !.seen = cooldown[fetcher[f].ref]]]
        /\ UNCHANGED documents
     \/ /\ \E asked \in {0, Long} :
             fetcher' = [fetcher EXCEPT ![f] = [@ EXCEPT !.at = "throttled", !.asked = asked]]
        /\ UNCHANGED documents
  /\ UNCHANGED <<time, locks, throttle, cooldown, origin>>

(* The reference's failures are forgotten.                                 *)
PublishDocument(f) ==
  /\ FetchAt(f, "published")
  /\ cooldown' = [cooldown EXCEPT ![fetcher[f].ref] = NoState]
  /\ Ends(f) /\ UNCHANGED <<time, documents, origin>>

(* recordRefFailure: the document's lock covers the state it read.         *)
RecordRefFailure(f) ==
  /\ FetchAt(f, "failed")
  /\ \E backoff \in Backoffs(fetcher[f].seen) :
       cooldown' = [cooldown EXCEPT ![fetcher[f].ref] =
                      NextRetry(fetcher[f].seen, fetcher[f].asked, backoff)]
  /\ Ends(f) /\ UNCHANGED <<time, documents, origin>>

(* A mutant of ReadOrigin: the registry's state is read without its lock.  *)
ReadOriginUnlocked(f) ==
  /\ FetchAt(f, "throttled")
  /\ fetcher' = [fetcher EXCEPT ![f] = [@ EXCEPT !.at = "recording", !.seen = origin]]
  /\ UNCHANGED <<time, documents, locks, throttle, cooldown, origin>>

(* recordOriginFailure: documents have locks of their own, so those that   *)
(* are throttled at once take the registry's in turn.                      *)
ReadOrigin(f) ==
  /\ FetchAt(f, "throttled") /\ throttle = NoHolder /\ throttle' = f
  /\ fetcher' = [fetcher EXCEPT ![f] = [@ EXCEPT !.at = "recording", !.seen = origin]]
  /\ UNCHANGED <<time, documents, locks, cooldown, origin>>

RecordOriginFailure(f) ==
  /\ FetchAt(f, "recording")
  /\ \E backoff \in Backoffs(fetcher[f].seen) :
       origin' = NextRetry(fetcher[f].seen, fetcher[f].asked, backoff)
  /\ Ends(f) /\ UNCHANGED <<time, documents, cooldown>>

(* Its caller gives up while it waits for a lock, or its process dies.     *)
FetchGivesUp(f) ==
  /\ ~FetchAt(f, "idle") /\ Ends(f)
  /\ UNCHANGED <<time, documents, cooldown, origin>>

TimePasses ==
  /\ time < LastTick /\ time' = time + 1
  /\ UNCHANGED <<documents, locks, throttle, cooldown, origin, fetcher>>

CacheNext ==
  \/ \E f \in Fetchers : \/ \E r \in Refs : LookUp(f, r)
                         \/ LockDocument(f) \/ RecheckDocument(f) \/ RegistryAnswers(f) \/ PublishDocument(f)
                         \/ RecordRefFailure(f) \/ ReadOrigin(f) \/ RecordOriginFailure(f)
                         \/ FetchGivesUp(f)
  \/ TimePasses

CacheSpec == CacheInit /\ [][CacheNext]_cacheVars

-----------------------------------------------------------------------------
(* After a request for a document failed there is no other before a        *)
(* cooldown that can be read is over, however many were waiting for the    *)
(* first; and none once the document is published.                         *)
OneRequestAtATime ==
  /\ \A r \in Refs :
       Cardinality({f \in Fetchers : fetcher[f].ref = r
                       /\ fetcher[f].at \in {"fetching", "published", "failed"}}) <= 1
  /\ \A f \in Fetchers :
       FetchAt(f, "fetching") => ~Cached(fetcher[f].ref) /\ ~Cools(cooldown[fetcher[f].ref])

(* And while the failures of a registry are fewer than can be read back, a *)
(* time it asked to be left alone is never cut short, nor out of sight of  *)
(* the next fetch, whatever else is throttled at the same moment and for   *)
(* how long (recordOriginFailure, inCooldown, fetch).  The failures of a   *)
(* registry are never forgotten, and once they are too many to be read     *)
(* back a running deadline may be ignored, and replaced by a shorter one.  *)
RegistryIsLeftAlone ==
  [][/\ Cools(origin) /\ origin.failures < ReadableFailures
          => origin'.until >= origin.until /\ Readable(origin')
     /\ OneRequestAtATime']_cacheVars
=============================================================================
