----------------------------- MODULE JwksClient -----------------------------
(***************************************************************************)
(* JWKSClient of auth/jwks.py: one cache of signing keys per process,      *)
(* shared by every request being authenticated.                            *)
(*                                                                         *)
(* Coroutines interleave only where the code awaits: at the asyncio.Lock   *)
(* and at the HTTP fetch.  An action is the code between two awaits.  The  *)
(* lock is first-in first-out, and a released lock goes to the first       *)
(* waiter even if another coroutine asks before that waiter has run.       *)
(*                                                                         *)
(* Cognito is the environment: it publishes and withdraws keys at will,    *)
(* and a fetch returns what it published at some moment of the fetch.      *)
(* since and failed are observations: when each key was last published or  *)
(* withdrawn, and whether the latest refresh to end has failed.            *)
(*                                                                         *)
(* What becomes of a request once it has its answer is in HttpPipeline.    *)
(***************************************************************************)
EXTENDS Integers, Sequences

CONSTANTS Requests,      \* coroutines running verify_token
          Kids,          \* the key ids that tokens name
          CognitoKids,   \* those of them that Cognito may publish
          TTL,           \* ttl_seconds
          MinInterval,   \* min_refresh_interval
          FetchTimeout,  \* a fetch lasts at most this long; httpx bounds each
                         \* read, so it may well exceed MinInterval
          Horizon,       \* the clock stops here
          NoOne          \* the lock is free

ASSUME JwksAssumption ==
  /\ MinInterval \in Nat \ {0} /\ FetchTimeout \in Nat /\ Horizon \in Nat
  /\ TTL \in Nat /\ MinInterval <= TTL
  /\ CognitoKids \subseteq Kids
  /\ NoOne \notin Requests

VARIABLES now,          \* time.monotonic
          published,    \* the kids Cognito serves
          since,        \* when a kid was last published or withdrawn
          failed,       \* the latest refresh to end has failed
          cache,        \* self._cache: the kids of the last document
          fetchedAt,    \* self._fetched_at
          lastAttempt,  \* self._last_attempt_at
          lock,         \* the coroutine inside `async with self._lock`
          waiters,      \* the coroutines waiting for it, in order
          wire,         \* the documents on their way, one at most
          calls         \* per request: where it is, its kid, its answer

vars == <<now, published, since, failed, cache, fetchedAt, lastAttempt, lock, waiters,
          wire, calls>>

external == <<published, since>>
client   == <<failed, cache, fetchedAt, lastAttempt>>

Never == -1

Answers == {"key", "unknown", "unavailable", "crash"}

Idle == [pc |-> "idle"]

Call == {Idle} \cup [pc : {"waiting", "fetching"}, kid : Kids]
               \cup [pc : {"done"}, kid : Kids, answer : Answers]

TypeOK ==
  /\ now \in 0 .. Horizon
  /\ published \in SUBSET CognitoKids
  /\ since \in [CognitoKids -> 0 .. Horizon]
  /\ failed \in BOOLEAN
  /\ cache \in SUBSET CognitoKids
  /\ fetchedAt \in 0 .. Horizon \cup {Never}
  /\ lastAttempt \in 0 .. Horizon \cup {Never}
  /\ lock \in Requests \cup {NoOne}
  /\ waiters \in Seq(Requests)
  /\ wire \in SUBSET (SUBSET CognitoKids)
  /\ calls \in [Requests -> Call]

----------------------------------------------------------------------------
Init ==
  /\ now = 0
  /\ published \in SUBSET CognitoKids
  /\ since = [k \in CognitoKids |-> 0]
  /\ failed = FALSE
  /\ cache = {}
  /\ fetchedAt = Never
  /\ lastAttempt = Never
  /\ lock = NoOne
  /\ waiters = <<>>
  /\ wire = {}
  /\ calls = [r \in Requests |-> Idle]

----------------------------------------------------------------------------
IsFresh == fetchedAt # Never /\ now - fetchedAt < TTL

CanRefreshAfterSuccess ==
  fetchedAt = Never \/ now - fetchedAt >= MinInterval

CanRefreshOnceStale == lastAttempt = Never \/ ~IsFresh

CanRefresh == lastAttempt = Never \/ now - lastAttempt >= MinInterval

CachedKey(k) == fetchedAt # Never /\ k \in cache

HasFreshKey(k) == IsFresh /\ k \in cache

At(r, pc, k) == calls' = [calls EXCEPT ![r] = [pc |-> pc, kid |-> k]]

Answer(r, k, a) ==
  calls' = [calls EXCEPT ![r] = [pc |-> "done", kid |-> k, answer |-> a]]

LookUp(k, document) == IF k \in document THEN "key" ELSE "unknown"

(* The stamp precedes the fetch, so that a slow Cognito does not lengthen  *)
(* the throttle window.                                                    *)
StampDeadline == lastAttempt' = now + MinInterval

StampAttempt == lastAttempt' = now

(* Inside the throttle window the cache answers, however old it is, once   *)
(* there is one.                                                           *)
ThrottledLookUp(k) == LookUp(k, cache)

ThrottledAnswer(k) == IF fetchedAt = Never THEN "unavailable" ELSE LookUp(k, cache)

(* The body of `async with self._lock`, up to its await or its end.  A     *)
(* call that ends here leaves the lock as free as it found it.             *)
InLock(r, k) ==
  \/ /\ HasFreshKey(k)
     /\ Answer(r, k, "key")
     /\ UNCHANGED <<client, lock>>
  \/ /\ ~HasFreshKey(k) /\ CanRefresh
     /\ StampAttempt
     /\ lock' = r
     /\ At(r, "fetching", k)
     /\ UNCHANGED <<failed, cache, fetchedAt>>
  \/ /\ ~HasFreshKey(k) /\ ~CanRefresh
     /\ Answer(r, k, ThrottledAnswer(k))
     /\ UNCHANGED <<client, lock>>

(* get_key of a fresh, cached kid: answered without touching the lock.     *)
FastPath(r, k) ==
  /\ calls[r].pc = "idle"
  /\ HasFreshKey(k)
  /\ Answer(r, k, "key")
  /\ UNCHANGED <<now, external, client, lock, waiters, wire>>

(* get_key that finds the lock free and nobody waiting goes straight in.   *)
GoIn(r, k) ==
  /\ calls[r].pc = "idle"
  /\ ~HasFreshKey(k)
  /\ lock = NoOne /\ waiters = <<>>
  /\ InLock(r, k)
  /\ UNCHANGED <<now, external, waiters, wire>>

(* Otherwise it waits its turn.                                            *)
Enqueue(r, k) ==
  /\ calls[r].pc = "idle"
  /\ ~HasFreshKey(k)
  /\ lock # NoOne \/ waiters # <<>>
  /\ waiters' = Append(waiters, r)
  /\ At(r, "waiting", k)
  /\ UNCHANGED <<now, external, client, lock, wire>>

WakeUp ==
  /\ lock = NoOne /\ waiters # <<>>
  /\ InLock(Head(waiters), calls[Head(waiters)].kid)
  /\ waiters' = Tail(waiters)
  /\ UNCHANGED <<now, external, wire>>

(* verify_token takes the answer; the next request may come.               *)
Return(r) ==
  /\ calls[r].pc = "done"
  /\ calls' = [calls EXCEPT ![r] = Idle]
  /\ UNCHANGED <<now, external, client, lock, waiters, wire>>

----------------------------------------------------------------------------
(* The fetch.  Only the lock's holder fetches, so one document is on its   *)
(* way at most.                                                            *)
Fetching == lock # NoOne /\ calls[lock].pc = "fetching"

CognitoAnswers ==
  /\ Fetching /\ wire = {}
  /\ wire' = {published}
  /\ UNCHANGED <<now, external, client, lock, waiters, calls>>

(* The document arrives and replaces the cache; the waiting call looks its *)
(* kid up in the new one.                                                  *)
FetchSucceeds ==
  \E document \in wire :
    /\ Fetching
    /\ cache' = document
    /\ fetchedAt' = now
    /\ failed' = FALSE
    /\ Answer(lock, calls[lock].kid, LookUp(calls[lock].kid, document))
    /\ lock' = NoOne
    /\ wire' = {}
    /\ UNCHANGED <<now, external, lastAttempt, waiters>>

(* An HTTP error, a body that is not JSON or an object without a "keys"    *)
(* list: JWKSUnavailable.  A JSON document that is not an object escapes   *)
(* as another exception.  Either way the lock is released and the cache    *)
(* is kept.                                                                *)
FetchFailsHoldingLock ==
  /\ Fetching
  /\ Answer(lock, calls[lock].kid, "unavailable")
  /\ failed' = TRUE
  /\ wire' = {}
  /\ UNCHANGED <<now, external, cache, fetchedAt, lastAttempt, lock, waiters>>

FetchFails ==
  /\ Fetching
  /\ \E a \in {"unavailable", "crash"} : Answer(lock, calls[lock].kid, a)
  /\ failed' = TRUE
  /\ lock' = NoOne
  /\ wire' = {}
  /\ UNCHANGED <<now, external, cache, fetchedAt, lastAttempt, waiters>>

----------------------------------------------------------------------------
(* Cognito rotates its keys.                                               *)
Publish(k) ==
  /\ k \notin published
  /\ published' = published \cup {k}
  /\ since' = [since EXCEPT ![k] = now]
  /\ UNCHANGED <<now, client, lock, waiters, wire, calls>>

Withdraw(k) ==
  /\ k \in published
  /\ published' = published \ {k}
  /\ since' = [since EXCEPT ![k] = now]
  /\ UNCHANGED <<now, client, lock, waiters, wire, calls>>

Tick ==
  /\ now < Horizon
  /\ lock # NoOne => now - lastAttempt < FetchTimeout
  /\ now' = now + 1
  /\ UNCHANGED <<external, client, lock, waiters, wire, calls>>

----------------------------------------------------------------------------
(* The outbound fetch rate is bounded: from one attempt to the next, a     *)
(* full interval passes, failures and bursts of waiters included, and no   *)
(* second fetch starts while one is in flight.                             *)
AttemptsSpaced ==
  [][lastAttempt' # lastAttempt =>
       /\ lastAttempt # Never => lastAttempt' - lastAttempt >= MinInterval
       /\ \A r \in Requests : calls[r].pc # "fetching"]_vars
=============================================================================
