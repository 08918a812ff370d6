-------------------------- MODULE InMemoryLimiter --------------------------
(***************************************************************************)
(* InMemoryRateLimiter of ratelimit.py: per-user bucket states in a dict,  *)
(* time.monotonic as the clock, an asyncio.Lock around each acquire.       *)
(*                                                                         *)
(* Nothing inside `async with self._lock` awaits, so the lock is never     *)
(* seen held by another coroutine and an acquire is one atomic step: read  *)
(* the clock, evaluate, write every bucket back, answer.                   *)
(*                                                                         *)
(* used and verdict are observations, not program state: the calls allowed *)
(* so far and the last answer each user got.                               *)
(***************************************************************************)
EXTENDS TokenBucket

CONSTANTS Keys,      \* user subs
          Horizon    \* the clock stops here

ASSUME HorizonAssumption == Horizon \in Nat

VARIABLES now,       \* the monotonic clock, in refill ticks
          states,    \* self._states: per user, per bucket
          used,      \* used[k][m]: calls of k allowed at or after time m
          verdict    \* the RateLimitResult of each user's latest acquire

vars == <<now, states, used, verdict>>

(* The abstract limiter sees the clock, the calls and the answers, and no  *)
(* bucket.                                                                 *)
Ceiling ==
  INSTANCE RateCeiling
    WITH Keys <- Keys, Horizon <- Horizon, now <- now, used <- used, verdict <- verdict

TypeOK ==
  /\ now \in 0 .. Horizon
  /\ states \in [Keys -> [Buckets -> BucketState \cup {NoState}]]
  /\ \A k \in Keys, b \in Buckets :
       states[k][b] # NoState => /\ states[k][b].level <= Full(b)
                                 /\ states[k][b].ts \in 0 .. now
  /\ used \in [Keys -> [0 .. Horizon -> Nat]]
  /\ verdict \in [Keys -> [allowed : BOOLEAN, retry : Nat]]

----------------------------------------------------------------------------
Init ==
  /\ now = 0
  /\ states = [k \in Keys |-> [b \in Buckets |-> NoState]]
  /\ used = [k \in Keys |-> [m \in 0 .. Horizon |-> 0]]
  /\ verdict = [k \in Keys |-> [allowed |-> TRUE, retry |-> 0]]

Acquire(k) ==
  LET allowed == Admits(states[k], now)
  IN  /\ states' = [states EXCEPT ![k] = Charged(states[k], now)]
      /\ used' = IF allowed THEN Ceiling!CountCall(k) ELSE used
      /\ verdict' = [verdict EXCEPT ![k] =
                       [allowed |-> allowed,
                        retry   |-> RetryAfter(states[k], now)]]
      /\ UNCHANGED now

Tick ==
  /\ now < Horizon
  /\ now' = now + 1
  /\ UNCHANGED <<states, used, verdict>>

Next == Tick \/ \E k \in Keys : Acquire(k)

Spec == Init /\ [][Next]_vars

----------------------------------------------------------------------------
(* In every window of every user, the allowed calls stay under both        *)
(* ceilings: capacity plus what the window's length refills.  A bucket     *)
(* only remembers its level, so this must survive any pattern of bursts,   *)
(* refused polls and pauses.                                               *)
WindowCeiling == Ceiling!WindowCeiling

(* The limiter answers exactly as the ceilings themselves would: it allows *)
(* every call that fits under both, refuses only those that do not, and    *)
(* its retry hint is the first moment the call could succeed, however many *)
(* refused polls came in between.                                          *)
ImplementsCeiling == Ceiling!CeilingSpec

----------------------------------------------------------------------------
(* The invariant behind both: what a bucket holds now is the slack of the  *)
(* tightest window, never more (so no window can be overrun) and never     *)
(* less (so no call is refused that fits).                                 *)
Level(k, b) == Refill(states[k][b], b, now)

Slack(k, b, m) == Full(b) + (now - m) - used[k][m] * Per[b]

LevelWithinSlack ==
  \A k \in Keys, b \in Buckets : \A m \in 0 .. now : Level(k, b) <= Slack(k, b, m)

LevelIsSomeSlack ==
  \A k \in Keys, b \in Buckets : \E m \in 0 .. now : Level(k, b) = Slack(k, b, m)

NothingUsedAhead ==
  \A k \in Keys : \A m \in 0 .. Horizon : m > now => used[k][m] = 0

IInv == TypeOK /\ NothingUsedAhead /\ LevelWithinSlack /\ LevelIsSomeSlack

=============================================================================
