---------------------------- MODULE RedisLimiter ----------------------------
(***************************************************************************)
(* RedisRateLimiter of ratelimit.py and the script of ratelimit.lua, for   *)
(* one user.  Workers on any replica share one hash per bucket.            *)
(*                                                                         *)
(* A worker reads its own host's clock, THEN awaits the script: the script *)
(* is atomic, but it runs with a stamp taken earlier, on another machine.  *)
(* Any RedisError lets the call through, whether or not the script ran.    *)
(* Each hash is given a time to live, counted on the server's clock.       *)
(*                                                                         *)
(* granted, latest, late, ranAt and overdue are observations: charges per  *)
(* stamp, the greatest stamp the server has seen, whether a script ever    *)
(* ran with a stamp older than that, when the last script ran, and whether *)
(* between two of them the server's clock ever ran on by more than         *)
(* EXPIRE's extra second beyond what their stamps are apart.  The code     *)
(* bounds neither the delay of a command nor how far apart the clocks are: *)
(* MaxDelay and MaxOffset only keep a run finite.                          *)
(***************************************************************************)
EXTENDS TokenBucket

CONSTANTS Workers,       \* coroutines that call acquire for this user
          Offset,        \* what worker w's host clock is ahead of the server's
          MaxOffset,     \* no clock is further ahead
          MaxDelay,      \* ticks a command takes at most to reach the server
          Grace,         \* EXPIRE's extra second, in ticks
          ServerHorizon  \* the server's clock stops here

ASSUME RedisAssumption ==
  /\ MaxOffset \in Nat /\ MaxDelay \in Nat /\ Grace \in Nat /\ ServerHorizon \in Nat
  /\ Offset \in [Workers -> 0 .. MaxOffset]

VARIABLES clock,     \* the server's clock
          store,     \* per bucket, the hash {tokens, ts}
          expires,   \* per bucket, when the hash disappears
          calls,     \* per worker, the acquire in progress
          results,   \* per worker, the RateLimitResult of its latest acquire
          granted,   \* granted[m]: calls charged with a stamp of m or later
          latest,    \* the greatest stamp the script has run with
          late,      \* has the script ever run with an older stamp
          ranAt,     \* the server's time when the script last ran
          overdue    \* has it ever run more than Grace behind the last one

redisVars == <<clock, store, expires, calls, results, granted, latest, late,
               ranAt, overdue>>

Stamps == 0 .. ServerHorizon + MaxOffset

Result == [allowed : BOOLEAN, retry : Nat]

FailOpen == [allowed |-> TRUE, retry |-> 0]

Idle == [phase |-> "idle", stamp |-> 0, sent |-> 0, reply |-> FailOpen]

Call == [phase : {"idle", "sent", "answered"},
         stamp : Stamps, sent : 0 .. ServerHorizon, reply : Result]

RedisTypeOK ==
  /\ clock \in 0 .. ServerHorizon
  /\ store \in [Buckets -> BucketState \cup {NoState}]
  /\ \A b \in Buckets :
       store[b] # NoState => store[b].level <= Full(b) /\ store[b].ts \in Stamps
  /\ expires \in [Buckets -> Nat]
  /\ calls \in [Workers -> Call]
  /\ results \in [Workers -> Result]
  /\ granted \in [Stamps -> Nat]
  /\ latest \in Stamps
  /\ late \in BOOLEAN
  /\ ranAt \in 0 .. ServerHorizon
  /\ overdue \in BOOLEAN

----------------------------------------------------------------------------
RedisInit ==
  /\ clock = 0
  /\ store = [b \in Buckets |-> NoState]
  /\ expires = [b \in Buckets |-> 0]
  /\ calls = [w \in Workers |-> Idle]
  /\ results = [w \in Workers |-> FailOpen]
  /\ granted = [m \in Stamps |-> 0]
  /\ latest = 0
  /\ late = FALSE
  /\ ranAt = 0
  /\ overdue = FALSE

(* acquire up to its await: the arguments, the clock included, are fixed.  *)
Send(w) ==
  /\ calls[w].phase = "idle"
  /\ calls' = [calls EXCEPT ![w] = [Idle EXCEPT !.phase = "sent",
                                                !.stamp = clock + Offset[w],
                                                !.sent  = clock]]
  /\ UNCHANGED <<clock, store, expires, results, granted, latest, late, ranAt, overdue>>

(* The hashes the script finds: an expired one reads as no hash at all.    *)
Live == [b \in Buckets |-> IF clock >= expires[b] THEN NoState ELSE store[b]]

TimeToLiveHalf(b) == (Full(b) \div 2) + Grace

TimeToLive(b) == Full(b) + Grace

(* The script's verdict on a call stamped t, and the state it leaves.      *)
RunScriptNoFloor(w) ==
  LET t       == calls[w].stamp
      allowed == Admits(Live, t)
  IN  /\ store' = ChargedRegardless(Live, t)
      /\ calls' = [calls EXCEPT ![w].phase = "answered",
                                ![w].reply = [allowed |-> allowed,
                                              retry   |-> RetryAfter(Live, t)]]
      /\ granted' = [m \in Stamps |-> granted[m] + (IF allowed /\ m <= t THEN 1 ELSE 0)]

RunScript(w) ==
  LET t       == calls[w].stamp
      allowed == Admits(Live, t)
  IN  /\ store' = Charged(Live, t)
      /\ calls' = [calls EXCEPT ![w].phase = "answered",
                                ![w].reply = [allowed |-> allowed,
                                              retry   |-> RetryAfter(Live, t)]]
      /\ granted' = [m \in Stamps |-> granted[m] + (IF allowed /\ m <= t THEN 1 ELSE 0)]

Execute(w) ==
  /\ calls[w].phase = "sent"
  /\ RunScript(w)
  /\ expires' = [b \in Buckets |-> clock + TimeToLive(b)]
  /\ latest' = Greater(latest, calls[w].stamp)
  /\ late' = (late \/ calls[w].stamp < latest)
  /\ ranAt' = clock
  /\ overdue' = (overdue \/ clock - ranAt > (calls[w].stamp - latest) + Grace)
  /\ UNCHANGED <<clock, results>>

(* The reply arrives and acquire returns it.                               *)
Deliver(w) ==
  /\ calls[w].phase = "answered"
  /\ results' = [results EXCEPT ![w] = calls[w].reply]
  /\ calls' = [calls EXCEPT ![w] = Idle]
  /\ UNCHANGED <<clock, store, expires, granted, latest, late, ranAt, overdue>>

(* The await raises RedisError, before or after the script ran: allowed.   *)
RedisFails(w) ==
  /\ calls[w].phase # "idle"
  /\ results' = [results EXCEPT ![w] = FailOpen]
  /\ calls' = [calls EXCEPT ![w] = Idle]
  /\ UNCHANGED <<clock, store, expires, granted, latest, late, ranAt, overdue>>

ServerTick ==
  /\ clock < ServerHorizon
  /\ \A w \in Workers : calls[w].phase = "sent" => clock - calls[w].sent < MaxDelay
  /\ clock' = clock + 1
  /\ UNCHANGED <<store, expires, calls, results, granted, latest, late, ranAt, overdue>>

RedisNext ==
  \/ ServerTick
  \/ \E w \in Workers : Send(w) \/ Execute(w) \/ Deliver(w) \/ RedisFails(w)

RedisSpec == RedisInit /\ [][RedisNext]_redisVars

----------------------------------------------------------------------------
WithinCeiling(n, b, d) == n * Per[b] <= Full(b) + d

(* The documented promise: whatever replica they arrive at, the calls      *)
(* charged in any window stay under both per-user ceilings.                *)
ClusterCeiling ==
  \A b \in Buckets : \A m \in 0 .. latest : WithinCeiling(granted[m], b, latest - m)

(* What the code does give: the ceilings hold cluster-wide for as long as  *)
(* the scripts run in the order of their stamps, and between two of them   *)
(* no more than Grace longer passes on the server than between the stamps; *)
(* through lost replies, failures, refused polls and expiring hashes.      *)
(* Order alone would not do: a hash expires on the server's clock, Grace   *)
(* after its bucket would be full, and a late command may still bear a     *)
(* stamp at which it was not.                                              *)
PromptCeiling == ~late /\ ~overdue => ClusterCeiling

(* In any order, a refusal is due: the call did not fit under some ceiling *)
(* at its stamp, nor one tick before the end of the wait it was told.      *)
RefusedOnlyAtCeiling ==
  [][\A w \in Workers :
       LET t == calls[w].stamp
           r == calls'[w].reply
       IN  (calls[w].phase = "sent" /\ calls'[w].phase = "answered" /\ ~r.allowed)
             => /\ r.retry > 0
                /\ \E b \in Buckets : \E m \in 0 .. t :
                     ~WithinCeiling(granted[m] + 1, b, t + r.retry - 1 - m)]_redisVars

=============================================================================
