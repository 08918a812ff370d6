----------------------------- MODULE TokenBucket -----------------------------
(***************************************************************************)
(* The bucket arithmetic shared by both rate limiters: evaluate_buckets in *)
(* ratelimit.py and its line-for-line mirror ratelimit.lua.                *)
(*                                                                         *)
(* The code keeps tokens as floats and refills capacity/60 (or /3600) of   *)
(* them per second.  Here a bucket's level is counted in refill ticks: one *)
(* tick of the clock adds 1, one token is worth Per[b] ticks, a full       *)
(* bucket holds Cap[b] * Per[b].  Every quantity is then an integer and    *)
(* the retry hint, (cost - tokens) / refill_rate seconds in the code, is   *)
(* simply the missing level.  acquire never passes a cost other than 1.    *)
(***************************************************************************)
EXTENDS Integers

CONSTANTS Buckets,   \* the ceilings in force (a non-positive one is disabled)
          Cap,       \* capacity of a bucket, in tokens
          Per,       \* clock ticks it takes to refill one token
          NoState    \* what is stored for a bucket nobody has drawn from

BucketNames == {"minute", "hour"}

ASSUME BucketAssumption ==
  /\ Buckets \subseteq BucketNames
  /\ Cap \in [Buckets -> Nat \ {0}]
  /\ Per \in [Buckets -> Nat \ {0}]

Full(b) == Cap[b] * Per[b]

BucketState == [level : Nat, ts : Int]

ASSUME NoStateAssumption == NoState \notin BucketState

Greater(x, y) == IF x >= y THEN x ELSE y
Lesser(x, y)  == IF x <= y THEN x ELSE y

----------------------------------------------------------------------------
RefillUncapped(s, b, now) ==
  IF s = NoState THEN Full(b) ELSE s.level + Greater(0, now - s.ts)

(* What bucket b holds at `now`: a missing state is a full bucket, a clock *)
(* that ran backwards refills nothing, and no bucket exceeds its capacity. *)
Refill(s, b, now) ==
  IF s = NoState THEN Full(b)
                 ELSE Lesser(Full(b), s.level + Greater(0, now - s.ts))

(* A call costs one token of every bucket in force.                        *)
Admits(st, now) == \A b \in Buckets : Refill(st[b], b, now) >= Per[b]

(* The states written back: refilled to now, charged only when every       *)
(* bucket admits the call, and stamped now in either case.                 *)
ChargedRegardless(st, now) ==
  [b \in Buckets |->
     [level |-> Refill(st[b], b, now) - Per[b], ts |-> now]]

ChargedPerBucket(st, now) ==
  [b \in Buckets |->
     [level |-> Refill(st[b], b, now)
                  - (IF Refill(st[b], b, now) >= Per[b] THEN Per[b] ELSE 0),
      ts    |-> now]]

Charged(st, now) ==
  [b \in Buckets |->
     [level |-> Refill(st[b], b, now)
                  - (IF Admits(st, now) THEN Per[b] ELSE 0),
      ts    |-> now]]

(* How long until bucket b alone would admit a call.                       *)
Shortfall(st, b, now) ==
  IF b \in Buckets THEN Greater(0, Per[b] - Refill(st[b], b, now)) ELSE 0

(* The hint handed to the caller: the longest wait of the deficient ones.  *)
RetryAfterShortest(st, now) ==
  Lesser(Shortfall(st, "minute", now), Shortfall(st, "hour", now))

RetryAfter(st, now) ==
  Greater(Shortfall(st, "minute", now), Shortfall(st, "hour", now))

=============================================================================
