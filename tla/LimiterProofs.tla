---------------------------- MODULE LimiterProofs ----------------------------
(***************************************************************************)
(* The two rate limiters.  For any set of users, any ceilings and any      *)
(* horizon: the in-process one keeps its types, never lets a window be     *)
(* overrun, and implements the abstract ceilings of RateCeiling.           *)
(*                                                                         *)
(* For any number of workers, any ceilings and any clocks: a refusal of    *)
(* the Redis limiter is due, in whatever order the scripts run; and while  *)
(* they run in the order of their stamps and promptly, both ceilings hold  *)
(* cluster-wide.                                                           *)
(*                                                                         *)
(* The script mirrors evaluate_buckets, so the lemmas about buckets are    *)
(* those of the in-process limiter.                                        *)
(***************************************************************************)
EXTENDS RedisLimiter, InMemoryLimiter, TLAPS

(* A full bucket holds at least one token.                                 *)
LEMMA FullBucket ==
  ASSUME NEW b \in Buckets
  PROVE  /\ Per[b] \in Nat
         /\ Per[b] > 0
         /\ Full(b) \in Nat
         /\ Per[b] <= Full(b)
<1>1. PICK c \in Nat \ {0}, p \in Nat \ {0} : Cap[b] = c /\ Per[b] = p
  BY BucketAssumption
<1>2. c * p \in Nat /\ p <= c * p
  <2>1. c * p = p + (c - 1) * p /\ (c - 1) \in Nat
    OBVIOUS
  <2>2. (c - 1) * p \in Nat
    OBVIOUS
  <2>. QED BY <2>1, <2>2
<1>. QED BY <1>1, <1>2 DEF Full

(* One more call costs one more token.                                     *)
LEMMA OneMore ==
  ASSUME NEW n \in Nat, NEW p \in Nat
  PROVE  n * p \in Nat /\ (n + 1) * p = n * p + p
OBVIOUS

(* Refilling never overfills and never goes negative; a bucket refilled    *)
(* later holds what it held plus the time passed, up to full.              *)
LEMMA RefillBounds ==
  ASSUME NEW b \in Buckets, NEW t \in Int,
         NEW s \in BucketState \cup {NoState}
  PROVE  Refill(s, b, t) \in 0 .. Full(b)
<1>1. CASE s = NoState
  BY <1>1, FullBucket DEF Refill
<1>2. CASE s \in BucketState
  BY <1>2, FullBucket, NoStateAssumption DEF Refill, BucketState, Lesser, Greater
<1>. QED BY <1>1, <1>2

LEMMA RefillLater ==
  ASSUME NEW b \in Buckets, NEW t \in Nat,
         NEW s \in BucketState \cup {NoState},
         s # NoState => s.ts \in 0 .. t
  PROVE  Refill(s, b, t + 1) = Lesser(Full(b), Refill(s, b, t) + 1)
<1>1. CASE s = NoState
  BY <1>1, FullBucket DEF Refill, Lesser
<1>2. CASE s \in BucketState
  BY <1>2, FullBucket, NoStateAssumption DEF Refill, BucketState, Lesser, Greater
<1>. QED BY <1>1, <1>2

(* The states an acquire writes: in range, stamped now, and read back at   *)
(* once they hold what was refilled less the charge.                       *)
LEMMA ChargedStates ==
  ASSUME NEW st \in [Buckets -> BucketState \cup {NoState}], NEW t \in Nat
  PROVE  /\ Charged(st, t) \in [Buckets -> BucketState]
         /\ \A b \in Buckets :
              /\ Charged(st, t)[b] # NoState
              /\ Charged(st, t)[b].level <= Full(b)
              /\ Charged(st, t)[b].ts = t
              /\ Refill(Charged(st, t)[b], b, t) =
                   Refill(st[b], b, t) - (IF Admits(st, t) THEN Per[b] ELSE 0)
<1>. DEFINE left(b) == Refill(st[b], b, t) - (IF Admits(st, t) THEN Per[b] ELSE 0)
<1>1. ASSUME NEW b \in Buckets PROVE left(b) \in 0 .. Full(b)
  <2>1. Refill(st[b], b, t) \in 0 .. Full(b)
    BY RefillBounds
  <2>2. CASE Admits(st, t)
    BY <2>1, <2>2, FullBucket DEF Admits
  <2>3. CASE ~Admits(st, t)
    BY <2>1, <2>3, FullBucket
  <2>. QED BY <2>2, <2>3
<1>2. Charged(st, t) = [b \in Buckets |-> [level |-> left(b), ts |-> t]]
  BY DEF Charged
<1>. HIDE DEF left
<1>3. ASSUME NEW b \in Buckets
      PROVE  /\ Charged(st, t)[b] = [level |-> left(b), ts |-> t]
             /\ Charged(st, t)[b] \in BucketState
  BY <1>1, <1>2, FullBucket DEF BucketState
<1>4. ASSUME NEW b \in Buckets
      PROVE  /\ Charged(st, t)[b] # NoState
             /\ Charged(st, t)[b].level = left(b)
             /\ Charged(st, t)[b].ts = t
  <2>1. Charged(st, t)[b] # NoState
    BY <1>3, NoStateAssumption
  <2>2. PICK c : c = Charged(st, t)[b]
    OBVIOUS
  <2>3. c = [level |-> left(b), ts |-> t]
    BY <2>2, <1>3
  <2>4. c.level = left(b) /\ c.ts = t
    BY <2>3
  <2>. QED BY <2>1, <2>2, <2>4
<1>5. ASSUME NEW b \in Buckets
      PROVE  /\ Charged(st, t)[b].level <= Full(b)
             /\ Refill(Charged(st, t)[b], b, t) = left(b)
  <2>1. left(b) \in Nat /\ left(b) <= Full(b) /\ Full(b) \in Nat
    BY <1>1, FullBucket
  <2>2. Refill(Charged(st, t)[b], b, t) = Lesser(Full(b), left(b) + Greater(0, t - t))
    BY <1>4 DEF Refill
  <2>. QED BY <2>1, <2>2, <1>4 DEF Lesser, Greater
<1>6. Charged(st, t) \in [Buckets -> BucketState]
  BY <1>2, <1>3
<1>. QED BY <1>4, <1>5, <1>6 DEF left

LEMMA RetryAfterType ==
  ASSUME NEW st \in [Buckets -> BucketState \cup {NoState}], NEW t \in Nat
  PROVE  RetryAfter(st, t) \in Nat
<1>1. ASSUME NEW b PROVE Shortfall(st, b, t) \in Nat
  <2>1. CASE b \in Buckets
    BY <2>1, RefillBounds, FullBucket DEF Shortfall, Greater
  <2>2. CASE b \notin Buckets
    BY <2>2 DEF Shortfall
  <2>. QED BY <2>1, <2>2
<1>. QED BY <1>1 DEF RetryAfter, Greater

----------------------------------------------------------------------------
(* What a bucket holds now is a number of ticks, at most a full bucket's.  *)
LEMMA LevelRange ==
  ASSUME TypeOK, NEW k \in Keys, NEW b \in Buckets
  PROVE  Level(k, b) \in 0 .. Full(b)
BY RefillBounds, HorizonAssumption DEF TypeOK, Level

(* What an acquire does to the quantities the invariant speaks of.         *)
LEMMA AcquireEffect ==
  ASSUME TypeOK, NEW k \in Keys, Acquire(k)
  PROVE  /\ TypeOK'
         /\ now' = now
         /\ \A j \in Keys, b \in Buckets :
              Level(j, b)' = Level(j, b) -
                (IF j = k /\ Admits(states[k], now) THEN Per[b] ELSE 0)
         /\ \A j \in Keys, m \in 0 .. Horizon :
              used'[j][m] = used[j][m] +
                (IF j = k /\ Admits(states[k], now) /\ m <= now THEN 1 ELSE 0)
<1>. DEFINE ok == Admits(states[k], now)
            after == Charged(states[k], now)
<1>1. /\ states' = [states EXCEPT ![k] = after]
      /\ used' = IF ok THEN Ceiling!CountCall(k) ELSE used
      /\ verdict' = [verdict EXCEPT ![k] =
                       [allowed |-> ok, retry |-> RetryAfter(states[k], now)]]
      /\ now' = now
  BY DEF Acquire
<1>0. states[k] \in [Buckets -> BucketState \cup {NoState}] /\ now \in Nat
  BY HorizonAssumption DEF TypeOK
<1>2. /\ after \in [Buckets -> BucketState]
      /\ \A b \in Buckets :
           /\ after[b] # NoState
           /\ after[b].level <= Full(b)
           /\ after[b].ts = now
           /\ Refill(after[b], b, now) =
                Refill(states[k][b], b, now) - (IF ok THEN Per[b] ELSE 0)
  BY <1>0, ChargedStates
<1>3. ok \in BOOLEAN /\ RetryAfter(states[k], now) \in Nat
  BY <1>0, RetryAfterType DEF Admits
<1>. HIDE DEF ok, after
<1>4. /\ used' \in [Keys -> [0 .. Horizon -> Nat]]
      /\ \A j \in Keys, m \in 0 .. Horizon :
        used'[j][m] = used[j][m] + (IF j = k /\ ok /\ m <= now THEN 1 ELSE 0)
  <2>. DEFINE row == [m \in 0 .. Horizon |-> used[k][m] + (IF m <= now THEN 1 ELSE 0)]
  <2>1. used \in [Keys -> [0 .. Horizon -> Nat]]
    BY DEF TypeOK
  <2>2. \A j \in Keys, m \in 0 .. Horizon : used[j][m] \in Nat
    BY <2>1
  <2>3. CASE ok
    <3>1. used' = [used EXCEPT ![k] = row]
      BY <1>1, <2>3 DEF Ceiling!CountCall, Ceiling!Times
    <3>2. ASSUME NEW m \in 0 .. Horizon
          PROVE  used[k][m] + (IF m <= now THEN 1 ELSE 0) \in Nat
      <4>1. used[k][m] \in Nat
        BY <2>2
      <4>. QED BY <4>1
    <3>3. /\ row \in [0 .. Horizon -> Nat]
          /\ \A m \in 0 .. Horizon : row[m] = used[k][m] + (IF m <= now THEN 1 ELSE 0)
      BY <3>2
    <3>. HIDE DEF row
    <3>4. used' \in [Keys -> [0 .. Horizon -> Nat]]
      BY <2>1, <3>1, <3>3
    <3>5. ASSUME NEW j \in Keys, NEW m \in 0 .. Horizon
          PROVE  used'[j][m] = used[j][m] + (IF j = k /\ ok /\ m <= now THEN 1 ELSE 0)
      <4>1. used[j][m] \in Nat
        BY <2>2
      <4>2. CASE j = k
        BY <2>1, <2>3, <3>1, <3>3, <4>2
      <4>3. CASE j # k
        <5>1. used'[j] = used[j]
          BY <2>1, <3>1, <4>3
        <5>. QED BY <4>1, <4>3, <5>1
      <4>. QED BY <4>2, <4>3
    <3>. QED BY <3>4, <3>5
  <2>4. CASE ~ok
    <3>1. used' = used
      BY <1>1, <2>4
    <3>2. ASSUME NEW j \in Keys, NEW m \in 0 .. Horizon
          PROVE  used[j][m] = used[j][m] + (IF j = k /\ ok /\ m <= now THEN 1 ELSE 0)
      <4>1. used[j][m] \in Nat
        BY <2>2
      <4>. QED BY <2>4, <4>1
    <3>. QED BY <2>1, <3>1, <3>2
  <2>. QED BY <1>3, <2>3, <2>4
<1>5. TypeOK'
  <2>1. states' \in [Keys -> [Buckets -> BucketState \cup {NoState}]]
    BY <1>1, <1>2 DEF TypeOK
  <2>2. \A j \in Keys, b \in Buckets :
          states'[j][b] # NoState => /\ states'[j][b].level <= Full(b)
                                     /\ states'[j][b].ts \in 0 .. now
    BY <1>1, <1>2, HorizonAssumption DEF TypeOK
  <2>3. used' \in [Keys -> [0 .. Horizon -> Nat]]
    BY <1>4
  <2>4. verdict' \in [Keys -> [allowed : BOOLEAN, retry : Nat]]
    BY <1>1, <1>3 DEF TypeOK
  <2>. QED BY <1>1, <2>1, <2>2, <2>3, <2>4 DEF TypeOK
<1>6. ASSUME NEW j \in Keys, NEW b \in Buckets
      PROVE  Level(j, b)' = Level(j, b) - (IF j = k /\ ok THEN Per[b] ELSE 0)
  <2>1. CASE j = k
    <3>1. states'[j][b] = after[b]
      BY <1>1, <2>1 DEF TypeOK
    <3>. QED BY <3>1, <1>1, <1>2, <2>1 DEF Level
  <2>2. CASE j # k
    <3>1. states'[j] = states[j]
      BY <1>1, <2>2 DEF TypeOK
    <3>2. Level(j, b) \in Int
      BY LevelRange, FullBucket
    <3>. QED BY <3>1, <3>2, <1>1, <2>2 DEF Level
  <2>. QED BY <2>1, <2>2
<1>. QED BY <1>1, <1>4, <1>5, <1>6 DEF ok

(* The invariant holds at boot: every bucket is full, nothing is used.     *)
LEMMA InitIInv == Init => IInv
<1>. SUFFICES ASSUME Init PROVE IInv
  OBVIOUS
<1>1. TypeOK
  BY HorizonAssumption, NoStateAssumption DEF Init, TypeOK
<1>2. NothingUsedAhead
  BY DEF Init, NothingUsedAhead
<1>3. ASSUME NEW k \in Keys, NEW b \in Buckets, NEW m \in 0 .. now
      PROVE  Level(k, b) = Slack(k, b, m)
  <2>1. m = 0 /\ now = 0 /\ used[k][m] = 0 /\ states[k][b] = NoState
    BY HorizonAssumption DEF Init
  <2>. QED BY <2>1, FullBucket DEF Level, Slack, Refill
<1>4. LevelWithinSlack
  <2>1. ASSUME NEW k \in Keys, NEW b \in Buckets, NEW m \in 0 .. now
        PROVE  Level(k, b) <= Slack(k, b, m)
    BY <1>1, <1>3, LevelRange, FullBucket
  <2>. QED BY <2>1 DEF LevelWithinSlack
<1>5. LevelIsSomeSlack
  <2>1. 0 \in 0 .. now
    BY DEF Init
  <2>. QED BY <1>3, <2>1 DEF LevelIsSomeSlack
<1>. QED BY <1>1, <1>2, <1>4, <1>5 DEF IInv

----------------------------------------------------------------------------
(* An acquire charges the level and every open window alike, or neither.   *)
LEMMA AcquireIInv ==
  ASSUME IInv, NEW k \in Keys, Acquire(k)
  PROVE  IInv'
<1>. DEFINE ok == Admits(states[k], now)
<1>1. TypeOK /\ NothingUsedAhead /\ LevelWithinSlack /\ LevelIsSomeSlack
  BY DEF IInv
<1>2. TypeOK' /\ now' = now
  BY <1>1, AcquireEffect
<1>3. /\ now \in 0 .. Horizon
      /\ \A j \in Keys, m \in 0 .. Horizon : used[j][m] \in Nat
  BY <1>1 DEF TypeOK
<1>4. \A j \in Keys, b \in Buckets :
        Level(j, b)' = Level(j, b) - (IF j = k /\ ok THEN Per[b] ELSE 0)
  BY <1>1, AcquireEffect
<1>5. \A j \in Keys, m \in 0 .. Horizon :
        used'[j][m] = used[j][m] + (IF j = k /\ ok /\ m <= now THEN 1 ELSE 0)
  BY <1>1, AcquireEffect
<1>. HIDE DEF ok
<1>6. NothingUsedAhead'
  <2>1. ASSUME NEW j \in Keys, NEW m \in 0 .. Horizon, m > now
        PROVE  used'[j][m] = 0
    <3>1. used[j][m] = 0
      BY <1>1, <2>1 DEF NothingUsedAhead
    <3>2. used'[j][m] = used[j][m] + 0
      BY <1>3, <1>5, <2>1
    <3>. QED BY <3>1, <3>2
  <2>. QED BY <1>2, <2>1 DEF NothingUsedAhead
<1>7. ASSUME NEW j \in Keys, NEW b \in Buckets, NEW m \in 0 .. now
      PROVE  Level(j, b)' - Level(j, b) = Slack(j, b, m)' - Slack(j, b, m)
  <2>1. m \in 0 .. Horizon /\ m <= now
    BY <1>3, HorizonAssumption
  <2>2. used[j][m] \in Nat /\ Level(j, b) \in Int /\ Per[b] \in Nat /\ Full(b) \in Nat
    BY <1>1, <1>3, <2>1, LevelRange, FullBucket
  <2>3. /\ Slack(j, b, m) = Full(b) + (now - m) - used[j][m] * Per[b]
        /\ Slack(j, b, m)' = Full(b) + (now - m) - used'[j][m] * Per[b]
    BY <1>2 DEF Slack
  <2>4. /\ used[j][m] * Per[b] \in Nat
        /\ (used[j][m] + 1) * Per[b] = used[j][m] * Per[b] + Per[b]
    BY <2>2, OneMore
  <2>5. CASE j = k /\ ok
    <3>1. Level(j, b)' = Level(j, b) - Per[b] /\ used'[j][m] = used[j][m] + 1
      BY <1>4, <1>5, <2>1, <2>5
    <3>. QED BY <1>3, <2>2, <2>3, <2>4, <3>1
  <2>6. CASE ~(j = k /\ ok)
    <3>1. Level(j, b)' = Level(j, b) - 0 /\ used'[j][m] = used[j][m] + 0
      BY <1>4, <1>5, <2>1, <2>6
    <3>2. Level(j, b)' = Level(j, b) /\ used'[j][m] = used[j][m]
      BY <2>2, <3>1
    <3>. QED BY <1>3, <2>2, <2>3, <2>4, <3>2
  <2>. QED BY <2>5, <2>6
<1>8. ASSUME NEW j \in Keys, NEW b \in Buckets, NEW m \in 0 .. now
      PROVE  /\ Level(j, b) \in Int
             /\ Slack(j, b, m) \in Int
             /\ Level(j, b)' \in Int
             /\ Slack(j, b, m)' \in Int
  <2>1. m \in 0 .. Horizon
    BY <1>3, HorizonAssumption
  <2>2. used[j][m] \in Nat /\ used'[j][m] \in Nat
    BY <1>2, <1>3, <2>1 DEF TypeOK
  <2>3. used[j][m] * Per[b] \in Nat /\ used'[j][m] * Per[b] \in Nat
    BY <2>2, OneMore, FullBucket
  <2>4. Level(j, b) \in Int /\ Level(j, b)' \in Int
    <3>1. Level(j, b) \in 0 .. Full(b)
      BY <1>1, LevelRange
    <3>. QED BY <1>4, <3>1, FullBucket
  <2>. QED BY <1>2, <1>3, <2>3, <2>4, FullBucket DEF Slack
<1>9. LevelWithinSlack'
  <2>1. ASSUME NEW j \in Keys, NEW b \in Buckets, NEW m \in 0 .. now
        PROVE  Level(j, b)' <= Slack(j, b, m)'
    <3>1. Level(j, b) <= Slack(j, b, m)
      BY <1>1 DEF LevelWithinSlack
    <3>. QED BY <1>7, <1>8, <3>1
  <2>. QED BY <1>2, <2>1 DEF LevelWithinSlack
<1>10. LevelIsSomeSlack'
  <2>1. ASSUME NEW j \in Keys, NEW b \in Buckets
        PROVE  \E m \in 0 .. now : Level(j, b)' = Slack(j, b, m)'
    <3>1. PICK m \in 0 .. now : Level(j, b) = Slack(j, b, m)
      BY <1>1 DEF LevelIsSomeSlack
    <3>. QED BY <1>7, <1>8, <3>1
  <2>. QED BY <1>2, <2>1 DEF LevelIsSomeSlack
<1>. QED BY <1>2, <1>6, <1>9, <1>10 DEF IInv

(* A tick adds one to every open window's slack, and one to the level      *)
(* unless the bucket is full; then the window that opens now is the        *)
(* tightest.                                                               *)
LEMMA TickIInv == IInv /\ Tick => IInv'
<1>. SUFFICES ASSUME IInv, Tick PROVE IInv'
  OBVIOUS
<1>1. TypeOK /\ NothingUsedAhead /\ LevelWithinSlack /\ LevelIsSomeSlack
  BY DEF IInv
<1>2. /\ now < Horizon /\ now' = now + 1
      /\ states' = states /\ used' = used /\ verdict' = verdict
  BY DEF Tick
<1>3. /\ now \in Nat
      /\ \A j \in Keys, m \in 0 .. Horizon : used[j][m] \in Nat
  BY <1>1, HorizonAssumption DEF TypeOK
<1>4. TypeOK'
  BY <1>1, <1>2, HorizonAssumption DEF TypeOK
<1>5. NothingUsedAhead'
  BY <1>1, <1>2, <1>3, HorizonAssumption DEF NothingUsedAhead
<1>6. ASSUME NEW k \in Keys, NEW b \in Buckets
      PROVE  /\ Level(k, b) \in 0 .. Full(b)
             /\ Level(k, b)' = Lesser(Full(b), Level(k, b) + 1)
  <2>1. states[k][b] \in BucketState \cup {NoState}
    BY <1>1 DEF TypeOK
  <2>2. states[k][b] # NoState => states[k][b].ts \in 0 .. now
    BY <1>1 DEF TypeOK
  <2>3. Refill(states[k][b], b, now + 1) = Lesser(Full(b), Refill(states[k][b], b, now) + 1)
    BY <1>3, <2>1, <2>2, RefillLater
  <2>. QED BY <1>1, <1>2, <2>3, LevelRange DEF Level
<1>7. ASSUME NEW k \in Keys, NEW b \in Buckets, NEW m \in 0 .. now
      PROVE  Slack(k, b, m) \in Int /\ Slack(k, b, m)' = Slack(k, b, m) + 1
  <2>1. m \in 0 .. Horizon
    BY <1>2, <1>3, HorizonAssumption
  <2>2. used[k][m] * Per[b] \in Nat
    BY <1>3, <2>1, OneMore, FullBucket
  <2>. QED BY <1>2, <1>3, <2>2, FullBucket DEF Slack
<1>8. ASSUME NEW k \in Keys, NEW b \in Buckets, NEW m \in Nat, m = now + 1
      PROVE  Slack(k, b, m)' = Full(b)
  <2>1. m \in 0 .. Horizon
    BY <1>2, <1>3, <1>8, HorizonAssumption
  <2>2. used'[k][m] = 0
    BY <1>1, <1>2, <1>3, <1>8, <2>1 DEF NothingUsedAhead
  <2>3. Slack(k, b, m)' = Full(b) + (now' - m) - 0 * Per[b]
    BY <2>2 DEF Slack
  <2>. QED BY <1>2, <1>3, <1>8, <2>3, FullBucket
<1>9. LevelWithinSlack'
  <2>1. ASSUME NEW k \in Keys, NEW b \in Buckets, NEW m \in 0 .. now + 1
        PROVE  Level(k, b)' <= Slack(k, b, m)'
    <3>1. CASE m = now + 1
      BY <1>3, <1>6, <1>8, <3>1, FullBucket DEF Lesser
    <3>2. CASE m # now + 1
      <4>1. m \in 0 .. now
        BY <1>3, <3>2
      <4>2. Level(k, b) <= Slack(k, b, m)
        BY <1>1, <4>1 DEF LevelWithinSlack
      <4>. QED BY <1>6, <1>7, <4>1, <4>2, FullBucket DEF Lesser
    <3>. QED BY <3>1, <3>2
  <2>. QED BY <1>2, <2>1 DEF LevelWithinSlack
<1>10. LevelIsSomeSlack'
  <2>1. ASSUME NEW k \in Keys, NEW b \in Buckets
        PROVE  \E m \in 0 .. now + 1 : Level(k, b)' = Slack(k, b, m)'
    <3>1. PICK m \in 0 .. now : Level(k, b) = Slack(k, b, m)
      BY <1>1 DEF LevelIsSomeSlack
    <3>2. CASE Level(k, b) + 1 <= Full(b)
      <4>1. Level(k, b)' = Slack(k, b, m)'
        BY <1>6, <1>7, <3>1, <3>2, FullBucket DEF Lesser
      <4>2. m \in 0 .. now + 1
        BY <1>3
      <4>. QED BY <4>1, <4>2
    <3>3. CASE Level(k, b) + 1 > Full(b)
      <4>1. PICK n \in 0 .. now + 1 : n = now + 1
        BY <1>3
      <4>2. Level(k, b)' = Slack(k, b, n)'
        BY <1>3, <1>6, <1>8, <3>3, <4>1, FullBucket DEF Lesser
      <4>. QED BY <4>2
    <3>. QED BY <1>6, <3>2, <3>3, FullBucket
  <2>. QED BY <1>2, <2>1 DEF LevelIsSomeSlack
<1>. QED BY <1>4, <1>5, <1>9, <1>10 DEF IInv

LEMMA NextIInv == IInv /\ [Next]_vars => IInv'
<1>. SUFFICES ASSUME IInv, [Next]_vars PROVE IInv'
  OBVIOUS
<1>1. CASE Tick
  BY <1>1, TickIInv
<1>2. ASSUME NEW k \in Keys, Acquire(k) PROVE IInv'
  BY <1>2, AcquireIInv
<1>3. CASE UNCHANGED vars
  BY <1>3 DEF vars, IInv, TypeOK, NothingUsedAhead, LevelWithinSlack,
              LevelIsSomeSlack, Level, Slack
<1>. QED BY <1>1, <1>2, <1>3 DEF Next

THEOREM InductiveInvariant == Spec => []IInv
BY InitIInv, NextIInv, PTL DEF Spec

(* Every variable keeps its type; no bucket ever holds a negative number   *)
(* of tokens, more than its capacity, or a stamp from the future.          *)
THEOREM TypeCorrect == Spec => []TypeOK
<1>1. IInv => TypeOK
  BY DEF IInv
<1>. QED BY <1>1, InductiveInvariant, PTL

(* No window of any user ever exceeds a ceiling.                           *)
LEMMA IInvWindowCeiling == IInv => WindowCeiling
<1>. SUFFICES ASSUME IInv, NEW k \in Keys, NEW b \in Buckets, NEW m \in 0 .. now
              PROVE  Ceiling!WithinCeiling(used[k][m], b, now - m)
  BY DEF WindowCeiling, Ceiling!WindowCeiling
<1>1. TypeOK /\ LevelWithinSlack
  BY DEF IInv
<1>2. 0 <= Level(k, b) /\ Level(k, b) \in Int
  BY <1>1, LevelRange, FullBucket
<1>3. Level(k, b) <= Slack(k, b, m)
  BY <1>1 DEF LevelWithinSlack
<1>4. m \in 0 .. Horizon /\ now \in Nat
  BY <1>1, HorizonAssumption DEF TypeOK
<1>5. used[k][m] * Per[b] \in Nat
  BY <1>1, <1>4, OneMore, FullBucket DEF TypeOK
<1>. QED BY <1>2, <1>3, <1>4, <1>5, FullBucket DEF Slack, Ceiling!WithinCeiling, Ceiling!Full, Full

(* No user is ever over either ceiling, in any window of time.             *)
THEOREM WindowCeilingHolds == Spec => []WindowCeiling
BY InductiveInvariant, IInvWindowCeiling, PTL

----------------------------------------------------------------------------
(* A call d ticks from now fits under the ceilings exactly when by then    *)
(* every bucket holds a token.                                             *)
LEMMA FitsIffAdmits ==
  ASSUME IInv, NEW k \in Keys, NEW d \in Nat
  PROVE  Ceiling!Fits(k, now + d) <=> \A b \in Buckets : Level(k, b) + d >= Per[b]
<1>1. TypeOK /\ LevelWithinSlack /\ LevelIsSomeSlack
  BY DEF IInv
<1>2. now \in Nat
  BY <1>1, HorizonAssumption DEF TypeOK
<1>3. ASSUME NEW b \in Buckets, NEW m \in 0 .. now
      PROVE  /\ Slack(k, b, m) \in Int
             /\ Ceiling!WithinCeiling(used[k][m] + 1, b, (now + d) - m)
                  <=> Slack(k, b, m) + d >= Per[b]
  <2>1. m \in 0 .. Horizon /\ m \in Nat
    BY <1>1, HorizonAssumption DEF TypeOK
  <2>2. used[k][m] \in Nat
    BY <1>1, <2>1 DEF TypeOK
  <2>3. /\ used[k][m] * Per[b] \in Nat
        /\ (used[k][m] + 1) * Per[b] = used[k][m] * Per[b] + Per[b]
    BY <2>2, OneMore, FullBucket
  <2>4. Slack(k, b, m) = Full(b) + (now - m) - used[k][m] * Per[b]
    BY DEF Slack
  <2>5. Ceiling!WithinCeiling(used[k][m] + 1, b, (now + d) - m)
          <=> (used[k][m] + 1) * Per[b] <= Full(b) + ((now + d) - m)
    BY DEF Ceiling!WithinCeiling, Ceiling!Full, Full
  <2>. QED BY <1>2, <2>1, <2>3, <2>4, <2>5, FullBucket
<1>4. ASSUME NEW b \in Buckets
      PROVE  (\A m \in 0 .. now : Slack(k, b, m) + d >= Per[b])
               <=> Level(k, b) + d >= Per[b]
  <2>1. Level(k, b) \in Int /\ Per[b] \in Nat
    BY <1>1, LevelRange, FullBucket
  <2>2. \A m \in 0 .. now : Level(k, b) <= Slack(k, b, m)
    BY <1>1 DEF LevelWithinSlack
  <2>3. PICK m \in 0 .. now : Level(k, b) = Slack(k, b, m)
    BY <1>1 DEF LevelIsSomeSlack
  <2>. QED BY <1>3, <2>1, <2>2, <2>3
<1>. QED BY <1>3, <1>4 DEF Ceiling!Fits

(* The retry hint is the longest shortfall: zero when every bucket admits  *)
(* the call, otherwise some bucket's missing level and no less than any    *)
(* other's.                                                                *)
LEMMA RetryAfterIsLongest ==
  ASSUME NEW st \in [Buckets -> BucketState \cup {NoState}], NEW t \in Nat
  PROVE  /\ Admits(st, t) => RetryAfter(st, t) = 0
         /\ ~Admits(st, t) =>
              /\ \E b \in Buckets : /\ RetryAfter(st, t) = Per[b] - Refill(st[b], b, t)
                                    /\ RetryAfter(st, t) \in 1 .. Per[b]
              /\ \A b \in Buckets : Refill(st[b], b, t) + RetryAfter(st, t) >= Per[b]
<1>. DEFINE short(b) == Shortfall(st, b, t)
            ra == RetryAfter(st, t)
<1>1. ra = Greater(short("minute"), short("hour"))
  BY DEF RetryAfter
<1>2. ASSUME NEW b \in Buckets
      PROVE  /\ short(b) = Greater(0, Per[b] - Refill(st[b], b, t))
             /\ Refill(st[b], b, t) \in Nat
             /\ Per[b] \in Nat
             /\ short(b) \in Nat
             /\ short(b) > 0 <=> Refill(st[b], b, t) < Per[b]
             /\ short(b) > 0 => short(b) = Per[b] - Refill(st[b], b, t)
             /\ Refill(st[b], b, t) + short(b) >= Per[b]
  <2>1. Refill(st[b], b, t) \in Nat
    BY RefillBounds, FullBucket
  <2>2. short(b) = Greater(0, Per[b] - Refill(st[b], b, t))
    BY DEF Shortfall
  <2>. HIDE DEF short
  <2>. QED BY <2>1, <2>2, FullBucket DEF Greater
<1>3. ASSUME NEW b, b \notin Buckets PROVE short(b) = 0
  BY <1>3 DEF Shortfall
<1>4. \A b \in Buckets : b = "minute" \/ b = "hour"
  BY BucketAssumption DEF BucketNames
<1>5. Admits(st, t) <=> \A b \in Buckets : ~(short(b) > 0)
  BY <1>2 DEF Admits
<1>. HIDE DEF short, ra
<1>6. short("minute") \in Nat /\ short("hour") \in Nat
  BY <1>2, <1>3
<1>7. /\ ra \in Nat
      /\ \A b \in Buckets : ra >= short(b)
      /\ ra > 0 => \E b \in Buckets : ra = short(b)
  BY <1>1, <1>3, <1>4, <1>6 DEF Greater
<1>8. ASSUME Admits(st, t) PROVE ra = 0
  BY <1>2, <1>5, <1>7, <1>8
<1>9. ASSUME ~Admits(st, t)
      PROVE  /\ \E b \in Buckets : ra = Per[b] - Refill(st[b], b, t) /\ ra \in 1 .. Per[b]
             /\ \A b \in Buckets : Refill(st[b], b, t) + ra >= Per[b]
  <2>1. ra > 0
    BY <1>2, <1>5, <1>7, <1>9
  <2>2. PICK b \in Buckets : ra = short(b)
    BY <1>7, <2>1
  <2>3. ra = Per[b] - Refill(st[b], b, t) /\ ra \in 1 .. Per[b]
    BY <1>2, <1>7, <2>1, <2>2
  <2>4. \A c \in Buckets : Refill(st[c], c, t) + ra >= Per[c]
    BY <1>2, <1>7
  <2>. QED BY <2>3, <2>4
<1>. QED BY <1>8, <1>9 DEF ra

(* Every acquire is a step of the abstract limiter.                        *)
LEMMA AcquireImplements ==
  ASSUME IInv, NEW k \in Keys, Acquire(k)
  PROVE  Ceiling!Allow(k) \/ Ceiling!Refuse(k)
<1>. DEFINE ok == Admits(states[k], now)
            ra == RetryAfter(states[k], now)
<1>1. TypeOK
  BY DEF IInv
<1>2. states[k] \in [Buckets -> BucketState \cup {NoState}] /\ now \in Nat
  BY <1>1, HorizonAssumption DEF TypeOK
<1>3. /\ used' = IF ok THEN Ceiling!CountCall(k) ELSE used
      /\ verdict' = [verdict EXCEPT ![k] = [allowed |-> ok, retry |-> ra]]
      /\ now' = now
  BY DEF Acquire
<1>4. ASSUME NEW b \in Buckets
      PROVE  Level(k, b) = Refill(states[k][b], b, now) /\ Level(k, b) \in Nat
  <2>1. Level(k, b) \in 0 .. Full(b) /\ Full(b) \in Nat
    BY <1>1, LevelRange, FullBucket
  <2>2. Level(k, b) = Refill(states[k][b], b, now)
    BY DEF Level
  <2>. HIDE DEF Level
  <2>. QED BY <2>1, <2>2
<1>5. \A d \in Nat :
        Ceiling!Fits(k, now + d) <=> \A b \in Buckets : Level(k, b) + d >= Per[b]
  BY FitsIffAdmits
<1>6. Ceiling!Fits(k, now) <=> ok
  <2>1. now + 0 = now /\ 0 \in Nat
    BY <1>2
  <2>2. Ceiling!Fits(k, now) <=> \A b \in Buckets : Level(k, b) + 0 >= Per[b]
    BY <1>5, <2>1
  <2>. QED BY <1>4, <2>2 DEF Admits
<1>7. CASE ok
  <2>1. ra = 0
    BY <1>2, <1>7, RetryAfterIsLongest
  <2>2. verdict' = [verdict EXCEPT ![k] = [allowed |-> TRUE, retry |-> 0]]
    BY <1>3, <1>7, <2>1 DEF Admits
  <2>. QED BY <1>3, <1>6, <1>7, <2>2 DEF Ceiling!Allow
<1>8. CASE ~ok
  <2>1. PICK b \in Buckets : ra = Per[b] - Refill(states[k][b], b, now) /\ ra \in 1 .. Per[b]
    BY <1>2, <1>8, RetryAfterIsLongest
  <2>2. \A c \in Buckets : Refill(states[k][c], c, now) + ra >= Per[c]
    BY <1>2, <1>8, RetryAfterIsLongest
  <2>3. Ceiling!Fits(k, now + ra)
    BY <1>4, <1>5, <2>1, <2>2, FullBucket
  <2>4. ~Ceiling!Fits(k, now + ra - 1)
    <3>1. ra - 1 \in Nat /\ now + (ra - 1) = now + ra - 1
      BY <1>2, <2>1, FullBucket
    <3>2. ~(Level(k, b) + (ra - 1) >= Per[b])
      BY <1>4, <2>1, FullBucket
    <3>. QED BY <1>5, <3>1, <3>2
  <2>5. verdict' = [verdict EXCEPT ![k] = [allowed |-> FALSE, retry |-> ra]]
    BY <1>3, <1>8 DEF Admits
  <2>. QED BY <1>3, <1>6, <1>8, <2>1, <2>3, <2>4, <2>5 DEF Ceiling!Refuse
<1>. QED BY <1>7, <1>8

LEMMA InitImplements == Init => Ceiling!CeilingInit
BY DEF Init, Ceiling!CeilingInit, Ceiling!Times

LEMMA NextImplements ==
  IInv /\ [Next]_vars => [Ceiling!CeilingNext]_(Ceiling!ceilingVars)
<1>. SUFFICES ASSUME IInv, [Next]_vars
              PROVE  [Ceiling!CeilingNext]_(Ceiling!ceilingVars)
  OBVIOUS
<1>1. CASE Tick
  BY <1>1 DEF Tick, Ceiling!PassTime, Ceiling!CeilingNext
<1>2. ASSUME NEW k \in Keys, Acquire(k) PROVE Ceiling!CeilingNext
  BY <1>2, AcquireImplements DEF Ceiling!CeilingNext
<1>3. CASE UNCHANGED vars
  BY <1>3 DEF vars, Ceiling!ceilingVars
<1>. QED BY <1>1, <1>2, <1>3 DEF Next

(* The in-process limiter implements the abstract ceilings: it allows what *)
(* fits, refuses only what does not, and its hint is exact.                *)
THEOREM LimiterImplementsCeiling == Spec => ImplementsCeiling
BY InductiveInvariant, InitImplements, NextImplements, PTL
   DEF Spec, ImplementsCeiling, Ceiling!CeilingSpec

----------------------------------------------------------------------------
(* What a window that opened at m has left at t, were nothing else charged *)
(* (Slack of the in-process limiter, by stamp instead of by clock).        *)
Room(b, m, t) == Full(b) + (t - m) - granted[m] * Per[b]

(* A later window has seen no more charges.                                *)
GrantedFalls == \A m, n \in Stamps : m <= n => granted[n] <= granted[m]

(* A stored level is never below what some window has left: the limiter    *)
(* does not forget tokens, whatever order its scripts run in.              *)
NoTokenLost ==
  \A b \in Buckets : store[b] # NoState =>
    \E m \in 0 .. store[b].ts : Room(b, m, store[b].ts) <= store[b].level

RedisInv == RedisTypeOK /\ GrantedFalls /\ NoTokenLost

(* While scripts have run in order and promptly: nothing is charged ahead  *)
(* of the latest stamp, every hash bears it and expires a full refill and  *)
(* Grace after the script ran, and no bucket holds more than any window    *)
(* has left.                                                               *)
InOrder ==
  /\ \A m \in Stamps : m > latest => granted[m] = 0
  /\ \A b \in Buckets : store[b] # NoState =>
       store[b].ts = latest /\ expires[b] = ranAt + Full(b) + Grace
  /\ \A b \in Buckets : \A m \in 0 .. latest :
       Refill(store[b], b, latest) <= Room(b, m, latest)

OrderInv == RedisInv /\ (~late /\ ~overdue => InOrder)

----------------------------------------------------------------------------
(* The hashes the script finds, and what a bucket holds by its reading.    *)
LEMMA LiveType ==
  ASSUME RedisTypeOK
  PROVE  /\ Live \in [Buckets -> BucketState \cup {NoState}]
         /\ \A b \in Buckets : Live[b] = NoState \/ (Live[b] = store[b] /\ clock < expires[b])
<1>1. /\ store \in [Buckets -> BucketState \cup {NoState}]
      /\ clock \in Nat /\ expires \in [Buckets -> Nat]
  BY RedisAssumption DEF RedisTypeOK
<1>. QED BY <1>1 DEF Live

(* The tokens that a script stamped t charges to each bucket.              *)
Fee(t) == IF Admits(Live, t) THEN 1 ELSE 0

LEMMA FeeTimes ==
  ASSUME NEW t, NEW b \in Buckets
  PROVE  /\ Fee(t) \in {0, 1}
         /\ Fee(t) * Per[b] = IF Admits(Live, t) THEN Per[b] ELSE 0
BY FullBucket DEF Fee

LEMMA StampsAreNat == Stamps \subseteq Nat
BY RedisAssumption DEF Stamps

(* What the script does to the quantities the invariants speak of.         *)
LEMMA ExecuteEffect ==
  ASSUME RedisTypeOK, NEW w \in Workers, Execute(w), NEW t, t = calls[w].stamp
  PROVE  /\ RedisTypeOK'
         /\ t \in Stamps
         /\ \A b \in Buckets :
              /\ store'[b] # NoState
              /\ store'[b].ts = t
              /\ store'[b].level = Refill(Live[b], b, t) - Fee(t) * Per[b]
              /\ Refill(store'[b], b, t) = Refill(Live[b], b, t) - Fee(t) * Per[b]
              /\ expires'[b] = clock + Full(b) + Grace
         /\ \A m \in Stamps :
              granted'[m] = granted[m] + (IF m <= t THEN Fee(t) ELSE 0)
         /\ latest' = Greater(latest, t) /\ late' = (late \/ t < latest) /\ clock' = clock
         /\ ranAt' = clock
         /\ overdue' = (overdue \/ clock - ranAt > (t - latest) + Grace)
         /\ calls'[w].phase = "answered"
         /\ calls'[w].reply.allowed = Admits(Live, t)
         /\ calls'[w].reply.retry = RetryAfter(Live, t)
         /\ \A v \in Workers \ {w} : calls'[v] = calls[v]
<1>. DEFINE ok == Admits(Live, t)
            ra == RetryAfter(Live, t)
            after == Charged(Live, t)
<1>1. /\ calls \in [Workers -> Call] /\ clock \in Nat
      /\ granted \in [Stamps -> Nat] /\ latest \in Stamps /\ late \in BOOLEAN
      /\ clock \in 0 .. ServerHorizon /\ overdue \in BOOLEAN
  BY RedisAssumption DEF RedisTypeOK
<1>2. /\ store' = after
      /\ calls' = [calls EXCEPT ![w].phase = "answered",
                                ![w].reply = [allowed |-> ok, retry |-> ra]]
      /\ granted' = [m \in Stamps |-> granted[m] + (IF ok /\ m <= t THEN 1 ELSE 0)]
      /\ expires' = [b \in Buckets |-> clock + TimeToLive(b)]
      /\ latest' = Greater(latest, t) /\ late' = (late \/ t < latest)
      /\ ranAt' = clock
      /\ overdue' = (overdue \/ clock - ranAt > (t - latest) + Grace)
      /\ clock' = clock /\ results' = results
  BY DEF Execute, RunScript
<1>3. t \in Stamps /\ t \in Nat
  BY <1>1, StampsAreNat DEF Call
<1>4. /\ after \in [Buckets -> BucketState]
      /\ \A b \in Buckets :
           /\ after[b] # NoState
           /\ after[b].level <= Full(b)
           /\ after[b].ts = t
           /\ Refill(after[b], b, t) = Refill(Live[b], b, t) - Fee(t) * Per[b]
  <2>1. Live \in [Buckets -> BucketState \cup {NoState}]
    BY LiveType
  <2>2. ASSUME NEW b \in Buckets
        PROVE  Fee(t) * Per[b] = IF ok THEN Per[b] ELSE 0
    BY FeeTimes
  <2>. HIDE DEF ok
  <2>3. /\ after \in [Buckets -> BucketState]
        /\ \A b \in Buckets :
             /\ after[b] # NoState
             /\ after[b].level <= Full(b)
             /\ after[b].ts = t
             /\ Refill(after[b], b, t) = Refill(Live[b], b, t) - (IF ok THEN Per[b] ELSE 0)
    BY <1>3, <2>1, ChargedStates DEF ok
  <2>. HIDE DEF after
  <2>. QED BY <2>2, <2>3
<1>5. ASSUME NEW b \in Buckets
      PROVE  after[b].level = Refill(Live[b], b, t) - Fee(t) * Per[b]
  <2>1. PICK c : c = after[b]
    OBVIOUS
  <2>2. c = [level |-> Refill(Live[b], b, t) - (IF ok THEN Per[b] ELSE 0), ts |-> t]
    BY <2>1 DEF Charged
  <2>3. c.level = Refill(Live[b], b, t) - (IF ok THEN Per[b] ELSE 0)
    BY <2>2, Zenon
  <2>4. Fee(t) * Per[b] = IF ok THEN Per[b] ELSE 0
    BY FeeTimes
  <2>. QED BY <2>1, <2>3, <2>4, Zenon
<1>6. ok \in BOOLEAN /\ ra \in Nat
  BY <1>3, LiveType, RetryAfterType DEF Admits
<1>. HIDE DEF ok, ra, after
<1>7. /\ calls' \in [Workers -> Call]
      /\ calls'[w].phase = "answered"
      /\ calls'[w].reply.allowed = ok
      /\ calls'[w].reply.retry = ra
      /\ \A v \in Workers \ {w} : calls'[v] = calls[v]
  <2>1. PICK reply : reply = [allowed |-> ok, retry |-> ra]
    OBVIOUS
  <2>2. reply \in Result /\ reply.allowed = ok /\ reply.retry = ra
    BY <1>6, <2>1, Zenon DEF Result
  <2>3. calls' = [calls EXCEPT ![w].phase = "answered", ![w].reply = reply]
    BY <1>2, <2>1, Zenon
  <2>4. calls' \in [Workers -> Call]
    BY <1>1, <2>2, <2>3 DEF Call
  <2>5. calls'[w].phase = "answered" /\ calls'[w].reply = reply
    BY <1>1, <2>3 DEF Call
  <2>. QED BY <1>1, <2>2, <2>3, <2>4, <2>5
<1>8. /\ granted' \in [Stamps -> Nat]
      /\ \A m \in Stamps : granted'[m] = granted[m] + (IF m <= t THEN Fee(t) ELSE 0)
  <2>1. Fee(t) = (IF ok THEN 1 ELSE 0) /\ Fee(t) \in {0, 1}
    BY DEF Fee, ok
  <2>2. ASSUME NEW m \in Stamps
        PROVE  /\ granted[m] + (IF ok /\ m <= t THEN 1 ELSE 0)
                    = granted[m] + (IF m <= t THEN Fee(t) ELSE 0)
               /\ granted[m] + (IF m <= t THEN Fee(t) ELSE 0) \in Nat
    BY <1>1, <2>1
  <2>. QED BY <1>2, <2>2
<1>9. \A b \in Buckets : expires'[b] = clock + Full(b) + Grace /\ expires'[b] \in Nat
  BY <1>1, <1>2, FullBucket, RedisAssumption DEF TimeToLive
<1>10. RedisTypeOK'
  <2>1. latest' \in Stamps
    BY <1>1, <1>2, <1>3 DEF Greater
  <2>2. late' \in BOOLEAN /\ overdue' \in BOOLEAN /\ ranAt' \in 0 .. ServerHorizon
    BY <1>1, <1>2
  <2>3. expires' \in [Buckets -> Nat]
    BY <1>2, <1>9
  <2>4. /\ store' \in [Buckets -> BucketState \cup {NoState}]
        /\ \A b \in Buckets : store'[b] # NoState =>
             store'[b].level <= Full(b) /\ store'[b].ts \in Stamps
    BY <1>2, <1>3, <1>4
  <2>. QED BY <1>2, <1>7, <1>8, <2>1, <2>2, <2>3, <2>4 DEF RedisTypeOK
<1>. QED BY <1>2, <1>3, <1>4, <1>5, <1>7, <1>8, <1>9, <1>10 DEF ok, ra

----------------------------------------------------------------------------
(* What a bucket holds for a script stamped t is what some window that     *)
(* opened by t has left, or more: time refills both alike, up to full,     *)
(* which is what the window that opens at t has left at the most.          *)
LEMMA FoundIsSomeRoom ==
  ASSUME RedisInv, NEW t \in Stamps, NEW b \in Buckets
  PROVE  \E m \in 0 .. t : Room(b, m, t) <= Refill(Live[b], b, t)
<1>1. RedisTypeOK /\ GrantedFalls /\ NoTokenLost
  BY DEF RedisInv
<1>2. /\ granted \in [Stamps -> Nat]
      /\ t \in Nat /\ \A m \in 0 .. t : m \in Stamps
  BY <1>1, RedisAssumption DEF RedisTypeOK, Stamps
<1>3. ASSUME NEW m \in Stamps PROVE granted[m] * Per[b] \in Nat
  BY <1>2, OneMore, FullBucket
<1>4. CASE Refill(Live[b], b, t) = Full(b)
  <2>1. Room(b, t, t) <= Full(b)
    BY <1>2, <1>3, FullBucket DEF Room
  <2>. QED BY <1>2, <1>4, <2>1
<1>5. CASE Refill(Live[b], b, t) # Full(b)
  <2>1. Live[b] # NoState
    BY <1>5 DEF Refill
  <2>2. Live[b] = store[b] /\ store[b] # NoState
    BY <1>1, <2>1, LiveType
  <2>3. PICK s : s = store[b]
    OBVIOUS
  <2>4. s \in BucketState /\ s # NoState /\ s.level \in Nat /\ s.ts \in Stamps
    BY <1>1, <2>2, <2>3, NoStateAssumption DEF RedisTypeOK, BucketState
  <2>5. s.ts \in Nat
    BY <2>4, StampsAreNat
  <2>6. Refill(Live[b], b, t) = s.level + Greater(0, t - s.ts)
    BY <1>2, <1>5, <2>2, <2>3, <2>4, <2>5, FullBucket DEF Refill, Lesser, Greater
  <2>7. PICK m \in 0 .. s.ts : Room(b, m, s.ts) <= s.level
    BY <1>1, <2>2, <2>3 DEF NoTokenLost
  <2>8. m \in Stamps /\ m \in Nat
    BY <2>4, <2>5, <2>7, RedisAssumption DEF Stamps
  <2>9. granted[m] * Per[b] \in Nat /\ granted[t] * Per[b] \in Nat
    BY <1>3, <2>8
  <2>10. Room(b, m, s.ts) = Full(b) + (s.ts - m) - granted[m] * Per[b]
    BY DEF Room
  <2>11. CASE m <= t
    <3>1. Room(b, m, t) = Full(b) + (t - m) - granted[m] * Per[b]
      BY DEF Room
    <3>2. Room(b, m, t) <= Refill(Live[b], b, t)
      BY <1>2, <2>4, <2>5, <2>6, <2>7, <2>8, <2>9, <2>10, <3>1, FullBucket DEF Greater
    <3>. QED BY <1>2, <2>8, <2>11, <3>2
  <2>12. CASE m > t
    <3>1. granted[m] <= granted[t]
      BY <1>1, <1>2, <2>8, <2>12 DEF GrantedFalls
    <3>2. granted[m] * Per[b] <= granted[t] * Per[b]
      <4>1. PICK d \in Nat : granted[t] = granted[m] + d
        <5>1. granted[t] \in Nat /\ granted[m] \in Nat
          BY <1>2, <2>8
        <5>2. granted[t] - granted[m] \in Nat
          BY <3>1, <5>1
        <5>. QED BY <5>1, <5>2
      <4>2. granted[m] \in Nat /\ Per[b] \in Nat
        BY <1>2, <2>8, FullBucket
      <4>3. (granted[m] + d) * Per[b] = granted[m] * Per[b] + d * Per[b] /\ d * Per[b] \in Nat
        BY <4>2
      <4>. QED BY <2>9, <4>1, <4>3
    <3>3. Room(b, t, t) = Full(b) + (t - t) - granted[t] * Per[b]
      BY DEF Room
    <3>4. Room(b, t, t) <= Refill(Live[b], b, t)
      BY <1>2, <2>4, <2>5, <2>6, <2>7, <2>8, <2>9, <2>10, <2>12, <3>2, <3>3, FullBucket DEF Greater
    <3>. QED BY <1>2, <3>4
  <2>. QED BY <1>2, <2>8, <2>11, <2>12
<1>. QED BY <1>4, <1>5

(* A charge costs the bucket and every window it falls in one token.       *)
LEMMA RoomAfter ==
  ASSUME RedisTypeOK, NEW w \in Workers, Execute(w), NEW t, t = calls[w].stamp,
         NEW b \in Buckets, NEW m \in Stamps, NEW n \in Nat
  PROVE  /\ Room(b, m, n) \in Int
         /\ Room(b, m, n)' = Room(b, m, n) - (IF m <= t THEN Fee(t) * Per[b] ELSE 0)
<1>1. granted'[m] = granted[m] + (IF m <= t THEN Fee(t) ELSE 0)
  BY ExecuteEffect
<1>2. granted[m] \in Nat /\ m \in Nat /\ t \in Nat
  <2>1. t \in Stamps
    BY ExecuteEffect
  <2>. QED BY <2>1, StampsAreNat DEF RedisTypeOK
<1>3. /\ granted[m] * Per[b] \in Nat
      /\ (granted[m] + 1) * Per[b] = granted[m] * Per[b] + Per[b]
      /\ Per[b] \in Nat /\ Full(b) \in Nat
  BY <1>2, OneMore, FullBucket
<1>4. /\ Room(b, m, n) = Full(b) + (n - m) - granted[m] * Per[b]
      /\ Room(b, m, n)' = Full(b) + (n - m) - granted'[m] * Per[b]
  BY DEF Room
<1>5. Fee(t) \in {0, 1}
  BY FeeTimes
<1>. HIDE DEF Fee
<1>6. CASE m <= t /\ Fee(t) = 1
  BY <1>1, <1>2, <1>3, <1>4, <1>6
<1>7. CASE m <= t /\ Fee(t) = 0
  BY <1>1, <1>2, <1>3, <1>4, <1>7
<1>8. CASE ~(m <= t)
  BY <1>1, <1>2, <1>3, <1>4, <1>8
<1>. QED BY <1>5, <1>6, <1>7, <1>8

(* The script keeps every window's account, in any order of its stamps.    *)
LEMMA ExecuteRedisInv ==
  ASSUME RedisInv, NEW w \in Workers, Execute(w)
  PROVE  RedisInv'
<1>1. PICK t : t = calls[w].stamp
  OBVIOUS
<1>2. PICK fee : fee = Fee(t)
  OBVIOUS
<1>3. RedisTypeOK /\ GrantedFalls /\ NoTokenLost
  BY DEF RedisInv
<1>4. /\ RedisTypeOK' /\ t \in Stamps /\ t \in Nat
      /\ clock' = clock
      /\ calls'[w].phase = "answered"
      /\ \A v \in Workers \ {w} : calls'[v] = calls[v]
  <2>1. t \in Stamps
    BY <1>1, <1>3, ExecuteEffect
  <2>. QED BY <1>1, <1>3, <2>1, ExecuteEffect, StampsAreNat
<1>5. /\ \A b \in Buckets :
           /\ store'[b] # NoState
           /\ store'[b].ts = t
           /\ store'[b].level = Refill(Live[b], b, t) - fee * Per[b]
      /\ \A m \in Stamps : granted'[m] = granted[m] + (IF m <= t THEN fee ELSE 0)
  BY <1>1, <1>2, <1>3, ExecuteEffect
<1>6. granted \in [Stamps -> Nat]
  BY <1>3 DEF RedisTypeOK
<1>7. GrantedFalls'
  <2>1. ASSUME NEW m \in Stamps, NEW n \in Stamps, m <= n
        PROVE  granted'[n] <= granted'[m]
    <3>1. granted[n] <= granted[m] /\ m \in Nat /\ n \in Nat
      BY <1>3, <2>1, StampsAreNat DEF GrantedFalls
    <3>2. /\ granted'[m] = granted[m] + (IF m <= t THEN fee ELSE 0)
          /\ granted'[n] = granted[n] + (IF n <= t THEN fee ELSE 0)
      BY <1>5
    <3>3. fee \in {0, 1}
      BY <1>2 DEF Fee
    <3>. QED BY <1>4, <1>6, <2>1, <3>1, <3>2, <3>3
  <2>. QED BY <2>1 DEF GrantedFalls
<1>8. NoTokenLost'
  <2>1. ASSUME NEW b \in Buckets
        PROVE  \E m \in 0 .. t : Room(b, m, t)' <= store'[b].level
    <3>1. PICK m \in 0 .. t : Room(b, m, t) <= Refill(Live[b], b, t)
      BY <1>4, FoundIsSomeRoom
    <3>2. m \in Stamps /\ m <= t
      BY <1>4, <3>1, RedisAssumption DEF Stamps
    <3>3. /\ Room(b, m, t) \in Int
          /\ Room(b, m, t)' = Room(b, m, t) - (IF m <= t THEN fee * Per[b] ELSE 0)
      BY <1>1, <1>2, <1>3, <1>4, <3>2, RoomAfter
    <3>4. store'[b].level = Refill(Live[b], b, t) - fee * Per[b]
      BY <1>5
    <3>5. Refill(Live[b], b, t) \in Nat /\ fee * Per[b] \in Nat
      BY <1>2, <1>3, <1>4, LiveType, RefillBounds, FullBucket, FeeTimes
    <3>. QED BY <3>1, <3>2, <3>3, <3>4, <3>5
  <2>2. ASSUME NEW b \in Buckets
        PROVE  \E m \in 0 .. store'[b].ts :
                 Full(b) + (store'[b].ts - m) - granted'[m] * Per[b] <= store'[b].level
    <3>1. store'[b].ts = t
      BY <1>5
    <3>2. PICK m \in 0 .. t : Room(b, m, t)' <= store'[b].level
      BY <2>1
    <3>3. Full(b) + (t - m) - granted'[m] * Per[b] <= store'[b].level
      BY <3>2 DEF Room
    <3>. QED BY <3>1, <3>3
  <2>. QED BY <2>2 DEF NoTokenLost, Room
<1>. QED BY <1>4, <1>7, <1>8 DEF RedisInv

(* The steps that leave the hashes alone.                                  *)
LEMMA OtherRedisInv ==
  ASSUME RedisInv,
         ServerTick \/ \E w \in Workers : Send(w) \/ Deliver(w) \/ RedisFails(w)
  PROVE  /\ RedisInv'
         /\ UNCHANGED <<store, expires, granted, latest, late, ranAt, overdue>>
<1>1. RedisTypeOK /\ GrantedFalls /\ NoTokenLost
  BY DEF RedisInv
<1>2. UNCHANGED <<store, expires, granted, latest, late, ranAt, overdue>>
  BY DEF ServerTick, Send, Deliver, RedisFails
<1>3. GrantedFalls' /\ NoTokenLost'
  BY <1>1, <1>2 DEF GrantedFalls, NoTokenLost, Room
<1>4. clock \in Nat /\ calls \in [Workers -> Call] /\ results \in [Workers -> Result]
  BY <1>1, RedisAssumption DEF RedisTypeOK
<1>5. Idle \in Call /\ FailOpen \in Result
  BY RedisAssumption DEF Idle, Call, Result, FailOpen, Stamps
<1>6. RedisTypeOK'
  <2>1. CASE ServerTick
    <3>1. clock < ServerHorizon /\ clock' = clock + 1 /\ calls' = calls /\ results' = results
      BY <2>1 DEF ServerTick
    <3>. QED BY <1>1, <1>2, <3>1, RedisAssumption DEF RedisTypeOK
  <2>2. ASSUME NEW w \in Workers, Send(w) PROVE RedisTypeOK'
    <3>1. PICK call : call = [Idle EXCEPT !.phase = "sent", !.stamp = clock + Offset[w], !.sent = clock]
      OBVIOUS
    <3>2. calls' = [calls EXCEPT ![w] = call] /\ UNCHANGED <<clock, results>>
      BY <2>2, <3>1 DEF Send
    <3>3. clock \in 0 .. ServerHorizon /\ clock + Offset[w] \in Stamps
      BY <1>1, RedisAssumption DEF RedisTypeOK, Stamps
    <3>4. call \in Call
      BY <1>5, <3>1, <3>3 DEF Call, Idle
    <3>. QED BY <1>1, <1>2, <3>2, <3>4 DEF RedisTypeOK
  <2>3. ASSUME NEW w \in Workers, Deliver(w) \/ RedisFails(w) PROVE RedisTypeOK'
    <3>1. PICK result \in Result :
            results' = [results EXCEPT ![w] = result] /\ calls' = [calls EXCEPT ![w] = Idle] /\ clock' = clock
      <4>1. calls[w].reply \in Result
        BY <1>4 DEF Call
      <4>. QED BY <1>5, <2>3, <4>1 DEF Deliver, RedisFails
    <3>. QED BY <1>1, <1>2, <1>5, <3>1 DEF RedisTypeOK
  <2>. QED BY <2>1, <2>2, <2>3
<1>. QED BY <1>2, <1>3, <1>6 DEF RedisInv

LEMMA InitRedisInv == RedisInit => OrderInv
<1>. SUFFICES ASSUME RedisInit PROVE OrderInv
  OBVIOUS
<1>1. /\ clock = 0 /\ latest = 0 /\ late = FALSE /\ ranAt = 0 /\ overdue = FALSE
      /\ store = [b \in Buckets |-> NoState]
      /\ granted = [m \in Stamps |-> 0]
      /\ calls = [w \in Workers |-> Idle]
      /\ 0 \in Stamps
  BY RedisAssumption DEF RedisInit, Stamps
<1>2. RedisTypeOK
  <2>1. Idle \in Call /\ FailOpen \in Result
    BY RedisAssumption DEF Idle, Call, Result, FailOpen, Stamps
  <2>2. clock \in 0 .. ServerHorizon /\ ranAt \in 0 .. ServerHorizon /\ latest \in Stamps
    BY <1>1, RedisAssumption
  <2>5. late \in BOOLEAN /\ overdue \in BOOLEAN
    BY DEF RedisInit
  <2>3. /\ expires \in [Buckets -> Nat] /\ results \in [Workers -> Result]
        /\ calls \in [Workers -> Call] /\ granted \in [Stamps -> Nat]
        /\ store \in [Buckets -> BucketState \cup {NoState}]
    BY <1>1, <2>1 DEF RedisInit
  <2>4. \A b \in Buckets : store[b] = NoState
    BY <1>1
  <2>. QED BY <2>2, <2>3, <2>4, <2>5 DEF RedisTypeOK
<1>3. GrantedFalls /\ NoTokenLost
  BY <1>1 DEF GrantedFalls, NoTokenLost
<1>4. ASSUME NEW b \in Buckets, NEW m \in 0 .. latest
      PROVE  Refill(store[b], b, latest) <= Room(b, m, latest)
  <2>1. m = 0 /\ granted[m] = 0 /\ store[b] = NoState
    BY <1>1, <1>4
  <2>2. Room(b, m, latest) = Full(b) + (0 - 0) - 0 * Per[b]
    BY <1>1, <2>1 DEF Room
  <2>. QED BY <2>1, <2>2, FullBucket DEF Refill
<1>5. InOrder
  BY <1>1, <1>4 DEF InOrder
<1>. QED BY <1>2, <1>3, <1>5 DEF OrderInv, RedisInv

LEMMA NextRedisInv == RedisInv /\ [RedisNext]_redisVars => RedisInv'
<1>. SUFFICES ASSUME RedisInv, [RedisNext]_redisVars PROVE RedisInv'
  OBVIOUS
<1>1. ASSUME NEW w \in Workers, Execute(w) PROVE RedisInv'
  BY <1>1, ExecuteRedisInv
<1>2. CASE ServerTick \/ \E w \in Workers : Send(w) \/ Deliver(w) \/ RedisFails(w)
  BY <1>2, OtherRedisInv
<1>3. CASE UNCHANGED redisVars
  BY <1>3 DEF redisVars, RedisInv, RedisTypeOK, GrantedFalls, NoTokenLost, Room
<1>. QED BY <1>1, <1>2, <1>3 DEF RedisNext

(* Whatever the order of the scripts, the shared hashes forget no token,   *)
(* and later windows have seen fewer charges: the inductive invariant of   *)
(* the Redis limiter.                                                      *)
THEOREM RedisInvariant == RedisSpec => []RedisInv
<1>1. RedisInit => RedisInv
  BY InitRedisInv DEF OrderInv
<1>. QED BY <1>1, NextRedisInv, PTL DEF RedisSpec

(* Every variable keeps its type; no hash ever holds a negative number of  *)
(* tokens or more than the bucket's capacity.                              *)
THEOREM RedisTypeCorrect == RedisSpec => []RedisTypeOK
<1>1. RedisInv => RedisTypeOK
  BY DEF RedisInv
<1>. QED BY <1>1, RedisInvariant, PTL

----------------------------------------------------------------------------
(* A refused script found some bucket short by the wait it returns, and    *)
(* what it found there is no less than what some window had left.          *)
LEMMA RefusalIsDue ==
  ASSUME RedisInv, NEW w \in Workers, Execute(w), NEW t, t = calls[w].stamp,
         NEW r, r = calls'[w].reply, ~r.allowed
  PROVE  /\ r.retry > 0
         /\ \E b \in Buckets : \E m \in 0 .. t :
              ~WithinCeiling(granted[m] + 1, b, t + r.retry - 1 - m)
<1>1. RedisTypeOK
  BY DEF RedisInv
<1>2. t \in Stamps /\ t \in Nat
  <2>1. t \in Stamps
    BY <1>1, ExecuteEffect
  <2>. QED BY <2>1, StampsAreNat
<1>3. ~Admits(Live, t) /\ r.retry = RetryAfter(Live, t)
  <2>1. calls'[w].reply.allowed = Admits(Live, t) /\ calls'[w].reply.retry = RetryAfter(Live, t)
    BY <1>1, ExecuteEffect
  <2>. QED BY <2>1
<1>4. Live \in [Buckets -> BucketState \cup {NoState}]
  BY <1>1, LiveType
<1>5. PICK b \in Buckets : r.retry = Per[b] - Refill(Live[b], b, t) /\ r.retry \in 1 .. Per[b]
  BY <1>2, <1>3, <1>4, RetryAfterIsLongest
<1>6. PICK m \in 0 .. t : Room(b, m, t) <= Refill(Live[b], b, t)
  BY <1>2, FoundIsSomeRoom
<1>7. m \in Stamps /\ m \in Nat
  BY <1>2, <1>6, RedisAssumption DEF Stamps
<1>8. granted[m] \in Nat
  BY <1>1, <1>7 DEF RedisTypeOK
<1>9. /\ granted[m] * Per[b] \in Nat
      /\ (granted[m] + 1) * Per[b] = granted[m] * Per[b] + Per[b]
      /\ Per[b] \in Nat /\ Full(b) \in Nat
  BY <1>8, OneMore, FullBucket
<1>10. Refill(Live[b], b, t) \in Nat
  BY <1>2, <1>4, RefillBounds, FullBucket
<1>11. PICK d : d = r.retry
  OBVIOUS
<1>12. d = Per[b] - Refill(Live[b], b, t) /\ d \in 1 .. Per[b]
  BY <1>5, <1>11
<1>13. ~((granted[m] + 1) * Per[b] <= Full(b) + (t + d - 1 - m))
  BY <1>2, <1>6, <1>7, <1>9, <1>10, <1>12 DEF Room
<1>14. ~WithinCeiling(granted[m] + 1, b, t + d - 1 - m)
  BY <1>13 DEF WithinCeiling
<1>15. d > 0
  BY <1>9, <1>12
<1>. QED BY <1>6, <1>11, <1>14, <1>15

(* In any order of the scripts, a refusal is due at its stamp and one tick *)
(* before the end of the wait it is given.                                 *)
THEOREM RefusalsAreDue == RedisSpec => RefusedOnlyAtCeiling
<1>. DEFINE Due(w, t, r) ==
              (calls[w].phase = "sent" /\ calls'[w].phase = "answered" /\ ~r.allowed)
                => /\ r.retry > 0
                   /\ \E b \in Buckets : \E m \in 0 .. t :
                        ~WithinCeiling(granted[m] + 1, b, t + r.retry - 1 - m)
<1>1. ASSUME RedisInv, [RedisNext]_redisVars, NEW w \in Workers, NEW t, t = calls[w].stamp,
             NEW r, r = calls'[w].reply,
             calls[w].phase = "sent", calls'[w].phase = "answered", ~r.allowed
      PROVE  /\ r.retry > 0
             /\ \E b \in Buckets : \E m \in 0 .. t :
                  ~WithinCeiling(granted[m] + 1, b, t + r.retry - 1 - m)
  <2>1. /\ calls \in [Workers -> Call]
        /\ Idle.phase = "idle"
    <3>1. calls \in [Workers -> Call]
      BY <1>1 DEF RedisInv, RedisTypeOK
    <3>2. Idle.phase = "idle"
      BY DEF Idle
    <3>. QED BY <3>1, <3>2
  <2>2. Execute(w)
    <3>1. ~(calls'[w] = calls[w])
      BY <1>1
    <3>2. ~(ServerTick \/ UNCHANGED redisVars)
      BY <3>1 DEF ServerTick, redisVars
    <3>3. PICK v \in Workers : Send(v) \/ Execute(v) \/ Deliver(v) \/ RedisFails(v)
      BY <1>1, <3>2 DEF RedisNext
    <3>4. v = w
      BY <2>1, <3>1, <3>3 DEF Send, Execute, RunScript, Deliver, RedisFails
    <3>5. ~Send(w)
      BY <1>1 DEF Send
    <3>6. ~(Deliver(w) \/ RedisFails(w))
      BY <1>1, <2>1 DEF Deliver, RedisFails
    <3>. QED BY <3>3, <3>4, <3>5, <3>6
  <2>. QED BY <1>1, <2>2, RefusalIsDue
<1>2. RedisInv /\ [RedisNext]_redisVars =>
        \A w \in Workers : Due(w, calls[w].stamp, calls'[w].reply)
  BY <1>1
<1>3. RedisInv /\ [RedisNext]_redisVars =>
        [\A w \in Workers :
           LET t == calls[w].stamp
               r == calls'[w].reply
           IN  (calls[w].phase = "sent" /\ calls'[w].phase = "answered" /\ ~r.allowed)
                 => /\ r.retry > 0
                    /\ \E b \in Buckets : \E m \in 0 .. t :
                         ~WithinCeiling(granted[m] + 1, b, t + r.retry - 1 - m)]_redisVars
  BY <1>2
<1>. QED BY <1>3, RedisInvariant, PTL DEF RedisSpec, RefusedOnlyAtCeiling

----------------------------------------------------------------------------
(* A hash that has expired would have refilled by the stamp of any script  *)
(* that runs in order and promptly: the script finds what it would have    *)
(* found had the hash been kept.                                           *)
LEMMA ExpiredIsFull ==
  ASSUME RedisInv, InOrder, NEW t \in Stamps, latest <= t,
         clock - ranAt <= (t - latest) + Grace, NEW b \in Buckets
  PROVE  Refill(Live[b], b, t) = Refill(store[b], b, t)
<1>1. RedisTypeOK
  BY DEF RedisInv
<1>2. /\ store[b] \in BucketState \cup {NoState}
      /\ clock \in Nat /\ ranAt \in Nat /\ expires[b] \in Nat /\ latest \in Nat /\ t \in Nat
  BY <1>1, StampsAreNat, RedisAssumption DEF RedisTypeOK
<1>3. CASE clock < expires[b]
  BY <1>2, <1>3 DEF Live
<1>4. CASE store[b] = NoState
  BY <1>4 DEF Live
<1>5. CASE clock >= expires[b] /\ store[b] # NoState
  <2>1. Live[b] = NoState
    BY <1>5 DEF Live
  <2>2. store[b].ts = latest /\ expires[b] = ranAt + Full(b) + Grace
    BY <1>5 DEF InOrder
  <2>3. t - latest >= Full(b)
    BY <1>2, <1>5, <2>2, FullBucket, RedisAssumption
  <2>4. PICK s : s = store[b]
    OBVIOUS
  <2>5. s # NoState /\ s.level \in Nat /\ s.ts = latest
    BY <1>2, <1>5, <2>2, <2>4 DEF BucketState
  <2>6. Refill(s, b, t) = Full(b)
    BY <1>2, <2>3, <2>5, FullBucket DEF Refill, Lesser, Greater
  <2>. QED BY <2>1, <2>4, <2>6 DEF Refill
<1>. QED BY <1>2, <1>3, <1>4, <1>5

(* In order, what a bucket holds at t is within every window's room.       *)
LEMMA FoundWithinRoom ==
  ASSUME RedisInv, InOrder, NEW t \in Stamps, latest <= t,
         NEW b \in Buckets, NEW m \in 0 .. t
  PROVE  Refill(store[b], b, t) <= Room(b, m, t)
<1>1. RedisTypeOK
  BY DEF RedisInv
<1>2. /\ store[b] \in BucketState \cup {NoState} /\ latest \in Nat /\ t \in Nat
      /\ m \in Stamps /\ m \in Nat /\ granted[m] \in Nat
  <2>1. m \in Stamps
    BY RedisAssumption DEF Stamps
  <2>. QED BY <1>1, <2>1, StampsAreNat DEF RedisTypeOK
<1>3. granted[m] * Per[b] \in Nat /\ Full(b) \in Nat
  BY <1>2, OneMore, FullBucket
<1>4. Room(b, m, t) = Full(b) + (t - m) - granted[m] * Per[b]
  BY DEF Room
<1>5. CASE m > latest
  <2>1. granted[m] = 0
    BY <1>2, <1>5 DEF InOrder
  <2>2. Room(b, m, t) = Full(b) + (t - m) - 0 * Per[b]
    BY <1>4, <2>1
  <2>3. Refill(store[b], b, t) \in 0 .. Full(b)
    BY <1>2, RefillBounds
  <2>. QED BY <1>2, <1>3, <2>2, <2>3, FullBucket
<1>6. CASE m <= latest
  <2>1. Refill(store[b], b, latest) <= Room(b, m, latest)
    BY <1>2, <1>6 DEF InOrder
  <2>2. Room(b, m, latest) = Full(b) + (latest - m) - granted[m] * Per[b]
    BY DEF Room
  <2>3. CASE store[b] = NoState
    BY <1>2, <1>3, <1>4, <2>1, <2>2, <2>3 DEF Refill
  <2>4. CASE store[b] # NoState
    <3>1. PICK s : s = store[b]
      OBVIOUS
    <3>2. s # NoState /\ s.level \in Nat /\ s.ts = latest
      BY <1>2, <2>4, <3>1 DEF BucketState, InOrder
    <3>3. /\ Refill(s, b, latest) = Lesser(Full(b), s.level)
          /\ Refill(s, b, t) = Lesser(Full(b), s.level + (t - latest))
      BY <1>2, <3>2 DEF Refill, Greater
    <3>. QED BY <1>2, <1>3, <1>4, <2>1, <2>2, <3>1, <3>2, <3>3 DEF Lesser
  <2>. QED BY <2>3, <2>4
<1>. QED BY <1>2, <1>5, <1>6

LEMMA ExecuteOrderInv ==
  ASSUME OrderInv, NEW w \in Workers, Execute(w)
  PROVE  OrderInv'
<1>1. PICK t : t = calls[w].stamp
  OBVIOUS
<1>2. PICK fee : fee = Fee(t)
  OBVIOUS
<1>3. RedisInv /\ RedisTypeOK /\ RedisInv'
  BY ExecuteRedisInv DEF OrderInv, RedisInv
<1>. SUFFICES ASSUME ~late', ~overdue' PROVE InOrder'
  BY <1>3 DEF OrderInv
<1>4. /\ latest' = Greater(latest, t) /\ late' = (late \/ t < latest) /\ clock' = clock
      /\ t \in Stamps /\ ranAt' = clock
      /\ overdue' = (overdue \/ clock - ranAt > (t - latest) + Grace)
  BY <1>1, <1>3, ExecuteEffect
<1>5. ~late /\ ~(t < latest) /\ ~overdue /\ ~(clock - ranAt > (t - latest) + Grace)
  BY <1>4
<1>6. latest \in Nat /\ t \in Nat /\ clock \in Nat /\ ranAt \in Nat /\ Grace \in Nat
  BY <1>3, <1>4, StampsAreNat, RedisAssumption DEF RedisTypeOK
<1>7. InOrder /\ latest <= t /\ latest' = t /\ clock - ranAt <= (t - latest) + Grace
  BY <1>4, <1>5, <1>6 DEF OrderInv, Greater
<1>8. /\ \A b \in Buckets :
           /\ store'[b] # NoState /\ store'[b].ts = t
           /\ Refill(store'[b], b, t) = Refill(Live[b], b, t) - fee * Per[b]
           /\ expires'[b] = clock + Full(b) + Grace
      /\ \A m \in Stamps : granted'[m] = granted[m] + (IF m <= t THEN fee ELSE 0)
  BY <1>1, <1>2, <1>3, ExecuteEffect
<1>9. ASSUME NEW m \in Stamps, m > t PROVE granted'[m] = 0
  <2>1. m \in Nat /\ granted[m] \in Nat
    BY <1>3, StampsAreNat DEF RedisTypeOK
  <2>2. granted[m] = 0
    BY <1>6, <1>7, <1>9, <2>1 DEF InOrder
  <2>3. granted'[m] = granted[m] + 0
    BY <1>6, <1>8, <1>9, <2>1
  <2>. QED BY <2>2, <2>3
<1>10. \A b \in Buckets : expires'[b] = ranAt' + Full(b) + Grace
  BY <1>4, <1>8
<1>11. ASSUME NEW b \in Buckets, NEW m \in 0 .. t
       PROVE  Refill(store'[b], b, t) <= Room(b, m, t)'
  <2>1. m \in Stamps /\ m <= t
    BY <1>4, <1>6, RedisAssumption DEF Stamps
  <2>2. /\ Room(b, m, t) \in Int
        /\ Room(b, m, t)' = Room(b, m, t) - (IF m <= t THEN fee * Per[b] ELSE 0)
    BY <1>1, <1>2, <1>3, <1>6, <2>1, RoomAfter
  <2>3. Refill(Live[b], b, t) = Refill(store[b], b, t)
    BY <1>3, <1>4, <1>7, ExpiredIsFull
  <2>4. Refill(store[b], b, t) <= Room(b, m, t)
    BY <1>3, <1>4, <1>7, FoundWithinRoom
  <2>5. fee * Per[b] \in Nat
    BY <1>2, FeeTimes, FullBucket
  <2>6. Refill(store[b], b, t) \in Nat
    BY <1>3, <1>6, RefillBounds, FullBucket DEF RedisTypeOK
  <2>7. Refill(store'[b], b, t) = Refill(Live[b], b, t) - fee * Per[b]
    BY <1>8
  <2>. QED BY <2>1, <2>2, <2>3, <2>4, <2>5, <2>6, <2>7
<1>12. \A b \in Buckets : \A m \in 0 .. t :
         Refill(store'[b], b, t) <= Full(b) + (t - m) - granted'[m] * Per[b]
  BY <1>11 DEF Room
<1>. QED BY <1>7, <1>8, <1>9, <1>10, <1>12 DEF InOrder, Room

LEMMA NextOrderInv == OrderInv /\ [RedisNext]_redisVars => OrderInv'
<1>. SUFFICES ASSUME OrderInv, [RedisNext]_redisVars PROVE OrderInv'
  OBVIOUS
<1>1. ASSUME NEW w \in Workers, Execute(w) PROVE OrderInv'
  BY <1>1, ExecuteOrderInv
<1>2. ASSUME RedisInv', UNCHANGED <<store, expires, granted, latest, late, ranAt, overdue>> PROVE OrderInv'
  BY <1>2 DEF OrderInv, InOrder, Room
<1>3. CASE ServerTick \/ \E w \in Workers : Send(w) \/ Deliver(w) \/ RedisFails(w)
  BY <1>2, <1>3, OtherRedisInv DEF OrderInv
<1>4. CASE UNCHANGED redisVars
  <2>1. RedisInv'
    BY NextRedisInv DEF OrderInv
  <2>. QED BY <1>2, <1>4, <2>1 DEF redisVars
<1>. QED BY <1>1, <1>3, <1>4 DEF RedisNext

(* Whatever the clocks and delays, while scripts run in the order of their *)
(* stamps and none runs more than EXPIRE's extra second behind the one     *)
(* before it, no window of the cluster's calls exceeds a ceiling.          *)
THEOREM PromptCeilingHolds == RedisSpec => []PromptCeiling
<1>1. OrderInv => PromptCeiling
  <2>. SUFFICES ASSUME OrderInv, ~late, ~overdue, NEW b \in Buckets, NEW m \in 0 .. latest
                PROVE  WithinCeiling(granted[m], b, latest - m)
    BY DEF PromptCeiling, ClusterCeiling
  <2>1. RedisInv /\ InOrder /\ RedisTypeOK
    BY DEF OrderInv, RedisInv
  <2>2. /\ latest \in Stamps /\ latest \in Nat /\ m \in Stamps /\ m \in Nat
        /\ granted[m] \in Nat /\ store[b] \in BucketState \cup {NoState}
    <3>1. latest \in Stamps /\ latest \in Nat
      BY <2>1, StampsAreNat DEF RedisTypeOK
    <3>2. m \in Stamps
      BY <3>1, RedisAssumption DEF Stamps
    <3>. QED BY <2>1, <3>1, <3>2 DEF RedisTypeOK
  <2>3. Refill(store[b], b, latest) <= Room(b, m, latest)
    BY <2>1 DEF InOrder
  <2>4. Refill(store[b], b, latest) \in Nat
    BY <2>2, RefillBounds, FullBucket
  <2>5. granted[m] * Per[b] \in Nat /\ Full(b) \in Nat
    BY <2>2, OneMore, FullBucket
  <2>6. Room(b, m, latest) = Full(b) + (latest - m) - granted[m] * Per[b]
    BY DEF Room
  <2>. QED BY <2>2, <2>3, <2>4, <2>5, <2>6 DEF WithinCeiling
<1>2. OrderInv /\ [RedisNext]_redisVars => OrderInv'
  BY NextOrderInv
<1>. QED BY <1>1, <1>2, InitRedisInv, PTL DEF RedisSpec

=============================================================================
