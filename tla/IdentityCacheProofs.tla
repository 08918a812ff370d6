------------------------ MODULE IdentityCacheProofs ------------------------
(***************************************************************************)
(* For any workers, requests and subs, any TTLs and any cap: the two       *)
(* identity caches keep their types and never serve an identity that is    *)
(* older than two TTLs and a delay.                                        *)
(***************************************************************************)
EXTENDS IdentityCache, TLAPS, SequenceTheorems

(* An L1 entry was put during the life of an L2 key, or earlier; a key     *)
(* was set within the delay of its lookup.                                 *)
EntryFresh(e) == e.expires <= e.identity.seen + MaxDelay + 2 * TTLOf(e.identity) - 1

KeyFresh(key) == key.expires <= key.identity.seen + MaxDelay + TTLOf(key.identity)

(* A dictionary of entries in some order, and one that is not over its cap.*)
Dictionary(entries) ==
  /\ entries \in Seq(L1Entry)
  /\ \A m, n \in 1 .. Len(entries) : entries[m].sub = entries[n].sub => m = n
  /\ \A n \in 1 .. Len(entries) : EntryFresh(entries[n])

Capped(entries) == Dictionary(entries) /\ Len(entries) <= MaxL1

(* A resolution is not suspended for longer than MaxDelay, and what it     *)
(* looked up it looked up since it began.                                  *)
CallTimed(call) ==
  /\ call # Idle => call.since <= now /\ now - call.since <= MaxDelay
  /\ call.pc = "set" => call.since <= call.identity.seen /\ call.identity.seen <= now

AgeInv ==
  /\ now \in 0 .. Horizon
  /\ l1 \in [Workers -> Seq(L1Entry)] /\ \A w \in Workers : Capped(l1[w])
  /\ l2 \in [Subs -> L2Entry] /\ \A s \in Subs : KeyFresh(l2[s])
  /\ calls \in [Requests -> {Idle} \cup Asking \cup Storing]
  /\ \A r \in Requests : CallTimed(calls[r])

----------------------------------------------------------------------------
(* The dictionary operations keep a dictionary.                            *)
LEMMA RemoveAtProperties ==
  ASSUME NEW S, NEW s \in Seq(S), NEW i \in 1 .. Len(s)
  PROVE  /\ RemoveAt(s, i) \in Seq(S)
         /\ Len(RemoveAt(s, i)) = Len(s) - 1
         /\ \A n \in 1 .. Len(s) - 1 :
              RemoveAt(s, i)[n] = IF n < i THEN s[n] ELSE s[n + 1]
<1> DEFINE front == SubSeq(s, 1, i - 1)
           back  == SubSeq(s, i + 1, Len(s))
<1>1. /\ front \in Seq(S) /\ Len(front) = i - 1
      /\ \A n \in 1 .. i - 1 : front[n] = s[n]
  <2>1. \A n \in 1 .. i - 1 : s[n] \in S
    BY ElementOfSeq, LenProperties
  <2> QED BY <2>1, SubSeqProperties, LenProperties
<1>2. /\ back \in Seq(S) /\ Len(back) = Len(s) - i
      /\ \A n \in 1 .. Len(s) - i : back[n] = s[i + n]
  <2>1. \A n \in i + 1 .. Len(s) : s[n] \in S
    BY ElementOfSeq, LenProperties
  <2>2. Len(s) \in Nat
    BY LenProperties
  <2>3. /\ back \in Seq(S)
        /\ Len(back) = IF i + 1 <= Len(s) THEN Len(s) - (i + 1) + 1 ELSE 0
        /\ \A n \in 1 .. Len(s) - (i + 1) + 1 : back[n] = s[i + 1 + n - 1]
    BY <2>1, <2>2, SubSeqProperties
  <2> HIDE DEF back
  <2>4. Len(back) = Len(s) - i
    BY <2>2, <2>3
  <2>5. ASSUME NEW n \in 1 .. Len(s) - i
        PROVE  back[n] = s[i + n]
    <3>1. n \in 1 .. Len(s) - (i + 1) + 1 /\ i + 1 + n - 1 = i + n
      BY <2>2
    <3> QED BY <2>3, <3>1
  <2> QED BY <2>3, <2>4, <2>5
<1>3. RemoveAt(s, i) = front \o back
  BY DEF RemoveAt
<1> HIDE DEF front, back
<1>4. /\ front \o back \in Seq(S)
      /\ Len(front \o back) = Len(front) + Len(back)
      /\ \A n \in 1 .. Len(front) + Len(back) :
           (front \o back)[n] = IF n <= Len(front) THEN front[n] ELSE back[n - Len(front)]
  BY <1>1, <1>2, ConcatProperties
<1>5. ASSUME NEW n \in 1 .. Len(s) - 1
      PROVE  RemoveAt(s, i)[n] = IF n < i THEN s[n] ELSE s[n + 1]
  <2>1. Len(s) \in Nat
    BY LenProperties
  <2>2. CASE n < i
    BY <1>1, <1>2, <1>3, <1>4, <2>1, <2>2
  <2>3. CASE ~(n < i)
    <3>1. n - (i - 1) \in 1 .. Len(s) - i /\ i + (n - (i - 1)) = n + 1
      BY <2>1, <2>3
    <3>2. RemoveAt(s, i)[n] = back[n - (i - 1)]
      BY <1>1, <1>2, <1>3, <1>4, <2>1, <2>3
    <3> QED BY <1>2, <2>3, <3>1, <3>2
  <2> QED BY <2>2, <2>3
<1> QED BY <1>1, <1>2, <1>3, <1>4, <1>5, LenProperties

LEMMA WithoutDictionary ==
  ASSUME NEW entries, Dictionary(entries), NEW sub
  PROVE  /\ Dictionary(Without(entries, sub))
         /\ Len(Without(entries, sub)) <= Len(entries)
         /\ Places(entries, sub) # {} => Len(Without(entries, sub)) <= Len(entries) - 1
         /\ \A n \in 1 .. Len(Without(entries, sub)) : Without(entries, sub)[n].sub # sub
<1>0. /\ entries \in Seq(L1Entry) /\ Len(entries) \in Nat
      /\ DOMAIN entries = 1 .. Len(entries)
  BY LenProperties DEF Dictionary
<1>1. CASE Places(entries, sub) = {}
  BY <1>0, <1>1 DEF Without, Places
<1>2. CASE Places(entries, sub) # {}
  <2> DEFINE i == CHOOSE n \in Places(entries, sub) : TRUE
  <2>1. i \in Places(entries, sub) /\ Without(entries, sub) = RemoveAt(entries, i)
    BY <1>2 DEF Without
  <2>2. i \in 1 .. Len(entries) /\ entries[i].sub = sub
    BY <1>0, <2>1 DEF Places
  <2> HIDE DEF i
  <2> DEFINE rest == RemoveAt(entries, i)
  <2>3. /\ rest \in Seq(L1Entry) /\ Len(rest) = Len(entries) - 1
        /\ \A n \in 1 .. Len(entries) - 1 :
             rest[n] = IF n < i THEN entries[n] ELSE entries[n + 1]
    BY <1>0, <2>2, RemoveAtProperties
  <2> HIDE DEF rest
  <2>4. \A n \in 1 .. Len(rest) :
          \E m \in 1 .. Len(entries) : m # i /\ rest[n] = entries[m]
                                       /\ m = IF n < i THEN n ELSE n + 1
    BY <1>0, <2>2, <2>3
  <2>5. \A m, n \in 1 .. Len(rest) : rest[m].sub = rest[n].sub => m = n
    BY <1>0, <2>2, <2>3, <2>4 DEF Dictionary
  <2>6. \A n \in 1 .. Len(rest) : EntryFresh(rest[n]) /\ rest[n].sub # sub
    BY <2>2, <2>4 DEF Dictionary
  <2>7. Without(entries, sub) = rest
    BY <2>1 DEF rest
  <2> QED BY <1>0, <2>3, <2>5, <2>6, <2>7 DEF Dictionary
<1> QED BY <1>1, <1>2

LEMMA AppendDictionary ==
  ASSUME NEW entries, Dictionary(entries), NEW e \in L1Entry, EntryFresh(e),
         \A n \in 1 .. Len(entries) : entries[n].sub # e.sub
  PROVE  Dictionary(Append(entries, e)) /\ Len(Append(entries, e)) = Len(entries) + 1
<1> DEFINE longer == Append(entries, e)
<1>1. entries \in Seq(L1Entry) /\ Len(entries) \in Nat
  BY LenProperties DEF Dictionary
<1>2. /\ longer \in Seq(L1Entry) /\ Len(longer) = Len(entries) + 1
      /\ \A n \in 1 .. Len(entries) : longer[n] = entries[n]
      /\ longer[Len(entries) + 1] = e
  BY <1>1, AppendProperties
<1> HIDE DEF longer
<1>3. \A n \in 1 .. Len(longer) : n \in 1 .. Len(entries) \/ n = Len(entries) + 1
  BY <1>1, <1>2
<1>4. \A n \in 1 .. Len(longer) : EntryFresh(longer[n])
  BY <1>2, <1>3 DEF Dictionary
<1>5. \A m, n \in 1 .. Len(longer) : longer[m].sub = longer[n].sub => m = n
  BY <1>2, <1>3 DEF Dictionary
<1>6. Dictionary(longer)
  BY <1>2, <1>4, <1>5 DEF Dictionary
<1> QED BY <1>2, <1>6 DEF longer

LEMMA TailDictionary ==
  ASSUME NEW entries, Dictionary(entries), Len(entries) > 0
  PROVE  Dictionary(Tail(entries)) /\ Len(Tail(entries)) = Len(entries) - 1
<1> DEFINE shorter == Tail(entries)
<1>1. /\ entries \in Seq(L1Entry) /\ Len(entries) \in Nat /\ entries # <<>>
  BY LenProperties, EmptySeq DEF Dictionary
<1>2. /\ shorter \in Seq(L1Entry) /\ Len(shorter) = Len(entries) - 1
      /\ \A n \in 1 .. Len(shorter) : shorter[n] = entries[n + 1]
  BY <1>1, HeadTailProperties
<1> HIDE DEF shorter
<1>3. \A n \in 1 .. Len(shorter) : n + 1 \in 1 .. Len(entries)
  BY <1>1, <1>2
<1>4. \A n \in 1 .. Len(shorter) : EntryFresh(shorter[n])
  BY <1>2, <1>3 DEF Dictionary
<1>5. \A m, n \in 1 .. Len(shorter) : shorter[m].sub = shorter[n].sub => m = n
  BY <1>2, <1>3 DEF Dictionary
<1>6. Dictionary(shorter)
  BY <1>2, <1>4, <1>5 DEF Dictionary
<1> QED BY <1>2, <1>6 DEF shorter

(* An identity whose new entry is fresh is put, and the cap holds again.   *)
LEMMA PutCapped ==
  ASSUME NEW entries, Capped(entries), NEW sub \in Subs, NEW identity \in Identity,
         now \in 0 .. Horizon,
         now + TTLOf(identity) <= identity.seen + MaxDelay + 2 * TTLOf(identity) - 1
  PROVE  Capped(Put(entries, sub, identity))
<1> USE IdentityAssumption
<1> DEFINE new  == [sub |-> sub, identity |-> identity, expires |-> now + TTLOf(identity)]
           rest == Without(entries, sub)
           full == Append(rest, new)
<1>1. new \in L1Entry /\ new.sub = sub /\ EntryFresh(new)
  BY DEF L1Entry, Expiry, LongestTTL, TTLOf, Identity, EntryFresh
<1>2. Dictionary(rest) /\ Len(rest) <= Len(entries) /\ \A n \in 1 .. Len(rest) : rest[n].sub # sub
  BY WithoutDictionary DEF Capped
<1>3. full = PutWithoutEviction(entries, sub, identity)
  BY DEF PutWithoutEviction
<1> HIDE DEF new, rest
<1>4. Dictionary(full) /\ Len(full) = Len(rest) + 1
  BY <1>1, <1>2, AppendDictionary
<1>5. Len(entries) \in Nat /\ Len(rest) \in Nat /\ Len(entries) <= MaxL1
  BY <1>2, LenProperties DEF Capped, Dictionary
<1> HIDE DEF full
<1>6. CASE Len(full) > MaxL1
  <2>1. Dictionary(Tail(full)) /\ Len(Tail(full)) = Len(full) - 1
    BY <1>4, <1>5, TailDictionary
  <2> QED BY <1>2, <1>3, <1>4, <1>5, <1>6, <2>1 DEF Put, Capped
<1>7. CASE ~(Len(full) > MaxL1)
  BY <1>3, <1>4, <1>5, <1>7 DEF Put, Capped
<1> QED BY <1>6, <1>7

----------------------------------------------------------------------------
LEMMA AgeInvInit == Init => AgeInv
<1> SUFFICES ASSUME Init PROVE AgeInv
  OBVIOUS
<1> USE IdentityAssumption
<1>1. Capped(<<>>)
  BY EmptySeq DEF Capped, Dictionary
<1>2. NoKey \in L2Entry /\ KeyFresh(NoKey)
  BY DEF NoKey, NoIdentity, L2Entry, Identity, Expiry, LongestTTL, KeyFresh, TTLOf
<1>3. CallTimed(Idle)
  BY DEF CallTimed, Idle
<1>4. \A w \in Workers : l1[w] = <<>>
  BY DEF Init
<1>5. l1 \in [Workers -> Seq(L1Entry)]
  BY EmptySeq DEF Init
<1>6. \A w \in Workers : Capped(l1[w])
  BY <1>1, <1>4
<1> QED BY <1>2, <1>3, <1>5, <1>6 DEF Init, AgeInv

(* One worker's dictionary changes, for one that fits.                     *)
LEMMA L1Effect ==
  ASSUME AgeInv, NEW w \in Workers, NEW entries, Capped(entries),
         l1' = [l1 EXCEPT ![w] = entries]
  PROVE  l1' \in [Workers -> Seq(L1Entry)] /\ \A v \in Workers : Capped(l1[v])'
<1>1. entries \in Seq(L1Entry)
  BY DEF Capped, Dictionary
<1>2. \A v \in Workers : l1'[v] = IF v = w THEN entries ELSE l1[v]
  BY DEF AgeInv
<1>3. \A v \in Workers : Capped(l1'[v])
  BY <1>2 DEF AgeInv
<1> QED BY <1>1, <1>3 DEF AgeInv, Capped, Dictionary, EntryFresh, TTLOf

LEMMA L1HitStep ==
  ASSUME AgeInv, NEW w \in Workers, NEW sub \in Subs, L1Hit(w, sub)
  PROVE  AgeInv'
<1> DEFINE rest == Without(l1[w], sub)
<1>1. PICK e \in EntriesOf(w, sub) : l1' = [l1 EXCEPT ![w] = Append(rest, e)]
  BY DEF L1Hit, Touch
<1>2. Capped(l1[w]) /\ l1[w] \in Seq(L1Entry) /\ Len(l1[w]) \in Nat /\ DOMAIN l1[w] = 1 .. Len(l1[w])
  BY LenProperties DEF AgeInv
<1>3. PICK n \in 1 .. Len(l1[w]) : e = l1[w][n] /\ e.sub = sub
  BY <1>2 DEF EntriesOf, ToSet
<1>4. e \in L1Entry /\ EntryFresh(e) /\ Places(l1[w], sub) # {}
  BY <1>2, <1>3, ElementOfSeq DEF Capped, Dictionary, Places
<1>5. /\ Dictionary(rest) /\ Len(rest) <= Len(l1[w]) - 1
      /\ \A m \in 1 .. Len(rest) : rest[m].sub # sub
  BY <1>2, <1>4, WithoutDictionary DEF Capped
<1> HIDE DEF rest
<1>6. Dictionary(Append(rest, e)) /\ Len(Append(rest, e)) = Len(rest) + 1
  BY <1>3, <1>4, <1>5, AppendDictionary
<1>7. Len(rest) \in Nat
  BY <1>5, LenProperties DEF Dictionary
<1>8. Capped(Append(rest, e))
  <2> DEFINE longer == Append(rest, e)
  <2>1. Dictionary(longer) /\ Len(longer) = Len(rest) + 1
    BY <1>6
  <2> HIDE DEF longer
  <2>2. Len(longer) <= MaxL1
    BY <1>2, <1>5, <1>7, <2>1, IdentityAssumption DEF Capped
  <2>3. Capped(longer)
    BY <2>1, <2>2 DEF Capped
  <2> QED BY <2>3 DEF longer
<1>9. l1' \in [Workers -> Seq(L1Entry)] /\ \A v \in Workers : Capped(l1[v])'
  BY <1>1, <1>8, L1Effect
<1> QED BY <1>9 DEF AgeInv, L1Hit, CallTimed, KeyFresh, TTLOf

(* A request goes on, or is done.                                          *)
LEMMA CallEffect ==
  ASSUME AgeInv, NEW r \in Requests, NEW call \in {Idle} \cup Asking \cup Storing,
         CallTimed(call), calls' = [calls EXCEPT ![r] = call], now' = now
  PROVE  /\ calls' \in [Requests -> {Idle} \cup Asking \cup Storing]
         /\ \A q \in Requests : CallTimed(calls[q])'
<1>1. \A q \in Requests : calls'[q] = IF q = r THEN call ELSE calls[q]
  BY DEF AgeInv
<1>2. \A q \in Requests : CallTimed(calls'[q])
  BY <1>1 DEF AgeInv
<1>3. calls' \in [Requests -> {Idle} \cup Asking \cup Storing]
  BY DEF AgeInv
<1> QED BY <1>2, <1>3 DEF CallTimed

LEMMA IdleTimed == CallTimed(Idle) /\ Idle \in {Idle} \cup Asking \cup Storing
BY DEF CallTimed, Idle

LEMMA L1MissStep ==
  ASSUME AgeInv, NEW r \in Requests, NEW w \in Workers, NEW sub \in Subs, L1Miss(r, w, sub)
  PROVE  AgeInv'
<1> USE IdentityAssumption
<1> DEFINE call == [worker |-> w, sub |-> sub, since |-> now, pc |-> "get"]
<1>1. Capped(Without(l1[w], sub))
  <2>1. Capped(l1[w])
    BY DEF AgeInv
  <2>2. Dictionary(Without(l1[w], sub)) /\ Len(Without(l1[w], sub)) <= Len(l1[w])
    BY <2>1, WithoutDictionary DEF Capped
  <2> DEFINE rest == Without(l1[w], sub)
  <2>3. Len(l1[w]) \in Nat /\ Len(rest) \in Nat
    BY <2>1, <2>2, LenProperties DEF Capped, Dictionary
  <2> QED BY <2>1, <2>2, <2>3 DEF Capped
<1>2. l1' \in [Workers -> Seq(L1Entry)] /\ \A v \in Workers : Capped(l1[v])'
  BY <1>1, L1Effect DEF L1Miss
<1>3. call \in Asking /\ CallTimed(call)
  BY DEF AgeInv, Asking, CallTimed, Idle
<1>4. calls' = [calls EXCEPT ![r] = call] /\ now' = now /\ l2' = l2
  BY DEF L1Miss
<1> HIDE DEF call
<1>5. /\ calls' \in [Requests -> {Idle} \cup Asking \cup Storing]
      /\ \A q \in Requests : CallTimed(calls[q])'
  BY <1>3, <1>4, CallEffect
<1> QED BY <1>2, <1>4, <1>5 DEF AgeInv, KeyFresh, TTLOf

LEMMA L2HitStep ==
  ASSUME AgeInv, NEW r \in Requests, L2Hit(r)
  PROVE  AgeInv'
<1> USE IdentityAssumption
<1> DEFINE call == calls[r]
           key  == l2[call.sub]
<1>1. call \in Asking
  <2>1. call \in {Idle} \cup Asking \cup Storing /\ call.pc = "get"
    BY DEF AgeInv, L2Hit
  <2> QED BY <2>1 DEF Idle, Storing
<1>2. call.worker \in Workers /\ call.sub \in Subs
  BY <1>1 DEF Asking
<1>3. /\ key \in L2Entry /\ KeyFresh(key) /\ now < key.expires
      /\ l1' = [l1 EXCEPT ![call.worker] = Put(l1[call.worker], call.sub, key.identity)]
  BY <1>2 DEF AgeInv, L2Hit, Live
<1>4. calls' = [calls EXCEPT ![r] = Idle] /\ now' = now /\ l2' = l2 /\ now \in 0 .. Horizon
  BY DEF L2Hit, AgeInv
<1> HIDE DEF call, key
<1>5. /\ key.identity \in Identity
      /\ now + TTLOf(key.identity) <= key.identity.seen + MaxDelay + 2 * TTLOf(key.identity) - 1
  BY <1>3, <1>4 DEF L2Entry, Identity, Expiry, LongestTTL, KeyFresh, TTLOf
<1>6. Capped(l1[call.worker])
  BY <1>2 DEF AgeInv
<1>7. Capped(Put(l1[call.worker], call.sub, key.identity))
  BY <1>2, <1>4, <1>5, <1>6, PutCapped
<1>8. l1' \in [Workers -> Seq(L1Entry)] /\ \A v \in Workers : Capped(l1[v])'
  BY <1>2, <1>3, <1>7, L1Effect
<1>9. /\ calls' \in [Requests -> {Idle} \cup Asking \cup Storing]
      /\ \A q \in Requests : CallTimed(calls[q])'
  BY <1>4, IdleTimed, CallEffect
<1> QED BY <1>4, <1>8, <1>9 DEF AgeInv, KeyFresh, TTLOf

LEMMA L2MissStep ==
  ASSUME AgeInv, NEW r \in Requests, L2Miss(r)
  PROVE  AgeInv'
<1> DEFINE call == [calls[r] EXCEPT !.pc = "lookup"]
<1>1. calls[r] \in Asking /\ CallTimed(calls[r])
  <2>1. calls[r] \in {Idle} \cup Asking \cup Storing /\ calls[r].pc = "get" /\ CallTimed(calls[r])
    BY DEF AgeInv, L2Miss
  <2> QED BY <2>1 DEF Idle, Storing
<1>2. call \in Asking /\ CallTimed(call)
  BY <1>1 DEF Asking, CallTimed, Idle
<1>3. calls' = [calls EXCEPT ![r] = call] /\ now' = now /\ l1' = l1 /\ l2' = l2
  BY DEF L2Miss
<1> HIDE DEF call
<1>4. /\ calls' \in [Requests -> {Idle} \cup Asking \cup Storing]
      /\ \A q \in Requests : CallTimed(calls[q])'
  BY <1>2, <1>3, CallEffect
<1> QED BY <1>3, <1>4 DEF AgeInv, Capped, Dictionary, EntryFresh, KeyFresh, TTLOf

LEMMA LookupStep ==
  ASSUME AgeInv, NEW r \in Requests, Lookup(r)
  PROVE  AgeInv'
<1> PICK known \in BOOLEAN :
       calls' = [calls EXCEPT ![r] =
         [worker |-> calls[r].worker, sub |-> calls[r].sub, since |-> calls[r].since,
          pc |-> "set", identity |-> [known |-> known, seen |-> now]]]
  BY DEF Lookup
<1> DEFINE identity == [known |-> known, seen |-> now]
           call == [worker |-> calls[r].worker, sub |-> calls[r].sub, since |-> calls[r].since,
                    pc |-> "set", identity |-> identity]
<1>1. calls[r] \in Asking /\ CallTimed(calls[r])
  <2>1. calls[r] \in {Idle} \cup Asking \cup Storing /\ calls[r].pc = "lookup" /\ CallTimed(calls[r])
    BY DEF AgeInv, Lookup
  <2> QED BY <2>1 DEF Idle, Storing
<1>2. calls[r].since <= now /\ now - calls[r].since <= MaxDelay /\ now \in 0 .. Horizon
  BY <1>1 DEF CallTimed, Asking, Idle, AgeInv
<1>3. identity \in Identity /\ identity.seen = now
  BY <1>2 DEF Identity
<1>4. calls' = [calls EXCEPT ![r] = call] /\ now' = now /\ l1' = l1 /\ l2' = l2
  BY DEF Lookup
<1> HIDE DEF identity
<1>5. call \in Storing /\ CallTimed(call)
  BY <1>1, <1>2, <1>3 DEF Asking, Storing, CallTimed
<1> HIDE DEF call
<1>6. /\ calls' \in [Requests -> {Idle} \cup Asking \cup Storing]
      /\ \A q \in Requests : CallTimed(calls[q])'
  BY <1>4, <1>5, CallEffect
<1> QED BY <1>4, <1>6 DEF AgeInv, Capped, Dictionary, EntryFresh, KeyFresh, TTLOf

LEMMA StoreStep ==
  ASSUME AgeInv, NEW r \in Requests, Store(r)
  PROVE  AgeInv'
<1> USE IdentityAssumption
<1> DEFINE call == calls[r]
           key  == [identity |-> call.identity, expires |-> now + TTLOf(call.identity)]
<1>1. call \in Storing /\ CallTimed(call)
  <2>1. call \in {Idle} \cup Asking \cup Storing /\ call.pc = "set" /\ CallTimed(call)
    BY DEF AgeInv, Store
  <2> QED BY <2>1 DEF Idle, Asking
<1>2. call.worker \in Workers /\ call.sub \in Subs /\ call.identity \in Identity
  BY <1>1 DEF Storing
<1>3. now <= call.identity.seen + MaxDelay /\ now \in 0 .. Horizon
  <2>1. now - call.since <= MaxDelay /\ call.since <= call.identity.seen
    BY <1>1 DEF CallTimed, Storing, Idle
  <2>2. call.since \in Int /\ call.identity.seen \in Int
    BY <1>1, <1>2 DEF Storing, Identity
  <2> QED BY <2>1, <2>2 DEF AgeInv
<1>4. key \in L2Entry /\ KeyFresh(key)
  BY <1>2, <1>3 DEF L2Entry, Identity, Expiry, LongestTTL, KeyFresh, TTLOf
<1>5. /\ calls' = [calls EXCEPT ![r] = Idle] /\ now' = now
      /\ l2' = l2 \/ l2' = [l2 EXCEPT ![call.sub] = key]
      /\ l1' = [l1 EXCEPT ![call.worker] = Put(l1[call.worker], call.sub, call.identity)]
  BY <1>2 DEF Store, AgeInv
<1> HIDE DEF call, key
<1>6. l2' \in [Subs -> L2Entry] /\ \A s \in Subs : KeyFresh(l2'[s])
  BY <1>2, <1>4, <1>5 DEF AgeInv
<1>7. now + TTLOf(call.identity) <= call.identity.seen + MaxDelay + 2 * TTLOf(call.identity) - 1
  BY <1>2, <1>3 DEF Identity, TTLOf
<1>8. Capped(l1[call.worker])
  BY <1>2 DEF AgeInv
<1>9. Capped(Put(l1[call.worker], call.sub, call.identity))
  BY <1>2, <1>3, <1>7, <1>8, PutCapped
<1>10. l1' \in [Workers -> Seq(L1Entry)] /\ \A v \in Workers : Capped(l1[v])'
  BY <1>2, <1>5, <1>9, L1Effect
<1>11. /\ calls' \in [Requests -> {Idle} \cup Asking \cup Storing]
       /\ \A q \in Requests : CallTimed(calls[q])'
  BY <1>5, IdleTimed, CallEffect
<1>12. now' \in 0 .. Horizon
  BY <1>3, <1>5
<1> QED BY <1>6, <1>10, <1>11, <1>12 DEF AgeInv, KeyFresh, TTLOf

LEMMA RestartStep ==
  ASSUME AgeInv, NEW w \in Workers, Restart(w)
  PROVE  AgeInv'
<1> USE IdentityAssumption
<1>1. Capped(<<>>)
  BY EmptySeq DEF Capped, Dictionary
<1>2. l1' \in [Workers -> Seq(L1Entry)] /\ \A v \in Workers : Capped(l1[v])'
  BY <1>1, L1Effect DEF Restart
<1>3. \A r \in Requests : calls'[r] = Idle \/ calls'[r] = calls[r]
  BY DEF Restart
<1>4. calls' \in [Requests -> {Idle} \cup Asking \cup Storing]
  BY DEF Restart, AgeInv
<1>5. \A r \in Requests : CallTimed(calls'[r])
  BY <1>3, IdleTimed DEF AgeInv
<1>6. now' = now /\ l2' = l2
  BY DEF Restart
<1> QED BY <1>2, <1>4, <1>5, <1>6 DEF AgeInv, KeyFresh, TTLOf, CallTimed

(* An expired entry keeps its place; nothing else happens to a dictionary. *)
LEMMA TickCapped ==
  ASSUME Tick, AgeInv, NEW w \in Workers
  PROVE  l1'[w] \in Seq(L1Entry) /\ Capped(l1'[w])
<1> USE IdentityAssumption
<1> DEFINE before == l1[w]
           after  == l1'[w]
<1>1. /\ before \in Seq(L1Entry) /\ Capped(before) /\ Len(before) \in Nat
      /\ DOMAIN before = 1 .. Len(before)
  BY LenProperties DEF AgeInv
<1>2. after = [n \in 1 .. Len(before) |->
                IF before[n].expires <= now' THEN Stale(before[n]) ELSE before[n]]
  BY <1>1 DEF Tick
<1> HIDE DEF before, after
<1>3. \A e \in L1Entry : Stale(e) \in L1Entry /\ Stale(e).sub = e.sub /\ EntryFresh(Stale(e))
  <2> SUFFICES ASSUME NEW e \in L1Entry
               PROVE  Stale(e) \in L1Entry /\ Stale(e).sub = e.sub /\ EntryFresh(Stale(e))
    OBVIOUS
  <2>1. PICK x : x = Stale(e)
    OBVIOUS
  <2>2. NoIdentity \in Identity /\ NoIdentity.seen = 0 /\ TTLOf(NoIdentity) = NegativeTTL
    BY DEF NoIdentity, Identity, TTLOf
  <2>3. x = [sub |-> e.sub, identity |-> NoIdentity, expires |-> 0]
    BY <2>1 DEF Stale, L1Entry
  <2>4. e.sub \in Subs /\ 0 \in Expiry
    BY DEF L1Entry, Expiry, LongestTTL
  <2>5. x \in L1Entry /\ x.sub = e.sub /\ x.identity = NoIdentity /\ x.expires = 0
    BY <2>2, <2>3, <2>4 DEF L1Entry
  <2>6. EntryFresh(x)
    BY <2>2, <2>5 DEF EntryFresh
  <2> QED BY <2>1, <2>5, <2>6
<1>4. \A n \in 1 .. Len(before) : before[n] \in L1Entry /\ EntryFresh(before[n])
  BY <1>1, ElementOfSeq DEF Capped, Dictionary
<1>5. \A n \in 1 .. Len(before) : /\ after[n] \in L1Entry /\ EntryFresh(after[n])
                                   /\ after[n].sub = before[n].sub
  BY <1>2, <1>3, <1>4
<1>6. after \in [1 .. Len(before) -> L1Entry]
  BY <1>2, <1>5
<1>7. after \in Seq(L1Entry) /\ Len(after) = Len(before)
  BY <1>1, <1>6, SeqDef, LenProperties
<1>8. Dictionary(after)
  BY <1>1, <1>5, <1>7 DEF Capped, Dictionary
<1>9. Capped(after)
  BY <1>1, <1>7, <1>8 DEF Capped
<1> QED BY <1>7, <1>9 DEF after

LEMMA TickStep ==
  ASSUME AgeInv, Tick
  PROVE  AgeInv'
<1> USE IdentityAssumption
<1>1. now \in 0 .. Horizon /\ now' \in 0 .. Horizon /\ now' = now + 1
  BY DEF AgeInv, Tick
<1>2. \A w \in Workers : Capped(l1'[w])
  BY TickCapped
<1>3. l1' \in [Workers -> Seq(L1Entry)]
  BY TickCapped DEF Tick
<1>4. NoKey \in L2Entry /\ KeyFresh(NoKey)
  BY DEF NoKey, NoIdentity, L2Entry, Identity, Expiry, LongestTTL, KeyFresh, TTLOf
<1>5. l2' \in [Subs -> L2Entry] /\ \A s \in Subs : KeyFresh(l2'[s])
  BY <1>4 DEF AgeInv, Tick
<1>6. calls' = calls
  BY DEF Tick
<1>7. ASSUME NEW r \in Requests
      PROVE  CallTimed(calls[r])'
  <2> DEFINE call == calls[r]
  <2>1. call \in {Idle} \cup Asking \cup Storing /\ CallTimed(call)
    BY DEF AgeInv
  <2>2. call # Idle => call.since \in 0 .. Horizon /\ now - call.since < MaxDelay
    BY <2>1 DEF Asking, Storing, Tick
  <2>3. call # Idle => call.since <= now' /\ now' - call.since <= MaxDelay
    BY <1>1, <2>1, <2>2 DEF CallTimed
  <2>4. call.pc = "set" => call.since <= call.identity.seen /\ call.identity.seen <= now'
    <3>1. call.pc = "set" => call \in Storing
      BY <2>1 DEF Idle, Asking
    <3>2. call.pc = "set" => call.identity.seen \in Int
      BY <3>1 DEF Storing, Identity
    <3> QED BY <1>1, <2>1, <3>2 DEF CallTimed
  <2> HIDE DEF call
  <2>5. calls'[r] = call
    BY <1>6 DEF call
  <2> QED BY <2>3, <2>4, <2>5 DEF CallTimed
<1>8. calls' \in [Requests -> {Idle} \cup Asking \cup Storing]
  BY <1>6 DEF AgeInv
<1> QED BY <1>1, <1>2, <1>3, <1>5, <1>7, <1>8 DEF AgeInv, KeyFresh, TTLOf, Capped, Dictionary, EntryFresh

LEMMA AgeInvStutter == AgeInv /\ UNCHANGED vars => AgeInv'
BY DEF AgeInv, vars, Capped, Dictionary, EntryFresh, KeyFresh, CallTimed, TTLOf

(* Whatever races, restarts and evicts, an L1 entry has a fresh put behind *)
(* it and an L2 key a fresh lookup.                                        *)
THEOREM AgeInvariant == Spec => []AgeInv
<1>1. Init => AgeInv
  BY AgeInvInit
<1>2. AgeInv /\ [Next]_vars => AgeInv'
  <2> SUFFICES ASSUME AgeInv, [Next]_vars PROVE AgeInv'
    OBVIOUS
  <2>1. ASSUME NEW w \in Workers, NEW sub \in Subs, L1Hit(w, sub) PROVE AgeInv'
    BY <2>1, L1HitStep
  <2>2. ASSUME NEW w \in Workers, NEW sub \in Subs, NEW r \in Requests, L1Miss(r, w, sub)
        PROVE  AgeInv'
    BY <2>2, L1MissStep
  <2>3. ASSUME NEW r \in Requests, L2Hit(r) PROVE AgeInv'
    BY <2>3, L2HitStep
  <2>4. ASSUME NEW r \in Requests, L2Miss(r) PROVE AgeInv'
    BY <2>4, L2MissStep
  <2>5. ASSUME NEW r \in Requests, Lookup(r) PROVE AgeInv'
    BY <2>5, LookupStep
  <2>6. ASSUME NEW r \in Requests, Store(r) PROVE AgeInv'
    BY <2>6, StoreStep
  <2>7. ASSUME NEW w \in Workers, Restart(w) PROVE AgeInv'
    BY <2>7, RestartStep
  <2>8. ASSUME Tick PROVE AgeInv'
    BY <2>8, TickStep
  <2>9. ASSUME UNCHANGED vars PROVE AgeInv'
    BY <2>9, AgeInvStutter
  <2> QED BY <2>1, <2>2, <2>3, <2>4, <2>5, <2>6, <2>7, <2>8, <2>9 DEF Next
<1> QED BY <1>1, <1>2, PTL DEF Spec

(* Every cache and every suspended resolution keeps its type: an L1        *)
(* dictionary holds a sub once and never outgrows its cap.                 *)
THEOREM IdentityTypeCorrect == Spec => []TypeOK
<1>1. AgeInv => TypeOK
  <2> SUFFICES ASSUME AgeInv PROVE TypeOK
    OBVIOUS
  <2>1. ASSUME NEW w \in Workers
        PROVE  l1[w] \in Seq(L1Entry) /\ Len(l1[w]) <= MaxL1 /\ IsInjective(SubsOf(l1[w]))
    <3>1. /\ l1[w] \in Seq(L1Entry) /\ Capped(l1[w])
          /\ DOMAIN l1[w] = 1 .. Len(l1[w])
      BY LenProperties DEF AgeInv
    <3> QED BY <3>1 DEF Capped, Dictionary, IsInjective, SubsOf
  <2> QED BY <2>1 DEF AgeInv, TypeOK
<1> QED BY <1>1, AgeInvariant, PTL

(* What is served from memory or from Redis was looked up at most twice    *)
(* the life of its entries and a delay ago.                                *)
LEMMA ServedAge ==
  ASSUME AgeInv, NEW i \in Served
  PROVE  Age(i) <= 2 * LastTick(TTLOf(i)) + MaxDelay
<1> USE IdentityAssumption
<1>1. CASE \E w \in Workers : \E e \in ToSet(l1[w]) : Live(e) /\ i = e.identity
  <2> PICK w \in Workers : \E e \in ToSet(l1[w]) : Live(e) /\ i = e.identity
    BY <1>1
  <2>1. l1[w] \in Seq(L1Entry) /\ Capped(l1[w]) /\ DOMAIN l1[w] = 1 .. Len(l1[w])
    BY LenProperties DEF AgeInv
  <2>2. PICK n \in 1 .. Len(l1[w]) : Live(l1[w][n]) /\ i = l1[w][n].identity
    BY <2>1 DEF ToSet
  <2>3. PICK e \in L1Entry : Live(e) /\ i = e.identity /\ EntryFresh(e)
    BY <2>1, <2>2, ElementOfSeq DEF Capped, Dictionary
  <2>4. /\ e.expires \in Int /\ i.seen \in Int /\ TTLOf(i) \in Int
        /\ now \in Int /\ now < e.expires
    BY <2>3 DEF AgeInv, L1Entry, Identity, Expiry, LongestTTL, Live, TTLOf
  <2>5. e.expires <= i.seen + MaxDelay + 2 * TTLOf(i) - 1
    BY <2>3 DEF EntryFresh
  <2>6. PICK ttl \in Int : ttl = TTLOf(i)
    BY <2>4
  <2>7. e.expires <= i.seen + MaxDelay + 2 * ttl - 1
    BY <2>5, <2>6
  <2>8. now - i.seen <= 2 * (ttl - 1) + MaxDelay
    BY <2>4, <2>7
  <2> QED BY <2>6, <2>8 DEF Age, LastTick
<1>2. CASE \E s \in Subs : Live(l2[s]) /\ i = l2[s].identity
  <2>1. PICK key \in L2Entry : Live(key) /\ i = key.identity /\ KeyFresh(key)
    BY <1>2 DEF AgeInv
  <2>2. /\ key.expires \in Int /\ i.seen \in Int /\ TTLOf(i) \in Nat \ {0}
        /\ now \in Int /\ now < key.expires
    BY <2>1 DEF AgeInv, L2Entry, Identity, Expiry, LongestTTL, Live, TTLOf
  <2>3. key.expires <= i.seen + MaxDelay + TTLOf(i)
    BY <2>1 DEF KeyFresh
  <2> QED BY <2>2, <2>3 DEF Age, LastTick
<1> QED BY <1>1, <1>2 DEF Served

(* A known identity is never served older than two positive TTLs and a     *)
(* delay, whatever the schedule.                                           *)
THEOREM IdentityAgeHolds == Spec => []IdentityAgeBounded
<1>1. AgeInv => IdentityAgeBounded
  BY ServedAge DEF IdentityAgeBounded, ServedWithin, TTLOf
<1> QED BY <1>1, AgeInvariant, PTL

(* A failure is never served for longer than two negative TTLs and a delay.*)
THEOREM FailureRetriedHolds == Spec => []FailureRetried
<1>1. AgeInv => FailureRetried
  BY ServedAge DEF FailureRetried, ServedWithin, TTLOf
<1> QED BY <1>1, AgeInvariant, PTL

=============================================================================
