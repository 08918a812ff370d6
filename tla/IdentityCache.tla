--------------------------- MODULE IdentityCache ---------------------------
(***************************************************************************)
(* CachedIdentityResolver of identity.py: the AutoDS identity of a Cognito *)
(* sub, looked up upstream with the caller's token and cached twice, in    *)
(* each worker's memory (L1, least-recently-used out first) and in the     *)
(* Redis all workers share (L2).  Nothing is locked: two cold requests may *)
(* both look the sub up, and finish in either order.                       *)
(*                                                                         *)
(* An identity is abstracted to whether the user was resolved and to the   *)
(* moment AutoDSApi was read, so that its age can be measured.  A request  *)
(* is suspended at the Redis GET, at the lookup and at the Redis SET; what *)
(* it does between two of them is one action.                              *)
(***************************************************************************)
EXTENDS Integers, Sequences, SequencesExt

CONSTANTS Workers,     \* processes
          Requests,    \* requests being authenticated
          Subs,        \* Cognito subs
          PositiveTTL, \* positive_ttl_seconds
          NegativeTTL, \* negative_ttl_seconds
          MaxL1,       \* max_l1_entries
          MaxDelay,    \* a resolution is not suspended for longer
          Horizon      \* the clock stops here

ASSUME IdentityAssumption ==
  /\ PositiveTTL \in Nat \ {0} /\ NegativeTTL \in Nat \ {0}
  /\ NegativeTTL <= PositiveTTL
  /\ MaxL1 \in Nat \ {0}
  /\ MaxDelay \in Nat /\ Horizon \in Nat

VARIABLES now,    \* every clock: they advance at one rate
          l1,     \* per worker, its entries, least recently used first
          l2,     \* per sub, its Redis key
          calls   \* per request, where its resolution is

vars == <<now, l1, l2, calls>>

Identity == [known : BOOLEAN, seen : 0 .. Horizon]

LongestTTL == PositiveTTL

Expiry == 0 .. Horizon + LongestTTL

L1Entry == [sub : Subs, identity : Identity, expires : Expiry]

(* A key past its expiry does not exist: Redis forgets what it held.  An   *)
(* L1 entry past its expiry is never read again, but it keeps its place    *)
(* until its sub is asked for or it is evicted.                            *)
L2Entry == [identity : Identity, expires : Expiry]

NoIdentity == [known |-> FALSE, seen |-> 0]

NoKey == [identity |-> NoIdentity, expires |-> 0]

Stale(entry) == [entry EXCEPT !.identity = NoIdentity, !.expires = 0]

Idle == [pc |-> "idle"]

Asking == [worker : Workers, sub : Subs, since : 0 .. Horizon,
           pc : {"get", "lookup"}]

Storing == [worker : Workers, sub : Subs, since : 0 .. Horizon,
            pc : {"set"}, identity : Identity]

SubsOf(entries) == [n \in DOMAIN entries |-> entries[n].sub]

(* L1 is an ordered dictionary, one entry per sub, that never outgrows its *)
(* cap, whatever order the racing resolutions write it in.                 *)
TypeOK ==
  /\ now \in 0 .. Horizon
  /\ \A w \in Workers :
       /\ l1[w] \in Seq(L1Entry)
       /\ Len(l1[w]) <= MaxL1
       /\ IsInjective(SubsOf(l1[w]))
  /\ l2 \in [Subs -> L2Entry]
  /\ calls \in [Requests -> {Idle} \cup Asking \cup Storing]

Init ==
  /\ now = 0
  /\ l1 = [w \in Workers |-> <<>>]
  /\ l2 = [s \in Subs |-> NoKey]
  /\ calls = [r \in Requests |-> Idle]

----------------------------------------------------------------------------
OneTTL(identity) == PositiveTTL

TTLOf(identity) == IF identity.known THEN PositiveTTL ELSE NegativeTTL

(* A dictionary has one entry for a sub at most.                           *)
Places(entries, sub) == {n \in DOMAIN entries : entries[n].sub = sub}

Without(entries, sub) ==
  IF Places(entries, sub) = {} THEN entries
  ELSE RemoveAt(entries, CHOOSE n \in Places(entries, sub) : TRUE)

EntriesOf(w, sub) == {e \in ToSet(l1[w]) : e.sub = sub}

Live(entry) == now < entry.expires

(* The put moves the sub to the recent end; past the cap the other end     *)
(* goes.                                                                   *)
PutWithoutEviction(entries, sub, identity) ==
  Append(Without(entries, sub),
         [sub |-> sub, identity |-> identity, expires |-> now + TTLOf(identity)])

Put(entries, sub, identity) ==
  LET full == PutWithoutEviction(entries, sub, identity)
  IN  IF Len(full) > MaxL1 THEN Tail(full) ELSE full

(* _l1_get finds a live entry and makes it the most recent: the answer.    *)
TouchExtends(e) == [e EXCEPT !.expires = now + TTLOf(e.identity)]

Touch(e) == e

L1Hit(w, sub) ==
  /\ \E e \in EntriesOf(w, sub) :
       /\ Live(e)
       /\ l1' = [l1 EXCEPT ![w] = Append(Without(@, sub), Touch(e))]
  /\ UNCHANGED <<now, l2, calls>>

(* It finds none, or one that has expired and is deleted.                  *)
L1Miss(r, w, sub) ==
  /\ calls[r] = Idle
  /\ \A e \in EntriesOf(w, sub) : ~Live(e)
  /\ l1' = [l1 EXCEPT ![w] = Without(@, sub)]
  /\ calls' = [calls EXCEPT ![r] = [worker |-> w, sub |-> sub, since |-> now,
                                    pc |-> "get"]]
  /\ UNCHANGED <<now, l2>>

(* The Redis GET: a hit is copied to L1 with a full TTL of its own.        *)
L2Hit(r) ==
  /\ calls[r].pc = "get"
  /\ LET call == calls[r]
         key  == l2[call.sub]
     IN  /\ Live(key)
         /\ l1' = [l1 EXCEPT ![call.worker] = Put(@, call.sub, key.identity)]
  /\ calls' = [calls EXCEPT ![r] = Idle]
  /\ UNCHANGED <<now, l2>>

(* A miss; a GET that fails and a value that does not parse are misses     *)
(* too, so a live key does not rule it out.                                *)
L2Miss(r) ==
  /\ calls[r].pc = "get"
  /\ calls' = [calls EXCEPT ![r].pc = "lookup"]
  /\ UNCHANGED <<now, l1, l2>>

(* SelfIdentityResolver.resolve: AutoDSApi is read now.  A dispatch error, *)
(* a non-2xx answer and a payload without an id all come to None.          *)
Lookup(r) ==
  /\ calls[r].pc = "lookup"
  /\ \E known \in BOOLEAN :
       calls' = [calls EXCEPT ![r] =
         [worker |-> calls[r].worker, sub |-> calls[r].sub, since |-> calls[r].since,
          pc |-> "set", identity |-> [known |-> known, seen |-> now]]]
  /\ UNCHANGED <<now, l1, l2>>

(* The Redis SET, which may fail before or after it took effect; then L1   *)
(* is written and the identity returned.                                   *)
Store(r) ==
  /\ calls[r].pc = "set"
  /\ LET call == calls[r]
         key  == [identity |-> call.identity, expires |-> now + TTLOf(call.identity)]
     IN  /\ l2' \in {l2, [l2 EXCEPT ![call.sub] = key]}
         /\ l1' = [l1 EXCEPT ![call.worker] = Put(@, call.sub, call.identity)]
  /\ calls' = [calls EXCEPT ![r] = Idle]
  /\ UNCHANGED now

(* A worker is killed and started again: L1 and its requests are gone.     *)
Restart(w) ==
  /\ l1' = [l1 EXCEPT ![w] = <<>>]
  /\ calls' = [r \in Requests |-> IF calls[r] # Idle /\ calls[r].worker = w THEN Idle ELSE calls[r]]
  /\ UNCHANGED <<now, l2>>

Tick ==
  /\ now < Horizon
  /\ \A r \in Requests : calls[r] # Idle => now - calls[r].since < MaxDelay
  /\ now' = now + 1
  /\ l2' = [s \in Subs |-> IF l2[s].expires <= now' THEN NoKey ELSE l2[s]]
  /\ l1' = [w \in Workers |-> [n \in DOMAIN l1[w] |->
              IF l1[w][n].expires <= now' THEN Stale(l1[w][n]) ELSE l1[w][n]]]
  /\ UNCHANGED calls

Next ==
  \/ \E w \in Workers, sub \in Subs :
       L1Hit(w, sub) \/ \E r \in Requests : L1Miss(r, w, sub)
  \/ \E r \in Requests : L2Hit(r) \/ L2Miss(r) \/ Lookup(r) \/ Store(r)
  \/ \E w \in Workers : Restart(w)
  \/ Tick

Spec == Init /\ [][Next]_vars

----------------------------------------------------------------------------
(* An entry put with a TTL is last served this many ticks later.           *)
LastTick(ttl) == ttl - 1

Age(identity) == now - identity.seen

(* What a request would be answered with from memory or from Redis.  The   *)
(* third source, a lookup, is at most MaxDelay old when it answers.        *)
Served ==
  {e.identity : e \in {f \in UNION {ToSet(l1[w]) : w \in Workers} : Live(f)}}
    \cup {l2[s].identity : s \in {t \in Subs : Live(l2[t])}}

ServedWithin(identities, ttls) ==
  \A i \in identities : Age(i) <= ttls + MaxDelay

(* An identity that is logged was read from AutoDSApi at most two positive *)
(* TTLs and a delay ago: L2 may hand it over at the end of its life, and   *)
(* L1 starts that life again; no race, restart or eviction adds a third.   *)
IdentityAgeBounded ==
  ServedWithin({i \in Served : i.known}, 2 * LastTick(PositiveTTL))

(* A failed lookup keeps a user unresolved for at most two negative TTLs   *)
(* and a delay: then somebody looks the user up again.                     *)
FailureRetried ==
  ServedWithin({i \in Served : ~i.known}, 2 * LastTick(NegativeTTL))
=============================================================================
