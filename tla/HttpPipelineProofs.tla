------------------------- MODULE HttpPipelineProofs -------------------------
(***************************************************************************)
(* For any requests, key ids, TTL, interval, fetch timeout and horizon:    *)
(* the types, the outage and access line invariants and the three timing   *)
(* properties of the JWKS client and of the pipeline around it.            *)
(***************************************************************************)
EXTENDS HttpPipeline, TLAPS, SequenceTheorems

(* Whoever holds the lock is fetching, has stamped its attempt and is not  *)
(* overdue; nobody else is fetching; whoever is in the queue waits, and is *)
(* in it once.                                                             *)
LockInv ==
  /\ lock # NoOne =>
       calls[lock].pc = "fetching" /\ lastAttempt # Never /\ now - lastAttempt <= FetchTimeout
  /\ \A r \in Requests : calls[r].pc = "fetching" => lock = r
  /\ \A i \in 1 .. Len(waiters) : calls[waiters[i]].pc = "waiting"
  /\ \A i, j \in 1 .. Len(waiters) : waiters[i] = waiters[j] => i = j

(* Where a document differs from what Cognito publishes, Cognito changed   *)
(* its mind at t or later: the document was true at some moment from t on. *)
TrueSince(document, t) ==
  \A k \in CognitoKids : (k \in document) # (k \in published) => since[k] >= t

(* The document on the wire was true during this attempt, the cache no     *)
(* longer than a fetch before it arrived; and when the latest refresh to   *)
(* end has succeeded, the cache is what the latest attempt brought.        *)
DocumentInv ==
  /\ fetchedAt <= now /\ lastAttempt <= now
  /\ wire # {} => lock # NoOne
  /\ \A document \in wire : TrueSince(document, lastAttempt)
  /\ fetchedAt # Never => TrueSince(cache, fetchedAt - FetchTimeout)
  /\ lock = NoOne /\ ~failed /\ fetchedAt # Never =>
       lastAttempt <= fetchedAt /\ TrueSince(cache, lastAttempt)

ClientInv == TypeOK /\ LockInv /\ DocumentInv

(* Where a request may be, given its call and when Cognito was last seen:  *)
(* it waits at get_key while its call does, is past it with a key or an    *)
(* answer, and its line is the access log's for a user it has proved to be.*)
PlaceOK(place, call, fetched) ==
  /\ place \in Progress
  /\ place.at = "auth" <=> call.pc \in {"waiting", "fetching"}
  /\ place.at = "idle" => call.pc = "idle"
  /\ place.at \in {"identity", "mcp"} => call.pc = "done" /\ call.answer = "key"
  /\ place.at = "mcp" => place.user # "nobody"
  /\ place.at = "answered" =>
       /\ call.pc \in {"idle", "done"}
       /\ place.flawless /\ place.status = 401 => fetched # Never
       /\ \E user \in Users :
            /\ place.line = AccessLine(place.route, place.status, user)
            /\ user # "nobody" => place.flawless /\ call.pc = "done" /\ call.answer = "key"
            /\ place.route = "mcp" /\ place.status = 200 => user # "nobody"

HttpInv ==
  /\ ClientInv
  /\ http \in [Requests -> Progress]
  /\ \A r \in Requests : PlaceOK(http[r], calls[r], fetchedAt)

----------------------------------------------------------------------------
LEMMA InitClientInv == Init => ClientInv
<1>. SUFFICES ASSUME Init PROVE ClientInv
  OBVIOUS
<1>1. TypeOK
  <2>1. calls \in [Requests -> Call]
    BY DEF Init, Call
  <2>2. waiters \in Seq(Requests) /\ 0 \in 0 .. Horizon
    BY JwksAssumption, EmptySeq DEF Init
  <2>3. since \in [CognitoKids -> 0 .. Horizon]
    BY <2>2 DEF Init
  <2>. QED
    BY <2>1, <2>2, <2>3 DEF Init, TypeOK
<1>2. LockInv
  BY EmptySeq DEF Init, LockInv, Idle
<1>3. DocumentInv
  BY DEF Init, DocumentInv, Never
<1>. QED
  BY <1>1, <1>2, <1>3 DEF ClientInv

(* A step gives one request a new place and leaves the others theirs.      *)
LEMMA Placed ==
  ASSUME calls \in [Requests -> Call], NEW r \in Requests, NEW c \in Call,
         calls' = [calls EXCEPT ![r] = c]
  PROVE  /\ calls' \in [Requests -> Call]
         /\ calls'[r] = c
         /\ \A q \in Requests : q # r => calls'[q] = calls[q]
OBVIOUS

(* The places the actions give.                                            *)
LEMMA Places ==
  ASSUME NEW k \in Kids
  PROVE  /\ Idle \in Call
         /\ \A pc \in {"waiting", "fetching"} : [pc |-> pc, kid |-> k] \in Call
         /\ \A a \in Answers : [pc |-> "done", kid |-> k, answer |-> a] \in Call
BY DEF Call

(* A call that has begun names a kid.                                      *)
LEMMA HasKid ==
  ASSUME NEW c \in Call, c.pc # "idle"
  PROVE  c.kid \in Kids
BY DEF Call, Idle

(* The three ways through the lock's body.                                 *)
LEMMA InLockEffect ==
  ASSUME TypeOK, lock = NoOne, NEW r \in Requests, NEW k \in Kids, InLock(r, k)
  PROVE  /\ failed' = failed /\ cache' = cache /\ fetchedAt' = fetchedAt
         /\ \/ /\ CanRefresh /\ lastAttempt' = now /\ lock' = r
               /\ calls' = [calls EXCEPT ![r] = [pc |-> "fetching", kid |-> k]]
            \/ /\ lastAttempt' = lastAttempt /\ lock' = NoOne
               /\ \E a \in Answers :
                    /\ calls' = [calls EXCEPT ![r] = [pc |-> "done", kid |-> k, answer |-> a]]
                    /\ \/ a = "key" /\ HasFreshKey(k)
                       \/ a = ThrottledAnswer(k) /\ ~HasFreshKey(k) /\ ~CanRefresh
<1>1. ThrottledAnswer(k) \in Answers
  BY DEF ThrottledAnswer, LookUp, Answers
<1>. QED
  BY <1>1 DEF InLock, StampAttempt, At, Answer, Answers, client

(* Only calls move, and none of a request that fetches or waits: the rest  *)
(* of the invariant is untouched.                                          *)
LEMMA QuietStep ==
  ASSUME ClientInv, NEW r \in Requests, NEW c \in Call,
         calls[r].pc \in {"idle", "done"}, c.pc \in {"idle", "done"},
         calls' = [calls EXCEPT ![r] = c],
         UNCHANGED <<now, external, client, lock, waiters, wire>>
  PROVE  ClientInv'
<1>0. TypeOK /\ LockInv /\ DocumentInv
  BY DEF ClientInv
<1>1. /\ calls' \in [Requests -> Call]
      /\ calls'[r] = c
      /\ \A q \in Requests : q # r => calls'[q] = calls[q]
  BY <1>0, Placed DEF TypeOK
<1>2. TypeOK'
  BY <1>0, <1>1 DEF TypeOK, external, client
<1>3. LockInv'
  <2>1. lock # NoOne => lock \in Requests /\ lock # r
    BY <1>0 DEF TypeOK, LockInv
  <2>2. ASSUME NEW i \in 1 .. Len(waiters)
        PROVE  waiters[i] \in Requests /\ waiters[i] # r
    BY <1>0, ElementOfSeq DEF TypeOK, LockInv
  <2>. QED
    BY <1>0, <1>1, <2>1, <2>2 DEF LockInv, client
<1>4. DocumentInv'
  BY <1>0 DEF DocumentInv, TrueSince, external, client
<1>. QED
  BY <1>2, <1>3, <1>4 DEF ClientInv

----------------------------------------------------------------------------
(* get_key of a cached kid, and the end of a call.                         *)
LEMMA FastPathInv ==
  ASSUME ClientInv, NEW r \in Requests, NEW k \in Kids, FastPath(r, k)
  PROVE  ClientInv'
<1>1. [pc |-> "done", kid |-> k, answer |-> "key"] \in Call
  BY Places DEF Answers
<1>. QED
  BY <1>1, QuietStep DEF FastPath, Answer

LEMMA ReturnInv ==
  ASSUME ClientInv, NEW r \in Requests, Return(r)
  PROVE  ClientInv'
<1>1. Idle \in Call /\ Idle.pc = "idle"
  BY DEF Call, Idle
<1>. QED
  BY <1>1, QuietStep DEF Return

(* A call that goes into the free lock, out of the queue or past an empty  *)
(* one, and is not in the queue afterwards.                                *)
LEMMA GoInInv ==
  ASSUME ClientInv, lock = NoOne, NEW r \in Requests, NEW k \in Kids, InLock(r, k),
         waiters' \in Seq(Requests),
         \A i \in 1 .. Len(waiters)' : waiters'[i] # r /\ calls[waiters'[i]].pc = "waiting",
         \A i, j \in 1 .. Len(waiters)' : waiters'[i] = waiters'[j] => i = j,
         UNCHANGED <<now, external, wire>>
  PROVE  ClientInv'
<1>0. TypeOK /\ LockInv /\ DocumentInv
  BY DEF ClientInv
<1>1. /\ failed' = failed /\ cache' = cache /\ fetchedAt' = fetchedAt
      /\ \/ /\ CanRefresh /\ lastAttempt' = now /\ lock' = r
            /\ calls' = [calls EXCEPT ![r] = [pc |-> "fetching", kid |-> k]]
         \/ /\ lastAttempt' = lastAttempt /\ lock' = NoOne
            /\ \E a \in Answers :
                 calls' = [calls EXCEPT ![r] = [pc |-> "done", kid |-> k, answer |-> a]]
  BY <1>0, InLockEffect
<1>2. now \in Nat /\ FetchTimeout \in Nat /\ now # Never
  BY <1>0, JwksAssumption DEF TypeOK, Never
<1>3. wire = {} /\ wire' = {} /\ \A q \in Requests : calls[q].pc # "fetching"
  BY <1>0, JwksAssumption DEF LockInv, DocumentInv
<1>4. ASSUME NEW i \in 1 .. Len(waiters)' PROVE waiters'[i] \in Requests
  BY ElementOfSeq
<1>5. CASE /\ lastAttempt' = now /\ lock' = r
           /\ calls' = [calls EXCEPT ![r] = [pc |-> "fetching", kid |-> k]]
  <2>1. /\ calls' \in [Requests -> Call]
        /\ calls'[r].pc = "fetching"
        /\ \A q \in Requests : q # r => calls'[q] = calls[q]
    BY <1>0, <1>5, Places, Placed DEF TypeOK
  <2>2. TypeOK'
    BY <1>0, <1>1, <1>5, <2>1 DEF TypeOK, external
  <2>3. LockInv'
    BY <1>2, <1>3, <1>4, <1>5, <2>1 DEF LockInv, external
  <2>4. DocumentInv'
    BY <1>0, <1>1, <1>2, <1>3, <1>5, JwksAssumption DEF DocumentInv, TrueSince, external
  <2>. QED
    BY <2>2, <2>3, <2>4 DEF ClientInv
<1>6. ASSUME lastAttempt' = lastAttempt, lock' = NoOne, NEW a \in Answers,
             calls' = [calls EXCEPT ![r] = [pc |-> "done", kid |-> k, answer |-> a]]
      PROVE  ClientInv'
  <2>1. /\ calls' \in [Requests -> Call]
        /\ calls'[r].pc = "done"
        /\ \A q \in Requests : q # r => calls'[q] = calls[q]
    BY <1>0, <1>6, Places, Placed DEF TypeOK
  <2>2. TypeOK'
    BY <1>0, <1>1, <1>6, <2>1 DEF TypeOK, external
  <2>3. LockInv'
    BY <1>3, <1>4, <1>6, <2>1 DEF LockInv
  <2>4. DocumentInv'
    BY <1>0, <1>1, <1>6 DEF DocumentInv, TrueSince, external
  <2>. QED
    BY <2>2, <2>3, <2>4 DEF ClientInv
<1>. QED
  BY <1>1, <1>5, <1>6

(* The queue moves up: nobody left in it is the one that leaves it.        *)
LEMMA WakeUpInv ==
  ASSUME ClientInv, WakeUp
  PROVE  ClientInv'
<1>0. TypeOK /\ LockInv /\ waiters \in Seq(Requests) /\ waiters # <<>>
  BY DEF ClientInv, TypeOK, WakeUp
<1>1. /\ Len(waiters) \in Nat \ {0} /\ Head(waiters) = waiters[1]
      /\ Head(waiters) \in Requests
      /\ Tail(waiters) \in Seq(Requests)
      /\ Len(Tail(waiters)) = Len(waiters) - 1
      /\ \A i \in 1 .. Len(Tail(waiters)) : Tail(waiters)[i] = waiters[i + 1]
  BY <1>0, HeadTailProperties, EmptySeq
<1>2. calls[Head(waiters)].pc = "waiting" /\ calls[Head(waiters)].kid \in Kids
  <2>1. calls[Head(waiters)].pc = "waiting"
    BY <1>0, <1>1 DEF LockInv
  <2>. QED
    BY <1>0, <1>1, <2>1, HasKid DEF TypeOK
<1>3. ASSUME NEW i \in 1 .. Len(Tail(waiters))
      PROVE  /\ Tail(waiters)[i] # Head(waiters)
             /\ calls[Tail(waiters)[i]].pc = "waiting"
  <2>1. i + 1 \in 1 .. Len(waiters) /\ i + 1 # 1 /\ 1 \in 1 .. Len(waiters)
    BY <1>1
  <2>. QED
    BY <1>0, <1>1, <2>1 DEF LockInv
<1>4. ASSUME NEW i \in 1 .. Len(Tail(waiters)), NEW j \in 1 .. Len(Tail(waiters)),
             Tail(waiters)[i] = Tail(waiters)[j]
      PROVE  i = j
  <2>1. i + 1 \in 1 .. Len(waiters) /\ j + 1 \in 1 .. Len(waiters)
    BY <1>1
  <2>2. i + 1 = j + 1
    BY <1>0, <1>1, <1>4, <2>1 DEF LockInv
  <2>. QED
    BY <2>2
<1>5. waiters' = Tail(waiters) /\ lock = NoOne /\ UNCHANGED <<now, external, wire>>
      /\ InLock(Head(waiters), calls[Head(waiters)].kid)
  BY DEF WakeUp
<1>. QED
  BY <1>1, <1>2, <1>3, <1>4, <1>5, GoInInv

LEMMA EnqueueInv ==
  ASSUME ClientInv, NEW r \in Requests, NEW k \in Kids, Enqueue(r, k)
  PROVE  ClientInv'
<1>0. TypeOK /\ LockInv /\ DocumentInv /\ waiters \in Seq(Requests)
  BY DEF ClientInv, TypeOK
<1>1. /\ calls[r].pc = "idle"
      /\ calls' = [calls EXCEPT ![r] = [pc |-> "waiting", kid |-> k]]
      /\ waiters' = Append(waiters, r)
      /\ UNCHANGED <<now, external, client, lock, wire>>
  BY DEF Enqueue, At
<1>2. /\ calls' \in [Requests -> Call]
      /\ calls'[r].pc = "waiting"
      /\ \A q \in Requests : q # r => calls'[q] = calls[q]
  BY <1>0, <1>1, Places, Placed DEF TypeOK
<1>3. /\ waiters' \in Seq(Requests)
      /\ Len(waiters) \in Nat
      /\ Len(waiters') = Len(waiters) + 1
      /\ \A i \in 1 .. Len(waiters) : waiters'[i] = waiters[i]
      /\ waiters'[Len(waiters) + 1] = r
  BY <1>0, <1>1, AppendProperties, LenProperties
<1>4. \A i \in 1 .. Len(waiters) : waiters[i] \in Requests /\ waiters[i] # r
  BY <1>0, <1>1, ElementOfSeq DEF LockInv
<1>5. TypeOK'
  BY <1>0, <1>1, <1>2, <1>3 DEF TypeOK, external, client
<1>6. LockInv'
  <2>1. lock # NoOne => lock \in Requests /\ lock # r
    BY <1>0, <1>1 DEF TypeOK, LockInv
  <2>2. \A i \in 1 .. Len(waiters) : i \in 1 .. Len(waiters')
    BY <1>3
  <2>3. \A i \in 1 .. Len(waiters') : i \in 1 .. Len(waiters) \/ i = Len(waiters) + 1
    BY <1>3
  <2>4. \A i \in 1 .. Len(waiters') : calls'[waiters'[i]].pc = "waiting"
    BY <1>0, <1>2, <1>3, <1>4, <2>3 DEF LockInv
  <2>5. \A i, j \in 1 .. Len(waiters') : waiters'[i] = waiters'[j] => i = j
    BY <1>0, <1>3, <1>4, <2>3 DEF LockInv
  <2>. QED
    BY <1>0, <1>1, <1>2, <2>1, <2>4, <2>5 DEF LockInv, client
<1>7. DocumentInv'
  BY <1>0, <1>1 DEF DocumentInv, TrueSince, external, client
<1>. QED
  BY <1>5, <1>6, <1>7 DEF ClientInv

(* The three ways into get_key.                                            *)
LEMMA GetKeyInv ==
  ASSUME ClientInv, NEW r \in Requests, NEW k \in Kids,
         FastPath(r, k) \/ GoIn(r, k) \/ Enqueue(r, k)
  PROVE  ClientInv'
<1>1. ASSUME GoIn(r, k) PROVE ClientInv'
  <2>1. /\ lock = NoOne /\ waiters = <<>> /\ waiters' = <<>> /\ InLock(r, k)
        /\ UNCHANGED <<now, external, wire>>
    BY <1>1 DEF GoIn
  <2>2. waiters' \in Seq(Requests) /\ Len(waiters)' = 0
    BY <2>1, EmptySeq
  <2>. QED
    BY <2>1, <2>2, GoInInv
<1>. QED
  BY <1>1, FastPathInv, EnqueueInv

----------------------------------------------------------------------------
(* The fetch ends: the lock's holder gets its answer and the lock is free. *)
LEMMA ReleaseInv ==
  ASSUME ClientInv, Fetching, NEW a \in Answers, Answer(lock, calls[lock].kid, a),
         lock' = NoOne, wire' = {}, UNCHANGED <<now, external, lastAttempt, waiters>>,
         cache' \in SUBSET CognitoKids, failed' \in BOOLEAN,
         fetchedAt' \in 0 .. Horizon \cup {Never}
  PROVE  TypeOK' /\ LockInv'
<1>0. TypeOK /\ LockInv /\ lock \in Requests
  BY DEF ClientInv, TypeOK, Fetching
<1>1. calls[lock].pc = "fetching" /\ calls[lock].kid \in Kids
  BY <1>0, HasKid DEF TypeOK, Fetching
<1>2. /\ calls' \in [Requests -> Call]
      /\ calls'[lock].pc = "done"
      /\ \A q \in Requests : q # lock => calls'[q] = calls[q]
  BY <1>0, <1>1, Places, Placed DEF TypeOK, Answer
<1>3. TypeOK'
  BY <1>0, <1>2 DEF TypeOK, external
<1>4. LockInv'
  <2>1. ASSUME NEW i \in 1 .. Len(waiters)
        PROVE  waiters[i] \in Requests /\ waiters[i] # lock
    BY <1>0, <1>1, ElementOfSeq DEF TypeOK, LockInv
  <2>. QED
    BY <1>0, <1>2, <2>1 DEF LockInv
<1>. QED
  BY <1>3, <1>4

LEMMA FetchEndsInv ==
  ASSUME ClientInv, FetchSucceeds \/ FetchFails
  PROVE  ClientInv'
<1>0. TypeOK /\ LockInv /\ DocumentInv
  BY DEF ClientInv
<1>1. CASE FetchSucceeds
  <2>1. PICK document \in wire :
          /\ Fetching
          /\ cache' = document /\ fetchedAt' = now /\ failed' = FALSE
          /\ Answer(lock, calls[lock].kid, LookUp(calls[lock].kid, document))
          /\ lock' = NoOne /\ wire' = {}
          /\ UNCHANGED <<now, external, lastAttempt, waiters>>
    BY <1>1 DEF FetchSucceeds
  <2>2. LookUp(calls[lock].kid, document) \in Answers
    BY DEF LookUp, Answers
  <2>3. document \in SUBSET CognitoKids /\ now \in 0 .. Horizon
    BY <1>0, <2>1 DEF TypeOK
  <2>4. TypeOK' /\ LockInv'
    BY <2>1, <2>2, <2>3, ReleaseInv
  <2>5. TrueSince(document, lastAttempt) /\ now - lastAttempt <= FetchTimeout
        /\ lastAttempt <= now
    BY <1>0, <2>1 DEF DocumentInv, LockInv, Fetching
  <2>6. /\ TrueSince(document, now - FetchTimeout)
        /\ now \in Nat /\ lastAttempt \in Int
    <3>1. /\ now \in Nat /\ lastAttempt \in Int /\ FetchTimeout \in Nat
          /\ \A k \in CognitoKids : since[k] \in Nat
      BY <1>0, JwksAssumption DEF TypeOK, Never
    <3>. QED
      BY <2>5, <3>1 DEF TrueSince
  <2>7. DocumentInv'
    BY <1>0, <2>1, <2>5, <2>6 DEF DocumentInv, TrueSince, external
  <2>. QED
    BY <2>4, <2>7 DEF ClientInv
<1>2. CASE FetchFails
  <2>1. PICK a \in {"unavailable", "crash"} :
          /\ Fetching
          /\ Answer(lock, calls[lock].kid, a)
          /\ failed' = TRUE /\ cache' = cache /\ fetchedAt' = fetchedAt
          /\ lock' = NoOne /\ wire' = {}
          /\ UNCHANGED <<now, external, lastAttempt, waiters>>
    BY <1>2 DEF FetchFails
  <2>2. a \in Answers
    BY DEF Answers
  <2>3. TypeOK' /\ LockInv'
    BY <1>0, <2>1, <2>2, ReleaseInv DEF TypeOK
  <2>4. DocumentInv'
    BY <1>0, <2>1 DEF DocumentInv, TrueSince, external
  <2>. QED
    BY <2>3, <2>4 DEF ClientInv
<1>. QED
  BY <1>1, <1>2

----------------------------------------------------------------------------
(* Cognito changes its mind about a kid now: whatever the documents differ *)
(* by from then on, they differ by since now or since before.              *)
LEMMA RotationInv ==
  ASSUME ClientInv, NEW k \in CognitoKids, Publish(k) \/ Withdraw(k)
  PROVE  ClientInv'
<1>0. TypeOK /\ LockInv /\ DocumentInv
  BY DEF ClientInv
<1>1. /\ published' \in {published \cup {k}, published \ {k}}
      /\ since' = [since EXCEPT ![k] = now]
      /\ UNCHANGED <<now, client, lock, waiters, wire, calls>>
  BY DEF Publish, Withdraw
<1>2. /\ now \in 0 .. Horizon
      /\ since'[k] = now
      /\ \A j \in CognitoKids : j # k => since'[j] = since[j] /\ (j \in published' <=> j \in published)
  BY <1>0, <1>1 DEF TypeOK
<1>3. TypeOK'
  BY <1>0, <1>1, <1>2 DEF TypeOK, client
<1>4. LockInv'
  BY <1>0, <1>1 DEF LockInv, client
<1>5. ASSUME NEW document, NEW t \in Int, t <= now, TrueSince(document, t)
      PROVE  \A j \in CognitoKids : (j \in document) # (j \in published') => since'[j] >= t
  BY <1>0, <1>2, <1>5 DEF TrueSince, TypeOK
<1>6. DocumentInv'
  <2>1. /\ now \in Nat /\ lastAttempt \in Int /\ fetchedAt \in Int
        /\ FetchTimeout \in Nat
    BY <1>0, JwksAssumption DEF TypeOK, Never
  <2>2. \A document \in wire, j \in CognitoKids :
          (j \in document) # (j \in published') => since'[j] >= lastAttempt
    BY <1>0, <1>5, <2>1 DEF DocumentInv
  <2>3. fetchedAt # Never => \A j \in CognitoKids :
          (j \in cache) # (j \in published') => since'[j] >= fetchedAt - FetchTimeout
    BY <1>0, <1>5, <2>1 DEF DocumentInv
  <2>4. lock = NoOne /\ ~failed /\ fetchedAt # Never => \A j \in CognitoKids :
          (j \in cache) # (j \in published') => since'[j] >= lastAttempt
    BY <1>0, <1>5, <2>1 DEF DocumentInv
  <2>. QED
    BY <1>0, <1>1, <2>2, <2>3, <2>4 DEF DocumentInv, TrueSince, client
<1>. QED
  BY <1>3, <1>4, <1>6 DEF ClientInv

LEMMA CognitoAnswersInv ==
  ASSUME ClientInv, CognitoAnswers
  PROVE  ClientInv'
<1>0. TypeOK /\ LockInv /\ DocumentInv
  BY DEF ClientInv
<1>1. /\ lock # NoOne /\ wire' = {published}
      /\ UNCHANGED <<now, external, client, lock, waiters, calls>>
  BY DEF CognitoAnswers, Fetching
<1>2. TypeOK'
  BY <1>0, <1>1 DEF TypeOK, external, client
<1>3. LockInv'
  BY <1>0, <1>1 DEF LockInv, client
<1>4. DocumentInv'
  BY <1>0, <1>1 DEF DocumentInv, TrueSince, external, client
<1>. QED
  BY <1>2, <1>3, <1>4 DEF ClientInv

LEMMA TickInv ==
  ASSUME ClientInv, Tick
  PROVE  ClientInv'
<1>0. TypeOK /\ LockInv /\ DocumentInv
  BY DEF ClientInv
<1>1. /\ now < Horizon /\ now' = now + 1
      /\ lock # NoOne => now - lastAttempt < FetchTimeout
      /\ UNCHANGED <<external, client, lock, waiters, wire, calls>>
  BY DEF Tick
<1>2. /\ now \in Nat /\ lastAttempt \in Int /\ fetchedAt \in Int
      /\ FetchTimeout \in Nat /\ Horizon \in Nat
  BY <1>0, JwksAssumption DEF TypeOK, Never
<1>3. TypeOK'
  BY <1>0, <1>1, <1>2 DEF TypeOK, external, client
<1>4. LockInv'
  BY <1>0, <1>1, <1>2 DEF LockInv, client
<1>5. DocumentInv'
  BY <1>0, <1>1, <1>2 DEF DocumentInv, TrueSince, external, client
<1>. QED
  BY <1>3, <1>4, <1>5 DEF ClientInv

LEMMA EnvironmentInv ==
  ASSUME ClientInv, Environment
  PROVE  ClientInv'
BY CognitoAnswersInv, TickInv, RotationInv DEF Environment

LEMMA StutterInv ==
  ASSUME ClientInv, UNCHANGED vars
  PROVE  ClientInv'
BY DEF ClientInv, TypeOK, LockInv, DocumentInv, TrueSince, vars, external, client

(* Whatever the pipeline does around it, the client takes one of its steps *)
(* or none.                                                                *)
LEMMA NextClientInv == ClientInv /\ [HttpNext]_httpVars => ClientInv'
<1>. SUFFICES ASSUME ClientInv, [HttpNext]_httpVars PROVE ClientInv'
  OBVIOUS
<1>1. ASSUME NEW r \in Requests, NEW route \in Routes,
             Forbid(r, route) \/ ServeDirectly(r, route)
      PROVE  UNCHANGED vars
  BY <1>1 DEF Forbid, ServeDirectly
<1>2. ASSUME NEW r \in Requests, RefuseUnread(r) \/ Identify(r) \/ SessionResponds(r)
      PROVE  UNCHANGED vars
  BY <1>2 DEF RefuseUnread, Identify, SessionResponds
<1>3. ASSUME NEW r \in Requests, End(r) PROVE ClientInv'
  BY <1>3, ReturnInv, StutterInv DEF End
<1>4. ASSUME NEW r \in Requests, NEW k \in Kids, Authenticate(r, k) PROVE ClientInv'
  BY <1>4, GetKeyInv DEF Authenticate
<1>5. CASE ResumeWaiter
  BY <1>5, WakeUpInv DEF ResumeWaiter
<1>6. CASE FetchEnds
  BY <1>6, FetchEndsInv DEF FetchEnds
<1>7. CASE Environment
  BY <1>7, EnvironmentInv
<1>8. CASE UNCHANGED httpVars
  BY <1>8, StutterInv DEF httpVars
<1>. QED
  BY <1>1, <1>2, <1>3, <1>4, <1>5, <1>6, <1>7, <1>8, StutterInv DEF HttpNext

(* The lock's holder fetches, the queue waits, and every document was true *)
(* at a known time: the inductive invariant of the JWKS client, whatever   *)
(* the requests around it do.                                              *)
THEOREM ClientInvariant == HttpSpec => []ClientInv
<1>1. HttpInit => ClientInv
  BY InitClientInv DEF HttpInit
<1>. QED
  BY <1>1, NextClientInv, PTL DEF HttpSpec

----------------------------------------------------------------------------
(* What verify_token makes of get_key's answer.                            *)
LEMMA VerifiedOutcomes ==
  ASSUME NEW a \in Answers, NEW next \in Verified(a)
  PROVE  \/ a = "key" /\ next = [at |-> "identity"]
         \/ \E flawless \in BOOLEAN, status \in {401, 500, 503} :
              /\ next = Response("mcp", flawless, status, "nobody")
              /\ flawless /\ status = 401 => a = "unknown"
<1>. DEFINE Refused(flawless, status) ==
              /\ next = Response("mcp", flawless, status, "nobody")
              /\ flawless /\ status = 401 => a = "unknown"
            SomeRefusal == \E flawless \in BOOLEAN, status \in {401, 500, 503} :
                             Refused(flawless, status)
<1>1. ASSUME NEW e PROVE StatusOf(e) \in {401, 500, 503}
  BY DEF StatusOf
<1>2. CASE a = "key"
  <2>1. \/ next = [at |-> "identity"]
        \/ next = Rejected(TRUE, "InvalidKeyError")
        \/ \E flaw \in DOMAIN Rejection : next = Rejected(FALSE, Rejection[flaw])
    BY <1>2 DEF Verified
  <2>2. ASSUME next = Rejected(TRUE, "InvalidKeyError") PROVE SomeRefusal
    <3>1. StatusOf("InvalidKeyError") = 500
      BY DEF StatusOf, AuthErrors
    <3>2. next = Response("mcp", TRUE, 500, "nobody")
      BY <2>2, <3>1, Zenon DEF Rejected
    <3>3. Refused(TRUE, 500) /\ TRUE \in BOOLEAN /\ 500 \in {401, 500, 503}
      BY <3>2
    <3>. HIDE DEF Refused
    <3>. QED
      BY <3>3, Zenon
  <2>3. ASSUME NEW flaw \in DOMAIN Rejection, next = Rejected(FALSE, Rejection[flaw])
        PROVE  SomeRefusal
    <3>1. Refused(FALSE, StatusOf(Rejection[flaw])) /\ FALSE \in BOOLEAN
      BY <2>3 DEF Rejected
    <3>2. StatusOf(Rejection[flaw]) \in {401, 500, 503}
      BY <1>1
    <3>. HIDE DEF Refused
    <3>. QED
      BY <3>1, <3>2, Zenon
  <2>4. next = [at |-> "identity"] \/ SomeRefusal
    <3>. HIDE DEF SomeRefusal
    <3>. QED
      BY <2>1, <2>2, <2>3
  <2>. QED
    BY <1>2, <2>4
<1>3. CASE a # "key"
  <2>1. \/ next = Rejected(TRUE, GetKeyRaises[a])
        \/ next = Rejected(FALSE, GetKeyRaises[a])
    BY <1>3 DEF Verified
  <2>2. a # "unknown" => StatusOf(GetKeyRaises[a]) # 401
    BY <1>3 DEF Answers, GetKeyRaises, StatusOf, AuthErrors
  <2>3. \/ Refused(TRUE, StatusOf(GetKeyRaises[a]))
        \/ Refused(FALSE, StatusOf(GetKeyRaises[a]))
    BY <2>1, <2>2 DEF Rejected
  <2>4. StatusOf(GetKeyRaises[a]) \in {401, 500, 503} /\ TRUE \in BOOLEAN /\ FALSE \in BOOLEAN
    BY <1>1
  <2>5. ASSUME Refused(TRUE, StatusOf(GetKeyRaises[a])) PROVE SomeRefusal
    <3>. HIDE DEF Refused
    <3>. QED
      BY <2>4, <2>5, Zenon
  <2>6. ASSUME Refused(FALSE, StatusOf(GetKeyRaises[a])) PROVE SomeRefusal
    <3>. HIDE DEF Refused
    <3>. QED
      BY <2>4, <2>6, Zenon
  <2>7. SomeRefusal
    <3>. HIDE DEF Refused, SomeRefusal
    <3>. QED
      BY <2>3, <2>5, <2>6
  <2>. QED
    BY <2>7
<1>. QED
  BY <1>2, <1>3

(* A response is a place a request can be in.                              *)
LEMMA ResponsePlace ==
  ASSUME NEW route \in Routes, NEW flawless \in BOOLEAN, NEW status \in Statuses,
         NEW user \in Users
  PROVE  LET place == Response(route, flawless, status, user) IN
         /\ place \in Progress
         /\ place.at = "answered" /\ place.route = route /\ place.flawless = flawless
         /\ place.status = status /\ place.line = AccessLine(route, status, user)
<1>1. AccessLine(route, status, user) \in Line
  BY DEF AccessLine, Line
<1>. QED
  BY <1>1 DEF Response, Progress

LEMMA ResponseOK ==
  ASSUME NEW route \in Routes, NEW flawless \in BOOLEAN, NEW status \in Statuses,
         NEW user \in Users, NEW call, call.pc \in {"idle", "done"}, NEW fetched,
         flawless /\ status = 401 => fetched # Never,
         user # "nobody" => flawless /\ call.pc = "done" /\ call.answer = "key",
         route = "mcp" /\ status = 200 => user # "nobody"
  PROVE  PlaceOK(Response(route, flawless, status, user), call, fetched)
<1>1. PICK place : place = Response(route, flawless, status, user)
  OBVIOUS
<1>2. /\ place \in Progress
      /\ place.at = "answered" /\ place.route = route /\ place.flawless = flawless
      /\ place.status = status /\ place.line = AccessLine(route, status, user)
  BY <1>1, ResponsePlace
<1>3. \E u \in Users :
        /\ place.line = AccessLine(place.route, place.status, u)
        /\ u # "nobody" => place.flawless /\ call.pc = "done" /\ call.answer = "key"
        /\ place.route = "mcp" /\ place.status = 200 => u # "nobody"
  BY <1>2
<1>4. PlaceOK(place, call, fetched)
  BY <1>2, <1>3 DEF PlaceOK
<1>. QED
  BY <1>1, <1>4

(* Where r's answer leaves it.                                             *)
LEMMA AnswerPlace ==
  ASSUME NEW call, call.pc = "done", NEW a \in Answers, call.answer = a,
         NEW fetched, a = "unknown" => fetched # Never,
         NEW next \in Verified(a)
  PROVE  PlaceOK(next, call, fetched)
<1>1. CASE a = "key" /\ next = [at |-> "identity"]
  BY <1>1 DEF PlaceOK, Progress
<1>2. ASSUME NEW flawless \in BOOLEAN, NEW status \in {401, 500, 503},
             next = Response("mcp", flawless, status, "nobody"),
             flawless /\ status = 401 => a = "unknown"
      PROVE  PlaceOK(next, call, fetched)
  <2>1. "mcp" \in Routes /\ status \in Statuses /\ "nobody" \in Users /\ status # 200
    BY DEF Routes, Statuses, Users
  <2>. QED
    BY <1>2, <2>1, ResponseOK
<1>. QED
  BY <1>1, <1>2, VerifiedOutcomes

(* What a step of the client does to one request's call, as the pipeline   *)
(* sees it: it waits or has its answer, and unknown comes from a document. *)
Reaches(r) ==
  /\ fetchedAt # Never => fetchedAt' # Never
  /\ \E c \in Call :
       /\ calls' = [calls EXCEPT ![r] = c]
       /\ \/ c.pc \in {"waiting", "fetching"}
          \/ c.pc = "done" /\ c.answer \in Answers /\ (c.answer = "unknown" => fetchedAt' # Never)

LEMMA GoesInReaches ==
  ASSUME TypeOK, lock = NoOne, NEW r \in Requests, NEW k \in Kids, InLock(r, k)
  PROVE  Reaches(r)
<1>1. fetchedAt' = fetchedAt
  BY InLockEffect
<1>2. CASE calls' = [calls EXCEPT ![r] = [pc |-> "fetching", kid |-> k]]
  BY <1>1, <1>2, Places DEF Reaches
<1>3. ASSUME NEW a \in Answers, a = "key" \/ a = ThrottledAnswer(k),
             calls' = [calls EXCEPT ![r] = [pc |-> "done", kid |-> k, answer |-> a]]
      PROVE  Reaches(r)
  <2>1. a = "unknown" => fetchedAt # Never
    BY <1>3 DEF ThrottledAnswer
  <2>. QED
    BY <1>1, <1>3, <2>1, Places DEF Reaches
<1>. QED
  BY <1>2, <1>3, InLockEffect

LEMMA GetKeyReaches ==
  ASSUME TypeOK, NEW r \in Requests, NEW k \in Kids,
         FastPath(r, k) \/ GoIn(r, k) \/ Enqueue(r, k)
  PROVE  Reaches(r)
<1>1. CASE FastPath(r, k)
  BY <1>1, Places DEF FastPath, Answer, Answers, client, Reaches
<1>2. CASE GoIn(r, k)
  BY <1>2, GoesInReaches DEF GoIn
<1>3. CASE Enqueue(r, k)
  BY <1>3, Places DEF Enqueue, At, client, Reaches
<1>. QED
  BY <1>1, <1>2, <1>3

LEMMA WakeUpReaches ==
  ASSUME ClientInv, WakeUp
  PROVE  Head(waiters) \in Requests /\ Reaches(Head(waiters))
<1>1. TypeOK /\ waiters \in Seq(Requests) /\ waiters # <<>> /\ lock = NoOne
  BY DEF ClientInv, TypeOK, WakeUp
<1>2. Head(waiters) \in Requests /\ Head(waiters) = waiters[1] /\ 1 \in 1 .. Len(waiters)
  BY <1>1, HeadTailProperties, EmptySeq
<1>3. calls[Head(waiters)].kid \in Kids
  BY <1>1, <1>2, HasKid DEF ClientInv, LockInv, TypeOK
<1>. QED
  BY <1>1, <1>2, <1>3, GoesInReaches DEF WakeUp

LEMMA FetchEndsReaches ==
  ASSUME TypeOK, FetchSucceeds \/ FetchFails
  PROVE  lock \in Requests /\ Reaches(lock) /\ calls'[lock].pc = "done"
<1>1. lock \in Requests /\ calls[lock].kid \in Kids /\ now # Never
  <2>1. Fetching
    BY DEF FetchSucceeds, FetchFails
  <2>. QED
    BY <2>1, HasKid DEF Fetching, TypeOK, Never
<1>2. ASSUME NEW a \in Answers, Answer(lock, calls[lock].kid, a),
             a = "unknown" => fetchedAt' # Never, fetchedAt # Never => fetchedAt' # Never
      PROVE  Reaches(lock) /\ calls'[lock].pc = "done"
  BY <1>1, <1>2, Places DEF Answer, Reaches, TypeOK
<1>3. CASE FetchSucceeds
  <2>1. PICK a \in Answers : Answer(lock, calls[lock].kid, a) /\ fetchedAt' = now
    BY <1>3 DEF FetchSucceeds, LookUp, Answers
  <2>. QED
    BY <1>1, <1>2, <2>1
<1>4. CASE FetchFails
  <2>1. PICK a \in {"unavailable", "crash"} : Answer(lock, calls[lock].kid, a) /\ fetchedAt' = fetchedAt
    BY <1>4 DEF FetchFails
  <2>2. a \in Answers /\ a # "unknown"
    BY DEF Answers
  <2>. QED
    BY <1>1, <1>2, <2>1, <2>2
<1>. QED
  BY <1>3, <1>4

----------------------------------------------------------------------------
LEMMA InitHttpInv == HttpInit => HttpInv
<1>. SUFFICES ASSUME HttpInit PROVE HttpInv
  OBVIOUS
<1>1. ClientInv
  BY InitClientInv DEF HttpInit
<1>2. ASSUME NEW r \in Requests
      PROVE  http[r] \in Progress /\ PlaceOK(http[r], calls[r], fetchedAt)
  <2>1. http[r] = [at |-> "idle"] /\ calls[r] = [pc |-> "idle"]
    BY DEF HttpInit, Init, Idle
  <2>2. http[r] \in Progress
    BY <2>1 DEF Progress
  <2>. QED
    BY <2>1, <2>2 DEF PlaceOK
<1>3. http \in [Requests -> Progress]
  BY <1>2 DEF HttpInit
<1>. QED
  BY <1>1, <1>2, <1>3 DEF HttpInv

(* A step that moves one request, and one request's call, and does not     *)
(* forget that Cognito was seen.                                           *)
LEMMA MoveInv ==
  ASSUME HttpInv, ClientInv', NEW r \in Requests, NEW next, Goes(r, next),
         \A q \in Requests : q # r => calls'[q] = calls[q],
         fetchedAt # Never => fetchedAt' # Never,
         PlaceOK(next, calls'[r], fetchedAt')
  PROVE  HttpInv'
<1>1. /\ http'[r] = next
      /\ \A q \in Requests : q # r => http'[q] = http[q]
      /\ http' \in [Requests -> Progress]
  BY DEF Goes, HttpInv, PlaceOK
<1>2. ASSUME NEW q \in Requests
      PROVE  PlaceOK(http'[q], calls'[q], fetchedAt')
  <2>1. CASE q = r
    BY <1>1, <2>1
  <2>2. CASE q # r
    BY <1>1, <2>2 DEF HttpInv, PlaceOK
  <2>. QED
    BY <2>1, <2>2
<1>. QED
  BY <1>1, <1>2 DEF HttpInv

(* A request whose call is on its way, or has its answer.                  *)
LEMMA AwaitInv ==
  ASSUME HttpInv, ClientInv', NEW r \in Requests, Reaches(r), AwaitsGetKey(r)
  PROVE  HttpInv'
<1>1. PICK c \in Call :
        /\ calls' = [calls EXCEPT ![r] = c]
        /\ \/ c.pc \in {"waiting", "fetching"}
           \/ c.pc = "done" /\ c.answer \in Answers /\ (c.answer = "unknown" => fetchedAt' # Never)
  BY DEF Reaches
<1>2. /\ calls'[r] = c
      /\ \A q \in Requests : q # r => calls'[q] = calls[q]
      /\ fetchedAt # Never => fetchedAt' # Never
  BY <1>1, Placed DEF HttpInv, ClientInv, TypeOK, Reaches
<1>3. CASE c.pc = "done"
  <2>1. PICK next \in Verified(c.answer) : Goes(r, next)
    BY <1>2, <1>3 DEF AwaitsGetKey, GetKeyAnswers
  <2>2. PlaceOK(next, calls'[r], fetchedAt')
    BY <1>1, <1>2, <1>3, AnswerPlace
  <2>. QED
    BY <1>2, <2>1, <2>2, MoveInv
<1>4. CASE c.pc # "done"
  <2>1. Goes(r, [at |-> "auth"])
    BY <1>2, <1>4 DEF AwaitsGetKey
  <2>2. PlaceOK([at |-> "auth"], calls'[r], fetchedAt')
    BY <1>1, <1>2, <1>4 DEF PlaceOK, Progress
  <2>. QED
    BY <1>2, <2>1, <2>2, MoveInv
<1>. QED
  BY <1>3, <1>4

(* Identify, SessionResponds, and what is answered before get_key.         *)
LEMMA DirectInv ==
  ASSUME HttpInv, NEW r \in Requests, NEW route \in Routes,
         \/ Forbid(r, route) \/ ServeDirectly(r, route)
         \/ RefuseUnread(r) \/ Identify(r) \/ SessionResponds(r)
  PROVE  HttpInv'
<1>1. UNCHANGED vars
  BY DEF Forbid, ServeDirectly, RefuseUnread, Identify, SessionResponds
<1>2. ClientInv'
  BY <1>1, StutterInv DEF HttpInv
<1>3. PlaceOK(http[r], calls[r], fetchedAt)
  BY DEF HttpInv
<1>4. ASSUME NEW next, Goes(r, next), PlaceOK(next, calls[r], fetchedAt)
      PROVE  HttpInv'
  <2>1. calls' = calls /\ fetchedAt' = fetchedAt
    BY <1>1 DEF vars
  <2>. QED
    BY <1>2, <1>4, <2>1, MoveInv
<1>5. ASSUME NEW next \in Progress, Goes(r, next), calls[r].pc = "idle",
             next.at = "answered", ~next.flawless,
             next.line = AccessLine(next.route, next.status, "nobody"),
             next.route = "mcp" => next.status # 200
      PROVE  HttpInv'
  <2>1. "nobody" \in Users
    BY DEF Users
  <2>2. PlaceOK(next, calls[r], fetchedAt)
    BY <1>5, <2>1 DEF PlaceOK
  <2>. QED
    BY <1>4, <1>5, <2>2
<1>. DEFINE Refused(to, status) == Goes(r, Response(to, FALSE, status, "nobody"))
<1>6. ASSUME NEW to \in Routes, NEW status \in Statuses, http[r].at = "idle",
             Refused(to, status), to = "mcp" => status # 200
      PROVE  HttpInv'
  <2>1. PICK next : next = Response(to, FALSE, status, "nobody") /\ Goes(r, next)
    BY <1>6, Zenon
  <2>2. AccessLine(to, status, "nobody") \in Line
    BY DEF AccessLine, Line, Users
  <2>3. next \in Progress
    BY <2>1, <2>2 DEF Response, Progress
  <2>4. /\ next.at = "answered" /\ ~next.flawless /\ next.route = to /\ next.status = status
        /\ next.line = AccessLine(to, status, "nobody")
    BY <2>1 DEF Response
  <2>5. calls[r].pc = "idle"
    BY <1>3, <1>6 DEF PlaceOK
  <2>. QED
    BY <1>5, <1>6, <2>1, <2>3, <2>4, <2>5
<1>7. 200 \in Statuses /\ 401 \in Statuses /\ 403 \in Statuses
  BY DEF Statuses
<1>8. CASE \/ Forbid(r, route) \/ ServeDirectly(r, route) \/ RefuseUnread(r)
  <2>1. ASSUME Forbid(r, route) PROVE http[r].at = "idle" /\ Refused(route, 403)
    BY <2>1, Zenon DEF Forbid
  <2>2. ASSUME ServeDirectly(r, route)
        PROVE  http[r].at = "idle" /\ route # "mcp" /\ Refused(route, 200)
    BY <2>2, Zenon DEF ServeDirectly
  <2>3. ASSUME RefuseUnread(r) PROVE http[r].at = "idle" /\ Refused("mcp", 401)
    <3>1. StatusOf("MalformedToken") = 401
      BY DEF StatusOf, AuthErrors
    <3>. QED
      BY <2>3, <3>1, Zenon DEF RefuseUnread, Rejected
  <2>. HIDE DEF Refused
  <2>. QED
    BY <1>6, <1>7, <1>8, <2>1, <2>2, <2>3 DEF Routes
<1>9. CASE Identify(r)
  <2>1. PICK user \in Users \ {"nobody"} : Goes(r, [at |-> "mcp", user |-> user])
    BY <1>9 DEF Identify
  <2>2. PlaceOK([at |-> "mcp", user |-> user], calls[r], fetchedAt)
    BY <1>3, <1>9 DEF Identify, PlaceOK, Progress
  <2>. QED
    BY <1>4, <2>1, <2>2
<1>10. CASE SessionResponds(r)
  <2>1. PICK status \in {200, 500} : Goes(r, Response("mcp", TRUE, status, http[r].user))
    BY <1>10 DEF SessionResponds
  <2>2. http[r].at = "mcp" /\ http[r].user \in Users /\ http[r].user # "nobody"
    BY <1>3, <1>10 DEF SessionResponds, PlaceOK, Progress
  <2>3. PICK next : next = Response("mcp", TRUE, status, http[r].user) /\ Goes(r, next)
    BY <2>1, Zenon
  <2>4. /\ next \in Progress /\ next.at = "answered" /\ next.flawless
        /\ next.status \in {200, 500}
        /\ next.line = AccessLine(next.route, next.status, http[r].user)
    BY <2>2, <2>3 DEF Response, Progress, AccessLine, Line, Statuses, Routes
  <2>5. PlaceOK(next, calls[r], fetchedAt)
    BY <1>3, <2>2, <2>4 DEF PlaceOK
  <2>. QED
    BY <1>4, <2>3, <2>5
<1>. QED
  BY <1>8, <1>9, <1>10

LEMMA EndInv ==
  ASSUME HttpInv, NEW r \in Requests, End(r)
  PROVE  HttpInv'
<1>1. ClientInv /\ calls[r] \in Call /\ PlaceOK(http[r], calls[r], fetchedAt)
  BY DEF HttpInv, ClientInv, TypeOK
<1>2. Goes(r, [at |-> "idle"])
  BY DEF End
<1>3. /\ ClientInv' /\ fetchedAt' = fetchedAt /\ calls'[r].pc = "idle"
      /\ \A q \in Requests : q # r => calls'[q] = calls[q]
  <2>1. CASE calls[r].pc = "done"
    <3>1. Return(r)
      BY <2>1 DEF End
    <3>. QED
      BY <1>1, <3>1, ReturnInv DEF Return, client, Idle, ClientInv, TypeOK
  <2>2. CASE calls[r].pc # "done"
    <3>1. UNCHANGED vars /\ calls[r].pc = "idle"
      BY <1>1, <2>2 DEF End, PlaceOK
    <3>. QED
      BY <1>1, <3>1, StutterInv DEF vars, external, client
  <2>. QED
    BY <2>1, <2>2
<1>4. PlaceOK([at |-> "idle"], calls'[r], fetchedAt')
  BY <1>3 DEF PlaceOK, Progress
<1>. QED
  BY <1>2, <1>3, <1>4, MoveInv

LEMMA NextHttpInv == HttpInv /\ [HttpNext]_httpVars => HttpInv'
<1>. SUFFICES ASSUME HttpInv, [HttpNext]_httpVars PROVE HttpInv'
  OBVIOUS
<1>0. ClientInv /\ TypeOK /\ ClientInv'
  BY NextClientInv DEF HttpInv, ClientInv
<1>1. ASSUME NEW r \in Requests, NEW route \in Routes,
             Forbid(r, route) \/ ServeDirectly(r, route)
      PROVE  HttpInv'
  BY <1>1, DirectInv
<1>2. ASSUME NEW r \in Requests, RefuseUnread(r) \/ Identify(r) \/ SessionResponds(r)
      PROVE  HttpInv'
  BY <1>2, DirectInv DEF Routes
<1>3. ASSUME NEW r \in Requests, End(r) PROVE HttpInv'
  BY <1>3, EndInv
<1>4. ASSUME NEW r \in Requests, NEW k \in Kids, Authenticate(r, k) PROVE HttpInv'
  BY <1>0, <1>4, GetKeyReaches, AwaitInv DEF Authenticate
<1>5. CASE ResumeWaiter
  BY <1>0, <1>5, WakeUpReaches, AwaitInv DEF ResumeWaiter
<1>6. CASE FetchEnds
  BY <1>0, <1>6, FetchEndsReaches, AwaitInv DEF FetchEnds, AwaitsGetKey
<1>7. ASSUME UNCHANGED http, UNCHANGED calls, UNCHANGED fetchedAt PROVE HttpInv'
  BY <1>0, <1>7 DEF HttpInv
<1>8. CASE Environment /\ UNCHANGED http
  BY <1>7, <1>8 DEF Environment, CognitoAnswers, Tick, Publish, Withdraw, client
<1>9. CASE UNCHANGED httpVars
  BY <1>7, <1>9 DEF httpVars, vars
<1>. QED
  BY <1>1, <1>2, <1>3, <1>4, <1>5, <1>6, <1>8, <1>9 DEF HttpNext

(* And every request is where its call to get_key lets it be.              *)
THEOREM HttpInvariant == HttpSpec => []HttpInv
BY InitHttpInv, NextHttpInv, PTL DEF HttpSpec

(* Every variable keeps its type, and a request is at get_key exactly      *)
(* while its call is, past it only with a key.                             *)
THEOREM HttpTypeCorrect == HttpSpec => []HttpTypeOK
<1>1. HttpInv => HttpTypeOK
  BY DEF HttpInv, ClientInv, HttpTypeOK, PlaceOK
<1>. QED
  BY <1>1, HttpInvariant, PTL

(* No flawless token gets a 401 from a process that never saw Cognito.     *)
THEOREM OutageSparesTokens == HttpSpec => []OutageIsNotTheTokensFault
<1>1. HttpInv => OutageIsNotTheTokensFault
  BY DEF HttpInv, OutageIsNotTheTokensFault, PlaceOK
<1>. QED
  BY <1>1, HttpInvariant, PTL

(* Every response has its access line, and a line names no user who did    *)
(* not prove to be.                                                        *)
THEOREM AccessLineHolds == HttpSpec => []AccessLineTrue
<1>1. ASSUME HttpInv, NEW r \in Requests, http[r].at = "answered"
      PROVE  LET line == http[r].line IN
             /\ line = NoLine <=> http[r].route \in QuietRoutes /\ http[r].status # 500
             /\ line # NoLine => line.status = http[r].status
             /\ line.user # "nobody" =>
                  http[r].flawless /\ calls[r].pc = "done" /\ calls[r].answer = "key"
             /\ http[r].route = "mcp" /\ http[r].status = 200 => line.user # "nobody"
  <2>1. http[r] \in Progress /\ PlaceOK(http[r], calls[r], fetchedAt)
    BY <1>1 DEF HttpInv
  <2>2. PICK user \in Users :
          /\ http[r].line = AccessLine(http[r].route, http[r].status, user)
          /\ user # "nobody" => http[r].flawless /\ calls[r].pc = "done" /\ calls[r].answer = "key"
          /\ http[r].route = "mcp" /\ http[r].status = 200 => user # "nobody"
    BY <1>1, <2>1 DEF PlaceOK
  <2>3. http[r].status \in Statuses
    BY <1>1, <2>1 DEF Progress
  <2>4. CASE http[r].status # 500 /\ http[r].route \in QuietRoutes
    <3>1. http[r].line = NoLine /\ http[r].route # "mcp"
      BY <2>2, <2>4, HttpAssumption DEF AccessLine
    <3>. QED
      BY <2>4, <3>1 DEF NoLine
  <2>5. CASE ~(http[r].status # 500 /\ http[r].route \in QuietRoutes)
    <3>1. PICK line : line = http[r].line
      OBVIOUS
    <3>2. line = [status |-> http[r].status, user |-> user]
      BY <2>2, <2>5, <3>1 DEF AccessLine
    <3>3. line.status = http[r].status /\ line.user = user /\ line.status # 0
      BY <2>3, <3>2 DEF Statuses
    <3>4. line # NoLine
      BY <3>3 DEF NoLine
    <3>. QED
      BY <2>2, <2>5, <3>1, <3>3, <3>4
  <2>. QED
    BY <2>4, <2>5
<1>2. HttpInv => AccessLineTrue
  BY <1>1 DEF AccessLineTrue
<1>. QED
  BY <1>2, HttpInvariant, PTL

----------------------------------------------------------------------------
(* Attempts are a full interval apart, and none overlaps another: only a   *)
(* call that holds the lock stamps one.                                    *)
LEMMA SpacedStep ==
  ASSUME ClientInv, [HttpNext]_httpVars, lastAttempt' # lastAttempt
  PROVE  /\ lastAttempt # Never => lastAttempt' - lastAttempt >= MinInterval
         /\ \A r \in Requests : calls[r].pc # "fetching"
<1>1. TypeOK /\ LockInv
  BY DEF ClientInv
<1>2. ASSUME lock = NoOne, NEW r \in Requests, NEW k \in Kids, InLock(r, k)
      PROVE  lastAttempt # Never => lastAttempt' - lastAttempt >= MinInterval
  <2>1. CanRefresh /\ lastAttempt' = now
    BY <1>1, <1>2, InLockEffect
  <2>. QED
    BY <2>1 DEF CanRefresh
<1>3. CASE WakeUp
  <2>1. lock = NoOne /\ waiters # <<>> /\ InLock(Head(waiters), calls[Head(waiters)].kid)
    BY <1>3 DEF WakeUp
  <2>2. /\ waiters \in Seq(Requests) /\ Head(waiters) \in Requests
        /\ Head(waiters) = waiters[1] /\ 1 \in 1 .. Len(waiters)
    BY <1>1, <2>1, HeadTailProperties, EmptySeq DEF TypeOK
  <2>3. calls[Head(waiters)].kid \in Kids
    BY <1>1, <2>2, HasKid DEF LockInv, TypeOK
  <2>. QED
    BY <1>1, <1>2, <2>1, <2>2, <2>3, JwksAssumption DEF LockInv
<1>4. ASSUME NEW r \in Requests, NEW k \in Kids, FastPath(r, k) \/ GoIn(r, k) \/ Enqueue(r, k)
      PROVE  /\ lastAttempt # Never => lastAttempt' - lastAttempt >= MinInterval
             /\ \A q \in Requests : calls[q].pc # "fetching"
  <2>1. GoIn(r, k)
    BY <1>4 DEF FastPath, Enqueue, client
  <2>. QED
    BY <1>1, <1>2, <2>1, JwksAssumption DEF GoIn, LockInv
<1>5. ASSUME NEW r \in Requests, NEW route \in Routes,
             Forbid(r, route) \/ ServeDirectly(r, route)
      PROVE  FALSE
  BY <1>5 DEF Forbid, ServeDirectly, vars
<1>6. ASSUME NEW r \in Requests,
             RefuseUnread(r) \/ Identify(r) \/ SessionResponds(r) \/ End(r)
      PROVE  FALSE
  BY <1>6 DEF RefuseUnread, Identify, SessionResponds, End, Return, client, vars
<1>7. CASE FetchEnds
  BY <1>7 DEF FetchEnds, FetchSucceeds, FetchFails
<1>8. CASE Environment
  BY <1>8 DEF Environment, CognitoAnswers, Tick, Publish, Withdraw, client
<1>9. CASE UNCHANGED httpVars
  BY <1>9 DEF httpVars, vars
<1>. QED
  BY <1>3, <1>4, <1>5, <1>6, <1>7, <1>8, <1>9 DEF HttpNext, Authenticate, ResumeWaiter

(* The outbound fetch rate is bounded, whatever waits and whatever fails.  *)
THEOREM AttemptsAreSpaced == HttpSpec => AttemptsSpaced
<1>1. ClientInv /\ [HttpNext]_httpVars =>
        [lastAttempt' # lastAttempt =>
           /\ lastAttempt # Never => lastAttempt' - lastAttempt >= MinInterval
           /\ \A r \in Requests : calls[r].pc # "fetching"]_vars
  BY SpacedStep
<1>. QED
  BY <1>1, ClientInvariant, PTL DEF HttpSpec, AttemptsSpaced

----------------------------------------------------------------------------
(* Where an answer comes from: the fresh cache, the cache inside the       *)
(* throttle window, the document of the fetch that ends, or none of them.  *)
AnsweredFrom(k, a) ==
  \/ /\ a = "key" /\ HasFreshKey(k)
  \/ /\ lock = NoOne /\ ~HasFreshKey(k) /\ ~CanRefresh /\ a = ThrottledAnswer(k)
     /\ failed' = failed /\ lastAttempt' = lastAttempt
  \/ /\ lock # NoOne
     /\ \E document \in wire : a = LookUp(k, document)
  \/ a \in {"unavailable", "crash"}

(* The step by which r's call moves.                                       *)
GetKeyStep(r) ==
  \/ \E k \in Kids : FastPath(r, k) \/ GoIn(r, k) \/ Enqueue(r, k)
  \/ WakeUp /\ r = Head(waiters)
  \/ (FetchSucceeds \/ FetchFails) /\ r = lock

LEMMA GoesInAnswered ==
  ASSUME TypeOK, lock = NoOne, NEW r \in Requests, NEW k \in Kids, InLock(r, k),
         calls'[r].pc = "done"
  PROVE  calls'[r].kid = k /\ AnsweredFrom(k, calls'[r].answer)
<1>1. CASE calls' = [calls EXCEPT ![r] = [pc |-> "fetching", kid |-> k]]
  <2>1. calls'[r] = [pc |-> "fetching", kid |-> k]
    BY <1>1 DEF TypeOK
  <2>. QED
    BY <2>1
<1>2. ASSUME NEW a \in Answers, lastAttempt' = lastAttempt,
             calls' = [calls EXCEPT ![r] = [pc |-> "done", kid |-> k, answer |-> a]],
             \/ a = "key" /\ HasFreshKey(k)
             \/ a = ThrottledAnswer(k) /\ ~HasFreshKey(k) /\ ~CanRefresh
      PROVE  calls'[r].kid = k /\ AnsweredFrom(k, calls'[r].answer)
  <2>1. calls'[r] = [pc |-> "done", kid |-> k, answer |-> a]
    BY <1>2 DEF TypeOK
  <2>2. failed' = failed
    BY InLockEffect
  <2>. QED
    BY <1>2, <2>1, <2>2 DEF AnsweredFrom
<1>. QED
  BY <1>1, <1>2, InLockEffect

LEMMA GetKeyAnswered ==
  ASSUME ClientInv, NEW r \in Requests, GetKeyStep(r), calls'[r].pc = "done"
  PROVE  calls'[r].kid \in Kids /\ AnsweredFrom(calls'[r].kid, calls'[r].answer)
<1>1. TypeOK /\ LockInv
  BY DEF ClientInv
<1>2. ASSUME NEW k \in Kids, FastPath(r, k) \/ GoIn(r, k) \/ Enqueue(r, k)
      PROVE  calls'[r].kid = k /\ AnsweredFrom(k, calls'[r].answer)
  <2>1. CASE FastPath(r, k)
    <3>1. calls'[r] = [pc |-> "done", kid |-> k, answer |-> "key"] /\ HasFreshKey(k)
      BY <1>1, <2>1 DEF FastPath, Answer, TypeOK
    <3>. QED
      BY <3>1 DEF AnsweredFrom
  <2>2. CASE GoIn(r, k)
    BY <1>1, <2>2, GoesInAnswered DEF GoIn
  <2>3. CASE Enqueue(r, k)
    <3>1. calls'[r] = [pc |-> "waiting", kid |-> k]
      BY <1>1, <2>3 DEF Enqueue, At, TypeOK
    <3>. QED
      BY <3>1
  <2>. QED
    BY <1>2, <2>1, <2>2, <2>3
<1>3. CASE WakeUp /\ r = Head(waiters)
  <2>1. lock = NoOne /\ waiters # <<>> /\ InLock(r, calls[r].kid)
    BY <1>3 DEF WakeUp
  <2>2. waiters \in Seq(Requests) /\ r = waiters[1] /\ 1 \in 1 .. Len(waiters)
    BY <1>1, <1>3, <2>1, EmptySeq DEF TypeOK
  <2>3. calls[r].kid \in Kids
    BY <1>1, <2>2, HasKid DEF LockInv, TypeOK
  <2>. QED
    BY <1>1, <2>1, <2>3, GoesInAnswered
<1>4. CASE (FetchSucceeds \/ FetchFails) /\ r = lock
  <2>1. lock # NoOne /\ calls[r].pc = "fetching"
    BY <1>4 DEF FetchSucceeds, FetchFails, Fetching
  <2>2. calls[r].kid \in Kids
    BY <1>1, <2>1, HasKid DEF TypeOK
  <2>3. ASSUME NEW a, Answer(lock, calls[lock].kid, a)
        PROVE  calls'[r].kid = calls[r].kid /\ calls'[r].answer = a
    <3>1. calls'[r] = [pc |-> "done", kid |-> calls[r].kid, answer |-> a]
      BY <1>1, <1>4, <2>3 DEF Answer, TypeOK
    <3>. QED
      BY <3>1
  <2>. QED
    BY <1>4, <2>1, <2>2, <2>3 DEF FetchSucceeds, FetchFails, AnsweredFrom
<1>. QED
  BY <1>2, <1>3, <1>4 DEF GetKeyStep

(* The two things a request is told that depend on the documents: it goes  *)
(* on to the resolver, or its flawless token is refused.                   *)
Admitted(r) == http[r].at # "identity" /\ http'[r].at = "identity"

Refused(r) == ToldItsTokenIsBad(r) /\ http'[r].flawless

(* Both come from an answer of get_key, in the step that gives it.         *)
LEMMA AwaitTells ==
  ASSUME HttpInv, NEW q \in Requests, Reaches(q), AwaitsGetKey(q),
         NEW r \in Requests, Admitted(r) \/ Refused(r)
  PROVE  /\ r = q /\ calls'[r].pc = "done"
         /\ Admitted(r) => calls'[r].answer = "key"
         /\ Refused(r) => calls'[r].answer = "unknown"
<1>1. PICK c \in Call :
        /\ calls' = [calls EXCEPT ![q] = c]
        /\ c.pc = "done" => c.answer \in Answers
  BY DEF Reaches
<1>2. calls'[q] = c
  BY <1>1, Placed DEF HttpInv, ClientInv, TypeOK
<1>3. ASSUME NEW next, Goes(q, next)
      PROVE  /\ http'[q] = next
             /\ \A p \in Requests : p # q => http'[p] = http[p]
  BY <1>3 DEF Goes, HttpInv
<1>4. CASE c.pc = "done"
  <2>1. PICK next \in Verified(c.answer) : Goes(q, next)
    BY <1>2, <1>4 DEF AwaitsGetKey, GetKeyAnswers
  <2>2. r = q /\ http'[r] = next
    BY <1>3, <2>1 DEF Admitted, Refused, ToldItsTokenIsBad
  <2>3. CASE c.answer = "key" /\ next = [at |-> "identity"]
    BY <1>2, <1>4, <2>2, <2>3 DEF Admitted, Refused, ToldItsTokenIsBad
  <2>4. ASSUME NEW flawless \in BOOLEAN, NEW status \in {401, 500, 503},
               next = Response("mcp", flawless, status, "nobody"),
               flawless /\ status = 401 => c.answer = "unknown"
        PROVE  /\ ~Admitted(r)
               /\ Refused(r) => c.answer = "unknown"
    <3>1. next.at = "answered" /\ next.status = status /\ next.flawless = flawless
      BY <2>4 DEF Response
    <3>. QED
      BY <2>2, <2>4, <3>1 DEF Admitted, Refused, ToldItsTokenIsBad
  <2>. QED
    BY <1>1, <1>2, <1>4, <2>1, <2>2, <2>3, <2>4, VerifiedOutcomes
<1>5. CASE c.pc # "done"
  <2>1. Goes(q, [at |-> "auth"])
    BY <1>2, <1>5 DEF AwaitsGetKey
  <2>. QED
    BY <1>3, <2>1 DEF Admitted, Refused, ToldItsTokenIsBad
<1>. QED
  BY <1>4, <1>5

LEMMA WhoTells ==
  ASSUME HttpInv, [HttpNext]_httpVars, NEW r \in Requests, Admitted(r) \/ Refused(r)
  PROVE  /\ GetKeyStep(r) /\ calls'[r].pc = "done"
         /\ Admitted(r) => calls'[r].answer = "key"
         /\ Refused(r) => calls'[r].answer = "unknown"
<1>. DEFINE Told == /\ GetKeyStep(r) /\ calls'[r].pc = "done"
                    /\ Admitted(r) => calls'[r].answer = "key"
                    /\ Refused(r) => calls'[r].answer = "unknown"
<1>0. ClientInv /\ TypeOK
  BY DEF HttpInv, ClientInv
<1>1. ASSUME NEW q \in Requests, NEW k \in Kids, Authenticate(q, k) PROVE Told
  <2>1. (FastPath(q, k) \/ GoIn(q, k) \/ Enqueue(q, k)) /\ AwaitsGetKey(q)
    BY <1>1 DEF Authenticate
  <2>. QED
    BY <1>0, <2>1, GetKeyReaches, AwaitTells DEF GetKeyStep
<1>2. ASSUME ResumeWaiter PROVE Told
  BY <1>0, <1>2, WakeUpReaches, AwaitTells DEF ResumeWaiter, GetKeyStep
<1>3. ASSUME FetchEnds PROVE Told
  BY <1>0, <1>3, FetchEndsReaches, AwaitTells DEF FetchEnds, AwaitsGetKey, GetKeyStep
<1>4. ASSUME UNCHANGED http PROVE FALSE
  BY <1>4 DEF Admitted, Refused, ToldItsTokenIsBad
<1>5. ASSUME NEW q \in Requests, NEW next, Goes(q, next),
             next.at # "identity", next.at = "answered" => ~(next.status = 401 /\ next.flawless)
      PROVE  FALSE
  <2>1. http'[q] = next /\ \A p \in Requests : p # q => http'[p] = http[p]
    BY <1>5 DEF Goes, HttpInv
  <2>. QED
    BY <1>5, <2>1 DEF Admitted, Refused, ToldItsTokenIsBad
<1>6. ASSUME NEW q \in Requests, NEW to, NEW status,
             Goes(q, Response(to, FALSE, status, "nobody"))
      PROVE  FALSE
  <2>1. PICK next : next = Response(to, FALSE, status, "nobody") /\ Goes(q, next)
    BY <1>6, Zenon
  <2>2. next.at = "answered" /\ ~next.flawless
    BY <2>1 DEF Response
  <2>. QED
    BY <1>5, <2>1, <2>2
<1>7. ASSUME NEW q \in Requests, NEW route \in Routes,
             Forbid(q, route) \/ ServeDirectly(q, route) \/ RefuseUnread(q)
      PROVE  FALSE
  <2>1. CASE Forbid(q, route)
    BY <1>6, <2>1, Zenon DEF Forbid
  <2>2. CASE ServeDirectly(q, route)
    BY <1>6, <2>2, Zenon DEF ServeDirectly
  <2>3. CASE RefuseUnread(q)
    BY <1>6, <2>3, Zenon DEF RefuseUnread, Rejected
  <2>. QED
    BY <1>7, <2>1, <2>2, <2>3
<1>8. ASSUME NEW q \in Requests, Identify(q) \/ End(q) PROVE FALSE
  <2>1. ASSUME NEW user, Goes(q, [at |-> "mcp", user |-> user]) PROVE FALSE
    BY <1>5, <2>1
  <2>2. ASSUME Goes(q, [at |-> "idle"]) PROVE FALSE
    BY <1>5, <2>2
  <2>. QED
    BY <1>8, <2>1, <2>2 DEF Identify, End
<1>9. ASSUME NEW q \in Requests, SessionResponds(q) PROVE FALSE
  <2>1. PICK status \in {200, 500} : Goes(q, Response("mcp", TRUE, status, http[q].user))
    BY <1>9 DEF SessionResponds
  <2>2. PICK next : next = Response("mcp", TRUE, status, http[q].user) /\ Goes(q, next)
    BY <2>1, Zenon
  <2>3. next.at = "answered" /\ next.status # 401
    BY <2>2 DEF Response
  <2>4. next.at # "identity" /\ (next.at = "answered" => ~(next.status = 401 /\ next.flawless))
    BY <2>3
  <2>5. Goes(q, next)
    BY <2>2, Zenon
  <2>. QED
    BY <1>5, <2>4, <2>5
<1>10. ASSUME UNCHANGED httpVars PROVE FALSE
  BY <1>4, <1>10 DEF httpVars
<1>. HIDE DEF Told
<1>11. "mcp" \in Routes
  BY DEF Routes
<1>12. Told
  BY <1>1, <1>2, <1>3, <1>4, <1>7, <1>8, <1>9, <1>10, <1>11 DEF HttpNext
<1>. QED
  BY <1>12 DEF Told

(* With an invariant of the documents, each source of an answer keeps the  *)
(* two promises.                                                           *)
LEMMA UnknownIsTrue ==
  ASSUME ClientInv, NEW k \in Kids, k \in published, AnsweredFrom(k, "unknown")
  PROVE  \/ failed'
         \/ now - since[k] < MinInterval
         \/ now - since[k] <= FetchTimeout
<1>1. TypeOK /\ LockInv /\ DocumentInv
  BY DEF ClientInv
<1>2. /\ k \in CognitoKids /\ since[k] \in Nat /\ now \in Nat /\ lastAttempt \in Int
      /\ MinInterval \in Nat /\ FetchTimeout \in Nat
  BY <1>1, JwksAssumption DEF TypeOK, Never
<1>3. CASE /\ lock = NoOne /\ ~CanRefresh /\ "unknown" = ThrottledAnswer(k)
           /\ failed' = failed
  <2>1. k \notin cache /\ fetchedAt # Never /\ now - lastAttempt < MinInterval
    BY <1>2, <1>3 DEF ThrottledAnswer, LookUp, CanRefresh
  <2>2. ~failed => since[k] >= lastAttempt
    BY <1>1, <1>2, <1>3, <2>1 DEF DocumentInv, TrueSince
  <2>. QED
    BY <1>2, <1>3, <2>1, <2>2
<1>4. ASSUME lock # NoOne, NEW document \in wire, "unknown" = LookUp(k, document)
      PROVE  now - since[k] <= FetchTimeout
  <2>1. k \notin document
    BY <1>4 DEF LookUp
  <2>2. since[k] >= lastAttempt /\ now - lastAttempt <= FetchTimeout
    BY <1>1, <1>2, <1>4, <2>1 DEF DocumentInv, LockInv, TrueSince
  <2>. QED
    BY <1>2, <2>2
<1>. QED
  BY <1>3, <1>4 DEF AnsweredFrom

LEMMA KeyIsTrue ==
  ASSUME ClientInv, NEW k \in Kids, k \notin published, AnsweredFrom(k, "key")
  PROVE  /\ k \in CognitoKids
         /\ \/ now - since[k] < TTL + FetchTimeout
            \/ failed' /\ now - lastAttempt' < MinInterval
<1>1. TypeOK /\ LockInv /\ DocumentInv
  BY DEF ClientInv
<1>2. /\ now \in Nat /\ lastAttempt \in Int /\ fetchedAt \in Int
      /\ MinInterval \in Nat \ {0} /\ FetchTimeout \in Nat /\ TTL \in Nat /\ MinInterval <= TTL
      /\ \A j \in CognitoKids : since[j] \in Nat
  BY <1>1, JwksAssumption DEF TypeOK, Never
<1>3. ASSUME k \in cache, fetchedAt # Never
      PROVE  k \in CognitoKids /\ since[k] >= fetchedAt - FetchTimeout
  BY <1>1, <1>3 DEF TypeOK, DocumentInv, TrueSince
<1>4. CASE HasFreshKey(k)
  <2>1. k \in cache /\ fetchedAt # Never /\ now - fetchedAt < TTL
    BY <1>4 DEF HasFreshKey, IsFresh
  <2>. QED
    BY <1>2, <1>3, <2>1
<1>5. CASE /\ lock = NoOne /\ ~HasFreshKey(k) /\ ~CanRefresh /\ "key" = ThrottledAnswer(k)
           /\ failed' = failed /\ lastAttempt' = lastAttempt
  <2>1. /\ k \in cache /\ fetchedAt # Never /\ now - lastAttempt < MinInterval
        /\ ~(now - fetchedAt < TTL)
    BY <1>2, <1>5 DEF ThrottledAnswer, LookUp, CanRefresh, HasFreshKey, IsFresh
  <2>2. ~(lastAttempt <= fetchedAt)
    BY <1>2, <2>1
  <2>3. failed
    BY <1>1, <1>5, <2>1, <2>2 DEF DocumentInv
  <2>. QED
    BY <1>3, <1>5, <2>1, <2>3
<1>6. ASSUME lock # NoOne, NEW document \in wire, "key" = LookUp(k, document)
      PROVE  k \in CognitoKids /\ now - since[k] < TTL + FetchTimeout
  <2>1. k \in document
    BY <1>6 DEF LookUp
  <2>2. k \in CognitoKids
    BY <1>1, <2>1 DEF TypeOK
  <2>3. since[k] >= lastAttempt /\ now - lastAttempt <= FetchTimeout
    BY <1>1, <1>6, <2>1, <2>2 DEF DocumentInv, LockInv, TrueSince
  <2>. QED
    BY <1>2, <2>2, <2>3
<1>. QED
  BY <1>4, <1>5, <1>6 DEF AnsweredFrom

(* Key rotation logs nobody out.                                           *)
THEOREM RotationIsHarmless == HttpSpec => RotationLogsNobodyOut
<1>1. ASSUME HttpInv, [HttpNext]_httpVars, NEW r \in Requests,
             ToldItsTokenIsBad(r), http'[r].flawless, calls'[r].kid \in published
      PROVE  \/ failed'
             \/ now - since[calls'[r].kid] < MinInterval
             \/ now - since[calls'[r].kid] <= FetchTimeout
  <2>1. ClientInv /\ GetKeyStep(r) /\ calls'[r].pc = "done" /\ calls'[r].answer = "unknown"
    BY <1>1, WhoTells DEF Refused, HttpInv
  <2>2. calls'[r].kid \in Kids /\ AnsweredFrom(calls'[r].kid, "unknown")
    BY <2>1, GetKeyAnswered
  <2>. QED
    BY <1>1, <2>1, <2>2, UnknownIsTrue
<1>2. HttpInv /\ [HttpNext]_httpVars =>
        [\A r \in Requests :
           (/\ ToldItsTokenIsBad(r) /\ http'[r].flawless
            /\ calls'[r].kid \in published) =>
              \/ failed'
              \/ now - since[calls'[r].kid] < MinInterval
              \/ now - since[calls'[r].kid] <= FetchTimeout]_httpVars
  BY <1>1
<1>. QED
  BY <1>2, HttpInvariant, PTL DEF HttpSpec, RotationLogsNobodyOut

(* A withdrawn key is forgotten within a TTL and the length of a fetch,    *)
(* but for the throttle window of a failed refresh.                        *)
THEOREM RevocationTakesEffect == HttpSpec => WithdrawnKeysForgotten
<1>1. ASSUME HttpInv, [HttpNext]_httpVars, NEW r \in Requests,
             http[r].at # "identity", http'[r].at = "identity",
             calls'[r].kid \notin published
      PROVE  \/ now - since[calls'[r].kid] < TTL + FetchTimeout
             \/ failed' /\ now - lastAttempt' < MinInterval
  <2>1. ClientInv /\ GetKeyStep(r) /\ calls'[r].pc = "done" /\ calls'[r].answer = "key"
    BY <1>1, WhoTells DEF Admitted, HttpInv
  <2>2. calls'[r].kid \in Kids /\ AnsweredFrom(calls'[r].kid, "key")
    BY <2>1, GetKeyAnswered
  <2>. QED
    BY <1>1, <2>1, <2>2, KeyIsTrue
<1>2. HttpInv /\ [HttpNext]_httpVars =>
        [\A r \in Requests :
           (/\ http[r].at # "identity" /\ http'[r].at = "identity"
            /\ calls'[r].kid \notin published) =>
              \/ now - since[calls'[r].kid] < TTL + FetchTimeout
              \/ failed' /\ now - lastAttempt' < MinInterval]_httpVars
  BY <1>1
<1>. QED
  BY <1>2, HttpInvariant, PTL DEF HttpSpec, WithdrawnKeysForgotten

=============================================================================
