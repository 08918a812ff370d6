---------------------------- MODULE RateCeiling ----------------------------
(***************************************************************************)
(* What a per-user rate limiter promises, with no bucket in sight: a call  *)
(* is allowed exactly when it keeps the user under every ceiling in every  *)
(* window that ends now, and a refused caller is told the first moment at  *)
(* which the call could succeed.  (ratelimit.py: "a call is allowed only   *)
(* if it fits under both"; "retry_after is seconds until a retry could     *)
(* succeed".)                                                              *)
(*                                                                         *)
(* used[k][m] counts the calls of user k allowed at or after time m.       *)
(***************************************************************************)
EXTENDS TokenBucket

CONSTANTS Keys,     \* users, by their sub
          Horizon   \* the clock stops here

VARIABLES now, used, verdict

ceilingVars == <<now, used, verdict>>

Times == 0 .. Horizon

(* A ceiling of Cap[b] tokens refilling one per Per[b] ticks admits, in a  *)
(* window of length d, at most Cap[b] + d / Per[b] calls.                  *)
WithinCeiling(n, b, d) == n * Per[b] <= Full(b) + d

(* Would one more call of k at time t (now or later) respect every window  *)
(* that is open now?                                                       *)
Fits(k, t) ==
  \A b \in Buckets : \A m \in 0 .. now :
     WithinCeiling(used[k][m] + 1, b, t - m)

CountCall(k) ==
  [used EXCEPT ![k] = [m \in Times |-> used[k][m] + (IF m <= now THEN 1 ELSE 0)]]

CeilingInit ==
  /\ now = 0
  /\ used = [k \in Keys |-> [m \in Times |-> 0]]
  /\ verdict = [k \in Keys |-> [allowed |-> TRUE, retry |-> 0]]

Allow(k) ==
  /\ Fits(k, now)
  /\ used' = CountCall(k)
  /\ verdict' = [verdict EXCEPT ![k] = [allowed |-> TRUE, retry |-> 0]]
  /\ UNCHANGED now

(* A refusal never asks for longer than one token takes to refill.         *)
Refuse(k) ==
  /\ ~Fits(k, now)
  /\ \E b \in Buckets : \E d \in 1 .. Per[b] :
       /\ Fits(k, now + d)
       /\ ~Fits(k, now + d - 1)
       /\ verdict' = [verdict EXCEPT ![k] = [allowed |-> FALSE, retry |-> d]]
  /\ UNCHANGED <<now, used>>

PassTime ==
  /\ now < Horizon
  /\ now' = now + 1
  /\ UNCHANGED <<used, verdict>>

CeilingNext == PassTime \/ \E k \in Keys : Allow(k) \/ Refuse(k)

CeilingSpec == CeilingInit /\ [][CeilingNext]_ceilingVars

(* No user is ever over a ceiling, whatever the window.                    *)
WindowCeiling ==
  \A k \in Keys, b \in Buckets : \A m \in 0 .. now :
     WithinCeiling(used[k][m], b, now - m)

=============================================================================
