---------------------------- MODULE RateLimiter ----------------------------
(***************************************************************************)
(* build_rate_limiter of ratelimit.py: a process has one limiter for its   *)
(* life, the Redis one if a client is configured, else the in-process one. *)
(* The other stays as it was made.                                         *)
(***************************************************************************)
EXTENDS InMemoryLimiter, RedisLimiter

VARIABLE limiter       \* which one the settings have picked

limiterVars == <<limiter, vars, redisVars>>

LimiterInit ==
  /\ limiter \in {"memory", "redis"}
  /\ Init
  /\ RedisInit

LimiterNext ==
  \/ limiter = "memory" /\ Next /\ UNCHANGED <<limiter, redisVars>>
  \/ limiter = "redis" /\ RedisNext /\ UNCHANGED <<limiter, vars>>

LimiterSpec == LimiterInit /\ [][LimiterNext]_limiterVars

=============================================================================
