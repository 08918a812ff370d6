--------------------------- MODULE MCRateLimiter ---------------------------
(* A minute bucket of one token that refills in one tick and an hour       *)
(* bucket of two that takes two ticks each: either one can be the          *)
(* deficient one, and the hashes of both expire before the horizon.        *)
EXTENDS RateLimiter, TLC

MCBuckets == {"minute", "hour"}
MCCap == [b \in MCBuckets |-> IF b = "minute" THEN 1 ELSE 2]
MCPer == [b \in MCBuckets |-> IF b = "minute" THEN 1 ELSE 2]

InStep == [w \in Workers |-> 0]
OneAhead == LET ahead == CHOOSE w \in Workers : TRUE
            IN  [w \in Workers |-> IF w = ahead THEN 1 ELSE 0]

(* Users are alike, and workers where every worker's clock is the same.    *)
Symmetry == Permutations(Keys) \cup Permutations(Workers)

=============================================================================
