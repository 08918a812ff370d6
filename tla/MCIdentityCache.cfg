CONSTANTS
  Workers = {w1, w2}
  Requests = {r1, r2}
  Subs = {s1, s2}
  PositiveTTL = 2
  NegativeTTL = 1
  MaxL1 = 1
  MaxDelay = 1
  Horizon = 4
SYMMETRY Symmetry
SPECIFICATION Spec
INVARIANT TypeOK
INVARIANT IdentityAgeBounded
INVARIANT FailureRetried
