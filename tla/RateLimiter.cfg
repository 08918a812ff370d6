CONSTANTS
  NoState = NoState
  Buckets <- MCBuckets
  Cap <- MCCap
  Per <- MCPer
  Keys = {u1, u2}
  Horizon = 6
  Workers = {w1, w2}
  Offset <- InStep
  MaxOffset = 0
  MaxDelay = 2
  Grace = 1
  ServerHorizon = 5
SYMMETRY Symmetry
SPECIFICATION LimiterSpec
INVARIANT TypeOK
INVARIANT WindowCeiling
PROPERTY ImplementsCeiling
INVARIANT RedisTypeOK
INVARIANT PromptCeiling
PROPERTY RefusedOnlyAtCeiling
