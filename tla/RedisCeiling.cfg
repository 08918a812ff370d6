CONSTANTS
  NoState = NoState
  Buckets <- MCBuckets
  Cap <- MCCap
  Per <- MCPer
  Keys = {u1, u2}
  Horizon = 6
  Workers = {w1, w2}
  Offset <- OneAhead
  MaxOffset = 1
  MaxDelay = 0
  Grace = 1
  ServerHorizon = 6
SPECIFICATION LimiterSpec
INVARIANT ClusterCeiling
