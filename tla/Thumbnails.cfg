CONSTANTS
  Calls = {c1, c2}
  MaxImages = 3
  Concurrency = 2
  MaxFetches = 3
  Workers = 1
  MaxBatches = 3
  Nobody = Nobody
SPECIFICATION Spec
INVARIANT TypeOK
INVARIANT SlotsConserved
INVARIANT PoolConsistent
PROPERTY LandedAreKept
PROPERTY BatchesAnswered
CHECK_DEADLOCK FALSE
