CONSTANTS
  Calls = {c1, c2}
  MaxImages = 3
  Concurrency = 2
  MaxFetches = 3
  Workers = 1
  MaxBatches = 3
  Nobody = Nobody
SPECIFICATION Spec
INVARIANT BodiesWithinGate
CHECK_DEADLOCK FALSE
