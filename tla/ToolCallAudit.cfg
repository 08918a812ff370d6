CONSTANTS
  Calls = {c1, c2}
  MaxPending = 1
SPECIFICATION Spec
INVARIANT EveryForwardedCallAudited
CHECK_DEADLOCK FALSE
