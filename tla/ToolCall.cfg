CONSTANTS
  Calls = {c1, c2}
  MaxPending = 1
SPECIFICATION Spec
INVARIANT TypeOK
INVARIANT AuditedOnce
PROPERTY ShutdownCompletes
PROPERTY ShutdownFlushes
CHECK_DEADLOCK FALSE
