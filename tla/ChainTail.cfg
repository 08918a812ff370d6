SPECIFICATION Spec
CONSTANTS
  None = None
  Registered <- MCRegistered
  Destructive <- MCDestructive
  ReadOnly <- MCReadOnly
  Inputs <- MCInputs
  Configurations <- MCConfigurations
CHECK_DEADLOCK FALSE
INVARIANT
  IdempotentForEveryCandidate
