SPECIFICATION Spec
CONSTANTS
  None = None
  Registered <- MCRegistered
  Destructive <- MCDestructive
  ReadOnly <- MCReadOnly
  Inputs <- MCInputs
  Configurations <- MCConfigurations
CHECK_DEADLOCK FALSE
INVARIANTS
  TypeOK
  BootExact
  StaysInChain
  DoneMeansOver
  NoDuplicateWrite
