CONSTANTS
  Requests = {r1, r2}
  Kids = {k1, ghost}
  CognitoKids = {k1}
  TTL = 2
  MinInterval = 2
  FetchTimeout = 2
  Horizon = 4
  NoOne = NoOne
  QuietRoutes = {"health"}
SPECIFICATION HttpSpec
INVARIANT HttpTypeOK
INVARIANT OutageIsNotTheTokensFault
INVARIANT AccessLineTrue
PROPERTY AttemptsSpaced
PROPERTY RotationLogsNobodyOut
PROPERTY WithdrawnKeysForgotten
PROPERTY EveryRequestAnswered
