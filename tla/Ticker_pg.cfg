CONSTANTS
  Daemon <- MCOne
  Interval = 2
  LookAhead = 2
  InitialTime = 1
  Predicates <- MCPredicate
  Backend = "Postgres"
  MaxTime = 3
  MaxFaults = 1
  MaxCrashes = 1
  QueriesFail = TRUE
  Addable <- MCBetween
  None = None
SPECIFICATION Spec
INVARIANTS TypeOK Unbroken InOrder NotEarly PredicatesInTime
PROPERTIES   PredicatesFollow
CHECK_DEADLOCK FALSE
