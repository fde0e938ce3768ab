CONSTANTS
  Daemon <- MCOne
  Interval = 2
  LookAhead = 3
  InitialTime = 1
  Predicates <- MCNone
  Backend = "Postgres"
  MaxTime = 4
  MaxFaults = 0
  MaxCrashes = 0
  QueriesFail = FALSE
  Addable <- MCTimeless
  None = None
SPECIFICATION Spec
INVARIANT NeverPanics
