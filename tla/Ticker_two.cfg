CONSTANTS
  Daemon <- MCTwo
  Interval = 2
  LookAhead = 0
  InitialTime = None
  Predicates <- MCNone
  Backend = "Postgres"
  MaxTime = 2
  MaxFaults = 0
  MaxCrashes = 0
  QueriesFail = FALSE
  Addable <- MCForeign
  None = None
SPECIFICATION Spec
INVARIANT Unbroken
PROPERTIES TicksContinue TicksAttested
CHECK_DEADLOCK FALSE
