CONSTANTS
  Path <- MCPath
  Covers <- OwnPath
  Source <- MCSteady
  MaxValue = 2
  Report <- SteadyReport
  Patient = TRUE
  Predicated = "eq"
  Filter <- OneFilter
  MaxFaults = 0
  MaxCrashes = 0
  Garbage = Garbage
  None = None
SPECIFICATION Spec
INVARIANT EventBeforePredicate
PROPERTIES FeedAnnounced PredicatesSettled
CHECK_DEADLOCK FALSE
