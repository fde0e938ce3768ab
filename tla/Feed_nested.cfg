CONSTANTS
  Path <- MCPath
  Covers <- Below
  Source <- MCNested
  MaxValue = 2
  Report <- NestedReport
  Patient = FALSE
  Predicated = "gt"
  Filter <- OneFilter
  MaxFaults = 0
  MaxCrashes = 0
  Garbage = Garbage
  None = None
SPECIFICATION Spec
INVARIANT RelatedAgree
CHECK_DEADLOCK FALSE
