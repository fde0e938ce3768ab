CONSTANTS
  Path <- MCPath
  Covers <- OwnPath
  Source <- MCPrices
  MaxValue = 2
  Report <- PriceReport
  Patient = FALSE
  Predicated = "gt"
  Filter <- MCFilter
  MaxFaults = 1
  MaxCrashes = 1
  Garbage = Garbage
  None = None
SPECIFICATION Spec
INVARIANTS TypeOK RelatedAgree
CHECK_DEADLOCK FALSE
