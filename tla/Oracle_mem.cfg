CONSTANTS
  Caller <- MemCaller
  Attester <- MemCaller
  Event <- MCEvent
  Nonceless <- MCNonceless
  Outcome <- MCOutcome
  Report <- MixedReport
  Seed <- MCSeed
  SeedOf <- MemSeedOf
  Backend = "InMemory"
  CanCrash = TRUE
  None = None
SPECIFICATION Spec
 
PROPERTY AttestationFinal
