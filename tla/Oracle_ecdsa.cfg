CONSTANTS
  Caller <- MemCaller
  Attester <- MemCaller
  Event <- MCEvent
  Nonceless <- MCNonceless
  Outcome <- MCOutcome
  Report <- AnyReport
  Seed <- MCSeed
  SeedOf <- MemSeedOf
  Backend = "InMemory"
  CanCrash = FALSE
  None = None
SPECIFICATION Spec
INVARIANT EcdsaVerifies
