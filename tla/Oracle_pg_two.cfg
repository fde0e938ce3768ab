CONSTANTS
  Caller <- PgTwo
  Attester <- PgTwo
  Event <- MCEvent
  Nonceless <- MCNonceless
  Outcome <- MCOutcome
  Report <- AnyReport
  Seed <- MCSeed
  SeedOf <- PgTwoSeed
  Backend = "Postgres"
  CanCrash = FALSE
  None = None
SPECIFICATION Spec
PROPERTY AttestationFinal
