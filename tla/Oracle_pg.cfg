CONSTANTS
  Caller <- PgCaller
  Attester <- OneAttester
  Event <- MCEvent
  Nonceless <- MCNonceless
  Outcome <- MCOutcome
  Report <- AnyReport
  Seed <- MCSeed
  SeedOf <- PgSeedOf
  Backend = "Postgres"
  CanCrash = TRUE
  None = None
SPECIFICATION Spec
INVARIANTS TypeOK PublishedVerifies NonceNeverReused AckedStays AnswersHold
PROPERTIES AttestationFinal ImplementsLedger
