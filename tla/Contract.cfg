CONSTANTS
  Width = 3
  Token <- MCToken
  TeamTexts <- MCTeams
  KindTexts <- MCKinds
  Reports <- MCReports
  NumberOf <- MCNumberOf
  Decimal <- MCDecimal
  Directories <- MCDirectories
  Order = 31
  EvenY <- MCEvenY
  AttestKey = 40
  NonceSeed <- MCNonceSeed
  Invalid = Invalid
  Panics = Panics
  None = None
SPECIFICATION ContractSpec
INVARIANTS ContractTypeOK OutcomesParseBack IndexesDecode DerivedIsAccepted PredicateIsTrue
INVARIANTS OpensOnlyAttested AcceptsOnlyAttested DescribedTruly PromisesKept
INVARIANTS PrefixComesOff UrlsAnswered
CHECK_DEADLOCK FALSE
