SPECIFICATION FairSpec
CONSTANTS
  n1 = n1
  n2 = n2
  Routers <- OneRouter
  VALIDATOR_RUNTIMES <- OneValidator
  RequestKinds = {"programmatic"}
  TriageOutcomes = {"proceed"}
  Verdicts = {"approve"}
  Budget <- OneCrash
  MAX_REVISIONS = 1
  REVISION_COUNT_LIMIT = 16
  Lag = 1
  MaxInFlight = 1
  MaxEvents = 12
PROPERTY ReachesPrOrEnd
CHECK_DEADLOCK FALSE
