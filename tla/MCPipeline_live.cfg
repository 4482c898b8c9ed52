SPECIFICATION LiveSpec
CONSTANTS
  n1 = n1
  n2 = n2
  Routers <- OneRouter
  VALIDATOR_RUNTIMES <- OneValidator
  RequestKinds = {"issue"}
  TriageOutcomes = {"proceed", "decline"}
  Verdicts = {"request_changes", "approve"}
  Budget <- Calm
  MAX_REVISIONS = 1
  REVISION_COUNT_LIMIT = 16
  Lag = 4
  MaxInFlight = 1
  MaxEvents = 40
PROPERTIES
  ReachesPrOrEnd
  ComesToRest
CHECK_DEADLOCK FALSE
