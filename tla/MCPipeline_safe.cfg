SPECIFICATION PhasesSpec
CONSTANTS
  n1 = n1
  n2 = n2
  Routers <- TwoRouters
  VALIDATOR_RUNTIMES <- TwoValidators
  RequestKinds = {"issue", "programmatic"}
  TriageOutcomes = {"proceed", "research", "decline"}
  Verdicts = {"request_changes", "approve"}
  Budget <- PrWorld
  MAX_REVISIONS = 1
  REVISION_COUNT_LIMIT = 16
  Lag = 4
  MaxInFlight = 2
  MaxEvents = 10
INVARIANTS
  TypeOK
  NoLostWakeup
  StagesInOrder
  VerdictIsMet
CHECK_DEADLOCK FALSE
SYMMETRY RouterSymmetry
