SPECIFICATION Spec
CONSTANTS
  MAX_REVISIONS = 1
  REVISION_COUNT_LIMIT = 2
  Ids <- PrIds
  Kinds <- PrKinds
  BaseLogs <- PrBase
INVARIANTS
  TypeOK
  MarkerSettlesBelowCap
  VerdictSurvivesLateValidators
  LateAdvisoryIsNeutral
  FreshTriggerDispatches
CHECK_DEADLOCK FALSE
