SPECIFICATION Spec
CONSTANTS
  c1 = c1
  c2 = c2
  i1 = i1
  Callers <- MCCallers
  Keys <- ThreeKeys
  Request <- RetriedRequests
  Issues <- MCIssues
  Budget <- Faults
INVARIANTS
  OneRunPerKey
  AnswersAreRuns
  RecordsFollowCalls
PROPERTY
  ImplementsOneRun
CHECK_DEADLOCK FALSE
SYMMETRY CallerSymmetry
