SPECIFICATION FairSpec
CONSTANTS
  r1 = r1
  Runs <- MCRuns
  Envelope <- MCEnvelope
  Copies <- MCCopies
  MAX_ATTEMPTS = 2
INVARIANTS
  TypeOK
  NoDuplicateRows
  GuardsMatchRows
  MemoryFollowsRows
  NothingLost
  SummaryMatchesRows
PROPERTIES
  ImplementsEventLog
  EventuallySettled
CHECK_DEADLOCK FALSE
