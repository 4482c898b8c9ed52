SPECIFICATION FairSpec
CONSTANTS
  t1 = t1
  t2 = t2
  main = main
  impl = impl
  other = other
  x = x
  y = y
  z = z
  none = none
  Callers <- MCTasks
  Branches <- MCBranches
  Base = main
  PathOrder <- OnePath
  Patch <- MCPatch
  Contents <- MCContents
  NoFile = none
  PerPage = 1
  DiffCap = 1
  MaxPrs = 2
  Repos <- MCRepos
  Impl = impl
  Sessions <- MCSessions
  Payloads <- MCPayloads
  Written <- MCWritten
  MaxTurns <- MCTurns
  Bounds = 1
INVARIANTS
  ReadyIsPushed
  BlockedIsNeverReady
  FailureNamesPr
PROPERTIES
  BranchesOnlyGrow
  EveryTaskEnds
CHECK_DEADLOCK FALSE
