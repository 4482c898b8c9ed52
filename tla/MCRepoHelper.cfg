SPECIFICATION Spec
CONSTANTS
  writer = writer
  reader = reader
  main = main
  impl = impl
  x = x
  none = none
  Callers <- MCCallers
  Branches <- MCBranches
  Base = main
  PathOrder <- ThreePaths
  Patch <- MCPatch
  Contents <- MCContents
  NoFile = none
  PerPage = 1
  DiffCap = 2
  MaxPrs = 1
  Repos <- MCRepos
  Requests <- MCRequests
  Bounds <- MCBounds
INVARIANTS
  CheckStateIsTrue
  NothingCutSilently
PROPERTIES
  BranchesOnlyGrow
  CommitsTouchOnlyTheirFiles
CHECK_DEADLOCK FALSE
