SPECIFICATION Spec
CONSTANTS
  c1 = c1
  c2 = c2
  main = main
  impl = impl
  x = x
  none = none
  Callers <- MCCallers
  Branches <- MCBranches
  Base = main
  PathOrder <- OnePath
  Patch <- MCPatch
  Contents <- MCContents
  NoFile = none
  PerPage = 1
  DiffCap = 1
  MaxPrs = 1
  Repos <- MCRepos
INVARIANT ChecksAreReported
CHECK_DEADLOCK FALSE
