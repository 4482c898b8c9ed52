SPECIFICATION Spec
CONSTANTS
  t1 = t1
  t2 = t2
  main = main
  none = none
  malformed = malformed
  Callers <- MCTasks
  Branches <- MCBranches
  Base = main
  PathOrder <- ThePaths
  Patch <- MCPatch
  Contents <- MCContents
  NoFile = none
  PerPage = 1
  DiffCap = 1
  MaxPrs = 4
  Repos <- MCRepos
  Lessons <- MCLessonSet
  PathOf <- MCPathOf
  SkillPaths <- MCSkillPaths
  Projects <- OneSlug
  SessionOf <- MCSessionOf
  Waiting <- MCWaiting
  BusEvents <- MCBusEvents
  Bullets <- MCBullets
  Malformed = malformed
  BranchFor <- MCBranchFor
  Bounds <- MCBounds
SYMMETRY Symmetry
INVARIANT NoLessonLost
CHECK_DEADLOCK FALSE
