SPECIFICATION MCSpec
CONSTANTS
  t1 = t1
  t2 = t2
  Tasks <- TwoTasks
  Inputs <- EveryRole
  Versions = {1, 2, 3}
  Body <- ThreeBodies
  MaxIssues = 1
  MaxFaults = 2
INVARIANTS
  OneOutcome
  ReportsAreTrue
  DesignHasPlan
  PostsOnce
  SnapshotIsTheClone
PROPERTIES
  EveryTaskEnds
  RunHearsOfTask
CHECK_DEADLOCK FALSE
