SPECIFICATION Spec
CONSTANTS
  Proc = {p1, p2}
  Worktree = {wa, wb}
  postgres = postgres
  deployCache = deployCache
  Subdirs <- MCSubdirs
  Sites <- SnapshotSites
  Handoffs <- StopOnly
  Ops = {"setup", "start", "clean"}
  Faults = {"git", "start"}
  UserActions = {"stopMain", "stopEnv"}
  OneRunPerWorktree = TRUE
  MaxLaunches = 4
  MaxVersion = 1
SYMMETRY MCSymmetry
INVARIANTS
  OneSnapshot
PROPERTIES
  CleanLeavesNothing
CHECK_DEADLOCK FALSE
