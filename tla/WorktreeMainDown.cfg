SPECIFICATION Spec
CONSTANTS
  Proc = {p1}
  Worktree = {wa}
  postgres = postgres
  deployCache = deployCache
  Subdirs <- MCSubdirs
  Sites <- MainDownSites
  Handoffs <- HandOver
  Ops = {"setup"}
  Faults = {"git"}
  UserActions = {"startMain"}
  OneRunPerWorktree = TRUE
  MaxLaunches = 1
  MaxVersion = 0
SYMMETRY MCSymmetry
INVARIANTS
  MainComesBack
CHECK_DEADLOCK FALSE
