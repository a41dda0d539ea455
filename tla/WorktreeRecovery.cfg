SPECIFICATION Spec
CONSTANTS
  Proc = {p1, p2}
  Worktree = {wa}
  postgres = postgres
  deployCache = deployCache
  Subdirs <- MCSubdirs
  Sites <- RecoverySites
  Handoffs <- RestartOnly
  Ops = {"setup", "start", "clean", "gc", "refresh"}
  Faults = {"crash", "git", "copy", "remove", "docker"}
  UserActions = {"startMain", "edit"}
  OneRunPerWorktree = FALSE
  MaxLaunches = 4
  MaxVersion = 0
SYMMETRY MCSymmetry
INVARIANTS
  TypeOK
  HandoffRestored
  FreshIncarnation
PROPERTIES
  RefusalMeansGone
CHECK_DEADLOCK FALSE
