SPECIFICATION Spec
CONSTANTS
  Proc = {p1, p2}
  Sites <- MainOnBtrfs
  Commands <- AllCommands
  MaxRuns <- RestoreRuns
INVARIANTS
  RestoreKeepsADatabase
CHECK_DEADLOCK FALSE
