SPECIFICATION Spec
CONSTANTS
  Proc = {p1, p2}
  Sites <- AllSites
  Commands <- AllCommands
  MaxRuns <- MCMaxRuns
SYMMETRY MCSymmetry
INVARIANTS
  TypeOK
  CanceledStartLeavesNothing
  SuccessMeansDone
PROPERTIES
  OnlyForceReplaces
CHECK_DEADLOCK FALSE
