SPECIFICATION FairSpec
CONSTANTS
  TaskId = {t1, t2, t3}
  start = start
  delete = delete
  gc = gc
  wa = wa
  NoWorktree = NoWorktree
  Kind <- MCKind
  Worktree <- MCWorktree
  Request <- MCRequest
  MaxTasks = 2
  MaxTaskLogs = 1
  Stream = {s1}
INVARIANTS
  TypeOK
  ListedExclusion
  CancelDecides
  AbortReachesActive
  NoLostUpdate
PROPERTIES
  OutcomeIsShown
  ImplementsLifecycle
CHECK_DEADLOCK FALSE
