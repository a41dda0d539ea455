SPECIFICATION FairSpec
CONSTANTS
  None = None
  Stale = Stale
  Proc = {p1, p2}
  web = web
  cx = cx
  Module = {web, cx}
  Zips = {cx}
  Worlds <- Worlds3
  Cmds = {"all", "prepare", "module", "update", "clean", "recreate", "start", "env"}
  Attempts = 2
  MaxLaunches <- Launches3
  MaxCommit = 1
INVARIANTS
  TypeOK
  LockExclusive
  CacheHonest
PROPERTIES
  EveryCommandEnds
  WritesUnderLock
  DisciplinedDeployAllRebuilds
CHECK_DEADLOCK FALSE
