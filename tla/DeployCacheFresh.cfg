SPECIFICATION FairSpec
CONSTANTS
  None = None
  Stale = Stale
  Proc = {p1}
  web = web
  cx = cx
  Module = {web, cx}
  Zips = {cx}
  Worlds <- Unprepared
  Cmds = {"all", "prepare", "module", "update", "clean", "recreate", "start", "env"}
  Attempts = 2
  MaxLaunches <- UnpreparedLaunches
  MaxCommit = 1
PROPERTIES
  DeployAllRebuilds
CHECK_DEADLOCK FALSE
