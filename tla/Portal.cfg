SPECIFICATION Spec
CONSTANTS
  Folders = {1, 2, 3}
  Articles = {1, 2, 3, 4}
  PruneCases <- SomePrunes
  PruneFaults = 1
  PruneEdits = 1
  Processes = {"p", "q"}
  Requests = {"r1", "r3"}
  ProcessOf <- TwoProcesses
  Lifetime = 2
  Skew = 1
  Buffer = 1
  MaxAttempts = 2
  MaxClock = 2
  MaxRevocations = 1
  MaxBreaks = 1
  Walks <- SomeWalks
  WalkRoot = 0
  Limit = 2
  WalkFaults = 1
INVARIANTS
  PruneIsHonest
PROPERTIES
  PruneEnds
  UnauthorizedMeansRevoked
  ImplementsOutcome
  WalkCompletes
CHECK_DEADLOCK FALSE
