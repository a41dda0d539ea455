SPECIFICATION Spec
CONSTANTS
  Article = {a1, a2}
  Locale = {en, es}
  Empty = Empty
  Edited = Edited
  None = None
  en = en
  es = es
  old = old
  other = other
  new = new
  Field <- MCField
  Mappings <- MCMappings
  Runtimes <- MCRuntimes
  Locals <- MCLocals
  Starts <- MCStarts
  Entered <- MCEntered
  Commands <- MCCommands
  Worlds <- MCWorlds
  Polls = 2
  MaxLaunches <- MCLaunches
SYMMETRY MCSymmetry
INVARIANTS
  TypeOK
  ValuesSurvive
PROPERTIES
  TargetsKept
  ScopeRespected
  ReportsAreTrue
CHECK_DEADLOCK FALSE
