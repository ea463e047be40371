\* Standard input alone.
SPECIFICATION Spec
CONSTANTS
  s1 = s1
  h1 = h1
  con = con
  neg = neg
  bad = bad
  NULL = NULL
  Sockets <- MCSockets
  Handles <- MCHandles
  Console = con
  Closed <- MCClosed
  Skipped <- MCSkipped
  PollSets <- MCHandleSets
  Timeouts <- MCLoopTimeouts
  FD_SETSIZE = 2
  LoopCap = 2
  IntMax = 6
  SelectErrors = {}
  EnvMax = 3
INVARIANTS NeverSelectsNothing
CHECK_DEADLOCK TRUE
