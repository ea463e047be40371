\* Every mix of descriptors, timeouts around the length of a pass, three
\* kernel events, select() failing by itself.
SPECIFICATION FairSpec
CONSTANTS
  s1 = s1
  h1 = h1
  con = con
  neg = neg
  bad = bad
  NULL = NULL
  Sockets <- MCSockets
  Handles <- MCHandles
  Console = con
  Closed <- MCClosed
  Skipped <- MCSkipped
  PollSets <- MCPollSets
  Timeouts <- MCTimeouts
  FD_SETSIZE = 2
  LoopCap = 2
  IntMax = 6
  SelectErrors = {"WSAENETDOWN", "WSAEINTR"}
  EnvMax = 2
INVARIANTS WaitsExactly AnswersTrue
PROPERTIES PollReturns KeyReported
CHECK_DEADLOCK TRUE
