\* One signal in the foreground, SIGTTOU for one.
SPECIFICATION Spec
CONSTANTS
  SigOrder <- MCSigOrder
  Plain <- MCPlain
  StopSigs <- MCStopSigs
  TTIN = "TTIN"
  TTOU = "TTOU"
  InitialDisps <- MCDisps
  FlagSets <- MCNoFlags
  BufSizes = {2}
  TtyFds <- MCTtyFdOpen
  Chars = {"a"}
  SigMax = 1
  BgMax = 0
INVARIANTS EchoBackInForeground
CHECK_DEADLOCK TRUE
