\* The caller has closed standard input: open returns 0.
SPECIFICATION Spec
CONSTANTS
  SigOrder <- MCSigOrder
  Plain <- MCPlain
  StopSigs <- MCStopSigs
  TTIN = "TTIN"
  TTOU = "TTOU"
  InitialDisps <- MCDisps
  FlagSets <- MCNoFlags
  BufSizes = {2}
  TtyFds <- MCTtyFdZero
  Chars = {"a"}
  SigMax = 0
  BgMax = 0
INVARIANTS EchoOffWhileReading
CHECK_DEADLOCK TRUE
