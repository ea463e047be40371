\* readpassphrase(): two signals at any step, one move to the background.  getopt: every mode
\* on up to two arguments of every shape, every function on three, and blocks of every length
\* among five arguments; the program may start over once.
SPECIFICATION LibcSpec
CONSTANTS
  SigOrder <- MCSigOrder
  Plain <- MCPlain
  StopSigs <- MCStopSigs
  TTIN = "TTIN"
  TTOU = "TTOU"
  InitialDisps <- MCDisps
  FlagSets <- MCFlags
  BufSizes = {0, 2}
  TtyFds <- MCTtyFds
  Chars = {"hA"}
  SigMax = 2
  BgMax = 1
  Inputs <- MCInputs
  ShortOptions <- MCShort
  LongOptions <- MCLong
  MaxResets = 1
INVARIANTS DispositionsRestored EchoRestored ProtectedWhilePrompting NoSignalLost
  StablePartition ArgFollowsOption
PROPERTIES CallEnds Terminates
CHECK_DEADLOCK TRUE
