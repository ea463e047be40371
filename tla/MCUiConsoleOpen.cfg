\* Standard input is the NUL device, or there is none.
SPECIFICATION FairSpec
CONSTANTS
  Threads = {t1, t2}
  Kinds = {"nul", "none"}
  Inputs <- MCInputs
  Scripts <- MCScripts
  BUFSIZ = 4
  MaxSessions = 1
INVARIANTS FailedOpenUnlocks
CHECK_DEADLOCK FALSE
