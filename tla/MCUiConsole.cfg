\* Two threads, one session each, over a console, a pipe or no input.
SPECIFICATION FairSpec
CONSTANTS
  Threads = {t1, t2}
  Kinds = {"console", "nul", "pipe", "none"}
  Inputs <- MCInputs
  Scripts <- MCScripts
  BUFSIZ = 4
  MaxSessions = 1
INVARIANTS HiddenWhileReading EchoRestored
PROPERTIES OneLineEach OpenReturns
\* The threads stop after their sessions.
CHECK_DEADLOCK FALSE
