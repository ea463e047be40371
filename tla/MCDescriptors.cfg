\* A table of seven files, sockets numbered within and beyond it, two calls of socketpair.
SPECIFICATION FairSpec
CONSTANTS
  High = 16
  Slots = 7
  Handles = {3, 4, 5, 8}
  MaxFiles = 1
  MaxCalls = 2
INVARIANTS NothingLost NumbersReserved
PROPERTIES PairReturns
CHECK_DEADLOCK TRUE
