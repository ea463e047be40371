\* Three threads share a static mutex and one that pthread_once initialises.
SPECIFICATION Spec
CONSTANTS
  Threads = {t1, t2, t3}
  Addrs = {a1, a2, a3, a4}
  NULL = NULL
  Statics = {s}
  Dynamics = {d}
  MaxDepth = 1
INVARIANTS UsesLiveSection NoLeak
PROPERTIES ImplementsLockTable
CHECK_DEADLOCK TRUE
