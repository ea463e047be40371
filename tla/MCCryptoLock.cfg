\* Two threads race for a lock type and nest it up to twice.  The theorems of
\* CryptoLockProofs hold for any number of threads, types and levels.
SPECIFICATION FairSpec
CONSTANTS
  Threads = {t1, t2}
  Addrs = {a1, a2, a3}
  NULL = NULL
  NumLocks = 1
  MaxDepth = 2
INVARIANTS UsesLiveSection NoLeak
PROPERTIES PublishedStays ImplementsLockTable LockReturns
CHECK_DEADLOCK TRUE
