\* Two streams over two directories of up to two entries, two search handles.
SPECIFICATION Spec
CONSTANTS
  Streams = {s1, s2}
  Names = {a, b}
  d1 = d1
  d2 = d2
  Dirs <- MCDirs
  Handles = {h1, h2}
  PathLen <- MCPathLen
  Slack = 8
  MaxChanges = 2
  MaxRewinds = 1
INVARIANTS HandlesOwned EveryEntryOnce
CHECK_DEADLOCK TRUE
