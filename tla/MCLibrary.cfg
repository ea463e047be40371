\* Red-black trees of up to nine elements, splay trees of up to six, two lists of each
\* kind over four elements; two open files of up to two bytes, one of them tagged by
\* posix_open; three threads with up to two references each; three alarms of two lapses; a
\* connection whose request is longer than an int can say twice over; records in up to nine
\* characters, whose buffer is doubled from 4 until its size would pass SIZE_MAX; strings
\* around INIT_SZ and LEN_MAX; bytes 0 and 1.
SPECIFICATION MCSpec
CONSTANTS
  RBNodes = {1, 2, 3, 4, 5, 6, 7, 8, 9, 10}
  SplayNodes = {1, 2, 3, 4, 5, 6, 7}
  Heads = {h1, h2}
  Elements = {n1, n2, n3, n4}
  HDR = HDR
  NIL = NIL
  Threads = {t1}
  Fds = {3, 4}
  Bytes = {0, 1}
  Errors = {"EIO", "EBADF"}
  MaxLen = 2
  Tagged = {4}
  Holders = {r1, r2, r3}
  MaxRefs = 2
  MaxAlarms = 3
  Lapses = {1, 2}
  INT_MAX = 3
  Request = 9
  Answer = 2
  Buffer = 2
  Causes = {"WSAECONNREFUSED", "WSAECONNRESET", "WSAENETUNREACH"}
  SIZE_MAX = 15
  BUFSIZ = 4
  MaxInput = 9
  INIT_SZ = 4
  LEN_MAX = 9
INVARIANTS RedBlackTree SearchTree RepresentsLists BuffersExact WireAgrees
  DestroyedByLast AlarmOwn ViewTrue
PROPERTIES ImplementsPositioned MeasurementEnds ConnectionEnds
CHECK_DEADLOCK TRUE
