------------------------------ MODULE Asprintf ------------------------------
(***************************************************************************)
(* crypto/compat/bsd-asprintf.c: a string of the length its format needs.  *)
(*                                                                         *)
(* vasprintf() formats into INIT_SZ bytes and, when that was too small,    *)
(* again into as many as the first attempt asked for.  A string is its     *)
(* length; what vsnprintf() (external) asks for may change between the two *)
(* attempts, as the arguments may point at memory that others write.       *)
(***************************************************************************)
EXTENDS Integers

CONSTANTS INIT_SZ, INT_MAX

\* What is assumed of the constants.
AsprintfAssumption == INIT_SZ \in Nat \ {0} /\ INT_MAX \in Nat /\ INIT_SZ < INT_MAX

VARIABLES pc,      \* start, first, larger, second, done
          string,  \* the allocation: its size and the characters before its NUL
          str,     \* *str
          live,    \* allocations that exist
          ret, errno

vars == <<pc, string, str, live, ret, errno>>

None == [size |-> 0, text |-> 0]

TypeOK ==
  /\ pc \in {"start", "first", "larger", "second", "done"}
  /\ string \in [size : 0 .. INT_MAX + 1, text : Nat] /\ str \in [size : 0 .. INT_MAX + 1, text : Nat]
  /\ live \in Nat /\ ret \in -1 .. INT_MAX /\ errno \in {"none", "ENOMEM"}

\* asprintf() has stored NULL.
Init == pc = "start" /\ string = None /\ str = None /\ live = 0 /\ ret = 0 /\ errno = "none"

Goto(from, to) == pc = from /\ pc' = to

\* fail: *str = NULL; errno = ENOMEM; return (-1)
Fail(from) == Goto(from, "done") /\ str' = None /\ errno' = "ENOMEM" /\ ret' = -1

\* vsnprintf(s, size, ...) that needs r characters
Formatted(size, r) == [size |-> size, text |-> IF r < size THEN r ELSE size - 1]

Allocate ==
  \/ /\ Goto("start", "first") /\ string' = [None EXCEPT !.size = INIT_SZ] /\ live' = live + 1
     /\ UNCHANGED <<str, ret, errno>>
  \/ Fail("start") /\ UNCHANGED <<string, live>>

\* A mutation: a string that just fills the buffer is taken to fit.
FitsExactly(r) == r >= 0 /\ r <= INIT_SZ

Fits(r) == r >= 0 /\ r < INIT_SZ

FirstAttempt ==
  \E r \in -1 .. INT_MAX :
    \/ /\ Fits(r) /\ Goto("first", "done")
       /\ string' = Formatted(string.size, r) /\ str' = string' /\ ret' = r
       /\ UNCHANGED <<live, errno>>
    \/ /\ ~Fits(r) /\ (r = INT_MAX \/ r < 0)
       /\ Fail("first") /\ live' = live - 1 /\ UNCHANGED string
    \/ /\ ~Fits(r) /\ r # INT_MAX /\ r >= 0 /\ Goto("first", "larger")
       /\ string' = Formatted(string.size, r) /\ ret' = r
       /\ UNCHANGED <<str, live, errno>>

\* realloc(string, ret + 1); a failure leaves the old block, which is freed.
Reallocate ==
  \/ /\ Goto("larger", "second") /\ string' = [string EXCEPT !.size = ret + 1]
     /\ UNCHANGED <<str, live, ret, errno>>
  \/ Fail("larger") /\ live' = live - 1 /\ UNCHANGED string

SecondAttempt ==
  \E r \in -1 .. INT_MAX :
    \/ /\ r < 0 \/ r >= string.size
       /\ Fail("second") /\ live' = live - 1 /\ UNCHANGED string
    \/ /\ r >= 0 /\ r < string.size /\ Goto("second", "done")
       /\ string' = Formatted(string.size, r) /\ str' = string' /\ ret' = r
       /\ UNCHANGED <<live, errno>>

\* The caller frees what it got and asks again.
Again ==
  /\ Goto("done", "start") /\ live' = live - (IF str = None THEN 0 ELSE 1)
  /\ string' = None /\ str' = None /\ ret' = 0 /\ errno' = "none"

Next == Allocate \/ FirstAttempt \/ Reallocate \/ SecondAttempt \/ Again

Spec == Init /\ [][Next]_vars

-----------------------------------------------------------------------------
(***************************************************************************)
(* vasprintf gives the whole string or nothing: a result of n comes with   *)
(* n characters and their NUL inside the allocation, -1 with NULL, ENOMEM  *)
(* and no memory left behind, whichever call failed.                       *)
(***************************************************************************)
WholeOrNothing ==
  /\ TypeOK
  /\ pc = "done" =>
       IF ret = -1 THEN str = None /\ live = 0 /\ errno = "ENOMEM"
       ELSE live = 1 /\ str.text = ret /\ ret < str.size

=============================================================================
