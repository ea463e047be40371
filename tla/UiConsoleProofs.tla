--------------------------- MODULE UiConsoleProofs ---------------------------
(***************************************************************************)
(* Proofs about the console of crypto/compat/ui_openssl_win.c, for any     *)
(* number of threads and any sessions: what each thread does to the echo   *)
(* and to the static console_mode is right because CRYPTO_LOCK_UI is held  *)
(* from open_console to close_console.                                     *)
(***************************************************************************)
EXTENDS UiConsole, SequenceTheorems, WellFoundedInduction, TLAPS

\* The variables the argument is about; what the strings and answers are does not matter.
ModeTypeOK ==
  /\ original \in BOOLEAN /\ echo \in BOOLEAN /\ console_mode \in BOOLEAN /\ setFailed \in BOOLEAN
  /\ held \in [Threads -> [{"UI"} -> Nat]]
  /\ pc \in [Threads -> {"idle", "open", "failed", "write", "string", "read", "restore", "close"}]
  /\ script \in [Threads -> Scripts \cup {<<>>}] /\ i \in [Threads -> Nat]

Reading(t) == pc[t] \in {"read", "restore"}
InSession(t) == pc[t] \in {"write", "string", "read", "restore"}

\* Between open_console and close_console a thread has CRYPTO_LOCK_UI, and so no other.
LockInv ==
  /\ \A t \in Threads : pc[t] \notin {"idle", "open"} => held[t]["UI"] > 0
  /\ \A t, u \in Threads : held[t]["UI"] > 0 /\ held[u]["UI"] > 0 => t = u

\* The echo is as the program found it, except while a hidden answer is read; and what the
\* session will put back is what the program found.
ModeInv ==
  /\ \A t \in Threads : InSession(t) => stdin \in {"console", "pipe"}
  /\ \A t \in Threads : Reading(t) /\ stdin = "console" /\ ~Cur(t).echo => ~echo
  /\ ~setFailed =>
       /\ \A t \in Threads : InSession(t) /\ stdin = "console" => console_mode = original
       /\ \A t \in Threads : Reading(t) /\ (stdin = "pipe" \/ Cur(t).echo) => echo = original
       /\ (\A t \in Threads : ~Reading(t)) => echo = original

IInv == ModeTypeOK /\ LockInv /\ ModeInv

-----------------------------------------------------------------------------
\* The initial state satisfies the invariant.
LEMMA InitIInv == Init => IInv
  <1> SUFFICES ASSUME Init PROVE IInv
    OBVIOUS
  <1>1. held = [t \in Threads |-> [k \in {"UI"} |-> 0]]
    BY DEF Init, Lock!Init
  <1>2. ModeTypeOK
    BY <1>1 DEF Init, ModeTypeOK
  <1>3. LockInv
    BY <1>1 DEF Init, LockInv
  <1>4. ModeInv
    BY DEF Init, ModeInv, InSession, Reading
  <1> QED
    BY <1>2, <1>3, <1>4 DEF IInv

\* A step of t leaves the strings of the other threads alone.
LEMMA CurFrame ==
  ASSUME NEW t \in Threads,
         \A u \in Threads \ {t} : script'[u] = script[u] /\ i'[u] = i[u]
  PROVE  \A u \in Threads \ {t} : Cur(u)' = Cur(u)
  BY DEF Cur

\* A thread in a session is the only one.
LEMMA Alone ==
  ASSUME LockInv, NEW t \in Threads, held[t]["UI"] > 0
  PROVE  \A u \in Threads \ {t} : pc[u] \in {"idle", "open"}
  BY DEF LockInv

\* A new session: its strings are set before it is opened.
LEMMA UI_processIInv ==
  ASSUME IInv, NEW t \in Threads, UI_process(t)
  PROVE  IInv'
  <1> USE DEF IInv, UI_process, Goto, console
  <1>1. ModeTypeOK'
    BY DEF ModeTypeOK
  <1>2. LockInv'
    BY DEF ModeTypeOK, LockInv
  <1>3. ModeInv'
    <2>1. \A u \in Threads \ {t} : Cur(u)' = Cur(u)
      BY CurFrame DEF ModeTypeOK
    <2> QED
      BY <2>1 DEF ModeTypeOK, ModeInv, InSession, Reading
  <1> QED
    BY <1>1, <1>2, <1>3

\* The lock is taken: no thread is reading, and the mode that is kept is the program's.
LEMMA open_consoleIInv ==
  ASSUME IInv, NEW t \in Threads, open_console(t)
  PROVE  IInv'
  <1> USE DEF IInv
  <1>1. /\ pc[t] = "open"
        /\ \/ pc' = [pc EXCEPT ![t] = "write"] /\ stdin \in {"console", "pipe"}
           \/ pc' = [pc EXCEPT ![t] = "failed"]
        /\ stdin = "console" /\ pc'[t] = "write" => console_mode' = echo
        /\ console_mode' \in {console_mode, echo}
        /\ UNCHANGED <<stdin, original, setFailed, echo, script, i>>
    BY DEF open_console, Goto, console, local, ModeTypeOK
  <1>2. /\ \A u \in Threads \ {t} : held[u]["UI"] = 0
        /\ held' = [held EXCEPT ![t]["UI"] = @ + 1]
    BY DEF open_console, LockUI, Lock!Acquire
  <1>3. /\ held'[t]["UI"] = held[t]["UI"] + 1 /\ held[t]["UI"] \in Nat
        /\ \A u \in Threads \ {t} : held'[u]["UI"] = 0
        /\ held' \in [Threads -> [{"UI"} -> Nat]]
    BY <1>2 DEF ModeTypeOK
  <1>4. \A u \in Threads : ~Reading(u) /\ ~Reading(u)'
    <2>1. \A u \in Threads \ {t} : pc[u] \in {"idle", "open"}
      BY <1>2 DEF LockInv
    <2> QED
      BY <1>1, <2>1 DEF Reading, ModeTypeOK
  <1>5. ModeTypeOK'
    BY <1>1, <1>3 DEF ModeTypeOK
  <1>6. LockInv'
    BY <1>1, <1>2, <1>3 DEF LockInv, ModeTypeOK
  <1>7. ModeInv'
    <2>1. \A u \in Threads \ {t} : ~InSession(u)'
      <3>1. \A u \in Threads \ {t} : pc[u] \in {"idle", "open"}
        BY <1>2 DEF LockInv
      <3> QED
        BY <1>1, <3>1 DEF InSession, ModeTypeOK
    <2>2. ~setFailed => echo = original
      BY <1>4 DEF ModeInv
    <2>3. InSession(t)' => pc'[t] = "write" /\ stdin \in {"console", "pipe"}
      BY <1>1 DEF InSession, ModeTypeOK
    <2> QED
      BY <1>1, <1>4, <2>1, <2>2, <2>3 DEF ModeInv
  <1> QED
    BY <1>5, <1>6, <1>7

\* The steps of a session that leave the echo and the modes alone and read nothing.
LEMMA QuietIInv ==
  ASSUME IInv, NEW t \in Threads,
         OpenFailed(t) \/ write_string(t) \/ SkipString(t)
  PROVE  IInv'
  <1> USE DEF IInv
  <1>1. /\ ~Reading(t) /\ ~Reading(t)'
        /\ InSession(t)' => InSession(t)
        /\ pc[t] \notin {"idle", "open"} /\ pc'[t] # "open"
        /\ \A u \in Threads \ {t} : pc'[u] = pc[u] /\ script'[u] = script[u] /\ i'[u] = i[u]
        /\ UNCHANGED <<stdin, original, setFailed, echo, console_mode, held>>
    BY DEF OpenFailed, write_string, SkipString, Goto, console, local, ModeTypeOK, Reading,
           InSession
  <1>2. \A u \in Threads \ {t} : Cur(u)' = Cur(u)
    BY <1>1, CurFrame
  <1>3. ModeTypeOK'
    <2>1. CASE OpenFailed(t)
      BY <2>1 DEF OpenFailed, Goto, console, ModeTypeOK
    <2>2. CASE write_string(t)
      BY <2>2 DEF write_string, Goto, console, local, ModeTypeOK
    <2>3. CASE SkipString(t)
      <3>1. i' = i \/ i' = [i EXCEPT ![t] = i[t] + 1]
        BY <2>3 DEF SkipString
      <3>2. i' \in [Threads -> Nat]
        BY <3>1 DEF ModeTypeOK
      <3>3. UNCHANGED pc \/ pc' = [pc EXCEPT ![t] = "close"]
        BY <2>3 DEF SkipString, Goto
      <3> QED
        BY <2>3, <3>2, <3>3 DEF SkipString, console, ModeTypeOK
    <2> QED
      BY <2>1, <2>2, <2>3
  <1>4. LockInv'
    BY <1>1 DEF LockInv
  <1>5. ModeInv'
    BY <1>1, <1>2 DEF ModeInv, Reading, InSession
  <1> QED
    BY <1>3, <1>4, <1>5

\* The prompt: the echo is off when the string is not to be seen.
LEMMA read_stringIInv ==
  ASSUME IInv, NEW t \in Threads, read_string(t)
  PROVE  IInv'
  <1> USE DEF IInv
  <1>1. /\ pc[t] = "string"
        /\ pc'[t] \in {"read", "close"}
        /\ \A u \in Threads \ {t} : pc'[u] = pc[u]
        /\ UNCHANGED <<stdin, original, setFailed, console_mode, held, script, i>>
    BY DEF read_string, Goto, console, local, ModeTypeOK
  <1>2. /\ pc'[t] = "read" => IF Cur(t).echo THEN UNCHANGED echo ELSE noecho_console
        /\ pc'[t] = "close" => UNCHANGED echo
    BY DEF read_string, Goto, ModeTypeOK
  <1>3. \A u \in Threads \ {t} : pc[u] \in {"idle", "open"}
    BY <1>1, Alone DEF LockInv
  <1>4. \A u \in Threads : Cur(u)' = Cur(u)
    BY <1>1 DEF Cur
  <1>5. ModeTypeOK'
    BY <1>1, <1>2 DEF noecho_console, read_string, Goto, ModeTypeOK
  <1>6. LockInv'
    BY <1>1 DEF LockInv
  <1>7. ModeInv'
    <2>1. /\ stdin \in {"console", "pipe"}
          /\ ~setFailed => echo = original
          /\ ~setFailed /\ stdin = "console" => console_mode = original
      BY <1>1, <1>3 DEF ModeInv, InSession, Reading
    <2>2. \A u \in Threads : Reading(u)' => u = t /\ pc'[t] = "read"
      BY <1>1, <1>3 DEF Reading
    <2>3. \A u \in Threads : InSession(u)' => u = t /\ pc'[t] = "read"
      BY <1>1, <1>3 DEF InSession
    <2>4. Reading(t)' <=> pc'[t] = "read"
      BY <1>1 DEF Reading
    <2>5. CASE pc'[t] = "read" /\ Cur(t).echo
      BY <1>1, <1>2, <1>4, <2>1, <2>2, <2>3, <2>4, <2>5 DEF ModeInv
    <2>6. CASE pc'[t] = "read" /\ ~Cur(t).echo
      BY <1>1, <1>2, <1>4, <2>1, <2>2, <2>3, <2>4, <2>6 DEF ModeInv, noecho_console
    <2>7. CASE pc'[t] = "close"
      BY <1>1, <1>2, <1>4, <2>1, <2>2, <2>3, <2>7 DEF ModeInv
    <2> QED
      BY <1>1, <2>5, <2>6, <2>7
  <1> QED
    BY <1>5, <1>6, <1>7

\* Reading leaves the modes alone, however it ends.
LEMMA read_string_innerIInv ==
  ASSUME IInv, NEW t \in Threads, read_string_inner(t)
  PROVE  IInv'
  <1> USE DEF IInv
  <1>1. /\ pc[t] = "read"
        /\ pc' = [pc EXCEPT ![t] = "restore"]
        /\ UNCHANGED <<stdin, original, setFailed, console_mode, echo, held, script, i>>
    BY DEF read_string_inner, Goto, console
  <1>2. \A u \in Threads : (Reading(u)' <=> Reading(u)) /\ (InSession(u)' <=> InSession(u))
    BY <1>1 DEF Reading, InSession, ModeTypeOK
  <1>3. \A u \in Threads : Cur(u)' = Cur(u)
    BY <1>1 DEF Cur
  <1>4. ModeTypeOK'
    BY <1>1 DEF ModeTypeOK
  <1>5. LockInv'
    BY <1>1 DEF LockInv, ModeTypeOK
  <1>6. ModeInv'
    BY <1>1, <1>2, <1>3 DEF ModeInv
  <1> QED
    BY <1>4, <1>5, <1>6

\* The mode is put back, or the console refuses it.
LEMMA echo_consoleIInv ==
  ASSUME IInv, NEW t \in Threads, echo_console(t)
  PROVE  IInv'
  <1> DEFINE sets == ~Cur(t).echo /\ stdin = "console"
  <1> USE DEF IInv
  <1>1. /\ pc[t] = "restore"
        /\ pc'[t] \in {"string", "close"}
        /\ \A u \in Threads \ {t} : pc'[u] = pc[u]
        /\ UNCHANGED <<stdin, original, console_mode, held, script>>
        /\ setFailed' \in BOOLEAN
        /\ ~setFailed' => ~setFailed /\ echo' = IF sets THEN console_mode ELSE echo
    BY DEF echo_console, Goto, Restores, ModeTypeOK
  <1>2. \A u \in Threads \ {t} : pc[u] \in {"idle", "open"}
    BY <1>1, Alone DEF LockInv
  <1>3. \A u \in Threads : ~Reading(u)' /\ (InSession(u)' => u = t)
    BY <1>1, <1>2 DEF Reading, InSession
  <1>4. ModeTypeOK'
    <2>1. echo' \in BOOLEAN
      BY DEF echo_console, ModeTypeOK
    <2>2. i' \in [Threads -> Nat]
      <3>1. i' = i \/ i' = [i EXCEPT ![t] = i[t] + 1]
        BY DEF echo_console
      <3> QED
        BY <3>1 DEF ModeTypeOK
    <2>3. pc' \in [Threads -> {"idle", "open", "failed", "write", "string", "read", "restore",
                            "close"}]
      BY DEF echo_console, Goto, ModeTypeOK
    <2> QED
      BY <1>1, <2>1, <2>2, <2>3 DEF ModeTypeOK
  <1>5. LockInv'
    BY <1>1 DEF LockInv
  <1>6. ModeInv'
    <2>1. /\ stdin \in {"console", "pipe"}
          /\ ~setFailed /\ ~sets => echo = original
          /\ ~setFailed /\ stdin = "console" => console_mode = original
      BY <1>1 DEF ModeInv, InSession, Reading
    <2> QED
      BY <1>1, <1>3, <2>1 DEF ModeInv
  <1> QED
    BY <1>4, <1>5, <1>6

\* The session is closed and the lock given back.
LEMMA close_consoleIInv ==
  ASSUME IInv, NEW t \in Threads, close_console(t)
  PROVE  IInv'
  <1> USE DEF IInv
  <1>1. /\ pc[t] = "close" /\ pc' = [pc EXCEPT ![t] = "idle"]
        /\ held' = [held EXCEPT ![t]["UI"] = @ - 1] /\ held[t]["UI"] > 0
        /\ UNCHANGED <<stdin, original, setFailed, echo, console_mode>>
    BY DEF close_console, Goto, UnlockUI, Lock!Release, console
  <1>2. /\ held'[t]["UI"] = held[t]["UI"] - 1 /\ held[t]["UI"] \in Nat
        /\ \A u \in Threads \ {t} : held'[u]["UI"] = held[u]["UI"]
        /\ held' \in [Threads -> [{"UI"} -> Nat]]
    BY <1>1 DEF ModeTypeOK
  <1>3. \A u \in Threads \ {t} : pc[u] \in {"idle", "open"}
    BY <1>1, Alone
  <1>4. \A u \in Threads : /\ ~Reading(u) /\ ~Reading(u)'
                           /\ ~InSession(u)'
    BY <1>1, <1>3 DEF Reading, InSession, ModeTypeOK
  <1>5. ModeTypeOK'
    BY <1>1, <1>2 DEF ModeTypeOK, close_console
  <1>6. LockInv'
    BY <1>1, <1>2, <1>3 DEF LockInv, ModeTypeOK
  <1>7. ModeInv'
    BY <1>1, <1>4 DEF ModeInv
  <1> QED
    BY <1>5, <1>6, <1>7

\* Every step preserves the invariant.
LEMMA NextIInv == IInv /\ [Next]_vars => IInv'
  <1> SUFFICES ASSUME IInv, [Next]_vars PROVE IInv'
    OBVIOUS
  <1>1. CASE UNCHANGED vars
    BY <1>1 DEF vars, IInv, ModeTypeOK, LockInv, ModeInv, Reading, InSession, Cur
  <1>2. ASSUME NEW t \in Threads, UI_process(t) \/ Step(t) PROVE IInv'
    BY <1>2, UI_processIInv, open_consoleIInv, QuietIInv, read_stringIInv, read_string_innerIInv,
       echo_consoleIInv, close_consoleIInv DEF Step
  <1> QED
    BY <1>1, <1>2 DEF Next

(***************************************************************************)
(* The inductive invariant holds in every reachable state of UI_process.   *)
(***************************************************************************)
THEOREM Invariant == Spec => []IInv
  BY InitIInv, NextIInv, PTL DEF Spec

(***************************************************************************)
(* While read_string_inner reads a hidden answer from the console its echo *)
(* is off, for any number of threads and sessions.                         *)
(***************************************************************************)
THEOREM Hidden == Spec => []HiddenWhileReading
  <1>1. IInv => HiddenWhileReading
    BY DEF IInv, ModeInv, Reading, HiddenWhileReading
  <1> QED
    BY <1>1, Invariant, PTL

(***************************************************************************)
(* At most one thread is in a session: CRYPTO_LOCK_UI, as ui_openssl_win.c *)
(* takes and gives it, keeps the others out of the console.                *)
(***************************************************************************)
THEOREM OneSession ==
  Spec => [](\A t, u \in Threads : InSession(t) /\ InSession(u) => t = u)
  <1>1. IInv => \A t, u \in Threads : InSession(t) /\ InSession(u) => t = u
    BY DEF IInv, LockInv, InSession
  <1> QED
    BY <1>1, Invariant, PTL

-----------------------------------------------------------------------------
(***************************************************************************)
(* What is read.  A line may be longer than the buffer and is then read in *)
(* several pieces; that they are the line is an induction along it, here   *)
(* in the form that a set of numbers has a lowest one.                     *)
(***************************************************************************)

\* The numbers in order.
Below == {p \in Nat \X Nat : p[1] < p[2]}

\* A set of numbers that is not empty has a lowest one.
LEMMA LeastNatural ==
  ASSUME NEW S \in SUBSET Nat, S # {}
  PROVE  \E x \in S : \A y \in S : x <= y
  <1>1. IsWellFoundedOn(Below, Nat)
    BY NatLessThanWellFounded DEF OpToRel, Below
  <1>2. PICK x \in S : \A y \in S : ~(<<y, x>> \in Below)
    BY <1>1, WFMin
  <1>3. ASSUME NEW y \in S PROVE x <= y
    <2>1. x \in Nat /\ y \in Nat /\ ~(<<y, x>> \in Below)
      BY <1>2
    <2>2. ~(y < x)
      BY <2>1 DEF Below
    <2> QED
      BY <2>1, <2>2
  <1> QED
    BY <1>3

\* The line that p is in ends at the first newline from p on, or behind the string; and it
\* ends at the same place for every position in it.
LEMMA LineEnds ==
  ASSUME NEW s \in Seq(STRING), NEW p \in 1 .. Len(s) + 1
  PROVE  /\ EndOfLine(s, p) \in p .. Len(s) + 1
         /\ EndOfLine(s, p) = Len(s) + 1 \/ s[EndOfLine(s, p)] = Newline
         /\ \A j \in p .. EndOfLine(s, p) - 1 : s[j] # Newline
  <1> DEFINE Ends == {k \in p .. Len(s) + 1 : k = Len(s) + 1 \/ s[k] = Newline}
  <1>1. Len(s) \in Nat /\ p \in Nat
    OBVIOUS
  <1>2. Ends \in SUBSET Nat /\ Len(s) + 1 \in Ends
    BY <1>1
  <1>3. PICK k \in Ends : \A y \in Ends : k <= y
    BY <1>2, LeastNatural
  <1>4. \A j \in p .. k - 1 : s[j] # Newline
    BY <1>1, <1>3
  <1>5. \E e \in p .. Len(s) + 1 : /\ e = Len(s) + 1 \/ s[e] = Newline
                                   /\ \A j \in p .. e - 1 : s[j] # Newline
    BY <1>3, <1>4
  <1> QED
    BY <1>5 DEF EndOfLine

LEMMA LineEndUnique ==
  ASSUME NEW s \in Seq(STRING), NEW p \in 1 .. Len(s) + 1, NEW e \in p .. Len(s) + 1,
         e = Len(s) + 1 \/ s[e] = Newline,
         \A j \in p .. e - 1 : s[j] # Newline
  PROVE  EndOfLine(s, p) = e
  <1> DEFINE f == EndOfLine(s, p)
  <1>1. /\ f \in p .. Len(s) + 1 /\ (f = Len(s) + 1 \/ s[f] = Newline)
        /\ \A j \in p .. f - 1 : s[j] # Newline
    BY LineEnds
  <1>2. Len(s) \in Nat /\ p \in Nat
    OBVIOUS
  <1> HIDE DEF f
  <1>3. ~(f < e)
    BY <1>1, <1>2
  <1>4. ~(e < f)
    BY <1>1, <1>2
  <1>5. f = e
    BY <1>1, <1>2, <1>3, <1>4
  <1> QED
    BY <1>5 DEF f

\* What fgets() returns, by where the line ends.
LEMMA FgetsReads ==
  ASSUME input \in Seq(STRING), NEW p \in 1 .. Len(input) + 1, NEW size \in Nat, size > 1
  PROVE  LET r == fgets(p, size)
             L == Len(input)
             e == LineEnd(p)
         IN  /\ r.next \in p .. L + 1 /\ r.next <= p + size - 1 /\ r.next <= e + 1
             /\ r.buf = SubSeq(input, p, r.next - 1)
             /\ r.buf = <<>> <=> p = L + 1
             /\ r.newline <=> e <= L /\ e < p + size - 1
             /\ r.newline => r.next = e + 1
             /\ ~r.newline /\ p # L + 1 => p < r.next /\ r.next <= e /\ LineEnd(r.next) = e
             /\ e = L + 1 => ~r.newline
             /\ ~r.newline /\ e <= L => r.next = p + size - 1
             /\ ~r.newline /\ ~r.eof => r.next = p + size - 1
             /\ r.newline \in BOOLEAN /\ r.eof \in BOOLEAN
  <1> DEFINE L == Len(input)
             e == LineEnd(p)
             S == {p + size - 1, e + 1, L + 1}
             n == Min(S)
             r == fgets(p, size)
  <1>1. L \in Nat /\ p \in Nat /\ p <= L + 1 /\ p >= 1
    OBVIOUS
  <1>2. /\ e \in p .. L + 1 /\ (e = L + 1 \/ input[e] = Newline)
        /\ \A j \in p .. e - 1 : input[j] # Newline
    BY LineEnds DEF LineEnd
  <1>3. n \in S /\ n <= p + size - 1 /\ n <= e + 1 /\ n <= L + 1
    <2> HIDE DEF e
    <2>1. S \in SUBSET Nat /\ S # {}
      BY <1>1, <1>2
    <2>2. \E x \in S : \A y \in S : x <= y
      BY <2>1, LeastNatural
    <2>3. n \in S /\ \A y \in S : n <= y
      BY <2>2 DEF Min
    <2> QED
      BY <2>3
  <1>4. /\ r.buf = SubSeq(input, p, n - 1) /\ r.next = n
        /\ r.newline = (n > p /\ input[n - 1] = Newline)
        /\ r.eof = (n < p + size - 1 /\ (n = p \/ input[n - 1] # Newline))
    BY DEF fgets
  <1> HIDE DEF e, n, L, r
  <1>5. n \in p .. L + 1 /\ (n = p <=> p = L + 1)
    BY <1>1, <1>2, <1>3
  <1>6. SubSeq(input, p, n - 1) = <<>> <=> p = L + 1
    <2>1. Len(SubSeq(input, p, n - 1)) = n - p
      BY <1>1, <1>5 DEF L
    <2>2. SubSeq(input, p, n - 1) \in Seq(STRING)
      BY <1>1, <1>5 DEF L
    <2>3. SubSeq(input, p, n - 1) = <<>> <=> n - p = 0
      BY <2>1, <2>2, EmptySeq
    <2> QED
      BY <1>1, <1>5, <2>3
  <1>7. n > p /\ input[n - 1] = Newline <=> e <= L /\ e < p + size - 1
    <2>1. CASE e <= L /\ e < p + size - 1
      <3>1. n = e + 1
        BY <1>1, <1>2, <1>3, <2>1
      <3> QED
        BY <1>1, <1>2, <2>1, <3>1
    <2>2. CASE e <= L /\ e >= p + size - 1
      <3>1. n = p + size - 1 /\ n - 1 \in p .. e - 1
        BY <1>1, <1>2, <1>3, <2>2
      <3> QED
        BY <1>1, <1>2, <2>2, <3>1
    <2>3. CASE e = L + 1
      <3>1. n > p => n - 1 \in p .. e - 1
        BY <1>1, <1>2, <1>3, <2>3
      <3> QED
        BY <1>1, <1>2, <2>3, <3>1
    <2> QED
      BY <1>1, <1>2, <2>1, <2>2, <2>3
  <1>8. e <= L /\ e < p + size - 1 => n = e + 1
    BY <1>1, <1>2, <1>3
  <1>9. ASSUME ~(e <= L /\ e < p + size - 1), p # L + 1
        PROVE  p < n /\ n <= e /\ LineEnd(n) = e
    <2>1. p < n /\ n <= e
      BY <1>1, <1>2, <1>3, <1>5, <1>9
    <2>2. n \in 1 .. L + 1 /\ e \in n .. L + 1 /\ \A j \in n .. e - 1 : input[j] # Newline
      BY <1>1, <1>2, <1>5, <2>1
    <2>3. EndOfLine(input, n) = e
      BY <1>2, <2>2, LineEndUnique DEF L
    <2> QED
      BY <2>1, <2>3 DEF LineEnd
  <1>10. ~(e <= L /\ e < p + size - 1) /\ e <= L => n = p + size - 1
    BY <1>1, <1>2, <1>3
  <1>11. ASSUME ~(e <= L /\ e < p + size - 1), n # p + size - 1 PROVE r.eof
    <2>1. n < p + size - 1
      BY <1>1, <1>3, <1>5, <1>11
    <2>2. n = p \/ input[n - 1] # Newline
      BY <1>1, <1>5, <1>7, <1>11
    <2> QED
      BY <1>4, <2>1, <2>2
  <1>12. /\ r.newline <=> e <= L /\ e < p + size - 1
         /\ r.newline \in BOOLEAN /\ r.eof \in BOOLEAN
    BY <1>4, <1>7
  <1>13. /\ r.next \in p .. L + 1 /\ r.next <= p + size - 1 /\ r.next <= e + 1
         /\ r.buf = SubSeq(input, p, r.next - 1)
         /\ r.buf = <<>> <=> p = L + 1
    BY <1>3, <1>4, <1>5, <1>6
  <1>14. r.newline => r.next = e + 1
    BY <1>4, <1>8, <1>12
  <1>15. ~r.newline /\ p # L + 1 => p < r.next /\ r.next <= e /\ LineEnd(r.next) = e
    BY <1>4, <1>9, <1>12
  <1>16. /\ e = L + 1 => ~r.newline
         /\ ~r.newline /\ e <= L => r.next = p + size - 1
    BY <1>1, <1>2, <1>4, <1>10, <1>12
  <1>17. ~r.newline /\ ~r.eof => r.next = p + size - 1
    BY <1>4, <1>11, <1>12
  <1> QED
    BY <1>12, <1>13, <1>14, <1>15, <1>16, <1>17 DEF L, e, r

\* What is left of a line: its newline is read, or the input ends.
Rest(k) == IF LineEnd(k) <= Len(input) THEN [ok |-> TRUE, next |-> LineEnd(k) + 1]
           ELSE [ok |-> FALSE, next |-> Len(input) + 1]

\* One round of the loop of read_till_nl.
Round(f, k) ==
  LET r == fgets(k, SIZE)
  IN  IF r.buf = <<>> THEN [ok |-> FALSE, next |-> k]
      ELSE IF r.newline THEN [ok |-> TRUE, next |-> r.next]
      ELSE f[r.next]

\* read_till_nl() reads the rest of the line whatever its length: the rest of the line is the
\* one solution of the recursion over chunks.
LEMMA ReadsRest ==
  ASSUME input \in Seq(STRING), NEW p \in 1 .. Len(input) + 1
  PROVE  read_till_nl(p) = Rest(p)
  <1> DEFINE L == Len(input)
             D == 1 .. L + 1
             rest == [k \in D |-> Rest(k)]
  <1>1. L \in Nat
    OBVIOUS
  <1>2. ASSUME NEW k \in D
        PROVE  LET r == fgets(k, SIZE) IN
                 /\ r.buf = <<>> => Rest(k) = [ok |-> FALSE, next |-> k]
                 /\ r.buf # <<>> /\ r.newline => Rest(k) = [ok |-> TRUE, next |-> r.next]
                 /\ r.buf # <<>> /\ ~r.newline =>
                      r.next \in D /\ r.next > k /\ Rest(k) = Rest(r.next)
    <2> DEFINE r == fgets(k, SIZE)
    <2>1. LineEnd(k) \in k .. L + 1
      BY LineEnds DEF LineEnd
    <2>2. /\ r.next \in k .. L + 1
          /\ r.buf = <<>> <=> k = L + 1
          /\ r.newline <=> LineEnd(k) <= L /\ LineEnd(k) < k + SIZE - 1
          /\ r.newline => r.next = LineEnd(k) + 1
          /\ ~r.newline /\ k # L + 1 => k < r.next /\ LineEnd(r.next) = LineEnd(k)
      BY FgetsReads DEF SIZE
    <2> HIDE DEF r
    <2>3. r.buf = <<>> => Rest(k) = [ok |-> FALSE, next |-> k]
      BY <1>1, <2>1, <2>2 DEF Rest
    <2>4. r.buf # <<>> /\ r.newline => Rest(k) = [ok |-> TRUE, next |-> r.next]
      BY <1>1, <2>1, <2>2 DEF Rest
    <2>5. r.buf # <<>> /\ ~r.newline => r.next \in D /\ r.next > k /\ Rest(k) = Rest(r.next)
      <3> SUFFICES ASSUME r.buf # <<>>, ~r.newline
                   PROVE  r.next \in D /\ r.next > k /\ Rest(k) = Rest(r.next)
        OBVIOUS
      <3>1. k < r.next /\ LineEnd(r.next) = LineEnd(k) /\ r.next \in k .. L + 1
        BY <2>2
      <3>2. Rest(k) = Rest(r.next)
        BY <3>1 DEF Rest
      <3> QED
        BY <1>1, <3>1, <3>2
    <2> QED
      BY <2>3, <2>4, <2>5 DEF r
  <1>3. rest = [k \in D |-> Round(rest, k)]
    <2>1. ASSUME NEW k \in D PROVE rest[k] = Round(rest, k)
      BY <1>2 DEF Round
    <2> QED
      BY <2>1
  <1>4. chunks = [k \in D |-> Round(chunks, k)]
    BY <1>3 DEF chunks, Round
  <1>5. ASSUME NEW k \in D
        PROVE  chunks[k] = Round(chunks, k)
    BY <1>4
  <1>6. ASSUME NEW k \in D, chunks[k] # Rest(k)
        PROVE  \E n \in D : n > k /\ chunks[n] # Rest(n)
    <2> DEFINE r == fgets(k, SIZE)
    <2>1. r.buf # <<>> /\ ~r.newline
      BY <1>2, <1>5, <1>6 DEF Round
    <2>2. chunks[k] = chunks[r.next]
      BY <1>5, <2>1 DEF Round
    <2>3. r.next \in D /\ r.next > k /\ Rest(k) = Rest(r.next)
      BY <1>2, <2>1
    <2> QED
      BY <1>6, <2>2, <2>3
  <1>7. \A k \in D : chunks[k] = Rest(k)
    <2> SUFFICES ASSUME NEW b \in D, chunks[b] # Rest(b) PROVE FALSE
      OBVIOUS
    <2> DEFINE Bad == {m \in Nat : L + 1 - m \in D /\ chunks[L + 1 - m] # Rest(L + 1 - m)}
    <2>1. L + 1 - b \in Bad
      BY <1>1
    <2>2. PICK m \in Bad : \A y \in Bad : m <= y
      BY <2>1, LeastNatural
    <2>3. PICK n \in D : n > L + 1 - m /\ chunks[n] # Rest(n)
      BY <1>6, <2>2
    <2>4. L + 1 - n \in Bad /\ L + 1 - n < m
      BY <1>1, <2>2, <2>3
    <2> QED
      BY <1>1, <2>2, <2>4
  <1> QED
    BY <1>7 DEF read_till_nl

\* What is cut off an answer is the newline at its end, if it has one.
LEMMA Cuts ==
  ASSUME NEW s \in Seq(STRING), NEW m \in 0 .. Len(s), \A j \in 1 .. m : s[j] # Newline,
         m = Len(s) \/ s[m + 1] = Newline
  PROVE  Cut(s) = SubSeq(s, 1, m)
  <1>1. EndOfLine(s, 1) = m + 1
    <2>1. Len(s) \in Nat /\ 1 \in 1 .. Len(s) + 1 /\ m + 1 \in 1 .. Len(s) + 1
      OBVIOUS
    <2>2. m + 1 = Len(s) + 1 \/ s[m + 1] = Newline
      OBVIOUS
    <2>3. \A j \in 1 .. (m + 1) - 1 : s[j] # Newline
      OBVIOUS
    <2> QED
      BY <2>1, <2>2, <2>3, LineEndUnique
  <1> QED
    BY <1>1 DEF Cut

\* A part of a part of a string.
LEMMA SubOfSub ==
  ASSUME NEW s \in Seq(STRING), NEW p \in 1 .. Len(s) + 1, NEW q \in p - 1 .. Len(s),
         NEW m \in 0 .. q - p + 1
  PROVE  /\ SubSeq(s, p, q) \in Seq(STRING) /\ Len(SubSeq(s, p, q)) = q - p + 1
         /\ \A j \in 1 .. q - p + 1 : SubSeq(s, p, q)[j] = s[p + j - 1]
         /\ SubSeq(SubSeq(s, p, q), 1, m) = SubSeq(s, p, p + m - 1)
  <1> DEFINE t == SubSeq(s, p, q)
             u == SubSeq(t, 1, m)
             v == SubSeq(s, p, p + m - 1)
  <1>1. /\ Len(s) \in Nat /\ p \in Nat /\ q \in Int /\ m \in Nat
        /\ p >= 1 /\ q <= Len(s) /\ m <= q - p + 1
    OBVIOUS
  <1>2. /\ t \in Seq(STRING) /\ Len(t) = q - p + 1
        /\ \A j \in 1 .. q - p + 1 : t[j] = s[p + j - 1]
    BY <1>1
  <1>3. /\ v \in Seq(STRING) /\ Len(v) = m
        /\ \A j \in 1 .. m : v[j] = s[p + j - 1]
    BY <1>1
  <1> HIDE DEF t, v
  <1>4. /\ u \in Seq(STRING) /\ Len(u) = m
        /\ \A j \in 1 .. m : u[j] = t[j]
    BY <1>1, <1>2
  <1> HIDE DEF u
  <1>5. u = v
    <2>1. \A j \in 1 .. m : u[j] = v[j]
      BY <1>1, <1>2, <1>3, <1>4
    <2> QED
      BY <1>3, <1>4, <2>1, SeqEqual
  <1> QED
    BY <1>2, <1>5 DEF t, u, v

\* The first read of a line, stripped or not, is the line as far as it fits.
LEMMA Stripped ==
  ASSUME input \in Seq(STRING), NEW p \in 1 .. Len(input) + 1, NEW q \in p - 1 .. Len(input),
         q <= LineEnd(p), NEW t \in Threads
  PROVE  LET a == Strip(t, SubSeq(input, p, q))
             z == IF q = LineEnd(p) THEN q - 1 ELSE q
         IN  /\ a \in Seq(STRING) /\ Len(a) <= q - p + 1
             /\ Cut(a) = SubSeq(input, p, z)
  <1> DEFINE e == LineEnd(p)
             z == IF q = e THEN q - 1 ELSE q
             b == SubSeq(input, p, q)
             c == SubSeq(input, p, z)
  <1>1. /\ e \in p .. Len(input) + 1 /\ (e = Len(input) + 1 \/ input[e] = Newline)
        /\ \A j \in p .. e - 1 : input[j] # Newline
    BY LineEnds DEF LineEnd
  <1>2. /\ Len(input) \in Nat /\ p \in Nat /\ p >= 1 /\ q \in Int /\ z \in p - 1 .. Len(input)
        /\ z <= q /\ z >= q - 1 /\ z < e /\ (z # q => q = e)
    <2> HIDE DEF e
    <2> QED
      BY <1>1 DEF e
  <1>3. /\ b \in Seq(STRING) /\ Len(b) = q - p + 1
        /\ \A j \in 1 .. q - p + 1 : b[j] = input[p + j - 1]
        /\ \A m \in 0 .. q - p + 1 : SubSeq(b, 1, m) = SubSeq(input, p, p + m - 1)
    BY SubOfSub, <1>2
  <1>4. /\ c \in Seq(STRING) /\ Len(c) = z - p + 1
        /\ \A j \in 1 .. z - p + 1 : c[j] = input[p + j - 1]
        /\ \A m \in 0 .. z - p + 1 : SubSeq(c, 1, m) = SubSeq(input, p, p + m - 1)
    BY SubOfSub, <1>2
  <1> DEFINE m == z - p + 1
  <1> HIDE DEF e, z, b, c
  <1>5. /\ m \in Nat /\ m <= q - p + 1 /\ p + m - 1 = z /\ Len(c) = m
        /\ m \in 0 .. Len(b) /\ m \in 0 .. Len(c)
    <2>1. z - p + 1 \in Nat /\ z - p + 1 <= q - p + 1 /\ p + (z - p + 1) - 1 = z
      BY <1>2
    <2>2. Len(c) = z - p + 1 /\ Len(b) = q - p + 1
      BY <1>3, <1>4
    <2> QED
      BY <1>2, <2>1, <2>2
  <1> HIDE DEF m
  <1>6. Cut(b) = c
    <2>1. ASSUME NEW j \in 1 .. m PROVE b[j] # Newline
      <3>1. j \in 1 .. q - p + 1 /\ p + j - 1 \in p .. e - 1
        BY <1>1, <1>2, <1>5
      <3> QED
        BY <1>1, <1>3, <3>1
    <2>2. m = Len(b) \/ b[m + 1] = Newline
      BY <1>1, <1>2, <1>3, <1>5
    <2>3. Cut(b) = SubSeq(b, 1, m)
      BY <1>3, <1>5, <2>1, <2>2, Cuts, Zenon
    <2> QED
      BY <1>3, <1>5, <2>3 DEF c
  <1>7. Cut(c) = c
    <2>1. ASSUME NEW j \in 1 .. m PROVE c[j] # Newline
      <3>1. j \in 1 .. z - p + 1 /\ p + j - 1 \in p .. e - 1
        BY <1>1, <1>2, <1>5
      <3> QED
        BY <1>1, <1>4, <3>1
    <2>2. Cut(c) = SubSeq(c, 1, m)
      BY <1>4, <1>5, <2>1, Cuts, Zenon
    <2> QED
      BY <1>4, <1>5, <2>2 DEF c
  <1>8. Len(c) <= q - p + 1
    BY <1>2, <1>4
  <1>9. Strip(t, b) = b \/ Strip(t, b) = c
    BY <1>6 DEF Strip
  <1>10. /\ Strip(t, b) \in Seq(STRING) /\ Len(Strip(t, b)) <= q - p + 1
         /\ Cut(Strip(t, b)) = c
    BY <1>2, <1>3, <1>4, <1>6, <1>7, <1>8, <1>9
  <1> QED
    BY <1>10 DEF b, c, z, e

-----------------------------------------------------------------------------
\* What a thread has at each step of its session: the lock no more often than it has begun
\* sessions, a string that it reads, and at most an answer for each string it has passed.
FlowOk(t) ==
  /\ sessions[t] \in 0 .. MaxSessions /\ held[t]["UI"] <= sessions[t]
  /\ pc[t] = "open" => held[t]["UI"] < sessions[t]
  /\ i[t] \in 1 .. Len(script[t]) + 1
  /\ pc[t] \in {"read", "restore"} => i[t] <= Len(script[t]) /\ Reads(Cur(t))
  /\ Len(answers[t]) <= Len(script[t])
  /\ \A n \in DOMAIN answers[t] : Len(answers[t][n]) < BUFSIZ - 1
  /\ pc[t] \in {"idle", "open", "failed", "write"} => i[t] = 1 /\ answers[t] = <<>>
  /\ pc[t] \in {"string", "read"} => Len(answers[t]) < i[t]
  /\ pc[t] = "restore" => Len(answers[t]) <= i[t]
  /\ ok[t] => pc[t] = "restore"

StreamOk ==
  /\ stdin \in Kinds /\ eof \in BOOLEAN /\ openFailed \in BOOLEAN
  /\ input \in Inputs /\ pos \in 1 .. Len(input) + 1
  /\ answers \in [Threads -> Seq(Seq(STRING))]
  /\ ok \in [Threads -> BOOLEAN] /\ sessions \in [Threads -> Nat]

FlowInv == StreamOk /\ \A t \in Threads : FlowOk(t)

\* The types that every step needs.
LEMMA FlowTypes ==
  ASSUME IInv, FlowInv
  PROVE  /\ input \in Seq(STRING) /\ BUFSIZ \in Nat /\ BUFSIZ > 2 /\ MaxSessions \in Nat
         /\ \A t \in Threads :
              /\ script[t] \in Seq([type : STRING, echo : BOOLEAN]) /\ Len(script[t]) \in Nat
              /\ answers[t] \in Seq(Seq(STRING)) /\ Len(answers[t]) \in Nat
              /\ held[t]["UI"] \in Nat /\ i[t] \in Nat
  <1>1. \A t \in Threads : script[t] \in Seq([type : STRING, echo : BOOLEAN])
    <2> DEFINE T == [type : STRING, echo : BOOLEAN]
    <2>1. <<>> \in Seq(T) /\ Scripts \subseteq Seq(T)
      BY UiConsoleAssumption, EmptySeq
    <2> HIDE DEF T
    <2>2. \A t \in Threads : script[t] \in Seq(T)
      BY <2>1 DEF IInv, ModeTypeOK
    <2> QED
      BY <2>2 DEF T
  <1> QED
    BY <1>1, UiConsoleAssumption DEF IInv, FlowInv, StreamOk, ModeTypeOK

\* A thread that a step leaves alone.
LEMMA FlowFrame ==
  ASSUME NEW u \in Threads, FlowOk(u),
         pc'[u] = pc[u], script'[u] = script[u], i'[u] = i[u], answers'[u] = answers[u],
         ok'[u] = ok[u], sessions'[u] = sessions[u], held'[u]["UI"] = held[u]["UI"]
  PROVE  FlowOk(u)'
  BY DEF FlowOk, Cur

\* The initial state: no session has begun.
LEMMA InitFlow == Init => FlowInv
  <1> SUFFICES ASSUME Init PROVE FlowInv
    OBVIOUS
  <1>1. held = [t \in Threads |-> [k \in {"UI"} |-> 0]]
    BY DEF Init, Lock!Init
  <1>2. StreamOk
    <2>1. Len(input) \in Nat
      BY UiConsoleAssumption DEF Init
    <2>2. <<>> \in Seq(Seq(STRING))
      OBVIOUS
    <2>3. pos \in 1 .. Len(input) + 1
      BY <2>1 DEF Init
    <2>4. /\ answers \in [Threads -> Seq(Seq(STRING))]
          /\ ok \in [Threads -> BOOLEAN] /\ sessions \in [Threads -> Nat]
      BY <2>2 DEF Init
    <2>5. stdin \in Kinds /\ eof \in BOOLEAN /\ openFailed \in BOOLEAN /\ input \in Inputs
      BY DEF Init
    <2> QED
      BY <2>3, <2>4, <2>5 DEF StreamOk
  <1>3. ASSUME NEW t \in Threads PROVE FlowOk(t)
    BY <1>1, UiConsoleAssumption DEF Init, FlowOk
  <1> QED
    BY <1>2, <1>3 DEF FlowInv

\* A session begins with its first string.
LEMMA UI_processFlow ==
  ASSUME IInv, FlowInv, NEW t \in Threads, UI_process(t)
  PROVE  FlowInv'
  <1>1. PICK s \in Scripts : script' = [script EXCEPT ![t] = s]
    BY DEF UI_process
  <1>2. /\ pc[t] = "idle" /\ pc' = [pc EXCEPT ![t] = "open"]
        /\ sessions[t] < MaxSessions /\ sessions' = [sessions EXCEPT ![t] = sessions[t] + 1]
        /\ UNCHANGED <<stdin, input, eof, pos, held, i, ok, answers, openFailed>>
    BY DEF UI_process, Goto, console
  <1>3. StreamOk'
    BY <1>2 DEF FlowInv, StreamOk
  <1>4. FlowOk(t)'
    <2>1. /\ sessions'[t] = sessions[t] + 1 /\ script'[t] = s /\ pc'[t] = "open"
          /\ Len(s) \in Nat
      BY <1>1, <1>2, UiConsoleAssumption DEF FlowInv, StreamOk, IInv, ModeTypeOK
    <2>2. FlowOk(t) /\ i[t] = 1 /\ answers[t] = <<>>
      BY <1>2 DEF FlowInv, FlowOk
    <2> QED
      BY <1>2, <2>1, <2>2, FlowTypes DEF FlowOk
  <1>5. ASSUME NEW u \in Threads \ {t} PROVE FlowOk(u)'
    BY <1>1, <1>2, <1>5, FlowFrame DEF FlowInv, StreamOk, IInv, ModeTypeOK
  <1> QED
    BY <1>3, <1>4, <1>5 DEF FlowInv

\* The session takes the lock once.
LEMMA open_consoleFlow ==
  ASSUME IInv, FlowInv, NEW t \in Threads, open_console(t)
  PROVE  FlowInv'
  <1>1. /\ pc[t] = "open"
        /\ pc' = [pc EXCEPT ![t] = "write"] \/ pc' = [pc EXCEPT ![t] = "failed"]
        /\ openFailed' \in {openFailed, TRUE}
        /\ UNCHANGED <<stdin, input, eof, pos, script, i, ok, answers, sessions>>
    BY DEF open_console, Goto, console, local
  <1>2. held' = [held EXCEPT ![t]["UI"] = @ + 1]
    BY DEF open_console, LockUI, Lock!Acquire
  <1>3. /\ held'[t]["UI"] = held[t]["UI"] + 1
        /\ \A u \in Threads \ {t} : held'[u]["UI"] = held[u]["UI"] /\ pc'[u] = pc[u]
        /\ pc'[t] \in {"write", "failed"}
    BY <1>1, <1>2 DEF IInv, ModeTypeOK
  <1>4. StreamOk'
    BY <1>1 DEF FlowInv, StreamOk
  <1>5. FlowOk(t)'
    <2>1. FlowOk(t) /\ sessions[t] \in Nat
      BY DEF FlowInv, StreamOk
    <2> QED
      BY <1>1, <1>3, <2>1, FlowTypes DEF FlowOk
  <1>6. ASSUME NEW u \in Threads \ {t} PROVE FlowOk(u)'
    BY <1>1, <1>3, <1>6, FlowFrame DEF FlowInv
  <1> QED
    BY <1>4, <1>5, <1>6 DEF FlowInv

\* The steps that read nothing.
LEMMA QuietFlow ==
  ASSUME IInv, FlowInv, NEW t \in Threads,
         OpenFailed(t) \/ write_string(t) \/ SkipString(t) \/ read_string(t)
  PROVE  FlowInv'
  <1>1. /\ pc' \in [Threads -> {pc[u] : u \in Threads} \cup {"idle", "close", "string", "read"}]
        /\ \A u \in Threads \ {t} : pc'[u] = pc[u] /\ script'[u] = script[u] /\ i'[u] = i[u]
        /\ UNCHANGED <<stdin, input, eof, pos, held, ok, answers, sessions, openFailed>>
    BY DEF OpenFailed, write_string, SkipString, read_string, Goto, console, local, IInv, ModeTypeOK
  <1>2. StreamOk'
    BY <1>1 DEF FlowInv, StreamOk
  <1>3. FlowOk(t)'
    <2> DEFINE n == Len(script[t])
    <2>1. FlowOk(t) /\ n \in Nat /\ Len(answers[t]) \in Nat /\ i[t] \in Nat
      BY FlowTypes DEF FlowInv
    <2>2. CASE OpenFailed(t)
      <3>1. pc[t] = "failed" /\ pc'[t] \in {"idle", "close"} /\ script'[t] = <<>> /\ i' = i
        BY <2>2 DEF OpenFailed, Goto, IInv, ModeTypeOK
      <3> QED
        BY <1>1, <2>1, <3>1 DEF FlowOk
    <2>3. CASE write_string(t)
      <3>1. pc[t] = "write" /\ pc'[t] = "string" /\ script' = script /\ i' = i
        BY <2>3 DEF write_string, Goto, local, IInv, ModeTypeOK
      <3> QED
        BY <1>1, <2>1, <3>1 DEF FlowOk
    <2>4. CASE SkipString(t)
      <3>1. /\ pc[t] = "string" /\ script' = script
            /\ \/ i' = i /\ pc'[t] = "close"
               \/ i[t] <= n /\ i'[t] = i[t] + 1 /\ pc' = pc
        BY <2>4 DEF SkipString, Goto, IInv, ModeTypeOK
      <3> QED
        BY <1>1, <2>1, <3>1 DEF FlowOk
    <2>5. CASE read_string(t)
      <3>1. /\ pc[t] = "string" /\ i[t] <= n /\ Reads(Cur(t)) /\ pc'[t] \in {"read", "close"}
            /\ script' = script /\ i' = i /\ Cur(t)' = Cur(t)
        BY <2>5 DEF read_string, Goto, local, IInv, ModeTypeOK, Cur
      <3>2. Reads(Cur(t)') <=> Reads(Cur(t))
        BY <3>1
      <3> QED
        BY <1>1, <2>1, <3>1, <3>2 DEF FlowOk
    <2> QED
      BY <2>2, <2>3, <2>4, <2>5
  <1>4. ASSUME NEW u \in Threads \ {t} PROVE FlowOk(u)'
    BY <1>1, <1>4, FlowFrame DEF FlowInv
  <1> QED
    BY <1>2, <1>3, <1>4 DEF FlowInv

(***************************************************************************)
(* read_string_inner() moves in the input, and an answer is only accepted  *)
(* when its line was read to its end.                                      *)
(***************************************************************************)
LEMMA LineRead ==
  ASSUME IInv, FlowInv, NEW t \in Threads, read_string_inner(t)
  PROVE  /\ pos' \in 1 .. Len(input) + 1 /\ eof' \in BOOLEAN
         /\ \/ ok' = [ok EXCEPT ![t] = FALSE] /\ answers' = answers
            \/ /\ ok' = [ok EXCEPT ![t] = TRUE]
               /\ LineEnd(pos) <= Len(input) /\ pos' = LineEnd(pos) + 1
               /\ \E a \in Seq(STRING) :
                    /\ Len(a) < BUFSIZ - 1
                    /\ Cut(a) = SubSeq(input, pos, Min({LineEnd(pos) - 1, pos + BUFSIZ - 3}))
                    /\ answers' = [answers EXCEPT ![t] = Append(answers[t], a)]
  <1> DEFINE L == Len(input)
             e == LineEnd(pos)
             r == fgets(pos, maxsize)
             failed == r.buf = <<>> \/ r.eof \/ eof
             tail == IF failed \/ r.newline THEN [ok |-> ~failed, next |-> r.next]
                     ELSE read_till_nl(r.next)
  <1>1. input \in Seq(STRING) /\ L \in Nat /\ pos \in 1 .. L + 1 /\ maxsize \in Nat /\ maxsize > 1
    BY FlowTypes DEF maxsize, FlowInv, StreamOk
  <1>2. /\ r.next \in pos .. L + 1 /\ r.next <= pos + maxsize - 1 /\ r.next <= e + 1
        /\ r.buf = SubSeq(input, pos, r.next - 1)
        /\ r.buf = <<>> <=> pos = L + 1
        /\ r.newline <=> e <= L /\ e < pos + maxsize - 1
        /\ r.newline => r.next = e + 1
        /\ ~r.newline /\ pos # L + 1 => pos < r.next /\ r.next <= e /\ LineEnd(r.next) = e
        /\ ~r.newline /\ ~r.eof => r.next = pos + maxsize - 1
        /\ r.newline \in BOOLEAN /\ r.eof \in BOOLEAN
    BY <1>1, FgetsReads
  <1>3. e \in pos .. L + 1
    BY <1>1, LineEnds DEF LineEnd
  <1>4. ~failed /\ ~r.newline =>
          read_till_nl(r.next) = IF e <= L THEN [ok |-> TRUE, next |-> e + 1]
                                 ELSE [ok |-> FALSE, next |-> L + 1]
    <2>1. r.next \in 1 .. L + 1
      BY <1>1, <1>2
    <2>2. read_till_nl(r.next) = Rest(r.next)
      BY <1>1, <2>1, ReadsRest
    <2> QED
      BY <1>2, <2>2 DEF Rest
  <1>5. /\ eof' = (eof \/ r.eof \/ ~tail.ok) /\ pos' = tail.next
        /\ \/ /\ tail.ok /\ ok' = [ok EXCEPT ![t] = TRUE]
              /\ answers' = [answers EXCEPT ![t] = Append(answers[t], Strip(t, r.buf))]
           \/ ok' = [ok EXCEPT ![t] = FALSE] /\ answers' = answers
    BY DEF read_string_inner
  <1> HIDE DEF L, e, r
  <1>6. /\ tail.next \in 1 .. L + 1
        /\ tail.ok => ~failed /\ e <= L /\ tail.next = e + 1
    <2>1. CASE failed
      <3>1. tail = [ok |-> ~failed, next |-> r.next]
        BY <2>1
      <3>2. tail.next = r.next /\ ~tail.ok
        BY <2>1, <3>1
      <3>3. r.next \in 1 .. L + 1
        BY <1>1, <1>2
      <3> HIDE DEF tail, failed
      <3> QED
        BY <3>2, <3>3
    <2>2. CASE ~failed /\ r.newline
      BY <1>1, <1>2, <1>3, <2>2
    <2>3. CASE ~failed /\ ~r.newline
      BY <1>1, <1>3, <1>4, <2>3
    <2> QED
      BY <2>1, <2>2, <2>3
  <1>7. ASSUME ~failed, e <= L
        PROVE  LET a == Strip(t, r.buf)
               IN  /\ a \in Seq(STRING) /\ Len(a) < BUFSIZ - 1
                   /\ Cut(a) = SubSeq(input, pos, Min({e - 1, pos + BUFSIZ - 3}))
    <2> DEFINE q == r.next - 1
               a == Strip(t, r.buf)
               z == IF q = e THEN q - 1 ELSE q
    <2>1. /\ q \in pos - 1 .. L /\ q <= e /\ q <= pos + maxsize - 2
          /\ (q = e <=> e < pos + maxsize - 1) /\ (q # e => q = pos + maxsize - 2)
          /\ r.buf = SubSeq(input, pos, q)
      <3>1. pos # L + 1 /\ ~r.eof
        BY <1>2, <1>7
      <3>2. CASE r.newline
        <4>1. r.next = e + 1 /\ e < pos + maxsize - 1
          BY <1>2, <3>2
        <4> QED
          BY <1>1, <1>2, <1>3, <1>7, <4>1
      <3>3. CASE ~r.newline
        <4>1. /\ r.next = pos + maxsize - 1 /\ r.next <= e /\ e >= pos + maxsize - 1
              /\ r.next \in pos .. L + 1
          BY <1>1, <1>2, <1>3, <1>7, <3>1, <3>3
        <4> QED
          BY <1>1, <1>2, <1>3, <4>1
      <3> QED
        BY <3>2, <3>3
    <2> HIDE DEF q
    <2>2. /\ a \in Seq(STRING) /\ Len(a) <= q - pos + 1
          /\ Cut(a) = SubSeq(input, pos, z)
      BY <1>1, <2>1, Stripped DEF L, e
    <2>3. /\ maxsize = BUFSIZ - 1 /\ BUFSIZ \in Nat /\ e \in Nat /\ pos \in Nat /\ q \in Int
          /\ Len(a) \in Nat
      <3>1. Len(a) \in Nat
        BY <2>2
      <3>2. maxsize = BUFSIZ - 1 /\ BUFSIZ \in Nat
        BY FlowTypes DEF maxsize
      <3>3. e \in Nat /\ pos \in Nat /\ q \in Int
        BY <1>1, <1>3, <2>1
      <3> QED
        BY <3>1, <3>2, <3>3
    <2>4. z = Min({e - 1, pos + BUFSIZ - 3})
      <3>1. z \in Int
        BY <2>3
      <3>2. z \in {e - 1, pos + BUFSIZ - 3} /\ z <= e - 1 /\ z <= pos + BUFSIZ - 3
        BY <2>1, <2>3
      <3> HIDE DEF z
      <3>3. \A x \in {e - 1, pos + BUFSIZ - 3} :
              (\A y \in {e - 1, pos + BUFSIZ - 3} : x <= y) => x = z
        BY <2>3, <3>1, <3>2
      <3> QED
        BY <3>2, <3>3 DEF Min
    <2>5. Len(a) < BUFSIZ - 1
      BY <2>1, <2>2, <2>3
    <2> QED
      BY <2>2, <2>4, <2>5
  <1>8. eof' \in BOOLEAN
    BY <1>5
  <1>9. CASE ok' = [ok EXCEPT ![t] = FALSE] /\ answers' = answers
    BY <1>5, <1>6, <1>8, <1>9 DEF L
  <1>10. CASE /\ tail.ok /\ ok' = [ok EXCEPT ![t] = TRUE]
              /\ answers' = [answers EXCEPT ![t] = Append(answers[t], Strip(t, r.buf))]
    BY <1>5, <1>6, <1>7, <1>8, <1>10 DEF L, e
  <1> QED
    BY <1>5, <1>9, <1>10

LEMMA read_string_innerFlow ==
  ASSUME IInv, FlowInv, NEW t \in Threads, read_string_inner(t)
  PROVE  FlowInv'
  <1>1. /\ pc[t] = "read" /\ pc' = [pc EXCEPT ![t] = "restore"]
        /\ UNCHANGED <<stdin, input, held, script, i, sessions, openFailed>>
    BY DEF read_string_inner, Goto, console
  <1>2. /\ pos' \in 1 .. Len(input) + 1 /\ eof' \in BOOLEAN
        /\ \/ ok' = [ok EXCEPT ![t] = FALSE] /\ answers' = answers
           \/ /\ ok' = [ok EXCEPT ![t] = TRUE]
              /\ \E a \in Seq(STRING) :
                   /\ Len(a) < BUFSIZ - 1
                   /\ answers' = [answers EXCEPT ![t] = Append(answers[t], a)]
    BY LineRead
  <1>3. /\ \A u \in Threads \ {t} : pc'[u] = pc[u] /\ ok'[u] = ok[u] /\ answers'[u] = answers[u]
        /\ pc'[t] = "restore" /\ ok' \in [Threads -> BOOLEAN]
    BY <1>1, <1>2 DEF IInv, ModeTypeOK, FlowInv, StreamOk
  <1>4. /\ FlowOk(t) /\ answers[t] \in Seq(Seq(STRING)) /\ Len(answers[t]) \in Nat
        /\ Len(script[t]) \in Nat /\ i[t] \in Nat
    BY FlowTypes DEF FlowInv
  <1>5. /\ answers' \in [Threads -> Seq(Seq(STRING))]
        /\ Len(answers'[t]) <= Len(answers[t]) + 1 /\ Len(answers'[t]) \in Nat
        /\ \A n \in DOMAIN answers'[t] : Len(answers'[t][n]) < BUFSIZ - 1
    <2>1. CASE answers' = answers
      BY <1>4, <2>1 DEF FlowInv, StreamOk, FlowOk
    <2>2. ASSUME NEW a \in Seq(STRING), Len(a) < BUFSIZ - 1,
                 answers' = [answers EXCEPT ![t] = Append(answers[t], a)]
          PROVE  /\ answers' \in [Threads -> Seq(Seq(STRING))]
                 /\ Len(answers'[t]) <= Len(answers[t]) + 1 /\ Len(answers'[t]) \in Nat
                 /\ \A n \in DOMAIN answers'[t] : Len(answers'[t][n]) < BUFSIZ - 1
      <3> DEFINE b == Append(answers[t], a)
      <3>1. /\ b \in Seq(Seq(STRING)) /\ Len(b) = Len(answers[t]) + 1
            /\ DOMAIN b = 1 .. Len(answers[t]) + 1
            /\ \A n \in 1 .. Len(answers[t]) : b[n] = answers[t][n]
            /\ b[Len(answers[t]) + 1] = a
            /\ DOMAIN answers[t] = 1 .. Len(answers[t])
        BY <1>4, AppendProperties
      <3> HIDE DEF b
      <3>2. \A n \in DOMAIN b : Len(b[n]) < BUFSIZ - 1
        <4>1. \A n \in 1 .. Len(answers[t]) : Len(answers[t][n]) < BUFSIZ - 1
          BY <1>4, <3>1 DEF FlowOk
        <4>2. \A n \in DOMAIN b : n \in 1 .. Len(answers[t]) \/ n = Len(answers[t]) + 1
          <5>1. Len(answers[t]) \in Nat /\ DOMAIN b = 1 .. Len(answers[t]) + 1
            BY <1>4, <3>1
          <5> QED
            BY <5>1
        <4> QED
          BY <2>2, <3>1, <4>1, <4>2
      <3>3. answers'[t] = b /\ answers' \in [Threads -> Seq(Seq(STRING))]
        BY <2>2, <3>1 DEF b, FlowInv, StreamOk
      <3> QED
        BY <1>4, <3>1, <3>2, <3>3
    <2> QED
      BY <1>2, <2>1, <2>2
  <1>6. StreamOk'
    BY <1>1, <1>2, <1>3, <1>5 DEF FlowInv, StreamOk
  <1>7. FlowOk(t)'
    <2>1. Cur(t)' = Cur(t)
      BY <1>1 DEF Cur
    <2>2. Reads(Cur(t)') <=> Reads(Cur(t))
      BY <2>1
    <2> QED
      BY <1>1, <1>3, <1>4, <1>5, <2>2 DEF FlowOk
  <1>8. ASSUME NEW u \in Threads \ {t} PROVE FlowOk(u)'
    BY <1>1, <1>3, <1>8, FlowFrame DEF FlowInv
  <1> QED
    BY <1>6, <1>7, <1>8 DEF FlowInv

\* The next string, or the end of the session.
LEMMA echo_consoleFlow ==
  ASSUME IInv, FlowInv, NEW t \in Threads, echo_console(t)
  PROVE  FlowInv'
  <1>1. /\ pc[t] = "restore"
        /\ \/ pc' = [pc EXCEPT ![t] = "string"] /\ i' = [i EXCEPT ![t] = i[t] + 1]
           \/ pc' = [pc EXCEPT ![t] = "close"] /\ i' = i
        /\ ok' = [ok EXCEPT ![t] = FALSE]
        /\ UNCHANGED <<stdin, input, pos, eof, held, script, answers, sessions, openFailed>>
    BY DEF echo_console, Goto
  <1>2. StreamOk'
    BY <1>1 DEF FlowInv, StreamOk
  <1>3. FlowOk(t)'
    <2>1. /\ FlowOk(t) /\ Len(answers[t]) \in Nat /\ Len(script[t]) \in Nat /\ i[t] \in Nat
          /\ ok'[t] = FALSE /\ script'[t] = script[t]
          /\ \/ pc'[t] = "string" /\ i'[t] = i[t] + 1
             \/ pc'[t] = "close" /\ i'[t] = i[t]
      <3>1. FlowOk(t) /\ Len(answers[t]) \in Nat /\ Len(script[t]) \in Nat /\ i[t] \in Nat
        BY FlowTypes DEF FlowInv
      <3>2. ok'[t] = FALSE /\ script'[t] = script[t]
        BY <1>1 DEF FlowInv, StreamOk
      <3>3. \/ pc'[t] = "string" /\ i'[t] = i[t] + 1
            \/ pc'[t] = "close" /\ i'[t] = i[t]
        BY <1>1 DEF IInv, ModeTypeOK
      <3> QED
        BY <3>1, <3>2, <3>3
    <2> QED
      BY <1>1, <2>1 DEF FlowOk
  <1>4. ASSUME NEW u \in Threads \ {t} PROVE FlowOk(u)'
    <2>1. pc'[u] = pc[u] /\ i'[u] = i[u] /\ ok'[u] = ok[u]
      BY <1>1, <1>4 DEF FlowInv, StreamOk, IInv, ModeTypeOK
    <2> QED
      BY <1>1, <1>4, <2>1, FlowFrame DEF FlowInv
  <1> QED
    BY <1>2, <1>3, <1>4 DEF FlowInv

\* The lock is given back as often as it was taken.
LEMMA close_consoleFlow ==
  ASSUME IInv, FlowInv, NEW t \in Threads, close_console(t)
  PROVE  FlowInv'
  <1>1. /\ pc[t] = "close" /\ pc' = [pc EXCEPT ![t] = "idle"]
        /\ held' = [held EXCEPT ![t]["UI"] = @ - 1] /\ held[t]["UI"] > 0
        /\ script' = [script EXCEPT ![t] = <<>>] /\ i' = [i EXCEPT ![t] = 1]
        /\ answers' = [answers EXCEPT ![t] = <<>>]
        /\ UNCHANGED <<stdin, input, pos, eof, ok, sessions, openFailed>>
    BY DEF close_console, Goto, UnlockUI, Lock!Release, console
  <1>2. StreamOk'
    <2>1. <<>> \in Seq(Seq(STRING))
      OBVIOUS
    <2> QED
      BY <1>1, <2>1 DEF FlowInv, StreamOk
  <1>3. /\ pc'[t] = "idle" /\ script'[t] = <<>> /\ i'[t] = 1 /\ answers'[t] = <<>>
        /\ held'[t]["UI"] = held[t]["UI"] - 1
        /\ \A u \in Threads \ {t} : /\ pc'[u] = pc[u] /\ script'[u] = script[u] /\ i'[u] = i[u]
                                     /\ answers'[u] = answers[u] /\ held'[u]["UI"] = held[u]["UI"]
    BY <1>1 DEF FlowInv, StreamOk, IInv, ModeTypeOK
  <1>4. FlowOk(t)'
    <2>1. FlowOk(t) /\ held[t]["UI"] \in Nat
      BY FlowTypes DEF FlowInv
    <2> QED
      BY <1>1, <1>3, <2>1 DEF FlowOk
  <1>5. ASSUME NEW u \in Threads \ {t} PROVE FlowOk(u)'
    BY <1>1, <1>3, <1>5, FlowFrame DEF FlowInv
  <1> QED
    BY <1>2, <1>4, <1>5 DEF FlowInv

\* Every step preserves it.
LEMMA NextFlow == IInv /\ FlowInv /\ [Next]_vars => FlowInv'
  <1> SUFFICES ASSUME IInv, FlowInv, [Next]_vars PROVE FlowInv'
    OBVIOUS
  <1>1. CASE UNCHANGED vars
    BY <1>1 DEF vars, FlowInv, StreamOk, FlowOk, Cur
  <1>2. ASSUME NEW t \in Threads, UI_process(t) \/ Step(t) PROVE FlowInv'
    BY <1>2, UI_processFlow, open_consoleFlow, QuietFlow, read_string_innerFlow,
       echo_consoleFlow, close_consoleFlow DEF Step
  <1> QED
    BY <1>1, <1>2 DEF Next

(***************************************************************************)
(* The lines are read right in every reachable state.                      *)
(***************************************************************************)
THEOREM Flow == Spec => []FlowInv
  BY InitFlow, NextFlow, Invariant, PTL DEF Spec

(***************************************************************************)
(* Between answers the console is as the program found it, unless it       *)
(* refused to take its mode back in echo_console; and the stream, the      *)
(* strings and the answers of every session are well typed.                *)
(***************************************************************************)
THEOREM Restored == Spec => []EchoRestored
  <1>1. IInv /\ FlowInv => EchoRestored
    <2> SUFFICES ASSUME IInv, FlowInv PROVE EchoRestored
      OBVIOUS
    <2>1. EchoBack
      BY DEF IInv, ModeInv, Reading, EchoBack
    <2>2. held \in [Threads -> [{"UI"} -> 0 .. MaxSessions]]
      <3>1. \A t \in Threads : held[t]["UI"] \in 0 .. MaxSessions
        BY FlowTypes DEF FlowInv, FlowOk
      <3> QED
        BY <3>1 DEF IInv, ModeTypeOK
    <2>3. sessions \in [Threads -> 0 .. MaxSessions]
      BY DEF FlowInv, StreamOk, FlowOk
    <2>4. \A t \in Threads :
            /\ i[t] \in 1 .. Len(script[t]) + 1
            /\ pc[t] \in {"read", "restore"} => i[t] <= Len(script[t]) /\ Reads(Cur(t))
            /\ Len(answers[t]) <= Len(script[t])
            /\ \A n \in DOMAIN answers[t] : Len(answers[t][n]) < BUFSIZ - 1
      BY DEF FlowInv, FlowOk
    <2>5. /\ stdin \in Kinds
          /\ {original, echo, console_mode, eof, setFailed, openFailed} \subseteq BOOLEAN
          /\ input \in Inputs /\ pos \in 1 .. Len(input) + 1 /\ ok \in [Threads -> BOOLEAN]
      BY DEF FlowInv, StreamOk, IInv, ModeTypeOK
    <2>6. pc \in [Threads -> {"idle", "open", "failed", "write", "string", "read", "restore",
                            "close"}]
      BY DEF IInv, ModeTypeOK
    <2>7. TypeOK
      BY <2>2, <2>3, <2>4, <2>5, <2>6, Zenon DEF TypeOK
    <2> QED
      BY <2>1, <2>7 DEF EchoRestored
  <1> QED
    BY <1>1, Invariant, Flow, PTL

(***************************************************************************)
(* An accepted answer takes exactly one line off the input and is that     *)
(* line as far as it fits, however long the line is and whatever the size  *)
(* of the buffer: fgets() and read_till_nl() together neither leave a tail *)
(* of it nor touch the next line.                                          *)
(***************************************************************************)
THEOREM OneLine == Spec => OneLineEach
  <1> DEFINE Read ==
        \A t \in Threads :
          pc[t] = "read" /\ ok'[t] =>
            LET end == LineEnd(pos) IN
              /\ end <= Len(input) /\ pos' = end + 1
              /\ Cut(Last(answers'[t])) = SubSeq(input, pos, Min({end - 1, pos + BUFSIZ - 3}))
  <1>1. IInv /\ FlowInv /\ [Next]_vars => [Read]_vars
    <2> SUFFICES ASSUME IInv, FlowInv, Next, NEW t \in Threads, pc[t] = "read", ok'[t]
                 PROVE  /\ LineEnd(pos) <= Len(input) /\ pos' = LineEnd(pos) + 1
                        /\ Cut(Last(answers'[t]))
                             = SubSeq(input, pos, Min({LineEnd(pos) - 1, pos + BUFSIZ - 3}))
      OBVIOUS
    <2>1. ~ok[t] /\ ok \in [Threads -> BOOLEAN]
      BY DEF FlowInv, FlowOk, StreamOk
    <2>2. read_string_inner(t)
      <3>1. PICK u \in Threads : UI_process(u) \/ Step(u)
        BY DEF Next
      <3>2. CASE UI_process(u)
        BY <2>1, <3>2 DEF UI_process
      <3>3. CASE open_console(u) \/ write_string(u) \/ read_string(u)
        BY <2>1, <3>3 DEF open_console, write_string, read_string, local
      <3>4. CASE OpenFailed(u) \/ SkipString(u) \/ close_console(u)
        BY <2>1, <3>4 DEF OpenFailed, SkipString, close_console
      <3>5. CASE echo_console(u)
        BY <2>1, <3>5 DEF echo_console
      <3>6. CASE read_string_inner(u)
        <4>1. ok' = [ok EXCEPT ![u] = TRUE] \/ ok' = [ok EXCEPT ![u] = FALSE]
          BY <3>6 DEF read_string_inner
        <4>2. u = t
          BY <2>1, <4>1
        <4> QED
          BY <3>6, <4>2
      <3> QED
        BY <3>1, <3>2, <3>3, <3>4, <3>5, <3>6 DEF Step
    <2>3. PICK a \in Seq(STRING) :
            /\ LineEnd(pos) <= Len(input) /\ pos' = LineEnd(pos) + 1
            /\ Cut(a) = SubSeq(input, pos, Min({LineEnd(pos) - 1, pos + BUFSIZ - 3}))
            /\ answers' = [answers EXCEPT ![t] = Append(answers[t], a)]
      <3>1. ok' # [ok EXCEPT ![t] = FALSE]
        BY <2>1
      <3> QED
        BY <2>2, <3>1, LineRead
    <2>4. Last(answers'[t]) = a
      <3>1. answers'[t] = Append(answers[t], a) /\ answers[t] \in Seq(Seq(STRING))
        BY <2>3 DEF FlowInv, StreamOk
      <3> QED
        BY <3>1 DEF Last
    <2> QED
      BY <2>3, <2>4
  <1> QED
    BY <1>1, Invariant, Flow, PTL DEF Spec, OneLineEach

=============================================================================
