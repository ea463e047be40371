----------------------------- MODULE UiConsole -----------------------------
(***************************************************************************)
(* crypto/compat/ui_openssl_win.c: the default user interface on Windows.  *)
(*                                                                         *)
(* UI_process() of libcrypto (external) opens a session, writes the        *)
(* strings, reads the answers one by one until one fails, and closes the   *)
(* session.  Sessions of several threads share the console, standard input *)
(* and the file's static variables; CRYPTO_LOCK_UI, a lock of the table    *)
(* that CRYPTO_lock implements, is held from opening to closing.           *)
(***************************************************************************)
EXTENDS Integers, Sequences, SequencesExt

CONSTANTS Threads,
          Kinds,        \* what standard input may be
          Inputs,       \* what the user may type: sequences of characters
          Scripts,      \* the strings of a session, in order
          BUFSIZ,
          MaxSessions   \* bound: calls of UI_process per thread

ASSUME UiConsoleAssumption ==
  /\ Kinds \subseteq {"console", "nul", "pipe", "none"}
  /\ BUFSIZ \in Nat /\ BUFSIZ > 2 /\ MaxSessions \in Nat
  /\ Inputs \subseteq Seq(STRING) /\ Scripts \subseteq Seq([type : STRING, echo : BOOLEAN])

VARIABLES stdin,         \* console; nul (a character device, no console); pipe; none (no handle)
          original, echo,  \* is ENABLE_ECHO_INPUT set: at the start and now
          console_mode,  \* the static variable
          input, pos,    \* what tty_in holds, and the next character to be read
          eof,           \* feof(tty_in)
          held,          \* CRYPTO_LOCK_UI
          pc, script, i, \* where each thread is, and its string of the session
          ok,            \* ok of read_string_inner
          answers,       \* the results so far
          sessions,
          setFailed,     \* ghost: the console refused to take its mode back
          openFailed     \* ghost: some open_console failed

console == <<stdin, original, setFailed, input>>
local == <<script, i, ok, answers>>
vars == <<stdin, original, echo, console_mode, input, pos, eof, held, pc, script, i, ok, answers,
          sessions, setFailed, openFailed>>

Newline == "\n"
Lock == INSTANCE LockTable WITH LockTypes <- {"UI"}
Cur(t) == script[t][i[t]]
Reads(s) == s.type \in {"BOOLEAN", "PROMPT", "VERIFY"}

TypeOK ==
  /\ stdin \in Kinds /\ {original, echo, console_mode, eof, setFailed, openFailed} \subseteq BOOLEAN
  /\ input \in Inputs /\ pos \in 1 .. Len(input) + 1
  /\ held \in [Threads -> [{"UI"} -> 0 .. MaxSessions]]
  /\ pc \in [Threads -> {"idle", "open", "failed", "write", "string", "read", "restore", "close"}]
  /\ \A t \in Threads :
       /\ i[t] \in 1 .. Len(script[t]) + 1
       /\ pc[t] \in {"read", "restore"} => i[t] <= Len(script[t]) /\ Reads(Cur(t))
       /\ Len(answers[t]) <= Len(script[t])
       /\ \A n \in DOMAIN answers[t] : Len(answers[t][n]) < BUFSIZ - 1
  /\ ok \in [Threads -> BOOLEAN] /\ sessions \in [Threads -> 0 .. MaxSessions]

Init ==
  /\ stdin \in Kinds /\ original \in BOOLEAN /\ echo = original /\ console_mode = FALSE
  /\ input \in Inputs /\ pos = 1 /\ eof = FALSE
  /\ Lock!Init
  /\ pc = [t \in Threads |-> "idle"] /\ script = [t \in Threads |-> <<>>]
  /\ i = [t \in Threads |-> 1] /\ ok = [t \in Threads |-> FALSE]
  /\ answers = [t \in Threads |-> <<>>]
  /\ sessions = [t \in Threads |-> 0] /\ setFailed = FALSE /\ openFailed = FALSE

Goto(t, from, to) == pc[t] = from /\ pc' = [pc EXCEPT ![t] = to]

-----------------------------------------------------------------------------
\* stdio: fgets(buf, size, in) reads up to size - 1 characters and not past a newline.

\* Where the line that p is in ends: at its newline, or behind the string.
EndOfLine(s, p) ==
  CHOOSE k \in p .. Len(s) + 1 :
    /\ k = Len(s) + 1 \/ s[k] = Newline
    /\ \A j \in p .. k - 1 : s[j] # Newline

LineEnd(p) == EndOfLine(input, p)

fgets(p, size) ==
  LET n == Min({p + size - 1, LineEnd(p) + 1, Len(input) + 1})
  IN  [buf |-> SubSeq(input, p, n - 1), next |-> n,
       newline |-> n > p /\ input[n - 1] = Newline,
       eof |-> n < p + size - 1 /\ (n = p \/ input[n - 1] # Newline)]

\* Chunks of SIZE - 1 characters until one holds a newline; an empty one is NULL.
SIZE == 4
chunks[k \in 1 .. Len(input) + 1] ==
  LET r == fgets(k, SIZE)
  IN  IF r.buf = <<>> THEN [ok |-> FALSE, next |-> k]
      ELSE IF r.newline THEN [ok |-> TRUE, next |-> r.next]
      ELSE chunks[r.next]

\* A mutation: what does not fit into the buffer stays in the stream.
LeaveTail(p) == [ok |-> TRUE, next |-> p]

read_till_nl(p) == chunks[p]

-----------------------------------------------------------------------------
\* UI_process begins: the strings were added by the caller.
UI_process(t) ==
  /\ Goto(t, "idle", "open") /\ sessions[t] < MaxSessions
  /\ sessions' = [sessions EXCEPT ![t] = @ + 1]
  /\ \E s \in Scripts : script' = [script EXCEPT ![t] = s]
  /\ UNCHANGED <<console, echo, console_mode, pos, eof, held, i, ok, answers, openFailed>>

\* A mutation: the lock keeps nobody out.
LockBlindly(t) == held' = [held EXCEPT ![t]["UI"] = @ + 1]

\* CRYPTO_w_lock(CRYPTO_LOCK_UI)
LockUI(t) == Lock!Acquire(t, "UI")

\* The lock is taken first, and every return keeps it.
open_console(t) ==
  /\ LockUI(t)
  /\ \/ Goto(t, "open", "write") /\ stdin = "console" /\ console_mode' = echo /\ UNCHANGED openFailed
     \/ Goto(t, "open", "write") /\ stdin = "pipe" /\ UNCHANGED <<console_mode, openFailed>>
     \/ /\ Goto(t, "open", "failed") /\ stdin \in {"nul", "none"}
        /\ openFailed' = TRUE /\ UNCHANGED console_mode
  /\ UNCHANGED <<console, echo, pos, eof, local, sessions>>

\* UI_process does not go on; whether it closes the session is not in this repository.
OpenFailed(t) ==
  /\ Goto(t, "failed", "idle") \/ Goto(t, "failed", "close")
  /\ script' = [script EXCEPT ![t] = <<>>]
  /\ UNCHANGED <<console, echo, console_mode, pos, eof, held, i, ok, answers, sessions, openFailed>>

\* Prints what is not a prompt, and returns 1 for every string.
write_string(t) ==
  /\ Goto(t, "write", "string")
  /\ UNCHANGED <<console, echo, console_mode, pos, eof, held, local, sessions, openFailed>>

\* noecho_console: SetConsoleMode may fail; a pipe has no echo.
noecho_console ==
  \/ stdin = "console" /\ echo' = FALSE
  \/ stdin = "pipe" /\ UNCHANGED echo

\* read_string with a string that is not read, or after the last one
SkipString(t) ==
  /\ pc[t] = "string"
  /\ \/ i[t] > Len(script[t]) /\ Goto(t, "string", "close") /\ UNCHANGED i
     \/ /\ i[t] <= Len(script[t]) /\ ~Reads(Cur(t))
        /\ i' = [i EXCEPT ![t] = @ + 1] /\ UNCHANGED pc
  /\ UNCHANGED <<console, echo, console_mode, pos, eof, held, script, ok, answers, sessions, openFailed>>

\* The prompt; then echo is switched off unless the string is echoed.
read_string(t) ==
  /\ pc[t] = "string" /\ i[t] <= Len(script[t]) /\ Reads(Cur(t))
  /\ \/ Goto(t, "string", "read") /\ (IF Cur(t).echo THEN UNCHANGED echo ELSE noecho_console)
     \/ /\ ~Cur(t).echo /\ stdin = "console"
        /\ Goto(t, "string", "close") /\ UNCHANGED echo   \* ps = 1, return 0
  /\ UNCHANGED <<console, console_mode, pos, eof, held, local, sessions, openFailed>>

\* *strchr(s, '\n') = '\0', unless there is no newline
Cut(s) == SubSeq(s, 1, EndOfLine(s, 1) - 1)

Strip(t, s) == IF Cur(t).type = "BOOLEAN" THEN s ELSE Cut(s)

maxsize == BUFSIZ - 1

\* fgets, the tests of the stream, read_till_nl, UI_set_result (which may refuse the answer)
read_string_inner(t) ==
  LET r == fgets(pos, maxsize)
      failed == r.buf = <<>> \/ r.eof \/ eof
      tail == IF failed \/ r.newline THEN [ok |-> ~failed, next |-> r.next]
              ELSE read_till_nl(r.next)
  IN  /\ Goto(t, "read", "restore")
      /\ eof' = (eof \/ r.eof \/ ~tail.ok)
      /\ pos' = tail.next
      /\ \/ /\ tail.ok /\ ok' = [ok EXCEPT ![t] = TRUE]
            /\ answers' = [answers EXCEPT ![t] = Append(@, Strip(t, r.buf))]
         \/ ok' = [ok EXCEPT ![t] = FALSE] /\ UNCHANGED answers
      /\ UNCHANGED <<console, echo, console_mode, held, script, i, sessions, openFailed>>

\* A mutation: the mode is only put back after a complete answer.
RestoresIfOk(t) == ok[t]

\* ps >= 2 && !echo, whatever happened since
Restores(t) == TRUE

\* VERIFY: strcmp with the answer to the prompt before it
Verified(t) ==
  Cur(t).type = "VERIFY" =>
    Len(answers[t]) > 1 /\ answers[t][Len(answers[t])] = answers[t][Len(answers[t]) - 1]

\* error: echo_console, and what UI_process makes of the result
echo_console(t) ==
  LET sets == ~Cur(t).echo /\ stdin = "console" /\ Restores(t) IN
  /\ pc[t] = "restore"
  /\ \/ /\ echo' = IF sets THEN console_mode ELSE echo
        /\ UNCHANGED setFailed
        /\ IF ok[t] /\ Verified(t)
           THEN Goto(t, "restore", "string") /\ i' = [i EXCEPT ![t] = @ + 1]
           ELSE Goto(t, "restore", "close") /\ UNCHANGED i
     \/ /\ sets /\ setFailed' = TRUE /\ UNCHANGED <<echo, i>>
        /\ Goto(t, "restore", "close")
  /\ ok' = [ok EXCEPT ![t] = FALSE]
  /\ UNCHANGED <<stdin, original, input, console_mode, pos, eof, held, script, answers, sessions, openFailed>>

\* A mutation: the lock is kept.
UnlockForgotten(t) == UNCHANGED held

\* CRYPTO_w_unlock(CRYPTO_LOCK_UI)
UnlockUI(t) == Lock!Release(t, "UI")

close_console(t) ==
  /\ Goto(t, "close", "idle")
  /\ UnlockUI(t)
  /\ script' = [script EXCEPT ![t] = <<>>] /\ i' = [i EXCEPT ![t] = 1]
  /\ answers' = [answers EXCEPT ![t] = <<>>]
  /\ UNCHANGED <<console, echo, console_mode, pos, eof, ok, sessions, openFailed>>

Step(t) ==
  \/ open_console(t) \/ OpenFailed(t) \/ write_string(t) \/ SkipString(t) \/ read_string(t)
  \/ read_string_inner(t) \/ echo_console(t) \/ close_console(t)

Next == \E t \in Threads : UI_process(t) \/ Step(t)

Spec == Init /\ [][Next]_vars

\* A thread in UI_process runs on; reading ends, if only at the end of the input.
FairSpec == Spec /\ \A t \in Threads : WF_vars(Step(t))

-----------------------------------------------------------------------------
(***************************************************************************)
(* While an answer that is not to be seen is read from the console, its    *)
(* echo is off, whatever sessions other threads begin and end.             *)
(***************************************************************************)
HiddenWhileReading ==
  \A t \in Threads : pc[t] = "read" /\ stdin = "console" /\ ~Cur(t).echo => ~echo

\* The mode that the program found, whenever no answer is being read.
EchoBack ==
  (\A t \in Threads : pc[t] \notin {"read", "restore"}) /\ ~setFailed => echo = original

(***************************************************************************)
(* Between answers the console is as the program found it: no session      *)
(* takes another's mode without echo for the one to put back, and every    *)
(* failure of read_string_inner after noecho_console passes echo_console.  *)
(***************************************************************************)
EchoRestored == TypeOK /\ EchoBack

(***************************************************************************)
(* An accepted answer takes exactly one line off the input and is that     *)
(* line as far as it fits the buffer: the tail of a long line is never     *)
(* the answer to the next prompt, and a line without end is no answer.     *)
(***************************************************************************)
OneLineEach ==
  [][\A t \in Threads :
       pc[t] = "read" /\ ok'[t] =>
         LET end == LineEnd(pos) IN
           /\ end <= Len(input) /\ pos' = end + 1
           /\ Cut(Last(answers'[t])) = SubSeq(input, pos, Min({end - 1, pos + BUFSIZ - 3}))]_vars

(***************************************************************************)
(* A thread that waits for the console gets it, as long as no session      *)
(* failed to open.                                                         *)
(***************************************************************************)
OpenReturns ==
  \A t \in Threads : pc[t] = "open" ~> (pc[t] # "open" \/ openFailed)

(***************************************************************************)
(* A failed open_console does not keep CRYPTO_LOCK_UI: "Unlock             *)
(* CRYPTO_LOCK_UI on ui_open_session() failure to avoid a deadlock"        *)
(* (ChangeLog).  It does: both of its failures return with the lock held.  *)
(***************************************************************************)
FailedOpenUnlocks ==
  \A t \in Threads : pc[t] = "failed" => held[t]["UI"] = 0

=============================================================================
