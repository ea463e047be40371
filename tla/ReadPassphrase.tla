--------------------------- MODULE ReadPassphrase ---------------------------
(***************************************************************************)
(* apps/nc/compat/readpassphrase.c: prompt for a secret with echo off.     *)
(*                                                                         *)
(* Any handled signal may arrive between any two steps, and the terminal   *)
(* sends SIGTTIN and SIGTTOU to a process in the background.  The function *)
(* replaces their dispositions, turns the terminal's echo off, reads a     *)
(* line, puts everything back and sends itself the signals that it caught; *)
(* a stop signal makes it start over.  The signals it handles are taken in *)
(* the order of SigOrder; those in Plain are installed with sigaction(),   *)
(* the others with sigaction_except_ign().                                 *)
(***************************************************************************)
EXTENDS Integers, Sequences

CONSTANTS SigOrder,     \* the handled signals, in the order of the code
          Plain,        \* SIGINT and SIGQUIT
          StopSigs,     \* SIGTSTP, SIGTTIN, SIGTTOU
          TTIN, TTOU,
          InitialDisps, \* dispositions the caller may have installed
          FlagSets,     \* values of the argument flags
          BufSizes,     \* values of the argument bufsiz
          TtyFds,       \* what open("/dev/tty") may return; -1 is failure
          Chars,        \* characters the user may type, other than newline
          SigMax,       \* bound: signals from outside
          BgMax         \* bound: moves to the background

Signals == {SigOrder[i] : i \in DOMAIN SigOrder}
Dispositions == {"DFL", "IGN", "USER", "handler"}
Flags == {"ECHO_ON", "REQUIRE_TTY", "FORCELOWER", "FORCEUPPER", "SEVENBIT", "STDIN"}
Letters == {"a", "A", "hA", "1"}     \* hA is A with the eighth bit set

ASSUME ReadPassphraseAssumption ==
  /\ Plain \subseteq Signals /\ {TTIN, TTOU} \subseteq StopSigs /\ StopSigs \subseteq Signals
  /\ SigOrder \in Seq(Signals) /\ TTIN # TTOU
  /\ \A j, k \in DOMAIN SigOrder : SigOrder[j] = SigOrder[k] => j = k
  /\ InitialDisps \subseteq [Signals -> Dispositions \ {"handler"}]
  /\ FlagSets \subseteq SUBSET Flags /\ BufSizes \subseteq Nat
  /\ TtyFds \subseteq Int /\ Chars \subseteq Letters
  /\ SigMax \in Nat /\ BgMax \in Nat

VARIABLES flags, bufsiz,     \* arguments
          pc, i,             \* where the call is; the signal being treated
          disp, save,        \* dispositions: current, saved by the call
          signo,             \* the static array signo[]
          input,             \* the descriptor read from, -1 before open
          echo,              \* the terminal's ECHO
          techo, oecho,      \* ECHO in term and in oterm
          changed,           \* term differs from oterm
          sigttou,           \* the local of that name
          buf, nr, result,   \* what was stored, read()'s last answer, the return value
          proc, fg,          \* process state, foreground
          intr,              \* the system call that is made, or was made last, fails with EINTR
          sigs, bgs,         \* how many signals, moves to the background
          disp0, echo0,      \* ghosts: the state at entry
          caught, resent,    \* ghosts: all signals the handler saw, signals sent on
          late,              \* ghost: SIGTTOU was caught between lines 179 and 185, not before
          gaveUp             \* ghost: tcsetattr() has failed after a SIGTTOU was caught

given == <<flags, bufsiz, disp0, echo0>>
disps == <<disp, save>>
seen == <<signo, caught, late>>
term == <<input, echo, techo, oecho, changed, sigttou, gaveUp>>
line == <<buf, nr, result>>
at == <<pc, i>>
world == <<proc, fg, sigs, bgs>>
vars == <<flags, bufsiz, pc, i, disp, save, signo, input, echo, techo, oecho, changed, sigttou,
          buf, nr, result, proc, fg, intr, sigs, bgs, disp0, echo0, caught, resent, late, gaveUp>>

Steps == {"restart", "open", "noecho", "install", "reinstate", "prompt", "read", "finish",
          "sigttou", "restoreterm", "dropttou", "restoresig", "close", "resend", "returned"}

ArgsOk == flags \in FlagSets /\ bufsiz \in BufSizes /\ disp0 \in InitialDisps /\ echo0 = TRUE

PlaceOk ==
  /\ pc \in Steps /\ i \in 1 .. Len(SigOrder) + 1
  /\ pc \in {"install", "reinstate", "restoresig"} => i <= Len(SigOrder)

SignalsOk ==
  /\ disp \in [Signals -> Dispositions] /\ save \in [Signals -> Dispositions]
  /\ signo \subseteq Signals /\ caught \subseteq Signals /\ resent \subseteq Signals
  /\ late \in BOOLEAN

TermOk ==
  /\ input \in TtyFds \cup {-1, 0}
  /\ echo \in BOOLEAN /\ techo \in BOOLEAN /\ oecho \in BOOLEAN /\ changed \in BOOLEAN
  /\ sigttou \in BOOLEAN /\ gaveUp \in BOOLEAN

LineOk ==
  /\ buf \in Seq(Letters) /\ (bufsiz > 0 => Len(buf) < bufsiz)  \* the NUL fits too
  /\ nr \in -1 .. 1 /\ result \in {"none", "NULL", "buf"}

WorldOk ==
  /\ proc \in {"running", "stopped", "killed"} /\ fg \in BOOLEAN /\ intr \in BOOLEAN
  /\ sigs \in 0 .. SigMax /\ bgs \in 0 .. BgMax

TypeOK == ArgsOk /\ PlaceOk /\ SignalsOk /\ TermOk /\ LineOk /\ WorldOk

Init ==
  /\ flags \in FlagSets /\ bufsiz \in BufSizes
  /\ pc = "restart" /\ i = 1
  /\ disp0 \in InitialDisps /\ disp = disp0 /\ save = disp0
  /\ signo = {} /\ input = -1
  /\ echo0 = TRUE /\ echo = TRUE /\ techo = TRUE /\ oecho = TRUE /\ changed = FALSE
  /\ buf = <<>> /\ nr = -1 /\ result = "none"
  /\ proc = "running" /\ fg = TRUE /\ intr = FALSE /\ sigs = 0 /\ bgs = 0
  /\ sigttou = FALSE /\ caught = {} /\ resent = {} /\ late = FALSE /\ gaveUp = FALSE

-----------------------------------------------------------------------------
At(l) == proc = "running" /\ pc = l
Sig == SigOrder[i]

\* Between lines 179 and 185, where signo[SIGTTOU] will be put back to what it was.
PutsBack == pc \in {"restoreterm", "dropttou"}

\* static void handler(int s)
handler(s) ==
  /\ signo' = signo \cup {s}
  /\ caught' = caught \cup {s}
  /\ late' = IF s = TTOU THEN PutsBack /\ (late \/ TTOU \notin caught) ELSE late

\* write() to the terminal: from the background it raises SIGTTOU where TOSTOP is set.
Write ==
  \/ UNCHANGED seen
  \/ ~fg /\ disp[TTOU] = "handler" /\ handler(TTOU)

\* The default action of a signal.
DefaultAction(s) == IF s \in StopSigs THEN "stopped" ELSE "killed"

-----------------------------------------------------------------------------
\* The argument test, then the label restart.
Restart ==
  /\ At("restart")
  /\ IF bufsiz = 0
     THEN pc' = "returned" /\ result' = "NULL" /\ UNCHANGED <<seen, resent, nr>>
     ELSE /\ pc' = "open" /\ signo' = {} /\ nr' = -1
          /\ caught' = {} /\ resent' = {} /\ late' = FALSE
          /\ UNCHANGED result
  /\ UNCHANGED <<given, disps, term, world, i, buf, intr>>

OpenTty ==
  /\ At("open")
  /\ \E fd \in IF "STDIN" \in flags THEN {-1} ELSE TtyFds :
       IF fd = -1
       THEN IF "REQUIRE_TTY" \in flags
            THEN pc' = "returned" /\ result' = "NULL" /\ UNCHANGED input
            ELSE pc' = "noecho" /\ input' = 0 /\ UNCHANGED result
       ELSE pc' = "noecho" /\ input' = fd /\ UNCHANGED result
  /\ UNCHANGED <<given, disps, seen, resent, world, i, echo, techo, oecho, changed, sigttou,
                 gaveUp, buf, nr, intr>>

\* What tcsetattr() sets; *term differs from *oterm also where VSTATUS exists and is disabled.
SetsEcho(e) ==
  /\ oecho' = echo /\ techo' = (echo /\ "ECHO_ON" \in flags)
  /\ changed' \in {techo' # oecho', TRUE}
  /\ echo' = e

\* tcgetattr, tcsetattr.  A background process gets SIGTTOU, and stops if it neither ignores
\* nor catches it.  Where tcgetattr() fails, or is not called, the echo is left alone.
TurnEchoOff ==
  /\ At("noecho")
  /\ \/ /\ input # 0 /\ ~fg /\ disp[TTOU] = "DFL"
        /\ proc' = "stopped"
        /\ UNCHANGED <<at, echo, techo, oecho, changed, intr>>
     \/ /\ input # 0 /\ (fg \/ disp[TTOU] # "DFL")
        /\ SetsEcho(IF ~intr /\ (fg \/ disp[TTOU] = "IGN") THEN techo' ELSE echo)
        /\ pc' = "install" /\ i' = 1 /\ intr' = FALSE
        /\ UNCHANGED proc
     \/ /\ oecho' = TRUE /\ techo' = TRUE /\ changed' = FALSE
        /\ pc' = "install" /\ i' = 1 /\ intr' = FALSE
        /\ UNCHANGED <<echo, proc>>
  /\ UNCHANGED <<given, disps, seen, resent, line, input, sigttou, gaveUp, fg, sigs, bgs>>

NextSig == /\ i' = i + 1
           /\ pc' = IF i = Len(SigOrder) THEN "prompt" ELSE "install"

\* The call is sigaction_except_ign() and there is a SIG_IGN to preserve.
PreservesIgn(s) == s \notin Plain /\ disp[s] = "IGN"

\* A mutation: no handler for the stop signals.
SaHandlerNoStop(s) == IF s \in StopSigs THEN "DFL" ELSE "handler"

\* sa.sa_handler = handler
SaHandler(s) == "handler"

\* sigaction(s, &sa, &saves)
Install ==
  /\ At("install")
  /\ save' = [save EXCEPT ![Sig] = disp[Sig]]
  /\ disp' = [disp EXCEPT ![Sig] = SaHandler(Sig)]
  /\ IF PreservesIgn(Sig)
     THEN pc' = "reinstate" /\ UNCHANGED i
     ELSE NextSig
  /\ UNCHANGED <<given, seen, resent, term, line, world, intr>>

\* sigaction_except_ign: the second sigaction() puts SIG_IGN back
Reinstate ==
  /\ At("reinstate")
  /\ disp' = [disp EXCEPT ![Sig] = "IGN"]
  /\ NextSig
  /\ UNCHANGED <<given, seen, resent, term, line, world, save, intr>>

\* The prompt, unless the input is not a terminal's.
Prompt ==
  /\ At("prompt")
  /\ IF "STDIN" \in flags THEN UNCHANGED seen ELSE Write
  /\ pc' = "read" /\ buf' = <<>> /\ intr' = FALSE
  /\ UNCHANGED <<given, disps, resent, term, world, i, nr, result>>

\* What is stored for a typed character.
Convert(c) ==
  LET d == IF "SEVENBIT" \in flags /\ c = "hA" THEN "A" ELSE c
      e == IF "FORCELOWER" \in flags /\ d = "A" THEN "a" ELSE d
  IN  IF "FORCEUPPER" \in flags /\ e = "a" THEN "A" ELSE e

\* p < end
Room == Len(buf) < bufsiz - 1

\* The tty refuses to be read from the background.
ReadBlocked == input # 0 /\ ~fg

ReadChar ==
  /\ At("read") /\ ~intr /\ ~ReadBlocked
  /\ \E c \in Chars : buf' = IF Room THEN Append(buf, Convert(c)) ELSE buf
  /\ nr' = 1
  /\ UNCHANGED <<given, disps, seen, resent, term, at, world, result, intr>>

\* newline or carriage return (1), end of file (0), an error (-1)
ReadEnds ==
  /\ At("read") /\ ~intr /\ ~ReadBlocked
  /\ nr' \in -1 .. 1 /\ pc' = "finish"
  /\ UNCHANGED <<given, disps, seen, resent, term, world, i, buf, result, intr>>

\* read() fails: a handler ran, or the process is in the background and gets
\* SIGTTIN (EIO if that is ignored)
ReadFails ==
  /\ At("read") /\ (intr \/ ReadBlocked)
  /\ nr' = -1 /\ pc' = "finish"
  /\ IF ~intr /\ disp[TTIN] = "handler" THEN handler(TTIN) /\ intr' = TRUE
     ELSE UNCHANGED <<seen, intr>>
  /\ UNCHANGED <<given, disps, resent, term, world, i, buf, result>>

\* *p = '\0', then the newline that was not echoed, unless read() was interrupted
Finish ==
  /\ At("finish")
  /\ IF ~techo /\ ~(nr = -1 /\ intr) THEN Write ELSE UNCHANGED seen
  /\ pc' = "sigttou" /\ intr' = FALSE
  /\ UNCHANGED <<given, disps, resent, term, line, world, i>>

\* A mutation: in the background tcsetattr() is tried for ever.
RetryAlways(s) == TRUE

\* A mutation: an interrupted tcsetattr() is not tried again.
RetryNo(s) == FALSE

\* The rest of the loop's condition after tcsetattr() failed with EINTR.
Retry(s) == TTOU \notin s

ToRestoreSig == pc' = "restoresig" /\ i' = 1

\* A mutation: an earlier SIGTTOU is not remembered.
ForgetTtou == FALSE

\* signo[SIGTTOU], as it is before the loop
CaughtTtou == TTOU \in signo

\* if (memcmp(&term, &oterm, sizeof(term)) != 0), const int sigttou = signo[SIGTTOU]
SaveTtou ==
  /\ At("sigttou")
  /\ IF changed THEN pc' = "restoreterm" /\ sigttou' = CaughtTtou /\ UNCHANGED i
     ELSE ToRestoreSig /\ UNCHANGED sigttou
  /\ UNCHANGED <<given, disps, seen, resent, line, world, input, echo, techo, oecho, changed,
                 gaveUp, intr>>

\* while (tcsetattr(...) == -1 && errno == EINTR && !signo[SIGTTOU]) continue;
\* From the background tcsetattr() itself raises SIGTTOU.
RestoreTerm ==
  /\ At("restoreterm")
  /\ \/ /\ ~intr /\ (fg \/ disp[TTOU] = "IGN")
        /\ echo' = oecho /\ pc' = "dropttou"
        /\ UNCHANGED <<seen, gaveUp>>
     \/ /\ \/ intr /\ UNCHANGED seen
           \/ ~intr /\ ~fg /\ disp[TTOU] = "handler" /\ handler(TTOU)
        /\ pc' = IF Retry(signo') THEN pc ELSE "dropttou"
        /\ gaveUp' = (gaveUp \/ TTOU \in signo')
        /\ UNCHANGED echo
  /\ intr' = FALSE
  /\ UNCHANGED <<given, disps, resent, line, world, i, input, techo, oecho, changed, sigttou>>

\* signo[SIGTTOU] = sigttou;
DropTtou ==
  /\ At("dropttou")
  /\ signo' = IF sigttou THEN signo \cup {TTOU} ELSE signo \ {TTOU}
  /\ ToRestoreSig
  /\ UNCHANGED <<given, disps, caught, late, resent, term, line, world, intr>>

\* A mutation: the default disposition is set, not the saved one.
RestoredDefault(s) == "DFL"

Restored(s) == save[s]

\* sigaction(s, &saves, NULL).  sigaction_except_ign() would put SIG_IGN back
\* if it found it, but then SIG_IGN is what was saved.
RestoreSig ==
  /\ At("restoresig")
  /\ disp' = [disp EXCEPT ![Sig] = Restored(Sig)]
  /\ i' = IF i = Len(SigOrder) THEN 1 ELSE i + 1
  /\ pc' = IF i = Len(SigOrder) THEN "close" ELSE "restoresig"
  /\ UNCHANGED <<given, seen, resent, term, line, world, save, intr>>

CloseTty ==
  /\ At("close")
  /\ input' = IF input # 0 THEN -1 ELSE input
  /\ pc' = "resend" /\ i' = 1
  /\ UNCHANGED <<given, disps, seen, resent, line, world, echo, techo, oecho, changed, sigttou,
                 gaveUp, intr>>

\* if (signo[i])
MustResend(s) == s \in signo

\* kill(getpid(), i)
Resend ==
  /\ At("resend") /\ i <= Len(SigOrder)
  /\ i' = i + 1
  /\ IF MustResend(Sig)
     THEN /\ resent' = resent \cup {Sig}
          /\ proc' = IF disp[Sig] = "DFL" THEN DefaultAction(Sig) ELSE proc
     ELSE UNCHANGED <<resent, proc>>
  /\ UNCHANGED <<given, disps, seen, term, line, pc, fg, intr, sigs, bgs>>

\* goto restart after a stop signal, or return
Return ==
  /\ At("resend") /\ i = Len(SigOrder) + 1
  /\ IF signo \cap StopSigs # {}
     THEN pc' = "restart" /\ UNCHANGED result
     ELSE pc' = "returned" /\ result' = IF nr = -1 THEN "NULL" ELSE "buf"
  /\ i' = 1
  /\ UNCHANGED <<given, disps, seen, resent, term, world, buf, nr, intr>>

\* A signal from outside: another process, or the keyboard.  A handler, the caller's own too,
\* may interrupt the system call that is being made.
Deliver(s) ==
  /\ proc = "running" /\ pc # "returned" /\ sigs < SigMax
  /\ sigs' = sigs + 1
  /\ IF disp[s] = "handler"
     THEN /\ handler(s)
          /\ intr' \in IF pc \in {"read", "restoreterm"} THEN BOOLEAN ELSE {intr}
          /\ UNCHANGED proc
     ELSE /\ proc' = IF disp[s] = "DFL" THEN DefaultAction(s) ELSE proc
          /\ intr' \in IF pc = "noecho" /\ disp[s] = "USER" THEN BOOLEAN ELSE {intr}
          /\ UNCHANGED seen
  /\ UNCHANGED <<given, disps, term, line, at, resent, fg, bgs>>

\* SIGSTOP, the shell takes the terminal, bg.
Background ==
  /\ proc = "running" /\ pc # "returned" /\ fg /\ bgs < BgMax
  /\ fg' = FALSE /\ bgs' = bgs + 1
  /\ UNCHANGED <<given, disps, seen, resent, term, line, at, proc, intr, sigs>>

\* The shell's fg.
Foreground ==
  /\ proc = "stopped" \/ (~fg /\ proc = "running" /\ pc # "returned")
  /\ proc' = "running" /\ fg' = TRUE
  /\ UNCHANGED <<given, disps, seen, resent, term, line, at, intr, sigs, bgs>>

Done == (proc = "killed" \/ (proc = "running" /\ pc = "returned")) /\ UNCHANGED vars

Step == \/ Restart \/ OpenTty \/ TurnEchoOff \/ Install \/ Reinstate \/ Prompt
        \/ ReadFails \/ Finish \/ SaveTtou \/ RestoreTerm \/ DropTtou
        \/ RestoreSig \/ CloseTty \/ Resend \/ Return

Next == \/ Step \/ ReadChar \/ ReadEnds
        \/ \E s \in Signals : Deliver(s)
        \/ Background \/ Foreground \/ Done

Spec == Init /\ [][Next]_vars

\* The process runs, the user ends the line, and a stopped job is continued.
Fairness ==
  /\ WF_vars(Step) /\ SF_vars(ReadEnds)
  /\ WF_vars(proc = "stopped" /\ Foreground)

FairSpec == Spec /\ Fairness

-----------------------------------------------------------------------------
\* Every handler is in place and none has been taken away.
Protected == pc \in {"prompt", "read", "finish", "sigttou", "restoreterm", "dropttou"}

(***************************************************************************)
(* When readpassphrase returns, or is about to stop or die of a signal it  *)
(* sends on, every disposition is what the caller had installed: SIG_IGN   *)
(* too, and also after several restarts.                                   *)
(***************************************************************************)
DispositionsRestored ==
  /\ TypeOK
  /\ pc \in {"restart", "close", "resend", "returned"} => disp = disp0

\* The loop around tcsetattr() is over, or has not begun.
TermPutBack == pc \in {"restart", "dropttou", "restoresig", "close", "resend", "returned"}

(***************************************************************************)
(* The terminal is left as it was found, after a return and after a        *)
(* restart, wherever the process was moved to the background and back and  *)
(* however often tcsetattr() was interrupted, unless it has failed once    *)
(* with signo[SIGTTOU] set, by its own SIGTTOU in the background or by one *)
(* from anywhere.  That echo stays off, and the next round takes it for    *)
(* the terminal's own.                                                     *)
(***************************************************************************)
EchoRestored == TermPutBack /\ ~gaveUp => echo = echo0

(***************************************************************************)
(* From the prompt until the terminal is restored, none of the handled     *)
(* signals kills or stops the process: it cannot leave echo off.  A signal *)
(* that the caller ignores (all but SIGINT and SIGQUIT) stays ignored, so  *)
(* it cannot interrupt the read: nohup works.                              *)
(***************************************************************************)
ProtectedWhilePrompting ==
  Protected =>
    /\ proc = "running"
    /\ \A s \in Signals \ Plain : disp0[s] = "IGN" => disp[s] = "IGN"

(***************************************************************************)
(* The signals that the handler caught have all been sent on when the call *)
(* returns or starts over: the user's ^C is not lost.  Only a SIGTTOU that *)
(* was first caught while the terminal was being restored is dropped, and  *)
(* that does not drop one from before, as of a prompt that was written in  *)
(* the background, nor one that comes afterwards.                          *)
(***************************************************************************)
NoSignalLost ==
  pc \in {"restart", "returned"} =>
    /\ caught \ {TTOU} \subseteq resent
    /\ TTOU \in caught /\ ~late => TTOU \in resent

(***************************************************************************)
(* A process that stays in the foreground finds its terminal as it was:    *)
(* "Catch signals that would otherwise cause the user to end up with echo  *)
(* turned off in the shell" (line 136).  A SIGTTOU from outside breaks it. *)
(***************************************************************************)
EchoBackInForeground == TermPutBack /\ bgs = 0 => echo = echo0

(***************************************************************************)
(* While a passphrase is read from the terminal the echo is off, unless    *)
(* the caller asked for it.                                                *)
(***************************************************************************)
EchoOffWhileReading ==
  pc = "read" /\ "STDIN" \notin flags /\ "ECHO_ON" \notin flags /\ input \in TtyFds => ~echo

(***************************************************************************)
(* The call ends, by returning or by the death of the process.             *)
(***************************************************************************)
CallEnds == pc = "open" ~> pc = "returned" \/ proc = "killed"

=============================================================================
