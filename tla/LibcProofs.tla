----------------------------- MODULE LibcProofs -----------------------------
(***************************************************************************)
(* Proofs about two functions of OpenBSD's libc that other systems lack.   *)
(* readpassphrase() (apps/nc/compat/readpassphrase.c), for any list of     *)
(* handled signals, any dispositions of the caller, any number of signals  *)
(* and moves to the background, at any step; and getopt_long() with its    *)
(* relatives (crypto/compat/getopt_long.c), for any vector, options, mode  *)
(* and number of resets: what Getopt assumes of its constants is a         *)
(* hypothesis of its theorems.  The two share nothing.                     *)
(***************************************************************************)
EXTENDS Libc, FiniteSets, SequenceTheorems, FiniteSetTheorems, NaturalsInduction,
        WellFoundedInduction, TLAPS

-----------------------------------------------------------------------------
\* How many signals are handled.
NSig == Len(SigOrder)

\* The call has the signal's disposition: the caller's is saved, the handler is in place, or
\* SIG_IGN where sigaction_except_ign() preserves it.
Taken(s) ==
  /\ save[s] = disp0[s]
  /\ disp[s] = IF s \notin Plain /\ disp0[s] = "IGN" THEN "IGN" ELSE "handler"

\* How far the two loops over the signals have come.
DispInv ==
  /\ pc \in {"restart", "open", "noecho", "close", "resend", "returned"} => disp = disp0
  /\ Protected => \A j \in 1 .. NSig : Taken(SigOrder[j])
  /\ pc \in {"install", "reinstate"} =>
       \A j \in 1 .. NSig : /\ j < i => Taken(SigOrder[j])
                            /\ j > i => disp[SigOrder[j]] = disp0[SigOrder[j]]
  /\ pc = "install" => disp[Sig] = disp0[Sig]
  /\ pc = "reinstate" => save[Sig] = "IGN" /\ disp0[Sig] = "IGN" /\ Sig \notin Plain
  /\ pc = "restoresig" =>
       \A j \in 1 .. NSig : /\ j < i => disp[SigOrder[j]] = disp0[SigOrder[j]]
                            /\ j >= i => save[SigOrder[j]] = disp0[SigOrder[j]]

\* No handled signal stops or kills the process between the prompt and the restoring.
RunInv == Protected => proc = "running"

\* Either the echo is as it was found or the call knows that it has to put it back.
EchoInv ==
  /\ ~gaveUp /\ (TermPutBack \/ pc \in {"open", "noecho"}) => echo = TRUE
  /\ ~gaveUp /\ pc \in {"install", "reinstate", "prompt", "read", "finish", "sigttou",
                        "restoreterm"} => oecho = TRUE /\ (changed \/ echo = TRUE)

\* From a restart to the loop around tcsetattr().
BeforeLoop ==
  pc \in {"open", "noecho", "install", "reinstate", "prompt", "read", "finish", "sigttou"}

\* The array signo[] is what the handler caught since the last restart, but for a SIGTTOU that
\* is late: that one is in it during the loop around tcsetattr() only.  The local sigttou tells
\* whether there was one before.  The last loop sends the signals on one after the other.
CaughtInv ==
  /\ signo \ {TTOU} = caught \ {TTOU}
  /\ late => TTOU \in caught
  /\ BeforeLoop => ~late
  /\ PutsBack => /\ TTOU \in signo <=> TTOU \in caught
                 /\ sigttou <=> TTOU \in caught /\ ~late
  /\ ~PutsBack => (TTOU \in signo <=> TTOU \in caught /\ ~late)
  /\ pc \in {"open", "noecho"} => signo = {}
  /\ pc = "resend" => \A j \in 1 .. NSig : j < i /\ SigOrder[j] \in signo => SigOrder[j] \in resent
  /\ pc \in {"restart", "returned"} => signo \subseteq resent

IInv == TypeOK /\ DispInv /\ RunInv /\ EchoInv /\ CaughtInv

-----------------------------------------------------------------------------
\* The signals are the members of a list that is not empty and has none twice.
LEMMA SignalList ==
  /\ NSig \in Nat /\ NSig > 0
  /\ \A j \in 1 .. NSig : SigOrder[j] \in Signals
  /\ \A s \in Signals : \E j \in 1 .. NSig : s = SigOrder[j]
  /\ \A j, k \in 1 .. NSig : SigOrder[j] = SigOrder[k] => j = k
  /\ TTIN \in Signals /\ TTOU \in Signals
  <1>1. NSig \in Nat /\ DOMAIN SigOrder = 1 .. NSig
    BY ReadPassphraseAssumption DEF NSig
  <1>2. TTIN \in Signals /\ TTOU \in Signals
    BY ReadPassphraseAssumption
  <1>3. \A s \in Signals : \E j \in 1 .. NSig : s = SigOrder[j]
    BY <1>1 DEF Signals
  <1>4. \A j \in 1 .. NSig : SigOrder[j] \in Signals
    BY <1>1 DEF Signals
  <1>5. NSig > 0
    BY <1>1, <1>2, <1>3
  <1>6. \A j, k \in 1 .. NSig : SigOrder[j] = SigOrder[k] => j = k
    BY <1>1, ReadPassphraseAssumption
  <1> QED
    BY <1>1, <1>2, <1>3, <1>4, <1>5, <1>6

\* Where the call may be, in terms of NSig.
LEMMA PlaceNext ==
  ASSUME pc' \in Steps, i' \in 1 .. NSig + 1,
         i' = NSig + 1 => pc' \notin {"install", "reinstate", "restoresig"}
  PROVE  PlaceOk'
  <1>1. NSig \in Nat
    BY SignalList
  <1>2. i' <= NSig \/ i' = NSig + 1
    BY <1>1
  <1> QED
    BY <1>2 DEF PlaceOk, NSig

\* The initial state satisfies the invariant.
LEMMA InitIInv == Init => IInv
  <1> SUFFICES ASSUME Init PROVE IInv
    OBVIOUS
  <1> USE ReadPassphraseAssumption, SignalList DEF Init
  <1>1. ArgsOk /\ TermOk
    BY DEF ArgsOk, TermOk
  <1>2. WorldOk
    <2>1. sigs \in 0 .. SigMax /\ bgs \in 0 .. BgMax
      OBVIOUS
    <2> QED
      BY <2>1 DEF WorldOk
  <1>3. LineOk
    <2>1. buf \in Seq(Letters) /\ Len(buf) = 0
      OBVIOUS
    <2> QED
      BY <2>1 DEF LineOk
  <1>4. PlaceOk
    BY DEF PlaceOk, Steps, NSig
  <1>5. SignalsOk
    <2>1. late \in BOOLEAN
      OBVIOUS
    <2>2. disp \in [Signals -> Dispositions] /\ save \in [Signals -> Dispositions]
      BY DEF Dispositions
    <2> QED
      BY <2>1, <2>2 DEF SignalsOk
  <1>6. DispInv /\ RunInv /\ EchoInv /\ CaughtInv
    BY DEF DispInv, RunInv, EchoInv, CaughtInv, Protected, TermPutBack, BeforeLoop, PutsBack
  <1> QED
    BY <1>1, <1>2, <1>3, <1>4, <1>5, <1>6 DEF IInv, TypeOK

\* A step that goes nowhere among the dispositions, or from one place where the call has none
\* to another, or from one where it has all to another, keeps what is known of them.
LEMMA DispKept ==
  ASSUME DispInv, UNCHANGED <<disps, disp0>>,
         \/ UNCHANGED at
         \/ pc' \in {"restart", "open", "noecho", "close", "resend", "returned"} /\ disp = disp0
         \/ Protected /\ pc' \in {"read", "finish", "sigttou", "restoreterm", "dropttou"}
  PROVE  DispInv'
  BY DEF DispInv, Protected, Taken, Sig, at, disps

\* Outside the two loops and the prompt no handler is the call's.
LEMMA NoHandler ==
  ASSUME IInv, disp = disp0
  PROVE  \A s \in Signals : disp[s] # "handler"
  BY ReadPassphraseAssumption DEF IInv, TypeOK, ArgsOk

\* What the handler writes has its type.
LEMMA HandlerTyped ==
  ASSUME SignalsOk, NEW s \in Signals, handler(s) \/ UNCHANGED seen, UNCHANGED <<disps, resent>>
  PROVE  SignalsOk'
  <1>1. late' \in BOOLEAN
    <2>1. CASE UNCHANGED seen
      BY <2>1 DEF SignalsOk, seen
    <2>2. CASE handler(s)
      BY <2>2 DEF handler, SignalsOk, PutsBack
    <2> QED
      BY <2>1, <2>2
  <1>2. /\ signo' \subseteq Signals /\ caught' \subseteq Signals /\ resent' \subseteq Signals
        /\ disp' \in [Signals -> Dispositions] /\ save' \in [Signals -> Dispositions]
    BY DEF SignalsOk, handler, seen, disps
  <1> QED
    BY <1>1, <1>2 DEF SignalsOk

\* The handler, or none, runs before the loop around tcsetattr(), in it, or after it.
LEMMA HandlerCaught ==
  ASSUME CaughtInv, NEW s, handler(s) \/ UNCHANGED seen, UNCHANGED <<resent, sigttou>>,
         \/ BeforeLoop /\ BeforeLoop' /\ pc' \notin {"open", "noecho"}
         \/ PutsBack /\ PutsBack'
         \/ pc = "restoresig" /\ pc' = "restoresig"
  PROVE  CaughtInv'
  <1>1. CASE UNCHANGED seen
    BY <1>1 DEF CaughtInv, BeforeLoop, PutsBack, seen
  <1>2. CASE handler(s) /\ s = TTOU
    BY <1>2 DEF CaughtInv, BeforeLoop, PutsBack, handler
  <1>3. CASE handler(s) /\ s # TTOU
    BY <1>3 DEF CaughtInv, BeforeLoop, PutsBack, handler
  <1> QED
    BY <1>1, <1>2, <1>3

\* The argument test and the label restart.
LEMMA RestartIInv == ASSUME IInv, Restart PROVE IInv'
  <1> USE ReadPassphraseAssumption, SignalList DEF Restart, At, given, disps, seen, term, world
  <1>1. TypeOK'
    <2>1. ArgsOk' /\ TermOk' /\ LineOk' /\ WorldOk'
      BY DEF IInv, TypeOK, ArgsOk, TermOk, LineOk, WorldOk
    <2>2. PlaceOk'
      BY DEF IInv, TypeOK, PlaceOk, Steps, NSig
    <2>3. SignalsOk'
      BY DEF IInv, TypeOK, SignalsOk, Dispositions
    <2> QED
      BY <2>1, <2>2, <2>3 DEF TypeOK
  <1>2. DispInv'
    BY DispKept DEF IInv, DispInv
  <1>3. RunInv' /\ EchoInv'
    BY DEF IInv, RunInv, EchoInv, Protected, TermPutBack
  <1>4. CaughtInv'
    <2>1. CASE bufsiz = 0
      BY <2>1 DEF IInv, CaughtInv, BeforeLoop, PutsBack
    <2>2. CASE bufsiz # 0
      BY <2>2 DEF CaughtInv, BeforeLoop, PutsBack
    <2> QED
      BY <2>1, <2>2
  <1> QED
    BY <1>1, <1>2, <1>3, <1>4 DEF IInv

\* open("/dev/tty")
LEMMA OpenTtyIInv == ASSUME IInv, OpenTty PROVE IInv'
  <1> USE ReadPassphraseAssumption, SignalList DEF OpenTty, At, given, disps, seen, world
  <1>1. TypeOK'
    <2>1. ArgsOk' /\ TermOk' /\ LineOk' /\ WorldOk'
      BY DEF IInv, TypeOK, ArgsOk, TermOk, LineOk, WorldOk
    <2>2. PlaceOk'
      BY DEF IInv, TypeOK, PlaceOk, Steps, NSig
    <2>3. SignalsOk'
      BY DEF IInv, TypeOK, SignalsOk, Dispositions
    <2> QED
      BY <2>1, <2>2, <2>3 DEF TypeOK
  <1>2. DispInv'
    BY DispKept DEF IInv, DispInv
  <1>3. RunInv' /\ EchoInv' /\ CaughtInv'
    BY DEF IInv, RunInv, EchoInv, CaughtInv, Protected, TermPutBack, BeforeLoop, PutsBack
  <1> QED
    BY <1>1, <1>2, <1>3 DEF IInv

\* Echo off
LEMMA TurnEchoOffIInv == ASSUME IInv, TurnEchoOff PROVE IInv'
  <1> USE ReadPassphraseAssumption, SignalList
      DEF TurnEchoOff, SetsEcho, At, given, disps, seen, line, at
  <1>1. TypeOK'
    <2>1. ArgsOk' /\ LineOk' /\ WorldOk'
      BY DEF IInv, TypeOK, ArgsOk, LineOk, WorldOk
    <2>2. TermOk'
      <3>1. echo' \in BOOLEAN /\ techo' \in BOOLEAN /\ oecho' \in BOOLEAN /\ changed' \in BOOLEAN
        BY DEF IInv, TypeOK, TermOk
      <3> QED
        BY <3>1 DEF IInv, TypeOK, TermOk
    <2>3. PlaceOk'
      <3>1. CASE UNCHANGED at
        BY <3>1 DEF IInv, TypeOK, PlaceOk
      <3>2. CASE pc' = "install" /\ i' = 1
        BY <3>2, PlaceNext DEF Steps
      <3> QED
        BY <3>1, <3>2
    <2>4. SignalsOk'
      BY DEF IInv, TypeOK, SignalsOk, Dispositions
    <2> QED
      BY <2>1, <2>2, <2>3, <2>4 DEF TypeOK
  <1>2. DispInv'
    <2>1. CASE UNCHANGED at
      BY <2>1, DispKept DEF IInv
    <2>2. CASE pc' = "install" /\ i' = 1
      BY <2>2 DEF IInv, DispInv, Protected, Sig
    <2> QED
      BY <2>1, <2>2
  <1>3. RunInv' /\ CaughtInv'
    BY DEF IInv, RunInv, CaughtInv, Protected, BeforeLoop, PutsBack
  <1>4. EchoInv'
    BY DEF IInv, EchoInv, TermPutBack, TypeOK, TermOk, WorldOk
  <1> QED
    BY <1>1, <1>2, <1>3, <1>4 DEF IInv

\* sigaction(s, &sa, &saves)
LEMMA InstallIInv == ASSUME IInv, Install PROVE IInv'
  <1> USE ReadPassphraseAssumption, SignalList
  <1>1. /\ proc = "running" /\ pc = "install" /\ i \in 1 .. NSig /\ Sig \in Signals
        /\ save' = [save EXCEPT ![Sig] = disp[Sig]] /\ disp' = [disp EXCEPT ![Sig] = "handler"]
        /\ \/ pc' = "reinstate" /\ i' = i /\ Sig \notin Plain /\ disp[Sig] = "IGN"
           \/ /\ i' = i + 1 /\ pc' = IF i = NSig THEN "prompt" ELSE "install"
              /\ ~(Sig \notin Plain /\ disp[Sig] = "IGN")
        /\ UNCHANGED <<given, seen, resent, term, line, world, intr>>
    <2>1. pc = "install" /\ i \in 1 .. NSig /\ Sig \in Signals
      BY DEF Install, At, IInv, TypeOK, PlaceOk, Sig, NSig
    <2> QED
      BY <2>1 DEF Install, At, NextSig, SaHandler, PreservesIgn, NSig
  <1> USE DEF given, seen, term, line, world
  <1>2. TypeOK'
    <2>1. ArgsOk' /\ TermOk' /\ LineOk' /\ WorldOk'
      BY <1>1 DEF IInv, TypeOK, ArgsOk, TermOk, LineOk, WorldOk
    <2>2. PlaceOk'
      <3>1. i' \in 1 .. NSig + 1 /\ (i' = NSig + 1 => pc' = "prompt") /\ pc' \in Steps
        BY <1>1 DEF Steps
      <3> QED
        BY <3>1, PlaceNext DEF Steps
    <2>3. SignalsOk'
      BY <1>1 DEF IInv, TypeOK, SignalsOk, Dispositions
    <2> QED
      BY <2>1, <2>2, <2>3 DEF TypeOK
  <1>3. DispInv'
    <2>1. disp[Sig] = disp0[Sig] /\ save'[Sig] = disp0[Sig] /\ disp'[Sig] = "handler"
      BY <1>1 DEF IInv, DispInv, TypeOK, SignalsOk
    <2>2. \A j \in 1 .. NSig : j # i => /\ SigOrder[j] # Sig
                                        /\ disp'[SigOrder[j]] = disp[SigOrder[j]]
                                        /\ save'[SigOrder[j]] = save[SigOrder[j]]
      BY <1>1 DEF Sig, IInv, TypeOK, SignalsOk
    <2>3. \A j \in 1 .. NSig : /\ j < i => Taken(SigOrder[j])'
                               /\ j > i => disp'[SigOrder[j]] = disp0'[SigOrder[j]]
      BY <1>1, <2>2 DEF IInv, DispInv, Taken
    <2>4. CASE pc' = "reinstate" /\ i' = i /\ Sig \notin Plain /\ disp[Sig] = "IGN"
      BY <1>1, <2>1, <2>3, <2>4 DEF DispInv, Protected, Sig
    <2>5. CASE /\ i' = i + 1 /\ pc' = IF i = NSig THEN "prompt" ELSE "install"
               /\ ~(Sig \notin Plain /\ disp[Sig] = "IGN")
      <3>1. PICK k \in 1 .. NSig : k = i
        BY <1>1
      <3>2. Taken(SigOrder[k])'
        BY <1>1, <2>1, <2>5, <3>1 DEF Taken, Sig
      <3>3. \A j \in 1 .. NSig : j < k + 1 => Taken(SigOrder[j])'
        BY <1>1, <2>3, <3>1, <3>2
      <3> QED
        BY <1>1, <2>3, <2>5, <3>1, <3>3 DEF DispInv, Protected, Sig
    <2> QED
      BY <1>1, <2>4, <2>5
  <1>4. RunInv' /\ EchoInv' /\ CaughtInv'
    BY <1>1 DEF IInv, RunInv, EchoInv, CaughtInv, Protected, TermPutBack, BeforeLoop, PutsBack
  <1> QED
    BY <1>2, <1>3, <1>4 DEF IInv

\* sigaction_except_ign() puts SIG_IGN back.
LEMMA ReinstateIInv == ASSUME IInv, Reinstate PROVE IInv'
  <1> USE ReadPassphraseAssumption, SignalList
  <1>1. /\ proc = "running" /\ pc = "reinstate" /\ i \in 1 .. NSig /\ Sig \in Signals
        /\ disp' = [disp EXCEPT ![Sig] = "IGN"]
        /\ i' = i + 1 /\ pc' = IF i = NSig THEN "prompt" ELSE "install"
        /\ UNCHANGED <<given, seen, resent, term, line, world, save, intr>>
    <2>1. pc = "reinstate" /\ i \in 1 .. NSig /\ Sig \in Signals
      BY DEF Reinstate, At, IInv, TypeOK, PlaceOk, Sig, NSig
    <2> QED
      BY <2>1 DEF Reinstate, At, NextSig, NSig
  <1> USE DEF given, seen, term, line, world
  <1>2. TypeOK'
    <2>1. ArgsOk' /\ TermOk' /\ LineOk' /\ WorldOk'
      BY <1>1 DEF IInv, TypeOK, ArgsOk, TermOk, LineOk, WorldOk
    <2>2. PlaceOk'
      <3>1. i' \in 1 .. NSig + 1 /\ (i' = NSig + 1 => pc' = "prompt") /\ pc' \in Steps
        BY <1>1 DEF Steps
      <3> QED
        BY <3>1, PlaceNext DEF Steps
    <2>3. SignalsOk'
      BY <1>1 DEF IInv, TypeOK, SignalsOk, Dispositions
    <2> QED
      BY <2>1, <2>2, <2>3 DEF TypeOK
  <1>3. DispInv'
    <2>1. /\ save[Sig] = disp0[Sig] /\ disp'[Sig] = "IGN" /\ disp0[Sig] = "IGN"
          /\ Sig \notin Plain
      BY <1>1 DEF IInv, DispInv, TypeOK, SignalsOk
    <2>2. \A j \in 1 .. NSig : j # i => /\ SigOrder[j] # Sig
                                        /\ disp'[SigOrder[j]] = disp[SigOrder[j]]
      BY <1>1 DEF Sig, IInv, TypeOK, SignalsOk
    <2>3. \A j \in 1 .. NSig : /\ j < i => Taken(SigOrder[j])'
                               /\ j > i => disp'[SigOrder[j]] = disp0'[SigOrder[j]]
      BY <1>1, <2>2 DEF IInv, DispInv, Taken
    <2>4. PICK k \in 1 .. NSig : k = i
      BY <1>1
    <2>5. Taken(SigOrder[k])'
      BY <1>1, <2>1, <2>4 DEF Taken, Sig
    <2>6. ASSUME NEW j \in 1 .. NSig, j < k + 1
          PROVE  Taken(SigOrder[j])'
      <3>1. CASE j < i
        BY <2>3, <3>1
      <3>2. CASE j = k
        BY <2>5, <3>2
      <3>3. j < i \/ j = k
        BY <2>4, <2>6
      <3> QED
        BY <3>1, <3>2, <3>3
    <2> QED
      BY <1>1, <2>3, <2>4, <2>6 DEF DispInv, Protected, Sig
  <1>4. RunInv' /\ EchoInv' /\ CaughtInv'
    BY <1>1 DEF IInv, RunInv, EchoInv, CaughtInv, Protected, TermPutBack, BeforeLoop, PutsBack
  <1> QED
    BY <1>2, <1>3, <1>4 DEF IInv

\* The prompt is written.
LEMMA PromptIInv == ASSUME IInv, Prompt PROVE IInv'
  <1> USE ReadPassphraseAssumption, SignalList
      DEF Prompt, At, Write, handler, given, disps, seen, term, world
  <1>1. TypeOK'
    <2>1. ArgsOk' /\ TermOk' /\ WorldOk'
      BY DEF IInv, TypeOK, ArgsOk, TermOk, WorldOk
    <2>2. PlaceOk'
      BY DEF IInv, TypeOK, PlaceOk, Steps, NSig
    <2>3. SignalsOk'
      BY HandlerTyped DEF IInv, TypeOK
    <2>4. LineOk'
      BY DEF IInv, TypeOK, LineOk, ArgsOk
    <2> QED
      BY <2>1, <2>2, <2>3, <2>4 DEF TypeOK
  <1>2. DispInv'
    BY DispKept DEF IInv, Protected
  <1>3. RunInv' /\ EchoInv'
    BY DEF IInv, RunInv, EchoInv, Protected, TermPutBack
  <1>4. CaughtInv'
    BY HandlerCaught DEF IInv, BeforeLoop
  <1> QED
    BY <1>1, <1>2, <1>3, <1>4 DEF IInv

\* A character is stored while there is room for it and the terminator.
LEMMA ReadCharIInv == ASSUME IInv, ReadChar PROVE IInv'
  <1> USE ReadPassphraseAssumption DEF ReadChar, At, given, disps, seen, term, at, world
  <1>1. TypeOK'
    <2>1. PICK c \in Chars : buf' = IF Room THEN Append(buf, Convert(c)) ELSE buf
      OBVIOUS
    <2>2. Convert(c) \in Letters
      BY DEF Convert, Letters
    <2>3. buf' \in Seq(Letters) /\ (bufsiz > 0 => Len(buf') < bufsiz)
      BY <2>1, <2>2 DEF Room, IInv, TypeOK, LineOk, ArgsOk
    <2> QED
      BY <2>3 DEF IInv, TypeOK, ArgsOk, PlaceOk, SignalsOk, TermOk, LineOk, WorldOk
  <1>2. DispInv'
    BY DispKept DEF IInv
  <1>3. RunInv' /\ EchoInv' /\ CaughtInv'
    BY DEF IInv, RunInv, EchoInv, CaughtInv, Protected, TermPutBack, BeforeLoop, PutsBack
  <1> QED
    BY <1>1, <1>2, <1>3 DEF IInv

\* The line ends.
LEMMA ReadEndsIInv == ASSUME IInv, ReadEnds PROVE IInv'
  <1> USE ReadPassphraseAssumption DEF ReadEnds, At, given, disps, seen, term, world
  <1>1. TypeOK'
    <2>1. ArgsOk' /\ TermOk' /\ LineOk' /\ WorldOk'
      BY DEF IInv, TypeOK, ArgsOk, TermOk, LineOk, WorldOk
    <2>2. PlaceOk'
      BY DEF IInv, TypeOK, PlaceOk, Steps, NSig
    <2>3. SignalsOk'
      BY DEF IInv, TypeOK, SignalsOk, Dispositions
    <2> QED
      BY <2>1, <2>2, <2>3 DEF TypeOK
  <1>2. DispInv'
    BY DispKept DEF IInv, Protected
  <1>3. RunInv' /\ EchoInv' /\ CaughtInv'
    BY DEF IInv, RunInv, EchoInv, CaughtInv, Protected, TermPutBack, BeforeLoop, PutsBack
  <1> QED
    BY <1>1, <1>2, <1>3 DEF IInv

\* read() fails; the SIGTTIN of a background process is caught.
LEMMA ReadFailsIInv == ASSUME IInv, ReadFails PROVE IInv'
  <1> USE ReadPassphraseAssumption, SignalList
      DEF ReadFails, At, handler, given, disps, seen, term, world
  <1>1. TypeOK'
    <2>1. ArgsOk' /\ TermOk' /\ WorldOk'
      BY DEF IInv, TypeOK, ArgsOk, TermOk, WorldOk
    <2>2. PlaceOk'
      BY DEF IInv, TypeOK, PlaceOk, Steps, NSig
    <2>3. SignalsOk'
      BY HandlerTyped DEF IInv, TypeOK
    <2>4. LineOk'
      BY DEF IInv, TypeOK, LineOk, ArgsOk
    <2> QED
      BY <2>1, <2>2, <2>3, <2>4 DEF TypeOK
  <1>2. DispInv'
    BY DispKept DEF IInv, Protected
  <1>3. RunInv' /\ EchoInv'
    BY DEF IInv, RunInv, EchoInv, Protected, TermPutBack
  <1>4. CaughtInv'
    BY HandlerCaught DEF IInv, BeforeLoop
  <1> QED
    BY <1>1, <1>2, <1>3, <1>4 DEF IInv

\* The terminator
LEMMA FinishIInv == ASSUME IInv, Finish PROVE IInv'
  <1> USE ReadPassphraseAssumption, SignalList
      DEF Finish, At, Write, handler, given, disps, seen, term, line, world
  <1>1. TypeOK'
    <2>1. ArgsOk' /\ TermOk' /\ LineOk' /\ WorldOk'
      BY DEF IInv, TypeOK, ArgsOk, TermOk, LineOk, WorldOk
    <2>2. PlaceOk'
      BY DEF IInv, TypeOK, PlaceOk, Steps, NSig
    <2>3. SignalsOk'
      BY HandlerTyped DEF IInv, TypeOK
    <2> QED
      BY <2>1, <2>2, <2>3 DEF TypeOK
  <1>2. DispInv'
    BY DispKept DEF IInv, Protected
  <1>3. RunInv' /\ EchoInv'
    BY DEF IInv, RunInv, EchoInv, Protected, TermPutBack
  <1>4. CaughtInv'
    BY HandlerCaught DEF IInv, BeforeLoop
  <1> QED
    BY <1>1, <1>2, <1>3, <1>4 DEF IInv

\* The loop around tcsetattr() begins, or there is nothing to put back.
LEMMA SaveTtouIInv == ASSUME IInv, SaveTtou PROVE IInv'
  <1> USE ReadPassphraseAssumption, SignalList
      DEF SaveTtou, At, ToRestoreSig, CaughtTtou, given, disps, seen, line, world
  <1>1. TypeOK'
    <2>1. ArgsOk' /\ LineOk' /\ WorldOk'
      BY DEF IInv, TypeOK, ArgsOk, LineOk, WorldOk
    <2>2. TermOk'
      <3>1. CASE changed
        <4>1. CASE TTOU \in signo
          BY <3>1, <4>1 DEF IInv, TypeOK, TermOk
        <4>2. CASE TTOU \notin signo
          BY <3>1, <4>2 DEF IInv, TypeOK, TermOk
        <4> QED
          BY <4>1, <4>2
      <3>2. CASE ~changed
        BY <3>2 DEF IInv, TypeOK, TermOk
      <3> QED
        BY <3>1, <3>2
    <2>3. PlaceOk'
      BY DEF IInv, TypeOK, PlaceOk, Steps, NSig
    <2>4. SignalsOk'
      BY DEF IInv, TypeOK, SignalsOk, Dispositions
    <2> QED
      BY <2>1, <2>2, <2>3, <2>4 DEF TypeOK
  <1>2. DispInv'
    <2>1. CASE changed
      BY <2>1, DispKept DEF IInv, Protected
    <2>2. CASE ~changed
      BY <2>2 DEF IInv, DispInv, Protected, Taken
    <2> QED
      BY <2>1, <2>2
  <1>3. RunInv' /\ EchoInv' /\ CaughtInv'
    BY DEF IInv, RunInv, EchoInv, CaughtInv, Protected, TermPutBack, BeforeLoop, PutsBack
  <1> QED
    BY <1>1, <1>2, <1>3 DEF IInv

\* The loop around tcsetattr(): it ends with the echo restored or with a SIGTTOU seen.
LEMMA RestoreTermIInv == ASSUME IInv, RestoreTerm PROVE IInv'
  <1> USE ReadPassphraseAssumption, SignalList
  <1>1. /\ proc = "running" /\ pc = "restoreterm" /\ pc' \in {"restoreterm", "dropttou"}
        /\ handler(TTOU) \/ UNCHANGED seen
        /\ echo' \in {echo, oecho} /\ gaveUp' \in {gaveUp, TRUE} /\ intr' = FALSE
        /\ UNCHANGED <<given, disps, resent, line, world, i, input, techo, oecho, changed, sigttou>>
    BY DEF RestoreTerm, At, IInv, TypeOK, TermOk
  <1> USE DEF given, disps, line, world
  <1>2. TypeOK'
    <2>1. ArgsOk' /\ LineOk' /\ WorldOk'
      BY <1>1 DEF IInv, TypeOK, ArgsOk, LineOk, WorldOk
    <2>2. TermOk'
      BY <1>1 DEF IInv, TypeOK, TermOk
    <2>3. PlaceOk'
      BY <1>1 DEF IInv, TypeOK, PlaceOk, Steps, NSig
    <2>4. SignalsOk'
      BY <1>1, HandlerTyped DEF IInv, TypeOK
    <2> QED
      BY <2>1, <2>2, <2>3, <2>4 DEF TypeOK
  <1>3. DispInv'
    BY <1>1, DispKept DEF IInv, Protected
  <1>4. RunInv'
    BY <1>1 DEF RunInv
  <1>5. CaughtInv'
    BY <1>1, HandlerCaught DEF IInv, PutsBack
  <1>6. EchoInv'
    BY DEF RestoreTerm, At, Retry, IInv, EchoInv, TermPutBack
  <1> QED
    BY <1>2, <1>3, <1>4, <1>5, <1>6 DEF IInv

\* A SIGTTOU that is late is dropped.
LEMMA DropTtouIInv == ASSUME IInv, DropTtou PROVE IInv'
  <1> USE ReadPassphraseAssumption, SignalList
      DEF DropTtou, At, ToRestoreSig, given, disps, term, line, world
  <1>1. TypeOK'
    <2>1. ArgsOk' /\ TermOk' /\ LineOk' /\ WorldOk'
      BY DEF IInv, TypeOK, ArgsOk, TermOk, LineOk, WorldOk
    <2>2. PlaceOk'
      BY DEF IInv, TypeOK, PlaceOk, Steps, NSig
    <2>3. SignalsOk'
      BY DEF IInv, TypeOK, SignalsOk, Dispositions
    <2> QED
      BY <2>1, <2>2, <2>3 DEF TypeOK
  <1>2. DispInv'
    BY DEF IInv, DispInv, Protected, Taken
  <1>3. RunInv' /\ EchoInv'
    BY DEF IInv, RunInv, EchoInv, Protected, TermPutBack
  <1>4. CaughtInv'
    BY DEF IInv, CaughtInv, BeforeLoop, PutsBack
  <1> QED
    BY <1>1, <1>2, <1>3, <1>4 DEF IInv

\* sigaction(s, &saves, NULL)
LEMMA RestoreSigIInv == ASSUME IInv, RestoreSig PROVE IInv'
  <1> USE ReadPassphraseAssumption, SignalList
  <1>1. /\ proc = "running" /\ pc = "restoresig" /\ i \in 1 .. NSig /\ Sig \in Signals
        /\ disp' = [disp EXCEPT ![Sig] = save[Sig]]
        /\ \/ i = NSig /\ i' = 1 /\ pc' = "close"
           \/ i < NSig /\ i' = i + 1 /\ pc' = "restoresig"
        /\ UNCHANGED <<given, seen, resent, term, line, world, save, intr>>
    <2>1. pc = "restoresig" /\ i \in 1 .. NSig /\ Sig \in Signals
      BY DEF RestoreSig, At, IInv, TypeOK, PlaceOk, Sig, NSig
    <2> QED
      BY <2>1 DEF RestoreSig, At, Restored, NSig
  <1> USE DEF given, seen, term, line, world
  <1>2. TypeOK'
    <2>1. ArgsOk' /\ TermOk' /\ LineOk' /\ WorldOk'
      BY <1>1 DEF IInv, TypeOK, ArgsOk, TermOk, LineOk, WorldOk
    <2>2. PlaceOk'
      <3>1. i' \in 1 .. NSig + 1 /\ (i' = NSig + 1 => pc' = "prompt") /\ pc' \in Steps
        BY <1>1 DEF Steps
      <3> QED
        BY <3>1, PlaceNext DEF Steps
    <2>3. SignalsOk'
      BY <1>1 DEF IInv, TypeOK, SignalsOk, Dispositions
    <2> QED
      BY <2>1, <2>2, <2>3 DEF TypeOK
  <1>3. DispInv'
    <2>1. disp'[Sig] = disp0[Sig]
      BY <1>1 DEF IInv, DispInv, TypeOK, SignalsOk, Sig
    <2>2. \A j \in 1 .. NSig : j # i => /\ SigOrder[j] # Sig
                                        /\ disp'[SigOrder[j]] = disp[SigOrder[j]]
      BY <1>1 DEF Sig, IInv, TypeOK, SignalsOk
    <2>3. \A j \in 1 .. NSig : /\ j <= i => disp'[SigOrder[j]] = disp0'[SigOrder[j]]
                               /\ j > i => save'[SigOrder[j]] = disp0'[SigOrder[j]]
      <3>1. \A j \in 1 .. NSig : /\ j < i => disp[SigOrder[j]] = disp0[SigOrder[j]]
                                 /\ j > i => save[SigOrder[j]] = disp0[SigOrder[j]]
        BY <1>1 DEF IInv, DispInv
      <3> QED
        BY <1>1, <2>1, <2>2, <3>1 DEF Sig
    <2>4. CASE i = NSig /\ i' = 1 /\ pc' = "close"
      <3>1. \A s \in Signals : disp'[s] = disp0'[s]
        BY <2>3, <2>4
      <3>2. disp' = disp0'
        BY <1>2, <3>1 DEF TypeOK, SignalsOk, ArgsOk
      <3> QED
        BY <2>4, <3>2 DEF DispInv, Protected
    <2>5. CASE i < NSig /\ i' = i + 1 /\ pc' = "restoresig"
      BY <1>1, <2>3, <2>5 DEF DispInv, Protected
    <2> QED
      BY <1>1, <2>4, <2>5
  <1>4. RunInv' /\ EchoInv' /\ CaughtInv'
    BY <1>1 DEF IInv, RunInv, EchoInv, CaughtInv, Protected, TermPutBack, BeforeLoop, PutsBack
  <1> QED
    BY <1>2, <1>3, <1>4 DEF IInv

\* close()
LEMMA CloseTtyIInv == ASSUME IInv, CloseTty PROVE IInv'
  <1> USE ReadPassphraseAssumption, SignalList DEF CloseTty, At, given, disps, seen, line, world
  <1>1. TypeOK'
    <2>1. ArgsOk' /\ TermOk' /\ LineOk' /\ WorldOk'
      BY DEF IInv, TypeOK, ArgsOk, TermOk, LineOk, WorldOk
    <2>2. PlaceOk'
      BY DEF IInv, TypeOK, PlaceOk, Steps, NSig
    <2>3. SignalsOk'
      BY DEF IInv, TypeOK, SignalsOk, Dispositions
    <2> QED
      BY <2>1, <2>2, <2>3 DEF TypeOK
  <1>2. DispInv'
    BY DispKept DEF IInv, DispInv
  <1>3. RunInv' /\ EchoInv' /\ CaughtInv'
    BY DEF IInv, RunInv, EchoInv, CaughtInv, Protected, TermPutBack, BeforeLoop, PutsBack
  <1> QED
    BY <1>1, <1>2, <1>3 DEF IInv

\* kill(getpid(), i)
LEMMA ResendIInv == ASSUME IInv, Resend PROVE IInv'
  <1> USE ReadPassphraseAssumption, SignalList
  <1>1. /\ pc = "resend" /\ i \in 1 .. NSig /\ Sig \in Signals /\ i' = i + 1
        /\ Sig \in signo => resent' = resent \cup {Sig}
        /\ resent \subseteq resent' /\ resent' \subseteq resent \cup {Sig}
        /\ proc' \in {proc, "stopped", "killed"}
        /\ UNCHANGED <<given, disps, seen, term, line, pc, fg, intr, sigs, bgs>>
    <2>1. pc = "resend" /\ i \in 1 .. NSig /\ Sig \in Signals
      BY DEF Resend, At, IInv, TypeOK, PlaceOk, Sig, NSig
    <2> QED
      BY <2>1 DEF Resend, At, MustResend, DefaultAction
  <1> USE DEF given, disps, seen, term, line
  <1>2. TypeOK'
    <2>1. ArgsOk' /\ TermOk' /\ LineOk' /\ WorldOk'
      BY <1>1 DEF IInv, TypeOK, ArgsOk, TermOk, LineOk, WorldOk
    <2>2. PlaceOk'
      BY <1>1 DEF IInv, TypeOK, PlaceOk, Steps, NSig
    <2>3. SignalsOk'
      BY <1>1 DEF IInv, TypeOK, SignalsOk, Dispositions
    <2> QED
      BY <2>1, <2>2, <2>3 DEF TypeOK
  <1>3. DispInv'
    BY <1>1, DispKept DEF IInv, DispInv
  <1>4. RunInv' /\ EchoInv'
    BY <1>1 DEF IInv, RunInv, EchoInv, Protected, TermPutBack
  <1>5. CaughtInv'
    BY <1>1 DEF IInv, CaughtInv, Sig, BeforeLoop, PutsBack
  <1> QED
    BY <1>2, <1>3, <1>4, <1>5 DEF IInv

\* The end of a round: all that was caught has been sent on.
LEMMA ReturnIInv == ASSUME IInv, Return PROVE IInv'
  <1> USE ReadPassphraseAssumption, SignalList DEF Return, At, given, disps, seen, term, world
  <1>1. TypeOK'
    <2>1. ArgsOk' /\ TermOk' /\ LineOk' /\ WorldOk'
      BY DEF IInv, TypeOK, ArgsOk, TermOk, LineOk, WorldOk
    <2>2. PlaceOk'
      <3>1. i' \in 1 .. NSig + 1 /\ pc' \in {"restart", "returned"}
        OBVIOUS
      <3> QED
        BY <3>1, PlaceNext DEF Steps
    <2>3. SignalsOk'
      BY DEF IInv, TypeOK, SignalsOk, Dispositions
    <2> QED
      BY <2>1, <2>2, <2>3 DEF TypeOK
  <1>2. DispInv'
    BY DispKept DEF IInv, DispInv
  <1>3. RunInv' /\ EchoInv'
    BY DEF IInv, RunInv, EchoInv, Protected, TermPutBack
  <1>4. CaughtInv'
    <2>1. ASSUME NEW s \in signo PROVE s \in resent
      <3>1. PICK j \in 1 .. NSig : s = SigOrder[j]
        BY DEF IInv, TypeOK, SignalsOk
      <3> QED
        <4>1. j < i /\ pc = "resend"
          BY DEF NSig
        <4> QED
          BY <3>1, <4>1 DEF IInv, CaughtInv
    <2> QED
      BY <2>1 DEF IInv, CaughtInv, BeforeLoop, PutsBack
  <1> QED
    BY <1>1, <1>2, <1>3, <1>4 DEF IInv

\* A signal arrives.
LEMMA DeliverIInv == ASSUME IInv, NEW s \in Signals, Deliver(s) PROVE IInv'
  <1> USE ReadPassphraseAssumption, SignalList
  <1>1. /\ proc = "running" /\ pc # "returned"
        /\ \/ disp[s] = "handler" /\ handler(s) /\ proc' = proc
           \/ disp[s] = "DFL" /\ UNCHANGED seen
           \/ disp[s] # "handler" /\ UNCHANGED seen /\ proc' = proc
        /\ proc' \in {proc, "stopped", "killed"} /\ intr' \in BOOLEAN /\ sigs' \in 0 .. SigMax
        /\ UNCHANGED <<given, disps, term, line, at, resent, fg, bgs>>
    BY DEF Deliver, DefaultAction, IInv, TypeOK, WorldOk
  <1> USE DEF given, disps, term, line, at
  <1>2. TypeOK'
    <2>1. ArgsOk' /\ TermOk' /\ LineOk' /\ WorldOk'
      BY <1>1 DEF IInv, TypeOK, ArgsOk, TermOk, LineOk, WorldOk
    <2>2. PlaceOk'
      BY <1>1 DEF IInv, TypeOK, PlaceOk, Steps, NSig
    <2>3. SignalsOk'
      BY <1>1, HandlerTyped DEF IInv, TypeOK
    <2> QED
      BY <2>1, <2>2, <2>3 DEF TypeOK
  <1>3. DispInv'
    BY <1>1, DispKept DEF IInv
  <1>4. RunInv'
    <2>1. Protected => disp[s] # "DFL"
      BY DEF IInv, DispInv, Taken
    <2> QED
      BY <1>1, <2>1 DEF IInv, RunInv, Protected
  <1>5. EchoInv'
    BY <1>1 DEF IInv, EchoInv, TermPutBack
  <1>6. CaughtInv'
    <2>1. CASE UNCHANGED seen
      BY <1>1, <2>1 DEF IInv, CaughtInv, BeforeLoop, PutsBack, seen
    <2>2. CASE disp[s] = "handler" /\ handler(s)
      <3>1. pc \notin {"restart", "open", "noecho", "close", "resend", "returned"}
        BY <2>2, NoHandler DEF IInv, DispInv
      <3>2. \/ BeforeLoop /\ BeforeLoop' /\ pc' \notin {"open", "noecho"}
            \/ PutsBack /\ PutsBack'
            \/ pc = "restoresig" /\ pc' = "restoresig"
        BY <1>1, <3>1 DEF IInv, TypeOK, PlaceOk, Steps, BeforeLoop, PutsBack
      <3> QED
        BY <1>1, <2>2, <3>2, HandlerCaught DEF IInv
    <2> QED
      BY <1>1, <2>1, <2>2
  <1> QED
    BY <1>2, <1>3, <1>4, <1>5, <1>6 DEF IInv

\* The process is moved to the background or to the foreground.
LEMMA GroundIInv == ASSUME IInv, Background \/ Foreground PROVE IInv'
  <1> USE ReadPassphraseAssumption DEF Background, Foreground, given, disps, seen, term, line, at
  <1>1. TypeOK'
    <2>1. ArgsOk'
      BY DEF IInv, TypeOK, ArgsOk
    <2>2. PlaceOk'
      BY DEF IInv, TypeOK, PlaceOk, Steps, NSig
    <2>3. SignalsOk'
      BY DEF IInv, TypeOK, SignalsOk, Dispositions
    <2>4. TermOk'
      BY DEF IInv, TypeOK, TermOk
    <2>5. LineOk'
      BY DEF IInv, TypeOK, LineOk, ArgsOk
    <2>6. WorldOk'
      <3>1. bgs' \in 0 .. BgMax /\ sigs' = sigs
        BY DEF IInv, TypeOK, WorldOk
      <3> QED
        BY <3>1 DEF IInv, TypeOK, WorldOk
    <2> QED
      BY <2>1, <2>2, <2>3, <2>4, <2>5, <2>6 DEF TypeOK
  <1>2. DispInv'
    BY DispKept DEF IInv
  <1>3. RunInv' /\ EchoInv' /\ CaughtInv'
    BY DEF IInv, RunInv, EchoInv, CaughtInv, Protected, TermPutBack, BeforeLoop, PutsBack
  <1> QED
    BY <1>1, <1>2, <1>3 DEF IInv

\* Every step, and stuttering, preserves the invariant.
LEMMA NextIInv == IInv /\ [Next]_vars => IInv'
  <1> SUFFICES ASSUME IInv, [Next]_vars PROVE IInv'
    OBVIOUS
  <1>1. CASE Step
    BY <1>1, RestartIInv, OpenTtyIInv, TurnEchoOffIInv, InstallIInv, ReinstateIInv, PromptIInv,
       ReadFailsIInv, FinishIInv, SaveTtouIInv, RestoreTermIInv, DropTtouIInv, RestoreSigIInv,
       CloseTtyIInv, ResendIInv, ReturnIInv DEF Step
  <1>2. CASE ReadChar \/ ReadEnds
    BY <1>2, ReadCharIInv, ReadEndsIInv
  <1>3. ASSUME NEW s \in Signals, Deliver(s) PROVE IInv'
    BY <1>3, DeliverIInv
  <1>4. CASE Background \/ Foreground
    BY <1>4, GroundIInv
  <1>5. CASE UNCHANGED vars
    <2> USE <1>5 DEF vars, IInv
    <2>1. TypeOK'
      BY DEF TypeOK, ArgsOk, PlaceOk, SignalsOk, TermOk, LineOk, WorldOk
    <2>2. DispInv'
      BY DispKept DEF disps, at
    <2>3. RunInv' /\ EchoInv' /\ CaughtInv'
      BY DEF RunInv, EchoInv, CaughtInv, Protected, TermPutBack, BeforeLoop, PutsBack
    <2> QED
      BY <2>1, <2>2, <2>3
  <1> QED
    BY <1>1, <1>2, <1>3, <1>4, <1>5 DEF Next, Done

-----------------------------------------------------------------------------
\* The inductive invariant holds in every reachable state.
THEOREM Invariant == Spec => []IInv
  BY InitIInv, NextIInv, PTL DEF Spec

\* When the call returns, starts over or sends a signal on, every disposition is the caller's.
THEOREM Restores == Spec => []DispositionsRestored
  <1>1. IInv => DispositionsRestored
    BY DEF IInv, DispInv, DispositionsRestored
  <1> QED
    BY <1>1, Invariant, PTL

\* The terminal is left as it was found, unless tcsetattr() failed with signo[SIGTTOU] set.
THEOREM EchoBack == Spec => []EchoRestored
  <1>1. IInv => EchoRestored
    BY DEF IInv, EchoInv, EchoRestored, TypeOK, ArgsOk
  <1> QED
    BY <1>1, Invariant, PTL

\* No handled signal ends or stops the process while the echo may be off.
THEOREM Shielded == Spec => []ProtectedWhilePrompting
  <1>1. IInv => ProtectedWhilePrompting
    <2> SUFFICES ASSUME IInv, Protected
                 PROVE  /\ proc = "running"
                        /\ \A s \in Signals \ Plain : disp0[s] = "IGN" => disp[s] = "IGN"
      BY DEF ProtectedWhilePrompting
    <2> QED
      BY SignalList DEF IInv, RunInv, DispInv, Taken
  <1> QED
    BY <1>1, Invariant, PTL

\* Every signal that was caught has been sent on when the call returns or starts over, but for a
\* SIGTTOU that was first caught in the loop around tcsetattr().
THEOREM SentOn == Spec => []NoSignalLost
  <1>1. IInv => NoSignalLost
    BY DEF IInv, CaughtInv, NoSignalLost, PutsBack
  <1> QED
    BY <1>1, Invariant, PTL

-----------------------------------------------------------------------------
\* getopt_long() and permute_args(), which rests on the arithmetic of gcd().

\* x is a multiple of d.
Divides(d, x) == \E quot \in Int : x = d * quot

\* Sums and differences of multiples are multiples.
LEMMA DividesSum ==
  ASSUME NEW d \in Int, NEW x \in Int, NEW y \in Int, Divides(d, x), Divides(d, y)
  PROVE  Divides(d, x + y) /\ Divides(d, x - y)
  <1>1. PICK p \in Int : x = d * p
    BY DEF Divides
  <1>2. PICK quot \in Int : y = d * quot
    BY DEF Divides
  <1>3. x + y = d * (p + quot) /\ x - y = d * (p - quot)
    BY <1>1, <1>2
  <1>4. p + quot \in Int /\ p - quot \in Int
    OBVIOUS
  <1> QED
    BY <1>3, <1>4 DEF Divides

\* A multiple of a multiple is one.
LEMMA DividesMul ==
  ASSUME NEW d \in Int, NEW x \in Int, NEW y \in Int, NEW z \in Int, Divides(d, x), z = x * y
  PROVE  Divides(d, z)
  <1>1. PICK p \in Int : x = d * p
    BY DEF Divides
  <1>2. z = d * (p * y) /\ p * y \in Int
    BY <1>1
  <1> QED
    BY <1>2 DEF Divides

\* Dividing is transitive.
LEMMA DividesTrans ==
  ASSUME NEW d \in Int, NEW x \in Int, NEW y \in Int, Divides(d, x), Divides(x, y)
  PROVE  Divides(d, y)
  <1>1. PICK p \in Int : x = d * p
    BY DEF Divides
  <1>2. PICK quot \in Int : y = x * quot
    BY DEF Divides
  <1>3. y = d * (p * quot) /\ p * quot \in Int
    BY <1>1, <1>2
  <1> QED
    BY <1>3 DEF Divides

\* A number differs from its remainder by a multiple.
LEMMA DividesRem ==
  ASSUME NEW n \in Nat \ {0}, NEW z \in Int
  PROVE  (z % n) \in 0 .. n - 1 /\ Divides(n, z - (z % n))
  <1>1. (z % n) \in 0 .. n - 1 /\ z \div n \in Int /\ z = n * (z \div n) + (z % n)
    OBVIOUS
  <1>2. z - (z % n) = n * (z \div n)
    BY <1>1
  <1> QED
    BY <1>1, <1>2 DEF Divides

\* Two remainders that differ by a multiple are equal.
LEMMA DividesSmall ==
  ASSUME NEW n \in Nat \ {0}, NEW x \in 0 .. n - 1, NEW y \in 0 .. n - 1, Divides(n, x - y)
  PROVE  x = y
  <1>1. PICK quot \in Int : x - y = n * quot
    BY DEF Divides
  <1>2. CASE quot = 0
    BY <1>1, <1>2
  <1>3. CASE quot >= 1
    <2>1. n * quot >= n
      BY <1>3
    <2> QED
      BY <2>1, <1>1
  <1>4. CASE quot <= -1
    <2>1. n * quot <= -n
      BY <1>4
    <2> QED
      BY <2>1, <1>1
  <1> QED
    BY <1>2, <1>3, <1>4

\* A divisor is no larger than the number.
LEMMA DividesLe ==
  ASSUME NEW d \in Nat \ {0}, NEW x \in Nat \ {0}, Divides(d, x)
  PROVE  d <= x
  <1>1. PICK quot \in Int : x = d * quot
    BY DEF Divides
  <1>2. quot >= 1
    BY <1>1
  <1> QED
    BY <1>1, <1>2

\* The order of the numbers, as a relation.
Below == {p \in Nat \X Nat : p[1] < p[2]}

\* A set of numbers that is not empty has a lowest one.
LEMMA LeastNatural ==
  ASSUME NEW S \in SUBSET Nat, S # {}
  PROVE  \E x \in S : \A y \in S : x <= y
  <1>1. IsWellFoundedOn(Below, Nat)
    BY NatLessThanWellFounded DEF OpToRel, Below
  <1>2. PICK x \in S : \A y \in S : ~(<<y, x>> \in Below)
    BY <1>1, WFMin
  <1>3. ASSUME NEW y \in S PROVE x <= y
    <2>1. x \in Nat /\ y \in Nat /\ ~(<<y, x>> \in Below)
      BY <1>2
    <2>2. ~(y < x)
      BY <2>1 DEF Below
    <2> QED
      BY <2>1, <2>2
  <1> QED
    BY <1>3

\* d divides a and b, and is a sum of multiples of a and b.
IsGcd(d, a, b) ==
  d \in Nat \ {0} /\ Divides(d, a) /\ Divides(d, b) /\ \E s \in Int, t \in Int : d = a * s + b * t

\* There is only one such number.
LEMMA GcdUnique ==
  ASSUME NEW a \in Nat, NEW b \in Nat \ {0}, NEW d, NEW e, IsGcd(d, a, b), IsGcd(e, a, b)
  PROVE  d = e
  <1>1. ASSUME NEW x \in Nat \ {0}, NEW y \in Nat \ {0}, IsGcd(x, a, b), IsGcd(y, a, b)
        PROVE  x <= y
    <2>1. PICK s \in Int, t \in Int : y = a * s + b * t
      BY <1>1 DEF IsGcd
    <2>2. Divides(x, a) /\ Divides(x, b)
      BY <1>1 DEF IsGcd
    <2> DEFINE as == a * s
               bt == b * t
    <2>3. as \in Int /\ bt \in Int /\ as = a * s /\ bt = b * t /\ y = as + bt
      BY <2>1
    <2> HIDE DEF as, bt
    <2>4. x \in Int /\ a \in Int /\ b \in Int
      OBVIOUS
    <2>5. Divides(x, as) /\ Divides(x, bt)
      BY ONLY <2>1, <2>2, <2>3, <2>4, DividesMul, Zenon
    <2>6. Divides(x, y)
      BY <2>5, <2>3, DividesSum
    <2> QED
      BY <2>6, DividesLe
  <1>2. d \in Nat \ {0} /\ e \in Nat \ {0}
    BY DEF IsGcd
  <1>3. d <= e /\ e <= d
    BY <1>1, <1>2
  <1> QED
    BY <1>2, <1>3

\* There is one: the lowest of the sums of multiples that are not 0.
LEMMA GcdExists ==
  ASSUME NEW a \in Nat, NEW b \in Nat \ {0}
  PROVE  \E d \in Nat \ {0} : IsGcd(d, a, b)
  <1> DEFINE Comb(x) == \E s \in Int, t \in Int : x = a * s + b * t
             S == {x \in Nat \ {0} : Comb(x)}
  <1>1. b \in S
    <2>1. b = a * 0 + b * 1
      OBVIOUS
    <2> QED
      BY <2>1
  <1>2. S \in SUBSET Nat
    OBVIOUS
  <1>3. PICK d \in S : \A y \in S : d <= y
    BY <1>1, <1>2, LeastNatural
  <1>4. PICK s \in Int, t \in Int : d = a * s + b * t
    BY <1>3
  <1>5. d \in Nat \ {0}
    BY <1>3
  <1> HIDE DEF S, Comb
  <1>6. ASSUME NEW x \in Int, Comb(x)
        PROVE  Divides(d, x)
    <2> DEFINE r == x % d
               quot == x \div d
    <2>1. r \in 0 .. d - 1 /\ quot \in Int /\ x = d * quot + r
      BY <1>5
    <2> HIDE DEF r, quot
    <2>2. PICK u \in Int, v \in Int : x = a * u + b * v
      BY <1>6 DEF Comb
    <2>3. r = a * (u - s * quot) + b * (v - t * quot)
      <3>1. r = x - d * quot
        BY <2>1, <1>5
      <3>2. d * quot = a * (s * quot) + b * (t * quot)
        BY <1>4, <2>1
      <3> QED
        BY <3>1, <3>2, <2>2, <2>1
    <2>4. u - s * quot \in Int /\ v - t * quot \in Int
      BY <2>1
    <2>5. Comb(r)
      BY <2>3, <2>4 DEF Comb
    <2>6. r = 0
      BY <2>1, <2>5, <1>3, <1>5 DEF S
    <2>7. x = d * quot
      BY <2>1, <2>6, <1>5
    <2> QED
      BY <2>7, <2>1 DEF Divides
  <1>7. Comb(a) /\ Comb(b)
    <2>1. a = a * 1 + b * 0 /\ b = a * 0 + b * 1
      OBVIOUS
    <2> QED
      BY <2>1 DEF Comb
  <1>8. Divides(d, a) /\ Divides(d, b)
    BY <1>6, <1>7
  <1> QED
    BY <1>4, <1>5, <1>8 DEF IsGcd

\* One round of Euclid's loop keeps the greatest common divisor.
LEMMA GcdStep ==
  ASSUME NEW a \in Nat, NEW b \in Nat \ {0}, NEW d, a % b # 0, IsGcd(d, b, a % b)
  PROVE  IsGcd(d, a, b)
  <1> DEFINE r == a % b
             k == a \div b
  <1>1. r \in Nat \ {0} /\ k \in Int /\ a = b * k + r
    OBVIOUS
  <1> HIDE DEF r, k
  <1>2. d \in Nat \ {0} /\ Divides(d, b) /\ Divides(d, r)
    BY DEF IsGcd, r
  <1>3. PICK s \in Int, t \in Int : d = b * s + r * t
    BY DEF IsGcd, r
  <1>4. Divides(d, a)
    <2> DEFINE bk == b * k
    <2>1. bk \in Int /\ bk = b * k
      BY <1>1
    <2> HIDE DEF bk
    <2>2. d \in Int /\ b \in Int
      BY <1>2
    <2>3. Divides(d, bk)
      BY <1>1, <1>2, <2>1, <2>2, DividesMul, Zenon
    <2> QED
      BY <2>3, <2>1, <1>1, <1>2, DividesSum
  <1>5. d = a * t + b * (s - k * t)
    <2>1. r = a - b * k
      BY <1>1
    <2> QED
      BY <2>1, <1>1, <1>3
  <1>6. s - k * t \in Int
    BY <1>1
  <1> QED
    BY <1>2, <1>4, <1>5, <1>6 DEF IsGcd

\* Where a % b = 0 gcd() returns b.
LEMMA GcdLast ==
  ASSUME NEW a \in Nat, NEW b \in Nat \ {0}, a % b = 0
  PROVE  IsGcd(b, a, b)
  <1>1. a \div b \in Int /\ a = b * (a \div b)
    OBVIOUS
  <1>2. b = a * 0 + b * 1 /\ b = b * 1
    OBVIOUS
  <1>3. Divides(b, a) /\ Divides(b, b)
    BY <1>1, <1>2 DEF Divides
  <1>4. \E u \in Int, t \in Int : b = a * u + b * t
    BY <1>2
  <1> QED
    BY <1>3, <1>4 DEF IsGcd

\* The recursive function is well defined.
LEMMA GcdDef ==
  ASSUME NEW a \in Nat, NEW b \in Nat \ {0}
  PROVE  GETOPT!gcd[<<a, b>>] = IF a % b = 0 THEN b ELSE GETOPT!gcd[<<b, a % b>>]
  <1> DEFINE G == [p \in Nat \X (Nat \ {0}) |-> CHOOSE d \in Nat \ {0} : IsGcd(d, p[1], p[2])]
             F(f) == [p \in Nat \X (Nat \ {0}) |->
                       IF p[1] % p[2] = 0 THEN p[2] ELSE f[<<p[2], p[1] % p[2]>>]]
  <1>1. ASSUME NEW x \in Nat, NEW y \in Nat \ {0}
        PROVE  IsGcd(G[<<x, y>>], x, y)
    BY GcdExists
  <1>2. ASSUME NEW x \in Nat, NEW y \in Nat \ {0}
        PROVE  G[<<x, y>>] = F(G)[<<x, y>>]
    <2> HIDE DEF G
    <2>1. CASE x % y = 0
      BY <2>1, <1>1, GcdLast, GcdUnique
    <2>2. CASE x % y # 0
      <3>1. (x % y) \in Nat \ {0}
        BY <2>2
      <3>2. IsGcd(G[<<y, x % y>>], y, x % y)
        BY <1>1, <3>1
      <3>3. IsGcd(G[<<y, x % y>>], x, y)
        BY <2>2, <3>2, GcdStep
      <3>4. G[<<x, y>>] = G[<<y, x % y>>]
        BY <3>3, <1>1, GcdUnique
      <3> QED
        BY <3>4, <2>2
    <2> QED
      BY <2>1, <2>2
  <1>3. G = F(G)
    <2>1. ASSUME NEW p \in Nat \X (Nat \ {0})
          PROVE  G[p] = F(G)[p]
      <3> HIDE DEF G, F
      <3>1. p[1] \in Nat /\ p[2] \in Nat \ {0} /\ p = <<p[1], p[2]>>
        OBVIOUS
      <3>2. G[<<p[1], p[2]>>] = F(G)[<<p[1], p[2]>>]
        BY <1>2, <3>1
      <3> QED
        BY <3>1, <3>2
    <2>2. /\ G = [p \in Nat \X (Nat \ {0}) |-> G[p]]
          /\ F(G) = [p \in Nat \X (Nat \ {0}) |-> F(G)[p]]
      OBVIOUS
    <2> HIDE DEF G, F
    <2> QED
      BY <2>1, <2>2
  <1> HIDE DEF G
  <1>4. GETOPT!gcd = F(GETOPT!gcd)
    <2>1. GETOPT!gcd = CHOOSE f : f = F(f)
      BY DEF GETOPT!gcd
    <2> HIDE DEF F
    <2> QED
      BY <2>1, <1>3
  <1>5. GETOPT!gcd[<<a, b>>] = F(GETOPT!gcd)[<<a, b>>]
    BY <1>4
  <1> QED
    BY <1>5

\* gcd() returns the greatest common divisor: there is no lowest b for which it does not.
LEMMA GcdIsGcd ==
  ASSUME NEW a \in Nat, NEW b \in Nat \ {0}
  PROVE  IsGcd(GETOPT!gcd[<<a, b>>], a, b)
  <1> DEFINE Bad == {y \in Nat \ {0} : \E x \in Nat : ~IsGcd(GETOPT!gcd[<<x, y>>], x, y)}
  <1>1. CASE Bad # {}
    <2>1. Bad \in SUBSET Nat
      OBVIOUS
    <2>2. PICK y \in Bad : \A z \in Bad : y <= z
      BY <1>1, <2>1, LeastNatural
    <2>3. PICK x \in Nat : ~IsGcd(GETOPT!gcd[<<x, y>>], x, y)
      BY <2>2
    <2>4. y \in Nat \ {0}
      BY <2>2
    <2>5. CASE x % y = 0
      BY <2>3, <2>4, <2>5, GcdDef, GcdLast
    <2>6. CASE x % y # 0
      <3>1. (x % y) \in Nat \ {0} /\ (x % y) < y
        BY <2>4, <2>6
      <3>2. ~((x % y) \in Bad)
        BY <3>1, <2>2, <2>4
      <3>3. IsGcd(GETOPT!gcd[<<y, x % y>>], y, x % y)
        BY <3>1, <3>2, <2>4
      <3>4. GETOPT!gcd[<<x, y>>] = GETOPT!gcd[<<y, x % y>>]
        BY <2>4, <2>6, GcdDef
      <3>5. IsGcd(GETOPT!gcd[<<y, x % y>>], x, y)
        BY <3>3, <2>4, <2>6, GcdStep
      <3> QED
        BY <3>4, <3>5, <2>3
    <2> QED
      BY <2>5, <2>6
  <1>2. CASE Bad = {}
    BY <1>2
  <1> QED
    BY <1>1, <1>2

-----------------------------------------------------------------------------
\* The position from .. to - 1 that e stands for when positions are counted around.
Wrap(from, to, e) == from + ((e - from) % (to - from))

\* It is one of the positions, a multiple of their number away from e.
LEMMA WrapMod ==
  ASSUME NEW from \in Int, NEW to \in Int, from < to, NEW e \in Int
  PROVE  Wrap(from, to, e) \in from .. to - 1 /\ Divides(to - from, e - Wrap(from, to, e))
  <1> DEFINE n == to - from
             z == e - from
             r == z % n
  <1>1. n \in Nat \ {0} /\ z \in Int
    OBVIOUS
  <1>2. Wrap(from, to, e) = from + r
    BY DEF Wrap
  <1>3. n = to - from /\ z = e - from
    OBVIOUS
  <1> HIDE DEF n, z
  <1>4. r \in 0 .. n - 1 /\ Divides(n, z - r)
    BY <1>1, DividesRem
  <1> HIDE DEF r
  <1>5. from + r \in from .. to - 1 /\ z - r = e - (from + r)
    BY <1>1, <1>3, <1>4
  <1> QED
    BY <1>2, <1>3, <1>4, <1>5

\* No other position is.
LEMMA WrapIs ==
  ASSUME NEW from \in Int, NEW to \in Int, from < to, NEW e \in Int,
         NEW x \in from .. to - 1, Divides(to - from, e - x)
  PROVE  Wrap(from, to, e) = x
  <1> DEFINE n == to - from
             p == Wrap(from, to, e)
             u == x - from
             v == p - from
  <1>1. p \in from .. to - 1 /\ Divides(n, e - p)
    BY WrapMod
  <1>2. n \in Nat \ {0} /\ n \in Int /\ e - x \in Int /\ Divides(n, e - x)
    OBVIOUS
  <1> HIDE DEF p
  <1>3. u \in 0 .. n - 1 /\ v \in 0 .. n - 1 /\ e - p \in Int
    BY <1>1
  <1>4. u - v = (e - p) - (e - x)
    BY <1>1
  <1> HIDE DEF n, u, v
  <1>5. Divides(n, u - v)
    BY <1>1, <1>2, <1>3, <1>4, DividesSum
  <1>6. u = v
    BY <1>2, <1>3, <1>5, DividesSmall
  <1> QED
    BY <1>1, <1>6 DEF u, v, p

\* The position that follows p on its cycle.
NextPos(from, mid, to, p) == IF p >= mid THEN p - (mid - from) ELSE p + (to - mid)

\* To follow the cycle is to count on by the length of the second block.
LEMMA WrapNext ==
  ASSUME NEW from \in Int, NEW mid \in Int, NEW to \in Int, from < mid, mid < to, NEW e \in Int
  PROVE  Wrap(from, to, e + (to - mid)) = NextPos(from, mid, to, Wrap(from, to, e))
  <1> DEFINE p == Wrap(from, to, e)
             n == to - from
             f == e + (to - mid)
             x == NextPos(from, mid, to, p)
  <1>1. p \in from .. to - 1 /\ Divides(n, e - p)
    BY WrapMod
  <1> HIDE DEF p
  <1>2. e - p \in Int /\ n \in Int /\ f \in Int
    BY <1>1
  <1>3. Divides(n, n)
    <2>1. n = n * 1
      BY <1>2
    <2> QED
      BY <2>1 DEF Divides
  <1>4. x \in from .. to - 1 /\ (f - x = (e - p) + n \/ f - x = e - p)
    BY <1>1 DEF NextPos
  <1>5. Divides(n, f - x)
    <2> HIDE DEF n, f, x
    <2>1. Divides(n, (e - p) + n)
      BY <1>1, <1>2, <1>3, DividesSum
    <2> QED
      BY <1>1, <1>4, <2>1
  <1> HIDE DEF f, x
  <1>6. Wrap(from, to, f) = x
    BY <1>2, <1>4, <1>5, WrapIs DEF n
  <1> QED
    BY <1>6 DEF f, x, p

\* What is known of a rotation by b of n positions: there are g cycles of length len.
Cycles(n, b, g, len) ==
  /\ n \in Nat \ {0} /\ b \in Nat \ {0} /\ g \in Nat \ {0} /\ len \in Nat \ {0}
  /\ g <= b /\ n = g * len
  /\ Divides(g, n) /\ Divides(g, b) /\ Divides(n, b * len)
  /\ \E s \in Int, t \in Int : g = n * s + b * t

\* permute_args() goes through as many cycles as there are, each to its end.
LEMMA CyclesOf ==
  ASSUME NEW a \in Nat \ {0}, NEW b \in Nat \ {0}
  PROVE  Cycles(a + b, b, GETOPT!gcd[<<a, b>>], (a + b) \div GETOPT!gcd[<<a, b>>])
  <1> DEFINE n == a + b
             g == GETOPT!gcd[<<a, b>>]
             len == n \div g
  <1>1. IsGcd(g, a, b)
    BY GcdIsGcd
  <1> HIDE DEF g
  <1>2. g \in Nat \ {0} /\ Divides(g, a) /\ Divides(g, b)
    BY <1>1 DEF IsGcd
  <1>3. PICK u \in Int, v \in Int : g = a * u + b * v
    BY <1>1 DEF IsGcd
  <1>4. n \in Nat \ {0} /\ n = a + b
    OBVIOUS
  <1>5. Divides(g, n)
    BY <1>2, <1>4, DividesSum
  <1>6. g <= b
    BY <1>2, DividesLe
  <1> HIDE DEF n
  <1>7. PICK quot \in Int : n = g * quot
    BY <1>5 DEF Divides
  <1>8. PICK k \in Int : b = g * k
    BY <1>2 DEF Divides
  <1>9. quot >= 1
    BY <1>7, <1>4, <1>2
  <1>10. len = quot
    <2>1. len \in Int /\ (n % g) \in 0 .. g - 1 /\ n = g * len + (n % g)
      BY <1>2, <1>4
    <2>2. Divides(g, (n % g) - 0)
      <3>1. (n % g) - 0 = g * (quot - len) /\ quot - len \in Int
        BY <2>1, <1>7, <1>2
      <3> QED
        BY <3>1 DEF Divides
    <2> DEFINE r == n % g
    <2>3. r \in 0 .. g - 1 /\ 0 \in 0 .. g - 1 /\ Divides(g, r - 0)
      BY <2>1, <2>2, <1>2
    <2>4. len \in Int /\ n = g * len + r
      BY <2>1
    <2> HIDE DEF r, len
    <2>5. r = 0
      BY <2>3, <1>2, DividesSmall
    <2>6. g * len = g * quot
      BY <2>4, <2>5, <1>7, <1>2
    <2>7. g * (len - quot) = 0
      BY <2>4, <2>6, <1>2
    <2> QED
      BY <2>4, <2>7, <1>2
  <1> HIDE DEF len
  <1>11. Divides(n, b * len)
    <2>1. b * len = n * k
      <3>1. b * len = (g * k) * quot
        BY <1>8, <1>10
      <3>2. n * k = (g * quot) * k
        BY <1>7
      <3>3. (g * k) * quot = (g * quot) * k
        BY <1>2
      <3> QED
        BY <3>1, <3>2, <3>3
    <2> QED
      BY <2>1 DEF Divides
  <1>12. g = n * u + b * (v - u) /\ v - u \in Int
    BY <1>3, <1>4
  <1>13. \E s \in Int, t \in Int : g = n * s + b * t
    BY <1>12
  <1>14. Cycles(n, b, g, len)
    <2>1. n = g * len
      BY <1>7, <1>10
    <2>2. len \in Nat \ {0}
      BY <1>9, <1>10
    <2> QED
      BY <1>2, <1>4, <1>5, <1>6, <1>11, <1>13, <2>1, <2>2 DEF Cycles
  <1> QED
    BY <1>14 DEF n, g, len

\* A walk that comes back to where it was has gone round the cycle.
LEMMA CycleBack ==
  ASSUME NEW n, NEW b, NEW g, NEW len, Cycles(n, b, g, len), NEW k \in Int, Divides(n, k * b)
  PROVE  Divides(len, k)
  <1>1. n \in Nat \ {0} /\ b \in Nat \ {0} /\ g \in Nat \ {0} /\ len \in Nat \ {0} /\ n = g * len
    BY DEF Cycles
  <1>2. PICK s \in Int, t \in Int : g = n * s + b * t
    BY DEF Cycles
  <1>3. PICK quot \in Int : k * b = n * quot
    BY DEF Divides
  <1>4. k * g = n * (k * s + quot * t)
    <2>1. k * g = n * (k * s) + (k * b) * t
      BY <1>1, <1>2
    <2>2. (k * b) * t = n * (quot * t)
      BY <1>1, <1>2, <1>3
    <2> QED
      BY <2>1, <2>2, <1>1, <1>2, <1>3
  <1> DEFINE m == k * s + quot * t
  <1>5. m \in Int
    BY <1>2, <1>3
  <1> HIDE DEF m
  <1>6. g * k = g * (len * m)
    BY <1>1, <1>4, <1>5 DEF m
  <1>7. k = len * m
    BY <1>1, <1>5, <1>6
  <1> QED
    BY <1>5, <1>7 DEF Divides

\* A walk from c reaches every position whose distance from c is a multiple of g.
LEMMA CycleReaches ==
  ASSUME NEW n, NEW b, NEW g, NEW len, Cycles(n, b, g, len), NEW d \in Int, Divides(g, d)
  PROVE  \E j \in 0 .. len - 1 : Divides(n, j * b - d)
  <1>1. n \in Nat \ {0} /\ b \in Nat \ {0} /\ g \in Nat \ {0} /\ len \in Nat \ {0} /\ n = g * len
    BY DEF Cycles
  <1>2. PICK s \in Int, t \in Int : g = n * s + b * t
    BY DEF Cycles
  <1>3. PICK quot \in Int : d = g * quot
    BY DEF Divides
  <1>4. PICK k \in Int : b * len = n * k
    BY DEF Cycles, Divides
  <1> DEFINE m == t * quot
             j == m % len
             u == m \div len
  <1>5. m \in Int
    BY <1>2, <1>3
  <1>6. d = n * (s * quot) + b * m
    BY <1>1, <1>2, <1>3
  <1> HIDE DEF m
  <1>7. j \in 0 .. len - 1 /\ u \in Int /\ m = len * u + j
    BY <1>1, <1>5
  <1> HIDE DEF j, u
  <1>8. b * m = (b * len) * u + j * b
    BY <1>1, <1>7
  <1>9. (b * len) * u = n * (k * u)
    BY <1>1, <1>4, <1>7
  <1>10. j * b - d = n * (-(s * quot) - k * u)
    BY <1>1, <1>2, <1>3, <1>4, <1>6, <1>7, <1>8, <1>9
  <1>11. -(s * quot) - k * u \in Int
    BY <1>2, <1>3, <1>4, <1>7
  <1> QED
    BY <1>7, <1>10, <1>11 DEF Divides

\* The blocks from .. mid - 1 and mid .. to - 1, neither of them empty.
Blocks(from, mid, to) == from \in Int /\ mid \in Int /\ to \in Int /\ from < mid /\ mid < to

\* Where the walk from c is after j steps.
WalkAt(from, mid, to, c, j) == Wrap(from, to, c + j * (to - mid))

\* The walk goes from a position to the one that follows it.
LEMMA WalkNext ==
  ASSUME NEW from, NEW mid, NEW to, Blocks(from, mid, to), NEW c \in from .. to - 1, NEW j \in Nat
  PROVE  /\ WalkAt(from, mid, to, c, j) \in from .. to - 1
         /\ WalkAt(from, mid, to, c, j + 1) = NextPos(from, mid, to, WalkAt(from, mid, to, c, j))
         /\ WalkAt(from, mid, to, c, 0) = c
  <1> USE DEF Blocks
  <1> DEFINE e == c + j * (to - mid)
             f == c + (j + 1) * (to - mid)
  <1>1. e \in Int /\ f = e + (to - mid) /\ c + 0 * (to - mid) = c
    OBVIOUS
  <1>2. /\ WalkAt(from, mid, to, c, j) = Wrap(from, to, e)
        /\ WalkAt(from, mid, to, c, j + 1) = Wrap(from, to, f)
    BY DEF WalkAt
  <1>3. WalkAt(from, mid, to, c, 0) = Wrap(from, to, c)
    BY <1>1 DEF WalkAt
  <1> HIDE DEF e, f
  <1>4. Wrap(from, to, e) \in from .. to - 1
    BY <1>1, WrapMod
  <1>5. Wrap(from, to, e + (to - mid)) = NextPos(from, mid, to, Wrap(from, to, e))
    BY <1>1, WrapNext
  <1>6. Wrap(from, to, c) = c
    <2>1. c \in Int /\ c - c = (to - from) * 0
      OBVIOUS
    <2>2. Divides(to - from, c - c)
      BY <2>1 DEF Divides
    <2> QED
      BY <2>1, <2>2, WrapIs
  <1> QED
    BY <1>1, <1>2, <1>3, <1>4, <1>5, <1>6

\* The walk counts on by the length of the second block.
LEMMA WalkMod ==
  ASSUME NEW from, NEW mid, NEW to, Blocks(from, mid, to), NEW c \in from .. to - 1, NEW j \in Nat
  PROVE  Divides(to - from, (c + j * (to - mid)) - WalkAt(from, mid, to, c, j))
  <1> USE DEF Blocks
  <1> DEFINE e == c + j * (to - mid)
  <1>1. e \in Int
    OBVIOUS
  <1>2. WalkAt(from, mid, to, c, j) = Wrap(from, to, e)
    BY DEF WalkAt
  <1>3. from \in Int /\ to \in Int /\ from < to
    OBVIOUS
  <1> HIDE DEF e
  <1>4. Divides(to - from, e - Wrap(from, to, e))
    BY <1>1, <1>3, WrapMod, Zenon
  <1>5. Divides(to - from, e - WalkAt(from, mid, to, c, j))
    BY <1>2, <1>4, Zenon
  <1> QED
    BY <1>5 DEF e

\* A position that is where the count leads is where the walk is.
LEMMA WalkIs ==
  ASSUME NEW from, NEW mid, NEW to, Blocks(from, mid, to), NEW c \in from .. to - 1, NEW j \in Nat,
         NEW x \in from .. to - 1, Divides(to - from, (c + j * (to - mid)) - x)
  PROVE  WalkAt(from, mid, to, c, j) = x
  <1> USE DEF Blocks
  <1> DEFINE e == c + j * (to - mid)
  <1>1. e \in Int
    OBVIOUS
  <1>2. WalkAt(from, mid, to, c, j) = Wrap(from, to, e)
    BY DEF WalkAt
  <1>3. Divides(to - from, e - x)
    OBVIOUS
  <1> HIDE DEF e
  <1> QED
    BY <1>1, <1>2, <1>3, WrapIs

\* The walk comes back to c after len steps.
LEMMA WalkRound ==
  ASSUME NEW from, NEW mid, NEW to, Blocks(from, mid, to), NEW c \in from .. to - 1,
         NEW g, NEW len, Cycles(to - from, to - mid, g, len)
  PROVE  WalkAt(from, mid, to, c, len) = c
  <1> USE DEF Blocks
  <1>1. len \in Nat /\ Divides(to - from, (to - mid) * len)
    BY DEF Cycles
  <1>2. (c + len * (to - mid)) - c = (to - mid) * len
    BY <1>1
  <1>3. Divides(to - from, (c + len * (to - mid)) - c)
    BY <1>1, <1>2
  <1> QED
    BY <1>1, <1>3, WalkIs

\* It comes to no position twice before that.
LEMMA WalkOnce ==
  ASSUME NEW from, NEW mid, NEW to, Blocks(from, mid, to), NEW c \in from .. to - 1,
         NEW g, NEW len, Cycles(to - from, to - mid, g, len),
         NEW k \in 0 .. len - 1, NEW j \in 0 .. len - 1,
         WalkAt(from, mid, to, c, k) = WalkAt(from, mid, to, c, j)
  PROVE  k = j
  <1> USE DEF Blocks
  <1> DEFINE n == to - from
             b == to - mid
             p == WalkAt(from, mid, to, c, k)
             x == (c + k * b) - p
             y == (c + j * b) - p
  <1>1. len \in Nat \ {0} /\ k \in Nat /\ j \in Nat
    BY DEF Cycles
  <1>2. Divides(n, x) /\ Divides(n, y)
    BY <1>1, WalkMod
  <1>3. p \in Int
    <2>1. p \in from .. to - 1
      BY <1>1, WalkNext
    <2> QED
      BY <2>1
  <1> HIDE DEF p
  <1>4. b \in Int /\ n \in Int
    OBVIOUS
  <1> HIDE DEF b, n
  <1>5. x \in Int /\ y \in Int /\ x - y = (k - j) * b
    BY <1>1, <1>3, <1>4
  <1> HIDE DEF x, y
  <1>6. Divides(n, (k - j) * b)
    BY <1>2, <1>4, <1>5, DividesSum
  <1>7. Cycles(n, b, g, len) /\ k - j \in Int
    BY <1>1 DEF n, b
  <1>8. Divides(len, k - j)
    BY <1>6, <1>7, CycleBack
  <1> QED
    BY <1>1, <1>8, DividesSmall

\* It comes to the positions that are a multiple of g away from c.
LEMMA WalkReaches ==
  ASSUME NEW from, NEW mid, NEW to, Blocks(from, mid, to), NEW c \in from .. to - 1,
         NEW g, NEW len, Cycles(to - from, to - mid, g, len), NEW p \in from .. to - 1
  PROVE  Divides(g, p - c) <=> \E j \in 0 .. len - 1 : WalkAt(from, mid, to, c, j) = p
  <1> USE DEF Blocks
  <1> DEFINE n == to - from
             b == to - mid
  <1>1. b \in Int /\ n \in Int /\ p - c \in Int /\ p \in Int /\ c \in Int
    OBVIOUS
  <1>2. Cycles(n, b, g, len)
    OBVIOUS
  <1>3. g \in Int /\ len \in Nat \ {0} /\ Divides(g, n) /\ Divides(g, b)
    BY <1>2 DEF Cycles
  <1>4. ASSUME Divides(g, p - c)
        PROVE  \E j \in 0 .. len - 1 : WalkAt(from, mid, to, c, j) = p
    <2> HIDE DEF n, b
    <2>1. PICK j \in 0 .. len - 1 : Divides(n, j * b - (p - c))
      BY <1>1, <1>2, <1>4, CycleReaches
    <2>2. j \in Nat
      BY <1>3
    <2>3. j * b - (p - c) = (c + j * b) - p
      BY <1>1, <2>2
    <2>4. Divides(n, (c + j * b) - p)
      BY <2>1, <2>3
    <2>5. WalkAt(from, mid, to, c, j) = p
      BY <2>2, <2>4, WalkIs DEF n, b
    <2> QED
      BY <2>5
  <1>5. ASSUME NEW j \in 0 .. len - 1, WalkAt(from, mid, to, c, j) = p
        PROVE  Divides(g, p - c)
    <2>1. j \in Nat /\ j \in Int
      BY <1>3
    <2>2. Divides(n, (c + j * b) - p)
      BY <1>5, <2>1, WalkMod
    <2> HIDE DEF n, b
    <2> DEFINE x == (c + j * b) - p
               y == j * b
    <2>3. x \in Int /\ y \in Int /\ y = b * j /\ p - c = y - x
      BY <1>1, <2>1
    <2>4. Divides(n, x)
      BY <2>2
    <2> HIDE DEF x, y
    <2>5. Divides(g, x)
      BY <1>1, <1>3, <2>3, <2>4, DividesTrans
    <2>6. Divides(g, y)
      BY <1>1, <1>3, <2>1, <2>3, DividesMul, Zenon
    <2> QED
      BY <1>3, <2>3, <2>5, <2>6, DividesSum
  <1> QED
    BY <1>4, <1>5

\* The position before p on its cycle.
PrevPos(from, mid, to, p) == IF p < from + (to - mid) THEN p + (mid - from) ELSE p - (to - mid)

\* PrevPos is the inverse of NextPos.
LEMMA PrevNext ==
  ASSUME NEW from, NEW mid, NEW to, Blocks(from, mid, to), NEW p \in from .. to - 1
  PROVE  PrevPos(from, mid, to, NextPos(from, mid, to, p)) = p
  BY DEF Blocks, PrevPos, NextPos

\* What v has become after j rounds of the cycle from c.
Moved(from, mid, to, len, c, v, j) ==
  [p \in DOMAIN v |->
    IF p = c THEN v[IF j = len THEN PrevPos(from, mid, to, c) ELSE WalkAt(from, mid, to, c, j)]
    ELSE IF \E m \in 1 .. j : WalkAt(from, mid, to, c, m) = p THEN v[PrevPos(from, mid, to, p)]
    ELSE v[p]]

\* pos and the vector after j rounds of the inner loop.
Round(from, mid, to, len, c, v, j) ==
  [pos |-> WalkAt(from, mid, to, c, j), w |-> Moved(from, mid, to, len, c, v, j)]

\* A cycle of the exchange of two blocks of the vector v.
Turn(from, mid, to, c, g, len, L, S, v) ==
  /\ Blocks(from, mid, to) /\ 1 <= from /\ c \in from .. to - 1
  /\ Cycles(to - from, to - mid, g, len)
  /\ L \in Nat /\ to <= L + 1 /\ v \in [1 .. L -> S]

\* A round of the inner loop moves the element at cstart on to where it belongs.
LEMMA ExchangeMoves ==
  ASSUME NEW from, NEW mid, NEW to, NEW c, NEW g, NEW len, NEW L, NEW S, NEW v,
         Turn(from, mid, to, c, g, len, L, S, v), NEW j \in 1 .. len
  PROVE  GETOPT!Exchange(from, mid, to, c, Round(from, mid, to, len, c, v, j - 1))
         = Round(from, mid, to, len, c, v, j)
  <1>1. /\ Blocks(from, mid, to) /\ 1 <= from /\ c \in from .. to - 1
        /\ Cycles(to - from, to - mid, g, len)
        /\ L \in Nat /\ to <= L + 1 /\ v \in [1 .. L -> S]
    BY DEF Turn
  <1> USE <1>1
  <1> DEFINE A(m) == WalkAt(from, mid, to, c, m)
             P(p) == PrevPos(from, mid, to, p)
             x == A(j)
             y == A(j - 1)
             w == Moved(from, mid, to, len, c, v, j - 1)
             u == Moved(from, mid, to, len, c, v, j)
  <1>2. len \in Nat \ {0} /\ j \in Nat /\ j - 1 \in Nat /\ j - 1 # len /\ (j - 1) + 1 = j
    BY DEF Cycles
  <1>3. /\ x \in from .. to - 1 /\ y \in from .. to - 1
        /\ x = NextPos(from, mid, to, y) /\ A(0) = c
    <2> DEFINE l == j - 1
    <2>1. l \in Nat /\ l + 1 = j
      BY <1>2
    <2>2. A(j) \in from .. to - 1
      BY <1>2, WalkNext
    <2> HIDE DEF l
    <2>3. A(l) \in from .. to - 1 /\ A(l + 1) = NextPos(from, mid, to, A(l)) /\ A(0) = c
      <3>1. A(l) \in from .. to - 1
        BY <2>1, WalkNext
      <3>2. A(l + 1) = NextPos(from, mid, to, A(l))
        BY <2>1, WalkNext
      <3>3. A(0) = c
        BY WalkNext
      <3> QED
        BY <3>1, <3>2, <3>3
    <2> HIDE DEF A
    <2> QED
      BY <2>1, <2>2, <2>3 DEF l
  <1>4. P(x) = y
    BY <1>3, PrevNext
  <1>5. from .. to - 1 \subseteq 1 .. L
    BY DEF Blocks
  <1>6. A(len) = c
    BY WalkRound
  <1>7. \A l \in 0 .. len - 1, k \in 0 .. len - 1 : A(l) = A(k) => l = k
    BY WalkOnce
  <1>8. /\ w = [p \in 1 .. L |-> IF p = c THEN v[y]
                                 ELSE IF \E m \in 1 .. j - 1 : A(m) = p THEN v[P(p)] ELSE v[p]]
        /\ u = [p \in 1 .. L |-> IF p = c THEN v[IF j = len THEN P(c) ELSE x]
                                 ELSE IF \E m \in 1 .. j : A(m) = p THEN v[P(p)] ELSE v[p]]
    BY <1>2 DEF Moved
  <1> HIDE DEF A, P, w, u
  <1>9. x \in 1 .. L /\ y \in 1 .. L /\ c \in 1 .. L
    BY <1>3, <1>5 DEF x, y
  <1>10. w[c] = v[y]
    BY <1>8, <1>9
  <1>11. ASSUME NEW p \in 1 .. L, p # c, p # x
         PROVE  u[p] = w[p]
    <2>1. (\E m \in 1 .. j : A(m) = p) <=> (\E m \in 1 .. j - 1 : A(m) = p)
      <3>1. ASSUME NEW m \in 1 .. j, A(m) = p
            PROVE  m \in 1 .. j - 1
        <4>1. m # j
          BY <1>11, <3>1 DEF x
        <4> QED
          BY <4>1, <1>2
      <3>2. 1 .. j - 1 \subseteq 1 .. j
        BY <1>2
      <3> QED
        BY <3>1, <3>2
    <2> QED
      BY <1>8, <1>11, <2>1
  <1>12. u = [w EXCEPT ![x] = w[c], ![c] = w[x]]
    <2>1. w = [p \in 1 .. L |-> w[p]] /\ u = [p \in 1 .. L |-> u[p]]
      BY <1>8
    <2>2. CASE j < len
      <3>1. x # c
        <4>1. j \in 0 .. len - 1 /\ 0 \in 0 .. len - 1 /\ j # 0
          BY <1>2, <2>2
        <4> QED
          BY <4>1, <1>3, <1>7 DEF x
      <3>2. ~ \E m \in 1 .. j - 1 : A(m) = x
        <4>1. ASSUME NEW m \in 1 .. j - 1
              PROVE  A(m) # x
          <5>1. j \in 0 .. len - 1 /\ m \in 0 .. len - 1 /\ j # m
            BY <1>2, <2>2
          <5> QED
            BY <5>1, <1>7 DEF x
        <4> QED
          BY <4>1
      <3>3. w[x] = v[x]
        BY <1>8, <1>9, <3>1, <3>2
      <3>4. u[c] = v[x]
        BY <1>8, <1>9, <2>2, <1>2
      <3>5. u[x] = v[y]
        <4>1. \E m \in 1 .. j : A(m) = x
          BY <1>2 DEF x
        <4> QED
          BY <1>8, <1>9, <3>1, <4>1, <1>4
      <3>6. DOMAIN w = 1 .. L
        BY <2>1
      <3> HIDE DEF x, y
      <3>7. \A p \in 1 .. L : [w EXCEPT ![x] = w[c], ![c] = w[x]][p] = u[p]
        BY <3>1, <3>3, <3>4, <3>5, <3>6, <1>9, <1>10, <1>11
      <3> QED
        BY <3>6, <3>7, <2>1
    <2>3. CASE j = len
      <3>1. x = c
        BY <1>6, <2>3 DEF x
      <3>2. u[c] = v[y]
        BY <1>4, <1>8, <1>9, <2>3, <3>1
      <3>3. DOMAIN w = 1 .. L
        BY <2>1
      <3> HIDE DEF x, y
      <3>4. \A p \in 1 .. L : [w EXCEPT ![x] = w[c], ![c] = w[x]][p] = u[p]
        BY <3>1, <3>2, <3>3, <1>9, <1>10, <1>11
      <3> QED
        BY <3>3, <3>4, <2>1
    <2> QED
      BY <2>2, <2>3, <1>2
  <1> DEFINE st == [pos |-> y, w |-> w]
  <1>13. st.pos = y /\ st.w = w
    OBVIOUS
  <1> HIDE DEF st, y
  <1>14. GETOPT!Exchange(from, mid, to, c, st)
         = [pos |-> x, w |-> [w EXCEPT ![x] = w[c], ![c] = w[x]]]
    BY <1>3, <1>13 DEF GETOPT!Exchange, NextPos
  <1>15. GETOPT!Exchange(from, mid, to, c, st) = [pos |-> x, w |-> u]
    BY <1>12, <1>14
  <1> QED
    BY <1>15 DEF st, x, y, A, w, u, Round

\* Two sequences that begin alike and go on alike end alike.
LEMMA SameWalk ==
  ASSUME NEW n \in Nat, NEW f, NEW h, f[0] = h[0],
         \A j \in 1 .. n : f[j - 1] = h[j - 1] => f[j] = h[j]
  PROVE  f[n] = h[n]
  <1> DEFINE Bad == {j \in 0 .. n : f[j] # h[j]}
  <1>1. CASE Bad # {}
    <2>1. Bad \in SUBSET Nat
      OBVIOUS
    <2>2. PICK j \in Bad : \A k \in Bad : j <= k
      BY <1>1, <2>1, LeastNatural
    <2>3. j \in 0 .. n /\ f[j] # h[j] /\ j # 0
      BY <2>2
    <2>4. j \in 1 .. n /\ j - 1 \in 0 .. n /\ ~(j <= j - 1)
      BY <2>3
    <2>5. f[j - 1] = h[j - 1]
      BY <2>2, <2>4
    <2> QED
      BY <2>3, <2>4, <2>5
  <1>2. CASE Bad = {}
    BY <1>2
  <1> QED
    BY <1>1, <1>2

\* The inner loop as a whole moves every element of the cycle.
LEMMA CycleMoves ==
  ASSUME NEW from, NEW mid, NEW to, NEW c, NEW g, NEW len, NEW L, NEW S, NEW v,
         Turn(from, mid, to, c, g, len, L, S, v)
  PROVE  GETOPT!Cycle(from, mid, to, len, c, v) = Moved(from, mid, to, len, c, v, len)
  <1>1. /\ Blocks(from, mid, to) /\ 1 <= from /\ c \in from .. to - 1
        /\ Cycles(to - from, to - mid, g, len)
        /\ L \in Nat /\ to <= L + 1 /\ v \in [1 .. L -> S]
    BY DEF Turn
  <1> USE <1>1
  <1> DEFINE State(j) == Round(from, mid, to, len, c, v, j)
             E(s) == GETOPT!Exchange(from, mid, to, c, s)
             start == [pos |-> c, w |-> v]
             F(f) == [j \in 0 .. len |-> IF j = 0 THEN start ELSE E(f[j - 1])]
             G == [j \in 0 .. len |-> State(j)]
             st == CHOOSE f : f = F(f)
  <1>2. len \in Nat \ {0}
    BY DEF Cycles
  <1>3. State(0) = start
    <2>1. WalkAt(from, mid, to, c, 0) = c
      BY WalkNext
    <2>2. Moved(from, mid, to, len, c, v, 0) = v
      <3>1. DOMAIN v = 1 .. L /\ 0 # len /\ ~ \E m \in 1 .. 0 : WalkAt(from, mid, to, c, m) = m
        BY <1>2
      <3>2. v = [p \in 1 .. L |-> v[p]]
        OBVIOUS
      <3>3. \A p \in 1 .. L : ~ \E m \in 1 .. 0 : WalkAt(from, mid, to, c, m) = p
        OBVIOUS
      <3>4. Moved(from, mid, to, len, c, v, 0) = [p \in 1 .. L |-> v[p]]
        BY <3>1, <3>3, <2>1 DEF Moved
      <3> QED
        BY <3>2, <3>4
    <2> QED
      BY <2>1, <2>2 DEF Round
  <1>4. ASSUME NEW j \in 1 .. len
        PROVE  State(j) = E(State(j - 1))
    BY ExchangeMoves
  <1>5. GETOPT!Cycle(from, mid, to, len, c, v) = st[len].w
    BY DEF GETOPT!Cycle
  <1> HIDE DEF State, E, start
  <1>6. G = F(G)
    <2>1. ASSUME NEW j \in 0 .. len
          PROVE  State(j) = IF j = 0 THEN start ELSE E(G[j - 1])
      <3>1. CASE j = 0
        BY <3>1, <1>3
      <3>2. CASE j # 0
        <4>1. j \in 1 .. len /\ j - 1 \in 0 .. len
          BY <3>2, <1>2
        <4>2. G[j - 1] = State(j - 1)
          BY <4>1
        <4> HIDE DEF G
        <4> QED
          BY <4>1, <4>2, <3>2, <1>4
      <3> QED
        BY <3>1, <3>2
    <2> QED
      BY <2>1
  <1>7. st = F(st)
    <2> HIDE DEF F, G
    <2> QED
      BY <1>6
  <1> HIDE DEF st
  <1>8. G[0] = State(0) /\ st[0] = State(0)
    <2>1. 0 \in 0 .. len
      BY <1>2
    <2>2. F(st)[0] = start
      BY <2>1
    <2> QED
      BY <1>3, <1>7, <2>1, <2>2
  <1>9. ASSUME NEW j \in 1 .. len, st[j - 1] = G[j - 1]
        PROVE  st[j] = G[j]
    <2>1. j \in 0 .. len /\ j - 1 \in 0 .. len /\ j # 0
      BY <1>2
    <2>2. F(st)[j] = E(st[j - 1])
      BY <2>1
    <2>3. G[j] = State(j) /\ G[j - 1] = State(j - 1)
      BY <2>1
    <2> HIDE DEF G, F
    <2> QED
      BY <1>4, <1>7, <1>9, <2>2, <2>3
  <1>10. G[len] = State(len)
    BY <1>2
  <1> HIDE DEF G, F
  <1>11. st[len] = G[len]
    BY <1>2, <1>8, <1>9, SameWalk
  <1>12. State(len).w = Moved(from, mid, to, len, c, v, len)
    BY DEF State, Round
  <1> QED
    BY <1>5, <1>10, <1>11, <1>12

\* The positions of from .. to - 1 that are not s short of a multiple of g go round.
LEMMA CycleTurns ==
  ASSUME NEW from, NEW mid, NEW to, NEW c, NEW g, NEW len, NEW L, NEW S, NEW v,
         Turn(from, mid, to, c, g, len, L, S, v)
  PROVE  GETOPT!Cycle(from, mid, to, len, c, v)
         = [p \in 1 .. L |-> IF p \in from .. to - 1 /\ Divides(g, p - c)
                             THEN v[PrevPos(from, mid, to, p)] ELSE v[p]]
  <1>1. /\ Blocks(from, mid, to) /\ 1 <= from /\ c \in from .. to - 1
        /\ Cycles(to - from, to - mid, g, len)
        /\ L \in Nat /\ to <= L + 1 /\ v \in [1 .. L -> S]
    BY DEF Turn
  <1> USE <1>1
  <1> DEFINE A(m) == WalkAt(from, mid, to, c, m)
             P(p) == PrevPos(from, mid, to, p)
  <1>2. len \in Nat \ {0}
    BY DEF Cycles
  <1>3. Moved(from, mid, to, len, c, v, len)
        = [p \in 1 .. L |-> IF p = c THEN v[P(c)]
                            ELSE IF \E m \in 1 .. len : A(m) = p THEN v[P(p)] ELSE v[p]]
    BY DEF Moved
  <1>4. A(0) = c /\ A(len) = c
    BY WalkNext, WalkRound
  <1>5. ASSUME NEW m \in 0 .. len
        PROVE  A(m) \in from .. to - 1
    <2>1. m \in Nat
      BY <1>2
    <2> QED
      BY <2>1, WalkNext
  <1>6. \A p \in from .. to - 1 : Divides(g, p - c) <=> \E j \in 0 .. len - 1 : A(j) = p
    BY WalkReaches
  <1> HIDE DEF A, P
  <1>7. ASSUME NEW p \in 1 .. L
        PROVE  (p \in from .. to - 1 /\ Divides(g, p - c))
               <=> (p = c \/ \E m \in 1 .. len : A(m) = p)
    <2>1. ASSUME p \in from .. to - 1, Divides(g, p - c)
          PROVE  p = c \/ \E m \in 1 .. len : A(m) = p
      <3>1. PICK j \in 0 .. len - 1 : A(j) = p
        BY <1>6, <2>1
      <3>2. j = 0 \/ j \in 1 .. len
        BY <1>2
      <3> QED
        BY <3>1, <3>2, <1>4
    <2>2. ASSUME p = c
          PROVE  p \in from .. to - 1 /\ Divides(g, p - c)
      <3>1. 0 \in 0 .. len - 1
        BY <1>2
      <3> QED
        BY <1>4, <1>6, <2>2, <3>1
    <2>3. ASSUME NEW m \in 1 .. len, A(m) = p
          PROVE  p \in from .. to - 1 /\ Divides(g, p - c)
      <3>1. m \in 0 .. len /\ (m = len \/ m \in 0 .. len - 1)
        BY <1>2
      <3>2. p \in from .. to - 1
        BY <3>1, <2>3, <1>5
      <3> QED
        BY <1>4, <1>6, <2>2, <2>3, <3>1, <3>2
    <2> QED
      BY <2>1, <2>2, <2>3
  <1>8. GETOPT!Cycle(from, mid, to, len, c, v) = Moved(from, mid, to, len, c, v, len)
    BY CycleMoves
  <1>9. GETOPT!Cycle(from, mid, to, len, c, v)
        = [p \in 1 .. L |-> IF p \in from .. to - 1 /\ Divides(g, p - c) THEN v[P(p)] ELSE v[p]]
    BY <1>3, <1>7, <1>8
  <1> QED
    BY <1>9 DEF P

\* The position p is on one of the first l cycles.
Turned(mid, g, p, l) == \E k \in 0 .. l - 1 : Divides(g, p - (mid + k))

\* What v has become after k cycles.
AfterCycles(from, mid, to, g, L, v, k) ==
  [p \in 1 .. L |-> IF p \in from .. to - 1 /\ Turned(mid, g, p, k)
                    THEN v[PrevPos(from, mid, to, p)] ELSE v[p]]

\* The position before p is on the same cycle.
LEMMA PrevIn ==
  ASSUME NEW from, NEW mid, NEW to, Blocks(from, mid, to), NEW p \in from .. to - 1,
         NEW g, NEW len, Cycles(to - from, to - mid, g, len)
  PROVE  /\ PrevPos(from, mid, to, p) \in from .. to - 1
         /\ Divides(g, PrevPos(from, mid, to, p) - p)
  <1> DEFINE quot == PrevPos(from, mid, to, p)
             n == to - from
             b == to - mid
  <1>1. quot \in from .. to - 1
    BY DEF Blocks, PrevPos
  <1>2. quot - p = n - b \/ quot - p = 0 - b
    BY DEF Blocks, PrevPos
  <1>3. g \in Int /\ Divides(g, n) /\ Divides(g, b)
    BY DEF Cycles
  <1>4. n \in Int /\ b \in Int
    BY DEF Blocks
  <1> HIDE DEF quot, n, b
  <1>5. 0 = g * 0
    BY <1>3
  <1>6. Divides(g, 0)
    BY <1>5 DEF Divides
  <1>7. Divides(g, n - b) /\ Divides(g, 0 - b)
    BY <1>3, <1>4, <1>6, DividesSum
  <1>8. Divides(g, quot - p)
    BY <1>2, <1>7
  <1> QED
    BY <1>1, <1>8 DEF quot

\* Each cycle adds the positions a multiple of g away from where it starts.
LEMMA TurnedNext ==
  ASSUME NEW mid \in Int, NEW g \in Nat \ {0}, NEW p \in Int, NEW l \in 1 .. g
  PROVE  Turned(mid, g, p, l) <=> Turned(mid, g, p, l - 1) \/ Divides(g, p - (mid + (l - 1)))
  <1>1. ASSUME NEW k \in 0 .. l - 1
        PROVE  k \in 0 .. (l - 1) - 1 \/ k = l - 1
    OBVIOUS
  <1>2. ASSUME NEW k \in 0 .. (l - 1) - 1
        PROVE  k \in 0 .. l - 1
    OBVIOUS
  <1>3. l - 1 \in 0 .. l - 1
    OBVIOUS
  <1> QED
    BY <1>1, <1>2, <1>3 DEF Turned

\* The cycles are disjoint.
LEMMA TurnedNot ==
  ASSUME NEW mid \in Int, NEW g \in Nat \ {0}, NEW p \in Int, NEW l \in 1 .. g,
         Divides(g, p - (mid + (l - 1)))
  PROVE  ~Turned(mid, g, p, l - 1)
  <1> SUFFICES ASSUME NEW k \in 0 .. (l - 1) - 1, Divides(g, p - (mid + k))
               PROVE  FALSE
    BY DEF Turned
  <1> DEFINE x == p - (mid + k)
             y == p - (mid + (l - 1))
             j == l - 1
  <1>1. x \in Int /\ y \in Int /\ x - y = j - k /\ g \in Int
    OBVIOUS
  <1>2. Divides(g, x) /\ Divides(g, y)
    OBVIOUS
  <1>3. j \in 0 .. g - 1 /\ k \in 0 .. g - 1 /\ j # k
    OBVIOUS
  <1> HIDE DEF x, y, j
  <1>4. Divides(g, j - k)
    BY <1>1, <1>2, DividesSum
  <1> QED
    BY <1>3, <1>4, DividesSmall

\* The g cycles have all the positions between them.
LEMMA TurnedAll ==
  ASSUME NEW mid \in Int, NEW g \in Nat \ {0}, NEW p \in Int
  PROVE  Turned(mid, g, p, g)
  <1> DEFINE z == p - mid
             k == z % g
  <1>1. z \in Int /\ z = p - mid
    OBVIOUS
  <1> HIDE DEF z
  <1>2. k \in 0 .. g - 1 /\ Divides(g, z - k)
    BY <1>1, DividesRem
  <1> HIDE DEF k
  <1>3. z - k = p - (mid + k)
    BY <1>1, <1>2
  <1> QED
    BY <1>2, <1>3 DEF Turned

\* The cycles of the exchange of two blocks of the vector v.
Turns(from, mid, to, g, len, L, S, v) ==
  /\ Blocks(from, mid, to) /\ 1 <= from
  /\ Cycles(to - from, to - mid, g, len)
  /\ L \in Nat /\ to <= L + 1 /\ v \in [1 .. L -> S]

\* One more cycle.
LEMMA OneCycle ==
  ASSUME NEW from, NEW mid, NEW to, NEW g, NEW len, NEW L, NEW S, NEW v,
         Turns(from, mid, to, g, len, L, S, v), NEW l \in 1 .. g
  PROVE  GETOPT!Cycle(from, mid, to, len, mid + (l - 1), AfterCycles(from, mid, to, g, L, v, l - 1))
         = AfterCycles(from, mid, to, g, L, v, l)
  <1>1. /\ Blocks(from, mid, to) /\ 1 <= from
        /\ Cycles(to - from, to - mid, g, len)
        /\ L \in Nat /\ to <= L + 1 /\ v \in [1 .. L -> S]
    BY DEF Turns
  <1> USE <1>1
  <1> DEFINE c == mid + (l - 1)
             P(p) == PrevPos(from, mid, to, p)
             T(p, k) == Turned(mid, g, p, k)
             w == AfterCycles(from, mid, to, g, L, v, l - 1)
             u == AfterCycles(from, mid, to, g, L, v, l)
  <1>2. from \in Int /\ mid \in Int /\ to \in Int /\ from < mid /\ mid < to
    BY DEF Blocks
  <1>3. g \in Nat \ {0} /\ g <= to - mid
    BY DEF Cycles
  <1>4. c \in from .. to - 1
    BY <1>2, <1>3
  <1>5. from .. to - 1 \subseteq 1 .. L
    BY <1>2
  <1>6. \A p \in from .. to - 1 : P(p) \in from .. to - 1 /\ Divides(g, P(p) - p)
    BY PrevIn
  <1>7. /\ w = [p \in 1 .. L |-> IF p \in from .. to - 1 /\ T(p, l - 1) THEN v[P(p)] ELSE v[p]]
        /\ u = [p \in 1 .. L |-> IF p \in from .. to - 1 /\ T(p, l) THEN v[P(p)] ELSE v[p]]
    BY DEF AfterCycles
  <1> DEFINE D(p) == Divides(g, p - c)
  <1>8. \A p \in from .. to - 1 : T(p, l) <=> T(p, l - 1) \/ D(p)
    <2>1. ASSUME NEW p \in from .. to - 1
          PROVE  T(p, l) <=> T(p, l - 1) \/ D(p)
      <3>1. p \in Int
        BY <1>2
      <3> QED
        BY <3>1, <1>2, <1>3, TurnedNext
    <2> QED
      BY <2>1
  <1>9. \A p \in from .. to - 1 : D(p) => ~T(p, l - 1)
    <2>1. ASSUME NEW p \in from .. to - 1, D(p)
          PROVE  ~T(p, l - 1)
      <3>1. p \in Int
        BY <1>2
      <3> QED
        BY <3>1, <2>1, <1>2, <1>3, TurnedNot
    <2> QED
      BY <2>1
  <1>10. \A p \in from .. to - 1 : D(p) => D(P(p))
    <2>1. ASSUME NEW p \in from .. to - 1, D(p)
          PROVE  D(P(p))
      <3> DEFINE quot == P(p)
                 x == p - c
                 y == quot - p
      <3>1. quot \in from .. to - 1 /\ Divides(g, y) /\ Divides(g, x)
        BY <1>6, <2>1
      <3>2. c \in Int /\ g \in Int
        BY <1>3, <1>4
      <3> HIDE DEF quot, c
      <3>3. x \in Int /\ y \in Int /\ x + y = quot - c
        BY <1>2, <3>1, <3>2
      <3> HIDE DEF x, y
      <3>4. Divides(g, quot - c)
        BY <3>1, <3>2, <3>3, DividesSum
      <3> QED
        BY <3>4 DEF quot
    <2> QED
      BY <2>1
  <1>11. w \in [1 .. L -> S]
    <2> HIDE DEF P, T, w, u
    <2> QED
      BY <1>5, <1>6, <1>7
  <1>12. GETOPT!Cycle(from, mid, to, len, c, w)
         = [p \in 1 .. L |-> IF p \in from .. to - 1 /\ D(p) THEN w[P(p)] ELSE w[p]]
    <2>1. Turn(from, mid, to, c, g, len, L, S, w)
      BY <1>4, <1>11 DEF Turn
    <2> HIDE DEF w, c
    <2> QED
      BY <2>1, CycleTurns
  <1> HIDE DEF P, T, D, w, u, c
  <1>13. ASSUME NEW p \in 1 .. L
         PROVE  (IF p \in from .. to - 1 /\ D(p) THEN w[P(p)] ELSE w[p]) = u[p]
    <2>1. CASE p \in from .. to - 1 /\ D(p)
      <3>1. P(p) \in from .. to - 1 /\ P(p) \in 1 .. L /\ ~T(P(p), l - 1)
        BY <2>1, <1>5, <1>6, <1>9, <1>10
      <3>2. w[P(p)] = v[P(p)]
        BY <3>1, <1>7
      <3>3. u[p] = v[P(p)]
        BY <2>1, <1>7, <1>8
      <3> QED
        BY <2>1, <3>2, <3>3
    <2>2. CASE p \in from .. to - 1 /\ ~D(p)
      BY <2>2, <1>7, <1>8
    <2>3. CASE p \notin from .. to - 1
      BY <2>3, <1>7
    <2> QED
      BY <2>1, <2>2, <2>3
  <1>14. u = [p \in 1 .. L |-> u[p]]
    BY <1>7
  <1>15. GETOPT!Cycle(from, mid, to, len, c, w) = u
    BY <1>12, <1>13, <1>14
  <1> QED
    BY <1>15 DEF c, w, u

\* The blocks from .. mid - 1 and mid .. to - 1 of v have changed places.
Rotation(from, mid, to, L, v) ==
  [p \in 1 .. L |-> IF p \in from .. to - 1 THEN v[PrevPos(from, mid, to, p)] ELSE v[p]]

\* permute_args() takes the element that belongs there to every position.
LEMMA permute_argsRotates ==
  ASSUME NEW from, NEW mid, NEW to, Blocks(from, mid, to), 1 <= from,
         NEW L \in Nat, to <= L + 1, NEW S, NEW v \in [1 .. L -> S]
  PROVE  GETOPT!permute_args(from, mid, to, v) = Rotation(from, mid, to, L, v)
  <1> DEFINE g == GETOPT!gcd[<<mid - from, to - mid>>]
             len == (to - from) \div g
             V(k) == AfterCycles(from, mid, to, g, L, v, k)
             C(k, w) == GETOPT!Cycle(from, mid, to, len, mid + (k - 1), w)
             F(f) == [k \in 0 .. g |-> IF k = 0 THEN v ELSE C(k, f[k - 1])]
             G == [k \in 0 .. g |-> V(k)]
             after == CHOOSE f : f = F(f)
  <1>1. from \in Int /\ mid \in Int /\ to \in Int /\ from < mid /\ mid < to
    BY DEF Blocks
  <1>2. GETOPT!permute_args(from, mid, to, v) = after[g]
    BY DEF GETOPT!permute_args
  <1>3. Cycles(to - from, to - mid, g, len)
    <2> DEFINE a == mid - from
               b == to - mid
    <2>1. a \in Nat \ {0} /\ b \in Nat \ {0} /\ a + b = to - from
      BY <1>1
    <2> HIDE DEF a, b
    <2>2. Cycles(a + b, b, GETOPT!gcd[<<a, b>>], (a + b) \div GETOPT!gcd[<<a, b>>])
      BY <2>1, CyclesOf
    <2> QED
      BY <2>1, <2>2 DEF a, b
  <1> HIDE DEF g, len
  <1>4. g \in Nat \ {0}
    BY <1>3 DEF Cycles
  <1>5. V(0) = v
    <2>1. ASSUME NEW p \in 1 .. L
          PROVE  ~Turned(mid, g, p, 0)
      BY DEF Turned
    <2>2. V(0) = [p \in 1 .. L |-> v[p]]
      BY <2>1 DEF AfterCycles
    <2> QED
      BY <2>2
  <1>6. ASSUME NEW k \in 1 .. g
        PROVE  V(k) = C(k, V(k - 1))
    <2>1. Turns(from, mid, to, g, len, L, S, v)
      BY <1>3 DEF Turns
    <2>2. C(k, V(k - 1)) = V(k)
      BY <2>1, OneCycle
    <2> QED
      BY <2>2
  <1>7. V(g) = Rotation(from, mid, to, L, v)
    <2>1. ASSUME NEW p \in 1 .. L
          PROVE  Turned(mid, g, p, g)
      BY <1>1, <1>4, TurnedAll
    <2> QED
      BY <2>1 DEF AfterCycles, Rotation
  <1> HIDE DEF V, C
  <1>8. G = F(G)
    <2>1. ASSUME NEW k \in 0 .. g
          PROVE  V(k) = IF k = 0 THEN v ELSE C(k, G[k - 1])
      <3>1. CASE k = 0
        BY <3>1, <1>5
      <3>2. CASE k # 0
        <4>1. k \in 1 .. g /\ k - 1 \in 0 .. g
          BY <3>2, <1>4
        <4>2. G[k - 1] = V(k - 1)
          BY <4>1
        <4> HIDE DEF G
        <4> QED
          BY <4>1, <4>2, <3>2, <1>6
      <3> QED
        BY <3>1, <3>2
    <2> QED
      BY <2>1
  <1>9. after = F(after)
    <2> HIDE DEF F, G
    <2> QED
      BY <1>8
  <1> HIDE DEF after
  <1>10. G[0] = V(0) /\ after[0] = V(0)
    <2>1. 0 \in 0 .. g
      BY <1>4
    <2>2. F(after)[0] = v
      BY <2>1
    <2> QED
      BY <1>5, <1>9, <2>1, <2>2
  <1>11. ASSUME NEW k \in 1 .. g, after[k - 1] = G[k - 1]
         PROVE  after[k] = G[k]
    <2>1. k \in 0 .. g /\ k - 1 \in 0 .. g /\ k # 0
      BY <1>4
    <2>2. F(after)[k] = C(k, after[k - 1])
      BY <2>1
    <2>3. G[k] = V(k) /\ G[k - 1] = V(k - 1)
      BY <2>1
    <2> HIDE DEF G, F
    <2> QED
      BY <1>6, <1>9, <1>11, <2>2, <2>3
  <1>12. G[g] = V(g)
    BY <1>4
  <1> HIDE DEF G, F
  <1>13. after[g] = G[g]
    BY <1>4, <1>10, <1>11, SameWalk
  <1> QED
    BY <1>2, <1>7, <1>12, <1>13

-----------------------------------------------------------------------------
\* j is the sequence s of length m followed by t, l elements in all.
IsJoin(j, S, s, t, m, l) ==
  /\ j \in Seq(S) /\ Len(j) = l
  /\ \A k \in 1 .. l : j[k] = IF k <= m THEN s[k] ELSE t[k - m]

\* Two sequences one after the other.
LEMMA Joined ==
  ASSUME NEW S, NEW s \in Seq(S), NEW t \in Seq(S), NEW m \in Nat, NEW l \in Nat,
         Len(s) = m, m + Len(t) = l
  PROVE  IsJoin(s \o t, S, s, t, m, l)
  BY ConcatProperties DEF IsJoin

(***************************************************************************)
(* permute_args() exchanges two adjacent blocks of a vector and moves      *)
(* nothing else, whatever their lengths: gcd() of the two is the number of *)
(* cycles of the rotation, and each cycle moves its elements to their      *)
(* places.                                                                 *)
(***************************************************************************)
THEOREM BlocksExchanged ==
  ASSUME NEW S, NEW v \in Seq(S), NEW from \in 1 .. Len(v), NEW mid \in from + 1 .. Len(v),
         NEW to \in mid + 1 .. Len(v) + 1
  PROVE  GETOPT!permute_args(from, mid, to, v)
         = SubSeq(v, 1, from - 1) \o SubSeq(v, mid, to - 1) \o SubSeq(v, from, mid - 1)
           \o SubSeq(v, to, Len(v))
  <1> DEFINE L == Len(v)
             s1 == SubSeq(v, 1, from - 1)
             s2 == SubSeq(v, mid, to - 1)
             s3 == SubSeq(v, from, mid - 1)
             s4 == SubSeq(v, to, L)
             r == Rotation(from, mid, to, L, v)
  <1>1. L \in Nat /\ v \in [1 .. L -> S]
    OBVIOUS
  <1>2. /\ from \in Int /\ mid \in Int /\ to \in Int /\ 1 <= from /\ from < mid /\ mid < to
        /\ to <= L + 1
    BY <1>1
  <1> HIDE DEF L
  <1>3. GETOPT!permute_args(from, mid, to, v) = r
    BY <1>1, <1>2, permute_argsRotates DEF Blocks
  <1>4. s1 \in Seq(S) /\ Len(s1) = from - 1 /\ \A k \in 1 .. from - 1 : s1[k] = v[k]
    BY <1>1, <1>2, SubSeqProperties DEF L
  <1>5. /\ s2 \in Seq(S) /\ Len(s2) = to - mid
        /\ \A k \in 1 .. to - mid : s2[k] = v[mid + (k - 1)]
    BY <1>1, <1>2, SubSeqProperties DEF L
  <1>6. /\ s3 \in Seq(S) /\ Len(s3) = mid - from
        /\ \A k \in 1 .. mid - from : s3[k] = v[from + (k - 1)]
    BY <1>1, <1>2, SubSeqProperties DEF L
  <1>7. /\ s4 \in Seq(S) /\ Len(s4) = (L - to) + 1
        /\ \A k \in 1 .. (L - to) + 1 : s4[k] = v[to + (k - 1)]
    BY <1>1, <1>2, SubSeqProperties DEF L
  <1> HIDE DEF s1, s2, s3, s4
  <1> DEFINE t2 == s1 \o s2
             t3 == t2 \o s3
             t == t3 \o s4
             b == to - mid
  <1>8. b \in Nat /\ b = to - mid
    BY <1>2
  <1>9. /\ t2 \in Seq(S) /\ Len(t2) = (from - 1) + b
         /\ \A p \in 1 .. (from - 1) + b : t2[p] = IF p < from THEN v[p] ELSE v[p + (mid - from)]
    <2>1. /\ t2 \in Seq(S) /\ Len(t2) = (from - 1) + b
          /\ \A p \in 1 .. (from - 1) + b :
               t2[p] = IF p <= from - 1 THEN s1[p] ELSE s2[p - (from - 1)]
      <3> DEFINE m == from - 1
                 l == (from - 1) + b
      <3>1. m \in Nat /\ l \in Nat /\ Len(s1) = m /\ m + Len(s2) = l
        BY <1>2, <1>4, <1>5
      <3> HIDE DEF m, l
      <3>2. s1 \in Seq(S) /\ s2 \in Seq(S)
        BY <1>4, <1>5
      <3>3. IsJoin(s1 \o s2, S, s1, s2, m, l)
        BY <3>1, <3>2, Joined
      <3> QED
        BY <3>3 DEF IsJoin, m, l
    <2>2. ASSUME NEW p \in 1 .. (from - 1) + b, ~(p < from)
          PROVE  p - (from - 1) \in 1 .. to - mid /\ mid + ((p - (from - 1)) - 1) = p + (mid - from)
      BY <2>2, <1>2
    <2> QED
      BY <2>1, <2>2, <1>2, <1>4, <1>5
  <1> HIDE DEF t2, b
  <1>10. /\ t3 \in Seq(S) /\ Len(t3) = to - 1
         /\ \A p \in 1 .. to - 1 : t3[p] = IF p < from THEN v[p]
                                           ELSE IF p < from + b THEN v[p + (mid - from)]
                                           ELSE v[p - b]
    <2>1. /\ t3 \in Seq(S) /\ Len(t3) = to - 1
          /\ \A p \in 1 .. to - 1 : t3[p] = IF p <= (from - 1) + b THEN t2[p]
                                            ELSE s3[p - ((from - 1) + b)]
      <3> DEFINE m == (from - 1) + b
                 l == to - 1
      <3>1. m \in Nat /\ l \in Nat /\ Len(t2) = m /\ m + Len(s3) = l
        BY <1>2, <1>6, <1>8, <1>9
      <3> HIDE DEF m, l
      <3>2. t2 \in Seq(S) /\ s3 \in Seq(S)
        BY <1>6, <1>9
      <3>3. IsJoin(t2 \o s3, S, t2, s3, m, l)
        BY <3>1, <3>2, Joined
      <3> QED
        BY <3>3 DEF IsJoin, m, l
    <2>2. ASSUME NEW p \in 1 .. to - 1, ~(p < from + b)
          PROVE  /\ p - ((from - 1) + b) \in 1 .. mid - from
                 /\ from + ((p - ((from - 1) + b)) - 1) = p - b
                 /\ ~(p <= (from - 1) + b) /\ ~(p < from)
      BY <2>2, <1>2, <1>8
    <2>3. ASSUME NEW p \in 1 .. to - 1, p < from + b
          PROVE  p \in 1 .. (from - 1) + b /\ p <= (from - 1) + b
      BY <2>3, <1>2, <1>8
    <2>4. \A p \in 1 .. (from - 1) + b : t2[p] = IF p < from THEN v[p] ELSE v[p + (mid - from)]
      BY <1>9
    <2>5. ASSUME NEW p \in 1 .. to - 1
          PROVE  t3[p] = IF p < from THEN v[p]
                         ELSE IF p < from + b THEN v[p + (mid - from)] ELSE v[p - b]
      <3>1. CASE p < from + b
        BY <3>1, <2>1, <2>3, <2>4
      <3>2. CASE ~(p < from + b)
        BY <3>2, <2>1, <2>2, <1>6
      <3> QED
        BY <3>1, <3>2
    <2> QED
      BY <2>1, <2>5
  <1> HIDE DEF t3
  <1>11. /\ t \in Seq(S) /\ Len(t) = L
        /\ \A p \in 1 .. L : t[p] = IF p <= to - 1 THEN t3[p] ELSE v[p]
    <2>1. /\ t \in Seq(S) /\ Len(t) = L
          /\ \A p \in 1 .. L : t[p] = IF p <= to - 1 THEN t3[p] ELSE s4[p - (to - 1)]
      <3> DEFINE m == to - 1
      <3>1. m \in Nat /\ Len(t3) = m /\ m + Len(s4) = L
        BY <1>1, <1>2, <1>7, <1>10
      <3> HIDE DEF m
      <3>2. IsJoin(t3 \o s4, S, t3, s4, m, L)
        BY <1>1, <1>7, <1>10, <3>1, Joined
      <3> QED
        BY <3>2 DEF IsJoin, m
    <2>2. ASSUME NEW p \in 1 .. L, ~(p <= to - 1)
          PROVE  p - (to - 1) \in 1 .. (L - to) + 1 /\ to + ((p - (to - 1)) - 1) = p
      BY <2>2, <1>1, <1>2
    <2> QED
      BY <2>1, <2>2, <1>7
  <1> HIDE DEF t
  <1>12. ASSUME NEW p \in 1 .. L
        PROVE  t[p] = r[p]
    <2>1. r[p] = IF p \in from .. to - 1
                 THEN v[IF p < from + b THEN p + (mid - from) ELSE p - b] ELSE v[p]
      BY <1>1, <1>8 DEF Rotation, PrevPos
    <2>2. /\ p <= to - 1 <=> p \in 1 .. to - 1
          /\ p \in from .. to - 1 <=> p <= to - 1 /\ ~(p < from)
      BY <1>1, <1>2
    <2> QED
      BY <2>1, <2>2, <1>11, <1>10
  <1>13. t = [p \in 1 .. L |-> t[p]] /\ r = [p \in 1 .. L |-> r[p]]
    BY <1>11 DEF Rotation
  <1>14. t = r
    BY <1>12, <1>13
  <1> QED
    BY <1>3, <1>14 DEF t, t3, t2, s1, s2, s3, s4, L

-----------------------------------------------------------------------------
\* v holds every position of the caller's vector of N elements once.
Shuffled(v, N) ==
  /\ v \in [1 .. N -> 1 .. N]
  /\ \A k, j \in 1 .. N : v[k] = v[j] => k = j
  /\ \A x \in 1 .. N : \E k \in 1 .. N : v[k] = x

\* x comes before y in b.
InOrder(b, N, x, y) == \A k, l \in 1 .. N : b[k] = x /\ b[l] = y => k < l

\* Position j is in the block from s up to e.
InBlock(s, e, j) == s <= j /\ j < e

\* The scan of b has come to o: the elements of v before o are taken, but for those of the
\* block from s to e; each part has kept its order.
Partway(v, b, N, T, s, e, o) ==
  /\ N \in Nat /\ Shuffled(v, N) /\ Shuffled(b, N)
  /\ s \in Int /\ e \in Int /\ o \in Int /\ 1 <= s /\ s <= e /\ e <= o /\ o <= N + 1
  /\ \A j \in o .. N : v[j] = b[j]
  /\ \A j \in 1 .. o - 1 : v[j] \in T <=> ~InBlock(s, e, j)
  /\ \A k, j \in 1 .. o - 1 : k < j /\ (InBlock(s, e, k) <=> InBlock(s, e, j)) =>
       InOrder(b, N, v[k], v[j])

\* What is not scanned yet comes after all that is before it.
LEMMA OrderBehind ==
  ASSUME NEW v, NEW b, NEW N, NEW T, NEW s, NEW e, NEW o, Partway(v, b, N, T, s, e, o),
         NEW j \in o .. N, NEW h \in 1 .. N, h < j
  PROVE  InOrder(b, N, v[h], v[j])
  <1>1. N \in Nat /\ o \in Int /\ 1 <= o /\ o <= N + 1
    BY DEF Partway
  <1>2. \A m \in o .. N : v[m] = b[m]
    BY DEF Partway
  <1>3. (\A x, y \in 1 .. N : v[x] = v[y] => x = y) /\ (\A x, y \in 1 .. N : b[x] = b[y] => x = y)
    BY DEF Partway, Shuffled
  <1>4. j \in 1 .. N
    BY <1>1
  <1>5. ASSUME NEW k \in 1 .. N, NEW l \in 1 .. N, b[k] = v[h], b[l] = v[j]
        PROVE  k < l
    <2>1. l = j
      BY <1>2, <1>3, <1>4, <1>5
    <2>2. CASE k < o
      BY <1>1, <2>1, <2>2
    <2>3. CASE k >= o
      <3>1. k \in o .. N
        BY <1>1, <2>3
      <3>2. k = h
        BY <3>1, <1>2, <1>3, <1>5
      <3> QED
        BY <3>2, <2>1
    <2> QED
      BY <2>2, <2>3, <1>1
  <1> QED
    BY <1>5 DEF InOrder

\* The scan moves on to p over elements that are taken.
LEMMA PartwayTake ==
  ASSUME NEW v, NEW b, NEW N, NEW T, NEW s, NEW e, NEW o, Partway(v, b, N, T, s, e, o),
         NEW U, NEW p \in Int, o <= p, p <= N + 1,
         \A j \in 1 .. p - 1 : v[j] \in U <=> v[j] \in T \/ o <= j
  PROVE  Partway(v, b, N, U, s, e, p)
  <1>1. /\ N \in Nat /\ Shuffled(v, N) /\ Shuffled(b, N)
        /\ s \in Int /\ e \in Int /\ o \in Int /\ 1 <= s /\ s <= e /\ e <= o /\ o <= N + 1
    BY DEF Partway
  <1>2. \A j \in p .. N : v[j] = b[j]
    <2>1. p .. N \subseteq o .. N
      BY <1>1
    <2> QED
      BY <2>1 DEF Partway
  <1>3. ASSUME NEW j \in 1 .. p - 1
        PROVE  v[j] \in U <=> ~InBlock(s, e, j)
    <2>1. CASE j < o
      <3>1. j \in 1 .. o - 1 /\ ~(o <= j)
        BY <2>1, <1>1
      <3>2. v[j] \in T <=> ~InBlock(s, e, j)
        BY <3>1 DEF Partway
      <3> QED
        BY <3>1, <3>2
    <2>2. CASE j >= o
      <3>1. ~InBlock(s, e, j)
        BY <2>2, <1>1 DEF InBlock
      <3> QED
        BY <2>2, <3>1
    <2> QED
      BY <2>1, <2>2, <1>1
  <1>4. ASSUME NEW k \in 1 .. p - 1, NEW j \in 1 .. p - 1, k < j,
               InBlock(s, e, k) <=> InBlock(s, e, j)
        PROVE  InOrder(b, N, v[k], v[j])
    <2>1. CASE j < o
      <3>1. k \in 1 .. o - 1 /\ j \in 1 .. o - 1
        BY <2>1, <1>1, <1>4
      <3> QED
        BY <3>1, <1>4 DEF Partway
    <2>2. CASE j >= o
      <3>1. j \in o .. N /\ k \in 1 .. N
        BY <2>2, <1>1
      <3> QED
        BY <3>1, <1>4, OrderBehind
    <2> QED
      BY <2>1, <2>2, <1>1
  <1>5. e <= p
    BY <1>1
  <1> QED
    BY <1>1, <1>2, <1>3, <1>4, <1>5 DEF Partway

\* The scan passes over a non-option: the block grows.
LEMMA PartwaySkip ==
  ASSUME NEW v, NEW b, NEW N, NEW T, NEW s, NEW o, Partway(v, b, N, T, s, o, o),
         o <= N, v[o] \notin T
  PROVE  Partway(v, b, N, T, s, o + 1, o + 1)
  <1>1. /\ N \in Nat /\ Shuffled(v, N) /\ Shuffled(b, N)
        /\ s \in Int /\ o \in Int /\ 1 <= s /\ s <= o /\ o <= N + 1
    BY DEF Partway
  <1>2. \A j \in o + 1 .. N : v[j] = b[j]
    <2>1. o + 1 .. N \subseteq o .. N
      BY <1>1
    <2> QED
      BY <2>1 DEF Partway
  <1>3. ASSUME NEW j \in 1 .. (o + 1) - 1
        PROVE  v[j] \in T <=> ~InBlock(s, o + 1, j)
    <2>1. CASE j < o
      <3>1. j \in 1 .. o - 1
        BY <2>1, <1>1
      <3>2. v[j] \in T <=> ~InBlock(s, o, j)
        BY <3>1 DEF Partway
      <3>3. InBlock(s, o, j) <=> InBlock(s, o + 1, j)
        BY <3>1, <1>1 DEF InBlock
      <3> QED
        BY <3>2, <3>3
    <2>2. CASE j = o
      BY <2>2, <1>1 DEF InBlock
    <2> QED
      BY <2>1, <2>2, <1>1
  <1>4. ASSUME NEW k \in 1 .. (o + 1) - 1, NEW j \in 1 .. (o + 1) - 1, k < j,
               InBlock(s, o + 1, k) <=> InBlock(s, o + 1, j)
        PROVE  InOrder(b, N, v[k], v[j])
    <2>1. CASE j < o
      <3>1. k \in 1 .. o - 1 /\ j \in 1 .. o - 1
        BY <2>1, <1>1, <1>4
      <3>2. InBlock(s, o, k) <=> InBlock(s, o, j)
        BY <3>1, <1>1, <1>4 DEF InBlock
      <3> QED
        BY <3>1, <3>2, <1>4 DEF Partway
    <2>2. CASE j = o
      <3>1. j \in o .. N /\ k \in 1 .. N
        BY <2>2, <1>1
      <3> QED
        BY <3>1, <1>4, OrderBehind
    <2> QED
      BY <2>1, <2>2, <1>1
  <1>5. s <= o + 1 /\ o + 1 <= N + 1 /\ o + 1 \in Int /\ o + 1 <= o + 1
    BY <1>1
  <1> QED
    BY <1>1, <1>2, <1>3, <1>4, <1>5 DEF Partway

\* Where there is no block one may begin anywhere.
LEMMA PartwayEmpty ==
  ASSUME NEW v, NEW b, NEW N, NEW T, NEW s, NEW t, NEW o, Partway(v, b, N, T, s, s, o),
         t \in Int, 1 <= t, t <= o
  PROVE  Partway(v, b, N, T, t, t, o)
  <1>1. /\ N \in Nat /\ Shuffled(v, N) /\ Shuffled(b, N)
        /\ s \in Int /\ o \in Int /\ 1 <= s /\ s <= o /\ o <= N + 1
    BY DEF Partway
  <1>2. \A j \in 1 .. o - 1 : ~InBlock(s, s, j) /\ ~InBlock(t, t, j)
    BY <1>1 DEF InBlock
  <1>3. \A j \in 1 .. o - 1 : v[j] \in T <=> ~InBlock(t, t, j)
    BY <1>2 DEF Partway
  <1>4. \A k, j \in 1 .. o - 1 : k < j /\ (InBlock(t, t, k) <=> InBlock(t, t, j)) =>
          InOrder(b, N, v[k], v[j])
    BY <1>2 DEF Partway
  <1>5. \A j \in o .. N : v[j] = b[j]
    BY DEF Partway
  <1> QED
    BY <1>1, <1>3, <1>4, <1>5 DEF Partway

\* Exchanging the block with what was taken after it.
LEMMA PartwayExchange ==
  ASSUME NEW v, NEW b, NEW N, NEW T, NEW s, NEW m, NEW o, Partway(v, b, N, T, s, m, o), s < m, m < o
  PROVE  Partway(GETOPT!permute_args(s, m, o, v), b, N, T, s + (o - m), o, o)
  <1> DEFINE r == GETOPT!permute_args(s, m, o, v)
             c == s + (o - m)
             Src(p) == IF p \in s .. o - 1 THEN PrevPos(s, m, o, p) ELSE p
             Dst(p) == IF p \in s .. o - 1 THEN NextPos(s, m, o, p) ELSE p
  <1>1. /\ N \in Nat /\ Shuffled(v, N) /\ Shuffled(b, N)
        /\ s \in Int /\ m \in Int /\ o \in Int /\ 1 <= s /\ s < m /\ m < o /\ o <= N + 1
    BY DEF Partway
  <1>2. r = [p \in 1 .. N |-> v[Src(p)]]
    <2>1. Blocks(s, m, o) /\ v \in [1 .. N -> 1 .. N]
      BY <1>1 DEF Blocks, Shuffled
    <2>2. r = Rotation(s, m, o, N, v)
      BY <2>1, <1>1, permute_argsRotates
    <2> QED
      BY <2>2 DEF Rotation
  <1>3. ASSUME NEW p \in 1 .. N
        PROVE  Src(p) \in 1 .. N /\ Dst(p) \in 1 .. N /\ Src(Dst(p)) = p /\ Dst(Src(p)) = p
    BY <1>1 DEF PrevPos, NextPos
  <1>4. ASSUME NEW p \in 1 .. o - 1
        PROVE  Src(p) \in 1 .. o - 1 /\ (InBlock(c, o, p) <=> InBlock(s, m, Src(p)))
    BY <1>1 DEF PrevPos, InBlock
  <1>5. ASSUME NEW p \in 1 .. o - 1, NEW quot \in 1 .. o - 1, p < quot,
               InBlock(c, o, p) <=> InBlock(c, o, quot)
        PROVE  Src(p) < Src(quot)
    BY <1>1, <1>5 DEF PrevPos, InBlock
  <1>6. \A p \in o .. N : Src(p) = p
    BY <1>1
  <1>7. /\ s <= c /\ c \in Int /\ 1 <= c /\ c <= o
        /\ o .. N \subseteq 1 .. N /\ 1 .. o - 1 \subseteq 1 .. N
    BY <1>1
  <1> HIDE DEF r, Src, Dst, c
  <1>8. Shuffled(r, N)
    <2>1. /\ v \in [1 .. N -> 1 .. N] /\ (\A k, j \in 1 .. N : v[k] = v[j] => k = j)
          /\ \A x \in 1 .. N : \E k \in 1 .. N : v[k] = x
      BY <1>1 DEF Shuffled
    <2>2. r \in [1 .. N -> 1 .. N]
      BY <1>2, <1>3, <2>1
    <2>3. ASSUME NEW k \in 1 .. N, NEW j \in 1 .. N, r[k] = r[j]
          PROVE  k = j
      <3>1. Src(k) = Src(j)
        BY <1>2, <1>3, <2>1, <2>3
      <3> QED
        BY <3>1, <1>3
    <2>4. ASSUME NEW x \in 1 .. N
          PROVE  \E k \in 1 .. N : r[k] = x
      <3>1. PICK k \in 1 .. N : v[k] = x
        BY <2>1
      <3>2. Dst(k) \in 1 .. N /\ r[Dst(k)] = x
        BY <3>1, <1>2, <1>3
      <3> QED
        BY <3>2
    <2> QED
      BY <2>2, <2>3, <2>4 DEF Shuffled
  <1>9. \A j \in o .. N : r[j] = b[j]
    <2>1. \A j \in o .. N : v[j] = b[j]
      BY DEF Partway
    <2> QED
      BY <2>1, <1>2, <1>6, <1>7
  <1>10. \A j \in 1 .. o - 1 : r[j] \in T <=> ~InBlock(c, o, j)
    <2>1. \A j \in 1 .. o - 1 : v[j] \in T <=> ~InBlock(s, m, j)
      BY DEF Partway
    <2> QED
      BY <2>1, <1>2, <1>4, <1>7
  <1>11. ASSUME NEW k \in 1 .. o - 1, NEW j \in 1 .. o - 1, k < j,
                InBlock(c, o, k) <=> InBlock(c, o, j)
         PROVE  InOrder(b, N, r[k], r[j])
    <2>1. r[k] = v[Src(k)] /\ r[j] = v[Src(j)]
      BY <1>2, <1>7
    <2>2. /\ Src(k) \in 1 .. o - 1 /\ Src(j) \in 1 .. o - 1 /\ Src(k) < Src(j)
          /\ (InBlock(s, m, Src(k)) <=> InBlock(s, m, Src(j)))
      BY <1>4, <1>5, <1>11
    <2>3. InOrder(b, N, v[Src(k)], v[Src(j)])
      BY <2>2 DEF Partway
    <2> QED
      BY <2>1, <2>3
  <1>12. Partway(r, b, N, T, c, o, o)
    BY <1>1, <1>7, <1>8, <1>9, <1>10, <1>11 DEF Partway
  <1> QED
    BY <1>12 DEF r, c

\* The scan of b is over, and the first element that is left over is number o of v.
Finished(v, b, N, T, o) ==
  /\ N \in Nat /\ Shuffled(v, N) /\ Shuffled(b, N) /\ o \in 1 .. N + 1
  /\ \A j \in 1 .. N : v[j] \in T <=> j < o
  /\ \A k, j \in 1 .. N : k < j /\ (k < o <=> j < o) => InOrder(b, N, v[k], v[j])

\* Where nothing after the block is taken, the block and what follows it is left over.
LEMMA PartwayDone ==
  ASSUME NEW v, NEW b, NEW N, NEW T, NEW s, NEW o, Partway(v, b, N, T, s, o, o),
         \A j \in o .. N : v[j] \notin T
  PROVE  Finished(v, b, N, T, s)
  <1>1. /\ N \in Nat /\ Shuffled(v, N) /\ Shuffled(b, N)
        /\ s \in Int /\ o \in Int /\ 1 <= s /\ s <= o /\ o <= N + 1
    BY DEF Partway
  <1>2. s \in 1 .. N + 1
    BY <1>1
  <1>3. ASSUME NEW j \in 1 .. N
        PROVE  v[j] \in T <=> j < s
    <2>1. CASE j < o
      <3>1. j \in 1 .. o - 1
        BY <2>1, <1>1
      <3>2. v[j] \in T <=> ~InBlock(s, o, j)
        BY <3>1 DEF Partway
      <3> QED
        BY <2>1, <3>2, <1>1 DEF InBlock
    <2>2. CASE j >= o
      <3>1. j \in o .. N /\ ~(j < s)
        BY <2>2, <1>1
      <3> QED
        BY <3>1
    <2> QED
      BY <2>1, <2>2, <1>1
  <1>4. ASSUME NEW k \in 1 .. N, NEW j \in 1 .. N, k < j, k < s <=> j < s
        PROVE  InOrder(b, N, v[k], v[j])
    <2>1. CASE j < o
      <3>1. k \in 1 .. o - 1 /\ j \in 1 .. o - 1 /\ (InBlock(s, o, k) <=> InBlock(s, o, j))
        BY <2>1, <1>1, <1>4 DEF InBlock
      <3> QED
        BY <3>1, <1>4 DEF Partway
    <2>2. CASE j >= o
      <3>1. j \in o .. N
        BY <2>2, <1>1
      <3> QED
        BY <3>1, <1>4, OrderBehind
    <2> QED
      BY <2>1, <2>2, <1>1
  <1> QED
    BY <1>1, <1>2, <1>3, <1>4 DEF Finished

\* A shuffled vector is a sequence.
LEMMA ShuffledSeq ==
  ASSUME NEW N \in Nat, NEW v, Shuffled(v, N)
  PROVE  v \in Seq(1 .. N) /\ Len(v) = N /\ DOMAIN v = 1 .. N
  BY DEF Shuffled

\* What StablePartition says of a vector.
LEMMA FinishedIs ==
  ASSUME NEW v, NEW b, NEW N, NEW T, NEW o, Finished(v, b, N, T, o), T \subseteq 1 .. N
  PROVE  /\ Len(v) = Len(b) /\ {v[k] : k \in DOMAIN v} = {b[k] : k \in DOMAIN b}
         /\ \A k \in DOMAIN v : v[k] \in T <=> k < o
         /\ \A j, k \in DOMAIN v :
              j < k /\ (j < o <=> k < o) => GETOPT!PlaceIn(b, v[j]) < GETOPT!PlaceIn(b, v[k])
         /\ o = Cardinality(T) + 1
  <1>1. N \in Nat /\ Shuffled(v, N) /\ Shuffled(b, N) /\ o \in 1 .. N + 1
    BY DEF Finished
  <1>2. Len(v) = N /\ Len(b) = N /\ DOMAIN v = 1 .. N /\ DOMAIN b = 1 .. N
    BY <1>1, ShuffledSeq
  <1>3. {v[k] : k \in 1 .. N} = {b[k] : k \in 1 .. N}
    <2>1. {v[k] : k \in 1 .. N} = 1 .. N
      BY <1>1 DEF Shuffled
    <2>2. {b[k] : k \in 1 .. N} = 1 .. N
      BY <1>1 DEF Shuffled
    <2> QED
      BY <2>1, <2>2
  <1>4. \A k \in 1 .. N : v[k] \in T <=> k < o
    BY DEF Finished
  <1>5. ASSUME NEW j \in 1 .. N, NEW k \in 1 .. N, j < k, j < o <=> k < o
        PROVE  GETOPT!PlaceIn(b, v[j]) < GETOPT!PlaceIn(b, v[k])
    <2>1. InOrder(b, N, v[j], v[k])
      BY <1>5 DEF Finished
    <2>2. v[j] \in 1 .. N /\ v[k] \in 1 .. N
      BY <1>1 DEF Shuffled
    <2>3. \A x \in 1 .. N : GETOPT!PlaceIn(b, x) \in 1 .. N /\ b[GETOPT!PlaceIn(b, x)] = x
      <3>1. \A x \in 1 .. N : \E l \in 1 .. N : b[l] = x
        BY <1>1 DEF Shuffled
      <3> QED
        BY <3>1, <1>2 DEF GETOPT!PlaceIn
    <2> QED
      BY <2>1, <2>2, <2>3 DEF InOrder
  <1>6. o = Cardinality(T) + 1
    <2> DEFINE f == [k \in 1 .. o - 1 |-> v[k]]
    <2>1. 1 .. o - 1 \subseteq 1 .. N
      BY <1>1
    <2>2. \A l, j \in 1 .. N : v[l] = v[j] => l = j
      BY <1>1 DEF Shuffled
    <2>3. \A x \in 1 .. N : \E l \in 1 .. N : v[l] = x
      BY <1>1 DEF Shuffled
    <2>4. \A k \in 1 .. N : k < o => k \in 1 .. o - 1
      BY <1>1
    <2>5. \A k \in 1 .. o - 1 : v[k] \in T
      BY <1>1, <1>4, <2>1
    <2>6. f \in Bijection(1 .. o - 1, T)
      <3>1. f \in [1 .. o - 1 -> T]
        BY <2>5
      <3>2. \A l, j \in 1 .. o - 1 : f[l] = f[j] => l = j
        BY <2>1, <2>2
      <3>3. \A x \in T : \E l \in 1 .. o - 1 : f[l] = x
        <4>1. ASSUME NEW x \in T
              PROVE  \E l \in 1 .. o - 1 : f[l] = x
          <5>1. PICK l \in 1 .. N : v[l] = x
            BY <2>3
          <5>2. l \in 1 .. o - 1
            BY <5>1, <1>4, <2>4
          <5> QED
            BY <5>1, <5>2
        <4> QED
          BY <4>1
      <3> QED
        BY <3>1, <3>2, <3>3 DEF Bijection, Injection, Surjection, IsInjective
    <2>7. IsFiniteSet(1 .. o - 1) /\ Cardinality(1 .. o - 1) = o - 1
      BY <1>1, FS_Interval
    <2> HIDE DEF f
    <2>8. ExistsBijection(1 .. o - 1, T)
      BY <2>6 DEF ExistsBijection
    <2>9. Cardinality(T) = o - 1
      BY <2>7, <2>8, FS_Bijection
    <2> QED
      BY <2>9, <1>1
  <1> QED
    BY <1>2, <1>3, <1>4, <1>5, <1>6

-----------------------------------------------------------------------------
\* How many arguments there are.
N == Len(orig)

\* What a call may return.
Opts == GETOPT!CharSet \cup {"?", "BADARG", "1", "--"}

\* The block that is being skipped; where there is none it is empty.
BlockFrom == IF nonopt_start = -1 THEN optind ELSE nonopt_start
BlockTo == IF nonopt_start = -1 \/ nonopt_end = -1 THEN optind ELSE nonopt_end

\* The program has started over, and the next call will forget the block.
Stale == opc = "caller" /\ (optreset \/ optind = 0)

\* A block that is known is not empty, and is open only while non-options are passed over.
\* There is none where non-options are not skipped.
BlockInv ==
  /\ nonopt_start # -1 => nonopt_start > 0 /\ GETOPT!Permute /\ ~GETOPT!AllArgs
  /\ nonopt_end # -1 => nonopt_start # -1 /\ nonopt_start < nonopt_end
  /\ nonopt_start # -1 /\ nonopt_end = -1 => opc = "start"

\* A reset is under way until the first argument is looked at.
ControlInv ==
  /\ optreset => optind <= 1 /\ opc \in {"caller", "start"}
  /\ optind = 0 => opc = "caller"
  /\ opc = "option" => place # GETOPT!EMSG /\ ~optreset

\* What is ahead of the scan is not taken, unless it is the argument being scanned.
AheadInv ==
  /\ \A j \in 1 .. N : argv[j] \in GETOPT!Taken => j <= optind
  /\ \A j \in 1 .. N :
       argv[j] \in GETOPT!Taken /\ j = optind => place # GETOPT!EMSG /\ opc # "start"
  /\ nonopt_start # -1 => nonopt_start < optind
  /\ nonopt_end = optind => place # GETOPT!EMSG /\ opc # "start"

\* The invariant.  While a program that has started over has not called again, the old block
\* says nothing of the vector.
ScanInv ==
  /\ GETOPT!TypeOK /\ BlockInv /\ ControlInv
  /\ Shuffled(argv, N) /\ Shuffled(base, N)
  /\ Stale => parsed = <<>> /\ base = argv
  /\ ~Stale /\ opc # "done" =>
       Partway(argv, base, N, GETOPT!Taken, BlockFrom, BlockTo, optind) /\ AheadInv
  /\ opc = "done" => /\ Finished(argv, base, N, GETOPT!Taken, optind)
                     /\ nonopt_start = -1 /\ nonopt_end = -1 /\ place = GETOPT!EMSG /\ ~optreset

\* The lengths.
LEMMA ScanFacts ==
  ASSUME ScanInv
  PROVE  /\ N \in Nat /\ Len(argv) = N /\ GETOPT!nargc = N + 1
         /\ \A k \in 1 .. N : argv[k] \in 1 .. N
         /\ optind \in 0 .. N + 1
  <1>1. N \in Nat
    BY DEF ScanInv, GETOPT!TypeOK, N
  <1>2. Shuffled(argv, N)
    BY DEF ScanInv
  <1>3. Len(argv) = N
    BY <1>1, <1>2, ShuffledSeq
  <1>4. GETOPT!nargc = N + 1
    BY <1>3 DEF GETOPT!nargc
  <1>5. \A k \in 1 .. N : argv[k] \in 1 .. N
    BY <1>2 DEF Shuffled
  <1>6. optind \in 0 .. N + 1
    BY <1>4 DEF ScanInv, GETOPT!TypeOK
  <1> QED
    BY <1>1, <1>3, <1>4, <1>5, <1>6

\* What a call that returns another option adds.
LEMMA TakenAppend ==
  ASSUME parsed \in Seq(GETOPT!Event), NEW e \in GETOPT!Event, parsed' = Append(parsed, e),
         orig' = orig
  PROVE  GETOPT!Taken' = GETOPT!Taken \cup {x \in 1 .. N : x \in e.used \/ x = e.arg}
  <1> DEFINE n == Len(parsed)
             quot == Append(parsed, e)
             In(x, k) == x \in parsed[k].used \/ x = parsed[k].arg
             Is(x, k) == x \in quot[k].used \/ x = quot[k].arg
  <1>1. n \in Nat /\ DOMAIN parsed = 1 .. n /\ DOMAIN quot = 1 .. n + 1
    OBVIOUS
  <1>2. quot[n + 1] = e /\ \A k \in 1 .. n : quot[k] = parsed[k]
    OBVIOUS
  <1>3. GETOPT!Taken' = {x \in 1 .. N : \E k \in 1 .. n + 1 : Is(x, k)}
    BY <1>1 DEF GETOPT!Taken, N
  <1>4. GETOPT!Taken = {x \in 1 .. N : \E k \in 1 .. n : In(x, k)}
    BY <1>1 DEF GETOPT!Taken, N
  <1>5. \A k \in 1 .. n + 1 : k \in 1 .. n \/ k = n + 1
    BY <1>1
  <1>6. 1 .. n \subseteq 1 .. n + 1 /\ n + 1 \in 1 .. n + 1
    BY <1>1
  <1>7. ASSUME NEW x
        PROVE  (\E k \in 1 .. n + 1 : Is(x, k)) <=> (\E k \in 1 .. n : In(x, k)) \/ Is(x, n + 1)
    <2>1. \A k \in 1 .. n : Is(x, k) <=> In(x, k)
      BY <1>2
    <2> HIDE DEF Is, In
    <2> QED
      BY <2>1, <1>5, <1>6
  <1>8. \A x : Is(x, n + 1) <=> x \in e.used \/ x = e.arg
    BY <1>2
  <1> HIDE DEF Is, In, n
  <1> QED
    BY <1>3, <1>4, <1>7, <1>8

\* A call returns an option, the next elements up to hi are taken, and the scan moves on
\* behind them, or stays in a group of short options.
Took ==
  /\ opc' = "caller" /\ optreset' = FALSE
  /\ UNCHANGED <<orig, mode, argv, nonopt_start, nonopt_end, base, resets>>
  /\ \E last \in optind .. N, opt \in Opts, arg \in Int :
       /\ parsed' = Append(parsed, [opt |-> opt, used |-> {argv[k] : k \in optind .. last},
                                    arg |-> arg])
       /\ \/ arg <= 0 /\ optind' = last + 1 /\ place' = GETOPT!EMSG
          \/ /\ arg <= 0 /\ last = optind /\ optind' = optind
             /\ place' \in Seq(GETOPT!CharSet) \ {GETOPT!EMSG}
          \/ last + 1 <= N /\ arg = argv[last + 1] /\ optind' = last + 2 /\ place' = GETOPT!EMSG
          \/ /\ opt = "1" /\ last = optind /\ arg = argv[last]
             /\ optind' = last + 1 /\ place' = GETOPT!EMSG

\* Only elements that were not scanned before are taken.
LEMMA TookTaken ==
  ASSUME ScanInv, optind >= 1, Took
  PROVE  /\ parsed' \in Seq(GETOPT!Event)
         /\ \E hi \in optind .. N :
              /\ GETOPT!Taken' = GETOPT!Taken \cup {argv[k] : k \in optind .. hi}
              /\ \/ optind' = hi + 1 /\ place' = GETOPT!EMSG
                 \/ /\ optind' = optind /\ hi = optind
                    /\ place' \in Seq(GETOPT!CharSet) \ {GETOPT!EMSG}
  <1>1. /\ N \in Nat /\ optind \in Nat
        /\ \A k \in 1 .. N : argv[k] \in 1 .. N
    BY ScanFacts
  <1>2. parsed \in Seq(GETOPT!Event)
    BY DEF ScanInv, GETOPT!TypeOK
  <1>3. PICK last \in optind .. N, opt \in Opts, arg \in Int :
          /\ parsed' = Append(parsed, [opt |-> opt, used |-> {argv[k] : k \in optind .. last},
                                       arg |-> arg])
          /\ \/ arg <= 0 /\ optind' = last + 1 /\ place' = GETOPT!EMSG
             \/ /\ arg <= 0 /\ last = optind /\ optind' = optind
                /\ place' \in Seq(GETOPT!CharSet) \ {GETOPT!EMSG}
             \/ last + 1 <= N /\ arg = argv[last + 1] /\ optind' = last + 2 /\ place' = GETOPT!EMSG
             \/ /\ opt = "1" /\ last = optind /\ arg = argv[last]
                /\ optind' = last + 1 /\ place' = GETOPT!EMSG
    BY DEF Took
  <1> DEFINE S(hi) == {argv[k] : k \in optind .. hi}
             e == [opt |-> opt, used |-> S(last), arg |-> arg]
  <1>4. e \in GETOPT!Event /\ e.used = S(last) /\ e.arg = arg
    <2>1. optind .. last \subseteq 1 .. N
      BY <1>1
    <2>2. \A k \in 1 .. N : argv[k] \in Nat
      BY <1>1
    <2>3. S(last) \in SUBSET Nat
      BY <2>1, <2>2
    <2> QED
      BY <2>3 DEF GETOPT!Event, Opts
  <1>5. parsed' = Append(parsed, e)
    BY <1>3
  <1> HIDE DEF e
  <1>6. parsed' \in Seq(GETOPT!Event)
    BY <1>2, <1>4, <1>5
  <1>7. S(last) \subseteq 1 .. N
    <2>1. optind .. last \subseteq 1 .. N
      BY <1>1
    <2> QED
      BY <2>1, <1>1
  <1>8. GETOPT!Taken' = GETOPT!Taken \cup {x \in 1 .. N : x \in S(last) \/ x = arg}
    <2>1. orig' = orig
      BY DEF Took
    <2>2. GETOPT!Taken' = GETOPT!Taken \cup {x \in 1 .. N : x \in e.used \/ x = e.arg}
      BY <1>2, <1>4, <1>5, <2>1, TakenAppend
    <2> QED
      BY <1>4, <2>2
  <1>9. CASE arg <= 0
    <2>1. arg \notin 1 .. N
      BY <1>9
    <2>2. GETOPT!Taken' = GETOPT!Taken \cup S(last)
      BY <1>8, <1>7, <2>1
    <2>3. \/ optind' = last + 1 /\ place' = GETOPT!EMSG
          \/ optind' = optind /\ last = optind /\ place' \in Seq(GETOPT!CharSet) \ {GETOPT!EMSG}
      <3>1. last \in 1 .. N
        BY <1>1
      <3>2. argv[last] > 0
        BY <3>1, <1>1
      <3>3. last + 1 <= N => last + 1 \in 1 .. N
        BY <3>1, <1>1
      <3>4. last + 1 <= N => argv[last + 1] > 0
        BY <3>3, <1>1
      <3> QED
        BY <1>3, <1>9, <3>2, <3>4
    <2> QED
      BY <1>6, <2>2, <2>3
  <1>10. CASE /\ arg > 0 /\ last + 1 <= N /\ arg = argv[last + 1]
              /\ optind' = last + 2 /\ place' = GETOPT!EMSG
    <2> DEFINE hi == last + 1
    <2>1. hi \in optind .. N /\ optind' = hi + 1
      BY <1>1, <1>10
    <2>2. \A k : k \in optind .. hi <=> k \in optind .. last \/ k = hi
      BY <1>1
    <2>3. S(hi) = S(last) \cup {arg}
      BY <2>2, <1>10
    <2>4. arg \in 1 .. N
      BY <1>1, <1>10, <2>1
    <2>5. GETOPT!Taken' = GETOPT!Taken \cup S(hi)
      BY <1>8, <1>7, <2>3, <2>4
    <2> QED
      BY <1>6, <1>10, <2>1, <2>5
  <1>11. CASE /\ arg > 0 /\ last = optind /\ arg = argv[last]
              /\ optind' = last + 1 /\ place' = GETOPT!EMSG
    <2>1. arg \in S(last)
      BY <1>1, <1>11
    <2>2. GETOPT!Taken' = GETOPT!Taken \cup S(last)
      BY <1>8, <1>7, <2>1
    <2> QED
      BY <1>6, <1>11, <2>2
  <1> QED
    BY <1>3, <1>9, <1>10, <1>11

\* What a step has to keep of the types.
LEMMA ScanTypes ==
  ASSUME ScanInv, orig' = orig, mode' = mode, Shuffled(argv', N), Shuffled(base', N),
         optind' \in 0 .. N + 1, optreset' \in BOOLEAN, place' \in Seq(GETOPT!CharSet),
         place' # GETOPT!EMSG /\ ~optreset' /\ optind' > 0 => optind' <= N,
         nonopt_start' \in -1 .. N + 1, nonopt_end' \in -1 .. N + 1,
         opc' \in {"caller", "start", "option", "done"}, parsed' \in Seq(GETOPT!Event),
         resets' \in 0 .. MaxResets
  PROVE  GETOPT!TypeOK'
  <1>1. N \in Nat /\ N = Len(orig')
    BY ScanFacts DEF N
  <1>2. argv' \in Seq(1 .. N) /\ Len(argv') = N /\ base' \in Seq(1 .. N)
    BY <1>1, ShuffledSeq
  <1>3. GETOPT!nargc' = N + 1
    BY <1>2 DEF GETOPT!nargc
  <1>4. orig' \in Seq(GETOPT!Args) /\ mode' \in GETOPT!Modes
    BY DEF ScanInv, GETOPT!TypeOK
  <1>5. optind' <= N => optind' < GETOPT!nargc'
    BY <1>1, <1>3
  <1>6. place' # GETOPT!EMSG /\ ~optreset' /\ optind' > 0 => optind' < GETOPT!nargc'
    BY <1>5
  <1>7. /\ optind' \in 0 .. GETOPT!nargc'
        /\ nonopt_start' \in -1 .. GETOPT!nargc' /\ nonopt_end' \in -1 .. GETOPT!nargc'
    BY <1>3
  <1>8. argv' \in Seq(1 .. Len(orig')) /\ base' \in Seq(1 .. Len(orig'))
    BY <1>1, <1>2
  <1> QED
    BY <1>4, <1>6, <1>7, <1>8 DEF GETOPT!TypeOK, GETOPT!EMSG

\* What a scan that goes on has to keep.
LEMMA ScanGoesOn ==
  ASSUME ScanInv, orig' = orig, GETOPT!TypeOK', BlockInv', ControlInv',
         Shuffled(argv', N), Shuffled(base', N),
         ~Stale', opc' # "done",
         Partway(argv', base', N, GETOPT!Taken', BlockFrom', BlockTo', optind'), AheadInv'
  PROVE  ScanInv'
  <1>1. N' = N
    BY DEF N
  <1> QED
    BY <1>1 DEF ScanInv

\* What a step that ends the scan has to keep.
LEMMA ScanEnds ==
  ASSUME ScanInv, orig' = orig, GETOPT!TypeOK', BlockInv', ControlInv', opc' = "done",
         Finished(argv', base', N, GETOPT!Taken', optind'),
         nonopt_start' = -1, nonopt_end' = -1, place' = GETOPT!EMSG, ~optreset'
  PROVE  ScanInv'
  <1>1. N' = N
    BY DEF N
  <1>2. ~Stale' /\ Shuffled(argv', N) /\ Shuffled(base', N)
    BY DEF Stale, Finished
  <1> QED
    BY <1>1, <1>2 DEF ScanInv, GETOPT!EMSG

\* A call that returns an option keeps the invariant.
LEMMA TookNext ==
  ASSUME ScanInv, ~Stale, opc \in {"start", "option"}, nonopt_start # -1 => nonopt_end # -1, Took
  PROVE  ScanInv'
  <1>1. /\ N \in Nat /\ optind \in 0 .. N + 1 /\ Len(argv) = N /\ GETOPT!nargc = N + 1
        /\ \A k \in 1 .. N : argv[k] \in 1 .. N
    BY ScanFacts
  <1>2. /\ Partway(argv, base, N, GETOPT!Taken, BlockFrom, BlockTo, optind) /\ AheadInv
        /\ GETOPT!TypeOK /\ BlockInv /\ ControlInv /\ Shuffled(argv, N) /\ Shuffled(base, N)
    BY DEF ScanInv
  <1>3. optind >= 1
    BY <1>1, <1>2 DEF ControlInv
  <1>4. /\ opc' = "caller" /\ optreset' = FALSE
        /\ UNCHANGED <<orig, mode, argv, nonopt_start, nonopt_end, base, resets>>
    BY DEF Took
  <1>5. parsed' \in Seq(GETOPT!Event)
    BY <1>3, TookTaken
  <1>6. PICK hi \in optind .. N :
          /\ GETOPT!Taken' = GETOPT!Taken \cup {argv[k] : k \in optind .. hi}
          /\ \/ optind' = hi + 1 /\ place' = GETOPT!EMSG
             \/ optind' = optind /\ hi = optind /\ place' \in Seq(GETOPT!CharSet) \ {GETOPT!EMSG}
    BY <1>3, TookTaken
  <1>7. /\ hi \in 1 .. N /\ optind' \in 1 .. N + 1 /\ optind <= optind' /\ optind' <= hi + 1
        /\ optind' = optind => optind <= N /\ place' # GETOPT!EMSG
        /\ place' # GETOPT!EMSG => optind' <= N
    BY <1>1, <1>3, <1>6
  <1>8. place' \in Seq(GETOPT!CharSet)
    <2>1. GETOPT!EMSG \in Seq(GETOPT!CharSet)
      BY DEF GETOPT!EMSG
    <2> QED
      BY <1>6, <2>1
  <1>9. GETOPT!TypeOK'
    <2>1. nonopt_start' \in -1 .. N + 1 /\ nonopt_end' \in -1 .. N + 1 /\ resets' \in 0 .. MaxResets
      BY <1>1, <1>2, <1>4 DEF GETOPT!TypeOK
    <2>2. optind' \in 0 .. N + 1
      BY <1>1, <1>7
    <2> QED
      BY <1>2, <1>4, <1>5, <1>7, <1>8, <2>1, <2>2, ScanTypes
  <1>10. BlockInv'
    BY <1>2, <1>4 DEF BlockInv, GETOPT!Permute, GETOPT!AllArgs
  <1>11. ControlInv' /\ ~Stale'
    BY <1>4, <1>7 DEF ControlInv, Stale
  <1>12. \A l, j \in 1 .. N : argv[l] = argv[j] => l = j
    BY <1>2 DEF Shuffled
  <1>13. ASSUME NEW j \in 1 .. N
         PROVE  argv[j] \in GETOPT!Taken' <=> argv[j] \in GETOPT!Taken \/ (optind <= j /\ j <= hi)
    <2>1. argv[j] \in {argv[k] : k \in optind .. hi} <=> j \in optind .. hi
      <3>1. optind .. hi \subseteq 1 .. N
        BY <1>1, <1>3, <1>7
      <3> QED
        BY <3>1, <1>12
    <2>2. j \in optind .. hi <=> optind <= j /\ j <= hi
      BY <1>1, <1>7
    <2> QED
      BY <2>1, <2>2, <1>6
  <1>14. Partway(argv, base, N, GETOPT!Taken', BlockFrom, BlockTo, optind')
    <2>1. PICK o \in 1 .. N + 1 : o = optind'
      BY <1>7
    <2>2. o \in Int /\ optind <= o /\ o <= hi + 1 /\ o <= N + 1
      BY <1>1, <1>7, <2>1
    <2>3. \A j \in 1 .. o - 1 : j \in 1 .. N /\ j <= hi
      BY <2>2, <1>1, <1>7
    <2>4. \A j \in 1 .. o - 1 :
            argv[j] \in GETOPT!Taken' <=> argv[j] \in GETOPT!Taken \/ optind <= j
      BY <2>3, <1>13
    <2>5. Partway(argv, base, N, GETOPT!Taken', BlockFrom, BlockTo, o)
      BY <1>2, <2>2, <2>4, PartwayTake
    <2> QED
      BY <2>1, <2>5
  <1>15. Partway(argv', base', N, GETOPT!Taken', BlockFrom', BlockTo', optind')
    <2>1. CASE nonopt_start = -1
      <3>1. BlockFrom = optind /\ BlockTo = optind /\ BlockFrom' = optind' /\ BlockTo' = optind'
        BY <1>4, <2>1 DEF BlockFrom, BlockTo
      <3>2. Partway(argv, base, N, GETOPT!Taken', optind, optind, optind')
        BY <1>14, <3>1
      <3>3. optind' \in Int /\ 1 <= optind' /\ optind' <= optind'
        BY <1>1, <1>7
      <3>4. Partway(argv, base, N, GETOPT!Taken', optind', optind', optind')
        BY <3>2, <3>3, PartwayEmpty
      <3> QED
        BY <3>1, <3>4, <1>4
    <2>2. CASE nonopt_start # -1
      <3>1. BlockFrom' = BlockFrom /\ BlockTo' = BlockTo
        BY <1>4, <2>2 DEF BlockFrom, BlockTo
      <3> QED
        BY <1>4, <1>14, <3>1
    <2> QED
      BY <2>1, <2>2
  <1>16. AheadInv'
    <2>1. ASSUME NEW j \in 1 .. N, argv[j] \in GETOPT!Taken'
          PROVE  j <= optind' /\ (j = optind' => place' # GETOPT!EMSG)
      <3>1. j <= optind \/ j <= hi
        BY <1>2, <1>13, <2>1 DEF AheadInv
      <3>2. CASE optind' = hi + 1
        BY <3>1, <3>2, <1>1, <1>7
      <3>3. CASE optind' = optind /\ hi = optind /\ place' # GETOPT!EMSG
        BY <3>1, <3>3, <1>1, <1>7
      <3> QED
        BY <3>2, <3>3, <1>6
    <2>2. nonopt_start # -1 => nonopt_start < optind'
      <3>1. nonopt_start \in Int
        BY <1>1, <1>2 DEF GETOPT!TypeOK
      <3> QED
        BY <3>1, <1>1, <1>2, <1>7 DEF AheadInv
    <2>3. nonopt_end = optind' => place' # GETOPT!EMSG
      <3>1. nonopt_end \in Int /\ nonopt_end >= -1
        BY <1>1, <1>2 DEF GETOPT!TypeOK
      <3>2. nonopt_end # -1 => nonopt_end <= optind
        <4>1. nonopt_end # -1 => BlockTo = nonopt_end
          BY <1>2 DEF BlockTo, BlockInv
        <4> QED
          BY <4>1, <1>2 DEF Partway
      <3> QED
        BY <3>1, <3>2, <1>1, <1>7
    <2>4. N' = N
      BY <1>4 DEF N
    <2> QED
      BY <1>4, <2>1, <2>2, <2>3, <2>4 DEF AheadInv, GETOPT!EMSG
  <1> QED
    BY <1>2, <1>4, <1>9, <1>10, <1>11, <1>15, <1>16, ScanGoesOn

\* The first of some long options.
LEMMA LeastIndex ==
  ASSUME NEW S, S \subseteq DOMAIN LongOptions, S # {}, GETOPT!OptionsAssumption
  PROVE  (CHOOSE k \in S : \A j \in S : k <= j) \in DOMAIN LongOptions
  <1>1. S \in SUBSET Nat
    BY DEF GETOPT!OptionsAssumption
  <1>2. \E k \in S : \A j \in S : k <= j
    BY <1>1, LeastNatural
  <1> QED
    BY <1>2

\* A match is one of the long options.
LEMMA MatchIn ==
  ASSUME GETOPT!OptionsAssumption, NEW name, NEW shortToo
  PROVE  GETOPT!Match(name, shortToo) \in DOMAIN LongOptions \cup {0, -1}
  <1> DEFINE least(S) == CHOOSE k \in S : \A j \in S : k <= j
             exact == GETOPT!Exact(name)
             partial == GETOPT!Partial(name, shortToo)
  <1>1. exact \subseteq DOMAIN LongOptions /\ partial \subseteq DOMAIN LongOptions
    BY DEF GETOPT!Exact, GETOPT!Partial
  <1>2. exact # {} => least(exact) \in DOMAIN LongOptions
    BY <1>1, LeastIndex
  <1>3. partial # {} => least(partial) \in DOMAIN LongOptions
    BY <1>1, LeastIndex
  <1>4. \/ exact # {} /\ GETOPT!Match(name, shortToo) = least(exact)
        \/ exact = {} /\ partial = {} /\ GETOPT!Match(name, shortToo) = 0
        \/ exact = {} /\ partial # {} /\ GETOPT!Match(name, shortToo) \in {least(partial), -1}
    BY DEF GETOPT!Match
  <1> HIDE DEF least, exact, partial
  <1> QED
    BY <1>2, <1>3, <1>4

\* A long option in the arguments up to number last is taken with its argument.
LEMMA LongTook ==
  ASSUME GETOPT!OptionsAssumption, ScanInv, opc = "option", NEW last \in optind .. N,
         NEW text, NEW shortToo,
         GETOPT!LongOption(text, last, optind, shortToo),
         UNCHANGED <<orig, mode, argv, optreset, nonopt_start, nonopt_end, base, resets>>
  PROVE  Took
  <1>1. N \in Nat /\ optind \in Int /\ GETOPT!nargc = N + 1
    BY ScanFacts
  <1>2. optreset' = FALSE
    BY DEF ScanInv, ControlInv, GETOPT!TypeOK
  <1> DEFINE m == GETOPT!Match(GETOPT!LongName(text), shortToo)
  <1>3. m \in DOMAIN LongOptions \cup {0, -1}
    BY MatchIn
  <1>4. place' = GETOPT!EMSG
    BY DEF GETOPT!LongOption
  <1> HIDE DEF m
  <1>5. m > 0 => LongOptions[m].val \in Opts
    <2>1. LongOptions
          \in Seq([name : Seq(GETOPT!CharSet), has_arg : GETOPT!HasArg, val : GETOPT!CharSet])
      BY DEF GETOPT!OptionsAssumption
    <2>2. m > 0 => m \in DOMAIN LongOptions
      BY <1>3
    <2>3. m > 0 => LongOptions[m]
                   \in [name : Seq(GETOPT!CharSet), has_arg : GETOPT!HasArg, val : GETOPT!CharSet]
      <3> DEFINE R == [name : Seq(GETOPT!CharSet), has_arg : GETOPT!HasArg, val : GETOPT!CharSet]
      <3> HIDE DEF R
      <3>1. LongOptions \in Seq(R)
        BY <2>1 DEF R
      <3>2. DOMAIN LongOptions = 1 .. Len(LongOptions)
        BY <3>1
      <3>3. m > 0 => LongOptions[m] \in R
        BY <2>2, <3>1, <3>2, ElementOfSeq
      <3> QED
        BY <3>3 DEF R
    <2> QED
      BY <2>3 DEF Opts
  <1> DEFINE Ret(opt, arg) ==
        /\ opc' = "caller"
        /\ parsed' = Append(parsed, [opt |-> opt, used |-> {argv[k] : k \in optind .. last},
                                     arg |-> arg])
  <1>6. \/ Ret("?", 0) /\ optind' = last + 1
        \/ Ret("BADARG", 0) /\ optind' = last + 1
        \/ m > 0 /\ Ret(LongOptions[m].val, 0) /\ optind' = last + 1
        \/ m > 0 /\ Ret(LongOptions[m].val, -1) /\ optind' = last + 1
        \/ m > 0 /\ last + 1 < GETOPT!nargc /\ Ret(LongOptions[m].val, argv[last + 1])
           /\ optind' = (last + 1) + 1
    BY DEF GETOPT!LongOption, GETOPT!Returns, GETOPT!Following, m
  <1>7. ASSUME NEW opt \in Opts, NEW arg \in Int, Ret(opt, arg),
               \/ arg <= 0 /\ optind' = last + 1
               \/ last + 1 <= N /\ arg = argv[last + 1] /\ optind' = last + 2
        PROVE  Took
    BY <1>2, <1>4, <1>7 DEF Took
  <1>8. "?" \in Opts /\ "BADARG" \in Opts
    BY DEF Opts
  <1>9. 0 \in Int /\ 0 <= 0 /\ -1 \in Int /\ -1 <= 0
    OBVIOUS
  <1> HIDE DEF Ret
  <1>10. CASE m > 0 /\ last + 1 < GETOPT!nargc /\ Ret(LongOptions[m].val, argv[last + 1])
             /\ optind' = (last + 1) + 1
    <2>1. last + 1 <= N /\ optind' = last + 2
      BY <1>1, <1>10
    <2>2. last + 1 \in 1 .. N
      <3>1. optind >= 1
        BY <1>1, ScanFacts DEF ScanInv, ControlInv
      <3> QED
        BY <1>1, <2>1, <3>1
    <2>3. argv[last + 1] \in 1 .. N
      BY <2>2, ScanFacts
    <2>4. argv[last + 1] \in Int
      BY <2>3
    <2> QED
      BY <1>5, <1>7, <1>10, <2>1, <2>4
  <1> QED
    BY <1>5, <1>6, <1>7, <1>8, <1>10, <1>9

\* TakeLong takes a long option.
LEMMA TakeLongTook ==
  ASSUME GETOPT!OptionsAssumption, ScanInv, GETOPT!TakeLong
  PROVE  Took
  <1>1. /\ opc = "option" /\ GETOPT!LongOption(GETOPT!LongText, optind, optind, GETOPT!ShortToo)
        /\ UNCHANGED <<orig, mode, argv, optreset, nonopt_start, nonopt_end, base, resets>>
    BY DEF GETOPT!TakeLong
  <1>2. optind \in optind .. N
    <2>1. N \in Nat /\ optind \in 0 .. N + 1 /\ GETOPT!nargc = N + 1
      BY ScanFacts
    <2>2. optind > 0 => optind < GETOPT!nargc
      BY <1>1 DEF ScanInv, GETOPT!TypeOK, ControlInv
    <2> QED
      BY <2>1, <2>2
  <1> QED
    BY <1>1, <1>2, LongTook

\* TakeShort takes a short option, or the long option of -W.
LEMMA TakeShortTook ==
  ASSUME GETOPT!OptionsAssumption, ScanInv, GETOPT!TakeShort
  PROVE  Took
  <1>1. /\ opc = "option"
        /\ UNCHANGED <<orig, mode, argv, optreset, nonopt_start, nonopt_end, base, resets>>
    BY DEF GETOPT!TakeShort
  <1>2. N \in Nat /\ optind \in 0 .. N + 1 /\ GETOPT!nargc = N + 1
    BY ScanFacts
  <1>3. optreset' = FALSE /\ place \in Seq(GETOPT!CharSet) /\ place # GETOPT!EMSG /\ optind >= 1
    BY <1>1, <1>2 DEF ScanInv, ControlInv, GETOPT!TypeOK
  <1>4. optind < GETOPT!nargc
    BY <1>1, <1>2, <1>3 DEF ScanInv, GETOPT!TypeOK
  <1>5. optind \in 1 .. N /\ optind \in optind .. N
    BY <1>2, <1>3, <1>4
  <1> DEFINE c == Head(place)
             rest == Tail(place)
             Ret(opt, arg) ==
               /\ opc' = "caller"
               /\ parsed' = Append(parsed, [opt |-> opt, arg |-> arg,
                                            used |-> {argv[k] : k \in optind .. optind}])
  <1>6. c \in Opts /\ rest \in Seq(GETOPT!CharSet)
    BY <1>3 DEF GETOPT!EMSG, Opts
  <1>7. \/ place' = rest /\ optind' = GETOPT!After(rest) /\ Ret("?", 0)
        \/ place' = rest /\ optind' = GETOPT!After(rest) /\ Ret(c, 0)
        \/ GETOPT!LongOption(rest, optind, optind, FALSE)
        \/ place' = GETOPT!EMSG /\ optind' = optind + 1 /\ Ret("BADARG", 0)
        \/ /\ optind + 1 < GETOPT!nargc
           /\ GETOPT!LongOption(GETOPT!FullText(GETOPT!Arg(optind + 1)), optind + 1, optind, FALSE)
        \/ place' = GETOPT!EMSG /\ optind' = optind + 1 /\ Ret(c, -1)
        \/ place' = GETOPT!EMSG /\ optind' = optind + 1 /\ Ret(c, 0)
        \/ /\ optind + 1 < GETOPT!nargc
           /\ place' = GETOPT!EMSG /\ optind' = optind + 2 /\ Ret(c, argv[optind + 1])
    <2> DEFINE known == c \in DOMAIN ShortOptions
               R(opt, arg) == GETOPT!Returns(opt, optind, optind, arg)
    <2>1. \/ /\ ~known
             /\ place' = rest /\ optind' = GETOPT!After(rest) /\ R("?", 0)
          \/ /\ known /\ (ShortOptions[c] = "no" \/ (ShortOptions[c] = "long" /\ ~GETOPT!UseLong))
             /\ place' = rest /\ optind' = GETOPT!After(rest) /\ R(c, 0)
          \/ /\ known /\ ShortOptions[c] = "long" /\ GETOPT!UseLong
             /\ IF rest # GETOPT!EMSG THEN GETOPT!LongOption(rest, optind, optind, FALSE)
                ELSE IF optind + 1 >= GETOPT!nargc
                     THEN place' = GETOPT!EMSG /\ optind' = optind + 1 /\ R("BADARG", 0)
                     ELSE GETOPT!LongOption(GETOPT!FullText(GETOPT!Arg(optind + 1)), optind + 1,
                                            optind, FALSE)
          \/ /\ known /\ ShortOptions[c] \in {"required", "optional"} /\ rest # GETOPT!EMSG
             /\ place' = GETOPT!EMSG /\ optind' = optind + 1 /\ R(c, -1)
          \/ /\ known /\ ShortOptions[c] = "optional" /\ rest = GETOPT!EMSG
             /\ place' = GETOPT!EMSG /\ optind' = optind + 1 /\ R(c, 0)
          \/ /\ known /\ ShortOptions[c] = "required" /\ rest = GETOPT!EMSG
             /\ place' = GETOPT!EMSG
             /\ IF optind + 1 >= GETOPT!nargc
                THEN optind' = optind + 1 /\ R("BADARG", 0)
                ELSE optind' = optind + 2 /\ R(c, GETOPT!Following(optind))
      BY DEF GETOPT!TakeShort
    <2>2. \A opt, arg : R(opt, arg) => Ret(opt, arg)
      BY DEF GETOPT!Returns
    <2>3. ~(optind + 1 >= GETOPT!nargc) => optind + 1 < GETOPT!nargc
      BY <1>2
    <2> HIDE DEF R, Ret, known, c, rest
    <2> QED
      BY <2>1, <2>2, <2>3 DEF GETOPT!Following
  <1> HIDE DEF c, rest
  <1>8. CASE GETOPT!LongOption(rest, optind, optind, FALSE)
    BY <1>1, <1>5, <1>8, LongTook
  <1>9. CASE /\ optind + 1 < GETOPT!nargc
             /\ GETOPT!LongOption(GETOPT!FullText(GETOPT!Arg(optind + 1)), optind + 1, optind,
                                  FALSE)
    <2>1. optind + 1 \in optind .. N
      BY <1>2, <1>9
    <2> QED
      BY <1>1, <1>9, <2>1, LongTook
  <1>10. ASSUME NEW opt \in Opts, NEW arg \in Int, Ret(opt, arg),
                \/ arg <= 0 /\ optind' = optind + 1 /\ place' = GETOPT!EMSG
                \/ arg <= 0 /\ optind' = optind /\ place' \in Seq(GETOPT!CharSet) \ {GETOPT!EMSG}
                \/ /\ optind + 1 <= N /\ arg = argv[optind + 1]
                   /\ optind' = optind + 2 /\ place' = GETOPT!EMSG
         PROVE  Took
    BY <1>1, <1>3, <1>5, <1>10 DEF Took
  <1>11. ASSUME place' = rest /\ optind' = GETOPT!After(rest), NEW opt \in Opts, Ret(opt, 0)
         PROVE  Took
    <2>1. \/ optind' = optind + 1 /\ place' = GETOPT!EMSG
          \/ optind' = optind /\ place' \in Seq(GETOPT!CharSet) \ {GETOPT!EMSG}
      BY <1>6, <1>11 DEF GETOPT!After
    <2>2. 0 \in Int /\ 0 <= 0
      OBVIOUS
    <2> HIDE DEF Ret
    <2> QED
      BY <2>1, <2>2, <1>10, <1>11
  <1>12. CASE /\ optind + 1 < GETOPT!nargc
              /\ place' = GETOPT!EMSG /\ optind' = optind + 2 /\ Ret(c, argv[optind + 1])
    <2>1. optind + 1 <= N /\ optind + 1 \in 1 .. N
      BY <1>2, <1>5, <1>12
    <2>2. argv[optind + 1] \in 1 .. N
      BY <2>1, ScanFacts
    <2>3. argv[optind + 1] \in Int
      BY <2>2
    <2> HIDE DEF Ret
    <2> QED
      BY <1>6, <1>10, <1>12, <2>1, <2>3
  <1> HIDE DEF Ret
  <1>13. "?" \in Opts /\ "BADARG" \in Opts
    BY DEF Opts
  <1>14. 0 \in Int /\ 0 <= 0 /\ -1 \in Int /\ -1 <= 0
    OBVIOUS
  <1>15. CASE /\ place' = GETOPT!EMSG /\ optind' = optind + 1
              /\ Ret("BADARG", 0) \/ Ret(c, -1) \/ Ret(c, 0)
    BY <1>6, <1>10, <1>15, <1>13, <1>14
  <1> QED
    BY <1>6, <1>7, <1>8, <1>9, <1>11, <1>12, <1>15, <1>13

\* The vector as the program passes it.
LEMMA ShuffledStart ==
  ASSUME NEW n \in Nat
  PROVE  Shuffled([k \in 1 .. n |-> k], n)
  <1> DEFINE v == [k \in 1 .. n |-> k]
  <1>1. v \in [1 .. n -> 1 .. n] /\ \A k \in 1 .. n : v[k] = k
    OBVIOUS
  <1> HIDE DEF v
  <1>2. Shuffled(v, n)
    BY <1>1 DEF Shuffled
  <1> QED
    BY <1>2 DEF v

\* A scan begins with nothing taken.
LEMMA PartwayStart ==
  ASSUME NEW n \in Nat, NEW v, Shuffled(v, n)
  PROVE  Partway(v, v, n, {}, 1, 1, 1)
  <1>1. \A j \in 1 .. n : v[j] = v[j]
    OBVIOUS
  <1>2. \A j \in 1 .. 1 - 1 : FALSE
    OBVIOUS
  <1>3. 1 <= n + 1
    OBVIOUS
  <1> QED
    BY <1>1, <1>2, <1>3 DEF Partway

\* Nothing is taken before the first option.
LEMMA NothingTaken ==
  ASSUME parsed = <<>>
  PROVE  GETOPT!Taken = {}
  BY DEF GETOPT!Taken

\* The invariant holds when the program starts.
LEMMA ScanInit ==
  ASSUME GETOPT!OptionsAssumption, GETOPT!Init
  PROVE  ScanInv
  <1>1. PICK in \in Inputs : orig = in[1] /\ mode = in[2]
    BY DEF GETOPT!Init
  <1>2. orig \in Seq(GETOPT!Args) /\ mode \in GETOPT!Modes
    BY <1>1 DEF GETOPT!OptionsAssumption
  <1>3. N \in Nat
    BY <1>2 DEF N
  <1>4. Shuffled(argv, N) /\ base = argv
    BY <1>3, ShuffledStart DEF GETOPT!Init, N
  <1>5. argv \in Seq(1 .. N) /\ Len(argv) = N /\ GETOPT!nargc = N + 1
    BY <1>3, <1>4, ShuffledSeq DEF GETOPT!nargc
  <1>6. /\ optind = 1 /\ optreset = FALSE /\ place = GETOPT!EMSG
        /\ nonopt_start = -1 /\ nonopt_end = -1
        /\ opc = "caller" /\ parsed = <<>> /\ resets = 0
    BY DEF GETOPT!Init
  <1>7. GETOPT!TypeOK
    <2>1. GETOPT!EMSG \in Seq(GETOPT!CharSet) /\ parsed \in Seq(GETOPT!Event)
      BY <1>6 DEF GETOPT!EMSG
    <2>2. /\ optind \in 0 .. GETOPT!nargc
          /\ nonopt_start \in -1 .. GETOPT!nargc /\ nonopt_end \in -1 .. GETOPT!nargc
      BY <1>3, <1>5, <1>6
    <2>3. resets \in 0 .. MaxResets
      BY <1>6 DEF GETOPT!OptionsAssumption
    <2>4. argv \in Seq(1 .. Len(orig)) /\ base \in Seq(1 .. Len(orig))
      BY <1>4, <1>5 DEF N
    <2> QED
      BY <1>2, <1>6, <2>1, <2>2, <2>3, <2>4 DEF GETOPT!TypeOK
  <1>8. GETOPT!Taken = {}
    BY <1>6, NothingTaken
  <1>9. Partway(argv, base, N, GETOPT!Taken, BlockFrom, BlockTo, optind)
    <2>1. BlockFrom = 1 /\ BlockTo = 1
      BY <1>6 DEF BlockFrom, BlockTo
    <2>2. Partway(argv, argv, N, {}, 1, 1, 1)
      BY <1>3, <1>4, PartwayStart
    <2> QED
      BY <2>1, <2>2, <1>4, <1>6, <1>8
  <1>10. AheadInv
    BY <1>6, <1>8 DEF AheadInv
  <1>11. BlockInv /\ ControlInv
    BY <1>6 DEF BlockInv, ControlInv
  <1>12. ~Stale /\ opc # "done"
    BY <1>6 DEF Stale
  <1> QED
    BY <1>4, <1>7, <1>9, <1>10, <1>11, <1>12 DEF ScanInv

\* A program that starts over finds the vector as the last scan left it.
LEMMA ScanReset ==
  ASSUME GETOPT!OptionsAssumption, ScanInv, GETOPT!Reset
  PROVE  ScanInv'
  <1>1. N \in Nat /\ N' = N
    BY ScanFacts DEF GETOPT!Reset, N
  <1>2. /\ resets < MaxResets /\ resets' = resets + 1
        /\ \/ optreset' = TRUE /\ optind' = 1
           \/ optind' = 0 /\ optreset' = optreset
        /\ opc' = "caller" /\ parsed' = <<>> /\ base' = argv
        /\ UNCHANGED <<orig, mode, argv, place, nonopt_start, nonopt_end>>
        /\ opc \in {"caller", "done"}
    BY DEF GETOPT!Reset
  <1>3. GETOPT!TypeOK /\ BlockInv /\ ControlInv /\ Shuffled(argv, N)
    BY DEF ScanInv
  <1>4. GETOPT!TypeOK'
    <2>1. /\ nonopt_start' \in -1 .. N + 1 /\ nonopt_end' \in -1 .. N + 1
          /\ place' \in Seq(GETOPT!CharSet)
      BY <1>2, <1>3, ScanFacts DEF GETOPT!TypeOK
    <2>2. resets' \in 0 .. MaxResets
      BY <1>2, <1>3 DEF GETOPT!TypeOK, GETOPT!OptionsAssumption
    <2>3. optreset \in BOOLEAN
      BY <1>3 DEF GETOPT!TypeOK
    <2>4. optreset' \in BOOLEAN
      BY <1>2, <2>3
    <2>5. optind' \in 0 .. N + 1
      BY <1>1, <1>2
    <2>6. ~(~optreset' /\ optind' > 0)
      BY <1>2
    <2>7. parsed' \in Seq(GETOPT!Event)
      BY <1>2
    <2> QED
      BY <1>2, <1>3, <2>1, <2>2, <2>5, <2>6, <2>7, <2>4, ScanTypes
  <1>5. BlockInv'
    BY <1>2, <1>3 DEF BlockInv, GETOPT!Permute, GETOPT!AllArgs
  <1>6. ControlInv'
    BY <1>2, <1>3 DEF ControlInv
  <1>7. Stale'
    BY <1>2 DEF Stale
  <1> QED
    BY <1>1, <1>2, <1>3, <1>4, <1>5, <1>6, <1>7 DEF ScanInv

\* A call forgets the block if the program has started over.
LEMMA ScanCall ==
  ASSUME ScanInv, GETOPT!Call
  PROVE  ScanInv'
  <1>1. N \in Nat /\ N' = N /\ optind \in 0 .. N + 1
    BY ScanFacts DEF GETOPT!Call, N
  <1>2. /\ opc = "caller"
        /\ UNCHANGED <<orig, mode, argv, place, parsed, base, resets>>
        /\ opc' = IF optreset' \/ place = GETOPT!EMSG THEN "start" ELSE "option"
    BY DEF GETOPT!Call
  <1>3. GETOPT!TypeOK /\ BlockInv /\ ControlInv /\ Shuffled(argv, N) /\ Shuffled(base, N)
    BY DEF ScanInv
  <1>4. GETOPT!Taken' = GETOPT!Taken /\ ~Stale'
    BY <1>2 DEF GETOPT!Taken, Stale
  <1>5. nonopt_start \in -1 .. N + 1 /\ nonopt_end \in -1 .. N + 1 /\ place \in Seq(GETOPT!CharSet)
        /\ resets \in 0 .. MaxResets /\ parsed \in Seq(GETOPT!Event) /\ optreset \in BOOLEAN
    BY <1>3, ScanFacts DEF GETOPT!TypeOK
  <1>6. CASE Stale
    <2>1. optind' = 1 /\ optreset' = TRUE /\ nonopt_start' = -1 /\ nonopt_end' = -1
      BY <1>1, <1>3, <1>6 DEF Stale, GETOPT!Call, GETOPT!ForgetBlock, ControlInv
    <2>2. parsed = <<>> /\ base = argv
      BY <1>6 DEF ScanInv
    <2>3. opc' = "start"
      BY <1>2, <2>1
    <2>4. GETOPT!TypeOK'
      <3>1. 1 \in 0 .. N + 1 /\ -1 \in -1 .. N + 1
        BY <1>1
      <3> QED
        BY <1>2, <1>3, <1>5, <2>1, <2>3, <3>1, ScanTypes
    <2>5. BlockInv' /\ ControlInv'
      BY <2>1, <2>3 DEF BlockInv, ControlInv
    <2>6. GETOPT!Taken' = {}
      BY <1>4, <2>2, NothingTaken
    <2>7. Partway(argv', base', N, GETOPT!Taken', BlockFrom', BlockTo', optind')
      <3>1. BlockFrom' = 1 /\ BlockTo' = 1
        BY <2>1 DEF BlockFrom, BlockTo
      <3>2. Partway(argv, argv, N, {}, 1, 1, 1)
        BY <1>1, <1>3, PartwayStart
      <3> QED
        BY <3>1, <3>2, <1>2, <2>1, <2>2, <2>6
    <2>8. AheadInv'
      BY <2>1, <2>6 DEF AheadInv
    <2> QED
      BY <1>2, <1>3, <1>4, <2>3, <2>4, <2>5, <2>7, <2>8, ScanGoesOn
  <1>7. CASE ~Stale
    <2>1. optreset = FALSE /\ optind > 0
      BY <1>1, <1>2, <1>5, <1>7 DEF Stale
    <2>2. UNCHANGED <<optind, optreset, nonopt_start, nonopt_end>>
      BY <1>1, <2>1 DEF GETOPT!Call, GETOPT!ForgetBlock
    <2>3. opc' = IF place = GETOPT!EMSG THEN "start" ELSE "option"
      BY <1>2, <2>1, <2>2
    <2>4. Partway(argv, base, N, GETOPT!Taken, BlockFrom, BlockTo, optind) /\ AheadInv
      BY <1>2, <1>7 DEF ScanInv
    <2>5. place # GETOPT!EMSG => optind <= N
      <3>1. place # GETOPT!EMSG => optind < GETOPT!nargc
        BY <1>3, <2>1 DEF GETOPT!TypeOK
      <3> QED
        BY <3>1, <1>1, ScanFacts
    <2>6. GETOPT!TypeOK'
      BY <1>1, <1>2, <1>3, <1>5, <2>2, <2>3, <2>5, ScanTypes
    <2>7. BlockInv' /\ ControlInv'
      BY <1>2, <1>3, <2>1, <2>2, <2>3 DEF BlockInv, ControlInv, GETOPT!Permute, GETOPT!AllArgs
    <2>8. Partway(argv', base', N, GETOPT!Taken', BlockFrom', BlockTo', optind')
      <3>1. BlockFrom' = BlockFrom /\ BlockTo' = BlockTo
        BY <2>2 DEF BlockFrom, BlockTo
      <3> QED
        BY <3>1, <1>2, <1>4, <2>2, <2>4
    <2>9. AheadInv'
      BY <1>1, <1>2, <1>4, <2>2, <2>3, <2>4 DEF AheadInv, GETOPT!EMSG
    <2> QED
      BY <1>2, <1>3, <1>4, <2>3, <2>6, <2>7, <2>8, <2>9, ScanGoesOn
  <1> QED
    BY <1>6, <1>7

\* The first option after non-options closes their block.
LEMMA ScanFetch ==
  ASSUME ScanInv, GETOPT!Fetch
  PROVE  ScanInv'
  <1>1. N \in Nat /\ N' = N /\ optind \in 0 .. N + 1 /\ GETOPT!nargc = N + 1
    BY ScanFacts DEF GETOPT!Fetch, N
  <1>2. /\ opc = "start" /\ optind < GETOPT!nargc
        /\ optreset' = FALSE /\ nonopt_end' = GETOPT!BlockEnd /\ opc' = "option"
        /\ UNCHANGED <<orig, mode, argv, optind, nonopt_start, parsed, base, resets>>
    BY DEF GETOPT!Fetch
  <1>3. GETOPT!TypeOK /\ BlockInv /\ ControlInv /\ Shuffled(argv, N) /\ Shuffled(base, N)
    BY DEF ScanInv
  <1>4. GETOPT!Taken' = GETOPT!Taken /\ ~Stale' /\ ~Stale
    BY <1>2 DEF GETOPT!Taken, Stale
  <1>5. nonopt_start \in -1 .. N + 1 /\ nonopt_end \in -1 .. N + 1
        /\ resets \in 0 .. MaxResets /\ parsed \in Seq(GETOPT!Event)
    BY <1>3, ScanFacts DEF GETOPT!TypeOK
  <1>6. Partway(argv, base, N, GETOPT!Taken, BlockFrom, BlockTo, optind) /\ AheadInv
    BY <1>2, <1>4 DEF ScanInv
  <1>7. optind \in 1 .. N
    BY <1>1, <1>2, <1>3 DEF ControlInv
  <1>8. place' \in Seq(GETOPT!CharSet) /\ place' # GETOPT!EMSG
    <2> DEFINE a == GETOPT!Arg(optind)
    <2>1. argv[optind] \in 1 .. N
      BY <1>7, ScanFacts
    <2>2. a \in GETOPT!Args
      BY <2>1, <1>3 DEF GETOPT!Arg, GETOPT!TypeOK, N
    <2>3. /\ ~GETOPT!IsNonOption(a)
          /\ place' = IF a.dashes = 2 THEN <<"-">> \o a.text
                      ELSE IF a.text = GETOPT!EMSG THEN <<"-">> ELSE a.text
      BY DEF GETOPT!Fetch
    <2> HIDE DEF a
    <2>4. a.text \in Seq(GETOPT!CharSet) /\ <<"-">> \in Seq(GETOPT!CharSet)
      BY <2>2 DEF GETOPT!Args, GETOPT!CharSet
    <2>5. CASE a.dashes = 2
      <3>1. place' = <<"-">> \o a.text
        BY <2>3, <2>5
      <3>2. <<"-">> \o a.text \in Seq(GETOPT!CharSet) /\ Len(<<"-">> \o a.text) = 1 + Len(a.text)
            /\ Len(a.text) \in Nat
        BY <2>4
      <3>3. Len(GETOPT!EMSG) = 0
        BY DEF GETOPT!EMSG
      <3> QED
        BY <3>1, <3>2, <3>3
    <2>6. CASE a.dashes # 2 /\ a.text = GETOPT!EMSG
      <3>1. place' = <<"-">>
        BY <2>3, <2>6
      <3> QED
        BY <3>1, <2>4 DEF GETOPT!EMSG
    <2>7. CASE a.dashes # 2 /\ a.text # GETOPT!EMSG
      BY <2>3, <2>4, <2>7
    <2> QED
      BY <2>5, <2>6, <2>7
  <1>9. GETOPT!BlockEnd \in -1 .. N + 1
    BY <1>1, <1>5, <1>7 DEF GETOPT!BlockEnd
  <1>10. GETOPT!TypeOK'
    <2>1. optind <= N /\ FALSE \in BOOLEAN
      BY <1>1, <1>7
    <2> QED
      BY <1>1, <1>2, <1>3, <1>5, <1>8, <1>9, <2>1, ScanTypes
  <1>11. BlockInv'
    <2>1. nonopt_start # -1 => nonopt_start < optind
      BY <1>6 DEF AheadInv
    <2>2. optind # -1
      BY <1>7
    <2>3. /\ nonopt_start # -1 /\ nonopt_end = -1 => GETOPT!BlockEnd = optind
          /\ ~(nonopt_start # -1 /\ nonopt_end = -1) => GETOPT!BlockEnd = nonopt_end
      BY DEF GETOPT!BlockEnd
    <2> QED
      BY <1>2, <1>3, <2>1, <2>2, <2>3 DEF BlockInv, GETOPT!Permute, GETOPT!AllArgs
  <1>12. ControlInv'
    BY <1>2, <1>7, <1>8 DEF ControlInv, GETOPT!EMSG
  <1>13. Partway(argv', base', N, GETOPT!Taken', BlockFrom', BlockTo', optind')
    <2>1. BlockFrom' = BlockFrom /\ BlockTo' = BlockTo
      <3>1. optind # -1
        BY <1>7
      <3> QED
        BY <1>2, <1>3, <3>1 DEF BlockFrom, BlockTo, GETOPT!BlockEnd, BlockInv
    <2> QED
      BY <2>1, <1>2, <1>4, <1>6
  <1>14. AheadInv'
    BY <1>1, <1>2, <1>4, <1>6, <1>8 DEF AheadInv, GETOPT!EMSG
  <1> QED
    BY <1>2, <1>3, <1>4, <1>10, <1>11, <1>12, <1>13, <1>14, ScanGoesOn

\* Where the scan looks at the next element.
LEMMA AtStart ==
  ASSUME ScanInv, opc = "start"
  PROVE  /\ N \in Nat /\ optind \in 1 .. N + 1 /\ GETOPT!nargc = N + 1
         /\ nonopt_start \in -1 .. N + 1 /\ nonopt_end \in -1 .. N + 1
         /\ Partway(argv, base, N, GETOPT!Taken, BlockFrom, BlockTo, optind)
         /\ \A j \in optind .. N : argv[j] \notin GETOPT!Taken
         /\ nonopt_start # -1 => nonopt_start >= 1 /\ nonopt_start < optind
         /\ nonopt_end # -1 => nonopt_start # -1 /\ nonopt_start < nonopt_end /\ nonopt_end < optind
  <1>1. N \in Nat /\ optind \in 0 .. N + 1 /\ GETOPT!nargc = N + 1
    BY ScanFacts
  <1>2. GETOPT!TypeOK /\ BlockInv /\ ControlInv
    BY DEF ScanInv
  <1>3. ~Stale
    BY DEF Stale
  <1>4. Partway(argv, base, N, GETOPT!Taken, BlockFrom, BlockTo, optind) /\ AheadInv
    BY <1>3 DEF ScanInv
  <1>5. optind \in 1 .. N + 1
    BY <1>1, <1>2 DEF ControlInv
  <1>6. nonopt_start \in -1 .. N + 1 /\ nonopt_end \in -1 .. N + 1
    BY <1>1, <1>2 DEF GETOPT!TypeOK
  <1>7. ASSUME NEW j \in optind .. N
        PROVE  argv[j] \notin GETOPT!Taken
    <2>1. j \in 1 .. N /\ optind <= j
      BY <1>1, <1>5
    <2>2. argv[j] \in GETOPT!Taken => j <= optind
      BY <2>1, <1>4 DEF AheadInv
    <2>3. argv[j] \in GETOPT!Taken => j # optind
      BY <2>1, <1>4 DEF AheadInv
    <2> QED
      BY <2>1, <2>2, <2>3, <1>5
  <1>8. nonopt_start # -1 => nonopt_start >= 1 /\ nonopt_start < optind
    <2>1. nonopt_start # -1 => nonopt_start > 0 /\ nonopt_start < optind
      BY <1>2, <1>4 DEF BlockInv, AheadInv
    <2> QED
      BY <2>1, <1>6
  <1>9. nonopt_end # -1 => nonopt_start # -1 /\ nonopt_start < nonopt_end /\ nonopt_end < optind
    <2>1. nonopt_end # -1 => nonopt_start # -1 /\ nonopt_start < nonopt_end
      BY <1>2 DEF BlockInv
    <2>2. nonopt_end # -1 => BlockTo = nonopt_end
      BY <2>1 DEF BlockTo
    <2>3. BlockTo <= optind
      BY <1>4 DEF Partway
    <2>4. nonopt_end # optind
      BY <1>4 DEF AheadInv
    <2> QED
      BY <2>1, <2>2, <2>3, <2>4, <1>5, <1>6
  <1> QED
    BY <1>1, <1>4, <1>5, <1>6, <1>7, <1>8, <1>9

\* The vector with the block moved behind what was taken after it, and the block there.
Pushed ==
  IF nonopt_end # -1 THEN GETOPT!permute_args(nonopt_start, nonopt_end, optind, argv) ELSE argv
PushedFrom == IF nonopt_end # -1 THEN optind - (nonopt_end - nonopt_start) ELSE BlockFrom

\* The block is then the last thing before optind.
LEMMA PushedPartway ==
  ASSUME ScanInv, opc = "start"
  PROVE  /\ Partway(Pushed, base, N, GETOPT!Taken, PushedFrom, optind, optind)
         /\ PushedFrom \in 1 .. optind
         /\ \A j \in optind .. N : Pushed[j] = argv[j] /\ Pushed[j] \notin GETOPT!Taken
         /\ Shuffled(Pushed, N)
  <1>1. /\ N \in Nat /\ optind \in 1 .. N + 1
        /\ nonopt_start \in -1 .. N + 1 /\ nonopt_end \in -1 .. N + 1
        /\ Partway(argv, base, N, GETOPT!Taken, BlockFrom, BlockTo, optind)
        /\ \A j \in optind .. N : argv[j] \notin GETOPT!Taken
        /\ nonopt_start # -1 => nonopt_start >= 1 /\ nonopt_start < optind
        /\ nonopt_end # -1 => nonopt_start # -1 /\ nonopt_start < nonopt_end /\ nonopt_end < optind
    BY AtStart
  <1>2. Partway(Pushed, base, N, GETOPT!Taken, PushedFrom, optind, optind)
    <2>1. CASE nonopt_end # -1
      <3>1. BlockFrom = nonopt_start /\ BlockTo = nonopt_end
        BY <1>1, <2>1 DEF BlockFrom, BlockTo
      <3>2. Partway(GETOPT!permute_args(nonopt_start, nonopt_end, optind, argv), base, N,
                    GETOPT!Taken, nonopt_start + (optind - nonopt_end), optind, optind)
        BY <1>1, <2>1, <3>1, PartwayExchange
      <3>3. nonopt_start + (optind - nonopt_end) = optind - (nonopt_end - nonopt_start)
        BY <1>1
      <3> QED
        BY <2>1, <3>2, <3>3 DEF Pushed, PushedFrom
    <2>2. CASE nonopt_end = -1
      <3>1. BlockTo = optind
        BY <2>2 DEF BlockTo
      <3> QED
        BY <2>2, <3>1, <1>1 DEF Pushed, PushedFrom
    <2> QED
      BY <2>1, <2>2
  <1>3. PushedFrom \in 1 .. optind
    BY <1>2, <1>1 DEF Partway
  <1>4. \A j \in optind .. N : Pushed[j] = base[j] /\ argv[j] = base[j]
    BY <1>1, <1>2 DEF Partway
  <1>5. Shuffled(Pushed, N)
    BY <1>2 DEF Partway
  <1> QED
    BY <1>1, <1>2, <1>3, <1>4, <1>5

\* What a scan that ends has to keep.
LEMMA ScanStops ==
  ASSUME ScanInv, opc = "start", UNCHANGED <<orig, mode, base, resets>>,
         nonopt_start' = -1, nonopt_end' = -1, place' = GETOPT!EMSG, optreset' = FALSE,
         opc' = "done",
         parsed' \in Seq(GETOPT!Event), Finished(argv', base, N, GETOPT!Taken', optind')
  PROVE  ScanInv'
  <1>1. N \in Nat /\ resets \in 0 .. MaxResets
    BY ScanFacts DEF ScanInv, GETOPT!TypeOK
  <1>2. Shuffled(argv', N) /\ Shuffled(base, N) /\ optind' \in 1 .. N + 1
    BY DEF Finished
  <1>3. optind' \in 0 .. N + 1 /\ -1 \in -1 .. N + 1 /\ optind' # 0
    BY <1>1, <1>2
  <1>4. GETOPT!EMSG \in Seq(GETOPT!CharSet)
    BY DEF GETOPT!EMSG
  <1>5. GETOPT!TypeOK'
    BY <1>1, <1>2, <1>3, <1>4, ScanTypes
  <1>6. BlockInv' /\ ControlInv'
    BY <1>3 DEF BlockInv, ControlInv
  <1> QED
    BY <1>5, <1>6, ScanEnds

\* At the end of the arguments the block comes behind all options.
LEMMA ScanEndOfArgs ==
  ASSUME ScanInv, GETOPT!EndOfArgs
  PROVE  ScanInv'
  <1>1. opc = "start" /\ optind >= GETOPT!nargc /\ GETOPT!EndOfScan /\ parsed' = parsed
    BY DEF GETOPT!EndOfArgs
  <1>2. Partway(Pushed, base, N, GETOPT!Taken, PushedFrom, optind, optind)
        /\ \A j \in optind .. N : Pushed[j] \notin GETOPT!Taken
    BY <1>1, PushedPartway
  <1>3. Finished(Pushed, base, N, GETOPT!Taken, PushedFrom)
    BY <1>2, PartwayDone
  <1>4. argv' = Pushed /\ optind' = PushedFrom
    BY DEF GETOPT!EndOfArgs, Pushed, PushedFrom, BlockFrom
  <1>5. GETOPT!Taken' = GETOPT!Taken /\ parsed' \in Seq(GETOPT!Event)
    BY <1>1 DEF GETOPT!Taken, GETOPT!EndOfScan, ScanInv, GETOPT!TypeOK
  <1> QED
    BY <1>1, <1>3, <1>4, <1>5, ScanStops DEF GETOPT!EndOfScan

\* A non-option is returned, ends the scan or makes the block grow.
LEMMA ScanNonOption ==
  ASSUME ScanInv, GETOPT!NonOption
  PROVE  ScanInv'
  <1>1. /\ opc = "start" /\ optind < GETOPT!nargc
        /\ optreset' = FALSE /\ place' = GETOPT!EMSG
        /\ UNCHANGED <<orig, mode, base, resets>>
    BY DEF GETOPT!NonOption
  <1>2. /\ N \in Nat /\ optind \in 1 .. N + 1 /\ GETOPT!nargc = N + 1
        /\ nonopt_start \in -1 .. N + 1 /\ nonopt_end \in -1 .. N + 1
        /\ nonopt_end # -1 => nonopt_start # -1
    BY <1>1, AtStart
  <1>3. optind \in 1 .. N
    BY <1>1, <1>2
  <1>4. BlockInv /\ GETOPT!TypeOK /\ Shuffled(base, N)
    BY DEF ScanInv
  <1>5. /\ Partway(Pushed, base, N, GETOPT!Taken, PushedFrom, optind, optind)
        /\ PushedFrom \in 1 .. optind /\ Shuffled(Pushed, N)
        /\ \A j \in optind .. N : Pushed[j] = argv[j] /\ Pushed[j] \notin GETOPT!Taken
    BY <1>1, PushedPartway
  <1>6. CASE /\ GETOPT!AllArgs /\ GETOPT!Returns("1", optind, optind, argv[optind])
             /\ optind' = optind + 1
             /\ UNCHANGED <<argv, nonopt_start, nonopt_end>>
    <2>1. nonopt_start = -1
      BY <1>4, <1>6 DEF BlockInv
    <2>2. "1" \in Opts /\ argv[optind] \in Int
      <3>1. argv[optind] \in 1 .. N
        BY <1>3, ScanFacts
      <3> QED
        BY <3>1, <1>2 DEF Opts
    <2>3. optind \in optind .. N
      BY <1>2, <1>3
    <2>4. parsed' = Append(parsed, [opt |-> "1", used |-> {argv[k] : k \in optind .. optind},
                                    arg |-> argv[optind]]) /\ opc' = "caller"
      BY <1>6 DEF GETOPT!Returns
    <2>5. Took
      BY <1>1, <1>6, <2>2, <2>3, <2>4 DEF Took
    <2>6. ~Stale
      BY <1>1 DEF Stale
    <2> QED
      BY <1>1, <2>1, <2>5, <2>6, TookNext
  <1>7. CASE ~GETOPT!AllArgs /\ ~GETOPT!Permute /\ opc' = "done"
             /\ UNCHANGED <<argv, optind, nonopt_start, nonopt_end, parsed>>
    <2>1. nonopt_start = -1 /\ nonopt_end = -1
      BY <1>2, <1>4, <1>7 DEF BlockInv
    <2>2. Pushed = argv /\ PushedFrom = optind
      BY <2>1 DEF Pushed, PushedFrom, BlockFrom
    <2>3. Finished(argv, base, N, GETOPT!Taken, optind)
      BY <1>5, <2>2, PartwayDone
    <2>4. GETOPT!Taken' = GETOPT!Taken /\ parsed' \in Seq(GETOPT!Event)
      BY <1>1, <1>4, <1>7 DEF GETOPT!Taken, GETOPT!TypeOK
    <2> QED
      BY <1>1, <1>7, <2>1, <2>3, <2>4, ScanStops
  <1>8. CASE /\ ~GETOPT!AllArgs /\ GETOPT!Permute
             /\ IF nonopt_start # -1 /\ nonopt_end # -1
                THEN /\ argv' = GETOPT!permute_args(nonopt_start, nonopt_end, optind, argv)
                     /\ nonopt_start' = optind - (nonopt_end - nonopt_start)
                     /\ nonopt_end' = -1
                ELSE /\ nonopt_start' = IF nonopt_start = -1 THEN optind ELSE nonopt_start
                     /\ UNCHANGED <<argv, nonopt_end>>
             /\ GETOPT!Skip
             /\ UNCHANGED <<opc, parsed>>
    <2>1. argv' = Pushed /\ nonopt_start' = PushedFrom /\ nonopt_end' = -1
      BY <1>2, <1>8 DEF Pushed, PushedFrom, BlockFrom
    <2>2. optind' = optind + 1 /\ opc' = "start" /\ parsed' = parsed
      BY <1>1, <1>8 DEF GETOPT!Skip
    <2>3. GETOPT!Taken' = GETOPT!Taken /\ parsed' \in Seq(GETOPT!Event)
      BY <1>1, <1>4, <2>2 DEF GETOPT!Taken, GETOPT!TypeOK
    <2>4. Partway(Pushed, base, N, GETOPT!Taken, PushedFrom, optind + 1, optind + 1)
      <3>1. optind <= N /\ optind \in optind .. N
        BY <1>2, <1>3
      <3> QED
        BY <3>1, <1>5, PartwaySkip
    <2>5. PushedFrom \in Int /\ PushedFrom > 0 /\ PushedFrom # -1 /\ PushedFrom < optind + 1
          /\ PushedFrom \in -1 .. N + 1
      BY <1>2, <1>5
    <2>6. BlockFrom' = PushedFrom /\ BlockTo' = optind + 1
      BY <2>1, <2>2, <2>5 DEF BlockFrom, BlockTo
    <2>7. GETOPT!TypeOK'
      <3>1. optind + 1 \in 0 .. N + 1 /\ -1 \in -1 .. N + 1
        BY <1>2, <1>3
      <3>2. GETOPT!EMSG \in Seq(GETOPT!CharSet) /\ resets \in 0 .. MaxResets
        BY <1>4 DEF GETOPT!EMSG, GETOPT!TypeOK
      <3> QED
        BY <1>1, <1>4, <1>5, <2>1, <2>2, <2>3, <2>5, <3>1, <3>2, ScanTypes
    <2>8. BlockInv' /\ ControlInv' /\ ~Stale'
      <3>1. optind' # 0
        BY <1>2, <2>2
      <3> QED
        BY <1>1, <1>8, <2>1, <2>2, <2>5, <3>1
        DEF BlockInv, ControlInv, Stale, GETOPT!Permute, GETOPT!AllArgs
    <2>9. AheadInv'
      <3>1. ASSUME NEW j \in 1 .. N, Pushed[j] \in GETOPT!Taken
            PROVE  j <= optind + 1 /\ j # optind + 1
        <4>1. ~(j \in optind .. N)
          BY <3>1, <1>5
        <4> QED
          BY <4>1, <1>2
      <3>2. -1 # optind + 1
        BY <1>2
      <3>3. N' = N
        BY <1>1 DEF N
      <3> QED
        BY <2>1, <2>2, <2>3, <2>5, <3>1, <3>2, <3>3 DEF AheadInv
    <2> QED
      BY <1>1, <1>4, <1>5, <2>1, <2>2, <2>3, <2>4, <2>6, <2>7, <2>8, <2>9, ScanGoesOn
  <1> QED
    BY <1>6, <1>7, <1>8 DEF GETOPT!NonOption

\* "--" is taken as well, and ends the scan.
LEMMA DoubleDashTaken ==
  ASSUME ScanInv, GETOPT!DoubleDash
  PROVE  /\ parsed' \in Seq(GETOPT!Event) /\ GETOPT!Taken' = GETOPT!Taken \cup {argv[optind]}
         /\ optind \in 1 .. N /\ opc = "start" /\ GETOPT!EndOfScan
         /\ \E e \in GETOPT!Event : parsed' = Append(parsed, e) /\ e.arg = 0
  <1> DEFINE e == [opt |-> "--", used |-> {argv[optind]}, arg |-> 0]
  <1>1. opc = "start" /\ optind < GETOPT!nargc /\ GETOPT!EndOfScan /\ parsed' = Append(parsed, e)
    BY DEF GETOPT!DoubleDash
  <1>2. N \in Nat /\ optind \in 1 .. N
    BY <1>1, AtStart
  <1>3. argv[optind] \in 1 .. N
    BY <1>2, ScanFacts
  <1>4. e \in GETOPT!Event /\ e.used = {argv[optind]} /\ e.arg = 0
    <2>1. {argv[optind]} \in SUBSET Nat /\ 0 \in Int
      BY <1>2, <1>3
    <2> QED
      BY <2>1 DEF GETOPT!Event
  <1>5. parsed \in Seq(GETOPT!Event) /\ orig' = orig
    BY <1>1 DEF ScanInv, GETOPT!TypeOK, GETOPT!EndOfScan
  <1> HIDE DEF e
  <1>6. GETOPT!Taken' = GETOPT!Taken \cup {x \in 1 .. N : x \in e.used \/ x = e.arg}
    BY <1>1, <1>4, <1>5, TakenAppend
  <1>7. {x \in 1 .. N : x \in e.used \/ x = e.arg} = {argv[optind]}
    <2>1. \A x \in 1 .. N : x # 0
      BY <1>2
    <2> QED
      BY <2>1, <1>3, <1>4
  <1>8. parsed' \in Seq(GETOPT!Event)
    BY <1>1, <1>4, <1>5
  <1> QED
    BY <1>1, <1>2, <1>4, <1>6, <1>7, <1>8

\* What follows "--" is left over, and so is the block.
LEMMA ScanDoubleDash ==
  ASSUME ScanInv, GETOPT!DoubleDash
  PROVE  ScanInv'
  <1>1. /\ parsed' \in Seq(GETOPT!Event) /\ GETOPT!Taken' = GETOPT!Taken \cup {argv[optind]}
        /\ optind \in 1 .. N /\ opc = "start" /\ GETOPT!EndOfScan
    BY DoubleDashTaken
  <1>2. /\ N \in Nat
        /\ nonopt_start \in -1 .. N + 1 /\ nonopt_end \in -1 .. N + 1
        /\ Partway(argv, base, N, GETOPT!Taken, BlockFrom, BlockTo, optind)
        /\ \A j \in optind .. N : argv[j] \notin GETOPT!Taken
        /\ nonopt_start # -1 => nonopt_start >= 1 /\ nonopt_start < optind
        /\ nonopt_end # -1 => nonopt_start # -1 /\ nonopt_start < nonopt_end /\ nonopt_end < optind
    BY <1>1, AtStart
  <1>3. \A k, j \in 1 .. N : argv[k] = argv[j] => k = j
    BY <1>2 DEF Partway, Shuffled
  <1> DEFINE p == optind + 1
  <1>4. p \in Int /\ optind <= p /\ p <= N + 1 /\ 1 <= p /\ optind < p
    BY <1>1, <1>2
  <1>5. Partway(argv, base, N, GETOPT!Taken', BlockFrom, BlockTo, p)
    <2>1. ASSUME NEW j \in 1 .. p - 1
          PROVE  argv[j] \in GETOPT!Taken' <=> argv[j] \in GETOPT!Taken \/ optind <= j
      <3>1. j \in 1 .. N /\ (optind <= j <=> j = optind)
        BY <1>1, <1>2
      <3> QED
        BY <3>1, <1>1, <1>3
    <2> HIDE DEF p
    <2> QED
      BY <2>1, <1>2, <1>4, PartwayTake
  <1>6. \A j \in p .. N : argv[j] \notin GETOPT!Taken' /\ j \in optind .. N
    <2>1. \A j \in p .. N : j \in 1 .. N /\ j # optind /\ j \in optind .. N
      BY <1>1, <1>2
    <2> HIDE DEF p
    <2> QED
      BY <2>1, <1>1, <1>2, <1>3
  <1>7. Finished(argv', base, N, GETOPT!Taken', optind')
    <2>1. CASE GETOPT!BlockEnd # -1
      <3>1. nonopt_start # -1 /\ BlockFrom = nonopt_start /\ BlockTo = GETOPT!BlockEnd
        BY <1>2, <2>1 DEF GETOPT!BlockEnd, BlockFrom, BlockTo
      <3>2. /\ nonopt_start < GETOPT!BlockEnd /\ GETOPT!BlockEnd < p
            /\ GETOPT!BlockEnd \in Int /\ nonopt_start \in Int
        BY <1>1, <1>2, <1>4, <2>1, <3>1 DEF GETOPT!BlockEnd
      <3>3. argv' = GETOPT!permute_args(nonopt_start, GETOPT!BlockEnd, p, argv)
        BY <2>1 DEF GETOPT!DoubleDash
      <3>4. optind' = nonopt_start + (p - GETOPT!BlockEnd)
        <4>1. optind' = optind + 1 - (GETOPT!BlockEnd - nonopt_start)
          BY <2>1 DEF GETOPT!DoubleDash
        <4> QED
          BY <4>1, <3>2, <1>1, <1>2
      <3> HIDE DEF p
      <3>5. Partway(argv', base, N, GETOPT!Taken', nonopt_start + (p - GETOPT!BlockEnd), p, p)
        BY <1>5, <3>1, <3>2, <3>3, PartwayExchange
      <3>6. \A j \in p .. N : argv'[j] = base[j]
        BY <3>5 DEF Partway
      <3>7. \A j \in p .. N : argv[j] = base[j]
        BY <1>5 DEF Partway
      <3>8. \A j \in p .. N : argv'[j] \notin GETOPT!Taken'
        BY <3>6, <3>7, <1>6
      <3> QED
        BY <3>4, <3>5, <3>8, PartwayDone
    <2>2. CASE GETOPT!BlockEnd = -1
      <3>1. nonopt_start = -1
        BY <1>1, <1>2, <2>2 DEF GETOPT!BlockEnd
      <3>2. BlockFrom = optind /\ BlockTo = optind
        BY <3>1 DEF BlockFrom, BlockTo
      <3>3. argv' = argv /\ optind' = p
        BY <2>2 DEF GETOPT!DoubleDash
      <3> HIDE DEF p
      <3>4. Partway(argv, base, N, GETOPT!Taken', p, p, p)
        BY <1>4, <1>5, <3>2, PartwayEmpty
      <3> QED
        BY <3>3, <3>4, <1>6, PartwayDone
    <2> QED
      BY <2>1, <2>2
  <1> QED
    BY <1>1, <1>7, ScanStops DEF GETOPT!EndOfScan

\* An option is looked at only where the scan is under way, the block is closed.
LEMMA AtOption ==
  ASSUME ScanInv, opc = "option"
  PROVE  ~Stale /\ (nonopt_start # -1 => nonopt_end # -1)
  BY DEF ScanInv, Stale, BlockInv

\* What changes nothing keeps the invariant.
LEMMA ScanStutters ==
  ASSUME ScanInv, UNCHANGED GETOPT!vars
  PROVE  ScanInv'
  <1>1. UNCHANGED <<orig, mode, argv, optind, optreset, place, nonopt_start, nonopt_end, opc,
                    parsed, base, resets>>
    BY DEF GETOPT!vars
  <1> QED
    BY <1>1 DEF ScanInv, GETOPT!TypeOK, BlockInv, ControlInv, AheadInv, Stale, BlockFrom, BlockTo,
                GETOPT!Taken, N, GETOPT!nargc, GETOPT!Permute, GETOPT!AllArgs

\* Every step keeps the invariant of the scan.
LEMMA ScanNext ==
  ASSUME GETOPT!OptionsAssumption, ScanInv, [GETOPT!Next]_(GETOPT!vars)
  PROVE  ScanInv'
  <1>1. CASE GETOPT!TakeLong
    BY <1>1, AtOption, TakeLongTook, TookNext DEF GETOPT!TakeLong
  <1>2. CASE GETOPT!TakeShort
    BY <1>2, AtOption, TakeShortTook, TookNext DEF GETOPT!TakeShort
  <1>3. CASE UNCHANGED GETOPT!vars
    BY <1>3, ScanStutters
  <1> QED
    BY <1>1, <1>2, <1>3, ScanCall, ScanEndOfArgs, ScanNonOption, ScanDoubleDash, ScanFetch,
       ScanReset DEF GETOPT!Next, GETOPT!Step, GETOPT!Done

(***************************************************************************)
(* The invariant of a scan holds in every state, for every vector, option  *)
(* table, mode and number of resets.                                       *)
(***************************************************************************)
THEOREM ScanInvariant ==
  ASSUME GETOPT!OptionsAssumption
  PROVE  GETOPT!Spec => []ScanInv
  <1>1. GETOPT!Init => ScanInv
    BY ScanInit
  <1>2. ScanInv /\ [GETOPT!Next]_(GETOPT!vars) => ScanInv'
    BY ScanNext
  <1> QED
    BY <1>1, <1>2, PTL DEF GETOPT!Spec

\* The invariant gives the property.
LEMMA ScanPartitions ==
  ASSUME ScanInv
  PROVE  GETOPT!StablePartition
  <1>1. GETOPT!TypeOK
    BY DEF ScanInv
  <1>2. ASSUME opc = "done"
        PROVE  /\ Len(argv) = Len(base)
               /\ {argv[k] : k \in DOMAIN argv} = {base[k] : k \in DOMAIN base}
               /\ \A k \in DOMAIN argv : argv[k] \in GETOPT!Taken <=> k < optind
               /\ \A j, k \in DOMAIN argv : j < k /\ (j < optind <=> k < optind) =>
                    GETOPT!PlaceIn(base, argv[j]) < GETOPT!PlaceIn(base, argv[k])
               /\ optind = Cardinality(GETOPT!Taken) + 1
    <2>1. Finished(argv, base, N, GETOPT!Taken, optind)
      BY <1>2 DEF ScanInv
    <2>2. GETOPT!Taken \subseteq 1 .. N
      BY DEF GETOPT!Taken, N
    <2> QED
      BY <2>1, <2>2, FinishedIs
  <1>3. ASSUME nonopt_end # -1
        PROVE  nonopt_start > 0 /\ nonopt_start < nonopt_end
    BY <1>3 DEF ScanInv, BlockInv
  <1>4. ASSUME nonopt_end # -1, opc = "start"
        PROVE  nonopt_end < optind
    BY <1>4, AtStart
  <1>5. GETOPT!Cardinality(GETOPT!Taken) = Cardinality(GETOPT!Taken)
    BY DEF GETOPT!Cardinality, Cardinality
  <1> QED
    BY <1>1, <1>2, <1>3, <1>4, <1>5 DEF GETOPT!StablePartition

(***************************************************************************)
(* getopt_long() and its relatives leave the options with their arguments  *)
(* first and the rest behind them, both in the order the program passed    *)
(* them in, for vectors of any length, any options, every mode and any     *)
(* number of resets; no block that is exchanged is ever empty.             *)
(***************************************************************************)
THEOREM StablePartitionHolds ==
  ASSUME GETOPT!OptionsAssumption
  PROVE  GETOPT!Spec => []StablePartition
  <1>1. ScanInv => StablePartition
    BY ScanPartitions DEF StablePartition
  <1> QED
    BY <1>1, ScanInvariant, PTL

-----------------------------------------------------------------------------
\* An option that is added to what was returned has its argument behind it, if it has one.
LEMMA FollowsAppend ==
  ASSUME GETOPT!ArgFollowsOption, parsed \in Seq(GETOPT!Event), NEW e \in GETOPT!Event,
         parsed' = Append(parsed, e), base' = base,
         e.arg > 0 /\ e.opt # "1" =>
           \E j \in 1 .. Len(base) - 1 : base[j] \in e.used /\ base[j + 1] = e.arg
  PROVE  GETOPT!ArgFollowsOption'
  <1> DEFINE n == Len(parsed)
             quot == Append(parsed, e)
             Follows(x) == x.arg > 0 /\ x.opt # "1" =>
               \E j \in 1 .. Len(base) - 1 : base[j] \in x.used /\ base[j + 1] = x.arg
  <1>1. n \in Nat /\ DOMAIN parsed = 1 .. n /\ DOMAIN quot = 1 .. n + 1
    OBVIOUS
  <1>2. quot[n + 1] = e /\ \A k \in 1 .. n : quot[k] = parsed[k]
    OBVIOUS
  <1>3. Follows(e)
    OBVIOUS
  <1>4. \A k \in 1 .. n : Follows(parsed[k])
    BY <1>1 DEF GETOPT!ArgFollowsOption
  <1>5. \A k \in 1 .. n + 1 : k \in 1 .. n \/ k = n + 1
    BY <1>1
  <1> HIDE DEF Follows, n, quot
  <1>6. \A k \in DOMAIN quot : Follows(quot[k])
    BY <1>1, <1>2, <1>3, <1>4, <1>5
  <1>7. parsed' = quot
    BY DEF quot
  <1> QED
    BY <1>6, <1>7 DEF Follows, GETOPT!ArgFollowsOption

\* The argument of an option is the element that the scan comes to next.
LEMMA TookFollows ==
  ASSUME ScanInv, ~Stale, opc \in {"start", "option"}, Took, GETOPT!ArgFollowsOption
  PROVE  GETOPT!ArgFollowsOption'
  <1>1. /\ N \in Nat /\ optind \in 0 .. N + 1
        /\ \A k \in 1 .. N : argv[k] \in 1 .. N
    BY ScanFacts
  <1>2. /\ Partway(argv, base, N, GETOPT!Taken, BlockFrom, BlockTo, optind)
        /\ ControlInv /\ parsed \in Seq(GETOPT!Event) /\ Shuffled(base, N)
    BY DEF ScanInv, GETOPT!TypeOK
  <1>3. optind >= 1
    BY <1>1, <1>2 DEF ControlInv
  <1>4. Len(base) = N
    BY <1>1, <1>2, ShuffledSeq
  <1>5. PICK last \in optind .. N, opt \in Opts, arg \in Int :
          /\ parsed' = Append(parsed, [opt |-> opt, used |-> {argv[k] : k \in optind .. last},
                                       arg |-> arg])
          /\ \/ arg <= 0
             \/ last + 1 <= N /\ arg = argv[last + 1]
             \/ opt = "1"
    BY DEF Took
  <1> DEFINE S == {argv[k] : k \in optind .. last}
             e == [opt |-> opt, used |-> S, arg |-> arg]
  <1>6. e \in GETOPT!Event /\ e.opt = opt /\ e.used = S /\ e.arg = arg
    <2>1. optind .. last \subseteq 1 .. N
      BY <1>1, <1>3
    <2>2. \A k \in 1 .. N : argv[k] \in Nat
      BY <1>1
    <2>3. S \in SUBSET Nat
      BY <2>1, <2>2
    <2> QED
      BY <2>3 DEF GETOPT!Event, Opts
  <1>7. parsed' = Append(parsed, e) /\ base' = base
    BY <1>5 DEF Took
  <1>8. ASSUME last + 1 <= N, arg = argv[last + 1]
        PROVE  \E j \in 1 .. Len(base) - 1 : base[j] \in S /\ base[j + 1] = arg
    <2>1. last \in optind .. N /\ last + 1 \in optind .. N /\ last \in 1 .. N - 1
          /\ last \in optind .. last
      BY <1>1, <1>3, <1>8
    <2>2. argv[last] = base[last] /\ argv[last + 1] = base[last + 1]
      BY <2>1, <1>2 DEF Partway
    <2>3. argv[last] \in S
      BY <2>1
    <2> HIDE DEF S
    <2> QED
      BY <2>1, <2>2, <2>3, <1>4, <1>8
  <1>9. e.arg > 0 /\ e.opt # "1" =>
          \E j \in 1 .. Len(base) - 1 : base[j] \in e.used /\ base[j + 1] = e.arg
    <2>1. arg > 0 => ~(arg <= 0)
      OBVIOUS
    <2> HIDE DEF S, e
    <2> QED
      BY <2>1, <1>5, <1>6, <1>8
  <1> HIDE DEF S, e
  <1> QED
    BY <1>2, <1>6, <1>7, <1>9, FollowsAppend

\* A non-option is returned or passed over.
LEMMA NonOptionFollows ==
  ASSUME ScanInv, GETOPT!NonOption, GETOPT!ArgFollowsOption
  PROVE  GETOPT!ArgFollowsOption'
  <1>1. opc = "start" /\ optind < GETOPT!nargc /\ base' = base
    BY DEF GETOPT!NonOption
  <1>2. CASE parsed' = parsed
    BY <1>1, <1>2 DEF GETOPT!ArgFollowsOption
  <1>3. CASE GETOPT!Returns("1", optind, optind, argv[optind])
    <2> DEFINE e == [opt |-> "1", used |-> {argv[k] : k \in optind .. optind}, arg |-> argv[optind]]
    <2>1. N \in Nat /\ optind \in 1 .. N
      BY <1>1, AtStart
    <2>2. argv[optind] \in 1 .. N /\ optind .. optind = {optind}
      BY <2>1, ScanFacts
    <2>3. {argv[k] : k \in optind .. optind} \in SUBSET Nat /\ argv[optind] \in Int
      BY <2>1, <2>2
    <2>4. e \in GETOPT!Event /\ e.opt = "1"
      BY <2>3 DEF GETOPT!Event
    <2>5. parsed' = Append(parsed, e) /\ parsed \in Seq(GETOPT!Event)
      BY <1>3 DEF GETOPT!Returns, ScanInv, GETOPT!TypeOK
    <2> HIDE DEF e
    <2> QED
      BY <1>1, <2>4, <2>5, FollowsAppend
  <1> QED
    BY <1>2, <1>3 DEF GETOPT!NonOption

\* "--" has no argument.
LEMMA DoubleDashFollows ==
  ASSUME ScanInv, GETOPT!DoubleDash, GETOPT!ArgFollowsOption
  PROVE  GETOPT!ArgFollowsOption'
  <1>1. PICK e \in GETOPT!Event : parsed' = Append(parsed, e) /\ e.arg = 0
    BY DoubleDashTaken
  <1>2. parsed \in Seq(GETOPT!Event) /\ base' = base
    BY DEF ScanInv, GETOPT!TypeOK, GETOPT!DoubleDash, GETOPT!EndOfScan
  <1>3. ~(e.arg > 0)
    BY <1>1
  <1> QED
    BY <1>1, <1>2, <1>3, FollowsAppend

\* No option has been returned yet.
LEMMA ArgFollowsInit ==
  ASSUME GETOPT!Init
  PROVE  GETOPT!ArgFollowsOption
  BY DEF GETOPT!Init, GETOPT!ArgFollowsOption

\* Every step keeps the arguments behind their options.
LEMMA ArgFollowsNext ==
  ASSUME GETOPT!OptionsAssumption, ScanInv, GETOPT!ArgFollowsOption, [GETOPT!Next]_(GETOPT!vars)
  PROVE  GETOPT!ArgFollowsOption'
  <1>1. CASE parsed' = parsed /\ base' = base
    BY <1>1 DEF GETOPT!ArgFollowsOption
  <1>2. CASE GETOPT!TakeLong
    BY <1>2, AtOption, TakeLongTook, TookFollows DEF GETOPT!TakeLong
  <1>3. CASE GETOPT!TakeShort
    BY <1>3, AtOption, TakeShortTook, TookFollows DEF GETOPT!TakeShort
  <1>4. CASE GETOPT!Reset
    <2>1. parsed' = <<>>
      BY <1>4 DEF GETOPT!Reset
    <2> QED
      BY <2>1 DEF GETOPT!ArgFollowsOption
  <1>5. CASE GETOPT!Call \/ GETOPT!Fetch \/ GETOPT!EndOfArgs \/ UNCHANGED GETOPT!vars
    BY <1>1, <1>5 DEF GETOPT!Call, GETOPT!Fetch, GETOPT!EndOfArgs, GETOPT!EndOfScan, GETOPT!vars
  <1> QED
    BY <1>2, <1>3, <1>4, <1>5, NonOptionFollows, DoubleDashFollows
    DEF GETOPT!Next, GETOPT!Step, GETOPT!Done

(***************************************************************************)
(* The argument an option is returned with is the element that followed it *)
(* in the vector the program passed, for vectors of any length and any     *)
(* options.                                                                *)
(***************************************************************************)
THEOREM ArgFollowsOptionHolds ==
  ASSUME GETOPT!OptionsAssumption
  PROVE  GETOPT!Spec => []ArgFollowsOption
  <1>1. GETOPT!Init => GETOPT!ArgFollowsOption
    BY ArgFollowsInit
  <1>2. ScanInv /\ GETOPT!ArgFollowsOption /\ [GETOPT!Next]_(GETOPT!vars)
        => GETOPT!ArgFollowsOption'
    BY ArgFollowsNext
  <1> QED
    BY <1>1, <1>2, ScanInvariant, PTL DEF GETOPT!Spec, ArgFollowsOption

=============================================================================
