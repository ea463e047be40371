-------------------------- MODULE MCReadPassphrase --------------------------
(* TLC instances of ReadPassphrase. *)
EXTENDS ReadPassphrase

\* One signal of each kind: installed over SIG_IGN, ending the process,
\* stopping it, and the two that the terminal sends.
MCSigOrder == <<"INT", "TERM", "TSTP", "TTIN", "TTOU">>
MCPlain == {"INT"}
MCStopSigs == {"TSTP", "TTIN", "TTOU"}

D(onInt, onTerm, onStop) ==
  [s \in Signals |-> IF s = "INT" THEN onInt ELSE IF s = "TERM" THEN onTerm ELSE onStop]
\* Every disposition of a signal that does not stop, and those of a stop signal but for a handler
\* of the caller's: with its own for SIGTTIN the call starts over until it is in the foreground.
MCDisps == {D("DFL", "DFL", "DFL"), D("IGN", "USER", "IGN"), D("USER", "IGN", "DFL")}

MCFlags == {{}, {"ECHO_ON", "REQUIRE_TTY"}, {"STDIN", "REQUIRE_TTY"},
            {"STDIN", "SEVENBIT", "FORCELOWER", "FORCEUPPER"}}
MCNoFlags == {{}}
MCTtyFds == {-1, 3}
MCTtyFdZero == {0}
MCTtyFdOpen == {3}
=============================================================================
