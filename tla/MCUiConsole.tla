---------------------------- MODULE MCUiConsole ----------------------------
(* TLC instances of UiConsole. *)
EXTENDS UiConsole

String(type, shown) == [type |-> type, echo |-> shown]

\* A password asked twice; a question and a password.
MCScripts ==
  { <<String("INFO", TRUE), String("PROMPT", FALSE), String("VERIFY", FALSE)>>,
    <<String("BOOLEAN", TRUE), String("PROMPT", FALSE)>> }

\* Everything up to six characters, a letter or the end of a line; a line of two chunks
\* after the buffer; two different lines.
MCInputs == UNION {[1 .. n -> {"a", Newline}] : n \in 0 .. 6}
              \cup {<<"a", "a", "a", "a", "a", Newline, "a", Newline>>, <<"a", Newline, "b", Newline>>}
=============================================================================
