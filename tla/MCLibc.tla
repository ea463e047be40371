------------------------------- MODULE MCLibc -------------------------------
(* TLC instance of Libc; readpassphrase()'s constants: MCReadPassphrase.     *)
EXTENDS Libc, MCReadPassphrase

ASSUME GetoptAssumption == GETOPT!OptionsAssumption

A(d, t) == [dashes |-> d, text |-> t]
MCShort == [f |-> "no", r |-> "required", o |-> "optional", W |-> "long"]
MCLong == <<[name |-> <<"f", "o">>, has_arg |-> "no", val |-> "fo"],
            [name |-> <<"r", "q">>, has_arg |-> "required", val |-> "rq"],
            [name |-> <<"r", "o">>, has_arg |-> "optional", val |-> "ro"]>>

Mode(f) == [fn |-> f, prefix |-> "", posix |-> FALSE]
MCFunctions == {"getopt", "getopt_long", "getopt_long_only"}
MCModes == [fn : MCFunctions, prefix : {"", "+", "-"}, posix : BOOLEAN]

\* One argument of every shape: word (also a long name), "-", "--", unknown,
\* clusters, attached arguments, abbreviations, ambiguity, "=".
Shapes == {A(0, <<"r", "q">>), A(1, <<>>), A(2, <<>>), A(1, <<"x">>), A(1, <<"f", "r">>),
           A(1, <<"r", "f">>), A(1, <<"o">>), A(1, <<"W">>), A(1, <<"f", "-", "f">>),
           A(2, <<"f">>), A(2, <<"r">>), A(2, <<"r", "q">>), A(2, <<"f", "o", "=">>),
           A(2, <<"r", "o", "=", "f">>), A(1, <<"r", "q">>)}
Simple == {A(0, <<"x">>), A(1, <<"f">>), A(1, <<"r">>), A(2, <<>>)}

UpTo(S, n) == UNION {[1 .. k -> S] : k \in 0 .. n}

\* Every mode on two arguments of every shape, every function on three, and blocks of
\* every length to exchange.
MCInputs == (UpTo(Shapes, 2) \X MCModes)
            \cup (UpTo(Shapes, 3) \X {Mode(f) : f \in MCFunctions})
            \cup (UpTo(Simple, 5) \X {Mode("getopt_long")})
=============================================================================
