-------------------------------- MODULE Libc --------------------------------
(***************************************************************************)
(* Two functions of OpenBSD's libc that other systems lack, side by side:  *)
(* readpassphrase(), which this module extends, and getopt_long() with its *)
(* relatives (Getopt).  They share no state.  A program calls one of them; *)
(* what the other works on stays in one of its initial states.             *)
(***************************************************************************)
EXTENDS ReadPassphrase

CONSTANTS Inputs, ShortOptions, LongOptions, MaxResets   \* Getopt

VARIABLES called,                                        \* the function that is called
          orig, mode, argv, optind, optreset, place, nonopt_start, nonopt_end, opc, parsed,
          base, resets                                   \* Getopt

GETOPT == INSTANCE Getopt WITH pc <- opc

getoptVars == <<orig, mode, argv, optind, optreset, place, nonopt_start, nonopt_end, opc, parsed,
                base, resets>>

\* The function that is not called is given some fixed arguments.
LibcInit ==
  /\ \/ /\ called = "readpassphrase"
        /\ LET given0 == CHOOSE in \in Inputs : TRUE IN orig = given0[1] /\ mode = given0[2]
     \/ /\ called = "getopt"
        /\ flags = CHOOSE f \in FlagSets : TRUE
        /\ bufsiz = CHOOSE n \in BufSizes : TRUE
        /\ disp0 = CHOOSE d \in InitialDisps : TRUE
  /\ GETOPT!Init /\ Init

LibcNext ==
  \/ called = "readpassphrase" /\ Next /\ UNCHANGED <<called, getoptVars>>
  \/ called = "getopt" /\ GETOPT!Next /\ UNCHANGED <<called, vars>>

LibcFairness ==
  /\ WF_vars(called = "readpassphrase" /\ Step) /\ SF_vars(called = "readpassphrase" /\ ReadEnds)
  /\ WF_vars(called = "readpassphrase" /\ proc = "stopped" /\ Foreground)
  /\ WF_getoptVars(called = "getopt" /\ GETOPT!Step)

LibcSpec == LibcInit /\ [][LibcNext]_<<called, vars, getoptVars>> /\ LibcFairness

\* What a scan of the arguments must fulfil, with the properties of Getopt.

\* When a scan ends, the options with their arguments come first and the rest of the vector
\* follows, each in its old order, and permute_args() never meets an empty block.
StablePartition == GETOPT!StablePartition
\* The argument of an option is the element that followed it in the vector passed, whatever
\* permute_args() has exchanged.
ArgFollowsOption == GETOPT!ArgFollowsOption
\* A program that calls getopt_long() until it returns -1 gets there.
Terminates == called = "getopt" => GETOPT!Terminates
=============================================================================
