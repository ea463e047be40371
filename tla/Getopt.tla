------------------------------- MODULE Getopt -------------------------------
(***************************************************************************)
(* crypto/compat/getopt_long.c: getopt, getopt_long, getopt_long_only.     *)
(*                                                                         *)
(* An argument is a number of leading dashes and a text, a sequence of     *)
(* characters.  argv is kept as the sequence of the positions its elements *)
(* had in the caller's vector orig, so that argv always shows where each   *)
(* element has gone; argv[k] here is nargv[k] there (nargv[0] is the       *)
(* program).  A program calls the function until it returns -1, and may    *)
(* start over with optreset at any time between two calls.                 *)
(***************************************************************************)
EXTENDS Integers, Sequences, SequencesExt, FiniteSets

CONSTANTS Inputs,        \* the argument vectors a program may be given, and how it scans them
          ShortOptions,  \* [character -> has_arg], the option string
          LongOptions,   \* sequence of [name, has_arg, val], the array long_options
          MaxResets      \* bound: how often the program starts over

HasArg == {"no", "required", "optional"}
\* The provers do not know that "-" is a string, so it is named.
CharSet == STRING \cup {"-"}
Args == [dashes : 0 .. 2, text : Seq(CharSet)]
Functions == {"getopt", "getopt_long", "getopt_long_only"}
\* The function called, '+' or '-' in front of the option string, POSIXLY_CORRECT
Modes == [fn : Functions, prefix : {"", "+", "-"}, posix : BOOLEAN]

OptionsAssumption ==
  /\ Inputs \subseteq Seq(Args) \X Modes
  /\ \A c \in DOMAIN ShortOptions : ShortOptions[c] \in HasArg \cup {"long"}  \* long: "W;"
  /\ LongOptions \in Seq([name : Seq(CharSet), has_arg : HasArg, val : CharSet])
  /\ MaxResets \in Nat

VARIABLES orig, mode,                 \* the caller's vector and the function it calls
          argv, optind, optreset,     \* nargv, the globals
          place,                      \* what is left of the current argument
          nonopt_start, nonopt_end,   \* the block of non-options that was skipped
          pc,                         \* caller, start, option or done
          parsed,                     \* ghost: what the calls of this scan returned
          base, resets                \* ghosts: argv when the scan began, resets so far

scan == <<place, nonopt_start, nonopt_end>>
vars == <<orig, mode, argv, optind, optreset, place, nonopt_start, nonopt_end, pc, parsed,
          base, resets>>

nargc == Len(argv) + 1
Arg(k) == orig[argv[k]]
EMSG == <<>>
FullText(a) == [k \in 1 .. a.dashes |-> "-"] \o a.text

\* An option returned: its character or val, the arguments it was spelled in, and
\* optarg: 0 for none, -1 for the rest of the same argument, or another argument.
Event == [opt : CharSet \cup {"?", "BADARG", "1", "--"}, used : SUBSET Nat, arg : Int]

TypeOK ==
  /\ orig \in Seq(Args) /\ mode \in Modes
  /\ argv \in Seq(1 .. Len(orig)) /\ base \in Seq(1 .. Len(orig))
  /\ optind \in 0 .. nargc /\ optreset \in BOOLEAN
  /\ place \in Seq(CharSet) /\ (place # EMSG /\ ~optreset /\ optind > 0 => optind < nargc)
  /\ nonopt_start \in -1 .. nargc /\ nonopt_end \in -1 .. nargc
  /\ pc \in {"caller", "start", "option", "done"}
  /\ parsed \in Seq(Event) /\ resets \in 0 .. MaxResets

Init ==
  /\ \E in \in Inputs : orig = in[1] /\ mode = in[2]
  /\ argv = [k \in 1 .. Len(orig) |-> k] /\ base = argv
  /\ optind = 1 /\ optreset = FALSE /\ place = EMSG
  /\ nonopt_start = -1 /\ nonopt_end = -1
  /\ pc = "caller" /\ parsed = <<>> /\ resets = 0

-----------------------------------------------------------------------------
\* The flags of getopt_internal after the tests of options[0].
Permute == mode.fn # "getopt" /\ ~(mode.prefix # "-" /\ (mode.posix \/ mode.prefix = "+"))
AllArgs == mode.prefix = "-"
LongOnly == mode.fn = "getopt_long_only"
UseLong == mode.fn # "getopt"

gcd[p \in Nat \X (Nat \ {0})] ==
  LET a == p[1]
      b == p[2]
  IN  IF a % b = 0 THEN b ELSE gcd[<<b, a % b>>]

\* A mutation: one cycle is forgotten.
PermuteOneCycle(from, mid, to, v) ==
  SubSeq(v, 1, from - 1) \o Tail(SubSeq(v, from, to - 1)) \o <<v[from]>> \o SubSeq(v, to, Len(v))

\* One round of the inner loop: pos moves on, and the element there is exchanged with
\* the one at cstart.
Exchange(from, mid, to, cstart, at) ==
  LET pos == IF at.pos >= mid THEN at.pos - (mid - from) ELSE at.pos + (to - mid)
  IN  [pos |-> pos, w |-> [at.w EXCEPT ![pos] = at.w[cstart], ![cstart] = at.w[pos]]]

Cycle(from, mid, to, cyclelen, cstart, v) ==
  LET at[j \in 0 .. cyclelen] ==
        IF j = 0 THEN [pos |-> cstart, w |-> v]
        ELSE Exchange(from, mid, to, cstart, at[j - 1])
  IN  at[cyclelen].w

\* permute_args: the cycles of the rotation, one after the other
permute_args(from, mid, to, v) ==
  LET ncycle == gcd[<<mid - from, to - mid>>]
      after[i \in 0 .. ncycle] ==
        IF i = 0 THEN v
        ELSE Cycle(from, mid, to, (to - from) \div ncycle, mid + i - 1, after[i - 1])
  IN  after[ncycle]

-----------------------------------------------------------------------------
\* parse_long_options: the part of the text before '=' is the name.
HasEqual(text) == \E k \in DOMAIN text : text[k] = "="
LongName(text) ==
  IF HasEqual(text)
  THEN SubSeq(text, 1, (CHOOSE k \in DOMAIN text :
                          text[k] = "=" /\ \A j \in 1 .. k - 1 : text[j] # "=") - 1)
  ELSE text

Exact(name) == {k \in DOMAIN LongOptions : LongOptions[k].name = name}
Partial(name, shortToo) ==
  {k \in DOMAIN LongOptions : IsPrefix(name, LongOptions[k].name)
                              /\ ~(shortToo /\ Len(name) = 1)}

\* The index of the option that matches, 0 for none, -1 for an ambiguity.
Match(name, shortToo) ==
  LET least(S) == CHOOSE k \in S : \A j \in S : k <= j
      partial == Partial(name, shortToo)
      same(j, k) == /\ ~LongOnly
                    /\ LongOptions[j].has_arg = LongOptions[k].has_arg
                    /\ LongOptions[j].val = LongOptions[k].val
  IN  IF Exact(name) # {} THEN least(Exact(name))
      ELSE IF partial = {} THEN 0
      ELSE IF \A k \in partial \ {least(partial)} : same(k, least(partial))
           THEN least(partial) ELSE -1

\* Returns opt, spelled in the arguments number first to last.
Returns(opt, first, last, arg) ==
  /\ pc' = "caller"
  /\ parsed' = Append(parsed, [opt |-> opt, used |-> {argv[k] : k \in first .. last}, arg |-> arg])

\* A mutation: optarg is read before optind has moved on.
FollowingSame(k) == argv[k]

\* The argument of an option spelled in argument number k is the next one.
Following(k) == argv[k + 1]

\* parse_long_options for the text, found in argument number k of argv, of an
\* option whose first argument is number first.
LongOption(text, k, first, shortToo) ==
  LET m == Match(LongName(text), shortToo)
      has == LongOptions[m].has_arg
      next == k + 1
  IN  /\ place' = EMSG
      /\ \/ m <= 0 /\ Returns("?", first, k, 0) /\ optind' = next
         \/ m > 0 /\ has = "no" /\ HasEqual(text)
            /\ Returns("BADARG", first, k, 0) /\ optind' = next
         \/ m > 0 /\ has = "no" /\ ~HasEqual(text)
            /\ Returns(LongOptions[m].val, first, k, 0) /\ optind' = next
         \/ m > 0 /\ has # "no" /\ HasEqual(text)
            /\ Returns(LongOptions[m].val, first, k, -1) /\ optind' = next
         \/ m > 0 /\ has = "optional" /\ ~HasEqual(text)
            /\ Returns(LongOptions[m].val, first, k, 0) /\ optind' = next
         \/ m > 0 /\ has = "required" /\ ~HasEqual(text) /\ next < nargc
            /\ Returns(LongOptions[m].val, first, k, Following(k)) /\ optind' = next + 1
         \/ m > 0 /\ has = "required" /\ ~HasEqual(text) /\ next >= nargc
            /\ Returns("BADARG", first, k, 0) /\ optind' = next

-----------------------------------------------------------------------------
\* if (optreset) nonopt_start = nonopt_end = -1;
ForgetBlock == IF optreset THEN nonopt_start' = -1 /\ nonopt_end' = -1
               ELSE UNCHANGED <<nonopt_start, nonopt_end>>

\* A call of getopt_internal, up to the label start.
Call ==
  /\ pc = "caller"
  /\ IF optind = 0
     THEN optind' = 1 /\ optreset' = TRUE /\ nonopt_start' = -1 /\ nonopt_end' = -1
     ELSE ForgetBlock /\ UNCHANGED <<optind, optreset>>
  /\ pc' = IF optreset' \/ place = EMSG THEN "start" ELSE "option"
  /\ UNCHANGED <<orig, mode, argv, place, parsed, base, resets>>

EndOfScan ==
  /\ nonopt_start' = -1 /\ nonopt_end' = -1
  /\ place' = EMSG /\ optreset' = FALSE /\ pc' = "done"
  /\ UNCHANGED <<orig, mode, base, resets>>

EndOfArgs ==
  /\ pc = "start" /\ optind >= nargc
  /\ IF nonopt_end # -1
     THEN /\ argv' = permute_args(nonopt_start, nonopt_end, optind, argv)
          /\ optind' = optind - (nonopt_end - nonopt_start)
     ELSE /\ optind' = IF nonopt_start # -1 THEN nonopt_start ELSE optind
          /\ UNCHANGED argv
  /\ EndOfScan /\ UNCHANGED parsed

IsNonOption(a) == a.dashes = 0 \/ (a.dashes = 1 /\ a.text = EMSG /\ "-" \notin DOMAIN ShortOptions)

\* A mutation: the non-option is not passed over.
SkipNot == UNCHANGED optind

Skip == optind' = optind + 1

\* A non-option: returned as the argument of option 1, the end, or skipped.
NonOption ==
  /\ pc = "start" /\ optind < nargc /\ IsNonOption(Arg(optind))
  /\ optreset' = FALSE /\ place' = EMSG
  /\ \/ /\ AllArgs
        /\ Returns("1", optind, optind, argv[optind])
        /\ optind' = optind + 1
        /\ UNCHANGED <<argv, nonopt_start, nonopt_end>>
     \/ /\ ~AllArgs /\ ~Permute
        /\ pc' = "done"
        /\ UNCHANGED <<argv, optind, nonopt_start, nonopt_end, parsed>>
     \/ /\ ~AllArgs /\ Permute
        /\ IF nonopt_start # -1 /\ nonopt_end # -1
           THEN /\ argv' = permute_args(nonopt_start, nonopt_end, optind, argv)
                /\ nonopt_start' = optind - (nonopt_end - nonopt_start)
                /\ nonopt_end' = -1
           ELSE /\ nonopt_start' = IF nonopt_start = -1 THEN optind ELSE nonopt_start
                /\ UNCHANGED <<argv, nonopt_end>>
        /\ Skip
        /\ UNCHANGED <<pc, parsed>>
  /\ UNCHANGED <<orig, mode, base, resets>>

\* nonopt_end is set by the first option after a block of non-options.
BlockEnd == IF nonopt_start # -1 /\ nonopt_end = -1 THEN optind ELSE nonopt_end

DoubleDash ==
  /\ pc = "start" /\ optind < nargc /\ Arg(optind) = [dashes |-> 2, text |-> EMSG]
  /\ IF BlockEnd # -1
     THEN /\ argv' = permute_args(nonopt_start, BlockEnd, optind + 1, argv)
          /\ optind' = optind + 1 - (BlockEnd - nonopt_start)
     ELSE optind' = optind + 1 /\ UNCHANGED argv
  /\ parsed' = Append(parsed, [opt |-> "--", used |-> {argv[optind]}, arg |-> 0])
  /\ EndOfScan

\* place = nargv[optind], past the first dash
Fetch ==
  /\ pc = "start" /\ optind < nargc
  /\ LET a == Arg(optind) IN
       /\ ~IsNonOption(a) /\ a # [dashes |-> 2, text |-> EMSG]
       /\ place' = IF a.dashes = 2 THEN <<"-">> \o a.text
                   ELSE IF a.text = EMSG THEN <<"-">> ELSE a.text
  /\ optreset' = FALSE /\ nonopt_end' = BlockEnd /\ pc' = "option"
  /\ UNCHANGED <<orig, mode, argv, optind, nonopt_start, parsed, base, resets>>

\* The argument is just "-", an option of its own.
JustDash == Arg(optind) = [dashes |-> 1, text |-> EMSG]
TryLong == UseLong /\ ~JustDash /\ (Head(place) = "-" \/ LongOnly)
ShortToo == Head(place) # "-" /\ Head(place) \in DOMAIN ShortOptions
LongText == IF Head(place) = "-" THEN Tail(place) ELSE place

\* A long option, unless it is unknown and could be a short one.
TakeLong ==
  /\ pc = "option" /\ TryLong
  /\ ~(ShortToo /\ Match(LongName(LongText), ShortToo) = 0)
  /\ LongOption(LongText, optind, optind, ShortToo)
  /\ UNCHANGED <<orig, mode, argv, optreset, nonopt_start, nonopt_end, base, resets>>

\* if (!*place) ++optind;
After(rest) == IF rest = EMSG THEN optind + 1 ELSE optind

\* A short option.  With "W;" in the option string -W foo is --foo.
TakeShort ==
  /\ pc = "option"
  /\ TryLong => ShortToo /\ Match(LongName(LongText), ShortToo) = 0
  /\ LET c == Head(place)
         rest == Tail(place)
         known == c \in DOMAIN ShortOptions
     IN  \/ /\ ~known
            /\ place' = rest /\ optind' = After(rest) /\ Returns("?", optind, optind, 0)
         \/ /\ known /\ (ShortOptions[c] = "no" \/ (ShortOptions[c] = "long" /\ ~UseLong))
            /\ place' = rest /\ optind' = After(rest) /\ Returns(c, optind, optind, 0)
         \/ /\ known /\ ShortOptions[c] = "long" /\ UseLong
            /\ IF rest # EMSG THEN LongOption(rest, optind, optind, FALSE)
               ELSE IF optind + 1 >= nargc
                    THEN /\ place' = EMSG /\ optind' = optind + 1
                         /\ Returns("BADARG", optind, optind, 0)
                    ELSE LongOption(FullText(Arg(optind + 1)), optind + 1, optind, FALSE)
         \/ /\ known /\ ShortOptions[c] \in {"required", "optional"} /\ rest # EMSG
            /\ place' = EMSG /\ optind' = optind + 1 /\ Returns(c, optind, optind, -1)
         \/ /\ known /\ ShortOptions[c] = "optional" /\ rest = EMSG
            /\ place' = EMSG /\ optind' = optind + 1 /\ Returns(c, optind, optind, 0)
         \/ /\ known /\ ShortOptions[c] = "required" /\ rest = EMSG
            /\ place' = EMSG
            /\ IF optind + 1 >= nargc
               THEN optind' = optind + 1 /\ Returns("BADARG", optind, optind, 0)
               ELSE optind' = optind + 2 /\ Returns(c, optind, optind, Following(optind))
  /\ UNCHANGED <<orig, mode, argv, optreset, nonopt_start, nonopt_end, base, resets>>

\* The program starts over: optreset = 1 and optind = 1, or optind = 0.
Reset ==
  /\ pc \in {"caller", "done"} /\ resets < MaxResets
  /\ resets' = resets + 1
  /\ \/ optreset' = TRUE /\ optind' = 1
     \/ optind' = 0 /\ UNCHANGED optreset
  /\ pc' = "caller" /\ parsed' = <<>> /\ base' = argv
  /\ UNCHANGED <<orig, mode, argv, place, nonopt_start, nonopt_end>>

Step == Call \/ EndOfArgs \/ NonOption \/ DoubleDash \/ Fetch \/ TakeLong \/ TakeShort
Done == pc = "done" /\ UNCHANGED vars
Next == Step \/ Reset \/ Done

Spec == Init /\ [][Next]_vars

\* A call returns, and the program calls again until the scan is done.
FairSpec == Spec /\ WF_vars(Step)

-----------------------------------------------------------------------------
\* The arguments that the options of this scan consist of.
Taken == {x \in 1 .. Len(orig) :
            \E k \in DOMAIN parsed : x \in parsed[k].used \/ x = parsed[k].arg}

\* Where x is in the vector v.
PlaceIn(v, x) == CHOOSE k \in DOMAIN v : v[k] = x

(***************************************************************************)
(* When the scan ends, the options with their arguments come first and the *)
(* rest of the vector follows, each in its old order; optind is the first  *)
(* of the rest.  It holds for every function, prefix and POSIXLY_CORRECT,  *)
(* however many blocks permute_args had to exchange on the way, and no     *)
(* block is ever empty, also after a reset: gcd would divide by zero.      *)
(***************************************************************************)
StablePartition ==
  /\ TypeOK
  /\ pc = "done" =>
       /\ Len(argv) = Len(base) /\ {argv[k] : k \in DOMAIN argv} = {base[k] : k \in DOMAIN base}
       /\ \A k \in DOMAIN argv : argv[k] \in Taken <=> k < optind
       /\ \A j, k \in DOMAIN argv : j < k /\ (j < optind <=> k < optind) =>
            PlaceIn(base, argv[j]) < PlaceIn(base, argv[k])
       /\ optind = Cardinality(Taken) + 1
  /\ nonopt_end # -1 /\ pc # "done" /\ (pc = "start" \/ ~optreset) =>
       /\ nonopt_start > 0 /\ nonopt_start < nonopt_end
       /\ pc = "start" => nonopt_end < optind

(***************************************************************************)
(* The argument of an option is the element that followed it in the        *)
(* vector the program passed: no exchange ever comes between the two.      *)
(***************************************************************************)
ArgFollowsOption ==
  \A k \in DOMAIN parsed :
    parsed[k].arg > 0 /\ parsed[k].opt # "1" =>
      \E j \in 1 .. Len(base) - 1 : base[j] \in parsed[k].used /\ base[j + 1] = parsed[k].arg

(***************************************************************************)
(* A program that calls the function until it returns -1 gets there.       *)
(***************************************************************************)
Terminates == []<>(pc = "done")

=============================================================================
