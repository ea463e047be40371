------------------------------ MODULE Getdelim ------------------------------
(***************************************************************************)
(* crypto/compat/getdelim.c and getline.c: reading a record of any length. *)
(*                                                                         *)
(* The caller owns a buffer and its size and passes both again and again;  *)
(* getdelim() makes the buffer larger as characters come in.  Every        *)
(* character is a step, and every allocation may fail.  The caller         *)
(* (external) comes with no buffer and any size, or with a buffer and the  *)
(* size that it has.                                                       *)
(***************************************************************************)
EXTENDS Integers, Sequences, SequencesExt

CONSTANTS SIZE_MAX,   \* sizes are taken modulo SIZE_MAX + 1
          BUFSIZ,     \* size of the first allocation
          MaxInput    \* bound: length of the input

\* What is assumed of the constants.
GetdelimAssumption ==
  SIZE_MAX \in Nat /\ SIZE_MAX > 2 /\ BUFSIZ \in 2 .. SIZE_MAX /\ MaxInput \in Nat

VARIABLES input,    \* what is still to be read: delimiters "d" and other characters "x"
          mem,      \* *buf: the cells of the allocation, none if it is NULL
          bufsiz,   \* *bufsiz
          ptr,      \* the local ptr, as an offset
          pc, ret,
          line,     \* ghost: the characters read in this call
          overrun   \* ghost: something was stored outside the allocation

vars == <<input, mem, bufsiz, ptr, pc, ret, line, overrun>>

Chars == {"x", "d"}
NUL == "0"
Undefined == "?"

TypeOK ==
  /\ input \in Seq(Chars) /\ line \in Seq(Chars) /\ mem \in Seq(Chars \cup {NUL, Undefined})
  /\ bufsiz \in 0 .. SIZE_MAX /\ ptr \in Nat /\ pc \in {"idle", "loop"} /\ ret \in Int
  /\ overrun \in BOOLEAN

Fresh(size) == [k \in 1 .. size |-> Undefined]

Init ==
  /\ input \in BoundedSeq(Chars, MaxInput)
  /\ \/ mem = <<>> /\ bufsiz \in {0, SIZE_MAX}
     \/ \E size \in 1 .. 3 : mem = Fresh(size) /\ bufsiz = size
  /\ ptr = 0 /\ pc = "idle" /\ ret = -1 /\ line = <<>> /\ overrun = FALSE

-----------------------------------------------------------------------------
\* realloc(*buf, size) that succeeds: the cells there were are kept.
realloc(m, size) == [k \in 1 .. size |-> IF k <= Len(m) THEN m[k] ELSE Undefined]

Put(m, at, c) == IF at < Len(m) THEN [m EXCEPT ![at + 1] = c] ELSE m
Outside(m, at) == at >= Len(m)

Return(r) == pc' = "idle" /\ ret' = r

\* The buffer is replaced if there is none or it has no room for a character and its end.
getdelim ==
  /\ pc = "idle" /\ line' = <<>> /\ ptr' = 0
  /\ \/ /\ mem = <<>> \/ bufsiz < 2
        /\ mem' = realloc(mem, BUFSIZ) /\ bufsiz' = BUFSIZ
        /\ pc' = "loop" /\ UNCHANGED ret
     \/ /\ mem = <<>> \/ bufsiz < 2
        /\ Return(-1) /\ UNCHANGED <<mem, bufsiz>>
     \/ mem # <<>> /\ bufsiz >= 2 /\ pc' = "loop" /\ UNCHANGED <<mem, bufsiz, ret>>
  /\ UNCHANGED <<input, overrun>>

\* fgetc() returns -1: at the end of the file a record without delimiter is a record, and
\* what was read before an error is dropped.
EndOfInput ==
  /\ pc = "loop"
  /\ \/ /\ input = <<>> /\ ptr # 0
        /\ mem' = Put(mem, ptr, NUL) /\ overrun' = (overrun \/ Outside(mem, ptr))
        /\ Return(ptr)
     \/ (input # <<>> \/ ptr = 0) /\ Return(-1) /\ UNCHANGED <<mem, overrun>>
  /\ UNCHANGED <<input, bufsiz, ptr, line>>

\* A mutation: room for one more character is taken to be enough.
FullLate(p) == p + 1 > bufsiz

\* if (ptr + 2 >= eptr)
Full(p) == p + 2 >= bufsiz

\* *ptr++ = c
Character ==
  LET c == Head(input)
      m == Put(mem, ptr, c)
      p == ptr + 1
      doubled == (bufsiz * 2) % (SIZE_MAX + 1)
  IN
    /\ pc = "loop" /\ input # <<>>
    /\ input' = Tail(input) /\ line' = Append(line, c) /\ ptr' = p
    /\ \/ /\ c = "d"
          /\ mem' = Put(m, p, NUL) /\ overrun' = (overrun \/ Outside(mem, ptr) \/ Outside(m, p))
          /\ Return(p) /\ UNCHANGED bufsiz
       \/ /\ c # "d" /\ overrun' = (overrun \/ Outside(mem, ptr))
          /\ \/ ~Full(p) /\ mem' = m /\ UNCHANGED <<bufsiz, pc, ret>>
             \/ Full(p) /\ mem' = m /\ Return(-1) /\ UNCHANGED bufsiz  \* EOVERFLOW or no memory
             \/ /\ Full(p) /\ bufsiz <= SIZE_MAX \div 2
                /\ mem' = realloc(m, doubled) /\ bufsiz' = doubled
                /\ UNCHANGED <<pc, ret>>

Next == getdelim \/ EndOfInput \/ Character

Spec == Init /\ [][Next]_vars

-----------------------------------------------------------------------------
(***************************************************************************)
(* getdelim never stores outside the buffer, whatever its size at the      *)
(* call, the caller's size is that of the caller's buffer also after a     *)
(* failed allocation, and a result of n means that the first n cells are   *)
(* the next record, with its delimiter, and a NUL follows.                 *)
(***************************************************************************)
LinesExact ==
  /\ TypeOK /\ ~overrun
  /\ mem # <<>> => bufsiz = Len(mem)
  /\ pc = "idle" /\ ret >= 0 =>
       /\ ret = Len(line) /\ SubSeq(mem, 1, ret) = line /\ mem[ret + 1] = NUL
       /\ line[ret] = "d" \/ input = <<>>
       /\ \A k \in 1 .. ret - 1 : line[k] = "x"

=============================================================================
