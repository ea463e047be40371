----------------------------- MODULE FileOffset -----------------------------
(***************************************************************************)
(* tls/compat/pread.c and pwrite.c: positioned reads and writes on         *)
(* Windows, made of lseek(), read() or write(), and lseek() back.          *)
(*                                                                         *)
(* Every call of the C runtime is a step and may fail.  The program        *)
(* (external) uses an open file from one thread at a time: between the two *)
(* lseek() calls the offset is wrong, and another thread that used the     *)
(* same open file would meet it there.  A number that posix_open() tagged  *)
(* is not one of the C runtime's: get_real_fd() is not called here, so the *)
(* first lseek() refuses it.                                               *)
(***************************************************************************)
EXTENDS Integers, Sequences

CONSTANTS Threads, Fds, Bytes, Errors, MaxLen,
          Tagged      \* descriptors that came from posix_open

VARIABLES file, offset, call, ret,
          pc,     \* idle, cur, set, transfer, back
          cpos,   \* the local of that name
          bytes,  \* the local: what read() or write() returned
          errno,  \* of each thread; save_errno is the error in bytes
          stuck   \* ghost: the files whose lseek() back has failed

vars == <<file, offset, call, ret, pc, cpos, bytes, errno, stuck>>

\* The promise, over the same files and calls.  During a call the offset to be is in cpos.
Pos(d) ==
  LET users == {t \in Threads : call[t].op # "none" /\ call[t].fd = d /\ pc[t] \in {"transfer", "back"}}
  IN  IF users = {} THEN offset[d] ELSE cpos[CHOOSE t \in users : TRUE]

Abstract == INSTANCE PositionedFile WITH pos <- [d \in Fds |-> Pos(d)], outcome <- bytes

FileAssumption == Abstract!FileAssumption
NoCall == Abstract!NoCall
Pending == Abstract!Pending
Failed(e) == Abstract!Failed(e)

TypeOK ==
  /\ file \in [Fds -> Seq(Bytes)] /\ offset \in [Fds -> Nat]
  /\ call \in [Threads -> Abstract!Requests \cup {NoCall}]
  /\ pc \in [Threads -> {"idle", "cur", "set", "transfer", "back"}]
  /\ cpos \in [Threads -> Nat] /\ stuck \subseteq Fds /\ errno \in [Threads -> Errors \cup {"none"}]

Init ==
  /\ file = [d \in Fds |-> <<>>] /\ offset = [d \in Fds |-> 0]
  /\ call = [t \in Threads |-> NoCall]
  /\ bytes = [t \in Threads |-> Pending] /\ ret = [t \in Threads |-> Pending]
  /\ pc = [t \in Threads |-> "idle"] /\ cpos = [t \in Threads |-> 0]
  /\ errno = [t \in Threads |-> "none"] /\ stuck = {}

-----------------------------------------------------------------------------
\* A call of the C runtime by t that fails with some error.
Fails(t) == \E e \in Errors : errno' = [errno EXCEPT ![t] = e]

\* One that succeeds leaves errno undefined.
Succeeds(t) == \E e \in Errors \cup {errno[t]} : errno' = [errno EXCEPT ![t] = e]

Goto(t, from, to) == pc[t] = from /\ pc' = [pc EXCEPT ![t] = to]

\* return -1
GiveUp(t, from) ==
  /\ Goto(t, from, "idle") /\ Fails(t)
  /\ Abstract!End(t, Failed(errno'[t]))

pread_pwrite(t) ==
  /\ Goto(t, "idle", "cur")
  /\ \E r \in Abstract!Requests : /\ ~Abstract!Busy(r.fd)
                                 /\ call' = [call EXCEPT ![t] = r]
                                 /\ ret' = [ret EXCEPT ![t] = Pending]
  /\ UNCHANGED <<file, offset, cpos, bytes, errno, stuck>>

\* lseek(d, 0, SEEK_CUR)
SeekCur(t) ==
  /\ \/ /\ Goto(t, "cur", "set") /\ call[t].fd \notin Tagged /\ Succeeds(t)
        /\ cpos' = [cpos EXCEPT ![t] = offset[call[t].fd]]
        /\ UNCHANGED <<call, bytes, ret>>
     \/ GiveUp(t, "cur") /\ UNCHANGED cpos
  /\ UNCHANGED <<file, offset, stuck>>

\* lseek(d, offset, SEEK_SET), which refuses a negative offset
SeekSet(t) ==
  /\ \/ /\ Goto(t, "set", "transfer") /\ call[t].at >= 0 /\ Succeeds(t)
        /\ offset' = [offset EXCEPT ![call[t].fd] = call[t].at]
        /\ UNCHANGED <<call, bytes, ret>>
     \/ GiveUp(t, "set") /\ UNCHANGED offset
  /\ UNCHANGED <<file, cpos, stuck>>

\* read() and write() act at the offset and move it.
MovesBy(d, n) == offset' = [offset EXCEPT ![d] = @ + n]

CrtRead(d, n) == MovesBy(d, Len(Abstract!ReadAt(file[d], offset[d], n))) /\ UNCHANGED file

CrtWrite(d, v) ==
  /\ file' = [file EXCEPT ![d] = Abstract!WriteAt(@, offset[d], v)]
  /\ MovesBy(d, 1)

\* bytes = read(...); save_errno = errno
Transfer(t) ==
  LET r == call[t] IN
    /\ Goto(t, "transfer", "back")
    /\ \/ /\ r.op = "pread" /\ Succeeds(t) /\ CrtRead(r.fd, r.arg)
          /\ LET s == Abstract!ReadAt(file[r.fd], offset[r.fd], r.arg)
             IN  bytes' = [bytes EXCEPT ![t] = Abstract!Done(s, Len(s))]
       \/ /\ r.op = "pwrite" /\ Succeeds(t) /\ CrtWrite(r.fd, r.arg)
          /\ bytes' = [bytes EXCEPT ![t] = Abstract!Done(<<>>, 1)]
       \/ /\ Fails(t) /\ bytes' = [bytes EXCEPT ![t] = Failed(errno'[t])]
          /\ UNCHANGED <<file, offset>>
    /\ UNCHANGED <<call, ret, cpos, stuck>>

\* What the caller is told: bytes, and errno where that is -1.
Told(t) == IF bytes[t].n = -1 THEN [bytes[t] EXCEPT !.err = errno'[t]] ELSE bytes[t]

\* A mutation: a transfer that failed is reported at once, the offset not restored.
SeekBackIfDone(t) ==
  /\ Goto(t, "back", "idle") /\ errno' = [errno EXCEPT ![t] = bytes[t].err]
  /\ Abstract!End(t, Told(t))
  /\ offset' = IF bytes[t].n = -1 THEN offset ELSE [offset EXCEPT ![call[t].fd] = cpos[t]]
  /\ UNCHANGED <<file, cpos, stuck>>

\* A mutation: errno is what lseek() has made of it.
SeekBackErrno(t) ==
  /\ Goto(t, "back", "idle") /\ Succeeds(t)
  /\ Abstract!End(t, Told(t))
  /\ offset' = [offset EXCEPT ![call[t].fd] = cpos[t]]
  /\ UNCHANGED <<file, cpos, stuck>>

\* lseek(d, cpos, SEEK_SET); errno = save_errno; return bytes
SeekBack(t) ==
  /\ \/ /\ Goto(t, "back", "idle") /\ errno' = [errno EXCEPT ![t] = bytes[t].err]
        /\ Abstract!End(t, Told(t))
        /\ offset' = [offset EXCEPT ![call[t].fd] = cpos[t]] /\ UNCHANGED stuck
     \/ GiveUp(t, "back") /\ stuck' = stuck \cup {call[t].fd} /\ UNCHANGED offset
  /\ UNCHANGED <<file, cpos>>

\* The program's own read(), write() and lseek().
Sequential(d) ==
  /\ ~Abstract!Busy(d) /\ d \notin Tagged
  /\ \/ \E n \in 1 .. 2 : CrtRead(d, n)
     \/ offset[d] < MaxLen /\ \E v \in Bytes : CrtWrite(d, v)
     \/ (\E k \in 0 .. MaxLen : offset' = [offset EXCEPT ![d] = k]) /\ UNCHANGED file
  /\ UNCHANGED <<call, ret, pc, cpos, bytes, errno, stuck>>

Next ==
  \/ \E t \in Threads : \/ pread_pwrite(t) \/ SeekCur(t) \/ SeekSet(t) \/ Transfer(t)
                        \/ SeekBack(t)
  \/ \E d \in Fds : Sequential(d)

Spec == Init /\ [][Next]_vars

-----------------------------------------------------------------------------
(***************************************************************************)
(* pread and pwrite implement positioned transfers: what is read or        *)
(* written is at the offset of the call, errno is the transfer's own, and  *)
(* the offset that the program's read() and write() go on from is theirs,  *)
(* whichever of the four calls fails; only a failure of the last may lose  *)
(* it, and that is not passed over in silence.                             *)
(***************************************************************************)
ImplementsPositioned == Abstract!Spec /\ []TypeOK

=============================================================================
