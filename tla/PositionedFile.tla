--------------------------- MODULE PositionedFile ---------------------------
(***************************************************************************)
(* What pread() and pwrite() promise: the transfer happens at once, at the *)
(* offset of the call, and the offset of the open file stays where read(), *)
(* write() and lseek() have left it, whether the call succeeds or not.     *)
(*                                                                         *)
(* A call that reports a failure may have made its transfer (the error     *)
(* came afterwards).  The offset is lost only if the file refuses to seek  *)
(* back to it, never because the transfer failed, and the call says -1.    *)
(***************************************************************************)
EXTENDS Integers, Sequences

CONSTANTS Threads, Fds,
          Bytes,      \* values of a byte, 0 among them
          Errors,     \* values of errno
          MaxLen      \* bound: length of a file

\* What is assumed of the constants.
FileAssumption == 0 \in Bytes /\ Bytes \subseteq Nat /\ MaxLen \in Nat /\ Errors # {}

VARIABLES file,     \* the content of each open file
          pos,      \* its offset
          call,     \* what each thread asked for, or NoCall
          outcome,  \* what happened to its transfer, or Pending
          ret,      \* what its last call returned
          stuck     \* the open files that have refused to seek back

vars == <<file, pos, call, outcome, ret, stuck>>

NoCall == [op |-> "none", fd |-> 0, at |-> 0, arg |-> 0]
Pending == [bytes |-> <<>>, n |-> -2, err |-> "none"]

\* A transfer that moved n bytes, those read among them; one that failed.
Done(s, n) == [bytes |-> s, n |-> n, err |-> "none"]
Failed(e) == [bytes |-> <<>>, n |-> -1, err |-> e]

Smaller(a, b) == IF a < b THEN a ELSE b

\* The bytes that a transfer of n at offset k meets.
ReadAt(s, k, n) == SubSeq(s, k + 1, Smaller(Len(s), k + n))

\* One byte written at offset k; a gap before it reads as zero.
WriteAt(s, k, v) ==
  [i \in 1 .. (IF k < Len(s) THEN Len(s) ELSE k + 1) |->
     IF i = k + 1 THEN v ELSE IF i <= Len(s) THEN s[i] ELSE 0]

Requests ==
  [op : {"pread"}, fd : Fds, at : -1 .. MaxLen, arg : 1 .. 2]
    \cup [op : {"pwrite"}, fd : Fds, at : -1 .. MaxLen - 1, arg : Bytes]

Busy(d) == \E t \in Threads : call[t] # NoCall /\ call[t].fd = d

Init ==
  /\ file = [d \in Fds |-> <<>>] /\ pos = [d \in Fds |-> 0]
  /\ call = [t \in Threads |-> NoCall]
  /\ outcome = [t \in Threads |-> Pending]
  /\ ret = [t \in Threads |-> Pending] /\ stuck = {}

Begin(t, r) ==
  /\ call[t] = NoCall /\ call' = [call EXCEPT ![t] = r]
  /\ ret' = [ret EXCEPT ![t] = Pending]
  /\ UNCHANGED <<file, pos, outcome, stuck>>

Transfer(t) ==
  LET r == call[t] IN
    /\ r # NoCall /\ outcome[t] = Pending
    /\ \/ /\ r.op = "pread" /\ r.at >= 0
          /\ LET s == ReadAt(file[r.fd], r.at, r.arg)
             IN  outcome' = [outcome EXCEPT ![t] = Done(s, Len(s))]
          /\ UNCHANGED file
       \/ /\ r.op = "pwrite" /\ r.at >= 0
          /\ file' = [file EXCEPT ![r.fd] = WriteAt(@, r.at, r.arg)]
          /\ outcome' = [outcome EXCEPT ![t] = Done(<<>>, 1)]
       \/ /\ \E e \in Errors : outcome' = [outcome EXCEPT ![t] = Failed(e)]
          /\ UNCHANGED file
    /\ UNCHANGED <<pos, call, ret, stuck>>

End(t, r) ==
  /\ call' = [call EXCEPT ![t] = NoCall]
  /\ outcome' = [outcome EXCEPT ![t] = Pending]
  /\ ret' = [ret EXCEPT ![t] = r]

Return(t) ==
  /\ outcome[t] # Pending
  /\ End(t, outcome[t])
  /\ UNCHANGED <<file, pos, stuck>>

\* -1 before anything has happened.
Refuse(t) ==
  /\ call[t] # NoCall /\ outcome[t] = Pending
  /\ \E e \in Errors : End(t, Failed(e))
  /\ UNCHANGED <<file, pos, stuck>>

\* -1: the file has refused to seek back, and the offset is somewhere else.
ReturnLost(t) ==
  /\ outcome[t] # Pending
  /\ \E e \in Errors : End(t, Failed(e))
  /\ \E k \in 0 .. MaxLen + 2 : pos' = [pos EXCEPT ![call[t].fd] = k]
  /\ stuck' = stuck \cup {call[t].fd}
  /\ UNCHANGED file

\* read(), write() and lseek(), which move the offset; never during a pread() or pwrite() on
\* the same open file.
Sequential(d) ==
  /\ ~Busy(d)
  /\ \/ \E n \in 1 .. 2 : /\ pos' = [pos EXCEPT ![d] = @ + Len(ReadAt(file[d], @, n))]
                          /\ UNCHANGED file
     \/ \E v \in Bytes : /\ pos[d] < MaxLen
                         /\ file' = [file EXCEPT ![d] = WriteAt(@, pos[d], v)]
                         /\ pos' = [pos EXCEPT ![d] = @ + 1]
     \/ \E k \in 0 .. MaxLen : pos' = [pos EXCEPT ![d] = k] /\ UNCHANGED file
  /\ UNCHANGED <<call, outcome, ret, stuck>>

Next ==
  \/ \E t \in Threads : \/ \E r \in Requests : Begin(t, r)
                        \/ Transfer(t) \/ Return(t) \/ Refuse(t) \/ ReturnLost(t)
  \/ \E d \in Fds : Sequential(d)

Spec == Init /\ [][Next]_vars

=============================================================================
