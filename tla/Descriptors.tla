---------------------------- MODULE Descriptors ----------------------------
(***************************************************************************)
(* crypto/compat/posix_win.c and tests/compat/socketpair.c, pipe2.c:       *)
(* descriptors on Windows.                                                 *)
(*                                                                         *)
(* The C runtime (CRT) numbers its files from 0, Winsock hands out handles *)
(* of its own, and the same number may occur in both.  posix_open() sets   *)
(* the high bit of the files it opens; mkstemp() hands out the CRT's       *)
(* number as it is.  One thread is in socketpair() while others open,      *)
(* close and use files and sockets, and another process may connect to the *)
(* listening port.                                                         *)
(***************************************************************************)
EXTENDS Integers, Sequences, FiniteSets, FiniteSetsExt

CONSTANTS High,      \* 0x80000000: an int is in -High .. High - 1
          Slots,     \* size of the CRT's table of descriptors
          Handles,   \* what Winsock may hand out
          MaxFiles,  \* bound: files of the program, open at once
          MaxCalls   \* bound: calls of socketpair

ASSUME DescriptorsAssumption ==
  /\ High \in Nat /\ Slots \in 4 .. High /\ Handles \subseteq 3 .. High - 1
  /\ MaxFiles \in Nat /\ MaxCalls \in Nat

VARIABLES crt,        \* the CRT's table: free, file, raw (a file from mkstemp), sentinel
          socks,      \* open sockets
          peer,       \* during a call: who is at the other end of a socket
          held,       \* descriptors of the program, with what each was handed out for
          pc, listener, socket_vector, wantFlags,  \* the call of socketpair
          queue,      \* connections that wait at the listening port
          stack,      \* the fd of each frame of create_issue_1069_sentinels
          reserved,   \* ghost: socket numbers that sentinels keep from the CRT
          calls

call == <<pc, listener, socket_vector, wantFlags, queue, stack, calls>>
vars == <<crt, socks, peer, held, pc, listener, socket_vector, wantFlags, queue, stack,
          reserved, calls>>

None == -1
Foreign == -2  \* a process that is not ours
Fds == 0 .. Slots - 1
Objects == {<<"crt", n>> : n \in 0 .. High - 1} \cup {<<"sock", n>> : n \in -High .. High - 1}
A == socket_vector[1]
B == socket_vector[2]
Mine == {listener, A, B} \ {None}

TypeOK ==
  /\ crt \in [Fds -> {"free", "file", "raw", "sentinel"}]
  /\ socks \subseteq Handles /\ peer \in [Handles -> Handles \cup {None, Foreign}]
  /\ held \subseteq (-High .. High - 1) \X Objects
  /\ pc \in {"idle", "listener", "bind", "first", "connect", "accept", "check", "err",
             "sentinels", "unwind", "flags"}
  /\ listener \in Handles \cup {None} /\ socket_vector \in (Handles \cup {None}) \X (Handles \cup {None})
  /\ wantFlags \in BOOLEAN /\ queue \in Seq(Handles \cup {Foreign}) /\ stack \in Seq(Fds)
  /\ reserved \subseteq Handles /\ calls \in 0 .. MaxCalls

\* Standard input, output and error are open.
Init ==
  /\ crt = [n \in Fds |-> IF n < 3 THEN "file" ELSE "free"]
  /\ socks = {} /\ peer = [h \in Handles |-> None]
  /\ held = {<<n, <<"crt", n>>>> : n \in 0 .. 2}
  /\ pc = "idle" /\ listener = None /\ socket_vector = <<None, None>> /\ wantFlags = FALSE
  /\ queue = <<>> /\ stack = <<>> /\ reserved = {} /\ calls = 0

-----------------------------------------------------------------------------
\* posix_win.c

\* Below 3, or with the high bit set (a negative int): a file.
is_socket(fd) == fd >= 3

\* fd & 0x7fffffff
get_real_fd(fd) == fd % High

\* fh + 0x80000000, converted to int
Tag(fh) == fh - High

\* What posix_close, posix_read and posix_write act on; posix_getsockopt and posix_setsockopt
\* do nothing to a file; fdopen, fstat and ftruncate are called with files.
Reached(fd) == IF is_socket(fd) THEN <<"sock", fd>> ELSE <<"crt", get_real_fd(fd)>>

FreeFds == {n \in Fds : crt[n] = "free"}
Opened(n, what) == crt' = [crt EXCEPT ![n] = what]
FilesOpen == Cardinality({n \in 3 .. Slots - 1 : crt[n] \in {"file", "raw"}})

\* The CRT hands out the lowest free number.
posix_open ==
  /\ FilesOpen < MaxFiles /\ FreeFds # {}
  /\ LET fh == Min(FreeFds)
     IN  Opened(fh, "file") /\ held' = held \cup {<<Tag(fh), <<"crt", fh>>>>}
  /\ UNCHANGED <<socks, peer, call, reserved>>

\* Files compiled without the redefinition of open() get and use the CRT's number.
mkstemp ==
  /\ FilesOpen < MaxFiles /\ FreeFds # {}
  /\ Opened(Min(FreeFds), "raw")
  /\ UNCHANGED <<socks, peer, held, call, reserved>>

RawClose ==
  /\ \E n \in Fds : crt[n] = "raw" /\ Opened(n, "free")
  /\ UNCHANGED <<socks, peer, held, call, reserved>>

socket ==
  /\ Cardinality({d \in held : d[2][1] = "sock"}) = 0
  /\ \E h \in Handles \ socks :
       /\ socks' = socks \cup {h}
       /\ held' = held \cup {<<h, <<"sock", h>>>>}
       /\ reserved' = reserved \ {h}
  /\ UNCHANGED <<crt, peer, call>>

\* What closesocket(h) and close(n) do to the tables.
Close(objects) ==
  /\ socks' = {h \in socks : <<"sock", h>> \notin objects}
  /\ crt' = [n \in Fds |-> IF <<"crt", n>> \in objects THEN "free" ELSE crt[n]]

posix_close(d) ==
  /\ d[1] \notin 0 .. 2
  /\ Close({Reached(d[1])})
  /\ held' = held \ {d}
  /\ UNCHANGED <<peer, call, reserved>>

-----------------------------------------------------------------------------
\* socketpair.c: one step per call that may fail or meet another thread

Goto(from, to) == pc = from /\ pc' = to

\* bsd_socketpair and bsd_pipe2 call socketpair, then set the flags that were asked for.
bsd_socketpair ==
  /\ Goto("idle", "listener") /\ calls < MaxCalls /\ calls' = calls + 1
  /\ socket_vector' = <<None, None>> /\ listener' = None /\ wantFlags' \in BOOLEAN
  /\ UNCHANGED <<crt, socks, peer, held, queue, stack, reserved>>

NewSocket(h, other) ==
  /\ h \in Handles \ socks
  /\ socks' = socks \cup {h} /\ peer' = [peer EXCEPT ![h] = other]
  /\ reserved' = reserved \ {h}

CreateListener ==
  /\ \/ /\ Goto("listener", "bind")
        /\ \E h \in Handles : NewSocket(h, None) /\ listener' = h
     \/ Goto("listener", "idle") /\ UNCHANGED <<socks, peer, reserved, listener>>
  /\ UNCHANGED <<crt, held, socket_vector, wantFlags, queue, stack, calls>>

\* setsockopt(SO_EXCLUSIVEADDRUSE), bind, getsockname, listen
Bind ==
  /\ Goto("bind", "first") \/ Goto("bind", "err")
  /\ UNCHANGED <<crt, socks, peer, held, listener, socket_vector, wantFlags, queue, stack,
                 reserved, calls>>

\* WSASocket
CreateFirst ==
  /\ \/ /\ Goto("first", "connect")
        /\ \E h \in Handles : NewSocket(h, None) /\ socket_vector' = <<h, None>>
     \/ Goto("first", "err") /\ UNCHANGED <<socks, peer, reserved, socket_vector>>
  /\ UNCHANGED <<crt, held, listener, wantFlags, queue, stack, calls>>

\* Another process connects to the listening port; the backlog is 1.
ForeignConnect ==
  /\ pc \in {"first", "connect", "accept"} /\ Len(queue) < 2
  /\ queue' = Append(queue, Foreign)
  /\ UNCHANGED <<crt, socks, peer, held, pc, listener, socket_vector, wantFlags, stack,
                 reserved, calls>>

\* A mutation: a connection that could not be made is waited for.
ConnectFailedOn == "accept"

\* goto err
ConnectFailed == "err"

Connect ==
  /\ \/ Goto("connect", "accept") /\ Len(queue) < 2 /\ queue' = Append(queue, A)
     \/ Goto("connect", ConnectFailed) /\ UNCHANGED queue
  /\ UNCHANGED <<crt, socks, peer, held, listener, socket_vector, wantFlags, stack, reserved,
                 calls>>

\* Blocks until a connection waits.
Accept ==
  /\ queue # <<>>
  /\ \/ /\ Goto("accept", "check")
        /\ \E h \in Handles : NewSocket(h, Head(queue)) /\ socket_vector' = <<A, h>>
        /\ queue' = Tail(queue)
     \/ Goto("accept", "err") /\ UNCHANGED <<socks, peer, reserved, socket_vector, queue>>
  /\ UNCHANGED <<crt, held, listener, wantFlags, stack, calls>>

\* getsockname of the first and getpeername of the second agree.
SamePeer == peer[B] = A

CheckPeer ==
  /\ \/ /\ Goto("check", "sentinels") /\ SamePeer
        /\ Close({<<"sock", listener>>})
        /\ queue' = <<>> /\ listener' = None
     \/ Goto("check", "err") /\ UNCHANGED <<crt, socks, queue, listener>>
  /\ UNCHANGED <<peer, held, socket_vector, wantFlags, stack, reserved, calls>>

\* A mutation: the accepted socket is forgotten.
ErrClosesOne == {<<"sock", listener>>, <<"sock", A>>}

\* closesocket(-1) does nothing.
ErrCloses == {<<"sock", h>> : h \in Mine}

Err ==
  /\ Goto("err", "idle")
  /\ Close(ErrCloses)
  /\ listener' = None /\ socket_vector' = <<None, None>> /\ queue' = <<>>
  /\ peer' = [h \in Handles |-> None] /\ wantFlags' = FALSE
  /\ UNCHANGED <<held, stack, reserved, calls>>

Beyond(fd) == fd > A /\ fd > B

\* Going down: _open("CONIN$") fails, or reaches beyond the sockets (that one stays open),
\* or another frame is entered.
SentinelOpen ==
  /\ pc = "sentinels"
  /\ \/ pc' = "unwind" /\ UNCHANGED <<crt, stack, reserved>>
     \/ /\ FreeFds # {}
        /\ LET fd == Min(FreeFds) IN
             /\ Opened(fd, "sentinel")
             /\ \/ /\ Beyond(fd) /\ pc' = "unwind" /\ UNCHANGED stack
                   /\ reserved' = reserved \cup {h \in {A, B} \cap Fds :
                                                   crt[h] \notin {"file", "raw"}}
                \/ ~Beyond(fd) /\ stack' = Append(stack, fd) /\ UNCHANGED <<pc, reserved>>
  /\ UNCHANGED <<socks, peer, held, listener, socket_vector, wantFlags, queue, calls>>

\* A mutation: the sentinel that has the number of the second socket goes too.
KeepsFirst(fd) == fd = A

Keeps(fd) == fd \in {A, B}

\* Coming back: every frame closes its descriptor, unless it conflicts.
SentinelReturn ==
  /\ pc = "unwind" /\ stack # <<>>
  /\ LET fd == stack[Len(stack)]
     IN  crt' = IF Keeps(fd) THEN crt ELSE [crt EXCEPT ![fd] = "free"]
  /\ stack' = SubSeq(stack, 1, Len(stack) - 1)
  /\ UNCHANGED <<socks, peer, held, pc, listener, socket_vector, wantFlags, queue, reserved,
                 calls>>

SentinelsDone ==
  /\ Goto("unwind", "flags") /\ stack = <<>>
  /\ UNCHANGED <<crt, socks, peer, held, listener, socket_vector, wantFlags, queue, stack,
                 reserved, calls>>

\* setfl and setfd on both sockets; on failure both are closed with posix_close.
SetFlags ==
  /\ Goto("flags", "idle")
  /\ \/ /\ held' = held \cup {<<h, <<"sock", h>>>> : h \in {A, B}}
        /\ UNCHANGED <<crt, socks>>
     \/ /\ wantFlags
        /\ Close({Reached(A), Reached(B)})
        /\ UNCHANGED held
  /\ socket_vector' = <<None, None>> /\ wantFlags' = FALSE
  /\ peer' = [h \in Handles |-> None]
  /\ UNCHANGED <<listener, queue, stack, reserved, calls>>

Pair == \/ CreateListener \/ Bind \/ CreateFirst \/ Connect \/ Accept \/ CheckPeer \/ Err
        \/ SentinelOpen \/ SentinelReturn \/ SentinelsDone \/ SetFlags

Next ==
  \/ posix_open \/ mkstemp \/ RawClose \/ socket
  \/ \E d \in held : posix_close(d)
  \/ bsd_socketpair \/ Pair \/ ForeignConnect

Spec == Init /\ [][Next]_vars

\* The thread in socketpair() runs on: its own connection is waiting when it accepts.
FairSpec == Spec /\ WF_vars(Pair)

-----------------------------------------------------------------------------
(***************************************************************************)
(* Closing, reading or writing a descriptor acts on the file or socket it  *)
(* was handed out for, although the two kinds share numbers.  A call of    *)
(* socketpair or pipe2 that fails at any step leaves no socket behind and  *)
(* closes none that is not its own: every open socket or file is one that  *)
(* the program has a descriptor for, and the other way round.  The two     *)
(* sockets that are handed to the caller are each other's peer, also when  *)
(* another process connected to the port first.                            *)
(***************************************************************************)
NothingLost ==
  LET handed(kind) == {d[2] : d \in {e \in held : e[2][1] = kind}} IN
    /\ TypeOK
    /\ \A d \in held : Reached(d[1]) = d[2]
    /\ {<<"sock", h>> : h \in socks} = handed("sock") \cup {<<"sock", h>> : h \in Mine}
    /\ {<<"crt", n>> : n \in {k \in Fds : crt[k] = "file"}} = handed("crt")
    /\ pc = "flags" => peer[B] = A

(***************************************************************************)
(* Once the sentinels have reached beyond the sockets, no file opened      *)
(* later gets the number of one of them, whatever other threads opened and *)
(* closed meanwhile, unless a file of the program had the number before.   *)
(***************************************************************************)
NumbersReserved == \A h \in reserved \cap socks : crt[h] = "sentinel"

(***************************************************************************)
(* socketpair returns: it never waits for a connection that was not made,  *)
(* and the sentinels do not go on opening for ever.                        *)
(***************************************************************************)
PairReturns == pc # "idle" ~> pc = "idle"

=============================================================================
