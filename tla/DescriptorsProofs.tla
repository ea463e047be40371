------------------------- MODULE DescriptorsProofs -------------------------
(***************************************************************************)
(* Proofs that descriptors on Windows (crypto/compat/posix_win.c, and      *)
(* tests/compat/socketpair.c and pipe2.c on top of it) reach what they     *)
(* were handed out for, that socketpair() loses nothing at whatever step   *)
(* it fails, and that its sentinels keep the numbers of its sockets from   *)
(* the C runtime: for any size of the table and any handles.               *)
(***************************************************************************)
EXTENDS Descriptors, SequenceTheorems, WellFoundedInduction, TLAPS

\* The descriptors the program has for a socket and for a file.
SockD(h) == <<h, <<"sock", h>>>>
FileD(n) == <<IF n < 3 THEN n ELSE Tag(n), <<"crt", n>>>>

\* What is open is the program's or, a socket only, the call's, and never both.
HeldInv ==
  /\ \A d \in held : (\E h \in Handles : d = SockD(h)) \/ (\E n \in Fds : d = FileD(n))
  /\ \A h \in Handles : h \in socks <=> SockD(h) \in held \/ h \in Mine
  /\ \A h \in Mine : SockD(h) \notin held
  /\ \A n \in Fds : crt[n] = "file" <=> FileD(n) \in held
  /\ \A n \in 0 .. 2 : crt[n] = "file"

\* Which sockets the call of socketpair() has, step by step.
CallInv ==
  /\ pc \in {"idle", "listener"} => listener = None /\ A = None /\ B = None
  /\ pc \in {"bind", "first"} => listener # None /\ A = None /\ B = None
  /\ pc \in {"connect", "accept"} => listener # None /\ A # None /\ B = None
  /\ pc = "check" => listener # None /\ A # None /\ B # None
  /\ pc \in {"sentinels", "unwind", "flags"} =>
       listener = None /\ A # None /\ B # None /\ peer[B] = A
  /\ listener # None => listener # A /\ listener # B
  /\ A # None => A # B

\* The frames of create_issue_1069_sentinels() have sentinels, each one of its own; a reserved
\* number has a sentinel that no frame will close.
SentinelInv ==
  /\ pc \notin {"sentinels", "unwind"} => stack = <<>>
  /\ \A k \in 1 .. Len(stack) : crt[stack[k]] = "sentinel"
  /\ \A k, l \in 1 .. Len(stack) : stack[k] = stack[l] => k = l
  /\ \A h \in reserved : h \in Fds /\ crt[h] = "sentinel"
  /\ \A h \in reserved : \A k \in 1 .. Len(stack) : stack[k] = h => h \in {A, B}

IInv == TypeOK /\ HeldInv /\ CallInv /\ SentinelInv

-----------------------------------------------------------------------------
\* The numbers in order.
Below == {p \in Nat \X Nat : p[1] < p[2]}

\* The lowest number of a set is a member of it: what the C runtime hands out.
LEMMA LeastNatural ==
  ASSUME NEW S \in SUBSET Nat, S # {}
  PROVE  Min(S) \in S /\ \A y \in S : Min(S) <= y
  <1>1. IsWellFoundedOn(Below, Nat)
    BY NatLessThanWellFounded DEF OpToRel, Below
  <1>2. PICK x \in S : \A y \in S : ~(<<y, x>> \in Below)
    BY <1>1, WFMin
  <1>3. ASSUME NEW y \in S PROVE x <= y
    <2>1. x \in Nat /\ y \in Nat /\ ~(<<y, x>> \in Below)
      BY <1>2
    <2>2. ~(y < x)
      BY <2>1 DEF Below
    <2> QED
      BY <2>1, <2>2
  <1> QED
    BY <1>3 DEF Min

\* Different objects have different descriptors, and a descriptor reaches its object.
LEMMA Names ==
  /\ \A h, k : SockD(h) = SockD(k) => h = k
  /\ \A n, m : FileD(n) = FileD(m) => n = m
  /\ \A h, n : SockD(h) # FileD(n)
  BY DEF SockD, FileD

\* The high bit is taken off again; a socket's handle is not taken for a file.
LEMMA Reaching ==
  /\ \A h \in Handles :
       SockD(h) \in (-High .. High - 1) \X Objects /\ Reached(SockD(h)[1]) = <<"sock", h>>
  /\ \A n \in Fds :
       FileD(n) \in (-High .. High - 1) \X Objects /\ Reached(FileD(n)[1]) = <<"crt", n>>
  <1> USE DescriptorsAssumption
  <1>1. ASSUME NEW h \in Handles
        PROVE  SockD(h) \in (-High .. High - 1) \X Objects /\ Reached(SockD(h)[1]) = <<"sock", h>>
    <2>1. h \in -High .. High - 1 /\ h >= 3
      OBVIOUS
    <2> QED
      BY <2>1 DEF SockD, Objects, Reached, is_socket
  <1>2. ASSUME NEW n \in Fds
        PROVE  FileD(n) \in (-High .. High - 1) \X Objects /\ Reached(FileD(n)[1]) = <<"crt", n>>
    <2>1. n \in 0 .. High - 1 /\ High \in Nat /\ High > 0
      BY DEF Fds
    <2>2. (n - High) % High = n /\ n % High = n
      BY <2>1
    <2>3. n - High < 0 /\ n - High \in -High .. High - 1 /\ n \in -High .. High - 1
      BY <2>1
    <2>4. FileD(n)[1] \in -High .. High - 1 /\ FileD(n)[2] = <<"crt", n>> /\ ~is_socket(FileD(n)[1])
      BY <2>1, <2>3 DEF FileD, Tag, is_socket
    <2>5. get_real_fd(FileD(n)[1]) = n
      BY <2>2 DEF FileD, Tag, get_real_fd
    <2>6. FileD(n) = <<FileD(n)[1], FileD(n)[2]>> /\ <<"crt", n>> \in Objects
      BY <2>1 DEF FileD, Objects
    <2> QED
      BY <2>4, <2>5, <2>6 DEF Reached
  <1> QED
    BY <1>1, <1>2

\* Closing one socket, or one file.
LEMMA CloseOne ==
  ASSUME TypeOK
  PROVE  /\ \A h : Close({<<"sock", h>>}) => socks' = socks \ {h} /\ crt' = crt
         /\ \A n \in Fds :
              Close({<<"crt", n>>}) => socks' = socks /\ crt' = [crt EXCEPT ![n] = "free"]
  BY DEF Close, TypeOK

\* Closing sockets leaves the files.
LEMMA CloseSockets ==
  ASSUME TypeOK, NEW S, Close({<<"sock", h>> : h \in S})
  PROVE  socks' = socks \ S /\ crt' = crt
  BY DEF Close, TypeOK

\* The lowest free number is free, and not one of the standard descriptors.
LEMMA LowestFree ==
  ASSUME IInv, FreeFds # {}
  PROVE  /\ Min(FreeFds) \in Fds /\ crt[Min(FreeFds)] = "free" /\ Min(FreeFds) >= 3
         /\ \A n \in Fds : n < Min(FreeFds) => crt[n] # "free"
  <1>1. FreeFds \in SUBSET Nat
    BY DescriptorsAssumption DEF FreeFds, Fds
  <1>2. Min(FreeFds) \in FreeFds /\ \A y \in FreeFds : Min(FreeFds) <= y
    BY <1>1, LeastNatural
  <1> HIDE DEF Min
  <1>3. Min(FreeFds) \in Fds /\ crt[Min(FreeFds)] = "free"
    BY <1>2 DEF FreeFds
  <1>4. Min(FreeFds) >= 3
    BY <1>3, DescriptorsAssumption DEF IInv, HeldInv, Fds
  <1>5. ASSUME NEW n \in Fds, n < Min(FreeFds) PROVE crt[n] # "free"
    BY <1>1, <1>2, <1>5, DescriptorsAssumption DEF FreeFds, Fds
  <1> QED
    BY <1>3, <1>4, <1>5

\* The initial state satisfies the invariant.
LEMMA InitIInv == Init => IInv
  <1> SUFFICES ASSUME Init PROVE IInv
    OBVIOUS
  <1> USE DescriptorsAssumption
  <1>1. 0 .. 2 \subseteq Fds
    BY DEF Fds
  <1>2. \A n \in 0 .. 2 : FileD(n) = <<n, <<"crt", n>>>>
    BY DEF FileD
  <1>3. held = {FileD(n) : n \in 0 .. 2}
    BY <1>2 DEF Init
  <1>4. TypeOK
    <2>1. held \subseteq (-High .. High - 1) \X Objects
      BY <1>1, <1>3, Reaching
    <2>2. /\ socket_vector \in (Handles \cup {None}) \X (Handles \cup {None})
          /\ calls \in 0 .. MaxCalls
      BY DEF Init
    <2>3. /\ crt \in [Fds -> {"free", "file", "raw", "sentinel"}]
          /\ peer \in [Handles -> Handles \cup {None, Foreign}]
      BY DEF Init
    <2>4. queue \in Seq(Handles \cup {Foreign}) /\ stack \in Seq(Fds)
      BY DEF Init
    <2> QED
      BY <2>1, <2>2, <2>3, <2>4 DEF Init, TypeOK
  <1>5. HeldInv
    <2>1. listener = None /\ A = None /\ B = None /\ Mine = {} /\ socks = {}
      BY DEF Init, A, B, Mine
    <2>2. \A n \in Fds : crt[n] = "file" <=> FileD(n) \in held
      <3>1. \A n \in Fds : n \in Nat /\ (crt[n] = "file" <=> n \in 0 .. 2)
        BY DEF Init, Fds
      <3> QED
        BY <1>3, <3>1, Names
    <2>3. \A n \in 0 .. 2 : crt[n] = "file"
      BY <1>1 DEF Init
    <2>4. \A d \in held : \E n \in Fds : d = FileD(n)
      BY <1>1, <1>3
    <2>5. \A h \in Handles : SockD(h) \notin held
      BY <1>3, Names
    <2> QED
      BY <2>1, <2>2, <2>3, <2>4, <2>5 DEF HeldInv
  <1>6. CallInv
    BY DEF Init, CallInv, A, B
  <1>7. SentinelInv
    BY DEF Init, SentinelInv
  <1> QED
    BY <1>4, <1>5, <1>6, <1>7 DEF IInv

-----------------------------------------------------------------------------
\* A step that changes neither the tables nor what the program and the call have.
LEMMA HeldKept ==
  ASSUME HeldInv, UNCHANGED <<crt, socks, held, listener, socket_vector>>
  PROVE  HeldInv'
  BY DEF HeldInv, Mine, A, B

\* The call gets a new socket: it is nobody else's.
LEMMA HeldNew ==
  ASSUME HeldInv, NEW h \in Handles \ socks, socks' = socks \cup {h}, UNCHANGED <<crt, held>>,
         Mine' = Mine \cup {h}
  PROVE  HeldInv'
  BY DEF HeldInv

\* Another thread's step, or one of the call outside the sentinels: nothing of theirs changes.
LEMMA SentinelKept ==
  ASSUME SentinelInv, stack' = stack, reserved' \subseteq reserved,
         \/ stack = <<>>
         \/ UNCHANGED <<pc, socket_vector>>,
         \A n \in Fds : crt[n] = "sentinel" => crt'[n] = "sentinel",
         stack \in Seq(Fds)
  PROVE  SentinelInv'
  <1>1. \A k \in 1 .. Len(stack) : stack[k] \in Fds
    OBVIOUS
  <1>2. CASE stack = <<>>
    BY <1>2 DEF SentinelInv
  <1>3. CASE UNCHANGED <<pc, socket_vector>>
    BY <1>1, <1>3 DEF SentinelInv, A, B
  <1> QED
    BY <1>2, <1>3

\* Another thread's step leaves the call alone.
LEMMA CallKept ==
  ASSUME CallInv, UNCHANGED <<pc, listener, socket_vector, peer>>
  PROVE  CallInv'
  BY DEF CallInv, A, B

\* posix_open: the C runtime's lowest free number, with the high bit.
LEMMA posix_openIInv == ASSUME IInv, posix_open PROVE IInv'
  <1> DEFINE fh == Min(FreeFds)
  <1> USE DescriptorsAssumption
  <1>1. fh \in Fds /\ crt[fh] = "free" /\ fh >= 3
    BY LowestFree DEF posix_open
  <1>2. /\ crt' = [crt EXCEPT ![fh] = "file"] /\ held' = held \cup {<<Tag(fh), <<"crt", fh>>>>}
        /\ UNCHANGED <<socks, peer, call, reserved>>
    BY DEF posix_open, Opened
  <1> HIDE DEF fh
  <1>3. <<Tag(fh), <<"crt", fh>>>> = FileD(fh)
    BY <1>1 DEF FileD, Fds
  <1>4. held' = held \cup {FileD(fh)}
    BY <1>2, <1>3
  <1>5. TypeOK'
    <2>1. FileD(fh) \in (-High .. High - 1) \X Objects
      BY <1>1, Reaching
    <2> QED
      BY <1>1, <1>2, <1>4, <2>1 DEF IInv, TypeOK, call
  <1>6. HeldInv'
    <2>1. crt'[fh] = "file" /\ \A n \in Fds \ {fh} : crt'[n] = crt[n]
      BY <1>1, <1>2 DEF IInv, TypeOK
    <2>2. Mine' = Mine /\ socks' = socks
      BY <1>2 DEF call, Mine, A, B
    <2>3. 0 .. 2 \subseteq Fds /\ fh \notin 0 .. 2
      BY <1>1 DEF Fds
    <2> QED
      BY <1>1, <1>4, <2>1, <2>2, <2>3, Names DEF IInv, HeldInv
  <1>7. CallInv'
    BY <1>2, CallKept DEF IInv, call
  <1>8. SentinelInv'
    BY <1>1, <1>2, SentinelKept DEF IInv, TypeOK, call
  <1> QED
    BY <1>5, <1>6, <1>7, <1>8 DEF IInv

\* A file that the program uses under the C runtime's own number is opened or closed.
LEMMA RawIInv ==
  ASSUME IInv, NEW n \in Fds, n >= 3, NEW what \in {"raw", "free"}, crt[n] \in {"free", "raw"},
         crt' = [crt EXCEPT ![n] = what], UNCHANGED <<socks, peer, held, call, reserved>>
  PROVE  IInv'
  <1> USE DescriptorsAssumption
  <1>1. TypeOK'
    BY DEF IInv, TypeOK, call
  <1>2. HeldInv'
    <2>1. crt'[n] = what /\ \A m \in Fds \ {n} : crt'[m] = crt[m]
      BY DEF IInv, TypeOK
    <2>2. Mine' = Mine
      BY DEF call, Mine, A, B
    <2>3. 0 .. 2 \subseteq Fds /\ n \notin 0 .. 2
      BY DEF Fds
    <2> QED
      BY <2>1, <2>2, <2>3 DEF IInv, HeldInv
  <1>3. CallInv'
    BY CallKept DEF IInv, call
  <1>4. SentinelInv'
    BY SentinelKept DEF IInv, TypeOK, call
  <1> QED
    BY <1>1, <1>2, <1>3, <1>4 DEF IInv

\* mkstemp
LEMMA mkstempIInv == ASSUME IInv, mkstemp PROVE IInv'
  <1>1. /\ Min(FreeFds) \in Fds /\ crt[Min(FreeFds)] = "free" /\ Min(FreeFds) >= 3
    BY LowestFree DEF mkstemp
  <1> QED
    BY <1>1, RawIInv DEF mkstemp, Opened

\* close() of such a file
LEMMA RawCloseIInv == ASSUME IInv, RawClose PROVE IInv'
  <1>1. PICK n \in Fds : crt[n] = "raw" /\ crt' = [crt EXCEPT ![n] = "free"]
    BY DEF RawClose, Opened
  <1>2. n >= 3
    BY <1>1, DescriptorsAssumption DEF IInv, HeldInv, Fds
  <1> QED
    BY <1>1, <1>2, RawIInv DEF RawClose

\* socket
LEMMA socketIInv == ASSUME IInv, socket PROVE IInv'
  <1> USE DescriptorsAssumption
  <1>1. PICK h \in Handles \ socks :
          /\ socks' = socks \cup {h} /\ held' = held \cup {SockD(h)} /\ reserved' = reserved \ {h}
    BY DEF socket, SockD
  <1>2. UNCHANGED <<crt, peer, call>>
    BY DEF socket
  <1>3. TypeOK'
    <2>1. SockD(h) \in (-High .. High - 1) \X Objects
      BY Reaching
    <2> QED
      BY <1>1, <1>2, <2>1 DEF IInv, TypeOK, call
  <1>4. HeldInv'
    <2>1. Mine' = Mine
      BY <1>2 DEF call, Mine, A, B
    <2> QED
      BY <1>1, <1>2, <2>1, Names DEF IInv, HeldInv
  <1>5. CallInv'
    BY <1>2, CallKept DEF IInv, call
  <1>6. SentinelInv'
    BY <1>1, <1>2, SentinelKept DEF IInv, TypeOK, call
  <1> QED
    BY <1>3, <1>4, <1>5, <1>6 DEF IInv

\* posix_close: the socket or the file of the descriptor, and nothing else, goes.
LEMMA posix_closeIInv == ASSUME IInv, NEW d \in held, posix_close(d) PROVE IInv'
  <1> USE DescriptorsAssumption
  <1>1. /\ d[1] \notin 0 .. 2 /\ Close({Reached(d[1])}) /\ held' = held \ {d}
        /\ UNCHANGED <<peer, call, reserved>>
    BY DEF posix_close
  <1>2. Mine' = Mine
    BY <1>1 DEF call, Mine, A, B
  <1>3. CallInv'
    BY <1>1, CallKept DEF IInv, call
  <1>4. ASSUME NEW h \in Handles, d = SockD(h) PROVE IInv'
    <2>1. socks' = socks \ {h} /\ crt' = crt
      BY <1>1, <1>4, Reaching, CloseOne DEF IInv
    <2>2. TypeOK'
      BY <1>1, <2>1 DEF IInv, TypeOK, call
    <2>3. HeldInv'
      BY <1>1, <1>2, <1>4, <2>1, Names DEF IInv, HeldInv
    <2>4. SentinelInv'
      BY <1>1, <2>1, SentinelKept DEF IInv, TypeOK, call
    <2> QED
      BY <1>3, <2>2, <2>3, <2>4 DEF IInv
  <1>5. ASSUME NEW n \in Fds, d = FileD(n) PROVE IInv'
    <2>1. socks' = socks /\ crt' = [crt EXCEPT ![n] = "free"]
      BY <1>1, <1>5, Reaching, CloseOne DEF IInv
    <2>2. n \notin 0 .. 2 /\ 0 .. 2 \subseteq Fds
      BY <1>1, <1>5 DEF FileD, Fds
    <2>3. crt'[n] = "free" /\ (\A m \in Fds \ {n} : crt'[m] = crt[m]) /\ crt[n] = "file"
      BY <1>5, <2>1 DEF IInv, TypeOK, HeldInv
    <2>4. TypeOK'
      BY <1>1, <2>1 DEF IInv, TypeOK, call
    <2>5. HeldInv'
      BY <1>1, <1>2, <1>5, <2>1, <2>2, <2>3, Names DEF IInv, HeldInv
    <2>6. SentinelInv'
      BY <1>1, <2>3, SentinelKept DEF IInv, TypeOK, call
    <2> QED
      BY <1>3, <2>4, <2>5, <2>6 DEF IInv
  <1> QED
    BY <1>4, <1>5 DEF IInv, HeldInv

-----------------------------------------------------------------------------
\* The sockets of the call are handles.
LEMMA MineTyped ==
  ASSUME IInv
  PROVE  /\ {listener, A, B} \subseteq Handles \cup {None}
         /\ None \notin Handles /\ Mine \subseteq Handles /\ Mine \subseteq socks
         /\ socket_vector = <<A, B>>
  <1>1. None \notin Handles
    BY DescriptorsAssumption DEF None
  <1>2. /\ {listener, A, B} \subseteq Handles \cup {None}
        /\ socket_vector = <<A, B>>
    BY DEF IInv, TypeOK, A, B
  <1> QED
    BY <1>1, <1>2 DEF Mine, IInv, HeldInv

\* The call begins, with no socket.
LEMMA bsd_socketpairIInv == ASSUME IInv, bsd_socketpair PROVE IInv'
  <1> USE DescriptorsAssumption
  <1>1. /\ pc = "idle" /\ pc' = "listener" /\ calls < MaxCalls /\ calls' = calls + 1
        /\ socket_vector' = <<None, None>> /\ listener' = None /\ wantFlags' \in BOOLEAN
        /\ UNCHANGED <<crt, socks, peer, held, queue, stack, reserved>>
    BY DEF bsd_socketpair, Goto
  <1>2. listener = None /\ A = None /\ B = None /\ A' = None /\ B' = None
    BY <1>1 DEF IInv, CallInv, A, B
  <1>3. TypeOK'
    <2>1. calls' \in 0 .. MaxCalls
      BY <1>1 DEF IInv, TypeOK
    <2> QED
      BY <1>1, <2>1 DEF IInv, TypeOK
  <1>4. HeldInv'
    BY <1>1, <1>2 DEF IInv, HeldInv, Mine
  <1>5. CallInv'
    BY <1>1, <1>2 DEF CallInv
  <1>6. SentinelInv'
    BY <1>1, SentinelKept DEF IInv, TypeOK, SentinelInv
  <1> QED
    BY <1>3, <1>4, <1>5, <1>6 DEF IInv

\* A new socket of the call, as the listener, the first or the second.
LEMMA NewSocketIInv ==
  ASSUME IInv, NEW h \in Handles, NEW other \in Handles \cup {None, Foreign},
         NewSocket(h, other), stack = <<>>, pc' \in {"bind", "connect", "check"},
         listener' \in Handles \cup {None},
         socket_vector' \in (Handles \cup {None}) \X (Handles \cup {None}),
         queue' \in Seq(Handles \cup {Foreign}),
         Mine' = Mine \cup {h}, CallInv',
         UNCHANGED <<crt, held, wantFlags, stack, calls>>
  PROVE  IInv'
  <1>1. TypeOK'
    <2>1. peer' \in [Handles -> Handles \cup {None, Foreign}] /\ socks' \subseteq Handles
      BY DEF NewSocket, IInv, TypeOK
    <2> QED
      BY <2>1 DEF NewSocket, IInv, TypeOK
  <1>2. HeldInv'
    BY HeldNew DEF NewSocket, IInv
  <1>3. SentinelInv'
    BY SentinelKept DEF NewSocket, IInv, TypeOK
  <1> QED
    BY <1>1, <1>2, <1>3 DEF IInv

\* A step of the call that gets, gives back and forgets no socket.
LEMMA PlainIInv ==
  ASSUME IInv, pc' \in {"idle", "first", "err", "accept", "flags"}, stack = <<>>, CallInv',
         queue' \in Seq(Handles \cup {Foreign}),
         UNCHANGED <<crt, socks, peer, held, listener, socket_vector, wantFlags, stack, reserved,
                     calls>>
  PROVE  IInv'
  <1>1. TypeOK'
    BY DEF IInv, TypeOK
  <1>2. HeldInv'
    BY HeldKept DEF IInv
  <1>3. SentinelInv'
    BY SentinelKept DEF IInv, TypeOK
  <1> QED
    BY <1>1, <1>2, <1>3 DEF IInv

\* The listening socket
LEMMA CreateListenerIInv == ASSUME IInv, CreateListener PROVE IInv'
  <1>1. /\ pc = "listener" /\ listener = None /\ A = None /\ B = None /\ Mine = {} /\ stack = <<>>
        /\ UNCHANGED <<crt, held, socket_vector, wantFlags, queue, stack, calls>>
        /\ A' = A /\ B' = B /\ queue \in Seq(Handles \cup {Foreign})
    BY DEF CreateListener, Goto, IInv, CallInv, SentinelInv, TypeOK, Mine, A, B
  <1>2. CASE pc' = "idle" /\ UNCHANGED <<socks, peer, reserved, listener>>
    <2>1. CallInv'
      BY <1>1, <1>2 DEF CallInv
    <2> QED
      BY <1>1, <1>2, <2>1, PlainIInv
  <1>3. ASSUME NEW h \in Handles, pc' = "bind", NewSocket(h, None), listener' = h PROVE IInv'
    <2>1. Mine' = Mine \cup {h} /\ h # None
      BY <1>1, <1>3, MineTyped DEF Mine
    <2>2. CallInv'
      BY <1>1, <1>3, <2>1 DEF CallInv
    <2> QED
      BY <1>1, <1>3, <2>1, <2>2, NewSocketIInv DEF IInv, TypeOK
  <1> QED
    BY <1>2, <1>3 DEF CreateListener, Goto

\* setsockopt, bind, getsockname, listen
LEMMA BindIInv == ASSUME IInv, Bind PROVE IInv'
  <1>1. /\ pc = "bind" /\ pc' \in {"first", "err"} /\ stack = <<>>
        /\ UNCHANGED <<crt, socks, peer, held, listener, socket_vector, wantFlags, queue, stack,
                       reserved, calls>>
        /\ A' = A /\ B' = B /\ queue \in Seq(Handles \cup {Foreign})
    BY DEF Bind, Goto, IInv, SentinelInv, TypeOK, A, B
  <1>2. CallInv'
    BY <1>1 DEF IInv, CallInv
  <1> QED
    BY <1>1, <1>2, PlainIInv

\* The first socket
LEMMA CreateFirstIInv == ASSUME IInv, CreateFirst PROVE IInv'
  <1>1. /\ pc = "first" /\ listener # None /\ A = None /\ B = None /\ stack = <<>>
        /\ Mine = {listener} /\ UNCHANGED <<crt, held, listener, wantFlags, queue, stack, calls>>
        /\ queue \in Seq(Handles \cup {Foreign}) /\ listener \in socks
    BY MineTyped DEF CreateFirst, Goto, IInv, CallInv, SentinelInv, TypeOK, Mine
  <1>2. CASE pc' = "err" /\ UNCHANGED <<socks, peer, reserved, socket_vector>>
    <2>1. A' = A /\ B' = B
      BY <1>2 DEF A, B
    <2>2. CallInv'
      BY <1>1, <1>2, <2>1 DEF CallInv
    <2> QED
      BY <1>1, <1>2, <2>2, PlainIInv
  <1>3. ASSUME NEW h \in Handles, pc' = "connect", NewSocket(h, None), socket_vector' = <<h, None>>
        PROVE IInv'
    <2>1. A' = h /\ B' = None /\ h # None /\ h # listener
      BY <1>1, <1>3, MineTyped DEF A, B, NewSocket
    <2>2. Mine' = Mine \cup {h}
      BY <1>1, <2>1 DEF Mine
    <2>3. CallInv'
      BY <1>1, <1>3, <2>1 DEF CallInv
    <2> QED
      BY <1>1, <1>3, <2>2, <2>3, NewSocketIInv, MineTyped
  <1> QED
    BY <1>2, <1>3 DEF CreateFirst, Goto

\* Another process connects to the port.
LEMMA ForeignConnectIInv == ASSUME IInv, ForeignConnect PROVE IInv'
  <1>1. queue' \in Seq(Handles \cup {Foreign})
    BY DEF ForeignConnect, IInv, TypeOK
  <1>2. TypeOK'
    BY <1>1 DEF ForeignConnect, IInv, TypeOK
  <1>3. HeldInv' /\ CallInv'
    BY HeldKept, CallKept DEF ForeignConnect, IInv
  <1>4. SentinelInv'
    BY SentinelKept DEF ForeignConnect, IInv, TypeOK
  <1> QED
    BY <1>2, <1>3, <1>4 DEF IInv

\* connect
LEMMA ConnectIInv == ASSUME IInv, Connect PROVE IInv'
  <1>1. /\ pc = "connect" /\ pc' \in {"accept", "err"} /\ stack = <<>> /\ A # None
        /\ UNCHANGED <<crt, socks, peer, held, listener, socket_vector, wantFlags, stack,
                       reserved, calls>>
        /\ A' = A /\ B' = B /\ queue \in Seq(Handles \cup {Foreign})
        /\ queue' \in {queue, Append(queue, A)}
    BY DEF Connect, Goto, ConnectFailed, IInv, CallInv, SentinelInv, TypeOK, A, B
  <1>2. queue' \in Seq(Handles \cup {Foreign})
    <2>1. A \in Handles
      BY <1>1, MineTyped
    <2> QED
      BY <1>1, <2>1
  <1>3. CallInv'
    BY <1>1 DEF IInv, CallInv
  <1> QED
    BY <1>1, <1>2, <1>3, PlainIInv

\* accept: whoever connected first is at the other end.
LEMMA AcceptIInv == ASSUME IInv, Accept PROVE IInv'
  <1>1. /\ pc = "accept" /\ listener # None /\ A # None /\ B = None /\ stack = <<>>
        /\ listener # A /\ listener \in socks /\ A \in socks /\ queue # <<>>
        /\ UNCHANGED <<crt, held, listener, wantFlags, stack, calls>>
        /\ queue \in Seq(Handles \cup {Foreign})
    BY MineTyped DEF Accept, Goto, IInv, CallInv, SentinelInv, TypeOK, Mine
  <1>2. CASE pc' = "err" /\ UNCHANGED <<socks, peer, reserved, socket_vector, queue>>
    <2>1. A' = A /\ B' = B
      BY <1>2 DEF A, B
    <2>2. CallInv'
      BY <1>1, <1>2, <2>1 DEF CallInv
    <2> QED
      BY <1>1, <1>2, <2>2, PlainIInv
  <1>3. ASSUME NEW h \in Handles, pc' = "check", NewSocket(h, Head(queue)),
               socket_vector' = <<A, h>>, queue' = Tail(queue)
        PROVE IInv'
    <2>1. A' = A /\ B' = h /\ h # None /\ h # listener /\ h # A
      BY <1>1, <1>3, MineTyped DEF A, B, NewSocket
    <2>2. Mine' = Mine \cup {h}
      BY <1>1, <2>1 DEF Mine
    <2>3. CallInv'
      BY <1>1, <1>3, <2>1 DEF CallInv
    <2>4. Head(queue) \in Handles \cup {Foreign} /\ queue' \in Seq(Handles \cup {Foreign})
      BY <1>1, <1>3
    <2>5. socket_vector' \in (Handles \cup {None}) \X (Handles \cup {None})
      BY <1>3, MineTyped
    <2> QED
      BY <1>1, <1>3, <2>2, <2>3, <2>4, <2>5, NewSocketIInv, MineTyped
  <1> QED
    BY <1>2, <1>3 DEF Accept, Goto

\* getsockname and getpeername: the pair is complete and the listener goes, or the call fails.
LEMMA CheckPeerIInv == ASSUME IInv, CheckPeer PROVE IInv'
  <1>1. /\ pc = "check" /\ listener # None /\ A # None /\ B # None /\ stack = <<>>
        /\ listener # A /\ listener # B /\ A # B
        /\ UNCHANGED <<peer, held, socket_vector, wantFlags, stack, reserved, calls>>
        /\ A' = A /\ B' = B /\ queue \in Seq(Handles \cup {Foreign})
    BY DEF CheckPeer, Goto, IInv, CallInv, SentinelInv, TypeOK, A, B
  <1>2. CASE pc' = "err" /\ UNCHANGED <<crt, socks, queue, listener>>
    <2>1. CallInv'
      BY <1>1, <1>2 DEF CallInv
    <2> QED
      BY <1>1, <1>2, <2>1, PlainIInv
  <1>3. CASE /\ pc' = "sentinels" /\ SamePeer /\ Close({<<"sock", listener>>})
             /\ queue' = <<>> /\ listener' = None
    <2>1. socks' = socks \ {listener} /\ crt' = crt
      BY <1>3, CloseOne DEF IInv
    <2>2. TypeOK'
      <3>1. queue' \in Seq(Handles \cup {Foreign})
        BY <1>3
      <3> QED
        BY <1>1, <1>3, <2>1, <3>1 DEF IInv, TypeOK
    <2>3. HeldInv'
      <3>1. Mine = {listener, A, B} /\ Mine' = {A, B}
        BY <1>1, <1>3 DEF Mine
      <3> QED
        BY <1>1, <2>1, <3>1 DEF IInv, HeldInv
    <2>4. CallInv'
      BY <1>1, <1>3 DEF CallInv, SamePeer
    <2>5. SentinelInv'
      BY <1>1, <2>1, SentinelKept DEF IInv, TypeOK
    <2> QED
      BY <2>2, <2>3, <2>4, <2>5 DEF IInv
  <1> QED
    BY <1>2, <1>3 DEF CheckPeer, Goto

\* The error path closes what the call has.
LEMMA ErrIInv == ASSUME IInv, Err PROVE IInv'
  <1>1. /\ pc = "err" /\ pc' = "idle" /\ stack = <<>>
        /\ listener' = None /\ socket_vector' = <<None, None>> /\ queue' = <<>>
        /\ peer' = [h \in Handles |-> None] /\ wantFlags' = FALSE
        /\ UNCHANGED <<held, stack, reserved, calls>>
    BY DEF Err, Goto, IInv, SentinelInv
  <1>2. socks' = socks \ Mine /\ crt' = crt
    BY CloseSockets DEF Err, ErrCloses, IInv
  <1>3. TypeOK'
    <2>1. /\ queue' \in Seq(Handles \cup {Foreign})
          /\ peer' \in [Handles -> Handles \cup {None, Foreign}]
      BY <1>1
    <2> QED
      BY <1>1, <1>2, <2>1 DEF IInv, TypeOK
  <1>4. A' = None /\ B' = None /\ Mine' = {}
    BY <1>1 DEF A, B, Mine
  <1>5. HeldInv'
    BY <1>1, <1>2, <1>4 DEF IInv, HeldInv
  <1>6. CallInv'
    BY <1>1, <1>4 DEF CallInv
  <1>7. SentinelInv'
    BY <1>1, <1>2, SentinelKept DEF IInv, TypeOK
  <1> QED
    BY <1>3, <1>5, <1>6, <1>7 DEF IInv

\* Going down: when the first number beyond both sockets is reached, a number of theirs that
\* no file has is a sentinel's, since the C runtime hands out the lowest free number.
LEMMA SentinelOpenIInv == ASSUME IInv, SentinelOpen PROVE IInv'
  <1> DEFINE fd == Min(FreeFds)
  <1> USE DescriptorsAssumption
  <1>1. /\ pc = "sentinels" /\ A' = A /\ B' = B
        /\ UNCHANGED <<socks, peer, held, listener, socket_vector, wantFlags, queue, calls>>
        /\ stack \in Seq(Fds)
    BY DEF SentinelOpen, A, B, IInv, TypeOK
  <1>2. CASE pc' = "unwind" /\ UNCHANGED <<crt, stack, reserved>>
    <2>1. TypeOK'
      BY <1>1, <1>2 DEF IInv, TypeOK
    <2>2. HeldInv'
      BY <1>1, <1>2, HeldKept DEF IInv
    <2>3. CallInv'
      BY <1>1, <1>2 DEF IInv, CallInv
    <2>4. SentinelInv'
      BY <1>1, <1>2 DEF IInv, SentinelInv
    <2> QED
      BY <2>1, <2>2, <2>3, <2>4 DEF IInv
  <1>3. ASSUME FreeFds # {}, crt' = [crt EXCEPT ![fd] = "sentinel"],
               \/ /\ Beyond(fd) /\ pc' = "unwind" /\ stack' = stack
                  /\ reserved' = reserved \cup {h \in {A, B} \cap Fds :
                                                      crt[h] \notin {"file", "raw"}}
               \/ ~Beyond(fd) /\ stack' = Append(stack, fd) /\ UNCHANGED <<pc, reserved>>
        PROVE  IInv'
    <2>1. /\ fd \in Fds /\ crt[fd] = "free" /\ fd >= 3
          /\ \A n \in Fds : n < fd => crt[n] # "free"
      BY <1>3, LowestFree
    <2> HIDE DEF fd
    <2>2. crt'[fd] = "sentinel" /\ \A n \in Fds \ {fd} : crt'[n] = crt[n]
      BY <1>3, <2>1 DEF IInv, TypeOK
    <2>3. TypeOK'
      <3>1. stack' \in Seq(Fds)
        BY <1>1, <1>3, <2>1
      <3>2. reserved' \subseteq Handles
        <4>1. None \notin Fds
          BY DEF None, Fds
        <4>2. {A, B} \cap Fds \subseteq Handles
          BY <4>1, MineTyped
        <4> QED
          BY <1>3, <4>2 DEF IInv, TypeOK
      <3>3. crt' \in [Fds -> {"free", "file", "raw", "sentinel"}]
        BY <1>3, <2>1 DEF IInv, TypeOK
      <3> QED
        BY <1>1, <1>3, <3>1, <3>2, <3>3 DEF IInv, TypeOK
    <2>4. HeldInv'
      <3>1. Mine' = Mine
        BY <1>1 DEF Mine
      <3>2. 0 .. 2 \subseteq Fds /\ fd \notin 0 .. 2
        BY <2>1 DEF Fds
      <3> QED
        BY <1>1, <2>1, <2>2, <3>1, <3>2 DEF IInv, HeldInv
    <2>5. CallInv'
      BY <1>1, <1>3 DEF IInv, CallInv
    <2>6. SentinelInv'
      <3>1. \A k \in 1 .. Len(stack) :
              stack[k] \in Fds /\ crt[stack[k]] = "sentinel" /\ stack[k] # fd
        BY <1>1, <2>1 DEF IInv, SentinelInv
      <3>2. \A h \in reserved : h \in Fds /\ crt'[h] = "sentinel" /\ h # fd
        BY <2>1, <2>2 DEF IInv, SentinelInv
      <3>3. CASE /\ Beyond(fd) /\ pc' = "unwind" /\ stack' = stack
                 /\ reserved' = reserved \cup {h \in {A, B} \cap Fds :
                                                     crt[h] \notin {"file", "raw"}}
        <4>1. ASSUME NEW h \in {A, B} \cap Fds, crt[h] \notin {"file", "raw"}
              PROVE  crt'[h] = "sentinel"
          <5>1. h < fd
            BY <3>3, <2>1 DEF Beyond, Fds
          <5>2. crt[h] = "sentinel"
            BY <4>1, <5>1, <2>1 DEF IInv, TypeOK
          <5> QED
            BY <2>1, <2>2, <5>2
        <4> QED
          BY <1>1, <2>2, <3>1, <3>2, <3>3, <4>1 DEF IInv, SentinelInv
      <3>4. CASE stack' = Append(stack, fd) /\ UNCHANGED <<pc, reserved>>
        <4>1. Len(stack') = Len(stack) + 1 /\ stack'[Len(stack) + 1] = fd /\ Len(stack) \in Nat
              /\ \A k \in 1 .. Len(stack) : stack'[k] = stack[k]
          BY <1>1, <2>1, <3>4
        <4>2. \A k \in 1 .. Len(stack') : k \in 1 .. Len(stack) \/ k = Len(stack) + 1
          BY <4>1
        <4>3. \A k \in 1 .. Len(stack') : crt'[stack'[k]] = "sentinel"
          BY <2>2, <3>1, <4>1, <4>2
        <4>4. \A k, l \in 1 .. Len(stack') : stack'[k] = stack'[l] => k = l
          BY <3>1, <4>1, <4>2 DEF IInv, SentinelInv
        <4>5. \A h \in reserved : \A k \in 1 .. Len(stack') : stack'[k] = h => h \in {A, B}
          BY <3>2, <4>1, <4>2 DEF IInv, SentinelInv
        <4> QED
          BY <1>1, <3>2, <3>4, <4>3, <4>4, <4>5 DEF SentinelInv
      <3> QED
        BY <1>3, <3>3, <3>4
    <2> QED
      BY <2>3, <2>4, <2>5, <2>6 DEF IInv
  <1> QED
    BY <1>2, <1>3 DEF SentinelOpen, Opened

\* Coming back: a frame closes its sentinel, unless it has the number of a socket.
LEMMA SentinelReturnIInv == ASSUME IInv, SentinelReturn PROVE IInv'
  <1> DEFINE n == Len(stack)
  <1> DEFINE fd == stack[n]
  <1> USE DescriptorsAssumption
  <1>1. /\ pc = "unwind" /\ A' = A /\ B' = B /\ stack \in Seq(Fds) /\ stack # <<>>
        /\ UNCHANGED <<socks, peer, held, pc, listener, socket_vector, wantFlags, queue, reserved,
                       calls>>
        /\ stack' = SubSeq(stack, 1, n - 1)
        /\ crt' = IF Keeps(fd) THEN crt ELSE [crt EXCEPT ![fd] = "free"]
    BY DEF SentinelReturn, A, B, IInv, TypeOK
  <1>2. n \in Nat /\ n > 0 /\ fd \in Fds
    BY <1>1
  <1>3. /\ stack' \in Seq(Fds) /\ Len(stack') = n - 1
        /\ \A k \in 1 .. n - 1 : stack'[k] = stack[k]
    <2>1. \A k \in 1 .. n - 1 : stack[k] \in Fds
      BY <1>1, <1>2
    <2>2. n - 1 \in Int /\ 1 \in Int
      BY <1>2
    <2> HIDE DEF n
    <2>3. /\ SubSeq(stack, 1, n - 1) \in Seq(Fds)
          /\ Len(SubSeq(stack, 1, n - 1)) = IF 1 <= n - 1 THEN n - 1 - 1 + 1 ELSE 0
          /\ \A k \in 1 .. n - 1 - 1 + 1 : SubSeq(stack, 1, n - 1)[k] = stack[1 + k - 1]
      BY <2>1, <2>2, SubSeqProperties
    <2>4. \A k \in 1 .. n - 1 : k \in 1 .. n - 1 - 1 + 1 /\ 1 + k - 1 = k
      BY <1>2
    <2> QED
      BY <1>1, <1>2, <2>3, <2>4
  <1>4. crt[fd] = "sentinel" /\ \A k \in 1 .. n - 1 : stack[k] # fd
    BY <1>2 DEF IInv, SentinelInv
  <1> HIDE DEF n, fd
  <1>5. /\ crt' \in [Fds -> {"free", "file", "raw", "sentinel"}]
        /\ \A m \in Fds \ {fd} : crt'[m] = crt[m]
        /\ crt'[fd] \in {"sentinel", "free"} /\ (fd \in {A, B} => crt'[fd] = "sentinel")
    BY <1>1, <1>2, <1>4 DEF IInv, TypeOK, Keeps
  <1>6. TypeOK'
    BY <1>1, <1>3, <1>5 DEF IInv, TypeOK
  <1>7. HeldInv'
    <2>1. Mine' = Mine
      BY <1>1 DEF Mine
    <2>2. 0 .. 2 \subseteq Fds
      BY DEF Fds
    <2> QED
      BY <1>1, <1>2, <1>4, <1>5, <2>1, <2>2 DEF IInv, HeldInv
  <1>8. CallInv'
    BY <1>1, CallKept DEF IInv
  <1>9. SentinelInv'
    <2>1. \A k \in 1 .. n - 1 :
            k \in 1 .. Len(stack) /\ stack[k] \in Fds /\ crt[stack[k]] = "sentinel"
      BY <1>1, <1>2 DEF IInv, SentinelInv, n
    <2>2. \A k \in 1 .. Len(stack') : crt'[stack'[k]] = "sentinel"
      BY <1>3, <1>4, <1>5, <2>1
    <2>3. \A k, l \in 1 .. Len(stack') : stack'[k] = stack'[l] => k = l
      BY <1>3, <2>1 DEF IInv, SentinelInv
    <2>4. ASSUME NEW h \in reserved PROVE h \in Fds /\ crt'[h] = "sentinel"
      <3>1. h \in Fds /\ crt[h] = "sentinel"
        BY DEF IInv, SentinelInv
      <3>2. h = fd => h \in {A, B}
        BY <1>2 DEF IInv, SentinelInv, n, fd
      <3> QED
        BY <1>5, <3>1, <3>2
    <2>5. \A h \in reserved : \A k \in 1 .. Len(stack') : stack'[k] = h => h \in {A, B}
      BY <1>3, <2>1 DEF IInv, SentinelInv
    <2> QED
      BY <1>1, <2>2, <2>3, <2>4, <2>5 DEF SentinelInv
  <1> QED
    BY <1>6, <1>7, <1>8, <1>9 DEF IInv

\* The outermost frame returns.
LEMMA SentinelsDoneIInv == ASSUME IInv, SentinelsDone PROVE IInv'
  <1>1. /\ pc = "unwind" /\ pc' = "flags" /\ stack = <<>>
        /\ UNCHANGED <<crt, socks, peer, held, listener, socket_vector, wantFlags, queue, stack,
                       reserved, calls>>
        /\ A' = A /\ B' = B /\ queue \in Seq(Handles \cup {Foreign})
    BY DEF SentinelsDone, Goto, A, B, IInv, TypeOK
  <1>2. CallInv'
    BY <1>1 DEF IInv, CallInv
  <1> QED
    BY <1>1, <1>2, PlainIInv

\* The pair is handed to the caller, or closed when its flags cannot be set.
LEMMA SetFlagsIInv == ASSUME IInv, SetFlags PROVE IInv'
  <1>1. /\ pc = "flags" /\ pc' = "idle" /\ stack = <<>> /\ listener = None
        /\ A # None /\ B # None /\ A # B
        /\ socket_vector' = <<None, None>> /\ wantFlags' = FALSE
        /\ peer' = [h \in Handles |-> None]
        /\ UNCHANGED <<listener, queue, stack, reserved, calls>>
    BY DEF SetFlags, Goto, IInv, CallInv, SentinelInv
  <1>2. A \in Handles /\ B \in Handles /\ Mine = {A, B} /\ Mine \subseteq socks
    BY <1>1, MineTyped DEF Mine
  <1>3. A' = None /\ B' = None /\ Mine' = {}
    BY <1>1 DEF A, B, Mine
  <1>4. peer' \in [Handles -> Handles \cup {None, Foreign}]
    BY <1>1
  <1>5. CallInv'
    BY <1>1, <1>3 DEF CallInv
  <1>6. CASE held' = held \cup {<<h, <<"sock", h>>>> : h \in {A, B}} /\ UNCHANGED <<crt, socks>>
    <2>1. held' = held \cup {SockD(A), SockD(B)}
      BY <1>6 DEF SockD
    <2>2. TypeOK'
      <3>1. held' \subseteq (-High .. High - 1) \X Objects
        BY <1>2, <2>1, Reaching DEF IInv, TypeOK
      <3> QED
        BY <1>1, <1>4, <1>6, <3>1 DEF IInv, TypeOK
    <2>3. HeldInv'
      BY <1>2, <1>3, <1>6, <2>1, Names DEF IInv, HeldInv
    <2>4. SentinelInv'
      BY <1>1, <1>6, SentinelKept DEF IInv, TypeOK
    <2> QED
      BY <1>5, <2>2, <2>3, <2>4 DEF IInv
  <1>7. CASE Close({Reached(A), Reached(B)}) /\ UNCHANGED held
    <2>1. Reached(A) = <<"sock", A>> /\ Reached(B) = <<"sock", B>>
      BY <1>2, Reaching DEF SockD
    <2>2. {Reached(A), Reached(B)} = {<<"sock", h>> : h \in Mine}
      BY <1>2, <2>1
    <2>3. socks' = socks \ Mine /\ crt' = crt
      BY <1>7, <2>2, CloseSockets DEF IInv
    <2>4. TypeOK'
      BY <1>1, <1>4, <1>7, <2>3 DEF IInv, TypeOK
    <2>5. HeldInv'
      BY <1>2, <1>3, <1>7, <2>3 DEF IInv, HeldInv
    <2>6. SentinelInv'
      BY <1>1, <2>3, SentinelKept DEF IInv, TypeOK
    <2> QED
      BY <1>5, <2>4, <2>5, <2>6 DEF IInv
  <1> QED
    BY <1>6, <1>7 DEF SetFlags

\* Every step, and stuttering, preserves the invariant.
LEMMA NextIInv == IInv /\ [Next]_vars => IInv'
  <1> SUFFICES ASSUME IInv, [Next]_vars PROVE IInv'
    OBVIOUS
  <1>1. CASE posix_open \/ mkstemp \/ RawClose \/ socket
    BY <1>1, posix_openIInv, mkstempIInv, RawCloseIInv, socketIInv
  <1>2. ASSUME NEW d \in held, posix_close(d) PROVE IInv'
    BY <1>2, posix_closeIInv
  <1>3. CASE bsd_socketpair \/ ForeignConnect
    BY <1>3, bsd_socketpairIInv, ForeignConnectIInv
  <1>4. CASE Pair
    BY <1>4, CreateListenerIInv, BindIInv, CreateFirstIInv, ConnectIInv, AcceptIInv, CheckPeerIInv,
       ErrIInv, SentinelOpenIInv, SentinelReturnIInv, SentinelsDoneIInv, SetFlagsIInv DEF Pair
  <1>5. CASE UNCHANGED vars
    <2> USE <1>5 DEF vars, IInv
    <2>1. TypeOK'
      BY DEF TypeOK
    <2>2. HeldInv' /\ CallInv'
      BY HeldKept, CallKept
    <2>3. SentinelInv'
      BY SentinelKept DEF TypeOK
    <2> QED
      BY <2>1, <2>2, <2>3
  <1> QED
    BY <1>1, <1>2, <1>3, <1>4, <1>5 DEF Next

-----------------------------------------------------------------------------
\* The inductive invariant holds in every reachable state.
THEOREM Invariant == Spec => []IInv
  BY InitIInv, NextIInv, PTL DEF Spec

(***************************************************************************)
(* A descriptor reaches what it was handed out for; what is open is the    *)
(* program's or the call's, and a call that fails leaves nothing behind;   *)
(* the sockets handed out are each other's peer.                           *)
(***************************************************************************)
THEOREM Accounted == Spec => []NothingLost
  <1>1. ASSUME IInv PROVE NothingLost
    <2> DEFINE handed(kind) == {d[2] : d \in {e \in held : e[2][1] = kind}}
    <2>1. \A h : SockD(h)[2] = <<"sock", h>> /\ SockD(h)[2][1] = "sock" /\ SockD(h)[2][2] = h
      BY DEF SockD
    <2>2. \A n : FileD(n)[2] = <<"crt", n>> /\ FileD(n)[2][1] = "crt" /\ FileD(n)[2][2] = n
      BY DEF FileD
    <2>3. \A d \in held : (\E h \in Handles : d = SockD(h)) \/ (\E n \in Fds : d = FileD(n))
      BY <1>1 DEF IInv, HeldInv
    <2>4. \A d \in held : Reached(d[1]) = d[2]
      BY <2>1, <2>2, <2>3, Reaching
    <2>5. handed("sock") = {<<"sock", h>> : h \in {k \in Handles : SockD(k) \in held}}
      <3>1. ASSUME NEW d \in held, d[2][1] = "sock"
            PROVE  \E k \in Handles : d = SockD(k) /\ d[2] = <<"sock", k>>
        BY <2>1, <2>2, <2>3, <3>1
      <3>2. ASSUME NEW k \in Handles, SockD(k) \in held PROVE <<"sock", k>> \in handed("sock")
        BY <2>1, <2>2, <3>2
      <3> QED
        BY <3>1, <3>2
    <2>6. handed("crt") = {<<"crt", n>> : n \in {k \in Fds : FileD(k) \in held}}
      <3>1. ASSUME NEW d \in held, d[2][1] = "crt"
            PROVE  \E k \in Fds : d = FileD(k) /\ d[2] = <<"crt", k>>
        BY <2>1, <2>2, <2>3, <3>1
      <3>2. ASSUME NEW k \in Fds, FileD(k) \in held PROVE <<"crt", k>> \in handed("crt")
        BY <2>1, <2>2, <3>2
      <3> QED
        BY <3>1, <3>2
    <2>7. socks = {k \in Handles : SockD(k) \in held} \cup Mine
      BY <1>1, MineTyped DEF IInv, TypeOK, HeldInv
    <2>8. {<<"sock", h>> : h \in socks} = handed("sock") \cup {<<"sock", h>> : h \in Mine}
      BY <2>5, <2>7
    <2>9. {k \in Fds : crt[k] = "file"} = {k \in Fds : FileD(k) \in held}
      BY <1>1 DEF IInv, HeldInv
    <2>10. {<<"crt", n>> : n \in {k \in Fds : crt[k] = "file"}} = handed("crt")
      BY <2>6, <2>9
    <2> QED
      BY <1>1, <2>4, <2>8, <2>10 DEF NothingLost, IInv, CallInv
  <1> QED
    BY <1>1, Invariant, PTL

\* The number of a socket that the sentinels protect never becomes a file's.
THEOREM Reserved == Spec => []NumbersReserved
  <1>1. IInv => NumbersReserved
    BY DEF IInv, SentinelInv, NumbersReserved
  <1> QED
    BY <1>1, Invariant, PTL

=============================================================================
