----------------------------- MODULE ShimProofs -----------------------------
(***************************************************************************)
(* Proofs about the small parts that Shims composes, for every value of    *)
(* their constants: the alarm of "openssl speed" (SpeedAlarm), a socket    *)
(* and its caller (WinSocket), pread() and pwrite() (FileOffset),          *)
(* CRYPTO_add_lock() (AddLock), asprintf() and getdelim(), the byte order  *)
(* of hosts (ByteOrder) and the lists of queue.h (Queue).  The parts share *)
(* nothing; what each assumes of its constants is a hypothesis of its      *)
(* theorems.                                                               *)
(***************************************************************************)
EXTENDS Shims, SequenceTheorems, FiniteSetTheorems, TLAPS

-----------------------------------------------------------------------------
\* A timer thread that can still ring.
Alive(t) == thread[t] \in {"created", "running", "asleep"}

\* While a measurement is under way the static variables are about its own thread.  run is 0
\* only if that thread has rung, and the handle is closed only when it is over.
AlarmInv ==
  /\ ALARM!AlarmOwn
  /\ \A t \in 1 .. MaxAlarms : Alive(t) => caller \notin {"idle", "create", "close"}
  /\ caller \in {"idle", "create"} => speed_thread = 0
  /\ caller = "create" => alarms > 0 /\ speed_lapse = asked[alarms]
  /\ caller \in {"check", "spin", "begin", "loop", "free", "terminate", "close"} =>
       alarms > 0 /\ speed_thread = alarms /\ speed_lapse = asked[alarms]
  /\ caller \in {"loop", "free"} /\ run = 0 => ~Alive(alarms)

\* Every step of the caller and of a timer thread preserves it.
LEMMA AlarmNext ==
  ASSUME ALARM!AlarmAssumption, AlarmInv, [ALARM!Next]_(ALARM!vars)
  PROVE  AlarmInv'
  <1> USE DEF AlarmInv, ALARM!AlarmOwn, ALARM!TypeOK, ALARM!AlarmAssumption, ALARM!Timers,
              ALARM!NoThread, ALARM!Goto, ALARM!statics, ALARM!ghosts, Alive
  <1>1. CASE ALARM!speed_alarm
    BY <1>1 DEF ALARM!speed_alarm
  <1>2. CASE ALARM!Create
    BY <1>2 DEF ALARM!Create
  <1>3. CASE ALARM!Check
    BY <1>3 DEF ALARM!Check
  <1>4. CASE ALARM!Spin
    BY <1>4 DEF ALARM!Spin
  <1>5. CASE ALARM!Begin
    BY <1>5 DEF ALARM!Begin
  <1>6. CASE ALARM!LoopEnds
    BY <1>6 DEF ALARM!LoopEnds
  <1>7. CASE ALARM!speed_alarm_free
    BY <1>7 DEF ALARM!speed_alarm_free, ALARM!FreeGoes
  <1>8. CASE ALARM!Terminate
    BY <1>8 DEF ALARM!Terminate
  <1>9. CASE ALARM!Close
    BY <1>9 DEF ALARM!Close
  <1>10. ASSUME NEW t \in ALARM!Timers, caller # "exited", ALARM!TimerStart(t)
         PROVE  AlarmInv'
    BY <1>10 DEF ALARM!TimerStart
  <1>11. ASSUME NEW t \in ALARM!Timers, caller # "exited", ALARM!TimerSleep(t)
         PROVE  AlarmInv'
    BY <1>11 DEF ALARM!TimerSleep
  <1>12. ASSUME NEW t \in ALARM!Timers, caller # "exited", ALARM!TimerRing(t)
         PROVE  AlarmInv'
    BY <1>12 DEF ALARM!TimerRing
  <1>13. CASE UNCHANGED ALARM!vars
    BY <1>13 DEF ALARM!vars
  <1> QED
    BY <1>1, <1>2, <1>3, <1>4, <1>5, <1>6, <1>7, <1>8, <1>9, <1>10, <1>11, <1>12, <1>13
    DEF ALARM!Next, ALARM!Main, ALARM!Timer, ALARM!Finished

(***************************************************************************)
(* An alarm rings for the measurement it was set for, however many         *)
(* measurements are made: no thread of an earlier one survives             *)
(* speed_alarm_free(), and a thread sleeps as long as its own              *)
(* speed_alarm() asked.                                                    *)
(***************************************************************************)
THEOREM AlarmsOwned ==
  ASSUME ALARM!AlarmAssumption
  PROVE  ALARM!Spec => []AlarmOwn
  <1>1. ALARM!Init => AlarmInv
    BY DEF ALARM!Init, AlarmInv, ALARM!AlarmOwn, ALARM!TypeOK, ALARM!AlarmAssumption,
           ALARM!Timers, ALARM!NoThread, Alive
  <1>2. AlarmInv /\ [ALARM!Next]_(ALARM!vars) => AlarmInv'
    BY AlarmNext
  <1>3. AlarmInv => ALARM!AlarmOwn
    BY DEF AlarmInv
  <1> QED
    BY <1>1, <1>2, <1>3, PTL DEF ALARM!Spec, AlarmOwn

-----------------------------------------------------------------------------
\* What has arrived, what is read and what is still to come is the answer; a broken connection
\* has a cause; the caller has called connect() when it is not at its start.
SocketInv ==
  /\ SOCKET!ViewTrue
  /\ avail + left + received = Answer
  /\ net = "down" => cause \in Causes
  /\ view = "start" => net = "new"
  /\ view = "pending" => net \in {"connecting", "up", "down"}

\* A length that is clamped first keeps its value as an int.
LEMMA ClampedLength ==
  ASSUME SOCKET!SocketAssumption, NEW count \in Nat
  PROVE  /\ SOCKET!AsInt(SOCKET!Clamp(count)) \in 0 .. INT_MAX
         /\ SOCKET!AsInt(SOCKET!Clamp(count)) <= count
         /\ count > 0 => SOCKET!AsInt(SOCKET!Clamp(count)) > 0
  <1> DEFINE c == SOCKET!Clamp(count)
             m == 2 * (INT_MAX + 1)
  <1>1. c \in 0 .. INT_MAX /\ c <= count /\ (count > 0 => c > 0) /\ INT_MAX \in Nat
    BY DEF SOCKET!SocketAssumption, SOCKET!Clamp
  <1>2. m \in Nat /\ c < m /\ m > 0
    BY <1>1
  <1>3. SOCKET!AsInt(c) = LET low == c % m IN IF low > INT_MAX THEN low - m ELSE low
    BY DEF SOCKET!AsInt
  <1> HIDE DEF c, m
  <1>4. c % m = c
    BY <1>1, <1>2
  <1>5. SOCKET!AsInt(c) = c
    BY <1>1, <1>3, <1>4
  <1> QED
    BY <1>1, <1>5 DEF c

\* Only a cause of a broken connection makes the caller give up.
LEMMA GivesUp ==
  ASSUME SOCKET!SocketAssumption, NEW err, SOCKET!Judge(err),
         err \in {"WSAEINTR", "WSAEWOULDBLOCK"}
  PROVE  view' = view
  BY DEF SOCKET!Judge, SOCKET!wsa_errno

\* Every call and every event of the network preserves the invariant.
LEMMA SocketNext ==
  ASSUME SOCKET!SocketAssumption, SocketInv, [SOCKET!Next]_(SOCKET!vars)
  PROVE  SocketInv'
  <1> USE DEF SocketInv, SOCKET!ViewTrue, SOCKET!TypeOK, SOCKET!SocketAssumption, SOCKET!kernel,
              SOCKET!caller
  <1>1. CASE SOCKET!posix_connect
    <2>1. SOCKET!ConnectErrno("WSAEWOULDBLOCK") = "EINPROGRESS"
      BY DEF SOCKET!ConnectErrno
    <2> QED
      BY <1>1, <2>1 DEF SOCKET!posix_connect
  <1>2. CASE SOCKET!posix_getsockopt
    BY <1>2 DEF SOCKET!posix_getsockopt
  <1>3. CASE SOCKET!posix_write
    <2> DEFINE n == SOCKET!AsInt(SOCKET!Clamp(Request - sent))
    <2>1. n \in 0 .. INT_MAX /\ n <= Request - sent /\ Request - sent \in Nat
      <3>1. Request - sent \in Nat
        OBVIOUS
      <3> QED
        BY <3>1, ClampedLength
    <2>2. /\ view = "sending" /\ net \in {"up", "down"}
          /\ UNCHANGED <<net, cause, left, avail, received>>
          /\ \/ /\ net = "up"
                /\ \E k \in SOCKET!Amounts(n, room) : room' = room - k /\ sent' = sent + k
                /\ view' = IF sent' = Request THEN "reading" ELSE view
             \/ \E err \in SOCKET!Refusal(n, room = 0) :
                  SOCKET!Judge(err) /\ UNCHANGED <<room, sent>>
      BY <1>3 DEF SOCKET!posix_write
    <2> HIDE DEF n
    <2>3. ASSUME NEW k \in SOCKET!Amounts(n, room), room' = room - k, sent' = sent + k
          PROVE  room' \in 0 .. Buffer /\ sent' \in 0 .. Request
      BY <2>1, <2>3 DEF SOCKET!Amounts
    <2>4. ASSUME NEW err \in SOCKET!Refusal(n, room = 0), SOCKET!Judge(err)
          PROVE  view' \in {view, "failed"} /\ (net = "up" => view' = view)
      <3>1. net = "up" => err \in {"WSAEINTR", "WSAEWOULDBLOCK"}
        BY <2>1, <2>4 DEF SOCKET!Refusal
      <3> QED
        BY <2>4, <3>1, GivesUp DEF SOCKET!Judge
    <2> QED
      BY <2>2, <2>3, <2>4
  <1>4. CASE SOCKET!posix_read
    <2> DEFINE n == SOCKET!AsInt(SOCKET!Clamp(2 * (INT_MAX + 1)))
    <2>1. n \in 1 .. INT_MAX
      <3>1. 2 * (INT_MAX + 1) \in Nat /\ 2 * (INT_MAX + 1) > 0
        OBVIOUS
      <3> QED
        BY <3>1, ClampedLength
    <2>2. /\ view = "reading" /\ net \in {"up", "down"}
          /\ UNCHANGED <<net, cause, room, left, sent>>
          /\ \/ /\ net = "up"
                /\ \E k \in SOCKET!Amounts(n, avail) \cup (IF avail + left = 0 THEN {0} ELSE {}) :
                     /\ avail' = avail - k /\ received' = received + k
                     /\ view' = IF k = 0 THEN "ended" ELSE view
             \/ /\ \E err \in SOCKET!Refusal(n, avail = 0 /\ left > 0) : SOCKET!Judge(err)
                /\ UNCHANGED <<avail, received>>
      BY <1>4 DEF SOCKET!posix_read
    <2> HIDE DEF n
    <2>3. ASSUME NEW k \in SOCKET!Amounts(n, avail) \cup (IF avail + left = 0 THEN {0} ELSE {}),
                 avail' = avail - k, received' = received + k
          PROVE  /\ avail' \in 0 .. Answer /\ received' \in 0 .. Answer
                 /\ avail' + left + received' = Answer
                 /\ k = 0 => received' = Answer
      <3>1. k \in Nat /\ k <= avail /\ (k = 0 => avail + left = 0)
        BY <2>1, <2>3 DEF SOCKET!Amounts
      <3> QED
        BY <2>3, <3>1
    <2>4. ASSUME NEW err \in SOCKET!Refusal(n, avail = 0 /\ left > 0), SOCKET!Judge(err)
          PROVE  view' \in {view, "failed"} /\ (net = "up" => view' = view)
      <3>1. net = "up" => err \in {"WSAEINTR", "WSAEWOULDBLOCK"}
        BY <2>1, <2>4 DEF SOCKET!Refusal
      <3> QED
        BY <2>4, <3>1, GivesUp DEF SOCKET!Judge
    <2> QED
      BY <2>2, <2>3, <2>4
  <1>5. CASE SOCKET!posix_close
    BY <1>5 DEF SOCKET!posix_close
  <1>6. CASE SOCKET!Completes
    BY <1>6 DEF SOCKET!Completes
  <1>7. CASE SOCKET!Drains
    BY <1>7 DEF SOCKET!Drains
  <1>8. CASE SOCKET!Answers
    BY <1>8 DEF SOCKET!Answers
  <1>9. CASE SOCKET!Breaks
    BY <1>9 DEF SOCKET!Breaks
  <1>10. CASE UNCHANGED SOCKET!vars
    BY <1>10 DEF SOCKET!vars
  <1> QED
    BY <1>1, <1>2, <1>3, <1>4, <1>5, <1>6, <1>7, <1>8, <1>9, <1>10
    DEF SOCKET!Next, SOCKET!Call, SOCKET!Finished

(***************************************************************************)
(* What the caller of connect(), write() and read() makes of their results *)
(* is true of the connection, for any lengths, also beyond what an int can *)
(* say, and whatever Winsock error breaks the connection.                  *)
(***************************************************************************)
THEOREM ViewsTrue ==
  ASSUME SOCKET!SocketAssumption
  PROVE  SOCKET!Spec => []ViewTrue
  <1>1. SOCKET!Init => SocketInv
    BY DEF SOCKET!Init, SocketInv, SOCKET!ViewTrue, SOCKET!TypeOK, SOCKET!SocketAssumption
  <1>2. SocketInv /\ [SOCKET!Next]_(SOCKET!vars) => SocketInv'
    BY SocketNext
  <1>3. SocketInv => SOCKET!ViewTrue
    BY DEF SocketInv
  <1> QED
    BY <1>1, <1>2, <1>3, PTL DEF SOCKET!Spec, ViewTrue

-----------------------------------------------------------------------------
\* What a transfer may have come to.
Outcomes == [bytes : Seq(Bytes), n : Int, err : Errors \cup {"none"}]

\* The call is between its two lseek() calls: the offset that the program will meet is in cpos.
Away(t) == pc[t] \in {"transfer", "back"}

\* A thread has a call exactly when it is not idle, and an open file is used by one call at a
\* time.  Before the call moves the offset it has saved it, it makes its transfer at its own
\* offset, and only then has it an outcome; the transfer cannot move the offset far.
FileInv ==
  /\ TypeOK
  /\ bytes \in [Threads -> Outcomes]
  /\ \A t \in Threads : pc[t] = "idle" <=> call[t] = NoCall
  /\ \A t, u \in Threads :
       call[t] # NoCall /\ call[u] # NoCall /\ call[t].fd = call[u].fd => t = u
  /\ \A t \in Threads :
       /\ pc[t] = "set" => cpos[t] = offset[call[t].fd]
       /\ pc[t] = "transfer" => call[t].at >= 0 /\ offset[call[t].fd] = call[t].at
       /\ pc[t] = "back" => bytes[t] # Pending /\ offset[call[t].fd] <= MaxLen + 2
       /\ pc[t] # "back" => bytes[t] = Pending

\* What is read are bytes of the file, at most as many as were asked for.
LEMMA ReadType ==
  ASSUME NEW s \in Seq(Bytes), NEW k \in Nat, NEW n \in 1 .. 2
  PROVE  /\ Abstract!ReadAt(s, k, n) \in Seq(Bytes)
         /\ Len(Abstract!ReadAt(s, k, n)) \in 0 .. 2
  <1> DEFINE m == Abstract!Smaller(Len(s), k + n)
  <1>1. m \in Nat /\ m <= Len(s) /\ m <= k + n /\ k + 1 \in 1 .. k + 1 /\ Len(s) \in Nat
    BY DEF Abstract!Smaller
  <1>2. Abstract!ReadAt(s, k, n) = SubSeq(s, k + 1, m)
    BY DEF Abstract!ReadAt
  <1> HIDE DEF m
  <1>3. \A i \in k + 1 .. m : s[i] \in Bytes
    BY <1>1
  <1> QED
    BY <1>1, <1>2, <1>3, SubSeqProperties

\* A write leaves a sequence of bytes.
LEMMA WriteType ==
  ASSUME FileAssumption, NEW s \in Seq(Bytes), NEW k \in Nat, NEW v \in Bytes
  PROVE  Abstract!WriteAt(s, k, v) \in Seq(Bytes)
  <1> DEFINE n == IF k < Len(s) THEN Len(s) ELSE k + 1
  <1>1. n \in Nat /\ 0 \in Bytes
    BY DEF FileAssumption, Abstract!FileAssumption
  <1>2. \A i \in 1 .. n : (IF i = k + 1 THEN v ELSE IF i <= Len(s) THEN s[i] ELSE 0) \in Bytes
    BY <1>1
  <1>3. Abstract!WriteAt(s, k, v)
          = [i \in 1 .. n |-> IF i = k + 1 THEN v ELSE IF i <= Len(s) THEN s[i] ELSE 0]
    BY DEF Abstract!WriteAt
  <1> HIDE DEF n
  <1> QED
    BY <1>1, <1>2, <1>3

\* A request names an open file, and is not the absence of one.
LEMMA RequestType ==
  ASSUME NEW r \in Abstract!Requests
  PROVE  /\ r # NoCall /\ r.op # "none" /\ r.op \in {"pread", "pwrite"}
         /\ r.fd \in Fds /\ r.at \in Int
         /\ FileAssumption => r.at <= MaxLen
         /\ r.op = "pread" => r.arg \in 1 .. 2
         /\ r.op = "pwrite" => r.arg \in Bytes /\ (FileAssumption => r.at <= MaxLen - 1)
  BY DEF Abstract!Requests, NoCall, Abstract!NoCall, FileAssumption, Abstract!FileAssumption

\* Where the promise's offset is: the file's own, or what the one call that has moved it saved.
LEMMA PosOf ==
  ASSUME FileInv, NEW d \in Fds
  PROVE  /\ (\A t \in Threads : Away(t) => call[t].fd # d) => Pos(d) = offset[d]
         /\ \A t \in Threads : Away(t) /\ call[t].fd = d => Pos(d) = cpos[t]
  <1> DEFINE U == {t \in Threads : /\ call[t].op # "none" /\ call[t].fd = d
                                   /\ pc[t] \in {"transfer", "back"}}
  <1>1. Pos(d) = IF U = {} THEN offset[d] ELSE cpos[CHOOSE t \in U : TRUE]
    BY DEF Pos
  <1>2. ASSUME \A t \in Threads : Away(t) => call[t].fd # d
        PROVE  Pos(d) = offset[d]
    BY <1>1, <1>2 DEF Away
  <1>3. ASSUME NEW t \in Threads, Away(t), call[t].fd = d
        PROVE  Pos(d) = cpos[t]
    <2>1. call[t] # NoCall /\ call[t] \in Abstract!Requests
      BY <1>3 DEF FileInv, TypeOK, Away
    <2>2. t \in U
      BY <1>3, <2>1, RequestType DEF Away
    <2>3. ASSUME NEW u \in U PROVE u = t
      BY <1>3, <2>1 DEF FileInv, TypeOK
    <2> QED
      BY <1>1, <2>2, <2>3
  <1> QED
    BY <1>2, <1>3

\* The same in the next state.
LEMMA PosNext ==
  ASSUME FileInv', NEW d \in Fds
  PROVE  /\ (\A t \in Threads : Away(t)' => call'[t].fd # d) => Pos(d)' = offset'[d]
         /\ \A t \in Threads : Away(t)' /\ call'[t].fd = d => Pos(d)' = cpos'[t]
  <1> DEFINE U == {t \in Threads : /\ call'[t].op # "none" /\ call'[t].fd = d
                                   /\ pc'[t] \in {"transfer", "back"}}
  <1>1. Pos(d)' = IF U = {} THEN offset'[d] ELSE cpos'[CHOOSE t \in U : TRUE]
    BY DEF Pos
  <1>2. ASSUME \A t \in Threads : Away(t)' => call'[t].fd # d
        PROVE  Pos(d)' = offset'[d]
    BY <1>1, <1>2 DEF Away
  <1>3. ASSUME NEW t \in Threads, Away(t)', call'[t].fd = d
        PROVE  Pos(d)' = cpos'[t]
    <2>1. call'[t] # NoCall /\ call'[t] \in Abstract!Requests
      BY <1>3 DEF FileInv, TypeOK, Away
    <2>2. t \in U
      BY <1>3, <2>1, RequestType DEF Away
    <2>3. ASSUME NEW u \in U PROVE u = t
      BY <1>3, <2>1 DEF FileInv, TypeOK
    <2> QED
      BY <1>1, <2>2, <2>3
  <1> QED
    BY <1>2, <1>3

\* The initial states correspond.
LEMMA FileInit ==
  ASSUME FileAssumption, Init
  PROVE  FileInv /\ Abstract!Init
  <1> USE DEF Init
  <1>1. Pending \in Outcomes
    BY DEF Pending, Abstract!Pending, Outcomes
  <1>2. FileInv
    BY <1>1 DEF FileInv, TypeOK
  <1>3. \A d \in Fds : Pos(d) = 0
    BY DEF Pos
  <1> QED
    BY <1>2, <1>3 DEF Abstract!Init, NoCall, Pending

\* A call is accepted; the offset of its file is not yet touched.
LEMMA BeginFile ==
  ASSUME FileAssumption, FileInv, NEW t \in Threads, pread_pwrite(t)
  PROVE  FileInv' /\ Abstract!Next
  <1>1. PICK r \in Abstract!Requests :
          /\ ~Abstract!Busy(r.fd) /\ call' = [call EXCEPT ![t] = r]
          /\ ret' = [ret EXCEPT ![t] = Pending]
    BY DEF pread_pwrite
  <1>2. /\ pc[t] = "idle" /\ pc' = [pc EXCEPT ![t] = "cur"]
        /\ UNCHANGED <<file, offset, cpos, bytes, errno, stuck>>
    BY DEF pread_pwrite, Goto
  <1>3. r # NoCall /\ r.fd \in Fds /\ call[t] = NoCall
    BY <1>2, RequestType DEF FileInv
  <1>4. FileInv'
    <2>1. TypeOK'
      BY <1>1, <1>2 DEF FileInv, TypeOK
    <2>2. \A u \in Threads : call[u] # NoCall => call[u].fd # r.fd
      BY <1>1 DEF Abstract!Busy, NoCall
    <2> QED
      BY <1>1, <1>2, <1>3, <2>1, <2>2 DEF FileInv, TypeOK
  <1>5. ASSUME NEW d \in Fds PROVE Pos(d)' = Pos(d)
    <2>1. \A u \in Threads : (Away(u)' <=> Away(u)) /\ (Away(u) => call'[u] = call[u])
      BY <1>1, <1>2 DEF FileInv, TypeOK, Away
    <2> QED
      BY <1>2, <1>4, <2>1, PosOf, PosNext
  <1>6. Abstract!Begin(t, r)
    BY <1>1, <1>2, <1>3, <1>5 DEF Abstract!Begin, NoCall, Pending
  <1> QED
    BY <1>4, <1>6 DEF Abstract!Next

\* A call gives up with nothing done: the promise refuses.
LEMMA GiveUpFile ==
  ASSUME FileAssumption, FileInv, NEW t \in Threads, NEW from \in {"cur", "set"},
         GiveUp(t, from), UNCHANGED <<file, offset, cpos, stuck>>
  PROVE  FileInv' /\ Abstract!Next
  <1>1. PICK e \in Errors : errno' = [errno EXCEPT ![t] = e]
    BY DEF GiveUp, Fails
  <1>2. /\ pc[t] = from /\ pc' = [pc EXCEPT ![t] = "idle"]
        /\ errno'[t] = e
        /\ Abstract!End(t, Failed(e))
    BY <1>1 DEF GiveUp, Goto, FileInv, TypeOK
  <1>3. /\ call' = [call EXCEPT ![t] = NoCall] /\ bytes' = [bytes EXCEPT ![t] = Pending]
    BY <1>2 DEF Abstract!End, NoCall, Pending
  <1>4. FileInv'
    <2>1. TypeOK'
      BY <1>1, <1>2, <1>3 DEF FileInv, TypeOK
    <2>2. Pending \in Outcomes
      BY DEF Pending, Abstract!Pending, Outcomes
    <2> QED
      BY <1>2, <1>3, <2>1, <2>2 DEF FileInv, TypeOK
  <1>5. ASSUME NEW d \in Fds PROVE Pos(d)' = Pos(d)
    <2>1. \A u \in Threads : (Away(u)' <=> Away(u)) /\ (Away(u) => call'[u] = call[u])
      BY <1>2, <1>3 DEF FileInv, TypeOK, Away
    <2> QED
      BY <1>4, <2>1, PosOf, PosNext
  <1>6. call[t] # NoCall /\ bytes[t] = Pending
    BY <1>2 DEF FileInv
  <1>7. Abstract!Refuse(t)
    BY <1>2, <1>5, <1>6 DEF Abstract!Refuse, NoCall, Pending, Failed
  <1>8. Abstract!Next
    BY <1>7 DEF Abstract!Next
  <1> QED
    BY <1>4, <1>8

\* lseek(d, 0, SEEK_CUR): the offset is saved, nothing is seen.
LEMMA SeekCurFile ==
  ASSUME FileAssumption, FileInv, NEW t \in Threads, SeekCur(t)
  PROVE  FileInv' /\ [Abstract!Next]_(Abstract!vars)
  <1>1. CASE GiveUp(t, "cur") /\ UNCHANGED cpos
    BY <1>1, GiveUpFile DEF SeekCur
  <1>2. CASE /\ Goto(t, "cur", "set") /\ Succeeds(t)
             /\ cpos' = [cpos EXCEPT ![t] = offset[call[t].fd]]
             /\ UNCHANGED <<call, bytes, ret>>
    <2>1. /\ pc[t] = "cur" /\ pc' = [pc EXCEPT ![t] = "set"]
          /\ UNCHANGED <<file, offset, stuck>>
      BY <1>2 DEF Goto, SeekCur
    <2>2. call[t] \in Abstract!Requests /\ call[t].fd \in Fds /\ call[t] # NoCall
      BY <2>1, RequestType DEF FileInv, TypeOK
    <2>3. FileInv'
      <3>1. errno' \in [Threads -> Errors \cup {"none"}]
        BY <1>2 DEF Succeeds, FileInv, TypeOK
      <3>2. TypeOK'
        BY <1>2, <2>1, <2>2, <3>1 DEF FileInv, TypeOK
      <3> QED
        BY <1>2, <2>1, <2>2, <3>2 DEF FileInv, TypeOK
    <2>4. ASSUME NEW d \in Fds PROVE Pos(d)' = Pos(d)
      <3>1. \A u \in Threads : (Away(u)' <=> Away(u)) /\ (Away(u) => cpos'[u] = cpos[u])
        BY <1>2, <2>1 DEF FileInv, TypeOK, Away
      <3> QED
        BY <1>2, <2>1, <2>3, <3>1, PosOf, PosNext
    <2> QED
      BY <1>2, <2>1, <2>3, <2>4 DEF Abstract!vars
  <1> QED
    BY <1>1, <1>2 DEF SeekCur

\* lseek(d, offset, SEEK_SET): the offset moves away, and the saved one takes its place.
LEMMA SeekSetFile ==
  ASSUME FileAssumption, FileInv, NEW t \in Threads, SeekSet(t)
  PROVE  FileInv' /\ [Abstract!Next]_(Abstract!vars)
  <1>1. CASE GiveUp(t, "set") /\ UNCHANGED offset
    BY <1>1, GiveUpFile DEF SeekSet
  <1>2. CASE /\ Goto(t, "set", "transfer") /\ call[t].at >= 0 /\ Succeeds(t)
             /\ offset' = [offset EXCEPT ![call[t].fd] = call[t].at]
             /\ UNCHANGED <<call, bytes, ret>>
    <2>1. /\ pc[t] = "set" /\ pc' = [pc EXCEPT ![t] = "transfer"]
          /\ UNCHANGED <<file, cpos, stuck>>
      BY <1>2 DEF Goto, SeekSet
    <2>2. /\ call[t] \in Abstract!Requests /\ call[t].fd \in Fds /\ call[t] # NoCall
          /\ call[t].at \in Nat /\ cpos[t] = offset[call[t].fd]
      BY <1>2, <2>1, RequestType DEF FileInv, TypeOK
    <2>3. \A u \in Threads : pc[u] # "idle" /\ call[u].fd = call[t].fd => u = t
      BY <2>2 DEF FileInv
    <2>4. FileInv'
      <3>1. errno' \in [Threads -> Errors \cup {"none"}]
        BY <1>2 DEF Succeeds, FileInv, TypeOK
      <3>2. TypeOK'
        BY <1>2, <2>1, <2>2, <3>1 DEF FileInv, TypeOK
      <3> QED
        BY <1>2, <2>1, <2>2, <2>3, <3>2 DEF FileInv, TypeOK
    <2>5. ASSUME NEW d \in Fds PROVE Pos(d)' = Pos(d)
      <3>1. CASE d = call[t].fd
        <4>1. Away(t)' /\ Pos(d)' = cpos'[t]
          BY <1>2, <2>1, <2>4, <3>1, PosNext DEF FileInv, TypeOK, Away
        <4>2. \A u \in Threads : Away(u) => call[u].fd # d
          BY <2>1, <2>3, <3>1 DEF Away
        <4> QED
          BY <2>1, <2>2, <3>1, <4>1, <4>2, PosOf
      <3>2. CASE d # call[t].fd
        <4>1. \A u \in Threads : call[u].fd = d => (Away(u)' <=> Away(u))
          BY <1>2, <2>1, <3>2 DEF FileInv, TypeOK, Away
        <4>2. offset'[d] = offset[d]
          BY <1>2, <3>2 DEF FileInv, TypeOK
        <4> QED
          BY <1>2, <2>1, <2>4, <4>1, <4>2, PosOf, PosNext
      <3> QED
        BY <3>1, <3>2
    <2> QED
      BY <1>2, <2>1, <2>4, <2>5 DEF Abstract!vars
  <1> QED
    BY <1>1, <1>2 DEF SeekSet

\* read() or write() at the call's own offset: the promise's transfer.
LEMMA TransferFile ==
  ASSUME FileAssumption, FileInv, NEW t \in Threads, Transfer(t)
  PROVE  FileInv' /\ Abstract!Next
  <1> DEFINE r == call[t]
             d == call[t].fd
  <1>1. /\ pc[t] = "transfer" /\ pc' = [pc EXCEPT ![t] = "back"]
        /\ UNCHANGED <<call, ret, cpos, stuck>>
    BY DEF Transfer, Goto
  <1>2. /\ r \in Abstract!Requests /\ r # NoCall /\ d \in Fds
        /\ r.at \in Nat /\ offset[d] = r.at /\ r.at <= MaxLen /\ MaxLen \in Nat
        /\ r.op = "pread" => r.arg \in 1 .. 2
        /\ r.op = "pwrite" => r.arg \in Bytes
        /\ file[d] \in Seq(Bytes) /\ bytes[t] = Pending
    <2>1. r \in Abstract!Requests /\ r # NoCall /\ MaxLen \in Nat
      BY <1>1 DEF FileInv, TypeOK, FileAssumption, Abstract!FileAssumption
    <2>2. /\ d \in Fds /\ r.at \in Int /\ r.at <= MaxLen
          /\ r.op = "pread" => r.arg \in 1 .. 2
          /\ r.op = "pwrite" => r.arg \in Bytes
      BY <2>1, RequestType
    <2>3. r.at >= 0 /\ offset[d] = r.at /\ file[d] \in Seq(Bytes) /\ bytes[t] = Pending
      BY <1>1, <2>2 DEF FileInv, TypeOK
    <2> QED
      BY <2>1, <2>2, <2>3
  <1>3. \A u \in Threads : pc[u] # "idle" /\ call[u].fd = d => u = t
    BY <1>2 DEF FileInv
  <1> DEFINE s == Abstract!ReadAt(file[d], r.at, r.arg)
             read == /\ r.op = "pread" /\ Succeeds(t) /\ UNCHANGED file
                     /\ offset' = [offset EXCEPT ![d] = @ + Len(s)]
                     /\ bytes' = [bytes EXCEPT ![t] = Abstract!Done(s, Len(s))]
             write == /\ r.op = "pwrite" /\ Succeeds(t)
                      /\ file' = [file EXCEPT ![d] = Abstract!WriteAt(@, r.at, r.arg)]
                      /\ offset' = [offset EXCEPT ![d] = @ + 1]
                      /\ bytes' = [bytes EXCEPT ![t] = Abstract!Done(<<>>, 1)]
             fail == /\ \E e \in Errors : /\ errno' = [errno EXCEPT ![t] = e]
                                          /\ bytes' = [bytes EXCEPT ![t] = Failed(e)]
                     /\ UNCHANGED <<file, offset>>
  <1>4. read \/ write \/ fail
    <2>1. CASE /\ r.op = "pread" /\ Succeeds(t) /\ CrtRead(d, r.arg)
               /\ LET part == Abstract!ReadAt(file[d], offset[d], r.arg)
                  IN  bytes' = [bytes EXCEPT ![t] = Abstract!Done(part, Len(part))]
      BY <1>2, <2>1 DEF CrtRead, MovesBy
    <2>2. CASE /\ r.op = "pwrite" /\ Succeeds(t) /\ CrtWrite(d, r.arg)
               /\ bytes' = [bytes EXCEPT ![t] = Abstract!Done(<<>>, 1)]
      BY <1>2, <2>2 DEF CrtWrite, MovesBy
    <2>3. CASE /\ Fails(t) /\ bytes' = [bytes EXCEPT ![t] = Failed(errno'[t])]
               /\ UNCHANGED <<file, offset>>
      <3>1. PICK e \in Errors : errno' = [errno EXCEPT ![t] = e]
        BY <2>3 DEF Fails
      <3>2. errno'[t] = e
        BY <3>1 DEF FileInv, TypeOK
      <3> QED
        BY <2>3, <3>1, <3>2
    <2> QED
      BY <2>1, <2>2, <2>3 DEF Transfer
  <1>5. /\ file' \in [Fds -> Seq(Bytes)]
        /\ \E m \in 0 .. 2 : offset' = [offset EXCEPT ![d] = @ + m]
        /\ errno' \in [Threads -> Errors \cup {"none"}]
        /\ \E b \in Outcomes : b # Pending /\ bytes' = [bytes EXCEPT ![t] = b]
    <2>1. CASE read
      <3>1. s \in Seq(Bytes) /\ Len(s) \in 0 .. 2
        BY <1>2, <2>1, ReadType
      <3>2. Abstract!Done(s, Len(s)) \in Outcomes /\ Abstract!Done(s, Len(s)) # Pending
        BY <3>1 DEF Abstract!Done, Outcomes, Pending, Abstract!Pending
      <3>3. errno' \in [Threads -> Errors \cup {"none"}]
        BY <2>1 DEF Succeeds, FileInv, TypeOK
      <3>4. file' \in [Fds -> Seq(Bytes)]
        BY <2>1 DEF FileInv, TypeOK
      <3> HIDE DEF s
      <3> QED
        BY <2>1, <3>1, <3>2, <3>3, <3>4
    <2>2. CASE write
      <3>1. Abstract!WriteAt(file[d], r.at, r.arg) \in Seq(Bytes)
        BY <1>2, <2>2, WriteType
      <3>2. Abstract!Done(<<>>, 1) \in Outcomes /\ Abstract!Done(<<>>, 1) # Pending
        BY DEF Abstract!Done, Outcomes, Pending, Abstract!Pending
      <3>3. errno' \in [Threads -> Errors \cup {"none"}]
        BY <2>2 DEF Succeeds, FileInv, TypeOK
      <3>4. file' \in [Fds -> Seq(Bytes)]
        BY <2>2, <3>1 DEF FileInv, TypeOK
      <3>5. \E m \in 0 .. 2 : offset' = [offset EXCEPT ![d] = @ + m]
        BY <2>2
      <3>6. \E b \in Outcomes : b # Pending /\ bytes' = [bytes EXCEPT ![t] = b]
        BY <2>2, <3>2
      <3> QED
        BY <3>3, <3>4, <3>5, <3>6
    <2>3. CASE fail
      <3>1. \A e \in Errors : Failed(e) \in Outcomes /\ Failed(e) # Pending
        BY DEF Failed, Abstract!Failed, Outcomes, Pending, Abstract!Pending
      <3>2. offset' = [offset EXCEPT ![d] = @ + 0]
        BY <1>2, <2>3 DEF FileInv, TypeOK
      <3>3. file' \in [Fds -> Seq(Bytes)] /\ errno' \in [Threads -> Errors \cup {"none"}]
        BY <2>3 DEF FileInv, TypeOK
      <3>4. \E m \in 0 .. 2 : offset' = [offset EXCEPT ![d] = @ + m]
        BY <3>2
      <3>5. \E b \in Outcomes : b # Pending /\ bytes' = [bytes EXCEPT ![t] = b]
        BY <2>3, <3>1
      <3> QED
        BY <3>3, <3>4, <3>5
    <2> QED
      BY <1>4, <2>1, <2>2, <2>3
  <1> HIDE DEF read, write, fail, s
  <1>6. FileInv'
    <2>1. PICK m \in 0 .. 2 : offset' = [offset EXCEPT ![d] = @ + m]
      BY <1>5
    <2>2. PICK b \in Outcomes : b # Pending /\ bytes' = [bytes EXCEPT ![t] = b]
      BY <1>5
    <2>3. offset' \in [Fds -> Nat] /\ offset'[d] <= MaxLen + 2
      BY <1>2, <2>1 DEF FileInv, TypeOK
    <2>4. TypeOK'
      BY <1>1, <1>5, <2>3 DEF FileInv, TypeOK
    <2>5. \A u \in Threads \ {t} : pc[u] # "idle" => offset'[call[u].fd] = offset[call[u].fd]
      BY <1>3, <2>1 DEF FileInv, TypeOK
    <2>6. bytes' \in [Threads -> Outcomes] /\ bytes'[t] = b
      BY <2>2 DEF FileInv
    <2>7. \A u \in Threads : pc'[u] = "idle" <=> call'[u] = NoCall
      BY <1>1, <1>2 DEF FileInv, TypeOK
    <2>8. ASSUME NEW u \in Threads
          PROVE  /\ pc'[u] = "set" => cpos'[u] = offset'[call'[u].fd]
                 /\ pc'[u] = "transfer" => call'[u].at >= 0 /\ offset'[call'[u].fd] = call'[u].at
                 /\ pc'[u] = "back" => bytes'[u] # Pending /\ offset'[call'[u].fd] <= MaxLen + 2
                 /\ pc'[u] # "back" => bytes'[u] = Pending
      <3>1. CASE u = t
        BY <1>1, <2>2, <2>3, <2>6, <3>1 DEF FileInv, TypeOK
      <3>2. CASE u # t
        <4>1. /\ pc'[u] = pc[u] /\ bytes'[u] = bytes[u] /\ call'[u] = call[u] /\ cpos'[u] = cpos[u]
              /\ pc[u] # "idle" => offset'[call[u].fd] = offset[call[u].fd]
          BY <1>1, <2>2, <2>5, <3>2 DEF FileInv, TypeOK
        <4> QED
          BY <4>1 DEF FileInv
      <3> QED
        BY <3>1, <3>2
    <2> QED
      BY <1>1, <2>4, <2>6, <2>7, <2>8 DEF FileInv
  <1>7. ASSUME NEW x \in Fds PROVE Pos(x)' = Pos(x)
    <2>1. \A u \in Threads : Away(u)' <=> Away(u)
      BY <1>1 DEF FileInv, TypeOK, Away
    <2>2. CASE x = d
      BY <1>1, <1>2, <1>6, <2>1, <2>2, PosOf, PosNext DEF Away
    <2>3. CASE x # d
      <3>1. offset'[x] = offset[x]
        BY <1>5, <2>3 DEF FileInv, TypeOK
      <3> QED
        BY <1>1, <1>6, <2>1, <3>1, PosOf, PosNext
    <2> QED
      BY <2>2, <2>3
  <1>8. Abstract!Transfer(t)
    <2>1. UNCHANGED <<[x \in Fds |-> Pos(x)], call, ret, stuck>>
      BY <1>1, <1>7
    <2>2. r # Abstract!NoCall /\ bytes[t] = Abstract!Pending
      BY <1>2 DEF NoCall, Pending
    <2> QED
      BY <1>2, <1>4, <2>1, <2>2 DEF read, write, fail, s, Failed, Abstract!Transfer
  <1>9. Abstract!Next
    BY <1>8 DEF Abstract!Next
  <1> QED
    BY <1>6, <1>9

\* lseek() back: the offset is the program's again, or is lost with -1.
LEMMA SeekBackFile ==
  ASSUME FileAssumption, FileInv, NEW t \in Threads, SeekBack(t)
  PROVE  FileInv' /\ Abstract!Next
  <1> DEFINE d == call[t].fd
  <1>1. /\ pc[t] = "back" /\ pc' = [pc EXCEPT ![t] = "idle"]
        /\ UNCHANGED <<file, cpos>>
        /\ call' = [call EXCEPT ![t] = NoCall] /\ bytes' = [bytes EXCEPT ![t] = Pending]
    BY DEF SeekBack, GiveUp, Goto, Abstract!End, NoCall, Pending
  <1>2. /\ call[t] \in Abstract!Requests /\ call[t] # NoCall /\ d \in Fds
        /\ bytes[t] # Pending /\ bytes[t] \in Outcomes /\ cpos[t] \in Nat
        /\ offset[d] \in 0 .. MaxLen + 2
    <2>1. call[t] \in Abstract!Requests /\ call[t] # NoCall
      BY <1>1 DEF FileInv, TypeOK
    <2>2. d \in Fds
      BY <2>1, RequestType
    <2>3. MaxLen \in Nat
      BY DEF FileAssumption, Abstract!FileAssumption
    <2> QED
      BY <1>1, <2>1, <2>2, <2>3 DEF FileInv, TypeOK
  <1>3. \A u \in Threads : pc[u] # "idle" /\ call[u].fd = d => u = t
    BY <1>2 DEF FileInv
  <1>4. Pending \in Outcomes
    BY DEF Pending, Abstract!Pending, Outcomes
  <1>5. \A u \in Threads : Away(u)' <=> Away(u) /\ u # t
    BY <1>1 DEF FileInv, TypeOK, Away
  <1>6. \A u \in Threads \ {t} : call'[u] = call[u] /\ (Away(u) => call[u].fd # d)
    BY <1>1, <1>3 DEF FileInv, TypeOK, Away
  <1>7. Away(t) /\ Pos(d) = cpos[t]
    BY <1>1, <1>2, PosOf DEF Away
  <1>8. CASE /\ errno' = [errno EXCEPT ![t] = bytes[t].err] /\ Abstract!End(t, bytes[t])
             /\ offset' = [offset EXCEPT ![d] = cpos[t]] /\ UNCHANGED stuck
    <2>1. FileInv'
      <3>1. bytes[t].err \in Errors \cup {"none"}
        BY <1>2 DEF Outcomes
      <3>2. TypeOK'
        BY <1>1, <1>2, <1>8, <3>1 DEF FileInv, TypeOK
      <3> QED
        BY <1>1, <1>2, <1>3, <1>4, <1>8, <3>2 DEF FileInv, TypeOK
    <2>2. ASSUME NEW x \in Fds PROVE Pos(x)' = Pos(x)
      <3>1. CASE x = d
        <4>1. Pos(x)' = offset'[d]
          BY <1>5, <1>6, <2>1, <3>1, PosNext
        <4> QED
          BY <1>2, <1>7, <1>8, <3>1, <4>1 DEF FileInv, TypeOK
      <3>2. CASE x # d
        <4>1. offset'[x] = offset[x]
          BY <1>8, <3>2 DEF FileInv, TypeOK
        <4> QED
          BY <1>1, <1>5, <1>6, <2>1, <3>2, <4>1, PosOf, PosNext
      <3> QED
        BY <3>1, <3>2
    <2>3. Abstract!Return(t)
      <3>1. UNCHANGED [x \in Fds |-> Pos(x)]
        BY <2>2
      <3> QED
        BY <1>1, <1>2, <1>8, <3>1 DEF Abstract!Return, Pending
    <2>4. Abstract!Next
      BY <2>3 DEF Abstract!Next
    <2> QED
      BY <2>1, <2>4
  <1>9. CASE GiveUp(t, "back") /\ stuck' = stuck \cup {d} /\ UNCHANGED offset
    <2>1. PICK e \in Errors : errno' = [errno EXCEPT ![t] = e] /\ Abstract!End(t, Failed(e))
      <3>1. PICK e \in Errors : errno' = [errno EXCEPT ![t] = e]
        BY <1>9 DEF GiveUp, Fails
      <3>2. errno'[t] = e
        BY <3>1 DEF FileInv, TypeOK
      <3> QED
        BY <1>9, <3>1, <3>2 DEF GiveUp
    <2>2. FileInv'
      <3>1. TypeOK'
        BY <1>1, <1>2, <1>9, <2>1 DEF FileInv, TypeOK
      <3> QED
        BY <1>1, <1>2, <1>3, <1>4, <1>9, <3>1 DEF FileInv, TypeOK
    <2>3. ASSUME NEW x \in Fds, x = d PROVE Pos(x)' = offset[x]
      BY <1>5, <1>6, <1>9, <2>2, <2>3, PosNext
    <2>4. ASSUME NEW x \in Fds, x # d PROVE Pos(x)' = Pos(x)
      BY <1>1, <1>5, <1>6, <1>9, <2>2, <2>4, PosOf, PosNext
    <2>5. Abstract!ReturnLost(t)
      <3>1. [x \in Fds |-> Pos(x)]' = [[x \in Fds |-> Pos(x)] EXCEPT ![d] = offset[d]]
        BY <1>2, <2>3, <2>4
      <3> QED
        BY <1>1, <1>2, <1>9, <2>1, <3>1 DEF Abstract!ReturnLost, Pending, Failed
    <2>6. Abstract!Next
      BY <2>5 DEF Abstract!Next
    <2> QED
      BY <2>2, <2>6
  <1>10. ASSUME errno' = [errno EXCEPT ![t] = bytes[t].err] PROVE Told(t) = bytes[t]
    <2>1. errno'[t] = bytes[t].err
      BY <1>10 DEF FileInv, TypeOK
    <2>2. [bytes[t] EXCEPT !.err = bytes[t].err] = bytes[t]
      BY <1>2 DEF Outcomes
    <2> QED
      BY <2>1, <2>2 DEF Told
  <1>11. \/ /\ errno' = [errno EXCEPT ![t] = bytes[t].err] /\ Abstract!End(t, bytes[t])
            /\ offset' = [offset EXCEPT ![d] = cpos[t]] /\ UNCHANGED stuck
         \/ GiveUp(t, "back") /\ stuck' = stuck \cup {d} /\ UNCHANGED offset
    BY <1>10 DEF SeekBack
  <1> QED
    BY <1>8, <1>9, <1>11

\* The program's own read(), write() and lseek(), while no call uses the file.
LEMMA SequentialFile ==
  ASSUME FileAssumption, FileInv, NEW d \in Fds, Sequential(d)
  PROVE  FileInv' /\ Abstract!Next
  <1>1. /\ \A u \in Threads : call[u] # NoCall => call[u].fd # d
        /\ UNCHANGED <<call, ret, pc, cpos, bytes, errno, stuck>>
    BY DEF Sequential, Abstract!Busy, NoCall
  <1>2. file[d] \in Seq(Bytes) /\ offset[d] \in Nat /\ MaxLen \in Nat
    BY DEF FileInv, TypeOK, FileAssumption, Abstract!FileAssumption
  <1>3. ASSUME NEW k \in Nat, NEW f \in Seq(Bytes), offset' = [offset EXCEPT ![d] = k],
               file' = [file EXCEPT ![d] = f]
        PROVE  /\ FileInv' /\ Pos(d) = offset[d]
               /\ [x \in Fds |-> Pos(x)]' = [[x \in Fds |-> Pos(x)] EXCEPT ![d] = k]
    <2>1. TypeOK'
      BY <1>1, <1>3 DEF FileInv, TypeOK
    <2>2. \A u \in Threads : pc[u] # "idle" => offset'[call[u].fd] = offset[call[u].fd]
      BY <1>1, <1>3 DEF FileInv, TypeOK
    <2>3. FileInv'
      BY <1>1, <2>1, <2>2 DEF FileInv
    <2>4. \A u \in Threads : (Away(u)' <=> Away(u)) /\ (Away(u) => call[u].fd # d)
      BY <1>1 DEF FileInv, Away
    <2>5. Pos(d) = offset[d] /\ Pos(d)' = k
      BY <1>1, <1>3, <2>3, <2>4, PosOf, PosNext DEF FileInv, TypeOK
    <2>6. ASSUME NEW x \in Fds, x # d PROVE Pos(x)' = Pos(x)
      <3>1. offset'[x] = offset[x]
        BY <1>3, <2>6 DEF FileInv, TypeOK
      <3> QED
        BY <1>1, <2>3, <2>4, <3>1, PosOf, PosNext
    <2> QED
      BY <2>3, <2>5, <2>6
  <1>4. CASE \E n \in 1 .. 2 : CrtRead(d, n)
    <2>1. PICK n \in 1 .. 2 : CrtRead(d, n)
      BY <1>4
    <2> DEFINE k == offset[d] + Len(Abstract!ReadAt(file[d], offset[d], n))
    <2>2. k \in Nat
      <3>1. Len(Abstract!ReadAt(file[d], offset[d], n)) \in 0 .. 2
        BY <1>2, ReadType, Zenon
      <3> QED
        BY <1>2, <3>1
    <2>3. /\ offset' = [offset EXCEPT ![d] = k]
          /\ file' = file /\ file' = [file EXCEPT ![d] = file[d]]
      BY <2>1 DEF CrtRead, MovesBy, FileInv, TypeOK
    <2>4. /\ FileInv' /\ Pos(d) = offset[d]
          /\ [x \in Fds |-> Pos(x)]' = [[x \in Fds |-> Pos(x)] EXCEPT ![d] = k]
      BY <1>2, <1>3, <2>2, <2>3
    <2>5. Abstract!Sequential(d)
      BY <1>1, <2>3, <2>4 DEF Sequential, Abstract!Sequential
    <2>6. Abstract!Next
      BY <2>5 DEF Abstract!Next
    <2> QED
      BY <2>4, <2>6
  <1>5. CASE offset[d] < MaxLen /\ \E v \in Bytes : CrtWrite(d, v)
    <2>1. PICK v \in Bytes : CrtWrite(d, v)
      BY <1>5
    <2> DEFINE f == Abstract!WriteAt(file[d], offset[d], v)
    <2>2. f \in Seq(Bytes) /\ offset[d] + 1 \in Nat
      <3>1. f \in Seq(Bytes)
        BY <1>2, WriteType, Zenon
      <3> HIDE DEF f
      <3> QED
        BY <1>2, <3>1
    <2>3. offset' = [offset EXCEPT ![d] = offset[d] + 1] /\ file' = [file EXCEPT ![d] = f]
      BY <2>1 DEF CrtWrite, MovesBy, FileInv, TypeOK
    <2>4. /\ FileInv' /\ Pos(d) = offset[d]
          /\ [x \in Fds |-> Pos(x)]' = [[x \in Fds |-> Pos(x)] EXCEPT ![d] = offset[d] + 1]
      BY <1>3, <2>2, <2>3
    <2>5. Abstract!Sequential(d)
      BY <1>1, <1>5, <2>3, <2>4 DEF Sequential, Abstract!Sequential
    <2>6. Abstract!Next
      BY <2>5 DEF Abstract!Next
    <2> QED
      BY <2>4, <2>6
  <1>6. CASE (\E k \in 0 .. MaxLen : offset' = [offset EXCEPT ![d] = k]) /\ UNCHANGED file
    <2>1. PICK k \in 0 .. MaxLen : offset' = [offset EXCEPT ![d] = k]
      BY <1>6
    <2>2. k \in Nat /\ file' = [file EXCEPT ![d] = file[d]]
      BY <1>6 DEF FileInv, TypeOK
    <2>3. /\ FileInv'
          /\ [x \in Fds |-> Pos(x)]' = [[x \in Fds |-> Pos(x)] EXCEPT ![d] = k]
      BY <1>2, <1>3, <2>1, <2>2
    <2>4. Abstract!Sequential(d)
      BY <1>1, <1>6, <2>3 DEF Sequential, Abstract!Sequential
    <2>5. Abstract!Next
      BY <2>4 DEF Abstract!Next
    <2> QED
      BY <2>3, <2>5
  <1> QED
    BY <1>4, <1>5, <1>6 DEF Sequential

(***************************************************************************)
(* pread() and pwrite() implement positioned transfers, for any number of  *)
(* threads and open files, any content and whichever of the calls of the C *)
(* runtime fail: a step of theirs is one of the promise's or is not seen.  *)
(***************************************************************************)
THEOREM Positioned ==
  ASSUME FileAssumption
  PROVE  Spec => ImplementsPositioned
  <1>1. Init => FileInv /\ Abstract!Init
    BY FileInit
  <1>2. FileInv /\ [Next]_vars => FileInv' /\ [Abstract!Next]_(Abstract!vars)
    <2> SUFFICES ASSUME FileInv, [Next]_vars
                 PROVE  FileInv' /\ [Abstract!Next]_(Abstract!vars)
      OBVIOUS
    <2>1. CASE UNCHANGED vars
      <3>1. FileInv'
        BY <2>1 DEF vars, FileInv, TypeOK
      <3>2. \A d \in Fds : Pos(d)' = Pos(d)
        BY <2>1 DEF vars, Pos
      <3> QED
        BY <2>1, <3>1, <3>2 DEF vars, Abstract!vars
    <2>2. ASSUME NEW t \in Threads,
                 \/ pread_pwrite(t) \/ SeekCur(t) \/ SeekSet(t) \/ Transfer(t) \/ SeekBack(t)
          PROVE  FileInv' /\ [Abstract!Next]_(Abstract!vars)
      BY <2>2, BeginFile, SeekCurFile, SeekSetFile, TransferFile, SeekBackFile
    <2> QED
      BY <2>1, <2>2, SequentialFile DEF Next
  <1>3. FileInv => TypeOK
    BY DEF FileInv
  <1> QED
    BY <1>1, <1>2, <1>3, PTL DEF Spec, ImplementsPositioned, Abstract!Spec

-----------------------------------------------------------------------------
(***************************************************************************)
(* CRYPTO_add_lock().  The count is the number of references; to say so    *)
(* without a sum over the threads, each reference is a token.              *)
(***************************************************************************)

\* What a thread contributes to the count: the references it has, one that it is giving up
\* and has not yet counted down, and one that it has counted and not yet been told of.
Weight(t) ==
  refs[t] + (IF (apc[t] = "called" /\ amount[t] = -1) \/ (apc[t] = "added" /\ amount[t] = 1)
             THEN 1 ELSE 0)

Tokens == {x \in Holders \X Nat : x[2] > 0 /\ x[2] <= Weight(x[1])}

\* The thread whose exchange made the count 0: it will be, or has been, told to destroy.
Last(t) == apc[t] = "destroy" \/ (apc[t] = "added" /\ result[t] + amount[t] = 0)

CountInv == IsFiniteSet(Tokens) /\ pointer = Cardinality(Tokens)

\* The arguments of the calls, and that a new reference is made from one that stays.
AmountInv ==
  \A t \in Holders :
    /\ apc[t] \in {"idle", "destroy"} => amount[t] = 0
    /\ apc[t] \in {"called", "added"} => amount[t] \in {-1, 1}
    /\ apc[t] = "called" /\ amount[t] = 1 => refs[t] > 0
    /\ apc[t] = "added" => result[t] + amount[t] >= 0

\* As long as something is counted nobody is told; then one thread is, and destroys once.
LastInv ==
  /\ pointer > 0 => destroyed = 0 /\ \A t \in Holders : ~Last(t)
  /\ pointer = 0 => destroyed = 1 \/ \E t \in Holders : Last(t)
  /\ \A t, u \in Holders : Last(t) /\ Last(u) => t = u
  /\ destroyed = 1 => \A t \in Holders : ~Last(t)

AddInv == COUNT!TypeOK /\ CountInv /\ AmountInv /\ LastInv

\* A step of one thread changes only that thread's tokens, and so the count, by at most one.
LEMMA TokenSteps ==
  ASSUME COUNT!TypeOK, COUNT!TypeOK', IsFiniteSet(Tokens), NEW t \in Holders,
         \A u \in Holders \ {t} : Weight(u)' = Weight(u)
  PROVE  /\ Weight(t)' = Weight(t) => Tokens' = Tokens
         /\ Weight(t)' = Weight(t) + 1 =>
              IsFiniteSet(Tokens') /\ Cardinality(Tokens') = Cardinality(Tokens) + 1
         /\ Weight(t)' = Weight(t) - 1 =>
              IsFiniteSet(Tokens') /\ Cardinality(Tokens') = Cardinality(Tokens) - 1
  <1>1. Weight(t) \in Nat /\ Weight(t)' \in Nat
    BY DEF COUNT!TypeOK, Weight
  <1>2. ASSUME Weight(t)' = Weight(t) PROVE Tokens' = Tokens
    BY <1>2 DEF Tokens
  <1>3. ASSUME Weight(t)' = Weight(t) + 1
        PROVE  IsFiniteSet(Tokens') /\ Cardinality(Tokens') = Cardinality(Tokens) + 1
    <2> DEFINE new == <<t, Weight(t) + 1>>
    <2>1. Tokens' = Tokens \cup {new} /\ new \notin Tokens
      BY <1>1, <1>3 DEF Tokens
    <2> QED
      BY <2>1, FS_AddElement
  <1>4. ASSUME Weight(t)' = Weight(t) - 1
        PROVE  IsFiniteSet(Tokens') /\ Cardinality(Tokens') = Cardinality(Tokens) - 1
    <2> DEFINE old == <<t, Weight(t)>>
    <2>1. Tokens' = Tokens \ {old} /\ old \in Tokens
      BY <1>1, <1>4 DEF Tokens
    <2> QED
      BY <2>1, FS_RemoveElement
  <1> QED
    BY <1>2, <1>3, <1>4

\* Nothing is counted exactly if no thread contributes, and a thread that does shows it.
LEMMA NothingCounted ==
  ASSUME COUNT!TypeOK, CountInv
  PROVE  pointer = 0 <=> \A t \in Holders : Weight(t) = 0
  <1>1. \A t \in Holders : Weight(t) \in Nat
    BY DEF COUNT!TypeOK, Weight
  <1>2. Tokens = {} <=> \A t \in Holders : Weight(t) = 0
    <2>1. ASSUME NEW t \in Holders, Weight(t) # 0 PROVE <<t, 1>> \in Tokens
      BY <1>1, <2>1 DEF Tokens
    <2>2. ASSUME NEW x \in Tokens PROVE x[1] \in Holders /\ Weight(x[1]) # 0
      BY <1>1 DEF Tokens
    <2> QED
      BY <2>1, <2>2
  <1> QED
    BY <1>2, FS_EmptySet DEF CountInv

\* The creator's reference is the only token.
LEMMA AddInit == COUNT!Init => AddInv
  <1> SUFFICES ASSUME COUNT!Init PROVE AddInv
    OBVIOUS
  <1>1. COUNT!TypeOK /\ AmountInv /\ LastInv
    BY DEF COUNT!Init, COUNT!TypeOK, AmountInv, LastInv, Last
  <1>2. PICK creator \in Holders : refs = [t \in Holders |-> IF t = creator THEN 1 ELSE 0]
    BY DEF COUNT!Init
  <1>3. \A t \in Holders : Weight(t) = IF t = creator THEN 1 ELSE 0
    BY <1>2 DEF COUNT!Init, Weight
  <1>4. Tokens = {<<creator, 1>>}
    BY <1>3 DEF Tokens
  <1> QED
    BY <1>1, <1>4, FS_Singleton DEF AddInv, CountInv, COUNT!Init

\* The call: a reference to be given up moves from the thread's own to the pending one.
LEMMA AddCall ==
  ASSUME AddInv, NEW t \in Holders, NEW d \in {-1, 1}, COUNT!CRYPTO_add_lock(t, d)
  PROVE  AddInv'
  <1> USE DEF AddInv
  <1>1. COUNT!TypeOK'
    BY DEF COUNT!CRYPTO_add_lock, COUNT!TypeOK
  <1>2. \A u \in Holders : Weight(u)' = Weight(u)
    BY DEF COUNT!CRYPTO_add_lock, COUNT!TypeOK, Weight
  <1>3. CountInv'
    BY <1>1, <1>2, TokenSteps DEF CountInv, COUNT!CRYPTO_add_lock
  <1>4. AmountInv'
    BY DEF COUNT!CRYPTO_add_lock, COUNT!TypeOK, AmountInv
  <1>5. \A u \in Holders : Last(u)' <=> Last(u)
    BY DEF COUNT!CRYPTO_add_lock, COUNT!TypeOK, Last
  <1> QED
    BY <1>1, <1>3, <1>4, <1>5 DEF LastInv, COUNT!CRYPTO_add_lock

\* The exchange: who makes the count 0 is the last, since then nobody contributes to it.
LEMMA AddExchange ==
  ASSUME AddInv, NEW t \in Holders, COUNT!InterlockedExchangeAdd(t)
  PROVE  AddInv'
  <1> USE DEF AddInv
  <1>1. amount[t] \in {-1, 1} /\ Weight(t) > 0
    BY DEF COUNT!InterlockedExchangeAdd, COUNT!TypeOK, AmountInv, Weight
  <1>2. pointer > 0
    BY <1>1, NothingCounted DEF COUNT!TypeOK
  <1>3. COUNT!TypeOK'
    BY <1>1, <1>2 DEF COUNT!InterlockedExchangeAdd, COUNT!TypeOK
  <1>4. Weight(t)' = Weight(t) + amount[t] /\ \A u \in Holders \ {t} : Weight(u)' = Weight(u)
    BY <1>1 DEF COUNT!InterlockedExchangeAdd, COUNT!TypeOK, Weight
  <1>5. CountInv'
    <2>1. CASE amount[t] = 1
      BY <1>3, <1>4, <2>1, TokenSteps DEF CountInv, COUNT!InterlockedExchangeAdd
    <2>2. CASE amount[t] = -1
      <3>1. Weight(t)' = Weight(t) - 1
        BY <1>4, <2>2 DEF Weight, COUNT!TypeOK
      <3> QED
        BY <1>3, <1>4, <2>2, <3>1, TokenSteps
           DEF CountInv, COUNT!InterlockedExchangeAdd, COUNT!TypeOK
    <2> QED
      BY <1>1, <2>1, <2>2
  <1>6. AmountInv'
    BY <1>1, <1>2 DEF COUNT!InterlockedExchangeAdd, COUNT!TypeOK, AmountInv
  <1>7. Last(t)' <=> pointer' = 0
    BY <1>1 DEF COUNT!InterlockedExchangeAdd, COUNT!TypeOK, Last
  <1>8. \A u \in Holders \ {t} : Last(u)' <=> Last(u)
    BY DEF COUNT!InterlockedExchangeAdd, COUNT!TypeOK, Last
  <1>9. destroyed' = destroyed /\ pointer' \in Nat
    BY <1>3 DEF COUNT!InterlockedExchangeAdd, COUNT!TypeOK
  <1> QED
    BY <1>2, <1>3, <1>5, <1>6, <1>7, <1>8, <1>9 DEF LastInv

\* The return: a thread that is told, and only that one, was the last.
LEMMA AddReturn ==
  ASSUME AddInv, NEW t \in Holders, COUNT!Return(t)
  PROVE  AddInv'
  <1> USE DEF AddInv
  <1>1. COUNT!TypeOK'
    BY DEF COUNT!Return, COUNT!TypeOK
  <1>2. \A u \in Holders : Weight(u)' = Weight(u)
    BY DEF COUNT!Return, COUNT!TypeOK, AmountInv, Weight
  <1>3. CountInv'
    BY <1>1, <1>2, TokenSteps DEF CountInv, COUNT!Return
  <1>4. AmountInv'
    BY DEF COUNT!Return, COUNT!TypeOK, AmountInv
  <1>5. \A u \in Holders : Last(u)' <=> Last(u)
    BY DEF COUNT!Return, COUNT!Result, COUNT!TypeOK, Last
  <1> QED
    BY <1>1, <1>3, <1>4, <1>5 DEF LastInv, COUNT!Return

\* A reference that is handed on is one token less and one token more.
LEMMA AddPass ==
  ASSUME AddInv, NEW t \in Holders, NEW u \in Holders, COUNT!Pass(t, u)
  PROVE  AddInv'
  <1> USE DEF AddInv
  <1>1. COUNT!TypeOK'
    BY DEF COUNT!Pass, COUNT!TypeOK
  <1>2. /\ Weight(t)' = Weight(t) - 1 /\ Weight(u)' = Weight(u) + 1 /\ t # u
        /\ \A v \in Holders \ {t, u} : Weight(v)' = Weight(v)
        /\ Weight(t) \in Nat \ {0} /\ Weight(u) \in Nat
    BY DEF COUNT!Pass, COUNT!TypeOK, Weight
  <1>3. CountInv'
    <2> DEFINE old == <<t, Weight(t)>>
               new == <<u, Weight(u) + 1>>
    <2>1. old \in Tokens /\ new \notin Tokens \ {old} /\ Tokens' = (Tokens \ {old}) \cup {new}
      BY <1>2 DEF Tokens
    <2>2. IsFiniteSet(Tokens \ {old}) /\ Cardinality(Tokens \ {old}) = Cardinality(Tokens) - 1
      BY <2>1, FS_RemoveElement DEF CountInv
    <2>3. IsFiniteSet(Tokens') /\ Cardinality(Tokens') = Cardinality(Tokens \ {old}) + 1
      BY <2>1, <2>2, FS_AddElement
    <2> QED
      BY <2>2, <2>3 DEF CountInv, COUNT!Pass, COUNT!TypeOK
  <1>4. AmountInv'
    BY DEF COUNT!Pass, COUNT!TypeOK, AmountInv
  <1> QED
    BY <1>1, <1>3, <1>4 DEF LastInv, Last, COUNT!Pass

\* The object is destroyed by the last thread, and so once.
LEMMA AddDestroy ==
  ASSUME AddInv, NEW t \in Holders, COUNT!Destroy(t)
  PROVE  AddInv'
  <1> USE DEF AddInv
  <1>1. Last(t) /\ destroyed = 0 /\ pointer = 0
    BY DEF COUNT!Destroy, COUNT!TypeOK, LastInv, Last
  <1>2. COUNT!TypeOK'
    BY <1>1 DEF COUNT!Destroy, COUNT!TypeOK
  <1>3. \A u \in Holders : Weight(u)' = Weight(u)
    BY DEF COUNT!Destroy, COUNT!TypeOK, Weight
  <1>4. CountInv'
    BY <1>2, <1>3, TokenSteps DEF CountInv, COUNT!Destroy
  <1>5. AmountInv'
    BY DEF COUNT!Destroy, COUNT!TypeOK, AmountInv
  <1>6. \A u \in Holders : Last(u)' <=> Last(u) /\ u # t
    BY DEF COUNT!Destroy, COUNT!TypeOK, Last
  <1> QED
    BY <1>1, <1>2, <1>4, <1>5, <1>6 DEF LastInv, COUNT!Destroy

(***************************************************************************)
(* CRYPTO_add_lock: exactly one thread is told that the count has become   *)
(* 0, when no reference is left or on its way, and it is told for certain, *)
(* for any number of threads and references and whatever order the results *)
(* of the exchanges come back in.                                          *)
(***************************************************************************)
THEOREM LastDestroys == COUNT!Spec => []DestroyedByLast
  <1>1. AddInv /\ [COUNT!Next]_(COUNT!vars) => AddInv'
    <2> SUFFICES ASSUME AddInv, [COUNT!Next]_(COUNT!vars) PROVE AddInv'
      OBVIOUS
    <2>1. CASE UNCHANGED COUNT!vars
      BY <2>1 DEF COUNT!vars, AddInv, COUNT!TypeOK, CountInv, Tokens, Weight, AmountInv,
                  LastInv, Last
    <2>2. CASE COUNT!Next
      BY <2>1, <2>2, AddCall, AddExchange, AddReturn, AddPass, AddDestroy
         DEF COUNT!Next, COUNT!Gone
    <2> QED
      BY <2>1, <2>2
  <1>2. AddInv => COUNT!DestroyedByLast
    <2> SUFFICES ASSUME AddInv PROVE COUNT!DestroyedByLast
      OBVIOUS
    <2> DEFINE told == {t \in Holders : apc[t] = "destroy"}
    <2>1. Cardinality(told) \in {0, 1} /\ (Cardinality(told) = 0 <=> told = {})
      <3>1. told = {} \/ \E t \in Holders : told = {t}
        BY DEF AddInv, LastInv, Last
      <3> QED
        BY <3>1, FS_EmptySet, FS_Singleton
    <2>2. told # {} \/ destroyed = 1 => pointer = 0
      BY DEF AddInv, LastInv, Last, COUNT!TypeOK
    <2>3. ~(told # {} /\ destroyed = 1)
      BY DEF AddInv, LastInv, Last
    <2>4. ASSUME pointer = 0, NEW t \in Holders
          PROVE  refs[t] = 0 /\ apc[t] # "called" /\ amount[t] # 1
      <3>1. Weight(t) = 0
        BY <2>4, NothingCounted DEF AddInv
      <3> QED
        BY <3>1 DEF AddInv, COUNT!TypeOK, AmountInv, Weight
    <2>5. (\A t \in Holders : refs[t] = 0 /\ apc[t] = "idle") => destroyed = 1
      <3> SUFFICES ASSUME \A t \in Holders : refs[t] = 0 /\ apc[t] = "idle"
                   PROVE  destroyed = 1
        OBVIOUS
      <3>1. pointer = 0
        BY NothingCounted DEF AddInv, Weight
      <3> QED
        BY <3>1 DEF AddInv, LastInv, Last
    <2>6. COUNT!TypeOK /\ destroyed \in {0, 1}
      BY DEF AddInv, COUNT!TypeOK
    <2> HIDE DEF told
    <2>7. Cardinality(told) + destroyed > 0 =>
            /\ Cardinality(told) + destroyed = 1
            /\ \A t \in Holders : refs[t] = 0 /\ apc[t] # "called" /\ amount[t] # 1
      BY <2>1, <2>2, <2>3, <2>4, <2>6
    <2>8. COUNT!Cardinality(told) = Cardinality(told)
      BY DEF COUNT!Cardinality, Cardinality
    <2> QED
      BY <2>5, <2>6, <2>7, <2>8, Zenon DEF COUNT!DestroyedByLast, told
  <1> QED
    BY <1>1, <1>2, AddInit, PTL DEF COUNT!Spec, DestroyedByLast

-----------------------------------------------------------------------------
\* vasprintf(): an allocation exists exactly while the call has one or has handed it out, and
\* the second attempt has room for what the first one asked for.
StringInv ==
  /\ ASPRINTF!WholeOrNothing
  /\ spc = "start" => live = 0
  /\ spc \in {"first", "larger", "second"} => live = 1
  /\ spc = "first" => string.size = INIT_SZ
  /\ spc = "larger" => sret \in 0 .. LEN_MAX - 1
  /\ spc = "second" => string.size > 0

\* The attempts, the allocations and the caller's free() preserve it.
LEMMA StringNext ==
  ASSUME ASPRINTF!AsprintfAssumption, StringInv, [ASPRINTF!Next]_(ASPRINTF!vars)
  PROVE  StringInv'
  <1> USE DEF StringInv, ASPRINTF!WholeOrNothing, ASPRINTF!TypeOK, ASPRINTF!AsprintfAssumption,
              ASPRINTF!None, ASPRINTF!Goto, ASPRINTF!Fail, ASPRINTF!Formatted
  <1>1. CASE ASPRINTF!Allocate
    BY <1>1 DEF ASPRINTF!Allocate
  <1>2. CASE ASPRINTF!FirstAttempt
    BY <1>2 DEF ASPRINTF!FirstAttempt, ASPRINTF!Fits
  <1>3. CASE ASPRINTF!Reallocate
    BY <1>3 DEF ASPRINTF!Reallocate
  <1>4. CASE ASPRINTF!SecondAttempt
    BY <1>4 DEF ASPRINTF!SecondAttempt
  <1>5. CASE ASPRINTF!Again
    BY <1>5 DEF ASPRINTF!Again
  <1>6. CASE UNCHANGED ASPRINTF!vars
    BY <1>6 DEF ASPRINTF!vars
  <1> QED
    BY <1>1, <1>2, <1>3, <1>4, <1>5, <1>6 DEF ASPRINTF!Next

-----------------------------------------------------------------------------
\* What a cell of getdelim()'s buffer may hold.
Cells == GETDELIM!Chars \cup {GETDELIM!NUL, GETDELIM!Undefined}

\* getdelim(): inside the loop the buffer begins with what was read and has room for one more
\* character and the NUL.
LineInv ==
  /\ GETDELIM!LinesExact
  /\ gpc = "loop" =>
       /\ mem # <<>> /\ ptr = Len(line) /\ ptr + 2 <= bufsiz
       /\ \A k \in 1 .. ptr : line[k] = "x" /\ mem[k] = line[k]


\* The buffer that the program comes with.
LEMMA LineInit ==
  ASSUME GETDELIM!GetdelimAssumption, GETDELIM!Init
  PROVE  LineInv
  <1>1. input \in Seq(GETDELIM!Chars)
    BY DEF GETDELIM!Init, GETDELIM!BoundedSeq, GETDELIM!SeqOf
  <1>2. ASSUME NEW size \in Nat
        PROVE  /\ GETDELIM!Fresh(size) \in Seq({GETDELIM!Undefined})
               /\ Len(GETDELIM!Fresh(size)) = size
    BY DEF GETDELIM!Fresh
  <1>3. /\ mem \in Seq(Cells) /\ bufsiz \in 0 .. SIZE_MAX
        /\ mem # <<>> => bufsiz = Len(mem)
    <2>1. CASE mem = <<>> /\ bufsiz \in {0, SIZE_MAX}
      BY <2>1 DEF GETDELIM!GetdelimAssumption
    <2>2. ASSUME NEW size \in 1 .. 3, mem = GETDELIM!Fresh(size), bufsiz = size
          PROVE  mem \in Seq(Cells) /\ bufsiz \in 0 .. SIZE_MAX /\ bufsiz = Len(mem)
      <3>1. mem \in Seq({GETDELIM!Undefined}) /\ Len(mem) = size
        BY <1>2, <2>2
      <3>2. Seq({GETDELIM!Undefined}) \subseteq Seq(Cells)
        BY DEF Cells
      <3> QED
        BY <2>2, <3>1, <3>2 DEF GETDELIM!GetdelimAssumption
    <2> QED
      BY <2>1, <2>2 DEF GETDELIM!Init
  <1>4. /\ line = <<>> /\ ptr = 0 /\ gpc = "idle" /\ gret = -1 /\ overrun = FALSE
    BY DEF GETDELIM!Init
  <1>5. GETDELIM!TypeOK
    <2>1. line \in Seq(GETDELIM!Chars)
      BY <1>4
    <2>2. overrun \in BOOLEAN
      BY <1>4, Zenon
    <2> QED
      BY <1>1, <1>3, <1>4, <2>1, <2>2 DEF GETDELIM!TypeOK, Cells
  <1> QED
    BY <1>3, <1>4, <1>5 DEF LineInv, GETDELIM!LinesExact

\* What realloc() gives.
LEMMA Reallocated ==
  ASSUME NEW m \in Seq(Cells), NEW size \in Nat
  PROVE  /\ GETDELIM!realloc(m, size) \in Seq(Cells) /\ Len(GETDELIM!realloc(m, size)) = size
         /\ \A k \in 1 .. size : k <= Len(m) => GETDELIM!realloc(m, size)[k] = m[k]
  BY DEF GETDELIM!realloc, Cells

\* A store inside the buffer changes one cell.
LEMMA Stored ==
  ASSUME NEW m \in Seq(Cells), NEW at \in Nat, at < Len(m), NEW c \in Cells
  PROVE  /\ ~GETDELIM!Outside(m, at)
         /\ GETDELIM!Put(m, at, c) \in Seq(Cells) /\ Len(GETDELIM!Put(m, at, c)) = Len(m)
         /\ \A k \in 1 .. Len(m) : k # at + 1 => GETDELIM!Put(m, at, c)[k] = m[k]
         /\ GETDELIM!Put(m, at, c)[at + 1] = c
  BY DEF GETDELIM!Put, GETDELIM!Outside

\* A buffer that agrees with a line up to its length begins with it.
LEMMA Prefix ==
  ASSUME NEW S, NEW T, NEW m \in Seq(S), NEW l \in Seq(T), Len(l) <= Len(m),
         \A k \in 1 .. Len(l) : m[k] = l[k]
  PROVE  SubSeq(m, 1, Len(l)) = l
  <1>1. SubSeq(m, 1, Len(l)) \in Seq(S) /\ Len(SubSeq(m, 1, Len(l))) = Len(l)
    BY SubSeqProperties
  <1>2. \A k \in 1 .. Len(l) : SubSeq(m, 1, Len(l))[k] = l[k]
    BY SubSeqProperties
  <1> QED
    BY <1>1, <1>2, SeqEqual

\* A size that may be doubled is not wrapped.
LEMMA Doubling ==
  ASSUME GETDELIM!GetdelimAssumption, NEW n \in 0 .. SIZE_MAX, n <= SIZE_MAX \div 2
  PROVE  (n * 2) % (SIZE_MAX + 1) = 2 * n /\ 2 * n <= SIZE_MAX
  <1>1. 2 * n <= SIZE_MAX
    BY DEF GETDELIM!GetdelimAssumption
  <1>2. \A a, b \in Nat : a < b => a % b = a
    OBVIOUS
  <1>3. n * 2 = 2 * n /\ 2 * n \in Nat /\ SIZE_MAX + 1 \in Nat /\ 2 * n < SIZE_MAX + 1
    BY <1>1 DEF GETDELIM!GetdelimAssumption
  <1> QED
    BY <1>1, <1>2, <1>3

\* The call finds a buffer that is large enough, or gets one.
LEMMA LineCall ==
  ASSUME GETDELIM!GetdelimAssumption, LineInv, GETDELIM!getdelim
  PROVE  LineInv'
  <1>1. /\ mem \in Seq(Cells) /\ bufsiz \in 0 .. SIZE_MAX /\ (mem # <<>> => bufsiz = Len(mem))
        /\ BUFSIZ \in Nat /\ BUFSIZ >= 2 /\ BUFSIZ <= SIZE_MAX
    BY DEF LineInv, GETDELIM!LinesExact, GETDELIM!TypeOK, Cells, GETDELIM!GetdelimAssumption
  <1>2. /\ line' = <<>> /\ ptr' = 0 /\ input' = input /\ overrun' = overrun
        /\ gpc' = "loop" \/ (gpc' = "idle" /\ gret' = -1)
    BY DEF GETDELIM!getdelim, GETDELIM!Return
  <1>3. /\ mem' \in Seq(Cells) /\ bufsiz' \in 0 .. SIZE_MAX /\ (mem' # <<>> => bufsiz' = Len(mem'))
        /\ gpc' = "loop" => mem' # <<>> /\ bufsiz' >= 2
        /\ gret' \in Int
    <2> gret \in Int
      BY DEF LineInv, GETDELIM!LinesExact, GETDELIM!TypeOK
    <2>1. CASE mem' = GETDELIM!realloc(mem, BUFSIZ) /\ bufsiz' = BUFSIZ /\ gret' = gret
      <3>1. mem' \in Seq(Cells) /\ Len(mem') = BUFSIZ
        BY <1>1, <2>1, Reallocated
      <3>2. mem' # <<>>
        BY <1>1, <3>1
      <3> QED
        BY <1>1, <2>1, <3>1, <3>2
    <2>2. CASE GETDELIM!Return(-1) /\ UNCHANGED <<mem, bufsiz>>
      BY <1>1, <2>2 DEF GETDELIM!Return
    <2>3. CASE mem # <<>> /\ bufsiz >= 2 /\ UNCHANGED <<mem, bufsiz, gret>>
      BY <1>1, <2>3
    <2> QED
      BY <2>1, <2>2, <2>3 DEF GETDELIM!getdelim
  <1>4. input \in Seq(GETDELIM!Chars) /\ overrun = FALSE
    BY DEF LineInv, GETDELIM!LinesExact, GETDELIM!TypeOK
  <1>5. GETDELIM!TypeOK'
    <2>1. line' \in Seq(GETDELIM!Chars) /\ ptr' \in Nat
      BY <1>2
    <2>2. input' \in Seq(GETDELIM!Chars) /\ overrun' \in BOOLEAN
      BY <1>2, <1>4
    <2> QED
      BY <1>2, <1>3, <2>1, <2>2 DEF GETDELIM!TypeOK, Cells
  <1>6. ~overrun'
    BY <1>2, <1>4, Zenon
  <1>7. ~(gpc' = "idle" /\ gret' >= 0)
    BY <1>2
  <1>8. gpc' = "loop" => /\ mem' # <<>> /\ ptr' = Len(line') /\ ptr' + 2 <= bufsiz'
                         /\ \A k \in 1 .. ptr' : line'[k] = "x" /\ mem'[k] = line'[k]
    BY <1>2, <1>3
  <1>9. mem' # <<>> => bufsiz' = Len(mem')
    BY <1>3
  <1> QED
    BY <1>5, <1>6, <1>7, <1>8, <1>9 DEF LineInv, GETDELIM!LinesExact

\* At the end of the input the NUL fits.
LEMMA LineEnd ==
  ASSUME GETDELIM!GetdelimAssumption, LineInv, GETDELIM!EndOfInput
  PROVE  LineInv'
  <1>1. /\ mem \in Seq(Cells) /\ line \in Seq(GETDELIM!Chars) /\ input \in Seq(GETDELIM!Chars)
        /\ bufsiz \in 0 .. SIZE_MAX /\ bufsiz = Len(mem) /\ mem # <<>>
        /\ ptr = Len(line) /\ ptr + 2 <= bufsiz /\ ptr \in Nat /\ overrun = FALSE
        /\ \A k \in 1 .. ptr : line[k] = "x" /\ mem[k] = line[k]
    BY DEF GETDELIM!EndOfInput, LineInv, GETDELIM!LinesExact, GETDELIM!TypeOK, Cells
  <1>2. input' = input /\ bufsiz' = bufsiz /\ ptr' = ptr /\ line' = line /\ gpc' = "idle"
    BY DEF GETDELIM!EndOfInput, GETDELIM!Return
  <1>3. CASE gret' = -1 /\ UNCHANGED <<mem, overrun>>
    BY <1>1, <1>2, <1>3 DEF LineInv, GETDELIM!LinesExact, GETDELIM!TypeOK, Cells
  <1>4. CASE /\ input = <<>> /\ mem' = GETDELIM!Put(mem, ptr, GETDELIM!NUL)
             /\ overrun' = (overrun \/ GETDELIM!Outside(mem, ptr)) /\ gret' = ptr
    <2> DEFINE m == GETDELIM!Put(mem, ptr, GETDELIM!NUL)
    <2>1. /\ ~GETDELIM!Outside(mem, ptr)
          /\ m \in Seq(Cells) /\ Len(m) = Len(mem) /\ m[ptr + 1] = GETDELIM!NUL
          /\ \A k \in 1 .. Len(mem) : k # ptr + 1 => m[k] = mem[k]
      <3>1. ptr \in Nat /\ ptr < Len(mem) /\ GETDELIM!NUL \in Cells
        BY <1>1 DEF Cells
      <3> QED
        BY <1>1, <3>1, Stored
    <2> HIDE DEF m
    <2>2. /\ mem' \in Seq(Cells) /\ Len(mem') = Len(mem) /\ mem'[ptr + 1] = GETDELIM!NUL
          /\ \A k \in 1 .. ptr : mem'[k] = line[k]
      <3>1. mem' = m
        BY <1>4 DEF m
      <3>2. \A k \in 1 .. ptr : k \in 1 .. Len(mem) /\ k # ptr + 1
        BY <1>1
      <3>3. \A k \in 1 .. ptr : m[k] = line[k]
        BY <1>1, <2>1, <3>2
      <3> QED
        BY <2>1, <3>1, <3>3
    <2>5. overrun' = FALSE
      BY <1>1, <1>4, <2>1, Zenon
    <2>3. SubSeq(mem', 1, ptr) = line
      BY <1>1, <2>2, Prefix
    <2>4. mem' # <<>>
      BY <1>1, <2>2
    <2> QED
      BY <1>1, <1>2, <1>4, <2>2, <2>3, <2>4, <2>5
         DEF LineInv, GETDELIM!LinesExact, GETDELIM!TypeOK, Cells
  <1> QED
    BY <1>3, <1>4 DEF GETDELIM!EndOfInput, GETDELIM!Return


\* A character that is stored leaves room for the next one and the NUL: either there was more
\* room than that, or the buffer is made twice as large without wrapping its size.
LEMMA LineCharacter ==
  ASSUME GETDELIM!GetdelimAssumption, LineInv, GETDELIM!Character
  PROVE  LineInv'
  <1> DEFINE c == Head(input)
             m == GETDELIM!Put(mem, ptr, c)
             p == ptr + 1
             doubled == (bufsiz * 2) % (SIZE_MAX + 1)
  <1>1. /\ mem \in Seq(Cells) /\ line \in Seq(GETDELIM!Chars) /\ input \in Seq(GETDELIM!Chars)
        /\ bufsiz \in 0 .. SIZE_MAX /\ bufsiz = Len(mem) /\ mem # <<>> /\ input # <<>>
        /\ ptr = Len(line) /\ ptr + 2 <= bufsiz /\ ptr \in Nat /\ gret \in Int
        /\ \A k \in 1 .. ptr : line[k] = "x" /\ mem[k] = line[k]
    BY DEF GETDELIM!Character, LineInv, GETDELIM!LinesExact, GETDELIM!TypeOK, Cells
  <1>2. overrun = FALSE
    BY DEF LineInv, GETDELIM!LinesExact, GETDELIM!TypeOK
  <1>3. c \in GETDELIM!Chars /\ c \in Cells /\ Tail(input) \in Seq(GETDELIM!Chars) /\ p \in Nat
    BY <1>1 DEF Cells
  <1>4. /\ ~GETDELIM!Outside(mem, ptr)
        /\ m \in Seq(Cells) /\ Len(m) = Len(mem) /\ m[p] = c
        /\ \A k \in 1 .. Len(mem) : k # p => m[k] = mem[k]
    <2> HIDE DEF c
    <2>1. mem \in Seq(Cells) /\ ptr \in Nat /\ ptr < Len(mem) /\ c \in Cells
      BY <1>1, <1>3
    <2> QED
      BY <2>1, Stored, Zenon
  <1>5. /\ ~GETDELIM!Outside(m, p)
        /\ GETDELIM!Put(m, p, GETDELIM!NUL) \in Seq(Cells)
        /\ Len(GETDELIM!Put(m, p, GETDELIM!NUL)) = Len(mem)
        /\ GETDELIM!Put(m, p, GETDELIM!NUL)[p + 1] = GETDELIM!NUL
        /\ \A k \in 1 .. Len(mem) : k # p + 1 => GETDELIM!Put(m, p, GETDELIM!NUL)[k] = m[k]
    <2> HIDE DEF m
    <2>1. p < Len(m) /\ GETDELIM!NUL \in Cells
      BY <1>1, <1>4 DEF Cells
    <2>2. m \in Seq(Cells) /\ p \in Nat /\ Len(m) = Len(mem)
      BY <1>3, <1>4
    <2> HIDE DEF p
    <2>3. /\ ~GETDELIM!Outside(m, p)
          /\ GETDELIM!Put(m, p, GETDELIM!NUL) \in Seq(Cells)
          /\ Len(GETDELIM!Put(m, p, GETDELIM!NUL)) = Len(m)
          /\ GETDELIM!Put(m, p, GETDELIM!NUL)[p + 1] = GETDELIM!NUL
          /\ \A k \in 1 .. Len(m) : k # p + 1 => GETDELIM!Put(m, p, GETDELIM!NUL)[k] = m[k]
      BY <2>1, <2>2, Stored, Zenon
    <2> QED
      BY <2>2, <2>3, Zenon
  <1>6. /\ input' = Tail(input) /\ line' = Append(line, c) /\ ptr' = p
        /\ \/ /\ c = "d" /\ mem' = GETDELIM!Put(m, p, GETDELIM!NUL)
              /\ overrun' = (overrun \/ GETDELIM!Outside(mem, ptr) \/ GETDELIM!Outside(m, p))
              /\ gpc' = "idle" /\ gret' = p /\ bufsiz' = bufsiz
           \/ /\ c # "d" /\ overrun' = (overrun \/ GETDELIM!Outside(mem, ptr))
              /\ \/ ~GETDELIM!Full(p) /\ mem' = m /\ UNCHANGED <<bufsiz, gpc, gret>>
                 \/ mem' = m /\ gpc' = "idle" /\ gret' = -1 /\ bufsiz' = bufsiz
                 \/ /\ bufsiz <= SIZE_MAX \div 2
                    /\ mem' = GETDELIM!realloc(m, doubled) /\ bufsiz' = doubled
                    /\ UNCHANGED <<gpc, gret>>
        /\ gpc = "loop"
    BY DEF GETDELIM!Character, GETDELIM!Return
  <1> HIDE DEF c, m, doubled
  <1>7. overrun' = FALSE
    BY <1>2, <1>4, <1>5, <1>6, Zenon
  <1>8. overrun' \in BOOLEAN /\ ~overrun'
    BY <1>7, Zenon
  <1>9. /\ line' \in Seq(GETDELIM!Chars) /\ Len(line') = p /\ line'[p] = c
        /\ \A k \in 1 .. ptr : line'[k] = line[k]
    BY <1>1, <1>3, <1>6, AppendProperties
  <1>10. \A k \in 1 .. p : m[k] = line'[k]
    <2> SUFFICES ASSUME NEW k \in 1 .. p PROVE m[k] = line'[k]
      OBVIOUS
    <2>1. CASE k = p
      BY <1>4, <1>9, <2>1
    <2>2. CASE k # p
      <3>1. k \in 1 .. ptr /\ k \in 1 .. Len(mem)
        BY <1>1, <2>2
      <3> QED
        BY <1>1, <1>4, <1>9, <2>2, <3>1
    <2> QED
      BY <2>1, <2>2
  <1>11. \A k \in 1 .. ptr : line'[k] = "x"
    BY <1>1, <1>9
  <1>12. input' \in Seq(GETDELIM!Chars) /\ ptr' = p /\ ptr' \in Nat
    BY <1>3, <1>6
  <1> HIDE DEF p
  <1>13. CASE c = "d"
    <2>1. /\ mem' = GETDELIM!Put(m, p, GETDELIM!NUL) /\ gpc' = "idle" /\ gret' = p
          /\ bufsiz' = bufsiz
      BY <1>6, <1>13
    <2>2. /\ mem' \in Seq(Cells) /\ Len(mem') = Len(mem) /\ mem'[p + 1] = GETDELIM!NUL
          /\ \A k \in 1 .. p : mem'[k] = line'[k]
      <3>1. \A k \in 1 .. p : k \in 1 .. Len(mem) /\ k # p + 1
        BY <1>1 DEF p
      <3> QED
        BY <1>5, <1>10, <2>1, <3>1
    <2>3. SubSeq(mem', 1, p) = line'
      BY <1>1, <1>9, <2>2, Prefix DEF p
    <2>4. mem' # <<>> /\ gret' \in Int /\ p - 1 = ptr
      BY <1>1, <2>1, <2>2 DEF p
    <2>5. GETDELIM!TypeOK'
      BY <1>1, <1>8, <1>9, <1>12, <2>1, <2>2, <2>4 DEF GETDELIM!TypeOK, Cells
    <2> QED
      BY <1>1, <1>8, <1>9, <1>11, <1>13, <2>1, <2>2, <2>3, <2>4, <2>5
         DEF LineInv, GETDELIM!LinesExact
  <1>14. ASSUME c # "d", mem' = m, bufsiz' = bufsiz, gpc' = "idle", gret' = -1
         PROVE  LineInv'
    <2>1. GETDELIM!TypeOK'
      BY <1>1, <1>4, <1>8, <1>9, <1>12, <1>14 DEF GETDELIM!TypeOK, Cells
    <2> QED
      BY <1>1, <1>4, <1>8, <1>14, <2>1 DEF LineInv, GETDELIM!LinesExact
  <1>15. ASSUME c # "d", gpc' = gpc, gret' = gret, mem' \in Seq(Cells), mem' # <<>>,
                bufsiz' \in 0 .. SIZE_MAX, bufsiz' = Len(mem'), p + 2 <= bufsiz',
                \A k \in 1 .. p : mem'[k] = m[k]
         PROVE  LineInv'
    <2>1. GETDELIM!TypeOK'
      BY <1>1, <1>6, <1>8, <1>9, <1>12, <1>15 DEF GETDELIM!TypeOK, Cells
    <2>2. c = "x"
      BY <1>3, <1>15 DEF GETDELIM!Chars
    <2>3. \A k \in 1 .. p : line'[k] = "x" /\ mem'[k] = line'[k]
      <3> SUFFICES ASSUME NEW k \in 1 .. p PROVE line'[k] = "x" /\ mem'[k] = line'[k]
        OBVIOUS
      <3>1. k = p \/ k \in 1 .. ptr
        BY <1>1 DEF p
      <3>2. line'[k] = "x"
        BY <1>9, <1>11, <2>2, <3>1
      <3> QED
        BY <1>10, <1>15, <3>2
    <2> QED
      BY <1>6, <1>8, <1>9, <1>12, <1>15, <2>1, <2>3 DEF LineInv, GETDELIM!LinesExact
  <1>16. CASE c # "d" /\ ~GETDELIM!Full(p) /\ mem' = m /\ UNCHANGED <<bufsiz, gpc, gret>>
    <2>1. p + 2 <= bufsiz
      BY <1>1, <1>16 DEF GETDELIM!Full, p
    <2>2. m # <<>>
      BY <1>1, <1>4
    <2> QED
      BY <1>1, <1>4, <1>15, <1>16, <2>1, <2>2
  <1>17. CASE /\ c # "d" /\ bufsiz <= SIZE_MAX \div 2
              /\ mem' = GETDELIM!realloc(m, doubled) /\ bufsiz' = doubled
              /\ UNCHANGED <<gpc, gret>>
    <2>1. doubled = 2 * bufsiz /\ 2 * bufsiz <= SIZE_MAX
      BY <1>1, <1>17, Doubling DEF doubled
    <2>2. doubled \in Nat /\ doubled <= SIZE_MAX /\ p + 2 <= doubled /\ doubled >= Len(m)
      BY <1>1, <1>4, <2>1 DEF p, GETDELIM!GetdelimAssumption
    <2>3. /\ mem' \in Seq(Cells) /\ Len(mem') = doubled
          /\ \A k \in 1 .. doubled : k <= Len(m) => mem'[k] = m[k]
      BY <1>4, <1>17, <2>2, Reallocated
    <2>4. mem' # <<>> /\ \A k \in 1 .. p : mem'[k] = m[k]
      BY <1>1, <1>4, <2>2, <2>3 DEF p
    <2> QED
      BY <1>15, <1>17, <2>2, <2>3, <2>4 DEF GETDELIM!GetdelimAssumption
  <1> QED
    BY <1>6, <1>13, <1>14, <1>16, <1>17

\* Every step of getdelim() and of vasprintf() preserves what is claimed of it, and nothing
\* that one of them does touches the other.
LEMMA LineNext ==
  ASSUME GETDELIM!GetdelimAssumption, LineInv, [GETDELIM!Next]_(GETDELIM!vars)
  PROVE  LineInv'
  <1>1. CASE UNCHANGED GETDELIM!vars
    BY <1>1 DEF GETDELIM!vars, LineInv, GETDELIM!LinesExact, GETDELIM!TypeOK
  <1> QED
    BY <1>1, LineCall, LineEnd, LineCharacter DEF GETDELIM!Next

(***************************************************************************)
(* getdelim() stores nothing outside the buffer and returns exact records, *)
(* and vasprintf() returns the whole string or nothing, for every size of  *)
(* their buffers, every width of the size types and every input, whichever *)
(* allocation fails.                                                       *)
(***************************************************************************)
THEOREM BuffersHold ==
  ASSUME GETDELIM!GetdelimAssumption, ASPRINTF!AsprintfAssumption
  PROVE  GETDELIM!Spec /\ ASPRINTF!Spec => []BuffersExact
  <1>1. ASPRINTF!Init => StringInv
    BY DEF ASPRINTF!Init, StringInv, ASPRINTF!WholeOrNothing, ASPRINTF!TypeOK, ASPRINTF!None,
           ASPRINTF!AsprintfAssumption
  <1>2. StringInv /\ [ASPRINTF!Next]_(ASPRINTF!vars) => StringInv'
    BY StringNext
  <1>3. GETDELIM!Init => LineInv
    BY LineInit
  <1>4. LineInv /\ [GETDELIM!Next]_(GETDELIM!vars) => LineInv'
    BY LineNext
  <1>5. LineInv /\ StringInv => BuffersExact
    BY DEF LineInv, StringInv, BuffersExact
  <1> QED
    BY <1>1, <1>2, <1>3, <1>4, <1>5, PTL DEF GETDELIM!Spec, ASPRINTF!Spec

-----------------------------------------------------------------------------
\* endian.h: a number of w bytes.
Numbers(w) == [BYTES!Places(w) -> Bytes]

\* The byte that a sum of terms has where one term has it and the others have 0.
LEMMA LargestByte ==
  ASSUME BYTES!BytesAssumption, NEW S, S \subseteq Nat, NEW b \in S, \A y \in S : y = 0 \/ y = b
  PROVE  BYTES!Max(S) = b
  <1>1. b \in S /\ \A y \in S : b >= y
    OBVIOUS
  <1>2. \A x \in S : (\A y \in S : x >= y) => x = b
    <2> SUFFICES ASSUME NEW x \in S, \A y \in S : x >= y PROVE x = b
      OBVIOUS
    <2>1. x >= b /\ b >= x /\ x \in Nat /\ b \in Nat
      BY <1>1
    <2> QED
      BY <2>1
  <1> QED
    BY <1>1, <1>2 DEF BYTES!Max

\* The shifts of the table mirror the bytes.
LEMMA Mirrored ==
  ASSUME NEW w \in {4, 8}, NEW k \in BYTES!Places(w)
  PROVE  BYTES!Shifts(w)[k + 1] \div 8 = w - 1 - 2 * k
  <1>1. CASE w = 4
    <2>1. k \in {0, 1, 2, 3}
      BY <1>1 DEF BYTES!Places
    <2> QED
      BY <1>1, <2>1 DEF BYTES!Shifts
  <1>2. CASE w = 8
    <2>1. k \in {0, 1, 2, 3, 4, 5, 6, 7}
      BY <1>2 DEF BYTES!Places
    <2> QED
      BY <1>2, <2>1 DEF BYTES!Shifts
  <1> QED
    BY <1>1, <1>2

\* A term of the sums: byte k at the mirrored place, and 0 elsewhere.
LEMMA OneByte ==
  ASSUME NEW w \in {4, 8}, NEW x \in Numbers(w), NEW k \in BYTES!Places(w)
  PROVE  BYTES!Moved(x, k, w) = [i \in BYTES!Places(w) |-> IF i = w - 1 - k THEN x[k] ELSE 0]
  <1> DEFINE n == BYTES!Shifts(w)[k + 1] \div 8
  <1>1. n = w - 1 - 2 * k
    BY Mirrored
  <1> HIDE DEF n
  <1>2. BYTES!Moved(x, k, w) = BYTES!Shift(BYTES!Mask(x, k), n, w)
    BY DEF BYTES!Moved, n
  <1>3. \A i \in BYTES!Places(w) :
          (IF i - n \in BYTES!Places(w) THEN BYTES!Mask(x, k)[i - n] ELSE 0)
            = IF i = w - 1 - k THEN x[k] ELSE 0
    BY <1>1 DEF BYTES!Mask, BYTES!Places, Numbers
  <1> QED
    BY <1>2, <1>3 DEF BYTES!Shift


\* A sum of terms that have one number's byte or 0 at every place, and the byte in some term.
LEMMA SumOfBytes ==
  ASSUME BYTES!BytesAssumption, NEW w \in {4, 8}, NEW y \in Numbers(w), NEW terms,
         \A i \in BYTES!Places(w) : /\ \A x \in terms : x[i] = 0 \/ x[i] = y[i]
                                    /\ \E x \in terms : x[i] = y[i]
  PROVE  BYTES!Or(terms, w) = y
  <1>1. ASSUME NEW i \in BYTES!Places(w) PROVE BYTES!Max({x[i] : x \in terms}) = y[i]
    <2> DEFINE S == {x[i] : x \in terms}
    <2>1. y[i] \in Nat
      BY DEF Numbers, BYTES!BytesAssumption
    <2>2. S \subseteq Nat /\ y[i] \in S /\ \A b \in S : b = 0 \/ b = y[i]
      BY <2>1
    <2> HIDE DEF S
    <2>3. BYTES!Max(S) = y[i]
      BY <2>2, LargestByte
    <2> QED
      BY <2>3 DEF S
  <1>2. BYTES!Or(terms, w) = [i \in BYTES!Places(w) |-> y[i]]
    BY <1>1 DEF BYTES!Or
  <1> QED
    BY <1>2 DEF Numbers

\* The mirrored number.
LEMMA Swapped ==
  ASSUME NEW w \in {2, 4, 8}, NEW x \in Numbers(w)
  PROVE  /\ BYTES!Swap(x, w) \in Numbers(w)
         /\ \A i \in BYTES!Places(w) : BYTES!Swap(x, w)[i] = x[w - 1 - i]
         /\ BYTES!Swap(BYTES!Swap(x, w), w) = x
  <1>1. \A i \in BYTES!Places(w) : w - 1 - i \in BYTES!Places(w) /\ w - 1 - (w - 1 - i) = i
    BY DEF BYTES!Places
  <1>2. /\ BYTES!Swap(x, w) \in Numbers(w)
        /\ \A i \in BYTES!Places(w) : BYTES!Swap(x, w)[i] = x[w - 1 - i]
    BY <1>1 DEF BYTES!Swap, Numbers
  <1>3. \A i \in BYTES!Places(w) : BYTES!Swap(x, w)[w - 1 - i] = x[i]
    BY <1>1, <1>2
  <1>4. BYTES!Swap(BYTES!Swap(x, w), w) = [i \in BYTES!Places(w) |-> x[i]]
    BY <1>3 DEF BYTES!Swap
  <1> QED
    BY <1>2, <1>4 DEF Numbers

\* The bodies for AIX that shift and mask mirror the number: le32toh and le64toh ...
LEMMA letohSwaps ==
  ASSUME BYTES!BytesAssumption, NEW w \in {4, 8}, NEW x \in Numbers(w)
  PROVE  BYTES!letoh(x, w) = BYTES!Swap(x, w)
  <1> DEFINE terms == {BYTES!Moved(x, k, w) : k \in BYTES!Places(w)}
  <1>1. ASSUME NEW i \in BYTES!Places(w)
        PROVE  /\ \A t \in terms : t[i] = 0 \/ t[i] = BYTES!Swap(x, w)[i]
               /\ \E t \in terms : t[i] = BYTES!Swap(x, w)[i]
    <2>1. /\ w - 1 - i \in BYTES!Places(w)
          /\ \A k \in BYTES!Places(w) : i = w - 1 - k <=> k = w - 1 - i
      BY DEF BYTES!Places
    <2>2. BYTES!Swap(x, w)[i] = x[w - 1 - i]
      BY Swapped
    <2>3. \A k \in BYTES!Places(w) : BYTES!Moved(x, k, w)[i] = IF k = w - 1 - i THEN x[k] ELSE 0
      BY <2>1, OneByte
    <2> QED
      BY <2>1, <2>2, <2>3
  <1>2. BYTES!Swap(x, w) \in Numbers(w)
    BY Swapped
  <1> HIDE DEF terms
  <1>3. BYTES!Or(terms, w) = BYTES!Swap(x, w)
    BY <1>1, <1>2, SumOfBytes
  <1> QED
    BY <1>3 DEF BYTES!letoh, terms

\* ... htole64, whose outer terms are not masked but lose the other bytes by the shift ...
LEMMA htole64Swaps ==
  ASSUME BYTES!BytesAssumption, NEW x \in Numbers(8)
  PROVE  BYTES!htole64(x) = BYTES!Swap(x, 8)
  <1>1. BYTES!Shift(x, 7, 8) = BYTES!Moved(x, 0, 8)
    <2>1. BYTES!Moved(x, 0, 8) = [i \in BYTES!Places(8) |-> IF i = 8 - 1 - 0 THEN x[0] ELSE 0]
      BY OneByte DEF BYTES!Places
    <2>2. \A i \in BYTES!Places(8) : (IF i - 7 \in BYTES!Places(8) THEN x[i - 7] ELSE 0)
                                       = IF i = 8 - 1 - 0 THEN x[0] ELSE 0
      BY DEF BYTES!Places
    <2> QED
      BY <2>1, <2>2 DEF BYTES!Shift
  <1>2. BYTES!Shift(x, -7, 8) = BYTES!Moved(x, 7, 8)
    <2>1. BYTES!Moved(x, 7, 8) = [i \in BYTES!Places(8) |-> IF i = 8 - 1 - 7 THEN x[7] ELSE 0]
      BY OneByte DEF BYTES!Places
    <2>2. \A i \in BYTES!Places(8) : (IF i - (-7) \in BYTES!Places(8) THEN x[i - (-7)] ELSE 0)
                                       = IF i = 8 - 1 - 7 THEN x[7] ELSE 0
      BY DEF BYTES!Places
    <2> QED
      BY <2>1, <2>2 DEF BYTES!Shift
  <1>3. BYTES!Places(8) = {0, 7} \cup 1 .. 6
    BY DEF BYTES!Places
  <1>4. {BYTES!Shift(x, 7, 8), BYTES!Shift(x, -7, 8)} \cup {BYTES!Moved(x, k, 8) : k \in 1 .. 6}
          = {BYTES!Moved(x, k, 8) : k \in BYTES!Places(8)}
    BY <1>1, <1>2, <1>3
  <1>5. BYTES!htole64(x) = BYTES!letoh(x, 8)
    BY <1>4 DEF BYTES!htole64, BYTES!letoh
  <1> QED
    BY <1>5, letohSwaps

\* ... and htole64 for compilers without __BYTE_ORDER__.
LEMMA PlainSwaps ==
  ASSUME NEW x \in Numbers(8)
  PROVE  BYTES!htole64_plain(x) = BYTES!Swap(x, 8)
  <1>1. \A i \in BYTES!Places(8) : 7 - i \in BYTES!Places(8) /\ 8 - 1 - i = 7 - i
    BY DEF BYTES!Places
  <1> QED
    BY <1>1 DEF BYTES!htole64_plain, BYTES!Swap

\* ntohll on Windows, out of two halves.
LEMMA ntohllSwaps ==
  ASSUME BYTES!BytesAssumption, NEW x \in Numbers(8)
  PROVE  BYTES!ntohll(x) = BYTES!Swap(x, 8)
  <1> DEFINE low == [i \in BYTES!Places(4) |-> x[i]]
             high == [i \in BYTES!Places(4) |-> x[i + 4]]
             wide(h) == [i \in BYTES!Places(8) |-> IF i < 4 THEN h[i] ELSE 0]
             upper == BYTES!Shift(wide(BYTES!Swap(low, 4)), 4, 8)
             lower == wide(BYTES!Swap(high, 4))
  <1>1. /\ \A i \in BYTES!Places(4) : BYTES!Swap(low, 4)[i] = x[3 - i]
        /\ \A i \in BYTES!Places(4) : BYTES!Swap(high, 4)[i] = x[7 - i]
    BY DEF BYTES!Swap, BYTES!Places
  <1>2. \A i \in BYTES!Places(8) : lower[i] = IF i < 4 THEN x[7 - i] ELSE 0
    BY <1>1 DEF BYTES!Places
  <1>3. \A i \in BYTES!Places(8) : upper[i] = IF i < 4 THEN 0 ELSE x[7 - i]
    BY <1>1 DEF BYTES!Places, BYTES!Shift
  <1>4. BYTES!Swap(x, 8) \in Numbers(8) /\ \A i \in BYTES!Places(8) : BYTES!Swap(x, 8)[i] = x[7 - i]
    BY Swapped DEF BYTES!Places
  <1>5. BYTES!ntohll(x) = BYTES!Or({upper, lower}, 8)
    BY DEF BYTES!ntohll
  <1> HIDE DEF upper, lower
  <1>6. \A i \in BYTES!Places(8) :
          /\ \A t \in {upper, lower} : t[i] = 0 \/ t[i] = BYTES!Swap(x, 8)[i]
          /\ \E t \in {upper, lower} : t[i] = BYTES!Swap(x, 8)[i]
    BY <1>2, <1>3, <1>4 DEF BYTES!Places
  <1>7. BYTES!Or({upper, lower}, 8) = BYTES!Swap(x, 8)
    BY <1>4, <1>6, SumOfBytes
  <1> QED
    BY <1>5, <1>7

\* What every body comes to: a conversion to the host's own order does nothing, and one to
\* the other order mirrors the number.
LEMMA ConversionsMirror ==
  ASSUME BYTES!BytesAssumption, NEW h \in BYTES!Hosts, NEW o \in {"be", "le"},
         NEW w \in {2, 4, 8}, o = "le" => w # 2, NEW x \in Numbers(w)
  PROVE  LET own == (h = "windows") <=> (o = "le")
         IN  /\ BYTES!ToWire(h, o, w, x) = IF own THEN x ELSE BYTES!Swap(x, w)
             /\ BYTES!ToHost(h, o, w, x) = IF own THEN x ELSE BYTES!Swap(x, w)
  <1>1. w = 8 => BYTES!ntohll(x) = BYTES!Swap(x, w)
    BY ntohllSwaps
  <1>2. w # 2 => BYTES!letoh(x, w) = BYTES!Swap(x, w)
    BY letohSwaps
  <1>3. w = 8 => BYTES!htole64(x) = BYTES!Swap(x, w) /\ BYTES!htole64_plain(x) = BYTES!Swap(x, w)
    BY htole64Swaps, PlainSwaps
  <1> HIDE DEF Numbers
  <1>4. CASE h = "windows"
    BY <1>1, <1>4 DEF BYTES!ToWire, BYTES!ToHost
  <1>5. CASE h = "aix"
    BY <1>2, <1>3, <1>5 DEF BYTES!ToWire, BYTES!ToHost
  <1>6. CASE h = "aix-plain"
    BY <1>2, <1>3, <1>6 DEF BYTES!ToWire, BYTES!ToHost
  <1> QED
    BY <1>4, <1>5, <1>6 DEF BYTES!Hosts

\* The conversion and the hosts are chosen once; the rest is the property.
WireInv ==
  /\ WireAgrees
  /\ host \in BYTES!Hosts \X BYTES!Hosts
  /\ order \in {"be", "le"} /\ width \in {2, 4, 8} /\ (order = "le" => width # 2)
  /\ value \in Numbers(width)

(***************************************************************************)
(* Hosts agree about the bytes on the wire, for every number and whatever  *)
(* the values of a byte: whichever definitions of endian.h sender and      *)
(* receiver compile, the bytes sent are the number in the order asked for  *)
(* and the number received is the one that was sent.                       *)
(***************************************************************************)
THEOREM HostsAgree ==
  ASSUME BYTES!BytesAssumption
  PROVE  BYTES!Spec => []WireAgrees
  <1> USE DEF WireInv, WireAgrees, BYTES!WireAgrees
  <1>1. BYTES!Init => WireInv
    BY DEF BYTES!Init, BYTES!Conversions, Numbers
  <1>2. WireInv /\ [BYTES!Next]_(BYTES!vars) => WireInv'
    <2> SUFFICES ASSUME WireInv, [BYTES!Next]_(BYTES!vars) PROVE WireInv'
      OBVIOUS
    <2>1. host[1] \in BYTES!Hosts /\ host[2] \in BYTES!Hosts
      OBVIOUS
    <2>2. /\ BYTES!Swap(value, width) \in Numbers(width)
          /\ BYTES!Swap(BYTES!Swap(value, width), width) = value
      BY Swapped
    <2>3. CASE BYTES!Send
      <3>1. wire' = IF order = "le" THEN value ELSE BYTES!Swap(value, width)
        BY <2>1, <2>2, <2>3, ConversionsMirror DEF BYTES!Send, BYTES!Memory
      <3> QED
        BY <2>3, <3>1 DEF BYTES!Send
    <2>4. CASE BYTES!Receive
      <3>1. got' = value
        <4>1. wire = IF order = "le" THEN value ELSE BYTES!Swap(value, width)
          BY <2>4 DEF BYTES!Receive
        <4>2. BYTES!Memory(host[2], wire, width)
                = IF (host[2] = "windows") <=> (order = "le") THEN value
                  ELSE BYTES!Swap(value, width)
          BY <2>2, <4>1 DEF BYTES!Memory
        <4> QED
          BY <2>1, <2>2, <2>4, <4>2, ConversionsMirror DEF BYTES!Receive
      <3> QED
        BY <2>4, <3>1 DEF BYTES!Receive
    <2>5. CASE UNCHANGED BYTES!vars
      BY <2>5 DEF BYTES!vars
    <2> QED
      BY <2>3, <2>4, <2>5 DEF BYTES!Next
  <1>3. WireInv => WireAgrees
    OBVIOUS
  <1> QED
    BY <1>1, <1>2, <1>3, PTL DEF BYTES!Spec

-----------------------------------------------------------------------------
(***************************************************************************)
(* Lists (Queue).  The argument: AfterInsert, AfterRemove, AfterReplace    *)
(* and AfterConcat say what a change between two cells makes of the        *)
(* pointers, and the pointers that result are those of the changed list    *)
(* (InsertPointed, RemovePointed, ReplacePointed, ConcatPointed); each     *)
(* macro makes exactly such a change (LinkInserts, LinkTailInserts,        *)
(* LinkBeforeInserts, UnlinkAfterRemoves, UnlinkRemoves, ExchangeReplaces, *)
(* SpliceConcats); so every operation preserves ListInv.                   *)
(***************************************************************************)
\* Addresses as a program sees them, and as a field may hold them.
Plain == QUEUE!Cells \cup {NIL}
Address == Plain \cup (Heads \X Plain)
Encoded(kd, h, a) == IF kd = "XSIMPLEQ" THEN <<h, a>> ELSE a

\* The cell in front of element number k + 1 of the list s of h; element number k, NIL past
\* the end.
CellAt(s, h, k) == IF k = 0 THEN h ELSE s[k]
ElementAt(s, k) == IF k <= Len(s) THEN s[k] ELSE NIL

\* Lists are sequences of elements, and no element occurs twice, in one list or in two.
Apart(l) ==
  /\ l \in [Heads -> Seq(Elements)]
  /\ \A g, h \in Heads : \A i \in 1 .. Len(l[g]), j \in 1 .. Len(l[h]) :
       l[g][i] = l[h][j] => g = h /\ i = j

\* The pointers p are the ones that lists l of kind kd have.
FieldsTyped(p) ==
  p \in [next : [QUEUE!Cells -> Address], prev : [Elements -> Plain], last : [Heads -> Address]]
NextRight(kd, p, l) ==
  \A h \in Heads : \A k \in 0 .. Len(l[h]) :
    p.next[CellAt(l[h], h, k)] = Encoded(kd, h, ElementAt(l[h], k + 1))
PrevRight(kd, p, l) ==
  \A h \in Heads : \A k \in 1 .. Len(l[h]) :
    p.prev[l[h][k]] = IF kd \in {"LIST", "TAILQ"} THEN CellAt(l[h], h, k - 1) ELSE NIL
LastRight(kd, p, l) ==
  \A h \in Heads :
    p.last[h] = IF kd \in {"SIMPLEQ", "XSIMPLEQ", "TAILQ"}
                THEN Encoded(kd, h, CellAt(l[h], h, Len(l[h]))) ELSE NIL
OutsideNull(p, l) ==
  \A e \in Elements : (\A h \in Heads : \A k \in 1 .. Len(l[h]) : l[h][k] # e)
                        => p.next[e] = NIL /\ p.prev[e] = NIL

Pointed(kd, p, l) ==
  /\ Apart(l)
  /\ FieldsTyped(p) /\ NextRight(kd, p, l) /\ PrevRight(kd, p, l) /\ LastRight(kd, p, l)
  /\ OutsideNull(p, l)

\* e is in none of the lists.
Outside(l, e) == \A h \in Heads : \A k \in 1 .. Len(l[h]) : l[h][k] # e

\* A loop with todo before it, of n elements, finds number k of them at this place of s: going
\* forwards they are the last n elements, going back the first n.
LoopPlace(s, n, back, k) == IF back THEN n + 1 - k ELSE Len(s) - n + k
Ahead(s, todo, back, k) ==
  /\ LoopPlace(s, Len(todo), back, k) \in 1 .. Len(s)
  /\ s[LoopPlace(s, Len(todo), back, k)] = todo[k]

\* A loop has its current element, unless the body has removed it, and all that follow it in
\* its direction still before it.
Looping(kd, lp, l) ==
  IF lp.on
  THEN /\ lp \in [on : {TRUE}, head : Heads, back : BOOLEAN, var : Elements, tvar : Plain,
                  todo : Seq(Elements)]
       /\ Len(lp.todo) > 0 /\ (lp.back => kd = "TAILQ")
       /\ lp.var = lp.todo[1] /\ lp.tvar = ElementAt(lp.todo, 2)
       /\ \A k \in 2 .. Len(lp.todo) : Ahead(l[lp.head], lp.todo, lp.back, k)
       /\ ~Outside(l, lp.var) => Ahead(l[lp.head], lp.todo, lp.back, 1)
  ELSE lp = QUEUE!NoLoop

Kinds == {"SLIST", "LIST", "SIMPLEQ", "XSIMPLEQ", "TAILQ"}
ListInv == kind \in Kinds /\ Pointed(kind, q, list) /\ Looping(kind, loop, list)

-----------------------------------------------------------------------------
\* XSIMPLEQ_XOR with the cookie of one head puts a pointer into its stored form and back.
LEMMA Xored ==
  ASSUME QUEUE!QueueAssumption, NEW h \in Heads, NEW a \in Plain
  PROVE  /\ QUEUE!XOR(h, a) = Encoded(kind, h, a)
         /\ QUEUE!XOR(h, Encoded(kind, h, a)) = a
  <1>1. CASE kind # "XSIMPLEQ"
    BY <1>1 DEF QUEUE!XOR, Encoded
  <1>2. CASE kind = "XSIMPLEQ"
    <2>1. <<h, a>> \in {h} \X Plain /\ <<h, a>>[2] = a
      OBVIOUS
    <2>2. a \notin {h} \X Plain
      BY DEF QUEUE!QueueAssumption, Plain
    <2> QED
      BY <1>2, <2>1, <2>2 DEF QUEUE!XOR, Encoded, Plain
  <1> QED
    BY <1>1, <1>2

\* The stored form loses nothing.
LEMMA StoredForm ==
  ASSUME NEW kd, NEW h \in Heads, NEW a \in Plain
  PROVE  /\ Encoded(kd, h, a) \in Address
         /\ \A b \in Plain : Encoded(kd, h, a) = Encoded(kd, h, b) => a = b
         /\ kd # "XSIMPLEQ" => Encoded(kd, h, a) = a
  BY DEF Encoded, Address

\* No two places of the lists are the same cell, and NIL is none.
LEMMA CellsApart ==
  ASSUME QUEUE!QueueAssumption, NEW l, Apart(l)
  PROVE  /\ \A h \in Heads : /\ l[h] \in Seq(Elements) /\ Len(l[h]) \in Nat
                             /\ \A k \in 1 .. Len(l[h]) : l[h][k] \in Elements
         /\ \A h \in Heads : \A k \in 0 .. Len(l[h]) : CellAt(l[h], h, k) \in QUEUE!Cells
         /\ \A h \in Heads : \A k \in 1 .. Len(l[h]) + 1 :
              ElementAt(l[h], k) \in Elements \cup {NIL}
         /\ \A g, h \in Heads : \A i \in 0 .. Len(l[g]), j \in 0 .. Len(l[h]) :
              CellAt(l[g], g, i) = CellAt(l[h], h, j) => g = h /\ i = j
         /\ NIL \notin QUEUE!Cells /\ QUEUE!Cells = Heads \cup Elements /\ Heads \cap Elements = {}
  <1>1. NIL \notin QUEUE!Cells /\ QUEUE!Cells = Heads \cup Elements /\ Heads \cap Elements = {}
    BY DEF QUEUE!QueueAssumption, QUEUE!Cells
  <1>2. \A h \in Heads : /\ l[h] \in Seq(Elements) /\ Len(l[h]) \in Nat
                         /\ \A k \in 1 .. Len(l[h]) : l[h][k] \in Elements
    BY DEF Apart
  <1>3. \A h \in Heads : \A k \in 0 .. Len(l[h]) :
          CellAt(l[h], h, k) \in QUEUE!Cells /\ (k # 0 => CellAt(l[h], h, k) = l[h][k])
    BY <1>1, <1>2 DEF CellAt
  <1>4. \A h \in Heads : \A k \in 1 .. Len(l[h]) + 1 : ElementAt(l[h], k) \in Elements \cup {NIL}
    BY <1>2 DEF ElementAt
  <1>5. ASSUME NEW g \in Heads, NEW h \in Heads, NEW i \in 0 .. Len(l[g]),
               NEW j \in 0 .. Len(l[h]), CellAt(l[g], g, i) = CellAt(l[h], h, j)
        PROVE  g = h /\ i = j
    <2>1. CASE i = 0 /\ j = 0
      BY <1>5, <2>1 DEF CellAt
    <2>2. CASE i = 0 /\ j # 0
      BY <1>1, <1>2, <1>5, <2>2 DEF CellAt
    <2>3. CASE i # 0 /\ j = 0
      BY <1>1, <1>2, <1>5, <2>3 DEF CellAt
    <2>4. CASE i # 0 /\ j # 0
      BY <1>2, <1>5, <2>4 DEF CellAt, Apart
    <2> QED
      BY <2>1, <2>2, <2>3, <2>4
  <1> QED
    BY <1>1, <1>2, <1>3, <1>4, <1>5

\* t is s with e in front of element number k + 1; with element number k taken out; with e in
\* its place.
Inserted(s, t, k, e) ==
  /\ t \in Seq(Elements) /\ Len(t) = Len(s) + 1
  /\ \A j \in 1 .. k : t[j] = s[j]
  /\ t[k + 1] = e
  /\ \A j \in k + 2 .. Len(s) + 1 : t[j] = s[j - 1]

\* Where the cells and elements of s are in t.
InsertedPlaces(s, t, h, k, e) ==
  /\ \A j \in 0 .. k : CellAt(t, h, j) = CellAt(s, h, j)
  /\ \A j \in 1 .. k : t[j] = s[j] /\ ElementAt(t, j) = ElementAt(s, j)
  /\ CellAt(t, h, k + 1) = e /\ ElementAt(t, k + 1) = e /\ t[k + 1] = e
  /\ \A j \in k + 2 .. Len(s) + 1 : CellAt(t, h, j) = CellAt(s, h, j - 1) /\ t[j] = s[j - 1]
  /\ \A j \in k + 2 .. Len(s) + 2 : ElementAt(t, j) = ElementAt(s, j - 1)

\* The places of the cells follow from those of the elements.
LEMMA InsertedCells ==
  ASSUME NEW s \in Seq(Elements), NEW t, NEW h, NEW e, NEW k \in 0 .. Len(s), Inserted(s, t, k, e)
  PROVE  InsertedPlaces(s, t, h, k, e)
  <1>1. Len(s) \in Nat /\ Len(t) = Len(s) + 1
    BY DEF Inserted
  <1>2. \A j \in 1 .. k : t[j] = s[j]
    BY DEF Inserted
  <1>3. t[k + 1] = e
    BY DEF Inserted
  <1>4. \A j \in k + 2 .. Len(s) + 1 : t[j] = s[j - 1]
    BY DEF Inserted
  <1>5. \A j \in 0 .. k : CellAt(t, h, j) = CellAt(s, h, j)
    BY <1>2 DEF CellAt
  <1>6. \A j \in 1 .. k : ElementAt(t, j) = ElementAt(s, j)
    BY <1>1, <1>2 DEF ElementAt
  <1>7. CellAt(t, h, k + 1) = e /\ ElementAt(t, k + 1) = e
    BY <1>1, <1>3 DEF CellAt, ElementAt
  <1>8. \A j \in k + 2 .. Len(s) + 1 : CellAt(t, h, j) = CellAt(s, h, j - 1)
    BY <1>4 DEF CellAt
  <1>9. \A j \in k + 2 .. Len(s) + 2 : ElementAt(t, j) = ElementAt(s, j - 1)
    BY <1>1, <1>4 DEF ElementAt
  <1> QED
    BY <1>2, <1>3, <1>4, <1>5, <1>6, <1>7, <1>8, <1>9 DEF InsertedPlaces

\* What an insertion between cell c and element n, or NIL, makes of the pointers.
AfterInsert(kd, p, h, c, n, e) ==
  [next |-> [p.next EXCEPT ![e] = p.next[c], ![c] = Encoded(kd, h, e)],
   prev |-> IF kd \notin {"LIST", "TAILQ"} THEN p.prev
            ELSE IF n = NIL THEN [p.prev EXCEPT ![e] = c]
            ELSE [p.prev EXCEPT ![n] = e, ![e] = c],
   last |-> IF kd \in {"SIMPLEQ", "XSIMPLEQ", "TAILQ"} /\ n = NIL
            THEN [p.last EXCEPT ![h] = Encoded(kd, h, e)] ELSE p.last]

\* An insertion leaves the pointers of the list with e in front of element number k + 1.
LEMMA InsertPointed ==
  ASSUME QUEUE!QueueAssumption, NEW kd \in Kinds, NEW p, NEW l, Pointed(kd, p, l),
         NEW h \in Heads, NEW k \in 0 .. Len(l[h]), NEW e \in Elements, Outside(l, e),
         NEW t, Inserted(l[h], t, k, e)
  PROVE  Pointed(kd, AfterInsert(kd, p, h, CellAt(l[h], h, k), ElementAt(l[h], k + 1), e),
                 [l EXCEPT ![h] = t])
  <1> DEFINE c == CellAt(l[h], h, k)
             n == ElementAt(l[h], k + 1)
             r == AfterInsert(kd, p, h, c, n, e)
             m == [l EXCEPT ![h] = t]
  <1>1. Apart(l) /\ FieldsTyped(p) /\ NextRight(kd, p, l) /\ PrevRight(kd, p, l)
        /\ LastRight(kd, p, l) /\ OutsideNull(p, l)
    BY DEF Pointed
  <1>2. /\ m[h] = t /\ t \in Seq(Elements) /\ Len(t) = Len(l[h]) + 1 /\ Len(l[h]) \in Nat
        /\ \A g \in Heads : g # h => m[g] = l[g]
        /\ m \in [Heads -> Seq(Elements)]
    BY <1>1, CellsApart DEF Apart, Inserted
  <1> HIDE DEF r, m, c, n
  <1>3. InsertedPlaces(l[h], t, h, k, e)
    <2>1. l[h] \in Seq(Elements)
      BY <1>1, CellsApart
    <2> QED
      BY <2>1, InsertedCells
  <1>4. Apart(m)
    <2> SUFFICES ASSUME NEW f \in Heads, NEW g \in Heads, NEW i \in 1 .. Len(m[f]),
                        NEW j \in 1 .. Len(m[g]), m[f][i] = m[g][j]
                 PROVE  f = g /\ i = j
      BY <1>2 DEF Apart
    <2> DEFINE Old(x) == IF x <= k THEN x ELSE x - 1
    <2>1. ASSUME NEW x \in 1 .. Len(t)
          PROVE  /\ x # k + 1 => Old(x) \in 1 .. Len(l[h]) /\ t[x] = l[h][Old(x)]
                 /\ x = k + 1 => t[x] = e
      <3>1. CASE x <= k
        <4>1. x \in 1 .. k /\ Old(x) = x /\ x # k + 1 /\ x \in 1 .. Len(l[h])
          BY <1>2, <3>1
        <4> QED
          BY <1>3, <4>1 DEF InsertedPlaces
      <3>2. CASE x = k + 1
        BY <1>3, <3>2 DEF InsertedPlaces
      <3>3. CASE x > k + 1
        <4>1. /\ x \in k + 2 .. Len(l[h]) + 1 /\ Old(x) = x - 1 /\ x # k + 1
              /\ x - 1 \in 1 .. Len(l[h])
          <5>1. x \in Nat /\ x <= Len(l[h]) + 1 /\ Len(l[h]) \in Nat /\ k \in Nat
            BY <1>2
          <5>2. x - 1 \in Nat /\ x >= k + 2 /\ 1 <= x - 1 /\ x - 1 <= Len(l[h]) /\ ~(x <= k)
            BY <3>3, <5>1
          <5>3. Old(x) = x - 1
            BY <5>2
          <5> HIDE DEF Old
          <5> QED
            BY <5>1, <5>2, <5>3
        <4> QED
          BY <1>3, <4>1 DEF InsertedPlaces
      <3> QED
        BY <1>2, <3>1, <3>2, <3>3
    <2>2. CASE f # h /\ g # h
      BY <1>1, <1>2, <2>2 DEF Apart
    <2>3. CASE f = h /\ g # h
      <3>1. CASE i = k + 1
        BY <1>2, <2>1, <2>3, <3>1 DEF Outside
      <3>2. CASE i # k + 1
        BY <1>1, <1>2, <2>1, <2>3, <3>2 DEF Apart
      <3> QED
        BY <3>1, <3>2
    <2>4. CASE f # h /\ g = h
      <3>1. CASE j = k + 1
        BY <1>2, <2>1, <2>4, <3>1 DEF Outside
      <3>2. CASE j # k + 1
        BY <1>1, <1>2, <2>1, <2>4, <3>2 DEF Apart
      <3> QED
        BY <3>1, <3>2
    <2>5. CASE f = h /\ g = h
      <3>1. i = k + 1 <=> j = k + 1
        <4> HIDE DEF Old
        <4>1. i \in 1 .. Len(t) /\ j \in 1 .. Len(t) /\ t[i] = t[j]
          BY <1>2, <2>5
        <4>2. \A x \in 1 .. Len(t) : t[x] = e => x = k + 1
          BY <2>1 DEF Outside
        <4> QED
          BY <2>1, <4>1, <4>2
      <3>2. ASSUME i # k + 1 PROVE Old(i) = Old(j)
        <4> HIDE DEF Old
        <4>1. /\ Old(i) \in 1 .. Len(l[h]) /\ Old(j) \in 1 .. Len(l[h])
              /\ l[h][Old(i)] = l[h][Old(j)]
          BY <1>2, <2>1, <2>5, <3>1, <3>2
        <4> QED
          BY <1>1, <4>1 DEF Apart
      <3> QED
        BY <1>2, <2>5, <3>1, <3>2
    <2> QED
      BY <2>2, <2>3, <2>4, <2>5
  <1>5. /\ c \in QUEUE!Cells /\ n \in Elements \cup {NIL} /\ c # e /\ n # e
        /\ Encoded(kd, h, e) \in Address /\ p.next[c] = Encoded(kd, h, n)
        /\ NIL \notin QUEUE!Cells /\ QUEUE!Cells = Heads \cup Elements /\ Heads \cap Elements = {}
    <2>1. c # e /\ n # e
      BY <1>1, CellsApart DEF Outside, CellAt, ElementAt, QUEUE!QueueAssumption, c, n
    <2>2. k + 1 \in 1 .. Len(l[h]) + 1
      BY <1>2
    <2>3. c \in QUEUE!Cells /\ n \in Elements \cup {NIL}
      BY <1>1, <2>2, CellsApart DEF c, n
    <2>4. p.next[c] = Encoded(kd, h, n)
      BY <1>1 DEF NextRight, c, n
    <2>5. NIL \notin QUEUE!Cells /\ QUEUE!Cells = Heads \cup Elements /\ Heads \cap Elements = {}
      BY <1>1, CellsApart
    <2>6. Encoded(kd, h, e) \in Address
      BY <2>5, StoredForm DEF Plain
    <2> QED
      BY <2>1, <2>4, <2>5, <2>6, <2>3
  <1>6. FieldsTyped(r)
    BY <1>1, <1>5 DEF FieldsTyped, AfterInsert, r, Plain, Address
  <1>7. \A x \in QUEUE!Cells :
          r.next[x] = IF x = c THEN Encoded(kd, h, e) ELSE IF x = e THEN p.next[c] ELSE p.next[x]
    BY <1>1, <1>5 DEF FieldsTyped, AfterInsert, r
  <1>8. kd \in {"LIST", "TAILQ"} =>
          \A x \in Elements : r.prev[x] = IF x = e THEN c ELSE IF x = n THEN e ELSE p.prev[x]
    BY <1>1, <1>5 DEF FieldsTyped, AfterInsert, r
  <1>9. kd \notin {"LIST", "TAILQ"} => r.prev = p.prev
    BY DEF AfterInsert, r
  <1>10. NextRight(kd, r, m)
    <2> SUFFICES ASSUME NEW g \in Heads, NEW j \in 0 .. Len(m[g])
                 PROVE  r.next[CellAt(m[g], g, j)] = Encoded(kd, g, ElementAt(m[g], j + 1))
      BY DEF NextRight
    <2>1. CASE g # h
      <3>1. /\ m[g] = l[g] /\ CellAt(l[g], g, j) # c /\ CellAt(l[g], g, j) # e
            /\ CellAt(l[g], g, j) \in QUEUE!Cells
        BY <1>1, <1>2, <1>5, <2>1, CellsApart DEF Outside, CellAt, c
      <3> QED
        BY <1>1, <1>2, <1>7, <3>1 DEF NextRight
    <2>2. CASE g = h /\ j < k
      <3>1. /\ CellAt(t, h, j) = CellAt(l[h], h, j) /\ ElementAt(t, j + 1) = ElementAt(l[h], j + 1)
            /\ j \in 0 .. Len(l[h])
        <4>1. j \in 0 .. k /\ j + 1 \in 1 .. k
          BY <2>2
        <4> QED
          BY <1>2, <4>1, <1>3 DEF InsertedPlaces
      <3>2. CellAt(l[h], h, j) # c /\ CellAt(l[h], h, j) # e /\ CellAt(l[h], h, j) \in QUEUE!Cells
        BY <1>1, <1>2, <1>5, <2>2, <3>1, CellsApart DEF Outside, CellAt, c
      <3> QED
        BY <1>1, <1>2, <1>7, <2>2, <3>1, <3>2 DEF NextRight
    <2>3. CASE g = h /\ j = k
      <3>1. CellAt(t, h, j) = c /\ ElementAt(t, j + 1) = e
        BY <1>2, <2>3 DEF Inserted, CellAt, ElementAt, c
      <3> QED
        BY <1>2, <1>5, <1>7, <2>3, <3>1
    <2>4. CASE g = h /\ j = k + 1
      <3>1. CellAt(t, h, j) = e /\ ElementAt(t, j + 1) = n
        BY <1>2, <2>4 DEF Inserted, CellAt, ElementAt, n
      <3> QED
        BY <1>2, <1>5, <1>7, <2>4, <3>1
    <2>5. CASE g = h /\ j > k + 1
      <3>1. /\ CellAt(t, h, j) = CellAt(l[h], h, j - 1) /\ ElementAt(t, j + 1) = ElementAt(l[h], j)
            /\ j - 1 \in 0 .. Len(l[h]) /\ j - 1 # k
        <4>1. j \in k + 2 .. Len(l[h]) + 1 /\ j + 1 \in k + 2 .. Len(l[h]) + 2 /\ (j + 1) - 1 = j
          BY <1>2, <2>5
        <4> QED
          BY <1>2, <4>1, <1>3 DEF InsertedPlaces
      <3>2. /\ CellAt(l[h], h, j - 1) # c /\ CellAt(l[h], h, j - 1) # e
            /\ CellAt(l[h], h, j - 1) \in QUEUE!Cells
        BY <1>1, <1>2, <1>5, <2>5, <3>1, CellsApart DEF Outside, CellAt, c
      <3>3. p.next[CellAt(l[h], h, j - 1)] = Encoded(kd, h, ElementAt(l[h], j))
        BY <1>1, <3>1 DEF NextRight
      <3> QED
        BY <1>2, <1>7, <2>5, <3>1, <3>2, <3>3
    <2> QED
      BY <1>2, <2>1, <2>2, <2>3, <2>4, <2>5
  <1>11. PrevRight(kd, r, m)
    <2> SUFFICES ASSUME NEW g \in Heads, NEW j \in 1 .. Len(m[g])
                 PROVE  r.prev[m[g][j]] = IF kd \in {"LIST", "TAILQ"} THEN CellAt(m[g], g, j - 1)
                                          ELSE NIL
      BY DEF PrevRight
    <2>1. CASE kd \notin {"LIST", "TAILQ"}
      <3>1. m[g][j] \in Elements
        BY <1>2
      <3>2. p.prev[m[g][j]] = NIL
        <4>1. CASE \E f \in Heads : \E i \in 1 .. Len(l[f]) : l[f][i] = m[g][j]
          BY <1>1, <2>1, <4>1 DEF PrevRight
        <4>2. CASE Outside(l, m[g][j])
          BY <1>1, <3>1, <4>2 DEF OutsideNull, Outside
        <4> QED
          BY <4>1, <4>2 DEF Outside
      <3> QED
        BY <1>9, <2>1, <3>2
    <2>2. CASE kd \in {"LIST", "TAILQ"} /\ g # h
      <3>1. /\ m[g] = l[g] /\ l[g][j] # e /\ l[g][j] # n /\ l[g][j] \in Elements
        BY <1>1, <1>2, <1>5, <2>2, CellsApart DEF Apart, Outside, ElementAt, n
      <3> QED
        BY <1>1, <1>2, <1>8, <2>2, <3>1 DEF PrevRight
    <2>3. CASE kd \in {"LIST", "TAILQ"} /\ g = h /\ j <= k
      <3>1. t[j] = l[h][j] /\ CellAt(t, h, j - 1) = CellAt(l[h], h, j - 1) /\ j \in 1 .. Len(l[h])
        <4>1. j \in 1 .. k /\ j - 1 \in 0 .. k
          BY <1>2, <2>3
        <4> QED
          BY <1>2, <4>1, <1>3 DEF InsertedPlaces
      <3>2. l[h][j] # n /\ l[h][j] # e /\ l[h][j] \in Elements
        BY <1>1, <1>2, <1>5, <2>3, <3>1 DEF Apart, Outside, ElementAt, n
      <3> QED
        BY <1>1, <1>2, <1>8, <2>3, <3>1, <3>2 DEF PrevRight
    <2>4. CASE kd \in {"LIST", "TAILQ"} /\ g = h /\ j = k + 1
      <3>1. t[j] = e /\ CellAt(t, h, j - 1) = c
        BY <1>2, <2>4 DEF Inserted, CellAt, c
      <3> QED
        BY <1>2, <1>8, <2>4, <3>1
    <2>5. CASE kd \in {"LIST", "TAILQ"} /\ g = h /\ j = k + 2
      <3>1. t[j] = n /\ CellAt(t, h, j - 1) = e /\ n \in Elements /\ n # e
        BY <1>2, <1>5, <2>5, CellsApart, <1>1 DEF Inserted, CellAt, ElementAt, n
      <3> QED
        BY <1>2, <1>8, <2>5, <3>1
    <2>6. CASE kd \in {"LIST", "TAILQ"} /\ g = h /\ j > k + 2
      <3>1. /\ t[j] = l[h][j - 1] /\ CellAt(t, h, j - 1) = CellAt(l[h], h, j - 2)
            /\ j - 1 \in 1 .. Len(l[h]) /\ j - 1 > k + 1
        <4>1. j \in k + 2 .. Len(l[h]) + 1 /\ j - 1 \in k + 2 .. Len(l[h]) + 1
          BY <1>2, <2>6
        <4>2. t[j] = l[h][j - 1] /\ CellAt(t, h, j - 1) = CellAt(l[h], h, (j - 1) - 1)
          BY <1>2, <4>1, <1>3 DEF InsertedPlaces
        <4> QED
          BY <1>2, <4>1, <4>2
      <3>2. l[h][j - 1] # n /\ l[h][j - 1] # e /\ l[h][j - 1] \in Elements
        BY <1>1, <1>2, <1>5, <2>6, <3>1 DEF Apart, Outside, ElementAt, n
      <3>3. p.prev[l[h][j - 1]] = CellAt(l[h], h, j - 2)
        BY <1>1, <2>6, <3>1 DEF PrevRight
      <3> QED
        BY <1>2, <1>8, <2>6, <3>1, <3>2, <3>3
    <2> QED
      BY <1>2, <2>1, <2>2, <2>3, <2>4, <2>5, <2>6
  <1>12. LastRight(kd, r, m)
    <2> SUFFICES ASSUME NEW g \in Heads
                 PROVE  r.last[g] = IF kd \in {"SIMPLEQ", "XSIMPLEQ", "TAILQ"}
                                    THEN Encoded(kd, g, CellAt(m[g], g, Len(m[g]))) ELSE NIL
      BY DEF LastRight
    <2>1. r.last[g] = IF kd \in {"SIMPLEQ", "XSIMPLEQ", "TAILQ"} /\ n = NIL /\ g = h
                      THEN Encoded(kd, h, e) ELSE p.last[g]
      BY <1>1 DEF AfterInsert, FieldsTyped, r
    <2>2. CASE g # h
      BY <1>1, <1>2, <2>1, <2>2 DEF LastRight
    <2>3. CASE g = h
      <3>1. n = NIL <=> k = Len(l[h])
        BY <1>1, <1>2, <1>5, CellsApart DEF ElementAt, n
      <3>2. CellAt(t, h, Len(t)) = IF k = Len(l[h]) THEN e ELSE CellAt(l[h], h, Len(l[h]))
        <4>1. CASE k = Len(l[h])
          <5>1. Len(t) = k + 1 /\ Len(t) # 0 /\ t[k + 1] = e
            BY <1>2, <4>1 DEF Inserted
          <5> QED
            BY <4>1, <5>1 DEF CellAt
        <4>2. CASE k # Len(l[h])
          <5>1. Len(t) \in k + 2 .. Len(l[h]) + 1 /\ Len(t) - 1 = Len(l[h])
            BY <1>2, <4>2
          <5>2. CellAt(t, h, Len(t)) = CellAt(l[h], h, Len(t) - 1)
            BY <1>3, <5>1 DEF InsertedPlaces
          <5> QED
            BY <4>2, <5>1, <5>2
        <4> QED
          BY <4>1, <4>2
      <3> QED
        BY <1>1, <1>2, <2>1, <2>3, <3>1, <3>2 DEF LastRight
    <2> QED
      BY <2>2, <2>3
  <1>13. OutsideNull(r, m)
    <2> SUFFICES ASSUME NEW x \in Elements, Outside(m, x)
                 PROVE  r.next[x] = NIL /\ r.prev[x] = NIL
      BY DEF OutsideNull, Outside
    <2>1. Outside(l, x) /\ x # e
      <3>1. x # e
        BY <1>2 DEF Outside, Inserted
      <3>2. ASSUME NEW g \in Heads, NEW j \in 1 .. Len(l[g]), l[g][j] = x PROVE FALSE
        <4>1. CASE g # h
          BY <1>2, <3>2, <4>1 DEF Outside
        <4>2. CASE g = h /\ j <= k
          BY <1>2, <3>2, <4>2 DEF Outside, Inserted
        <4>3. CASE g = h /\ j > k
          <5>1. j + 1 \in 1 .. Len(t) /\ t[j + 1] = l[h][j]
            BY <1>2, <4>3 DEF Inserted
          <5> QED
            BY <1>2, <3>2, <4>3, <5>1 DEF Outside
        <4> QED
          BY <4>1, <4>2, <4>3
      <3> QED
        BY <3>1, <3>2 DEF Outside
    <2>2. x # c /\ x # n /\ p.next[x] = NIL /\ p.prev[x] = NIL
      BY <1>1, <1>2, <1>5, <2>1 DEF Outside, OutsideNull, CellAt, ElementAt, c, n
    <2> QED
      BY <1>5, <1>7, <1>8, <1>9, <2>1, <2>2
  <1> QED
    BY <1>4, <1>6, <1>10, <1>11, <1>12, <1>13 DEF Pointed, r, m, c, n

-----------------------------------------------------------------------------
\* t is s without its element number k.
Removed(s, t, k) ==
  /\ t \in Seq(Elements) /\ Len(t) = Len(s) - 1
  /\ \A j \in 1 .. k - 1 : t[j] = s[j]
  /\ \A j \in k .. Len(s) - 1 : t[j] = s[j + 1]

\* Where the cells and elements of s are in t.
RemovedPlaces(s, t, h, k) ==
  /\ \A j \in 0 .. k - 1 : CellAt(t, h, j) = CellAt(s, h, j)
  /\ \A j \in 1 .. k - 1 : t[j] = s[j] /\ ElementAt(t, j) = ElementAt(s, j)
  /\ \A j \in k .. Len(s) - 1 : CellAt(t, h, j) = CellAt(s, h, j + 1) /\ t[j] = s[j + 1]
  /\ \A j \in k .. Len(s) : ElementAt(t, j) = ElementAt(s, j + 1)

\* The places of the cells follow from those of the elements.
LEMMA RemovedCells ==
  ASSUME NEW s \in Seq(Elements), NEW t, NEW h, NEW k \in 1 .. Len(s), Removed(s, t, k)
  PROVE  RemovedPlaces(s, t, h, k)
  <1>1. Len(s) \in Nat /\ Len(t) = Len(s) - 1
    BY DEF Removed
  <1>2. \A j \in 1 .. k - 1 : t[j] = s[j]
    BY DEF Removed
  <1>3. \A j \in k .. Len(s) - 1 : t[j] = s[j + 1]
    BY DEF Removed
  <1>4. \A j \in 0 .. k - 1 : CellAt(t, h, j) = CellAt(s, h, j)
    BY <1>2 DEF CellAt
  <1>5. \A j \in 1 .. k - 1 : ElementAt(t, j) = ElementAt(s, j)
    BY <1>1, <1>2 DEF ElementAt
  <1>6. \A j \in k .. Len(s) - 1 : CellAt(t, h, j) = CellAt(s, h, j + 1)
    BY <1>3 DEF CellAt
  <1>7. \A j \in k .. Len(s) : ElementAt(t, j) = ElementAt(s, j + 1)
    BY <1>1, <1>3 DEF ElementAt
  <1> QED
    BY <1>2, <1>3, <1>4, <1>5, <1>6, <1>7 DEF RemovedPlaces

\* What taking out the element e between cell c and element n, or NIL, makes of the pointers.
AfterRemove(kd, p, h, c, e, n) ==
  [next |-> [p.next EXCEPT ![c] = p.next[e], ![e] = NIL],
   prev |-> IF kd \notin {"LIST", "TAILQ"} THEN p.prev
            ELSE IF n = NIL THEN [p.prev EXCEPT ![e] = NIL]
            ELSE [p.prev EXCEPT ![n] = c, ![e] = NIL],
   last |-> IF kd \in {"SIMPLEQ", "XSIMPLEQ", "TAILQ"} /\ n = NIL
            THEN [p.last EXCEPT ![h] = Encoded(kd, h, c)] ELSE p.last]

\* A removal leaves the pointers of the list without element number k, which is then in none.
LEMMA RemovePointed ==
  ASSUME QUEUE!QueueAssumption, NEW kd \in Kinds, NEW p, NEW l, Pointed(kd, p, l),
         NEW h \in Heads, NEW k \in 1 .. Len(l[h]), NEW t, Removed(l[h], t, k)
  PROVE  /\ Pointed(kd, AfterRemove(kd, p, h, CellAt(l[h], h, k - 1), l[h][k],
                                    ElementAt(l[h], k + 1)), [l EXCEPT ![h] = t])
         /\ Outside([l EXCEPT ![h] = t], l[h][k])
  <1> DEFINE e == l[h][k]
             c == CellAt(l[h], h, k - 1)
             n == ElementAt(l[h], k + 1)
             r == AfterRemove(kd, p, h, c, e, n)
             m == [l EXCEPT ![h] = t]
  <1>1. Apart(l) /\ FieldsTyped(p) /\ NextRight(kd, p, l) /\ PrevRight(kd, p, l)
        /\ LastRight(kd, p, l) /\ OutsideNull(p, l)
    BY DEF Pointed
  <1>2. /\ m[h] = t /\ t \in Seq(Elements) /\ Len(t) = Len(l[h]) - 1 /\ Len(l[h]) \in Nat
        /\ \A g \in Heads : g # h => m[g] = l[g]
        /\ m \in [Heads -> Seq(Elements)]
    BY <1>1, CellsApart DEF Apart, Removed
  <1> HIDE DEF r, m, c, n, e
  <1>3. RemovedPlaces(l[h], t, h, k)
    <2>1. l[h] \in Seq(Elements)
      BY <1>1, CellsApart
    <2> QED
      BY <2>1, RemovedCells
  <1> DEFINE Old(x) == IF x < k THEN x ELSE x + 1
  <1>4. \A x \in 1 .. Len(t) : /\ Old(x) \in 1 .. Len(l[h]) /\ Old(x) # k /\ t[x] = l[h][Old(x)]
                               /\ \A y \in 1 .. Len(t) : Old(x) = Old(y) => x = y
    BY <1>2 DEF Removed
  <1>5. \A x \in 1 .. Len(l[h]) : x # k => \E y \in 1 .. Len(t) : t[y] = l[h][x]
    <2> SUFFICES ASSUME NEW x \in 1 .. Len(l[h]), x # k
                 PROVE  \E y \in 1 .. Len(t) : t[y] = l[h][x]
      OBVIOUS
    <2>1. CASE x < k
      BY <1>2, <2>1 DEF Removed
    <2>2. CASE x > k
      <3>1. x - 1 \in 1 .. Len(t) /\ x - 1 \in k .. Len(l[h]) - 1 /\ (x - 1) + 1 = x
        BY <1>2, <2>2
      <3> QED
        BY <3>1 DEF Removed
    <2> QED
      BY <2>1, <2>2
  <1> HIDE DEF Old
  <1>6. \A i, j \in 1 .. Len(l[h]) : l[h][i] = l[h][j] => i = j
    BY <1>1 DEF Apart
  <1>7. Apart(m)
    <2> SUFFICES ASSUME NEW f \in Heads, NEW g \in Heads, NEW i \in 1 .. Len(m[f]),
                        NEW j \in 1 .. Len(m[g]), m[f][i] = m[g][j]
                 PROVE  f = g /\ i = j
      BY <1>2 DEF Apart
    <2>1. CASE f # h /\ g # h
      BY <1>1, <1>2, <2>1 DEF Apart
    <2>2. CASE f = h /\ g # h
      <3>1. Old(i) \in 1 .. Len(l[h]) /\ m[f][i] = l[h][Old(i)]
        BY <1>2, <1>4, <2>2
      <3>2. j \in 1 .. Len(l[g]) /\ m[g][j] = l[g][j]
        BY <1>2, <2>2
      <3> QED
        BY <1>1, <2>2, <3>1, <3>2 DEF Apart
    <2>3. CASE f # h /\ g = h
      <3>1. Old(j) \in 1 .. Len(l[h]) /\ m[g][j] = l[h][Old(j)]
        BY <1>2, <1>4, <2>3
      <3>2. i \in 1 .. Len(l[f]) /\ m[f][i] = l[f][i]
        BY <1>2, <2>3
      <3> QED
        BY <1>1, <2>3, <3>1, <3>2 DEF Apart
    <2>4. CASE f = h /\ g = h
      <3>1. Old(i) = Old(j)
        <4>1. /\ Old(i) \in 1 .. Len(l[h]) /\ m[f][i] = l[h][Old(i)]
              /\ Old(j) \in 1 .. Len(l[h]) /\ m[g][j] = l[h][Old(j)]
          BY <1>2, <1>4, <2>4
        <4> QED
          BY <1>6, <4>1
      <3> QED
        BY <1>2, <1>4, <2>4, <3>1
    <2> QED
      BY <2>1, <2>2, <2>3, <2>4
  <1>8. Outside(m, e)
    <2> SUFFICES ASSUME NEW g \in Heads, NEW j \in 1 .. Len(m[g]), m[g][j] = e PROVE FALSE
      BY DEF Outside
    <2>1. CASE g = h
      <3>1. Old(j) \in 1 .. Len(l[h]) /\ Old(j) # k /\ m[g][j] = l[h][Old(j)]
        BY <1>2, <1>4, <2>1
      <3> QED
        BY <1>6, <3>1 DEF e
    <2>2. CASE g # h
      BY <1>1, <1>2, <2>2 DEF Apart, e
    <2> QED
      BY <2>1, <2>2
  <1>9. /\ e \in Elements /\ c \in QUEUE!Cells /\ n \in Elements \cup {NIL} /\ c # e /\ n # e
        /\ Encoded(kd, h, c) \in Address /\ p.next[e] = Encoded(kd, h, n)
        /\ NIL \notin QUEUE!Cells /\ QUEUE!Cells = Heads \cup Elements /\ Heads \cap Elements = {}
    <2>1. NIL \notin QUEUE!Cells /\ QUEUE!Cells = Heads \cup Elements /\ Heads \cap Elements = {}
      BY <1>1, CellsApart
    <2>2. k - 1 \in 0 .. Len(l[h]) /\ k + 1 \in 1 .. Len(l[h]) + 1 /\ k \in 0 .. Len(l[h])
      BY <1>2
    <2>3. e \in Elements /\ c \in QUEUE!Cells /\ n \in Elements \cup {NIL}
      BY <1>1, <2>2, CellsApart DEF e, c, n
    <2>4. e = CellAt(l[h], h, k)
      BY <1>2 DEF e, CellAt
    <2>5. c # e
      BY <1>1, <2>2, <2>4, CellsApart DEF c
    <2>6. n # e
      BY <1>1, <1>2, <2>1, <2>3 DEF Apart, ElementAt, n, e
    <2>7. Encoded(kd, h, c) \in Address
      BY <2>3, StoredForm DEF Plain
    <2>8. p.next[e] = Encoded(kd, h, n)
      BY <1>1, <2>2, <2>4 DEF NextRight, n
    <2> QED
      BY <2>1, <2>3, <2>5, <2>6, <2>7, <2>8
  <1>10. FieldsTyped(r)
    BY <1>1, <1>9 DEF FieldsTyped, AfterRemove, Plain, Address, r
  <1>11. \A x \in QUEUE!Cells :
           r.next[x] = IF x = e THEN NIL ELSE IF x = c THEN p.next[e] ELSE p.next[x]
    BY <1>1, <1>9 DEF FieldsTyped, AfterRemove, r
  <1>12. kd \in {"LIST", "TAILQ"} =>
           \A x \in Elements : r.prev[x] = IF x = e THEN NIL ELSE IF x = n THEN c ELSE p.prev[x]
    BY <1>1, <1>9 DEF FieldsTyped, AfterRemove, r
  <1>13. kd \notin {"LIST", "TAILQ"} => r.prev = p.prev
    BY DEF AfterRemove, r
  <1>14. NextRight(kd, r, m)
    <2> SUFFICES ASSUME NEW g \in Heads, NEW j \in 0 .. Len(m[g])
                 PROVE  r.next[CellAt(m[g], g, j)] = Encoded(kd, g, ElementAt(m[g], j + 1))
      BY DEF NextRight
    <2>1. CASE g # h
      <3>1. /\ m[g] = l[g] /\ CellAt(l[g], g, j) # c /\ CellAt(l[g], g, j) # e
            /\ CellAt(l[g], g, j) \in QUEUE!Cells
        <4>1. /\ j \in 0 .. Len(l[g]) /\ k \in 0 .. Len(l[h]) /\ k - 1 \in 0 .. Len(l[h])
              /\ e = CellAt(l[h], h, k) /\ m[g] = l[g]
          BY <1>2, <2>1 DEF CellAt, e
        <4> QED
          BY <1>1, <2>1, <4>1, CellsApart DEF c
      <3> QED
        BY <1>1, <1>2, <1>11, <3>1 DEF NextRight
    <2>2. CASE g = h /\ j < k - 1
      <3>1. j \in 0 .. k - 1 /\ j + 1 \in 1 .. k - 1 /\ j \in 0 .. Len(l[h])
        BY <1>2, <2>2
      <3>2. CellAt(t, h, j) = CellAt(l[h], h, j) /\ ElementAt(t, j + 1) = ElementAt(l[h], j + 1)
        BY <1>3, <3>1 DEF RemovedPlaces
      <3>3. CellAt(l[h], h, j) # c /\ CellAt(l[h], h, j) # e /\ CellAt(l[h], h, j) \in QUEUE!Cells
        <4>1. /\ k \in 0 .. Len(l[h]) /\ k - 1 \in 0 .. Len(l[h]) /\ j # k /\ j # k - 1
              /\ e = CellAt(l[h], h, k)
          BY <1>2, <2>2 DEF CellAt, e
        <4> QED
          BY <1>1, <3>1, <4>1, CellsApart DEF c
      <3> QED
        BY <1>1, <1>2, <1>11, <2>2, <3>1, <3>2, <3>3 DEF NextRight
    <2>3. CASE g = h /\ j = k - 1
      <3>1. j \in 0 .. k - 1 /\ j + 1 \in k .. Len(l[h]) /\ j + 1 = k
        BY <1>2, <2>3
      <3>2. CellAt(t, h, j) = c /\ ElementAt(t, j + 1) = n
        BY <1>3, <2>3, <3>1 DEF RemovedPlaces, c, n
      <3> QED
        BY <1>2, <1>9, <1>11, <2>3, <3>2
    <2>4. CASE g = h /\ j > k - 1
      <3>1. /\ j \in k .. Len(l[h]) - 1 /\ j + 1 \in k .. Len(l[h]) /\ j + 1 \in 0 .. Len(l[h])
        BY <1>2, <2>4
      <3>2. /\ CellAt(t, h, j) = CellAt(l[h], h, j + 1)
            /\ ElementAt(t, j + 1) = ElementAt(l[h], (j + 1) + 1)
        BY <1>3, <3>1 DEF RemovedPlaces
      <3>3. /\ CellAt(l[h], h, j + 1) # c /\ CellAt(l[h], h, j + 1) # e
            /\ CellAt(l[h], h, j + 1) \in QUEUE!Cells
        <4>1. /\ k \in 0 .. Len(l[h]) /\ k - 1 \in 0 .. Len(l[h]) /\ j + 1 # k /\ j + 1 # k - 1
              /\ e = CellAt(l[h], h, k)
          BY <1>2, <2>4 DEF CellAt, e
        <4> QED
          BY <1>1, <3>1, <4>1, CellsApart DEF c
      <3>4. p.next[CellAt(l[h], h, j + 1)] = Encoded(kd, h, ElementAt(l[h], (j + 1) + 1))
        BY <1>1, <3>1 DEF NextRight
      <3> QED
        BY <1>2, <1>11, <2>4, <3>2, <3>3, <3>4
    <2> QED
      BY <1>2, <2>1, <2>2, <2>3, <2>4
  <1>15. PrevRight(kd, r, m)
    <2> SUFFICES ASSUME NEW g \in Heads, NEW j \in 1 .. Len(m[g])
                 PROVE  r.prev[m[g][j]] = IF kd \in {"LIST", "TAILQ"} THEN CellAt(m[g], g, j - 1)
                                          ELSE NIL
      BY DEF PrevRight
    <2>1. CASE kd \notin {"LIST", "TAILQ"}
      <3>1. \E f \in Heads : \E i \in 1 .. Len(l[f]) : l[f][i] = m[g][j]
        BY <1>2, <1>4
      <3> QED
        BY <1>1, <1>13, <2>1, <3>1 DEF PrevRight
    <2>2. CASE kd \in {"LIST", "TAILQ"} /\ g # h
      <3>1. m[g] = l[g] /\ l[g][j] # e /\ l[g][j] # n /\ l[g][j] \in Elements
        BY <1>1, <1>2, <1>9, <2>2, CellsApart DEF Apart, ElementAt, n, e
      <3>2. p.prev[l[g][j]] = CellAt(l[g], g, j - 1)
        BY <1>1, <1>2, <2>2 DEF PrevRight
      <3> QED
        BY <1>12, <2>2, <3>1, <3>2
    <2>3. CASE kd \in {"LIST", "TAILQ"} /\ g = h /\ j < k
      <3>1. j \in 1 .. k - 1 /\ j - 1 \in 0 .. k - 1 /\ j \in 1 .. Len(l[h])
        BY <1>2, <2>3
      <3>2. t[j] = l[h][j] /\ CellAt(t, h, j - 1) = CellAt(l[h], h, j - 1)
        BY <1>3, <3>1 DEF RemovedPlaces
      <3>3. l[h][j] # n /\ l[h][j] # e /\ l[h][j] \in Elements
        <4>1. l[h][j] \in Elements
          BY <1>1, <3>1, CellsApart
        <4>2. l[h][j] # e
          BY <1>6, <2>3, <3>1 DEF e
        <4>3. l[h][j] # n
          <5>1. CASE k + 1 <= Len(l[h])
            <6>1. n = l[h][k + 1] /\ k + 1 \in 1 .. Len(l[h]) /\ j # k + 1
              BY <1>2, <2>3, <5>1 DEF ElementAt, n
            <6> QED
              BY <1>6, <3>1, <6>1
          <5>2. CASE ~(k + 1 <= Len(l[h]))
            <6>1. n = NIL
              BY <5>2 DEF ElementAt, n
            <6> QED
              BY <1>9, <4>1, <6>1
          <5> QED
            BY <5>1, <5>2
        <4> QED
          BY <4>1, <4>2, <4>3
      <3> QED
        BY <1>1, <1>2, <1>12, <2>3, <3>1, <3>2, <3>3 DEF PrevRight
    <2>4. CASE kd \in {"LIST", "TAILQ"} /\ g = h /\ j = k
      <3>1. j \in k .. Len(l[h]) - 1 /\ j - 1 \in 0 .. k - 1
        BY <1>2, <2>4
      <3>2. t[j] = n /\ CellAt(t, h, j - 1) = c /\ n \in Elements
        BY <1>2, <1>3, <1>9, <2>4, <3>1, CellsApart, <1>1 DEF RemovedPlaces, ElementAt, n, c
      <3> QED
        BY <1>2, <1>9, <1>12, <2>4, <3>2
    <2>5. CASE kd \in {"LIST", "TAILQ"} /\ g = h /\ j > k
      <3>1. /\ j \in k .. Len(l[h]) - 1 /\ j - 1 \in k .. Len(l[h]) - 1 /\ j + 1 \in 1 .. Len(l[h])
            /\ (j - 1) + 1 = j /\ (j + 1) - 1 = j
        BY <1>2, <2>5
      <3>2. t[j] = l[h][j + 1] /\ CellAt(t, h, j - 1) = CellAt(l[h], h, j)
        BY <1>3, <3>1 DEF RemovedPlaces
      <3>3. l[h][j + 1] # n /\ l[h][j + 1] # e /\ l[h][j + 1] \in Elements
        BY <1>1, <1>2, <1>9, <2>5, <3>1, CellsApart DEF Apart, ElementAt, n, e
      <3>4. p.prev[l[h][j + 1]] = CellAt(l[h], h, j)
        BY <1>1, <2>5, <3>1 DEF PrevRight
      <3> QED
        BY <1>2, <1>12, <2>5, <3>2, <3>3, <3>4
    <2> QED
      BY <1>2, <2>1, <2>2, <2>3, <2>4, <2>5
  <1>16. LastRight(kd, r, m)
    <2> SUFFICES ASSUME NEW g \in Heads
                 PROVE  r.last[g] = IF kd \in {"SIMPLEQ", "XSIMPLEQ", "TAILQ"}
                                    THEN Encoded(kd, g, CellAt(m[g], g, Len(m[g]))) ELSE NIL
      BY DEF LastRight
    <2>1. r.last[g] = IF kd \in {"SIMPLEQ", "XSIMPLEQ", "TAILQ"} /\ n = NIL /\ g = h
                      THEN Encoded(kd, h, c) ELSE p.last[g]
      BY <1>1 DEF AfterRemove, FieldsTyped, r
    <2>2. CASE g # h
      BY <1>1, <1>2, <2>1, <2>2 DEF LastRight
    <2>3. CASE g = h
      <3>1. n = NIL <=> k = Len(l[h])
        BY <1>1, <1>2, <1>9, CellsApart DEF ElementAt, n
      <3>2. CASE k = Len(l[h])
        <4>1. Len(t) = k - 1 /\ Len(t) \in 0 .. k - 1
          BY <1>2, <3>2
        <4>2. CellAt(t, h, Len(t)) = c
          BY <1>3, <4>1 DEF RemovedPlaces, c
        <4> QED
          BY <1>1, <1>2, <2>1, <2>3, <3>1, <3>2, <4>2 DEF LastRight
      <3>3. CASE k # Len(l[h])
        <4>1. Len(t) \in k .. Len(l[h]) - 1 /\ Len(t) + 1 = Len(l[h])
          BY <1>2, <3>3
        <4>2. CellAt(t, h, Len(t)) = CellAt(l[h], h, Len(l[h]))
          BY <1>3, <4>1 DEF RemovedPlaces
        <4> QED
          BY <1>1, <1>2, <2>1, <2>3, <3>1, <3>3, <4>2 DEF LastRight
      <3> QED
        BY <3>2, <3>3
    <2> QED
      BY <2>2, <2>3
  <1>17. OutsideNull(r, m)
    <2> SUFFICES ASSUME NEW x \in Elements, Outside(m, x)
                 PROVE  r.next[x] = NIL /\ r.prev[x] = NIL
      BY DEF OutsideNull, Outside
    <2>1. CASE x = e
      <3>1. kd \notin {"LIST", "TAILQ"} => p.prev[e] = NIL
        BY <1>1 DEF PrevRight, e
      <3> QED
        BY <1>9, <1>11, <1>12, <1>13, <2>1, <3>1
    <2>2. CASE x # e
      <3>1. Outside(l, x)
        <4> SUFFICES ASSUME NEW g \in Heads, NEW j \in 1 .. Len(l[g]), l[g][j] = x PROVE FALSE
          BY DEF Outside
        <4>1. CASE g # h
          BY <1>2, <4>1 DEF Outside
        <4>2. CASE g = h
          BY <1>2, <1>5, <2>2, <4>2 DEF Outside, e
        <4> QED
          BY <4>1, <4>2
      <3>2. p.next[x] = NIL /\ p.prev[x] = NIL
        BY <1>1, <3>1 DEF Outside, OutsideNull
      <3>3. x # c /\ x # n
        BY <1>2, <1>9, <3>1 DEF Outside, CellAt, ElementAt, c, n
      <3> QED
        BY <1>9, <1>11, <1>12, <1>13, <2>2, <3>2, <3>3
    <2> QED
      BY <2>1, <2>2
  <1> QED
    BY <1>7, <1>8, <1>10, <1>14, <1>15, <1>16, <1>17 DEF Pointed, r, m, c, n, e

-----------------------------------------------------------------------------
\* The sequence operators of the model in these terms.
LEMMA InsertAtInserts ==
  ASSUME NEW s \in Seq(Elements), NEW k \in 0 .. Len(s), NEW e \in Elements
  PROVE  Inserted(s, QUEUE!InsertAt(s, k + 1, e), k, e)
  <1> DEFINE a == SubSeq(s, 1, k)
             b == SubSeq(s, k + 1, Len(s))
             t == a \o <<e>> \o b
  <1>1. QUEUE!InsertAt(s, k + 1, e) = t
    <2>1. (k + 1) - 1 = k
      OBVIOUS
    <2> QED
      BY <2>1 DEF QUEUE!InsertAt
  <1>2. Len(s) \in Nat /\ \A i \in 1 .. Len(s) : s[i] \in Elements
    OBVIOUS
  <1>3. a \in Seq(Elements) /\ Len(a) = k /\ \A i \in 1 .. k : a[i] = s[i]
    <2>1. \A i \in 1 .. k : s[i] \in Elements
      BY <1>2
    <2>2. /\ a \in Seq(Elements) /\ Len(a) = IF 1 <= k THEN k - 1 + 1 ELSE 0
          /\ \A i \in 1 .. k - 1 + 1 : a[i] = s[1 + i - 1]
      BY <2>1, SubSeqProperties
    <2> HIDE DEF a
    <2>3. k - 1 + 1 = k /\ \A i \in 1 .. k : 1 + i - 1 = i
      OBVIOUS
    <2> QED
      BY <2>2, <2>3
  <1>4. /\ b \in Seq(Elements) /\ Len(b) = Len(s) - k
        /\ \A i \in 1 .. Len(s) - k : b[i] = s[k + i]
    <2>1. \A i \in k + 1 .. Len(s) : s[i] \in Elements
      BY <1>2
    <2>2. /\ b \in Seq(Elements) /\ Len(b) = IF k + 1 <= Len(s) THEN Len(s) - (k + 1) + 1 ELSE 0
          /\ \A i \in 1 .. Len(s) - (k + 1) + 1 : b[i] = s[(k + 1) + i - 1]
      BY <1>2, <2>1, SubSeqProperties
    <2> HIDE DEF b
    <2>3. Len(b) = Len(s) - k
      <3>1. (IF k + 1 <= Len(s) THEN Len(s) - (k + 1) + 1 ELSE 0) = Len(s) - k
        BY <1>2
      <3> QED
        BY <2>2, <3>1
    <2>4. ASSUME NEW i \in 1 .. Len(s) - k PROVE b[i] = s[k + i]
      <3>1. i \in 1 .. Len(s) - (k + 1) + 1 /\ (k + 1) + i - 1 = k + i
        BY <1>2
      <3> QED
        BY <2>2, <3>1
    <2> QED
      BY <2>2, <2>3, <2>4
  <1> HIDE DEF a, b
  <1>5. a \o <<e>> \in Seq(Elements) /\ Len(a \o <<e>>) = k + 1
        /\ \A i \in 1 .. k + 1 : (a \o <<e>>)[i] = IF i <= k THEN a[i] ELSE e
    BY <1>3
  <1>6. /\ t \in Seq(Elements) /\ Len(t) = Len(s) + 1
        /\ \A i \in 1 .. Len(s) + 1 :
             t[i] = IF i <= k + 1 THEN (a \o <<e>>)[i] ELSE b[i - (k + 1)]
    BY <1>2, <1>4, <1>5, ConcatProperties
  <1> HIDE DEF t
  <1>7. \A j \in 1 .. k : t[j] = s[j]
    BY <1>2, <1>3, <1>5, <1>6
  <1>8. t[k + 1] = e
    BY <1>2, <1>5, <1>6
  <1>9. \A j \in k + 2 .. Len(s) + 1 : t[j] = s[j - 1]
    <2> SUFFICES ASSUME NEW j \in k + 2 .. Len(s) + 1 PROVE t[j] = s[j - 1]
      OBVIOUS
    <2>1. j \in 1 .. Len(s) + 1 /\ ~(j <= k + 1) /\ j - (k + 1) \in 1 .. Len(s) - k
          /\ k + (j - (k + 1)) = j - 1
      BY <1>2
    <2> QED
      BY <1>4, <1>6, <2>1
  <1> QED
    BY <1>1, <1>6, <1>7, <1>8, <1>9 DEF Inserted

\* In front of the first element and behind the last.
LEMMA EndsInsert ==
  ASSUME NEW s \in Seq(Elements), NEW e \in Elements
  PROVE  Inserted(s, <<e>> \o s, 0, e) /\ Inserted(s, Append(s, e), Len(s), e)
  BY DEF Inserted

\* RemoveAt takes one element out.
LEMMA RemoveAtRemoves ==
  ASSUME NEW s \in Seq(Elements), NEW k \in 1 .. Len(s)
  PROVE  Removed(s, QUEUE!RemoveAt(s, k), k)
  <1> DEFINE a == SubSeq(s, 1, k - 1)
             b == SubSeq(s, k + 1, Len(s))
             t == a \o b
  <1>1. QUEUE!RemoveAt(s, k) = t
    BY DEF QUEUE!RemoveAt
  <1>2. Len(s) \in Nat /\ k \in Nat /\ \A i \in 1 .. Len(s) : s[i] \in Elements
    OBVIOUS
  <1>3. a \in Seq(Elements) /\ Len(a) = k - 1 /\ \A i \in 1 .. k - 1 : a[i] = s[i]
    <2>1. \A i \in 1 .. k - 1 : s[i] \in Elements
      BY <1>2
    <2>2. /\ a \in Seq(Elements) /\ Len(a) = IF 1 <= k - 1 THEN (k - 1) - 1 + 1 ELSE 0
          /\ \A i \in 1 .. (k - 1) - 1 + 1 : a[i] = s[1 + i - 1]
      BY <1>2, <2>1, SubSeqProperties
    <2> HIDE DEF a
    <2>3. (k - 1) - 1 + 1 = k - 1 /\ \A i \in 1 .. k - 1 : 1 + i - 1 = i
      BY <1>2
    <2> QED
      BY <1>2, <2>2, <2>3
  <1>4. /\ b \in Seq(Elements) /\ Len(b) = Len(s) - k
        /\ \A i \in 1 .. Len(s) - k : b[i] = s[k + i]
    <2>1. \A i \in k + 1 .. Len(s) : s[i] \in Elements
      BY <1>2
    <2>2. /\ b \in Seq(Elements) /\ Len(b) = IF k + 1 <= Len(s) THEN Len(s) - (k + 1) + 1 ELSE 0
          /\ \A i \in 1 .. Len(s) - (k + 1) + 1 : b[i] = s[(k + 1) + i - 1]
      BY <1>2, <2>1, SubSeqProperties
    <2> HIDE DEF b
    <2>3. Len(b) = Len(s) - k
      <3>1. (IF k + 1 <= Len(s) THEN Len(s) - (k + 1) + 1 ELSE 0) = Len(s) - k
        BY <1>2
      <3> QED
        BY <2>2, <3>1
    <2>4. ASSUME NEW i \in 1 .. Len(s) - k PROVE b[i] = s[k + i]
      <3>1. i \in 1 .. Len(s) - (k + 1) + 1 /\ (k + 1) + i - 1 = k + i
        BY <1>2
      <3> QED
        BY <2>2, <3>1
    <2> QED
      BY <2>2, <2>3, <2>4
  <1> HIDE DEF a, b
  <1>5. /\ t \in Seq(Elements) /\ Len(t) = Len(s) - 1
        /\ \A i \in 1 .. Len(s) - 1 : t[i] = IF i <= k - 1 THEN a[i] ELSE b[i - (k - 1)]
    BY <1>2, <1>3, <1>4, ConcatProperties
  <1> HIDE DEF t
  <1>6. ASSUME NEW j \in 1 .. k - 1 PROVE t[j] = s[j]
    <2>1. j \in 1 .. Len(s) - 1 /\ j <= k - 1
      BY <1>2
    <2>2. t[j] = a[j]
      BY <1>5, <2>1
    <2> QED
      BY <1>3, <2>2
  <1>7. \A j \in k .. Len(s) - 1 : t[j] = s[j + 1]
    <2> SUFFICES ASSUME NEW j \in k .. Len(s) - 1 PROVE t[j] = s[j + 1]
      OBVIOUS
    <2>1. j \in 1 .. Len(s) - 1 /\ ~(j <= k - 1) /\ j - (k - 1) \in 1 .. Len(s) - k
          /\ k + (j - (k - 1)) = j + 1
      BY <1>2
    <2> QED
      BY <1>4, <1>5, <2>1
  <1> QED
    BY <1>1, <1>5, <1>6, <1>7 DEF Removed

\* Tail takes the first element out.
LEMMA TailRemoves ==
  ASSUME NEW s \in Seq(Elements), s # <<>>
  PROVE  Removed(s, Tail(s), 1)
  BY HeadTailProperties DEF Removed

\* The place of an element that occurs in a sequence.
LEMMA IndexFound ==
  ASSUME NEW s \in Seq(Elements), NEW e, e \in QUEUE!Range(s)
  PROVE  QUEUE!IndexIn(s, e) \in 1 .. Len(s) /\ s[QUEUE!IndexIn(s, e)] = e
  BY DEF QUEUE!Range, QUEUE!IndexIn

-----------------------------------------------------------------------------
\* What replacing the element e between cell c and element n, or NIL, by f makes of the
\* pointers of a list whose elements know the cell in front of them.
AfterReplace(kd, p, h, c, e, n, f) ==
  [next |-> [p.next EXCEPT ![f] = p.next[e], ![c] = f, ![e] = NIL],
   prev |-> IF n = NIL THEN [p.prev EXCEPT ![f] = c, ![e] = NIL]
            ELSE [p.prev EXCEPT ![n] = f, ![f] = c, ![e] = NIL],
   last |-> IF kd = "TAILQ" /\ n = NIL THEN [p.last EXCEPT ![h] = f] ELSE p.last]

\* It is an insertion behind the element, and the element taken out.
LEMMA ReplacePointed ==
  ASSUME QUEUE!QueueAssumption, NEW kd \in {"LIST", "TAILQ"}, NEW p, NEW l, Pointed(kd, p, l),
         NEW h \in Heads, NEW k \in 1 .. Len(l[h]), NEW f \in Elements, Outside(l, f)
  PROVE  Pointed(kd, AfterReplace(kd, p, h, CellAt(l[h], h, k - 1), l[h][k],
                                  ElementAt(l[h], k + 1), f), [l EXCEPT ![h][k] = f])
  <1> DEFINE s == l[h]
             e == l[h][k]
             c == CellAt(l[h], h, k - 1)
             n == ElementAt(l[h], k + 1)
             u == QUEUE!InsertAt(s, k + 1, f)
             t == [s EXCEPT ![k] = f]
             p1 == AfterInsert(kd, p, h, e, n, f)
             l1 == [l EXCEPT ![h] = u]
  <1>1. Apart(l) /\ FieldsTyped(p)
    BY DEF Pointed
  <1>2. s \in Seq(Elements) /\ Len(s) \in Nat /\ l \in [Heads -> Seq(Elements)]
    BY <1>1, CellsApart DEF Apart
  <1> HIDE DEF u
  <1>3. Inserted(s, u, k, f)
    <2>1. k \in 0 .. Len(s)
      BY <1>2
    <2> QED
      BY <1>2, <2>1, InsertAtInserts DEF u
  <1>4. Removed(u, t, k)
    <2> HIDE DEF s
    <2>1. /\ t \in Seq(Elements) /\ Len(t) = Len(s)
          /\ \A j \in 1 .. Len(s) : t[j] = IF j = k THEN f ELSE s[j]
      <3>1. k \in 1 .. Len(s)
        BY DEF s
      <3> QED
        BY <1>2, <3>1
    <2> HIDE DEF t
    <2>2. /\ Len(u) = Len(s) + 1 /\ \A j \in 1 .. k : u[j] = s[j]
          /\ u[k + 1] = f /\ \A j \in k + 2 .. Len(s) + 1 : u[j] = s[j - 1]
      BY <1>3 DEF Inserted
    <2>3. \A j \in 1 .. k - 1 : t[j] = u[j]
      BY <1>2, <2>1, <2>2 DEF s
    <2>4. \A j \in k .. Len(u) - 1 : t[j] = u[j + 1]
      BY <1>2, <2>1, <2>2 DEF s
    <2> QED
      BY <1>2, <2>1, <2>2, <2>3, <2>4 DEF Removed
  <1> HIDE DEF t
  <1>5. e = CellAt(l[h], h, k) /\ k \in 0 .. Len(l[h])
    BY <1>2 DEF CellAt
  <1>6. Pointed(kd, p1, l1)
    <2>1. Pointed(kd, AfterInsert(kd, p, h, CellAt(l[h], h, k), ElementAt(l[h], k + 1), f), l1)
      <3>1. kd \in Kinds /\ Inserted(l[h], u, k, f)
        BY <1>3 DEF Kinds
      <3> QED
        BY <1>5, <3>1, InsertPointed
    <2> QED
      BY <1>5, <2>1
  <1>7. /\ l1[h] = u /\ Len(u) = Len(s) + 1 /\ u[k] = e /\ CellAt(u, h, k - 1) = c
        /\ ElementAt(u, k + 1) = f /\ k \in 1 .. Len(u)
    <2>1. InsertedPlaces(s, u, h, k, f)
      BY <1>2, <1>3, <1>5, InsertedCells
    <2>2. k \in 1 .. k /\ k - 1 \in 0 .. k
      OBVIOUS
    <2>3. l1[h] = u /\ Len(u) = Len(s) + 1 /\ k \in 1 .. Len(u)
      BY <1>2, <1>3 DEF Inserted
    <2> QED
      BY <2>1, <2>2, <2>3 DEF InsertedPlaces
  <1>8. Pointed(kd, AfterRemove(kd, p1, h, c, e, f), [l1 EXCEPT ![h] = t])
    <2>1. Pointed(kd, AfterRemove(kd, p1, h, CellAt(l1[h], h, k - 1), l1[h][k],
                                  ElementAt(l1[h], k + 1)), [l1 EXCEPT ![h] = t])
      <3> HIDE DEF p1, l1
      <3>1. k \in 1 .. Len(l1[h]) /\ Removed(l1[h], t, k) /\ kd \in Kinds
        BY <1>4, <1>7 DEF Kinds
      <3> QED
        BY <1>6, <3>1, RemovePointed
    <2> QED
      BY <1>7, <2>1
  <1>9. [l1 EXCEPT ![h] = t] = [l EXCEPT ![h][k] = f]
    BY <1>2 DEF t
  <1>10. /\ e \in Elements /\ c \in QUEUE!Cells /\ n \in Elements \cup {NIL}
         /\ c # e /\ c # f /\ e # f /\ n # f /\ n # e /\ f # NIL
         /\ QUEUE!Cells = Heads \cup Elements
    <2>1. k - 1 \in 0 .. Len(l[h]) /\ k + 1 \in 1 .. Len(l[h]) + 1
      BY <1>2
    <2>2. /\ e \in Elements /\ c \in QUEUE!Cells /\ n \in Elements \cup {NIL}
          /\ QUEUE!Cells = Heads \cup Elements /\ NIL \notin QUEUE!Cells /\ Heads \cap Elements = {}
      BY <1>1, <2>1, CellsApart
    <2>3. c # e
      BY <1>1, <1>5, <2>1, CellsApart
    <2>4. e # f
      BY DEF Outside
    <2>5. c # f /\ n # f
      BY <1>2, <2>1, <2>2 DEF Outside, CellAt, ElementAt
    <2>6. n # e
      BY <1>1, <1>2, <2>2 DEF Apart, ElementAt
    <2> QED
      BY <2>2, <2>3, <2>4, <2>5, <2>6
  <1>11. Encoded(kd, h, f) = f
    BY DEF Encoded
  <1> HIDE DEF e, c, n
  <1>12. AfterRemove(kd, p1, h, c, e, f) = AfterReplace(kd, p, h, c, e, n, f)
    <2> DEFINE r == AfterRemove(kd, p1, h, c, e, f)
               r2 == AfterReplace(kd, p, h, c, e, n, f)
    <2>1. p1.next = [p.next EXCEPT ![f] = p.next[e], ![e] = f]
      BY <1>11 DEF AfterInsert
    <2>2. p1.prev = IF n = NIL THEN [p.prev EXCEPT ![f] = e]
                    ELSE [p.prev EXCEPT ![n] = f, ![f] = e]
      BY DEF AfterInsert
    <2>3. p1.last = IF kd = "TAILQ" /\ n = NIL THEN [p.last EXCEPT ![h] = f] ELSE p.last
      BY <1>11 DEF AfterInsert
    <2> HIDE DEF p1
    <2>4. p.next \in [QUEUE!Cells -> Address] /\ p.prev \in [Elements -> Plain]
      BY <1>1 DEF FieldsTyped
    <2>5. r.next = r2.next
      <3>1. r.next = [p1.next EXCEPT ![c] = p1.next[e], ![e] = NIL]
        BY DEF AfterRemove
      <3>2. r2.next = [p.next EXCEPT ![f] = p.next[e], ![c] = f, ![e] = NIL]
        BY DEF AfterReplace
      <3> QED
        BY <1>10, <2>1, <2>4, <3>1, <3>2
    <2>6. r.prev = r2.prev
      <3>1. r.prev = [p1.prev EXCEPT ![f] = c, ![e] = NIL]
        BY <1>10 DEF AfterRemove
      <3>2. r2.prev = IF n = NIL THEN [p.prev EXCEPT ![f] = c, ![e] = NIL]
                      ELSE [p.prev EXCEPT ![n] = f, ![f] = c, ![e] = NIL]
        BY DEF AfterReplace
      <3> QED
        BY <1>10, <2>2, <2>4, <3>1, <3>2
    <2>7. r.last = r2.last
      BY <1>10, <2>3 DEF AfterRemove, AfterReplace
    <2>8. /\ r = [next |-> r.next, prev |-> r.prev, last |-> r.last]
          /\ r2 = [next |-> r2.next, prev |-> r2.prev, last |-> r2.last]
      BY DEF AfterRemove, AfterReplace
    <2> QED
      BY <2>5, <2>6, <2>7, <2>8
  <1> QED
    BY <1>8, <1>9, <1>12 DEF e, c, n

-----------------------------------------------------------------------------
\* What moving the elements of h2, the first of them n, to the end of h1, whose last cell is
\* c, makes of the pointers.
AfterConcat(kd, p, h1, h2, c, n) ==
  [next |-> [p.next EXCEPT ![c] = n, ![h2] = NIL],
   prev |-> IF kd = "TAILQ" THEN [p.prev EXCEPT ![n] = c] ELSE p.prev,
   last |-> [p.last EXCEPT ![h1] = p.last[h2], ![h2] = h2]]

\* A concatenation leaves the pointers of the joined list and of an empty one.
LEMMA ConcatPointed ==
  ASSUME QUEUE!QueueAssumption, NEW kd \in {"SIMPLEQ", "TAILQ"}, NEW p, NEW l, Pointed(kd, p, l),
         NEW h1 \in Heads, NEW h2 \in Heads, h1 # h2, Len(l[h2]) > 0
  PROVE  Pointed(kd, AfterConcat(kd, p, h1, h2, CellAt(l[h1], h1, Len(l[h1])), l[h2][1]),
                 [l EXCEPT ![h1] = @ \o l[h2], ![h2] = <<>>])
  <1> DEFINE c == CellAt(l[h1], h1, Len(l[h1]))
             n == l[h2][1]
             u == l[h1] \o l[h2]
             a == Len(l[h1])
             b == Len(l[h2])
             r == AfterConcat(kd, p, h1, h2, c, n)
             m == [l EXCEPT ![h1] = @ \o l[h2], ![h2] = <<>>]
  <1>1. Apart(l) /\ FieldsTyped(p) /\ NextRight(kd, p, l) /\ PrevRight(kd, p, l)
        /\ LastRight(kd, p, l) /\ OutsideNull(p, l)
    BY DEF Pointed
  <1>2. /\ l \in [Heads -> Seq(Elements)] /\ l[h1] \in Seq(Elements) /\ l[h2] \in Seq(Elements)
        /\ a \in Nat /\ b \in Nat /\ b > 0
    BY <1>1, CellsApart DEF Apart
  <1>3. /\ m[h1] = u /\ m[h2] = <<>> /\ Len(<<>>) = 0 /\ m \in [Heads -> Seq(Elements)]
        /\ \A g \in Heads \ {h1, h2} : m[g] = l[g]
    <2>1. u \in Seq(Elements) /\ <<>> \in Seq(Elements)
      BY <1>2
    <2>2. m = [[l EXCEPT ![h1] = u] EXCEPT ![h2] = <<>>]
      OBVIOUS
    <2> HIDE DEF u, m
    <2> QED
      BY <1>2, <2>1, <2>2
  <1>4. /\ u \in Seq(Elements) /\ Len(u) = a + b
        /\ \A j \in 1 .. a + b : u[j] = IF j <= a THEN l[h1][j] ELSE l[h2][j - a]
    BY <1>2
  <1>5. /\ \A j \in 0 .. a : CellAt(u, h1, j) = CellAt(l[h1], h1, j)
        /\ \A j \in a + 1 .. a + b : CellAt(u, h1, j) = CellAt(l[h2], h2, j - a)
        /\ \A j \in 1 .. a : ElementAt(u, j) = ElementAt(l[h1], j)
        /\ \A j \in a + 1 .. a + b + 1 : ElementAt(u, j) = ElementAt(l[h2], j - a)
    <2> HIDE DEF u, a, b
    <2>1. \A j \in 0 .. a : CellAt(u, h1, j) = CellAt(l[h1], h1, j)
      <3>1. \A j \in 0 .. a : j # 0 => j \in 1 .. a + b /\ u[j] = l[h1][j]
        BY <1>2, <1>4
      <3> QED
        BY <3>1 DEF CellAt
    <2>2. \A j \in a + 1 .. a + b : CellAt(u, h1, j) = CellAt(l[h2], h2, j - a)
      BY <1>2, <1>4 DEF CellAt
    <2>3. \A j \in 1 .. a : ElementAt(u, j) = ElementAt(l[h1], j)
      BY <1>2, <1>4 DEF ElementAt, a
    <2>4. \A j \in a + 1 .. a + b + 1 : ElementAt(u, j) = ElementAt(l[h2], j - a)
      BY <1>2, <1>4 DEF ElementAt, b
    <2> QED
      BY <2>1, <2>2, <2>3, <2>4
  <1>6. /\ \A h \in Heads : \A j \in 0 .. Len(l[h]) : CellAt(l[h], h, j) \in QUEUE!Cells
        /\ \A g, h \in Heads : \A i \in 0 .. Len(l[g]), j \in 0 .. Len(l[h]) :
             CellAt(l[g], g, i) = CellAt(l[h], h, j) => g = h /\ i = j
        /\ NIL \notin QUEUE!Cells /\ QUEUE!Cells = Heads \cup Elements /\ Heads \cap Elements = {}
        /\ \A h \in Heads : Len(l[h]) \in Nat /\ \A j \in 1 .. Len(l[h]) : l[h][j] \in Elements
    BY <1>1, CellsApart
  <1>7. /\ c \in QUEUE!Cells /\ n \in Elements /\ c # h2
        /\ h2 = CellAt(l[h2], h2, 0) /\ n = CellAt(l[h2], h2, 1) /\ ElementAt(l[h2], 1) = n
        /\ \A h \in Heads : \A x \in QUEUE!Cells \cup {NIL} : Encoded(kd, h, x) = x
    BY <1>2, <1>6 DEF CellAt, ElementAt, Encoded
  <1> HIDE DEF c, n, u, a, b, r, m
  <1>8. FieldsTyped(r)
    BY <1>1, <1>7 DEF FieldsTyped, AfterConcat, Plain, Address, QUEUE!Cells, r
  <1>9. /\ \A x \in QUEUE!Cells : r.next[x] = IF x = h2 THEN NIL ELSE IF x = c THEN n ELSE p.next[x]
        /\ \A x \in Elements : r.prev[x] = IF kd = "TAILQ" /\ x = n THEN c ELSE p.prev[x]
        /\ \A x \in Heads : r.last[x]
                          = IF x = h2 THEN h2 ELSE IF x = h1 THEN p.last[h2] ELSE p.last[x]
    BY <1>1, <1>7 DEF FieldsTyped, AfterConcat, r
  <1>10. Apart(m)
    <2> SUFFICES ASSUME NEW f \in Heads, NEW g \in Heads, NEW i \in 1 .. Len(m[f]),
                        NEW j \in 1 .. Len(m[g]), m[f][i] = m[g][j]
                 PROVE  f = g /\ i = j
      BY <1>3 DEF Apart
    <2> DEFINE Head_(g_, x) == IF g_ = h1 /\ x > a THEN h2 ELSE g_
               Place(g_, x) == IF g_ = h1 /\ x > a THEN x - a ELSE x
    <2>1. f # h2 /\ g # h2
      BY <1>3
    <2>2. \A g_ \in Heads : \A x \in 1 .. Len(m[g_]) :
            /\ g_ # h2 => /\ Head_(g_, x) \in Heads /\ Place(g_, x) \in 1 .. Len(l[Head_(g_, x)])
                          /\ m[g_][x] = l[Head_(g_, x)][Place(g_, x)]
      <3> SUFFICES ASSUME NEW g_ \in Heads, NEW x \in 1 .. Len(m[g_]), g_ # h2
                   PROVE  /\ Head_(g_, x) \in Heads /\ Place(g_, x) \in 1 .. Len(l[Head_(g_, x)])
                          /\ m[g_][x] = l[Head_(g_, x)][Place(g_, x)]
        OBVIOUS
      <3>1. CASE g_ # h1
        BY <1>3, <3>1
      <3>2. CASE g_ = h1 /\ x > a
        <4>1. x \in 1 .. a + b /\ x - a \in 1 .. b /\ ~(x <= a)
          <5>1. x \in 1 .. a + b
            BY <1>3, <1>4, <3>2
          <5> QED
            BY <1>2, <3>2, <5>1
        <4>2. m[h1][x] = l[h2][x - a]
          BY <1>3, <1>4, <4>1
        <4> QED
          BY <3>2, <4>1, <4>2 DEF b
      <3>3. CASE g_ = h1 /\ x <= a
        <4>1. x \in 1 .. a + b /\ x \in 1 .. a
          <5>1. x \in 1 .. a + b
            BY <1>3, <1>4, <3>3
          <5> QED
            BY <1>2, <3>3, <5>1
        <4>2. m[h1][x] = l[h1][x]
          BY <1>3, <1>4, <3>3, <4>1
        <4> QED
          BY <1>2, <3>3, <4>1, <4>2 DEF a
      <3> QED
        BY <1>2, <1>3, <1>4, <3>1, <3>2, <3>3
    <2>3. Head_(f, i) = Head_(g, j) /\ Place(f, i) = Place(g, j)
      <3> HIDE DEF Head_, Place
      <3>1. /\ Head_(f, i) \in Heads /\ Place(f, i) \in 1 .. Len(l[Head_(f, i)])
            /\ Head_(g, j) \in Heads /\ Place(g, j) \in 1 .. Len(l[Head_(g, j)])
            /\ l[Head_(f, i)][Place(f, i)] = l[Head_(g, j)][Place(g, j)]
        BY <2>1, <2>2
      <3> QED
        BY <1>1, <3>1 DEF Apart
    <2>4. i \in Nat /\ j \in Nat
      OBVIOUS
    <2> QED
      BY <1>2, <2>1, <2>3, <2>4
  <1>11. NextRight(kd, r, m)
    <2> SUFFICES ASSUME NEW g \in Heads, NEW j \in 0 .. Len(m[g])
                 PROVE  r.next[CellAt(m[g], g, j)] = Encoded(kd, g, ElementAt(m[g], j + 1))
      BY DEF NextRight
    <2>1. CASE g \notin {h1, h2}
      <3>1. /\ m[g] = l[g] /\ CellAt(l[g], g, j) # c /\ CellAt(l[g], g, j) # h2
            /\ CellAt(l[g], g, j) \in QUEUE!Cells /\ j \in 0 .. Len(l[g])
        <4>1. a \in 0 .. Len(l[h1]) /\ 0 \in 0 .. Len(l[h2]) /\ m[g] = l[g] /\ j \in 0 .. Len(l[g])
          BY <1>2, <1>3, <2>1 DEF a, b
        <4>2. c = CellAt(l[h1], h1, a)
          BY DEF c, a
        <4> QED
          BY <1>6, <1>7, <2>1, <4>1, <4>2
      <3> QED
        BY <1>1, <1>9, <3>1 DEF NextRight
    <2>2. CASE g = h2
      <3>1. m[g] = <<>> /\ j = 0 /\ CellAt(m[g], g, j) = h2 /\ ElementAt(m[g], j + 1) = NIL
        BY <1>3, <2>2 DEF CellAt, ElementAt
      <3> QED
        BY <1>6, <1>7, <1>9, <2>2, <3>1
    <2>3. CASE g = h1 /\ j < a
      <3>1. j \in 0 .. a /\ j + 1 \in 1 .. a /\ j \in 0 .. Len(l[h1]) /\ a \in 0 .. Len(l[h1])
            /\ j # a
        BY <1>2, <2>3 DEF a
      <3>2. CellAt(u, h1, j) = CellAt(l[h1], h1, j) /\ ElementAt(u, j + 1) = ElementAt(l[h1], j + 1)
        BY <1>5, <3>1
      <3>3. /\ CellAt(l[h1], h1, j) # c /\ CellAt(l[h1], h1, j) # h2
            /\ CellAt(l[h1], h1, j) \in QUEUE!Cells
        <4>1. 0 \in 0 .. Len(l[h2]) /\ c = CellAt(l[h1], h1, a)
          BY <1>2 DEF a, b, c
        <4> QED
          BY <1>6, <1>7, <3>1, <4>1
      <3> QED
        BY <1>1, <1>3, <1>9, <2>3, <3>1, <3>2, <3>3 DEF NextRight
    <2>4. CASE g = h1 /\ j = a
      <3>1. j \in 0 .. a /\ j + 1 \in a + 1 .. a + b + 1 /\ (j + 1) - a = 1
        BY <1>2, <2>4
      <3>2. CellAt(u, h1, j) = c /\ ElementAt(u, j + 1) = n
        BY <1>5, <1>7, <2>4, <3>1 DEF c, a
      <3> QED
        BY <1>3, <1>6, <1>7, <1>9, <2>4, <3>2
    <2>5. CASE g = h1 /\ j > a
      <3>1. /\ j \in a + 1 .. a + b /\ j + 1 \in a + 1 .. a + b + 1 /\ (j + 1) - a = (j - a) + 1
            /\ j - a \in 0 .. Len(l[h2]) /\ j - a # 0 /\ a \in 0 .. Len(l[h1])
            /\ 0 \in 0 .. Len(l[h2])
        <4>1. Len(m[g]) = a + b
          BY <1>3, <1>4, <2>5
        <4> QED
          BY <1>2, <2>5, <4>1 DEF a, b
      <3>2. /\ CellAt(u, h1, j) = CellAt(l[h2], h2, j - a)
            /\ ElementAt(u, j + 1) = ElementAt(l[h2], (j - a) + 1)
        BY <1>5, <3>1
      <3>3. /\ CellAt(l[h2], h2, j - a) # c /\ CellAt(l[h2], h2, j - a) # h2
            /\ CellAt(l[h2], h2, j - a) \in QUEUE!Cells
        <4>1. c = CellAt(l[h1], h1, a)
          BY DEF a, c
        <4> QED
          BY <1>6, <1>7, <3>1, <4>1
      <3>4. p.next[CellAt(l[h2], h2, j - a)] = Encoded(kd, h2, ElementAt(l[h2], (j - a) + 1))
        BY <1>1, <3>1 DEF NextRight
      <3>5. Encoded(kd, h2, ElementAt(l[h2], (j - a) + 1))
              = Encoded(kd, h1, ElementAt(l[h2], (j - a) + 1))
        BY DEF Encoded
      <3> QED
        BY <1>3, <1>9, <2>5, <3>2, <3>3, <3>4, <3>5
    <2>6. g = h1 => j < a \/ j = a \/ j > a
      BY <1>2, <1>3, <1>4
    <2> QED
      BY <2>1, <2>2, <2>3, <2>4, <2>5, <2>6
  <1>12. PrevRight(kd, r, m)
    <2> SUFFICES ASSUME NEW g \in Heads, NEW j \in 1 .. Len(m[g])
                 PROVE  r.prev[m[g][j]] = IF kd \in {"LIST", "TAILQ"} THEN CellAt(m[g], g, j - 1)
                                          ELSE NIL
      BY DEF PrevRight
    <2>1. g # h2
      BY <1>3
    <2>2. CASE g # h1
      <3>1. m[g] = l[g] /\ j \in 1 .. Len(l[g]) /\ l[g][j] \in Elements /\ l[g][j] # n
        BY <1>1, <1>2, <1>3, <1>6, <2>1, <2>2 DEF Apart, n, b
      <3>2. p.prev[l[g][j]] = IF kd \in {"LIST", "TAILQ"} THEN CellAt(l[g], g, j - 1) ELSE NIL
        BY <1>1, <3>1 DEF PrevRight
      <3> QED
        BY <1>9, <3>1, <3>2
    <2>3. CASE g = h1 /\ j <= a
      <3>1. j \in 0 .. a /\ j - 1 \in 0 .. a /\ j \in 1 .. a /\ j \in 1 .. a + b
        BY <1>2, <2>3
      <3>2. u[j] = l[h1][j] /\ CellAt(u, h1, j - 1) = CellAt(l[h1], h1, j - 1)
        BY <1>4, <1>5, <3>1
      <3>3. l[h1][j] \in Elements /\ l[h1][j] # n
        BY <1>1, <1>2, <1>6, <3>1 DEF Apart, n, a, b
      <3>4. p.prev[l[h1][j]] = IF kd \in {"LIST", "TAILQ"} THEN CellAt(l[h1], h1, j - 1) ELSE NIL
        BY <1>1, <3>1 DEF PrevRight, a
      <3> QED
        BY <1>3, <1>9, <2>3, <3>2, <3>3, <3>4
    <2>4. CASE g = h1 /\ j = a + 1
      <3>1. j \in 1 .. a + b /\ j - 1 = a /\ j - 1 \in 0 .. a /\ j - a = 1 /\ ~(j <= a)
        BY <1>2, <2>4
      <3>2. u[j] = n /\ CellAt(u, h1, j - 1) = c
        BY <1>4, <1>5, <3>1 DEF n, c, a
      <3>3. kd # "TAILQ" => p.prev[n] = NIL
        <4>1. 1 \in 1 .. Len(l[h2])
          BY <1>2 DEF b
        <4> QED
          BY <1>1, <4>1 DEF PrevRight, n
      <3> QED
        BY <1>3, <1>7, <1>9, <2>4, <3>2, <3>3
    <2>5. CASE g = h1 /\ j > a + 1
      <3>1. /\ j \in 1 .. a + b /\ ~(j <= a) /\ j - 1 \in a + 1 .. a + b
            /\ j - a \in 1 .. Len(l[h2])
            /\ j - a # 1 /\ (j - a) - 1 = (j - 1) - a
        <4>1. Len(m[g]) = a + b
          BY <1>3, <1>4, <2>5
        <4> QED
          BY <1>2, <2>5, <4>1 DEF b
      <3>2. u[j] = l[h2][j - a] /\ CellAt(u, h1, j - 1) = CellAt(l[h2], h2, (j - a) - 1)
        BY <1>4, <1>5, <3>1
      <3>3. l[h2][j - a] \in Elements /\ l[h2][j - a] # n
        <4>1. 1 \in 1 .. Len(l[h2])
          BY <1>2 DEF b
        <4> QED
          BY <1>1, <1>6, <3>1, <4>1 DEF Apart, n
      <3>4. p.prev[l[h2][j - a]]
              = IF kd \in {"LIST", "TAILQ"} THEN CellAt(l[h2], h2, (j - a) - 1) ELSE NIL
        BY <1>1, <3>1 DEF PrevRight
      <3> QED
        BY <1>3, <1>9, <2>5, <3>2, <3>3, <3>4
    <2>6. g = h1 => j <= a \/ j = a + 1 \/ j > a + 1
      BY <1>2, <1>3, <1>4
    <2> QED
      BY <2>1, <2>2, <2>3, <2>4, <2>5, <2>6
  <1>13. LastRight(kd, r, m)
    <2> SUFFICES ASSUME NEW g \in Heads
                 PROVE  r.last[g] = Encoded(kd, g, CellAt(m[g], g, Len(m[g])))
      BY DEF LastRight
    <2>1. \A x \in Heads : p.last[x] = Encoded(kd, x, CellAt(l[x], x, Len(l[x])))
      BY <1>1 DEF LastRight
    <2>2. CASE g \notin {h1, h2}
      BY <1>3, <1>9, <2>1, <2>2
    <2>3. CASE g = h2
      <3>1. CellAt(m[g], g, Len(m[g])) = h2
        BY <1>3, <2>3 DEF CellAt
      <3> QED
        BY <1>6, <1>7, <1>9, <2>3, <3>1
    <2>4. CASE g = h1
      <3>1. a + b \in a + 1 .. a + b /\ (a + b) - a = b
        BY <1>2
      <3>2. CellAt(m[g], g, Len(m[g])) = CellAt(l[h2], h2, b)
        BY <1>3, <1>4, <1>5, <2>4, <3>1
      <3> QED
        BY <1>9, <2>1, <2>4, <3>2 DEF Encoded, b
    <2> QED
      BY <2>2, <2>3, <2>4
  <1>14. OutsideNull(r, m)
    <2> SUFFICES ASSUME NEW x \in Elements, Outside(m, x)
                 PROVE  r.next[x] = NIL /\ r.prev[x] = NIL
      BY DEF OutsideNull, Outside
    <2>1. Outside(l, x)
      <3> SUFFICES ASSUME NEW g \in Heads, NEW j \in 1 .. Len(l[g]), l[g][j] = x PROVE FALSE
        BY DEF Outside
      <3>1. CASE g \notin {h1, h2}
        BY <1>3, <3>1 DEF Outside
      <3>2. CASE g = h1
        <4>1. j \in 1 .. a + b /\ j <= a
          BY <1>2, <3>2 DEF a
        <4>2. j \in 1 .. Len(m[h1]) /\ m[h1][j] = x
          BY <1>3, <1>4, <3>2, <4>1
        <4> QED
          BY <4>2 DEF Outside
      <3>3. CASE g = h2
        <4>1. j + a \in 1 .. a + b /\ ~(j + a <= a) /\ (j + a) - a = j
          BY <1>2, <3>3 DEF b
        <4>2. j + a \in 1 .. Len(m[h1]) /\ m[h1][j + a] = x
          BY <1>3, <1>4, <3>3, <4>1
        <4> QED
          BY <4>2 DEF Outside
      <3> QED
        BY <3>1, <3>2, <3>3
    <2>2. p.next[x] = NIL /\ p.prev[x] = NIL
      BY <1>1, <2>1 DEF Outside, OutsideNull
    <2>3. x # h2 /\ x # n /\ x # c
      <3>1. 1 \in 1 .. Len(l[h2]) /\ a \in 0 .. Len(l[h1])
        BY <1>2 DEF a, b
      <3> QED
        BY <1>2, <1>6, <2>1, <3>1 DEF Outside, CellAt, c, n, a
    <2> QED
      BY <1>6, <1>9, <2>2, <2>3
  <1> QED
    BY <1>8, <1>10, <1>11, <1>12, <1>13, <1>14 DEF Pointed, r, m, c, n

-----------------------------------------------------------------------------
\* The assignments of the macros, field by field.
Fields(a, b, c) == [next |-> a, prev |-> b, last |-> c]
Put(f, x, v) == [f EXCEPT ![x] = v]
PutNext(p, x, v) == [p EXCEPT !.next[x] = v]
PutPrev(p, x, v) == [p EXCEPT !.prev[x] = v]
PutLast(p, x, v) == [p EXCEPT !.last[x] = v]

\* An assignment to one of the fields leaves the others as they are.
LEMMA Assigned ==
  /\ \A a, b, c, x, v : PutNext(Fields(a, b, c), x, v) = Fields(Put(a, x, v), b, c)
  /\ \A a, b, c, x, v : PutPrev(Fields(a, b, c), x, v) = Fields(a, Put(b, x, v), c)
  /\ \A a, b, c, x, v : PutLast(Fields(a, b, c), x, v) = Fields(a, b, Put(c, x, v))
  BY DEF Fields, Put, PutNext, PutPrev, PutLast

\* The assignment to prev that only LIST and TAILQ make, of an element that exists.
LEMMA PrevSet ==
  ASSUME NEW a, NEW b, NEW c, NEW n, NEW x
  PROVE  QUEUE!SetPrev(Fields(a, b, c), n, x)
           = Fields(a, IF kind \in {"LIST", "TAILQ"} /\ n # NIL THEN Put(b, n, x) ELSE b, c)
  <1> DEFINE p == Fields(a, b, c)
  <1> HIDE DEF p
  <1>1. QUEUE!SetPrev(p, n, x)
          = IF kind \in {"LIST", "TAILQ"} /\ n # NIL THEN PutPrev(p, n, x) ELSE p
    BY DEF QUEUE!SetPrev, QUEUE!Double, PutPrev
  <1>2. PutPrev(p, n, x) = Fields(a, Put(b, n, x), c)
    BY Assigned DEF p
  <1> QED
    BY <1>1, <1>2 DEF p

\* The assignment to last that only the kinds with a tail pointer make.
LEMMA LastSet ==
  ASSUME NEW a, NEW b, NEW c, NEW h, NEW x
  PROVE  QUEUE!SetLast(Fields(a, b, c), h, x)
           = Fields(a, b, IF kind \in {"SIMPLEQ", "XSIMPLEQ", "TAILQ"}
                          THEN Put(c, h, QUEUE!XOR(h, x)) ELSE c)
  <1> DEFINE p == Fields(a, b, c)
  <1> HIDE DEF p
  <1>1. QUEUE!SetLast(p, h, x) = IF kind \in {"SIMPLEQ", "XSIMPLEQ", "TAILQ"}
                                 THEN PutLast(p, h, QUEUE!XOR(h, x)) ELSE p
    BY DEF QUEUE!SetLast, QUEUE!Tail_, PutLast
  <1>2. PutLast(p, h, QUEUE!XOR(h, x)) = Fields(a, b, Put(c, h, QUEUE!XOR(h, x)))
    BY Assigned DEF p
  <1> QED
    BY <1>1, <1>2 DEF p

\* What the macros read of the pointers at place k of a list.
LEMMA Reads ==
  ASSUME QUEUE!QueueAssumption, NEW kd \in Kinds, NEW p, NEW l, Pointed(kd, p, l), NEW h \in Heads,
         NEW k \in 0 .. Len(l[h])
  PROVE  /\ p = Fields(p.next, p.prev, p.last)
         /\ p.next[CellAt(l[h], h, k)] = Encoded(kd, h, ElementAt(l[h], k + 1))
         /\ CellAt(l[h], h, k) \in QUEUE!Cells /\ ElementAt(l[h], k + 1) \in Elements \cup {NIL}
         /\ CellAt(l[h], h, k) \in Plain /\ ElementAt(l[h], k + 1) \in Plain /\ NIL \in Plain
         /\ Elements \subseteq Plain /\ NIL \notin Elements
  <1>1. Apart(l) /\ FieldsTyped(p) /\ NextRight(kd, p, l)
    BY DEF Pointed
  <1>2. k + 1 \in 1 .. Len(l[h]) + 1
    OBVIOUS
  <1>3. /\ CellAt(l[h], h, k) \in QUEUE!Cells /\ ElementAt(l[h], k + 1) \in Elements \cup {NIL}
        /\ QUEUE!Cells = Heads \cup Elements /\ NIL \notin QUEUE!Cells
    BY <1>1, <1>2, CellsApart
  <1>4. p = Fields(p.next, p.prev, p.last)
    BY <1>1 DEF FieldsTyped, Fields
  <1>5. p.next[CellAt(l[h], h, k)] = Encoded(kd, h, ElementAt(l[h], k + 1))
    BY <1>1 DEF NextRight
  <1> QED
    BY <1>3, <1>4, <1>5 DEF Plain

\* INSERT_HEAD and INSERT_AFTER.
LEMMA LinkInserts ==
  ASSUME QUEUE!QueueAssumption, kind \in Kinds, Pointed(kind, q, list), NEW h \in Heads,
         NEW k \in 0 .. Len(list[h]), NEW e \in Elements
  PROVE  QUEUE!Link(q, h, CellAt(list[h], h, k), e)
           = AfterInsert(kind, q, h, CellAt(list[h], h, k), ElementAt(list[h], k + 1), e)
  <1> DEFINE c == CellAt(list[h], h, k)
             n == ElementAt(list[h], k + 1)
             a == q.next
             b == q.prev
             d == q.last
             x == Encoded(kind, h, e)
  <1>1. /\ q = Fields(a, b, d) /\ a[c] = Encoded(kind, h, n)
        /\ c \in Plain /\ n \in Plain /\ NIL \in Plain /\ e \in Plain /\ e # NIL
    BY Reads
  <1>2. QUEUE!XOR(h, NIL) = Encoded(kind, h, NIL) /\ QUEUE!XOR(h, e) = x
    BY <1>1, Xored
  <1>3. a[c] = QUEUE!XOR(h, NIL) <=> n = NIL
    BY <1>1, <1>2, StoredForm
  <1>4. kind \in {"LIST", "TAILQ"} => a[c] = n
    BY <1>1 DEF Encoded
  <1> DEFINE p1 == PutNext(q, e, a[c])
             p2 == IF a[c] = QUEUE!XOR(h, NIL) THEN QUEUE!SetLast(p1, h, e)
                   ELSE QUEUE!SetPrev(p1, a[c], e)
  <1>5. QUEUE!Link(q, h, c, e) = QUEUE!SetPrev(PutNext(p2, c, QUEUE!XOR(h, e)), e, c)
    BY DEF QUEUE!Link, PutNext
  <1> DEFINE a1 == Put(a, e, a[c])
             b1 == IF kind \in {"LIST", "TAILQ"} /\ n # NIL THEN Put(b, n, e) ELSE b
             d1 == IF kind \in {"SIMPLEQ", "XSIMPLEQ", "TAILQ"} /\ n = NIL THEN Put(d, h, x) ELSE d
  <1> HIDE DEF a, b, d, c, n, x
  <1>6. p1 = Fields(a1, b, d)
    BY <1>1, Assigned
  <1> HIDE DEF p1, a1
  <1>7. p2 = Fields(a1, b1, d1)
    <2>1. CASE n = NIL
      BY <1>2, <1>3, <1>6, <2>1, LastSet
    <2>2. CASE n # NIL
      BY <1>3, <1>4, <1>6, <2>2, PrevSet
    <2> QED
      BY <2>1, <2>2
  <1> HIDE DEF p2, b1, d1
  <1>8. PutNext(p2, c, x) = Fields(Put(a1, c, x), b1, d1)
    BY <1>7, Assigned
  <1>9. QUEUE!Link(q, h, c, e)
          = Fields(Put(a1, c, x), IF kind \in {"LIST", "TAILQ"} THEN Put(b1, e, c) ELSE b1, d1)
    BY <1>1, <1>2, <1>5, <1>8, PrevSet
  <1> QED
    BY <1>9 DEF AfterInsert, Fields, Put, a1, b1, d1, a, b, d, c, n, x

\* INSERT_TAIL.
LEMMA LinkTailInserts ==
  ASSUME QUEUE!QueueAssumption, kind \in Kinds, Pointed(kind, q, list), NEW h \in Heads,
         NEW e \in Elements, kind \in {"SIMPLEQ", "XSIMPLEQ", "TAILQ"}
  PROVE  LET k == Len(list[h])
         IN  QUEUE!LinkTail(q, h, e)
               = AfterInsert(kind, q, h, CellAt(list[h], h, k), ElementAt(list[h], k + 1), e)
  <1> DEFINE k == Len(list[h])
             c == CellAt(list[h], h, k)
             n == ElementAt(list[h], k + 1)
             a == q.next
             b == q.prev
             d == q.last
             x == Encoded(kind, h, e)
  <1>1. Apart(list) /\ LastRight(kind, q, list) /\ k \in Nat /\ k \in 0 .. Len(list[h])
    BY CellsApart DEF Pointed
  <1>2. /\ q = Fields(a, b, d) /\ a[c] = Encoded(kind, h, n)
        /\ c \in Plain /\ NIL \in Plain /\ e \in Plain /\ e # NIL
    BY <1>1, Reads
  <1>3. n = NIL
    BY <1>1 DEF ElementAt
  <1>4. d[h] = Encoded(kind, h, c)
    BY <1>1 DEF LastRight
  <1>5. QUEUE!XOR(h, NIL) = a[c] /\ QUEUE!XOR(h, e) = x /\ QUEUE!XOR(h, d[h]) = c
    BY <1>2, <1>3, <1>4, Xored
  <1>6. kind = "TAILQ" => d[h] = c
    BY <1>4 DEF Encoded
  <1> DEFINE p1 == QUEUE!SetPrev(PutNext(q, e, QUEUE!XOR(h, NIL)), e, d[h])
  <1>7. QUEUE!LinkTail(q, h, e)
          = QUEUE!SetLast(PutNext(p1, QUEUE!XOR(h, d[h]), QUEUE!XOR(h, e)), h, e)
    BY DEF QUEUE!LinkTail, PutNext
  <1> DEFINE a1 == Put(a, e, a[c])
             b1 == IF kind = "TAILQ" THEN Put(b, e, c) ELSE b
             d1 == Put(d, h, x)
  <1> HIDE DEF a, b, d, c, n, x, k
  <1>8. p1 = Fields(a1, b1, d)
    <2>1. PutNext(q, e, a[c]) = Fields(a1, b, d)
      BY <1>2, Assigned
    <2> HIDE DEF a1
    <2> QED
      BY <1>2, <1>5, <1>6, <2>1, PrevSet
  <1> HIDE DEF p1, a1, b1
  <1>9. PutNext(p1, c, x) = Fields(Put(a1, c, x), b1, d)
    BY <1>8, Assigned
  <1>10. QUEUE!LinkTail(q, h, e) = Fields(Put(a1, c, x), b1, d1)
    BY <1>5, <1>7, <1>9, LastSet
  <1> QED
    BY <1>3, <1>10 DEF AfterInsert, Fields, Put, a1, b1, d1, a, b, d, c, n, x, k

\* INSERT_BEFORE.
LEMMA LinkBeforeInserts ==
  ASSUME QUEUE!QueueAssumption, kind \in {"LIST", "TAILQ"}, Pointed(kind, q, list), NEW h \in Heads,
         NEW k \in 1 .. Len(list[h]), NEW e \in Elements, Outside(list, e)
  PROVE  QUEUE!LinkBefore(q, list[h][k], e)
           = AfterInsert(kind, q, h, CellAt(list[h], h, k - 1), ElementAt(list[h], (k - 1) + 1), e)
  <1> DEFINE c == CellAt(list[h], h, k - 1)
             at == list[h][k]
             a == q.next
             b == q.prev
             d == q.last
  <1>1. Apart(list) /\ FieldsTyped(q) /\ PrevRight(kind, q, list) /\ Len(list[h]) \in Nat
    BY CellsApart DEF Pointed
  <1>2. k - 1 \in 0 .. Len(list[h]) /\ (k - 1) + 1 = k /\ kind \in Kinds
    BY <1>1 DEF Kinds
  <1>3. ElementAt(list[h], (k - 1) + 1) = at
    BY <1>2 DEF ElementAt
  <1>4. /\ q = Fields(a, b, d) /\ a[c] = Encoded(kind, h, at)
        /\ c \in Plain /\ at \in Plain /\ NIL \in Plain /\ e \in Plain /\ NIL \notin Elements
    BY <1>2, <1>3, Reads
  <1>5. at # NIL /\ at # e /\ at \in Elements
    BY <1>1, <1>4, CellsApart DEF Outside
  <1>6. b[at] = c /\ a[c] = at
    BY <1>1, <1>4 DEF PrevRight, Encoded
  <1>7. b \in [Elements -> Plain]
    BY <1>1 DEF FieldsTyped
  <1>8. QUEUE!LinkBefore(q, at, e)
          = PutPrev(PutNext(PutNext(PutPrev(q, e, b[at]), e, at), b[at], e), at, e)
    BY DEF QUEUE!LinkBefore, PutNext, PutPrev
  <1> HIDE DEF a, b, d, c, at
  <1>9. QUEUE!LinkBefore(q, at, e)
          = Fields(Put(Put(a, e, at), c, e), Put(Put(b, e, c), at, e), d)
    BY <1>4, <1>6, <1>8, Assigned
  <1>10. Put(Put(b, e, c), at, e) = Put(Put(b, at, e), e, c)
    BY <1>5, <1>7 DEF Put
  <1>11. Encoded(kind, h, e) = e
    BY DEF Encoded
  <1>12. AfterInsert(kind, q, h, c, at, e)
           = Fields(Put(Put(a, e, at), c, e), Put(Put(b, at, e), e, c), d)
    BY <1>5, <1>6, <1>11 DEF AfterInsert, Fields, Put, a, b, d
  <1> QED
    BY <1>3, <1>9, <1>10, <1>12 DEF c, at

-----------------------------------------------------------------------------
\* What the macros read of element number k of a list.
LEMMA ReadsElement ==
  ASSUME QUEUE!QueueAssumption, NEW kd \in Kinds, NEW p, NEW l, Pointed(kd, p, l), NEW h \in Heads,
         NEW k \in 1 .. Len(l[h])
  PROVE  /\ p = Fields(p.next, p.prev, p.last)
         /\ p.next[CellAt(l[h], h, k - 1)] = Encoded(kd, h, l[h][k])
         /\ p.next[l[h][k]] = Encoded(kd, h, ElementAt(l[h], k + 1))
         /\ kd \in {"LIST", "TAILQ"} => p.prev[l[h][k]] = CellAt(l[h], h, k - 1)
         /\ CellAt(l[h], h, k - 1) \in Plain /\ CellAt(l[h], h, k - 1) # l[h][k]
         /\ l[h][k] \in Elements /\ l[h][k] \in Plain /\ l[h][k] # NIL
         /\ ElementAt(l[h], k + 1) \in Plain /\ NIL \in Plain
  <1>1. Apart(l) /\ FieldsTyped(p) /\ PrevRight(kd, p, l) /\ Len(l[h]) \in Nat
    BY CellsApart DEF Pointed
  <1>2. /\ k - 1 \in 0 .. Len(l[h]) /\ k \in 0 .. Len(l[h]) /\ (k - 1) + 1 = k /\ k - 1 # k
        /\ k # 0 /\ k <= Len(l[h])
    BY <1>1
  <1>3. CellAt(l[h], h, k) = l[h][k] /\ ElementAt(l[h], k) = l[h][k]
    BY <1>2 DEF CellAt, ElementAt
  <1>4. l[h][k] \in Elements
    BY <1>1, CellsApart
  <1>5. /\ p = Fields(p.next, p.prev, p.last)
        /\ p.next[CellAt(l[h], h, k - 1)] = Encoded(kd, h, ElementAt(l[h], (k - 1) + 1))
        /\ CellAt(l[h], h, k - 1) \in Plain /\ NIL \in Plain /\ Elements \subseteq Plain
        /\ NIL \notin Elements
    BY <1>2, Reads
  <1>6. /\ p.next[CellAt(l[h], h, k)] = Encoded(kd, h, ElementAt(l[h], k + 1))
        /\ ElementAt(l[h], k + 1) \in Plain
    BY <1>2, Reads
  <1>7. CellAt(l[h], h, k - 1) # CellAt(l[h], h, k)
    BY <1>1, <1>2, CellsApart
  <1>8. kd \in {"LIST", "TAILQ"} => p.prev[l[h][k]] = CellAt(l[h], h, k - 1)
    BY <1>1 DEF PrevRight
  <1> QED
    BY <1>2, <1>3, <1>4, <1>5, <1>6, <1>7, <1>8

\* The fields of the element that was taken out.
LEMMA Forgotten ==
  ASSUME NEW a, NEW b, NEW c, NEW e, e # NIL
  PROVE  QUEUE!Forget(Fields(a, b, c), e)
           = Fields(Put(a, e, NIL), IF kind \in {"LIST", "TAILQ"} THEN Put(b, e, NIL) ELSE b, c)
  <1> DEFINE p == Fields(a, b, c)
  <1> HIDE DEF p
  <1>1. QUEUE!Forget(p, e) = QUEUE!SetPrev(PutNext(p, e, NIL), e, NIL)
    BY DEF QUEUE!Forget, PutNext
  <1>2. PutNext(p, e, NIL) = Fields(Put(a, e, NIL), b, c)
    BY Assigned DEF p
  <1> QED
    BY <1>1, <1>2, PrevSet DEF p

\* REMOVE_HEAD, REMOVE_AFTER and SLIST_REMOVE.
LEMMA UnlinkAfterRemoves ==
  ASSUME QUEUE!QueueAssumption, kind \in Kinds, kind \notin {"LIST", "TAILQ"},
         Pointed(kind, q, list), NEW h \in Heads, NEW k \in 1 .. Len(list[h])
  PROVE  QUEUE!UnlinkAfter(q, h, CellAt(list[h], h, k - 1))
           = AfterRemove(kind, q, h, CellAt(list[h], h, k - 1), list[h][k],
                         ElementAt(list[h], k + 1))
  <1> DEFINE c == CellAt(list[h], h, k - 1)
             e == list[h][k]
             n == ElementAt(list[h], k + 1)
             a == q.next
             b == q.prev
             d == q.last
  <1>1. /\ q = Fields(a, b, d) /\ a[c] = Encoded(kind, h, e) /\ a[e] = Encoded(kind, h, n)
        /\ c \in Plain /\ e \in Plain /\ n \in Plain /\ NIL \in Plain /\ e # NIL
    BY ReadsElement
  <1>2. QUEUE!XOR(h, NIL) = Encoded(kind, h, NIL) /\ QUEUE!XOR(h, c) = Encoded(kind, h, c)
    BY <1>1, Xored
  <1>3. QUEUE!XOR(h, a[c]) = e
    BY <1>1, Xored
  <1>4. a[e] = QUEUE!XOR(h, NIL) <=> n = NIL
    BY <1>1, <1>2, StoredForm
  <1> DEFINE p1 == PutNext(q, c, a[e])
             p2 == IF a[e] = QUEUE!XOR(h, NIL) THEN QUEUE!SetLast(p1, h, c) ELSE p1
  <1>5. QUEUE!UnlinkAfter(q, h, c) = QUEUE!Forget(p2, e)
    BY <1>3 DEF QUEUE!UnlinkAfter, PutNext
  <1> DEFINE a1 == Put(a, c, a[e])
             d1 == IF kind \in {"SIMPLEQ", "XSIMPLEQ", "TAILQ"} /\ n = NIL
                   THEN Put(d, h, Encoded(kind, h, c)) ELSE d
  <1> HIDE DEF a, b, d, c, e, n
  <1>6. p1 = Fields(a1, b, d)
    BY <1>1, Assigned
  <1> HIDE DEF p1, a1
  <1>7. p2 = Fields(a1, b, d1)
    BY <1>2, <1>4, <1>6, LastSet
  <1> HIDE DEF p2, d1
  <1>8. QUEUE!UnlinkAfter(q, h, c) = Fields(Put(a1, e, NIL), b, d1)
    BY <1>1, <1>5, <1>7, Forgotten
  <1> QED
    BY <1>8 DEF AfterRemove, Fields, Put, a1, d1, a, b, d, c, e, n

\* LIST_REMOVE and TAILQ_REMOVE.
LEMMA UnlinkRemoves ==
  ASSUME QUEUE!QueueAssumption, kind \in {"LIST", "TAILQ"}, Pointed(kind, q, list), NEW h \in Heads,
         NEW k \in 1 .. Len(list[h])
  PROVE  QUEUE!Unlink(q, h, list[h][k])
           = AfterRemove(kind, q, h, CellAt(list[h], h, k - 1), list[h][k],
                         ElementAt(list[h], k + 1))
  <1> DEFINE c == CellAt(list[h], h, k - 1)
             e == list[h][k]
             n == ElementAt(list[h], k + 1)
             a == q.next
             b == q.prev
             d == q.last
  <1>1. /\ q = Fields(a, b, d) /\ a[c] = Encoded(kind, h, e) /\ a[e] = Encoded(kind, h, n)
        /\ b[e] = c
        /\ c \in Plain /\ e \in Plain /\ n \in Plain /\ NIL \in Plain /\ e # NIL /\ kind \in Kinds
    BY ReadsElement DEF Kinds
  <1>2. QUEUE!XOR(h, c) = c /\ Encoded(kind, h, c) = c /\ a[e] = n
    BY <1>1, Xored DEF Encoded
  <1> DEFINE p1 == IF a[e] = NIL THEN QUEUE!SetLast(q, h, b[e]) ELSE QUEUE!SetPrev(q, a[e], b[e])
  <1>3. QUEUE!Unlink(q, h, e) = QUEUE!Forget(PutNext(p1, b[e], a[e]), e)
    BY DEF QUEUE!Unlink, PutNext
  <1> DEFINE b1 == IF n # NIL THEN Put(b, n, c) ELSE b
             d1 == IF kind = "TAILQ" /\ n = NIL THEN Put(d, h, c) ELSE d
  <1> HIDE DEF a, b, d, c, e, n
  <1>4. p1 = Fields(a, b1, d1)
    <2>1. CASE n = NIL
      BY <1>1, <1>2, <2>1, LastSet
    <2>2. CASE n # NIL
      BY <1>1, <1>2, <2>2, PrevSet
    <2> QED
      BY <2>1, <2>2
  <1> HIDE DEF p1, b1, d1
  <1>5. PutNext(p1, c, n) = Fields(Put(a, c, n), b1, d1)
    BY <1>4, Assigned
  <1>6. QUEUE!Unlink(q, h, e) = Fields(Put(Put(a, c, n), e, NIL), Put(b1, e, NIL), d1)
    BY <1>1, <1>2, <1>3, <1>5, Forgotten
  <1> QED
    BY <1>2, <1>6 DEF AfterRemove, Fields, Put, b1, d1, a, b, d, c, e, n

\* LIST_REPLACE and TAILQ_REPLACE.
LEMMA ExchangeReplaces ==
  ASSUME QUEUE!QueueAssumption, kind \in {"LIST", "TAILQ"}, Pointed(kind, q, list), NEW h \in Heads,
         NEW k \in 1 .. Len(list[h]), NEW f \in Elements
  PROVE  QUEUE!Exchange(q, h, list[h][k], f)
           = AfterReplace(kind, q, h, CellAt(list[h], h, k - 1), list[h][k],
                          ElementAt(list[h], k + 1), f)
  <1> DEFINE c == CellAt(list[h], h, k - 1)
             e == list[h][k]
             n == ElementAt(list[h], k + 1)
             a == q.next
             b == q.prev
             d == q.last
  <1>1. /\ q = Fields(a, b, d) /\ a[c] = Encoded(kind, h, e) /\ a[e] = Encoded(kind, h, n)
        /\ b[e] = c /\ e # NIL /\ f \in Plain
    <2>1. f \in Plain
      BY DEF Plain, QUEUE!Cells
    <2> QED
      BY <2>1, ReadsElement DEF Kinds
  <1>2. QUEUE!XOR(h, f) = f /\ a[e] = n
    BY <1>1, Xored DEF Encoded
  <1> DEFINE p1 == PutNext(q, f, a[e])
             p2 == IF a[e] = NIL THEN QUEUE!SetLast(p1, h, f) ELSE QUEUE!SetPrev(p1, a[e], f)
  <1>3. QUEUE!Exchange(q, h, e, f) = QUEUE!Forget(PutNext(PutPrev(p2, f, b[e]), b[e], f), e)
    BY DEF QUEUE!Exchange, PutNext, PutPrev
  <1> DEFINE a1 == Put(a, f, n)
             b1 == IF n # NIL THEN Put(b, n, f) ELSE b
             d1 == IF kind = "TAILQ" /\ n = NIL THEN Put(d, h, f) ELSE d
  <1> HIDE DEF a, b, d, c, e, n
  <1>4. p1 = Fields(a1, b, d)
    BY <1>1, <1>2, Assigned
  <1> HIDE DEF p1, a1
  <1>5. p2 = Fields(a1, b1, d1)
    <2>1. CASE n = NIL
      BY <1>2, <1>4, <2>1, LastSet
    <2>2. CASE n # NIL
      BY <1>2, <1>4, <2>2, PrevSet
    <2> QED
      BY <2>1, <2>2
  <1> HIDE DEF p2, b1, d1
  <1>6. PutNext(PutPrev(p2, f, c), c, f) = Fields(Put(a1, c, f), Put(b1, f, c), d1)
    BY <1>5, Assigned
  <1>7. QUEUE!Exchange(q, h, e, f)
          = Fields(Put(Put(a1, c, f), e, NIL), Put(Put(b1, f, c), e, NIL), d1)
    BY <1>1, <1>3, <1>6, Forgotten
  <1> QED
    BY <1>2, <1>7 DEF AfterReplace, Fields, Put, a1, b1, d1, a, b, d, c, e, n

\* SIMPLEQ_CONCAT and TAILQ_CONCAT of a second list that is not empty.
LEMMA SpliceConcats ==
  ASSUME QUEUE!QueueAssumption, kind \in {"SIMPLEQ", "TAILQ"}, Pointed(kind, q, list),
         NEW h1 \in Heads, NEW h2 \in Heads, Len(list[h2]) > 0
  PROVE  QUEUE!Splice(q, h1, h2)
           = AfterConcat(kind, q, h1, h2, CellAt(list[h1], h1, Len(list[h1])), list[h2][1])
  <1> DEFINE c == CellAt(list[h1], h1, Len(list[h1]))
             n == list[h2][1]
             a == q.next
             b == q.prev
             d == q.last
  <1>1. LastRight(kind, q, list) /\ Len(list[h2]) \in Nat
    BY CellsApart DEF Pointed
  <1>2. 1 \in 1 .. Len(list[h2]) /\ 1 - 1 = 0 /\ kind \in Kinds
    BY <1>1 DEF Kinds
  <1>3. /\ q = Fields(a, b, d) /\ a[CellAt(list[h2], h2, 1 - 1)] = Encoded(kind, h2, n) /\ n # NIL
    BY <1>2, ReadsElement
  <1>4. a[h2] = n
    BY <1>2, <1>3 DEF CellAt, Encoded
  <1>5. d[h1] = c
    BY <1>1 DEF LastRight, Encoded
  <1> DEFINE p1 == PutLast(PutNext(q, d[h1], a[h2]), h1, d[h2])
             p2 == QUEUE!SetPrev(p1, a[h2], d[h1])
  <1>6. QUEUE!Splice(q, h1, h2) = PutLast(PutNext(p2, h2, NIL), h2, h2)
    BY DEF QUEUE!Splice, PutNext, PutLast
  <1> DEFINE a1 == Put(a, c, n)
             b1 == IF kind = "TAILQ" THEN Put(b, n, c) ELSE b
             d1 == Put(d, h1, d[h2])
  <1> HIDE DEF a, b, d, c, n
  <1>7. p1 = Fields(a1, b, d1)
    BY <1>3, <1>4, <1>5, Assigned
  <1> HIDE DEF p1, a1, d1
  <1>8. p2 = Fields(a1, b1, d1)
    BY <1>3, <1>4, <1>5, <1>7, PrevSet
  <1> HIDE DEF p2, b1
  <1>9. QUEUE!Splice(q, h1, h2) = Fields(Put(a1, h2, NIL), b1, Put(d1, h2, h2))
    BY <1>6, <1>8, Assigned
  <1> QED
    BY <1>9 DEF AfterConcat, Fields, Put, a1, b1, d1, a, b, d, c, n

\* REMOVE: the search of SLIST_REMOVE ends at the cell that leads to the element.
LEMMA RemovedFromRemoves ==
  ASSUME QUEUE!QueueAssumption, kind \in {"SLIST", "LIST", "TAILQ"}, Pointed(kind, q, list),
         NEW h \in Heads, NEW k \in 1 .. Len(list[h])
  PROVE  QUEUE!RemovedFrom(h, list[h][k])
           = AfterRemove(kind, q, h, CellAt(list[h], h, k - 1), list[h][k],
                         ElementAt(list[h], k + 1))
  <1> DEFINE s == list[h]
             e == list[h][k]
             c == CellAt(list[h], h, k - 1)
  <1>1. CASE kind \in {"LIST", "TAILQ"}
    BY <1>1, UnlinkRemoves DEF QUEUE!RemovedFrom, QUEUE!Double
  <1>2. CASE kind = "SLIST"
    <2>1. Apart(list) /\ NextRight(kind, q, list) /\ Len(s) \in Nat /\ s \in Seq(Elements)
      BY CellsApart DEF Pointed
    <2>2. \A x \in {h} \cup QUEUE!Range(s) : \E j \in 0 .. Len(s) : x = CellAt(s, h, j)
      <3>1. 0 \in 0 .. Len(s) /\ h = CellAt(s, h, 0)
        BY <2>1 DEF CellAt
      <3>2. ASSUME NEW x \in QUEUE!Range(s) PROVE \E j \in 0 .. Len(s) : x = CellAt(s, h, j)
        <4>1. PICK j \in 1 .. Len(s) : x = s[j]
          BY <2>1 DEF QUEUE!Range
        <4>2. j \in 0 .. Len(s) /\ j # 0
          BY <2>1
        <4> QED
          BY <4>1, <4>2 DEF CellAt
      <3> QED
        BY <3>1, <3>2
    <2>3. c \in {h} \cup QUEUE!Range(s)
      <3>1. CASE k = 1
        BY <3>1 DEF CellAt
      <3>2. CASE k # 1
        <4>1. k - 1 \in 1 .. Len(s) /\ k - 1 # 0
          BY <2>1, <3>2
        <4> QED
          BY <2>1, <4>1 DEF CellAt, QUEUE!Range
      <3> QED
        BY <3>1, <3>2
    <2>4. q.next[c] = e /\ e # NIL
      BY <1>2, ReadsElement DEF Kinds, Encoded
    <2>5. ASSUME NEW j \in 0 .. Len(s), q.next[CellAt(s, h, j)] = e PROVE j = k - 1
      <3>1. ElementAt(s, j + 1) = e
        BY <1>2, <2>1, <2>5 DEF NextRight, Encoded
      <3>2. j + 1 \in 1 .. Len(s) /\ s[j + 1] = s[k]
        BY <2>1, <2>4, <3>1 DEF ElementAt
      <3>3. j + 1 = k
        BY <2>1, <3>2 DEF Apart
      <3> QED
        BY <3>3
    <2>6. \A x \in {h} \cup QUEUE!Range(s) : q.next[x] = e => x = c
      BY <2>2, <2>5
    <2> HIDE DEF c, e, s
    <2>7. (CHOOSE x \in {h} \cup QUEUE!Range(s) : q.next[x] = e) = c
      BY <2>3, <2>4, <2>6
    <2>8. QUEUE!RemovedFrom(h, e) = QUEUE!UnlinkAfter(q, h, c)
      BY <1>2, <2>7 DEF QUEUE!RemovedFrom, QUEUE!Double, s
    <2> QED
      BY <1>2, <2>8, UnlinkAfterRemoves DEF c, e, Kinds
  <1> QED
    BY <1>1, <1>2

-----------------------------------------------------------------------------
\* An element is in a list if it has a place there.
LEMMA UsedPlaces ==
  ASSUME QUEUE!QueueAssumption, Apart(list), NEW e \in Elements
  PROVE  /\ QUEUE!Free(e) <=> Outside(list, e)
         /\ \A h \in Heads : list[h] \in Seq(Elements)
         /\ \A h \in Heads : e \in QUEUE!Range(list[h])
                             <=> \E k \in 1 .. Len(list[h]) : list[h][k] = e
  <1>1. \A h \in Heads : list[h] \in Seq(Elements)
    BY CellsApart
  <1>2. \A h \in Heads : e \in QUEUE!Range(list[h]) <=> \E k \in 1 .. Len(list[h]) : list[h][k] = e
    BY <1>1 DEF QUEUE!Range
  <1>3. e \in QUEUE!Used <=> \E h \in Heads : e \in QUEUE!Range(list[h])
    BY DEF QUEUE!Used
  <1> QED
    BY <1>1, <1>2, <1>3 DEF QUEUE!Free, Outside

\* Outside a loop only the lists and their pointers matter.
LEMMA IdlePreserves ==
  ASSUME ListInv, QUEUE!Idle, Pointed(kind, q', list')
  PROVE  ListInv'
  BY DEF ListInv, QUEUE!Idle, Looping, QUEUE!NoLoop

\* SLIST_INSERT_HEAD, LIST_INSERT_HEAD, SIMPLEQ_, XSIMPLEQ_ and TAILQ_INSERT_HEAD.
LEMMA InsertHeadInv ==
  ASSUME QUEUE!QueueAssumption, ListInv, NEW h \in Heads, NEW e \in Elements,
         QUEUE!INSERT_HEAD(h, e)
  PROVE  ListInv'
  <1>1. kind \in Kinds /\ Pointed(kind, q, list) /\ Apart(list) /\ Len(list[h]) \in Nat
    BY CellsApart DEF ListInv, Pointed
  <1>2. QUEUE!Idle /\ Outside(list, e)
    BY <1>1, UsedPlaces DEF QUEUE!INSERT_HEAD
  <1>3. /\ q' = QUEUE!Link(q, h, CellAt(list[h], h, 0), e)
        /\ list' = [list EXCEPT ![h] = <<e>> \o list[h]]
    BY DEF QUEUE!INSERT_HEAD, CellAt
  <1>4. Inserted(list[h], <<e>> \o list[h], 0, e) /\ 0 \in 0 .. Len(list[h])
    BY <1>1, EndsInsert, CellsApart
  <1>5. q' = AfterInsert(kind, q, h, CellAt(list[h], h, 0), ElementAt(list[h], 0 + 1), e)
    BY <1>1, <1>3, <1>4, LinkInserts
  <1>6. Pointed(kind, q', list')
    <2> DEFINE t == <<e>> \o list[h]
    <2> HIDE DEF t
    <2>1. Inserted(list[h], t, 0, e)
      BY <1>4 DEF t
    <2>2. Pointed(kind, AfterInsert(kind, q, h, CellAt(list[h], h, 0),
                                    ElementAt(list[h], 0 + 1), e),
                  [list EXCEPT ![h] = t])
      BY <1>1, <1>2, <1>4, <2>1, InsertPointed
    <2> QED
      BY <1>3, <1>5, <2>2 DEF t
  <1> QED
    BY <1>2, <1>6, IdlePreserves

\* SIMPLEQ_INSERT_TAIL, XSIMPLEQ_INSERT_TAIL and TAILQ_INSERT_TAIL.
LEMMA InsertTailInv ==
  ASSUME QUEUE!QueueAssumption, ListInv, NEW h \in Heads, NEW e \in Elements,
         QUEUE!INSERT_TAIL(h, e)
  PROVE  ListInv'
  <1>1. kind \in Kinds /\ Pointed(kind, q, list) /\ Apart(list) /\ Len(list[h]) \in Nat
    BY CellsApart DEF ListInv, Pointed
  <1>2. QUEUE!Idle /\ Outside(list, e) /\ kind \in {"SIMPLEQ", "XSIMPLEQ", "TAILQ"}
    BY <1>1, UsedPlaces DEF QUEUE!INSERT_TAIL, QUEUE!Tail_
  <1>3. q' = QUEUE!LinkTail(q, h, e) /\ list' = [list EXCEPT ![h] = Append(list[h], e)]
    BY DEF QUEUE!INSERT_TAIL
  <1> DEFINE k == Len(list[h])
             t == Append(list[h], e)
  <1>4. Inserted(list[h], t, k, e) /\ k \in 0 .. Len(list[h])
    <2>1. list[h] \in Seq(Elements)
      BY <1>1, CellsApart
    <2>2. Inserted(list[h], t, k, e)
      BY <2>1, EndsInsert
    <2> QED
      BY <1>1, <2>2
  <1>5. q' = AfterInsert(kind, q, h, CellAt(list[h], h, k), ElementAt(list[h], k + 1), e)
    BY <1>1, <1>2, <1>3, LinkTailInserts
  <1>6. list' = [list EXCEPT ![h] = t]
    BY <1>3
  <1> HIDE DEF k, t
  <1>7. Pointed(kind, AfterInsert(kind, q, h, CellAt(list[h], h, k), ElementAt(list[h], k + 1), e),
                [list EXCEPT ![h] = t])
    BY <1>1, <1>2, <1>4, InsertPointed
  <1> QED
    BY <1>2, <1>5, <1>6, <1>7, IdlePreserves

\* INSERT_AFTER of every kind.
LEMMA InsertAfterInv ==
  ASSUME QUEUE!QueueAssumption, ListInv, NEW h \in Heads, NEW at \in Elements, NEW e \in Elements,
         QUEUE!INSERT_AFTER(h, at, e)
  PROVE  ListInv'
  <1> DEFINE k == QUEUE!IndexIn(list[h], at)
  <1>1. kind \in Kinds /\ Pointed(kind, q, list) /\ Apart(list) /\ Len(list[h]) \in Nat
        /\ list[h] \in Seq(Elements)
    BY CellsApart DEF ListInv, Pointed
  <1>2. QUEUE!Idle /\ Outside(list, e) /\ k \in 1 .. Len(list[h]) /\ list[h][k] = at
    BY <1>1, UsedPlaces, IndexFound DEF QUEUE!INSERT_AFTER
  <1>3. k \in 0 .. Len(list[h]) /\ CellAt(list[h], h, k) = at
    BY <1>1, <1>2 DEF CellAt
  <1>4. /\ q' = QUEUE!Link(q, h, at, e)
        /\ list' = [list EXCEPT ![h] = QUEUE!InsertAt(list[h], k + 1, e)]
    BY DEF QUEUE!INSERT_AFTER
  <1> HIDE DEF k
  <1> DEFINE t == QUEUE!InsertAt(list[h], k + 1, e)
  <1>5. Inserted(list[h], t, k, e)
    BY <1>1, <1>3, InsertAtInserts
  <1>6. q' = AfterInsert(kind, q, h, CellAt(list[h], h, k), ElementAt(list[h], k + 1), e)
    BY <1>1, <1>3, <1>4, LinkInserts
  <1>7. list' = [list EXCEPT ![h] = t]
    BY <1>4
  <1> HIDE DEF t
  <1>8. Pointed(kind, AfterInsert(kind, q, h, CellAt(list[h], h, k), ElementAt(list[h], k + 1), e),
                [list EXCEPT ![h] = t])
    BY <1>1, <1>2, <1>3, <1>5, InsertPointed
  <1> QED
    BY <1>2, <1>6, <1>7, <1>8, IdlePreserves

\* LIST_INSERT_BEFORE and TAILQ_INSERT_BEFORE.
LEMMA InsertBeforeInv ==
  ASSUME QUEUE!QueueAssumption, ListInv, NEW h \in Heads, NEW at \in Elements, NEW e \in Elements,
         QUEUE!INSERT_BEFORE(h, at, e)
  PROVE  ListInv'
  <1> DEFINE k == QUEUE!IndexIn(list[h], at)
  <1>1. kind \in Kinds /\ Pointed(kind, q, list) /\ Apart(list) /\ Len(list[h]) \in Nat
        /\ list[h] \in Seq(Elements)
    BY CellsApart DEF ListInv, Pointed
  <1>2. /\ QUEUE!Idle /\ Outside(list, e) /\ k \in 1 .. Len(list[h]) /\ list[h][k] = at
        /\ kind \in {"LIST", "TAILQ"}
    BY <1>1, UsedPlaces, IndexFound DEF QUEUE!INSERT_BEFORE, QUEUE!Double
  <1>3. k - 1 \in 0 .. Len(list[h]) /\ (k - 1) + 1 = k
    BY <1>1, <1>2
  <1>4. q' = QUEUE!LinkBefore(q, at, e)
        /\ list' = [list EXCEPT ![h] = QUEUE!InsertAt(list[h], k, e)]
    BY DEF QUEUE!INSERT_BEFORE
  <1> HIDE DEF k
  <1> DEFINE t == QUEUE!InsertAt(list[h], k, e)
             i == k - 1
  <1>5. Inserted(list[h], t, i, e) /\ i \in 0 .. Len(list[h])
    <2>1. Inserted(list[h], QUEUE!InsertAt(list[h], (k - 1) + 1, e), k - 1, e)
      BY <1>1, <1>3, InsertAtInserts
    <2> QED
      BY <1>3, <2>1
  <1>6. q' = AfterInsert(kind, q, h, CellAt(list[h], h, k - 1), ElementAt(list[h], (k - 1) + 1), e)
    BY <1>1, <1>2, <1>4, LinkBeforeInserts
  <1>7. /\ q' = AfterInsert(kind, q, h, CellAt(list[h], h, i), ElementAt(list[h], i + 1), e)
        /\ list' = [list EXCEPT ![h] = t]
    BY <1>4, <1>6
  <1> HIDE DEF t, i
  <1>8. Pointed(kind, AfterInsert(kind, q, h, CellAt(list[h], h, i), ElementAt(list[h], i + 1), e),
                [list EXCEPT ![h] = t])
    BY <1>1, <1>2, <1>5, InsertPointed
  <1> QED
    BY <1>2, <1>7, <1>8, IdlePreserves

\* SLIST_REMOVE_HEAD, SIMPLEQ_REMOVE_HEAD and XSIMPLEQ_REMOVE_HEAD.
LEMMA RemoveHeadInv ==
  ASSUME QUEUE!QueueAssumption, ListInv, NEW h \in Heads, QUEUE!REMOVE_HEAD(h)
  PROVE  ListInv'
  <1>1. kind \in Kinds /\ Pointed(kind, q, list) /\ Apart(list) /\ Len(list[h]) \in Nat
        /\ list[h] \in Seq(Elements)
    BY CellsApart DEF ListInv, Pointed
  <1>2. QUEUE!Idle /\ kind \notin {"LIST", "TAILQ"} /\ list[h] # <<>>
    BY DEF QUEUE!REMOVE_HEAD, QUEUE!Double
  <1>3. 1 \in 1 .. Len(list[h]) /\ CellAt(list[h], h, 1 - 1) = h
    BY <1>1, <1>2 DEF CellAt
  <1>4. q' = QUEUE!UnlinkAfter(q, h, h) /\ list' = [list EXCEPT ![h] = Tail(list[h])]
    BY DEF QUEUE!REMOVE_HEAD
  <1>5. Removed(list[h], Tail(list[h]), 1)
    BY <1>1, <1>2, TailRemoves
  <1>6. q' = AfterRemove(kind, q, h, CellAt(list[h], h, 1 - 1), list[h][1],
                         ElementAt(list[h], 1 + 1))
    BY <1>1, <1>2, <1>3, <1>4, UnlinkAfterRemoves
  <1> DEFINE t == Tail(list[h])
  <1>7. Removed(list[h], t, 1) /\ list' = [list EXCEPT ![h] = t]
    BY <1>4, <1>5
  <1> HIDE DEF t
  <1>8. Pointed(kind, AfterRemove(kind, q, h, CellAt(list[h], h, 1 - 1), list[h][1],
                                  ElementAt(list[h], 1 + 1)), [list EXCEPT ![h] = t])
    BY <1>1, <1>3, <1>7, RemovePointed
  <1> QED
    BY <1>2, <1>6, <1>7, <1>8, IdlePreserves

\* SLIST_REMOVE_AFTER, SIMPLEQ_REMOVE_AFTER and XSIMPLEQ_REMOVE_AFTER.
LEMMA RemoveAfterInv ==
  ASSUME QUEUE!QueueAssumption, ListInv, NEW h \in Heads, NEW e \in Elements,
         QUEUE!REMOVE_AFTER(h, e)
  PROVE  ListInv'
  <1> DEFINE k == QUEUE!IndexIn(list[h], e)
  <1>1. kind \in Kinds /\ Pointed(kind, q, list) /\ Apart(list) /\ Len(list[h]) \in Nat
        /\ list[h] \in Seq(Elements)
    BY CellsApart DEF ListInv, Pointed
  <1>2. /\ QUEUE!Idle /\ kind \notin {"LIST", "TAILQ"} /\ k \in 1 .. Len(list[h]) /\ list[h][k] = e
        /\ QUEUE!XOR(h, q.next[e]) # NIL
    BY <1>1, UsedPlaces, IndexFound DEF QUEUE!REMOVE_AFTER, QUEUE!Double
  <1>3. q' = QUEUE!UnlinkAfter(q, h, e)
        /\ list' = [list EXCEPT ![h] = QUEUE!RemoveAt(list[h], k + 1)]
    BY DEF QUEUE!REMOVE_AFTER
  <1> HIDE DEF k
  <1>4. ElementAt(list[h], k + 1) # NIL
    <2>1. q.next[e] = Encoded(kind, h, ElementAt(list[h], k + 1))
          /\ ElementAt(list[h], k + 1) \in Plain
      BY <1>1, <1>2, ReadsElement
    <2> QED
      BY <1>2, <2>1, Xored
  <1>5. k + 1 \in 1 .. Len(list[h]) /\ (k + 1) - 1 = k /\ CellAt(list[h], h, (k + 1) - 1) = e
    BY <1>1, <1>2, <1>4 DEF ElementAt, CellAt
  <1>6. Removed(list[h], QUEUE!RemoveAt(list[h], k + 1), k + 1)
    BY <1>1, <1>5, RemoveAtRemoves
  <1>7. q' = AfterRemove(kind, q, h, CellAt(list[h], h, (k + 1) - 1), list[h][k + 1],
                         ElementAt(list[h], (k + 1) + 1))
    BY <1>1, <1>2, <1>3, <1>5, UnlinkAfterRemoves
  <1> DEFINE t == QUEUE!RemoveAt(list[h], k + 1)
             i == k + 1
  <1>8. /\ Removed(list[h], t, i) /\ list' = [list EXCEPT ![h] = t] /\ i \in 1 .. Len(list[h])
        /\ q' = AfterRemove(kind, q, h, CellAt(list[h], h, i - 1), list[h][i],
                            ElementAt(list[h], i + 1))
    BY <1>3, <1>5, <1>6, <1>7
  <1> HIDE DEF t, i
  <1>9. Pointed(kind, AfterRemove(kind, q, h, CellAt(list[h], h, i - 1), list[h][i],
                                  ElementAt(list[h], i + 1)), [list EXCEPT ![h] = t])
    BY <1>1, <1>8, RemovePointed
  <1> QED
    BY <1>2, <1>8, <1>9, IdlePreserves

\* REMOVE, also in the body of a loop.
LEMMA RemovePoints ==
  ASSUME QUEUE!QueueAssumption, kind \in {"SLIST", "LIST", "TAILQ"}, Pointed(kind, q, list),
         NEW h \in Heads, NEW k \in 1 .. Len(list[h])
  PROVE  /\ QUEUE!IndexIn(list[h], list[h][k]) = k
         /\ Removed(list[h], QUEUE!Without(list[h], list[h][k]), k)
         /\ Pointed(kind, QUEUE!RemovedFrom(h, list[h][k]),
                    [list EXCEPT ![h] = QUEUE!Without(list[h], list[h][k])])
         /\ Outside([list EXCEPT ![h] = QUEUE!Without(list[h], list[h][k])], list[h][k])
  <1> DEFINE e == list[h][k]
             t == QUEUE!Without(list[h], list[h][k])
  <1>1. Apart(list) /\ list[h] \in Seq(Elements) /\ e \in Elements
    BY CellsApart DEF Pointed
  <1>2. QUEUE!IndexIn(list[h], e) = k
    <2>1. QUEUE!IndexIn(list[h], e) \in 1 .. Len(list[h]) /\ list[h][QUEUE!IndexIn(list[h], e)] = e
      BY <1>1, UsedPlaces, IndexFound
    <2>2. \A i, j \in 1 .. Len(list[h]) : list[h][i] = list[h][j] => i = j
      BY <1>1 DEF Apart
    <2> QED
      BY <2>1, <2>2
  <1>3. Removed(list[h], t, k)
    BY <1>1, <1>2, RemoveAtRemoves DEF QUEUE!Without
  <1> HIDE DEF t
  <1>4. kind \in Kinds
    BY DEF Kinds
  <1>5. /\ Pointed(kind, QUEUE!RemovedFrom(h, e), [list EXCEPT ![h] = t])
        /\ Outside([list EXCEPT ![h] = t], e)
    <2>1. /\ Pointed(kind, AfterRemove(kind, q, h, CellAt(list[h], h, k - 1), list[h][k],
                                       ElementAt(list[h], k + 1)), [list EXCEPT ![h] = t])
          /\ Outside([list EXCEPT ![h] = t], list[h][k])
      BY <1>3, <1>4, RemovePointed
    <2> QED
      BY <2>1, RemovedFromRemoves
  <1> QED
    BY <1>2, <1>3, <1>5 DEF t

\* SLIST_REMOVE, LIST_REMOVE and TAILQ_REMOVE outside a loop.
LEMMA RemoveInv ==
  ASSUME QUEUE!QueueAssumption, ListInv, NEW h \in Heads, NEW e \in Elements, QUEUE!REMOVE(h, e)
  PROVE  ListInv'
  <1>1. kind \in Kinds /\ Pointed(kind, q, list) /\ Apart(list)
    BY DEF ListInv, Pointed
  <1>2. QUEUE!Idle /\ kind \in {"SLIST", "LIST", "TAILQ"} /\ e \in QUEUE!Range(list[h])
    BY <1>1 DEF QUEUE!REMOVE, QUEUE!Simple, Kinds
  <1>3. PICK k \in 1 .. Len(list[h]) : list[h][k] = e
    BY <1>1, <1>2, UsedPlaces
  <1>4. q' = QUEUE!RemovedFrom(h, e) /\ list' = [list EXCEPT ![h] = QUEUE!Without(list[h], e)]
    BY DEF QUEUE!REMOVE
  <1>5. Pointed(kind, q', list')
    BY <1>1, <1>2, <1>3, <1>4, RemovePoints
  <1> QED
    BY <1>2, <1>5, IdlePreserves

\* LIST_REPLACE and TAILQ_REPLACE.
LEMMA ReplaceInv ==
  ASSUME QUEUE!QueueAssumption, ListInv, NEW h \in Heads, NEW e \in Elements, NEW f \in Elements,
         QUEUE!REPLACE(h, e, f)
  PROVE  ListInv'
  <1> DEFINE k == QUEUE!IndexIn(list[h], e)
  <1>1. kind \in Kinds /\ Pointed(kind, q, list) /\ Apart(list) /\ list[h] \in Seq(Elements)
    BY CellsApart DEF ListInv, Pointed
  <1>2. /\ QUEUE!Idle /\ kind \in {"LIST", "TAILQ"} /\ Outside(list, f)
        /\ k \in 1 .. Len(list[h]) /\ list[h][k] = e
    BY <1>1, UsedPlaces, IndexFound DEF QUEUE!REPLACE, QUEUE!Double
  <1>3. q' = QUEUE!Exchange(q, h, e, f) /\ list' = [list EXCEPT ![h][k] = f]
    BY DEF QUEUE!REPLACE
  <1> HIDE DEF k
  <1>4. q' = AfterReplace(kind, q, h, CellAt(list[h], h, k - 1), list[h][k],
                          ElementAt(list[h], k + 1), f)
    BY <1>1, <1>2, <1>3, ExchangeReplaces
  <1>5. Pointed(kind, AfterReplace(kind, q, h, CellAt(list[h], h, k - 1), list[h][k],
                                   ElementAt(list[h], k + 1), f), [list EXCEPT ![h][k] = f])
    BY <1>1, <1>2, ReplacePointed
  <1> QED
    BY <1>2, <1>3, <1>4, <1>5, IdlePreserves

\* SIMPLEQ_CONCAT and TAILQ_CONCAT, also of an empty second list.
LEMMA ConcatInv ==
  ASSUME QUEUE!QueueAssumption, ListInv, NEW h1 \in Heads, NEW h2 \in Heads, QUEUE!CONCAT(h1, h2)
  PROVE  ListInv'
  <1>1. /\ kind \in Kinds /\ Pointed(kind, q, list) /\ Apart(list) /\ NextRight(kind, q, list)
        /\ list \in [Heads -> Seq(Elements)] /\ Len(list[h2]) \in Nat /\ NIL \notin Elements
        /\ list[h2] \in Seq(Elements) /\ list[h1] \in Seq(Elements)
    BY CellsApart DEF ListInv, Pointed, Apart
  <1>2. QUEUE!Idle /\ kind \in {"SIMPLEQ", "TAILQ"} /\ h1 # h2
    BY DEF QUEUE!CONCAT
  <1>3. /\ q' = IF q.next[h2] = NIL THEN q ELSE QUEUE!Splice(q, h1, h2)
        /\ list' = [list EXCEPT ![h1] = @ \o list[h2], ![h2] = <<>>]
    BY DEF QUEUE!CONCAT
  <1>4. q.next[h2] = ElementAt(list[h2], 1)
    <2>1. 0 \in 0 .. Len(list[h2]) /\ 0 + 1 = 1
      BY <1>1
    <2>2. q.next[CellAt(list[h2], h2, 0)] = Encoded(kind, h2, ElementAt(list[h2], 0 + 1))
      BY <1>1, <2>1 DEF NextRight
    <2> QED
      BY <1>2, <2>1, <2>2 DEF CellAt, Encoded
  <1>5. CASE Len(list[h2]) > 0
    <2>1. q.next[h2] # NIL
      <3>1. ElementAt(list[h2], 1) = list[h2][1] /\ list[h2][1] \in Elements
        BY <1>1, <1>5, CellsApart DEF ElementAt
      <3> QED
        BY <1>1, <1>4, <3>1
    <2>2. q' = AfterConcat(kind, q, h1, h2, CellAt(list[h1], h1, Len(list[h1])), list[h2][1])
      BY <1>1, <1>2, <1>3, <1>5, <2>1, SpliceConcats
    <2>3. Pointed(kind, AfterConcat(kind, q, h1, h2, CellAt(list[h1], h1, Len(list[h1])),
                                    list[h2][1]),
                  [list EXCEPT ![h1] = @ \o list[h2], ![h2] = <<>>])
      BY <1>1, <1>2, <1>5, ConcatPointed
    <2> QED
      BY <1>2, <1>3, <2>2, <2>3, IdlePreserves
  <1>6. CASE Len(list[h2]) = 0
    <2>1. q' = q
      BY <1>3, <1>4, <1>6 DEF ElementAt
    <2>2. list[h2] = <<>> /\ list[h1] \o <<>> = list[h1]
      BY <1>1, <1>6
    <2>3. list' = list
      BY <1>1, <1>3, <2>2
    <2> QED
      BY <1>1, <1>2, <2>1, <2>3, IdlePreserves
  <1> QED
    BY <1>1, <1>5, <1>6

-----------------------------------------------------------------------------
\* The element a tail queue has at its cell number k, NIL at the head's.
Before(s, k) == IF k = 0 THEN NIL ELSE s[k]

\* TAILQ_LAST and TAILQ_PREV: what follows the next pointer of a cell, in a head or in an
\* element, leads to the cell's own element.
LEMMA Backwards ==
  ASSUME QUEUE!QueueAssumption, kind = "TAILQ", Pointed(kind, q, list), NEW h \in Heads
  PROVE  /\ QUEUE!TAILQ_LAST(h) = Before(list[h], Len(list[h]))
         /\ \A j \in 1 .. Len(list[h]) :
              QUEUE!TAILQ_PREV(list[h][j]) = Before(list[h], j - 1)
  <1> DEFINE s == list[h]
  <1>1. /\ Apart(list) /\ NextRight(kind, q, list) /\ PrevRight(kind, q, list)
        /\ LastRight(kind, q, list) /\ kind \in Kinds
    BY DEF Pointed, Kinds
  <1>2. /\ s \in Seq(Elements) /\ Len(s) \in Nat /\ Heads \cap Elements = {}
        /\ \A k \in 1 .. Len(s) : s[k] \in Elements
    BY <1>1, CellsApart
  <1>3. q.last[h] = CellAt(s, h, Len(s))
    BY <1>1 DEF LastRight, Encoded
  <1>4. \A k \in 1 .. Len(s) : q.prev[s[k]] = CellAt(s, h, k - 1)
    BY <1>1 DEF PrevRight
  <1>5. \A k \in 0 .. Len(s) : q.next[CellAt(s, h, k)] = ElementAt(s, k + 1)
    BY <1>1 DEF NextRight, Encoded
  <1>6. ASSUME NEW k \in 0 .. Len(s)
        PROVE  q.next[QUEUE!Second(CellAt(s, h, k))] = Before(s, k)
    <2>1. CASE k = 0
      <3>1. QUEUE!Second(CellAt(s, h, k)) = CellAt(s, h, Len(s))
        BY <1>3, <2>1 DEF QUEUE!Second, CellAt
      <3>2. q.next[CellAt(s, h, Len(s))] = ElementAt(s, Len(s) + 1)
        BY <1>2, <1>5
      <3> QED
        BY <1>2, <2>1, <3>1, <3>2 DEF ElementAt, Before
    <2>2. CASE k # 0
      <3>1. k \in 1 .. Len(s) /\ k - 1 \in 0 .. Len(s) /\ (k - 1) + 1 = k
        BY <1>2, <2>2
      <3>2. CellAt(s, h, k) = s[k] /\ s[k] \notin Heads
        BY <1>2, <2>2, <3>1 DEF CellAt
      <3>3. QUEUE!Second(CellAt(s, h, k)) = CellAt(s, h, k - 1)
        BY <1>4, <3>1, <3>2 DEF QUEUE!Second
      <3>4. q.next[CellAt(s, h, k - 1)] = ElementAt(s, k)
        BY <1>5, <3>1
      <3> QED
        BY <1>2, <2>2, <3>1, <3>3, <3>4 DEF ElementAt, Before
    <2> QED
      BY <2>1, <2>2
  <1>7. QUEUE!TAILQ_LAST(h) = Before(s, Len(s))
    <2>1. Len(s) \in 0 .. Len(s)
      BY <1>2
    <2> QED
      BY <1>3, <1>6, <2>1 DEF QUEUE!TAILQ_LAST
  <1>8. ASSUME NEW j \in 1 .. Len(s) PROVE QUEUE!TAILQ_PREV(s[j]) = Before(s, j - 1)
    <2>1. j - 1 \in 0 .. Len(s)
      BY <1>2
    <2> QED
      BY <1>4, <1>6, <2>1 DEF QUEUE!TAILQ_PREV
  <1> QED
    BY <1>7, <1>8

\* A loop that reaches the first of the elements before it reads the second one as tvar.
LEMMA LoopAt ==
  ASSUME QUEUE!QueueAssumption, kind \in Kinds, Pointed(kind, q, list), NEW h \in Heads,
         NEW back \in BOOLEAN, back => kind = "TAILQ", NEW todo \in Seq(Elements),
         \A k \in 1 .. Len(todo) : Ahead(list[h], todo, back, k),
         NEW var, var = ElementAt(todo, 1), QUEUE!At(h, back, var, todo)
  PROVE  Looping(kind, loop', list)
  <1> DEFINE s == list[h]
             n == Len(todo)
  <1>1. Apart(list) /\ s \in Seq(Elements) /\ Len(s) \in Nat /\ n \in Nat /\ NIL \notin Elements
        /\ NextRight(kind, q, list)
    BY CellsApart DEF Pointed
  <1>2. CASE n = 0
    <2>1. var = NIL /\ todo = <<>>
      BY <1>2 DEF ElementAt
    <2>2. loop' = QUEUE!NoLoop
      BY <2>1 DEF QUEUE!At, QUEUE!NoLoop
    <2> QED
      BY <2>2 DEF Looping, QUEUE!NoLoop
  <1>3. CASE n > 0
    <2>1. var = todo[1] /\ var \in Elements /\ var # NIL
      BY <1>1, <1>3 DEF ElementAt
    <2> DEFINE tvar == IF back THEN QUEUE!TAILQ_PREV(var) ELSE QUEUE!XOR(h, q.next[var])
    <2>2. loop' = [on |-> TRUE, head |-> h, back |-> back, var |-> var, todo |-> todo,
                   tvar |-> tvar]
      BY <2>1 DEF QUEUE!At
    <2> HIDE DEF tvar
    <2>3. 1 \in 1 .. n /\ (n > 1 => 2 \in 1 .. n)
      BY <1>1, <1>3
    <2>4. /\ LoopPlace(s, n, back, 1) \in 1 .. Len(s) /\ s[LoopPlace(s, n, back, 1)] = todo[1]
          /\ n > 1 => /\ LoopPlace(s, n, back, 2) \in 1 .. Len(s)
                      /\ s[LoopPlace(s, n, back, 2)] = todo[2]
      BY <2>3 DEF Ahead
    <2>5. tvar = ElementAt(todo, 2)
      <3>1. CASE back
        <4>1. LoopPlace(s, n, back, 1) = n /\ LoopPlace(s, n, back, 2) = n - 1
          BY <1>1, <3>1 DEF LoopPlace
        <4>2. QUEUE!TAILQ_PREV(s[n]) = Before(s, n - 1)
          BY <2>4, <3>1, <4>1, Backwards
        <4>3. tvar = Before(s, n - 1)
          BY <2>1, <2>4, <3>1, <4>1, <4>2 DEF tvar
        <4> QED
          BY <1>1, <1>3, <2>4, <4>1, <4>3 DEF Before, ElementAt
      <3>2. CASE ~back
        <4> DEFINE i == Len(s) - n + 1
        <4>1. LoopPlace(s, n, back, 1) = i /\ LoopPlace(s, n, back, 2) = i + 1
          BY <1>1, <3>2 DEF LoopPlace
        <4>2. i + 1 <= Len(s) <=> n > 1
          BY <1>1, <1>3
        <4> HIDE DEF i
        <4>3. i \in 1 .. Len(s) /\ s[i] = var
          BY <2>1, <2>4, <4>1
        <4>4. q.next[s[i]] = Encoded(kind, h, ElementAt(s, i + 1)) /\ ElementAt(s, i + 1) \in Plain
          BY <4>3, ReadsElement
        <4>5. tvar = ElementAt(s, i + 1)
          BY <3>2, <4>3, <4>4, Xored DEF tvar
        <4>6. ElementAt(s, i + 1) = IF n > 1 THEN s[i + 1] ELSE NIL
          BY <4>2 DEF ElementAt
        <4>7. ElementAt(todo, 2) = IF n > 1 THEN todo[2] ELSE NIL
          BY <1>1, <1>3 DEF ElementAt
        <4> QED
          BY <2>4, <4>1, <4>5, <4>6, <4>7
      <3> QED
        BY <3>1, <3>2
    <2>6. ElementAt(todo, 2) \in Plain
      <3>1. CASE n > 1
        <4>1. 2 \in 1 .. n /\ 2 <= n
          BY <1>1, <3>1
        <4> QED
          BY <4>1 DEF ElementAt, Plain, QUEUE!Cells
      <3>2. CASE ~(n > 1)
        <4>1. ~(2 <= n)
          BY <1>1, <3>2
        <4> QED
          BY <4>1 DEF ElementAt, Plain
      <3> QED
        BY <3>1, <3>2
    <2>7. loop' \in [on : {TRUE}, head : Heads, back : BOOLEAN, var : Elements, tvar : Plain,
                     todo : Seq(Elements)]
      BY <2>1, <2>2, <2>5, <2>6
    <2>8. /\ loop'.on /\ loop'.head = h /\ loop'.back = back /\ loop'.var = var
          /\ loop'.todo = todo /\ loop'.tvar = tvar
      BY <2>2
    <2>9. \A k \in 2 .. n : Ahead(s, todo, back, k)
      <3>1. \A k \in 2 .. n : k \in 1 .. n
        BY <1>1
      <3> QED
        BY <3>1
    <2> QED
      BY <1>3, <2>1, <2>3, <2>5, <2>7, <2>8, <2>9 DEF Looping
  <1> QED
    BY <1>1, <1>2, <1>3

\* Only the loop moves.
LEMMA LoopPreserves ==
  ASSUME ListInv, UNCHANGED <<kind, q, list>>, Looping(kind, loop', list)
  PROVE  ListInv'
  BY DEF ListInv

\* A forward loop begins with the whole list before it.
LEMMA ForeachInv ==
  ASSUME QUEUE!QueueAssumption, ListInv, NEW h \in Heads, QUEUE!FOREACH_SAFE(h)
  PROVE  ListInv'
  <1> DEFINE s == list[h]
  <1>1. /\ kind \in Kinds /\ Pointed(kind, q, list) /\ Apart(list)
        /\ s \in Seq(Elements) /\ Len(s) \in Nat
    BY CellsApart DEF ListInv, Pointed
  <1>2. QUEUE!At(h, FALSE, QUEUE!XOR(h, q.next[h]), s) /\ UNCHANGED <<kind, q, list>>
    BY DEF QUEUE!FOREACH_SAFE
  <1>3. QUEUE!XOR(h, q.next[h]) = ElementAt(s, 1)
    <2>1. 0 \in 0 .. Len(s) /\ 0 + 1 = 1 /\ CellAt(s, h, 0) = h
      BY <1>1 DEF CellAt
    <2>2. q.next[CellAt(s, h, 0)] = Encoded(kind, h, ElementAt(s, 0 + 1))
          /\ ElementAt(s, 0 + 1) \in Plain
      BY <1>1, <2>1, Reads
    <2> QED
      BY <2>1, <2>2, Xored
  <1>4. \A k \in 1 .. Len(s) : Ahead(s, s, FALSE, k)
    BY <1>1 DEF Ahead, LoopPlace
  <1>5. Looping(kind, loop', list)
    BY <1>1, <1>2, <1>3, <1>4, LoopAt
  <1> QED
    BY <1>2, <1>5, LoopPreserves

\* A backward loop begins with the whole list, reversed, before it.
LEMMA ForeachReverseInv ==
  ASSUME QUEUE!QueueAssumption, ListInv, NEW h \in Heads, QUEUE!FOREACH_REVERSE_SAFE(h)
  PROVE  ListInv'
  <1> DEFINE s == list[h]
             t == QUEUE!Reverse(s)
  <1>1. /\ kind \in Kinds /\ Pointed(kind, q, list) /\ Apart(list)
        /\ s \in Seq(Elements) /\ Len(s) \in Nat
    BY CellsApart DEF ListInv, Pointed
  <1>2. /\ QUEUE!At(h, TRUE, QUEUE!TAILQ_LAST(h), t) /\ UNCHANGED <<kind, q, list>>
        /\ kind = "TAILQ" /\ s # <<>>
    BY DEF QUEUE!FOREACH_REVERSE_SAFE
  <1>3. Len(s) > 0
    BY <1>1, <1>2
  <1>4. /\ t \in Seq(Elements) /\ Len(t) = Len(s)
        /\ \A k \in 1 .. Len(s) : t[k] = s[Len(s) + 1 - k] /\ Len(s) + 1 - k \in 1 .. Len(s)
    <2>1. \A k \in 1 .. Len(s) : Len(s) + 1 - k \in 1 .. Len(s) /\ (Len(s) - k) + 1 = Len(s) + 1 - k
      BY <1>1
    <2>2. t = [k \in 1 .. Len(s) |-> s[(Len(s) - k) + 1]]
      BY DEF QUEUE!Reverse
    <2>3. t \in [1 .. Len(s) -> Elements]
      BY <1>1, <2>1, <2>2
    <2> QED
      BY <1>1, <2>1, <2>2, <2>3
  <1> HIDE DEF t
  <1>5. QUEUE!TAILQ_LAST(h) = ElementAt(t, 1)
    <2>1. QUEUE!TAILQ_LAST(h) = s[Len(s)]
      BY <1>1, <1>2, <1>3, Backwards DEF Before
    <2>2. 1 \in 1 .. Len(s) /\ Len(s) + 1 - 1 = Len(s) /\ 1 <= Len(t)
      BY <1>1, <1>3, <1>4
    <2>3. t[1] = s[Len(s)]
      BY <1>4, <2>2
    <2> QED
      BY <2>1, <2>2, <2>3 DEF ElementAt
  <1>6. \A k \in 1 .. Len(t) : Ahead(s, t, TRUE, k)
    BY <1>1, <1>4 DEF Ahead, LoopPlace
  <1>7. Looping(kind, loop', list)
    BY <1>1, <1>2, <1>4, <1>5, <1>6, LoopAt
  <1> QED
    BY <1>2, <1>7, LoopPreserves

\* A loop goes on to tvar, the next element before it, or ends.
LEMMA LoopNextInv ==
  ASSUME QUEUE!QueueAssumption, ListInv, QUEUE!LoopNext
  PROVE  ListInv'
  <1> DEFINE h == loop.head
             back == loop.back
             todo == loop.todo
             t == Tail(loop.todo)
             s == list[loop.head]
  <1>1. kind \in Kinds /\ Pointed(kind, q, list) /\ Looping(kind, loop, list) /\ loop.on
    BY DEF ListInv, QUEUE!LoopNext
  <1>2. /\ h \in Heads /\ back \in BOOLEAN /\ todo \in Seq(Elements) /\ Len(todo) > 0
        /\ (back => kind = "TAILQ") /\ loop.tvar = ElementAt(todo, 2)
        /\ \A k \in 2 .. Len(todo) : Ahead(s, todo, back, k)
    BY <1>1 DEF Looping
  <1>3. QUEUE!At(h, back, loop.tvar, t) /\ UNCHANGED <<kind, q, list>>
    BY DEF QUEUE!LoopNext, QUEUE!Step
  <1>4. Len(s) \in Nat /\ Len(todo) \in Nat
    <2>1. Apart(list)
      BY <1>1 DEF Pointed
    <2> QED
      BY <1>2, <2>1, CellsApart
  <1>5. /\ t \in Seq(Elements) /\ Len(t) = Len(todo) - 1
        /\ \A k \in 1 .. Len(t) : t[k] = todo[k + 1]
    BY <1>2
  <1> HIDE DEF t, h, back, todo, s
  <1>6. loop.tvar = ElementAt(t, 1)
    <2>1. 1 <= Len(t) <=> 2 <= Len(todo)
      BY <1>4, <1>5
    <2>2. 1 <= Len(t) => t[1] = todo[2]
      BY <1>4, <1>5
    <2> QED
      BY <1>2, <2>1, <2>2 DEF ElementAt
  <1>7. ASSUME NEW k \in 1 .. Len(t) PROVE Ahead(s, t, back, k)
    <2>1. k + 1 \in 2 .. Len(todo)
      BY <1>4, <1>5
    <2>2. LoopPlace(s, Len(t), back, k) = LoopPlace(s, Len(todo), back, k + 1)
      BY <1>2, <1>4, <1>5 DEF LoopPlace
    <2>3. Ahead(s, todo, back, k + 1) /\ t[k] = todo[k + 1]
      BY <1>2, <1>5, <2>1
    <2> QED
      BY <2>2, <2>3 DEF Ahead
  <1>8. Looping(kind, loop', list)
    <2>1. \A k \in 1 .. Len(t) : Ahead(list[h], t, back, k)
      BY <1>7 DEF s, h
    <2> QED
      BY <1>1, <1>2, <1>3, <1>5, <1>6, <2>1, LoopAt
  <1> QED
    BY <1>3, <1>8, LoopPreserves

\* The body removes the element the loop stands at: nothing that lies before it moves to
\* another place, counted from the end a forward loop goes to, or from the head.
LEMMA BodyRemovesInv ==
  ASSUME QUEUE!QueueAssumption, ListInv, QUEUE!BodyRemoves
  PROVE  ListInv'
  <1> DEFINE h == loop.head
             back == loop.back
             todo == loop.todo
             n == Len(loop.todo)
             s == list[loop.head]
             i == LoopPlace(s, n, back, 1)
             t == QUEUE!Without(list[loop.head], loop.var)
  <1>1. /\ kind \in Kinds /\ Pointed(kind, q, list) /\ Looping(kind, loop, list) /\ loop.on
        /\ Apart(list)
    BY DEF ListInv, QUEUE!BodyRemoves, Pointed
  <1>2. /\ h \in Heads /\ back \in BOOLEAN /\ todo \in Seq(Elements) /\ n > 0
        /\ loop.var \in Elements
        /\ \A k \in 2 .. n : Ahead(s, todo, back, k)
        /\ ~Outside(list, loop.var) => Ahead(s, todo, back, 1)
        /\ loop.var = todo[1]
    BY <1>1 DEF Looping
  <1>3. /\ kind \in {"SLIST", "LIST", "TAILQ"} /\ loop.var \in QUEUE!Used
        /\ q' = QUEUE!RemovedFrom(h, loop.var) /\ list' = [list EXCEPT ![h] = t]
        /\ UNCHANGED <<kind, loop>>
    BY <1>1 DEF QUEUE!BodyRemoves, QUEUE!Simple, Kinds
  <1>4. s \in Seq(Elements) /\ Len(s) \in Nat /\ n \in Nat
    BY <1>1, <1>2, CellsApart
  <1>5. i \in 1 .. Len(s) /\ s[i] = loop.var
    <2>1. ~Outside(list, loop.var)
      BY <1>1, <1>2, <1>3, UsedPlaces DEF QUEUE!Free
    <2> QED
      BY <1>2, <2>1 DEF Ahead
  <1> HIDE DEF i
  <1>6. /\ Removed(s, t, i) /\ Pointed(kind, q', list') /\ Outside(list', loop.var)
    BY <1>1, <1>2, <1>3, <1>5, RemovePoints
  <1>7. list'[h] = t
    BY <1>1, <1>2, <1>3 DEF Apart
  <1> HIDE DEF t, s, n, h, back, todo
  <1>8. ASSUME NEW k \in 2 .. n PROVE Ahead(t, todo, back, k)
    <2> DEFINE j == LoopPlace(s, n, back, k)
               j2 == LoopPlace(t, n, back, k)
    <2>1. j \in 1 .. Len(s) /\ s[j] = todo[k] /\ Len(t) = Len(s) - 1
      BY <1>2, <1>6 DEF Ahead, Removed, n, todo
    <2>2. CASE back
      <3>1. j = n + 1 - k /\ j2 = j /\ i = n
        BY <1>4, <2>2 DEF LoopPlace, i
      <3>2. j \in 1 .. i - 1 /\ j2 \in 1 .. Len(t)
        BY <1>4, <1>5, <2>1, <3>1
      <3> HIDE DEF j, j2
      <3>3. t[j] = s[j]
        BY <1>6, <3>2 DEF Removed
      <3> QED
        BY <2>1, <3>1, <3>2, <3>3 DEF Ahead, j2, n, todo
    <2>3. CASE ~back
      <3>1. j = Len(s) - n + k /\ j2 = Len(t) - n + k /\ i = Len(s) - n + 1
        BY <1>4, <2>3 DEF LoopPlace, i
      <3>2. j2 \in i .. Len(s) - 1 /\ j2 + 1 = j /\ j2 \in 1 .. Len(t)
        BY <1>4, <1>5, <2>1, <3>1
      <3> HIDE DEF j, j2
      <3>3. t[j2] = s[j2 + 1]
        BY <1>6, <3>2 DEF Removed
      <3> QED
        BY <2>1, <3>2, <3>3 DEF Ahead, j2, n, todo
    <2> QED
      BY <1>2, <2>2, <2>3
  <1>9. Looping(kind, loop, list')
    BY <1>1, <1>6, <1>7, <1>8 DEF Looping, h, back, todo, n
  <1> QED
    BY <1>1, <1>3, <1>6, <1>9 DEF ListInv

-----------------------------------------------------------------------------
\* The empty lists of the initial state.
LEMMA EmptyLists ==
  ASSUME QUEUE!QueueAssumption, QUEUE!Init
  PROVE  ListInv
  <1>1. /\ kind \in Kinds /\ list = [h \in Heads |-> <<>>] /\ loop = QUEUE!NoLoop
        /\ q = [next |-> [c \in QUEUE!Cells |-> IF c \in Heads THEN QUEUE!XOR(c, NIL) ELSE NIL],
                prev |-> [e \in Elements |-> NIL],
                last |-> [h \in Heads |-> IF QUEUE!Tail_ THEN QUEUE!XOR(h, h) ELSE NIL]]
    BY DEF QUEUE!Init, Kinds
  <1>2. \A h \in Heads : list[h] = <<>> /\ Len(list[h]) = 0 /\ list[h] \in Seq(Elements)
    BY <1>1
  <1>3. Apart(list)
    <2>1. list \in [Heads -> Seq(Elements)]
      BY <1>1
    <2>2. \A g, h \in Heads : \A i \in 1 .. Len(list[g]), j \in 1 .. Len(list[h]) :
            list[g][i] = list[h][j] => g = h /\ i = j
      BY <1>2
    <2> QED
      BY <2>1, <2>2 DEF Apart
  <1>4. /\ NIL \in Plain /\ Heads \subseteq Plain /\ Heads \subseteq QUEUE!Cells
        /\ Heads \cap Elements = {}
    BY DEF Plain, QUEUE!Cells, QUEUE!QueueAssumption
  <1>5. \A h \in Heads : /\ QUEUE!XOR(h, NIL) = Encoded(kind, h, NIL)
                         /\ QUEUE!XOR(h, h) = Encoded(kind, h, h)
                         /\ Encoded(kind, h, NIL) \in Address /\ Encoded(kind, h, h) \in Address
    BY <1>4, Xored, StoredForm
  <1>6. NIL \in Address
    BY <1>4 DEF Address
  <1>7. FieldsTyped(q)
    BY <1>1, <1>4, <1>5, <1>6 DEF FieldsTyped
  <1>8. NextRight(kind, q, list)
    <2> SUFFICES ASSUME NEW h \in Heads, NEW k \in 0 .. Len(list[h])
                 PROVE  q.next[CellAt(list[h], h, k)] = Encoded(kind, h, ElementAt(list[h], k + 1))
      BY DEF NextRight
    <2>1. k = 0 /\ CellAt(list[h], h, k) = h /\ ElementAt(list[h], k + 1) = NIL
      BY <1>2 DEF CellAt, ElementAt
    <2>2. q.next[h] = QUEUE!XOR(h, NIL)
      BY <1>1, <1>4
    <2> QED
      BY <1>5, <2>1, <2>2
  <1>9. PrevRight(kind, q, list)
    BY <1>2 DEF PrevRight
  <1>10. LastRight(kind, q, list)
    <2> SUFFICES ASSUME NEW h \in Heads
                 PROVE  q.last[h] = IF kind \in {"SIMPLEQ", "XSIMPLEQ", "TAILQ"}
                                    THEN Encoded(kind, h, CellAt(list[h], h, Len(list[h]))) ELSE NIL
      BY DEF LastRight
    <2>1. CellAt(list[h], h, Len(list[h])) = h
      BY <1>2 DEF CellAt
    <2>2. q.last[h] = IF QUEUE!Tail_ THEN QUEUE!XOR(h, h) ELSE NIL
      BY <1>1
    <2> QED
      BY <1>5, <2>1, <2>2 DEF QUEUE!Tail_
  <1>11. OutsideNull(q, list)
    BY <1>1, <1>4 DEF OutsideNull, QUEUE!Cells
  <1>12. Looping(kind, loop, list)
    BY <1>1 DEF Looping, QUEUE!NoLoop
  <1> QED
    BY <1>1, <1>3, <1>7, <1>8, <1>9, <1>10, <1>11, <1>12 DEF ListInv, Pointed

\* Every macro, and every step of a loop, preserves it.
LEMMA ListStep ==
  ASSUME QUEUE!QueueAssumption, ListInv, [QUEUE!Next]_(QUEUE!vars)
  PROVE  ListInv'
  <1>1. CASE UNCHANGED QUEUE!vars
    BY <1>1 DEF QUEUE!vars, ListInv
  <1>2. ASSUME NEW h \in Heads, NEW e \in Elements,
               QUEUE!INSERT_HEAD(h, e) \/ QUEUE!INSERT_TAIL(h, e) \/ QUEUE!REMOVE(h, e)
               \/ QUEUE!REMOVE_AFTER(h, e)
        PROVE  ListInv'
    BY <1>2, InsertHeadInv, InsertTailInv, RemoveInv, RemoveAfterInv
  <1>3. ASSUME NEW h \in Heads, NEW e \in Elements, NEW f \in Elements,
               QUEUE!INSERT_AFTER(h, f, e) \/ QUEUE!INSERT_BEFORE(h, f, e) \/ QUEUE!REPLACE(h, f, e)
        PROVE  ListInv'
    BY <1>3, InsertAfterInv, InsertBeforeInv, ReplaceInv
  <1>4. ASSUME NEW h \in Heads,
               QUEUE!REMOVE_HEAD(h) \/ QUEUE!FOREACH_SAFE(h) \/ QUEUE!FOREACH_REVERSE_SAFE(h)
        PROVE  ListInv'
    BY <1>4, RemoveHeadInv, ForeachInv, ForeachReverseInv
  <1>5. ASSUME NEW h \in Heads, NEW h2 \in Heads, QUEUE!CONCAT(h, h2) PROVE ListInv'
    BY <1>5, ConcatInv
  <1>6. CASE QUEUE!BodyRemoves \/ QUEUE!LoopNext
    BY <1>6, BodyRemovesInv, LoopNextInv
  <1> QED
    BY <1>1, <1>2, <1>3, <1>4, <1>5, <1>6 DEF QUEUE!Next

-----------------------------------------------------------------------------
\* The pointers are those of elements in a list.
LEMMA ListsTyped ==
  ASSUME QUEUE!QueueAssumption, ListInv
  PROVE  QUEUE!TypeOK
  <1>1. /\ kind \in Kinds /\ Apart(list) /\ FieldsTyped(q) /\ NextRight(kind, q, list)
        /\ PrevRight(kind, q, list) /\ LastRight(kind, q, list) /\ OutsideNull(q, list)
    BY DEF ListInv, Pointed
  <1>2. \A h \in Heads : list[h] \in Seq(Elements) /\ Len(list[h]) \in Nat
    BY <1>1, CellsApart
  <1>3. \A h \in Heads : \A k \in 1 .. Len(list[h]) : list[h][k] \in QUEUE!Used
    BY <1>2 DEF QUEUE!Used, QUEUE!Range
  <1>4. \A h \in Heads : \A k \in 0 .. Len(list[h]) :
          /\ ElementAt(list[h], k + 1) \in QUEUE!Used \cup {NIL}
          /\ CellAt(list[h], h, k) \in Heads \cup QUEUE!Used
    <2> SUFFICES ASSUME NEW h \in Heads, NEW k \in 0 .. Len(list[h])
                 PROVE  /\ ElementAt(list[h], k + 1) \in QUEUE!Used \cup {NIL}
                        /\ CellAt(list[h], h, k) \in Heads \cup QUEUE!Used
      OBVIOUS
    <2>1. k # 0 => k \in 1 .. Len(list[h])
      BY <1>2
    <2>2. k + 1 <= Len(list[h]) => k + 1 \in 1 .. Len(list[h])
      BY <1>2
    <2> QED
      BY <1>3, <2>1, <2>2 DEF ElementAt, CellAt
  <1>5. \A S : \A h \in Heads, a \in S : Encoded(kind, h, a) \in QUEUE!Pointers(S)
    BY DEF Encoded, QUEUE!Pointers
  <1>6. \A S : S \subseteq QUEUE!Pointers(S)
    BY DEF QUEUE!Pointers
  <1>7. ASSUME NEW c \in QUEUE!Cells PROVE q.next[c] \in QUEUE!Pointers(QUEUE!Used \cup {NIL})
    <2>1. CASE \E h \in Heads : \E k \in 0 .. Len(list[h]) : c = CellAt(list[h], h, k)
      BY <1>1, <1>4, <1>5, <2>1 DEF NextRight
    <2>2. CASE ~\E h \in Heads : \E k \in 0 .. Len(list[h]) : c = CellAt(list[h], h, k)
      <3>1. c \notin Heads
        <4>1. \A h \in Heads : 0 \in 0 .. Len(list[h]) /\ h = CellAt(list[h], h, 0)
          BY <1>2 DEF CellAt
        <4> QED
          BY <2>2, <4>1
      <3>2. \A h \in Heads : \A k \in 1 .. Len(list[h]) : list[h][k] # c
        <4>1. \A h \in Heads : \A k \in 1 .. Len(list[h]) :
                k \in 0 .. Len(list[h]) /\ list[h][k] = CellAt(list[h], h, k)
          BY <1>2 DEF CellAt
        <4> QED
          BY <2>2, <4>1
      <3>3. q.next[c] = NIL
        BY <1>1, <3>1, <3>2 DEF OutsideNull, QUEUE!Cells
      <3> QED
        BY <1>6, <3>3
    <2> QED
      BY <2>1, <2>2
  <1>8. ASSUME NEW e \in Elements PROVE q.prev[e] \in Heads \cup QUEUE!Used \cup {NIL}
    <2>1. CASE \E h \in Heads : \E k \in 1 .. Len(list[h]) : list[h][k] = e
      <3>1. PICK h \in Heads : \E k \in 1 .. Len(list[h]) : list[h][k] = e
        BY <2>1
      <3>2. PICK k \in 1 .. Len(list[h]) : list[h][k] = e
        BY <3>1
      <3>3. k - 1 \in 0 .. Len(list[h])
        BY <1>2
      <3>4. CellAt(list[h], h, k - 1) \in Heads \cup QUEUE!Used
        BY <1>4, <3>3
      <3> QED
        BY <1>1, <3>2, <3>4 DEF PrevRight
    <2>2. CASE ~\E h \in Heads : \E k \in 1 .. Len(list[h]) : list[h][k] = e
      BY <1>1, <2>2 DEF OutsideNull
    <2> QED
      BY <2>1, <2>2
  <1>9. ASSUME NEW h \in Heads PROVE q.last[h] \in QUEUE!Pointers(Heads \cup QUEUE!Used \cup {NIL})
    <2>1. Len(list[h]) \in 0 .. Len(list[h])
      BY <1>2
    <2>2. CellAt(list[h], h, Len(list[h])) \in Heads \cup QUEUE!Used \cup {NIL}
      BY <1>4, <2>1
    <2>3. NIL \in QUEUE!Pointers(Heads \cup QUEUE!Used \cup {NIL})
      BY <1>6
    <2>4. \A c \in Heads \cup QUEUE!Used \cup {NIL} :
            Encoded(kind, h, c) \in QUEUE!Pointers(Heads \cup QUEUE!Used \cup {NIL})
      BY <1>5
    <2> QED
      BY <1>1, <2>2, <2>3, <2>4 DEF LastRight
  <1> HIDE DEF QUEUE!Pointers
  <1>10. /\ q.next \in [QUEUE!Cells -> Address] /\ q.prev \in [Elements -> Plain]
         /\ q.last \in [Heads -> Address]
    BY <1>1 DEF FieldsTyped
  <1>11. /\ q.next \in [QUEUE!Cells -> QUEUE!Pointers(QUEUE!Used \cup {NIL})]
         /\ q.prev \in [Elements -> Heads \cup QUEUE!Used \cup {NIL}]
         /\ q.last \in [Heads -> QUEUE!Pointers(Heads \cup QUEUE!Used \cup {NIL})]
    BY <1>7, <1>8, <1>9, <1>10
  <1> QED
    BY <1>11 DEF QUEUE!TypeOK

\* The cells of a list: number j + 1 is the one in front of element number j + 1.
LEMMA ListCells ==
  ASSUME QUEUE!QueueAssumption, Apart(list), NEW h \in Heads
  PROVE  /\ Len(QUEUE!CellsOf(h)) = Len(list[h]) + 1 /\ Len(list[h]) \in Nat
         /\ \A j \in 0 .. Len(list[h]) : QUEUE!CellsOf(h)[j + 1] = CellAt(list[h], h, j)
         /\ \A j \in 1 .. Len(list[h]) : QUEUE!CellsOf(h)[j + 1] = list[h][j]
  <1>1. list[h] \in Seq(Elements) /\ Len(list[h]) \in Nat
    BY CellsApart
  <1>2. /\ Len(<<h>> \o list[h]) = Len(list[h]) + 1 /\ (<<h>> \o list[h])[1] = h
        /\ \A j \in 1 .. Len(list[h]) : (<<h>> \o list[h])[j + 1] = list[h][j]
    BY <1>1
  <1>3. \A j \in 0 .. Len(list[h]) : (<<h>> \o list[h])[j + 1] = CellAt(list[h], h, j)
    BY <1>1, <1>2 DEF CellAt
  <1> QED
    BY <1>1, <1>2, <1>3 DEF QUEUE!CellsOf

\* The pointers lead forwards and, in the kinds that have prev, backwards through every list.
LEMMA ListsRight ==
  ASSUME QUEUE!QueueAssumption, ListInv
  PROVE  QUEUE!RepresentsLists /\ QUEUE!WalksBackwards
  <1>1. /\ kind \in Kinds /\ Pointed(kind, q, list) /\ Apart(list) /\ PrevRight(kind, q, list)
        /\ LastRight(kind, q, list)
    BY DEF ListInv, Pointed
  <1>2. ASSUME NEW h \in Heads
        PROVE  LET c == QUEUE!CellsOf(h) IN
                 /\ \A k \in 1 .. Len(c) - 1 : QUEUE!XOR(h, q.next[c[k]]) = c[k + 1]
                 /\ QUEUE!XOR(h, q.next[c[Len(c)]]) = NIL
                 /\ QUEUE!Tail_ => QUEUE!XOR(h, q.last[h]) = c[Len(c)]
    <2> DEFINE c == QUEUE!CellsOf(h)
               n == Len(list[h])
    <2>1. /\ Len(c) = n + 1 /\ n \in Nat
          /\ \A j \in 0 .. n : c[j + 1] = CellAt(list[h], h, j)
          /\ \A j \in 1 .. n : c[j + 1] = list[h][j]
      BY <1>1, ListCells
    <2>2. \A j \in 0 .. n : QUEUE!XOR(h, q.next[CellAt(list[h], h, j)]) = ElementAt(list[h], j + 1)
      BY <1>1, Reads, Xored
    <2> HIDE DEF c
    <2>3. ASSUME NEW k \in 1 .. Len(c) - 1 PROVE QUEUE!XOR(h, q.next[c[k]]) = c[k + 1]
      <3>1. k - 1 \in 0 .. n /\ (k - 1) + 1 = k /\ k \in 1 .. n /\ k <= n
        BY <2>1
      <3>2. c[k] = CellAt(list[h], h, k - 1) /\ c[k + 1] = list[h][k]
        BY <2>1, <3>1
      <3>3. QUEUE!XOR(h, q.next[c[k]]) = ElementAt(list[h], k)
        BY <2>2, <3>1, <3>2
      <3> QED
        BY <3>1, <3>2, <3>3 DEF ElementAt
    <2>4. c[Len(c)] = CellAt(list[h], h, n) /\ n \in 0 .. n
      BY <2>1
    <2>5. QUEUE!XOR(h, q.next[c[Len(c)]]) = NIL
      <3>1. QUEUE!XOR(h, q.next[c[Len(c)]]) = ElementAt(list[h], n + 1)
        BY <2>2, <2>4
      <3> QED
        BY <2>1, <3>1 DEF ElementAt
    <2>6. QUEUE!Tail_ => QUEUE!XOR(h, q.last[h]) = c[Len(c)]
      <3>1. CellAt(list[h], h, n) \in Plain
        BY <1>1, <2>4, Reads
      <3> QED
        BY <1>1, <2>4, <3>1, Xored DEF QUEUE!Tail_, LastRight
    <2> QED
      BY <2>3, <2>5, <2>6 DEF c
  <1>3. ASSUME NEW h \in Heads
        PROVE  LET c == QUEUE!CellsOf(h)
                   before(k) == IF k <= 1 THEN NIL ELSE c[k]
               IN  /\ QUEUE!Double => \A k \in 2 .. Len(c) : q.prev[c[k]] = c[k - 1]
                   /\ kind = "TAILQ" =>
                        /\ QUEUE!TAILQ_LAST(h) = before(Len(c))
                        /\ \A k \in 2 .. Len(c) : QUEUE!TAILQ_PREV(c[k]) = before(k - 1)
    <2> DEFINE c == QUEUE!CellsOf(h)
               n == Len(list[h])
               before(k) == IF k <= 1 THEN NIL ELSE c[k]
    <2>1. /\ Len(c) = n + 1 /\ n \in Nat
          /\ \A j \in 0 .. n : c[j + 1] = CellAt(list[h], h, j)
          /\ \A j \in 1 .. n : c[j + 1] = list[h][j]
      BY <1>1, ListCells
    <2> HIDE DEF c
    <2>2. ASSUME QUEUE!Double, NEW k \in 2 .. Len(c) PROVE q.prev[c[k]] = c[k - 1]
      <3>1. k - 1 \in 1 .. n /\ (k - 1) + 1 = k /\ (k - 1) - 1 \in 0 .. n /\ (k - 2) + 1 = k - 1
            /\ (k - 1) - 1 = k - 2
        BY <2>1
      <3>2. c[k] = list[h][k - 1] /\ c[k - 1] = CellAt(list[h], h, (k - 1) - 1)
        BY <2>1, <3>1
      <3>3. q.prev[list[h][k - 1]] = CellAt(list[h], h, (k - 1) - 1)
        BY <1>1, <2>2, <3>1 DEF PrevRight, QUEUE!Double
      <3> QED
        BY <3>2, <3>3
    <2>3. ASSUME NEW j \in 0 .. n PROVE before(j + 1) = Before(list[h], j)
      <3>1. CASE j = 0
        BY <3>1 DEF Before
      <3>2. CASE j # 0
        <4>1. j \in 1 .. n /\ ~(j + 1 <= 1)
          BY <2>1, <3>2
        <4>2. c[j + 1] = list[h][j]
          BY <2>1, <4>1
        <4> QED
          BY <3>2, <4>1, <4>2 DEF Before
      <3> QED
        BY <3>1, <3>2
    <2> HIDE DEF before
    <2>4. ASSUME kind = "TAILQ" PROVE QUEUE!TAILQ_LAST(h) = before(Len(c))
      <3>1. n \in 0 .. n
        BY <2>1
      <3>2. QUEUE!TAILQ_LAST(h) = Before(list[h], n)
        BY <1>1, <2>4, Backwards
      <3> QED
        BY <2>1, <2>3, <3>1, <3>2
    <2>5. ASSUME kind = "TAILQ", NEW k \in 2 .. Len(c) PROVE QUEUE!TAILQ_PREV(c[k]) = before(k - 1)
      <3>1. k - 1 \in 1 .. n /\ (k - 1) + 1 = k /\ k - 2 \in 0 .. n /\ (k - 2) + 1 = k - 1
            /\ (k - 1) - 1 = k - 2
        BY <2>1
      <3>2. c[k] = list[h][k - 1] /\ before(k - 1) = Before(list[h], k - 2)
        BY <2>1, <2>3, <3>1
      <3>3. QUEUE!TAILQ_PREV(list[h][k - 1]) = Before(list[h], (k - 1) - 1)
        BY <1>1, <2>5, <3>1, Backwards
      <3> QED
        BY <3>1, <3>2, <3>3
    <2> QED
      BY <2>2, <2>4, <2>5 DEF c, before
  <1> QED
    BY <1>2, <1>3 DEF QUEUE!RepresentsLists, QUEUE!WalksBackwards

\* A loop is at the first element before it, and ends when none is left.
LEMMA LoopRight ==
  ASSUME QUEUE!QueueAssumption, ListInv
  PROVE  QUEUE!LoopVisitsAll
  <1>1. Looping(kind, loop, list) /\ NIL \notin Elements
    BY DEF ListInv, QUEUE!QueueAssumption, QUEUE!Cells
  <1>2. CASE ~loop.on
    BY <1>1, <1>2 DEF Looping, QUEUE!LoopVisitsAll, QUEUE!NoLoop
  <1>3. CASE loop.on
    <2>1. /\ loop.todo \in Seq(Elements) /\ Len(loop.todo) > 0 /\ loop.var = loop.todo[1]
          /\ loop.tvar = ElementAt(loop.todo, 2)
      BY <1>1, <1>3 DEF Looping
    <2>2. Len(loop.todo) \in Nat /\ loop.todo # <<>> /\ Head(loop.todo) = loop.todo[1]
      BY <2>1
    <2>3. CASE Len(loop.todo) = 1
      BY <1>3, <2>1, <2>2, <2>3 DEF ElementAt, QUEUE!LoopVisitsAll
    <2>4. CASE Len(loop.todo) # 1
      <3>1. 2 \in 1 .. Len(loop.todo) /\ 2 <= Len(loop.todo)
        <4> DEFINE n == Len(loop.todo)
        <4>1. n \in Nat /\ n > 0 /\ n # 1
          BY <2>1, <2>2, <2>4
        <4> HIDE DEF n
        <4>2. 2 \in 1 .. n /\ 2 <= n
          BY <4>1
        <4> QED
          BY <4>2 DEF n
      <3>2. loop.tvar \in Elements
        BY <2>1, <3>1 DEF ElementAt
      <3> QED
        BY <1>1, <1>3, <2>1, <2>2, <2>4, <3>2 DEF QUEUE!LoopVisitsAll
    <2> QED
      BY <2>3, <2>4
  <1> QED
    BY <1>2, <1>3

(***************************************************************************)
(* The macros of queue.h.  Whatever sequence of insertions, removals,      *)
(* replacements and concatenations a program makes on lists of one kind,   *)
(* the pointers are those of the sequences the calls describe: next leads  *)
(* through each list and ends, prev is the cell that leads to an element,  *)
(* the head's last pointer is the last cell, TAILQ_LAST and TAILQ_PREV     *)
(* walk back, and a FOREACH_SAFE loop whose body removes the current       *)
(* element visits every element that was there, for any number of heads    *)
(* and elements.  The pointers of a removed element, the places of the     *)
(* elements in every list and of the loop in its own make it inductive.    *)
(***************************************************************************)
THEOREM ListsRepresented ==
  ASSUME QUEUE!QueueAssumption
  PROVE  QUEUE!Spec => []RepresentsLists
  <1>1. QUEUE!Init => ListInv
    BY EmptyLists
  <1>2. ListInv /\ [QUEUE!Next]_(QUEUE!vars) => ListInv'
    BY ListStep
  <1>3. ListInv => RepresentsLists
    BY ListsTyped, ListsRight, LoopRight DEF RepresentsLists
  <1> QED
    BY <1>1, <1>2, <1>3, PTL DEF QUEUE!Spec

=============================================================================
