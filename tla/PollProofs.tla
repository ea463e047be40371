----------------------------- MODULE PollProofs -----------------------------
(***************************************************************************)
(* Proofs that poll() on Windows waits as long as it was asked to and      *)
(* reports what is so, for every array of descriptors, every timeout of an *)
(* int and every length of a pass, whatever happens to the descriptors and *)
(* whenever it does.                                                       *)
(***************************************************************************)
EXTENDS Poll, FiniteSetTheorems, WellFoundedInduction, TLAPS

\* The call is in the loop or behind it: the arguments have been accepted.
Accepted == pc \in {"loop", "select", "answer"}

ArgsInv ==
  /\ Accepted =>
       pfds \notin {NULL, <<>>} /\ num_sockets <= FD_SETSIZE /\ num_handles <= FD_SETSIZE
  /\ pc # "returned" => revents = <<>>
  /\ revents # <<>> => pfds # NULL /\ DOMAIN revents = DOMAIN pfds

\* select() is handed the sets as they were filled, and leaves a part of them.
SetsInv ==
  /\ pc = "select" => rfds = rfds_in /\ wfds = wfds_in /\ efds = efds_in
  /\ pc = "answer" => rfds \subseteq rfds_in /\ wfds \subseteq wfds_in /\ efds \subseteq efds_in
  /\ pc = "answer" /\ ~failed =>
       /\ \A s \in rfds : cond[s] \cap {"readable", "reset"} # {}
       /\ \A s \in wfds : "writable" \in cond[s]

\* The result of WaitForMultipleObjects() stays true until the second pass has used it.
WaitInv ==
  /\ pc \in {"idle", "loop"} => ~HandleSignaled
  /\ pc \in {"select", "answer"} /\ HandleSignaled =>
       \A i \in DOMAIN pfds : IsHandle(i) /\ wait_rc = HandleIndex(i) => Signaled(pfds[i].fd)

\* The time that the passes have used, and what is left of the current one.
TimeInv ==
  /\ pc = "idle" => elapsed = 0
  /\ lag <= LoopCap
  /\ pc = "loop" =>
       /\ timeout >= -1 => looptime >= 0
       /\ timeout >= 0 => spent \in 0 .. timeout /\ elapsed = spent
       /\ timeout < -1 => spent = 0 /\ looptime = timeout
  /\ pc = "select" =>
       /\ HandleSignaled => left = 0 /\ lag = 0
       /\ ~HandleSignaled => lag + left <= looptime
       /\ timeout >= -1 => looptime >= 0 /\ left >= 0
       /\ timeout >= 0 => /\ spent >= 0 /\ spent + looptime <= timeout
                          /\ HandleSignaled => elapsed = spent
                          /\ ~HandleSignaled => elapsed = spent + looptime - left
       /\ timeout < -1 => spent = 0 /\ looptime = timeout /\ (~HandleSignaled => left < 0)
  /\ pc = "answer" =>
       /\ timeout >= 0 => elapsed <= timeout
       /\ timeout >= 0 /\ ~HandleSignaled /\ AllEmpty => elapsed = timeout

IInv == TypeOK /\ ArgsInv /\ SetsInv /\ WaitInv /\ TimeInv /\ WaitsExactly /\ AnswersTrue
-----------------------------------------------------------------------------
\* An array of descriptors that the caller passed.
LEMMA Entries ==
  ASSUME pfds \in PollSets
  PROVE  /\ Len(pfds) \in Nat /\ DOMAIN pfds = 1 .. Len(pfds)
         /\ \A i \in DOMAIN pfds : pfds[i] \in Pollfd
  BY PollAssumption

\* Sockets and handles can be counted, and so can the handles up to an entry.
LEMMA Counts ==
  ASSUME pfds \in PollSets
  PROVE  /\ IsFiniteSet(DOMAIN pfds)
         /\ IsFiniteSet({i \in DOMAIN pfds : IsSocket(i)})
         /\ IsFiniteSet({i \in DOMAIN pfds : IsHandle(i)})
         /\ num_sockets \in Nat /\ num_handles \in Nat
  <1>1. IsFiniteSet(DOMAIN pfds)
    BY Entries, FS_Interval
  <1>2. IsFiniteSet({i \in DOMAIN pfds : IsSocket(i)})
    BY <1>1, FS_Subset
  <1>3. IsFiniteSet({i \in DOMAIN pfds : IsHandle(i)})
    BY <1>1, FS_Subset
  <1> QED
    BY <1>1, <1>2, <1>3, FS_CardinalityType DEF num_sockets, num_handles

\* The second pass finds at its index the handle that the first pass put there.
LEMMA SameHandle ==
  ASSUME pfds \in PollSets, NEW i \in DOMAIN pfds, IsHandle(i)
  PROVE  HandleIndex(i) \in 1 .. num_handles /\ handles[HandleIndex(i)] = pfds[i].fd
  <1> DEFINE Upto(k) == {j \in 1 .. k : IsHandle(j)}
  <1>1. ASSUME NEW k \in DOMAIN pfds
        PROVE  /\ Upto(k) \subseteq {j \in DOMAIN pfds : IsHandle(j)}
               /\ IsFiniteSet(Upto(k)) /\ Cardinality(Upto(k)) \in Nat
               /\ Cardinality(Upto(k)) <= num_handles
    <2>1. Upto(k) \subseteq {j \in DOMAIN pfds : IsHandle(j)}
      BY Entries
    <2> QED
      BY <2>1, Counts, FS_Subset, FS_CardinalityType DEF num_handles
  <1>2. ASSUME NEW j \in DOMAIN pfds, NEW k \in DOMAIN pfds, IsHandle(k), j < k
        PROVE  Cardinality(Upto(j)) # Cardinality(Upto(k))
    <2>1. Upto(j) \subseteq Upto(k) /\ k \in Upto(k) /\ k \notin Upto(j)
      BY <1>2, Entries
    <2> HIDE DEF Upto
    <2> QED
      BY <1>1, <2>1, FS_Subset
  <1>3. HandleIndex(i) = Cardinality(Upto(i))
    BY DEF HandleIndex
  <1>4. HandleIndex(i) \in 1 .. num_handles
    <2>1. i \in Upto(i)
      BY Entries
    <2>2. Cardinality(Upto(i)) # 0
      BY <1>1, <2>1, FS_EmptySet
    <2> HIDE DEF Upto
    <2> QED
      BY <1>1, <1>3, <2>2, Counts
  <1>5. HandleEntry(HandleIndex(i)) = i
    <2>1. ASSUME NEW k \in DOMAIN pfds, IsHandle(k), Cardinality(Upto(k)) = HandleIndex(i)
          PROVE  k = i
      <3>1. k \in Int /\ i \in Int
        BY Entries
      <3> HIDE DEF Upto
      <3> QED
        BY <1>2, <1>3, <2>1, <3>1
    <2> QED
      BY <1>3, <2>1 DEF HandleEntry
  <1> QED
    BY <1>4, <1>5 DEF handles

\* The pairs of naturals whose first is less.
Below == {p \in Nat \X Nat : p[1] < p[2]}

\* The wait names a signaled handle if it names one.
LEMMA WaitResult ==
  ASSUME pfds \in PollSets
  PROVE  /\ WaitForMultipleObjects \in -1 .. num_handles
         /\ WaitForMultipleObjects > 0 =>
              /\ WaitForMultipleObjects \in 1 .. num_handles
              /\ Signaled(handles[WaitForMultipleObjects])
  <1> DEFINE S == {k \in 1 .. num_handles : Signaled(handles[k])}
  <1>0. DOMAIN handles = 1 .. num_handles /\ num_handles \in Nat
    BY Counts DEF handles
  <1>1. CASE S # {}
    <2>1. S \subseteq Nat
      BY <1>0
    <2>2. IsWellFoundedOn(Below, Nat)
      BY NatLessThanWellFounded DEF OpToRel, Below
    <2>3. PICK k \in S : \A j \in S : ~(<<j, k>> \in Below)
      BY <1>1, <2>1, <2>2, WFMin
    <2>4. ASSUME NEW j \in 1 .. k - 1 PROVE ~Signaled(handles[j])
      <3>1. k \in 1 .. num_handles /\ j \in 1 .. num_handles /\ <<j, k>> \in Below
        BY <1>0 DEF Below
      <3> QED
        BY <2>3, <3>1
    <2>5. /\ k \in DOMAIN handles /\ Signaled(handles[k])
          /\ \A j \in 1 .. k - 1 : ~Signaled(handles[j])
      BY <1>0, <2>4
    <2> DEFINE W == CHOOSE x \in DOMAIN handles :
                      Signaled(handles[x]) /\ \A j \in 1 .. x - 1 : ~Signaled(handles[j])
    <2>6. W \in DOMAIN handles /\ Signaled(handles[W])
      BY <2>5
    <2>7. WaitForMultipleObjects = WAIT_FAILED \/ WaitForMultipleObjects = W
      BY <2>5 DEF WaitForMultipleObjects
    <2> HIDE DEF W
    <2> QED
      BY <1>0, <2>6, <2>7 DEF WAIT_FAILED
  <1>2. CASE S = {}
    BY <1>0, <1>2 DEF WaitForMultipleObjects, WAIT_FAILED, WAIT_TIMEOUT
  <1> QED
    BY <1>1, <1>2

\* An int wraps only beyond its range.
LEMMA Wrapping ==
  /\ \A x \in Int : WrapInt(x) \in -IntMax - 1 .. IntMax
  /\ \A x \in 0 .. IntMax : WrapInt(x) = x
  <1> DEFINE M == 2 * (IntMax + 1)
  <1>0. IntMax \in Nat /\ M \in Nat /\ M > 0 /\ M = 2 * (IntMax + 1)
    BY PollAssumption
  <1>1. ASSUME NEW x \in Int PROVE WrapInt(x) \in -IntMax - 1 .. IntMax
    <2>1. x + IntMax + 1 \in Int
      BY <1>0
    <2> DEFINE y == x + IntMax + 1
    <2>2. WrapInt(x) = (y % M) - (IntMax + 1)
      BY DEF WrapInt
    <2> HIDE DEF y, M
    <2>3. y % M \in 0 .. M - 1
      BY <1>0, <2>1 DEF y
    <2> QED
      BY <1>0, <2>2, <2>3
  <1>2. ASSUME NEW x \in 0 .. IntMax PROVE WrapInt(x) = x
    <2> DEFINE y == x + IntMax + 1
    <2>1. y \in 0 .. M - 1
      BY <1>0
    <2>2. WrapInt(x) = (y % M) - (IntMax + 1)
      BY DEF WrapInt
    <2>3. y = x + IntMax + 1
      OBVIOUS
    <2> HIDE DEF y, M
    <2>4. y % M = y
      BY <1>0, <2>1
    <2> QED
      BY <1>0, <2>2, <2>3, <2>4
  <1> QED
    BY <1>1, <1>2

-----------------------------------------------------------------------------
\* What is derived from the array stays while the array does.
LEMMA ArrayFrame ==
  ASSUME pfds' = pfds
  PROVE  /\ num_sockets' = num_sockets /\ num_handles' = num_handles /\ handles' = handles
         /\ rfds_in' = rfds_in /\ wfds_in' = wfds_in /\ efds_in' = efds_in
  <1>1. \A i : (IsSocket(i)' <=> IsSocket(i)) /\ (IsHandle(i)' <=> IsHandle(i))
    BY DEF IsSocket, IsHandle
  <1>2. \A k : HandleEntry(k)' = HandleEntry(k)
    BY DEF HandleEntry, IsHandle
  <1>3. num_sockets' = num_sockets /\ num_handles' = num_handles
    BY DEF num_sockets, num_handles, IsSocket, IsHandle
  <1>4. handles' = handles
    BY <1>2, <1>3 DEF handles, HandleEntry, IsHandle
  <1>5. rfds_in' = rfds_in /\ wfds_in' = wfds_in /\ efds_in' = efds_in
    BY DEF rfds_in, wfds_in, efds_in, SocketFds, IsSocket, Wants
  <1> QED
    BY <1>3, <1>4, <1>5

\* The sets that the first pass fills hold sockets only.
LEMMA SetsOfSockets ==
  /\ rfds_in \subseteq Sockets /\ wfds_in \subseteq Sockets /\ efds_in \subseteq Sockets
  BY DEF rfds_in, wfds_in, efds_in, SocketFds, IsSocket

\* The initial state satisfies the invariant.
LEMMA InitIInv == Init => IInv
  <1> SUFFICES ASSUME Init PROVE IInv
    OBVIOUS
  <1> USE PollAssumption DEF Init
  <1>1. TypeOK
    <2>1. revents \in Seq(SUBSET Revents) /\ console \in Seq({"key", "other"})
      OBVIOUS
    <2>2. /\ ret \in -1 .. IntMax /\ wait_rc \in WAIT_FAILED .. IntMax
          /\ spent \in -IntMax - 1 .. IntMax /\ looptime \in -IntMax .. LoopCap /\ left \in Int
          /\ events \in 0 .. EnvMax /\ elapsed \in Nat /\ lag \in Nat
      BY DEF WAIT_FAILED
    <2>3. cond \in [Fds -> SUBSET Conditions]
      OBVIOUS
    <2> QED
      BY <2>1, <2>2, <2>3 DEF TypeOK, Errno
  <1>2. ArgsInv /\ SetsInv
    BY DEF ArgsInv, SetsInv, Accepted
  <1>3. WaitInv /\ TimeInv
    BY DEF WaitInv, TimeInv, HandleSignaled, WAIT_FAILED
  <1>4. WaitsExactly /\ AnswersTrue
    BY <1>1 DEF WaitsExactly, AnswersTrue
  <1> QED
    BY <1>1, <1>2, <1>3, <1>4 DEF IInv

\* A call is refused, or enters the loop with nothing spent.
LEMMA PollIInv ==
  ASSUME IInv, poll
  PROVE  IInv'
  <1> USE PollAssumption DEF IInv
  <1>0. /\ pc = "idle" /\ revents = <<>> /\ ~HandleSignaled /\ elapsed = 0 /\ lag <= LoopCap
        /\ TypeOK
        /\ UNCHANGED <<pfds, timeout, revents, left, cond, console, events, elapsed, lag, failed>>
    BY DEF poll, ArgsInv, WaitInv, TimeInv, args, kernel, ghosts
  <1>1. ASSUME NEW r \in {-1, 0}, NEW e \in Errno, Returns(r, e),
               UNCHANGED <<rfds, wfds, efds, spent, looptime, wait_rc>>,
               r = 0 => pfds = <<>>,
               r = -1 => \/ pfds = NULL
                         \/ num_sockets > FD_SETSIZE \/ num_handles > FD_SETSIZE
        PROVE  IInv'
    <2>0. pc' = "returned" /\ ret' = r /\ errno' = e
      BY <1>1 DEF Returns
    <2>1. TypeOK'
      <3>1. ret' \in -1 .. IntMax
        BY <2>0
      <3> HIDE PollAssumption
      <3> QED
        BY <1>0, <1>1, <2>0, <3>1 DEF TypeOK
    <2>2. ArgsInv' /\ SetsInv' /\ WaitInv' /\ TimeInv'
      BY <1>0, <2>0 DEF ArgsInv, SetsInv, WaitInv, TimeInv, Accepted
    <2>3. WaitsExactly'
      BY <1>0, <1>1, <2>0, <2>1 DEF TypeOK, WaitsExactly
    <2>4. AnswersTrue'
      BY <1>0, <1>1, <2>0, ArrayFrame DEF AnswersTrue, HandleSignaled
    <2> QED
      BY <2>1, <2>2, <2>3, <2>4
  <1>2. CASE /\ pfds \notin {NULL, <<>>}
             /\ num_sockets <= FD_SETSIZE /\ num_handles <= FD_SETSIZE
             /\ pc' = "loop"
             /\ rfds' = rfds_in /\ wfds' = wfds_in /\ efds' = efds_in
             /\ spent' = 0 /\ wait_rc' = WAIT_FAILED
             /\ looptime' = FirstLooptime
             /\ UNCHANGED <<ret, errno>>
    <2>1. TypeOK'
      <3>1. /\ looptime' \in -IntMax .. LoopCap /\ wait_rc' \in WAIT_FAILED .. IntMax
            /\ spent' \in -IntMax - 1 .. IntMax
        <4>1. timeout \in -IntMax .. IntMax
          BY DEF TypeOK
        <4> QED
          BY <1>2, <4>1 DEF WAIT_FAILED, FirstLooptime
      <3>2. rfds' \subseteq Sockets /\ wfds' \subseteq Sockets /\ efds' \subseteq Sockets
        BY <1>2, SetsOfSockets
      <3> HIDE PollAssumption
      <3> QED
        BY <1>0, <1>2, <3>1, <3>2 DEF TypeOK
    <2>2. ArgsInv' /\ SetsInv'
      BY <1>0, <1>2, ArrayFrame DEF ArgsInv, SetsInv, Accepted
    <2>3. WaitInv'
      BY <1>2 DEF WaitInv, HandleSignaled, WAIT_FAILED
    <2>4. TimeInv'
      BY <1>0, <1>2 DEF TypeOK, TimeInv, FirstLooptime
    <2>5. WaitsExactly' /\ AnswersTrue'
      BY <1>0, <1>2, <2>1 DEF TypeOK, WaitsExactly, AnswersTrue
    <2> QED
      BY <2>1, <2>2, <2>3, <2>4, <2>5
  <1>3. "EINVAL" \in Errno /\ errno \in Errno
    BY DEF Errno, TypeOK
  <1> HIDE PollAssumption DEF IInv
  <1> QED
    BY <1>1, <1>2, <1>3 DEF poll, sets

\* A pass begins: the sets are restored, the wait is capped at the time remaining.
LEMMA PassIInv ==
  ASSUME IInv, Pass
  PROVE  IInv'
  <1> USE PollAssumption DEF IInv
  <1>0. /\ pc = "loop" /\ revents = <<>> /\ ~HandleSignaled /\ lag <= LoopCap
        /\ TypeOK /\ ArgsInv /\ TimeInv
        /\ pfds \in PollSets /\ num_handles \in Nat /\ num_handles <= FD_SETSIZE
        /\ UNCHANGED <<pfds, timeout, revents, spent, cond, console, events, elapsed, failed>>
        /\ rfds' = rfds_in /\ wfds' = wfds_in /\ efds' = efds_in
        /\ looptime' = CappedLooptime
        /\ wait_rc' = IF num_handles > 0 THEN WaitForMultipleObjects ELSE wait_rc
    BY Counts DEF Pass, RestoreSets, ArgsInv, WaitInv, TimeInv, TypeOK, args, kernel, Accepted
  <1>1. /\ wait_rc' \in WAIT_FAILED .. IntMax
        /\ wait_rc' > 0 => Signaled(handles[wait_rc'])
    BY <1>0, WaitResult DEF TypeOK, HandleSignaled, WAIT_FAILED
  <1>2. /\ looptime' \in -IntMax .. LoopCap
        /\ timeout >= -1 => looptime' >= 0
        /\ timeout >= 0 => spent >= 0 /\ spent + looptime' <= timeout
        /\ timeout < -1 => looptime' = timeout
    BY <1>0 DEF TypeOK, TimeInv, CappedLooptime
  <1>3. CASE /\ wait_rc' = WAIT_FAILED /\ Returns(-1, "ENOMEM") /\ UNCHANGED <<left, lag>>
    <2>0. pc' = "returned" /\ ret' = -1 /\ errno' = "ENOMEM" /\ ~(wait_rc' > 0)
      BY <1>3 DEF Returns, WAIT_FAILED
    <2>1. TypeOK'
      BY <1>0, <1>1, <1>2, <1>3, <2>0, SetsOfSockets DEF TypeOK, Errno
    <2>2. ArgsInv' /\ SetsInv' /\ WaitInv' /\ TimeInv'
      BY <1>0, <1>3, <2>0 DEF ArgsInv, SetsInv, WaitInv, TimeInv, Accepted
    <2>3. WaitsExactly' /\ AnswersTrue'
      BY <1>0, <1>3, <2>0, <2>1 DEF TypeOK, TimeInv, WaitsExactly, AnswersTrue, HandleSignaled
    <2> QED
      BY <2>1, <2>2, <2>3
  <1>4. CASE /\ left' = IF HandleSignaled' THEN 0 ELSE looptime'
             /\ lag' = 0 /\ pc' = "select"
             /\ UNCHANGED <<ret, errno>>
    <2>1. TypeOK'
      BY <1>0, <1>1, <1>2, <1>4, SetsOfSockets DEF TypeOK
    <2>2. ArgsInv' /\ SetsInv'
      BY <1>0, <1>4, ArrayFrame DEF ArgsInv, SetsInv, Accepted
    <2>3. WaitInv'
      <3> SUFFICES ASSUME wait_rc' > 0, NEW i \in DOMAIN pfds, IsHandle(i),
                          wait_rc' = HandleIndex(i)
                   PROVE  Signaled(pfds[i].fd)
        BY <1>0, <1>4 DEF WaitInv, HandleSignaled, Signaled, IsHandle, HandleIndex
      <3> QED
        BY <1>0, <1>1, SameHandle
    <2>4. TimeInv'
      <3> HIDE PollAssumption DEF IInv
      <3>1. lag' = 0 /\ pc' = "select" /\ LoopCap \in Nat /\ looptime' \in Int /\ spent \in Int
        BY <1>2, <1>4, <1>0, PollAssumption DEF TypeOK
      <3>2. /\ HandleSignaled' => left' = 0
            /\ ~HandleSignaled' => left' = looptime'
        BY <1>4
      <3>3. /\ spent' = spent /\ timeout' = timeout /\ elapsed' = elapsed
            /\ timeout >= 0 => elapsed = spent
            /\ timeout < -1 => spent = 0
        BY <1>0 DEF TimeInv
      <3> QED
        BY <1>2, <3>1, <3>2, <3>3 DEF TimeInv
    <2>5. WaitsExactly' /\ AnswersTrue'
      BY <1>0, <1>4, <2>1 DEF TypeOK, TimeInv, WaitsExactly, AnswersTrue
    <2> QED
      BY <2>1, <2>2, <2>3, <2>4, <2>5
  <1> QED
    BY <1>3, <1>4 DEF Pass

\* Time passes: what is left of the pass and what the call has waited add up.
LEMMA TickIInv ==
  ASSUME IInv, Tick
  PROVE  IInv'
  <1> USE PollAssumption DEF IInv
  <1>0. /\ pc = "select" /\ left > 0 /\ left \in Int /\ left' = left - 1
        /\ elapsed' = IF timeout = -1 THEN elapsed ELSE elapsed + 1
        /\ lag' \in {lag, lag + 1}
        /\ UNCHANGED <<pfds, timeout, pc, ret, errno, revents, rfds, wfds, efds, wait_rc, spent,
                       looptime, cond, console, events, failed>>
    BY DEF Tick, TypeOK, args, sets, kernel
  <1>1. TypeOK'
    BY <1>0 DEF TypeOK
  <1>2. ArgsInv' /\ SetsInv' /\ WaitInv'
    BY <1>0, ArrayFrame
    DEF ArgsInv, SetsInv, WaitInv, Accepted, HandleSignaled, Signaled, IsHandle, HandleIndex
  <1>3. TimeInv'
    <2>1. /\ ~HandleSignaled /\ lag + left <= looptime /\ lag \in Nat /\ looptime <= LoopCap
          /\ looptime \in Int /\ LoopCap \in Nat /\ spent \in Int /\ elapsed \in Nat
          /\ timeout \in Int
      BY <1>0 DEF TypeOK, TimeInv
    <2>2. /\ timeout >= -1 => looptime >= 0 /\ left >= 0
          /\ timeout >= 0 => /\ spent >= 0 /\ spent + looptime <= timeout
                             /\ elapsed = spent + looptime - left
          /\ ~(timeout < -1)
      BY <1>0, <2>1 DEF TimeInv
    <2>3. ~HandleSignaled'
      BY <1>0, <2>1 DEF HandleSignaled
    <2>4. lag' + left' <= looptime /\ lag' <= LoopCap /\ left' >= 0
      <3>1. left' \in Nat /\ left' = left - 1 /\ left \in Int
        BY <1>0
      <3>2. CASE lag' = lag
        BY <2>1, <3>1, <3>2
      <3>3. CASE lag' = lag + 1
        BY <2>1, <3>1, <3>3
      <3> QED
        BY <1>0, <3>2, <3>3
    <2>5. timeout >= 0 => elapsed' = spent + looptime - left'
      BY <1>0, <2>1, <2>2
    <2>6. pc' = "select" /\ timeout' = timeout /\ looptime' = looptime /\ spent' = spent
      BY <1>0
    <2> HIDE PollAssumption DEF IInv
    <2> QED
      BY <2>2, <2>3, <2>4, <2>5, <2>6 DEF TimeInv
  <1>4. WaitsExactly' /\ AnswersTrue'
    <2>1. pc' # "returned" /\ timeout' = timeout /\ timeout \in Int /\ LoopCap \in Nat
      BY <1>0 DEF TypeOK
    <2>2. timeout >= 0 => elapsed' <= timeout
      BY <1>0, <2>1 DEF TypeOK, TimeInv
    <2>3. lag' <= LoopCap
      BY <1>3 DEF TimeInv
    <2> QED
      BY <1>1, <2>1, <2>2, <2>3 DEF WaitsExactly, AnswersTrue
  <1> QED
    BY <1>1, <1>2, <1>3, <1>4

\* select() returns: something is ready, or the pass has been waited out.
LEMMA SelectReturnsIInv ==
  ASSUME IInv, SelectReturns
  PROVE  IInv'
  <1> USE PollAssumption DEF IInv
  <1>0. /\ pc = "select" /\ revents = <<>> /\ left >= 0 /\ (AnyReady \/ left = 0) /\ lag <= LoopCap
        /\ rfds' = ReadReady /\ wfds' = WriteReady /\ efds' = ExceptReady
        /\ UNCHANGED <<pfds, timeout, ret, errno, revents, wait_rc, looptime, left, cond, console,
                       events, elapsed, lag, failed>>
    BY DEF SelectReturns, ArgsInv, TimeInv, args, kernel, ghosts
  <1>1. /\ rfds' \subseteq rfds_in /\ wfds' \subseteq wfds_in /\ efds' \subseteq efds_in
        /\ rfds' \subseteq rfds /\ wfds' \subseteq wfds /\ efds' \subseteq efds
        /\ \A s \in rfds' : cond[s] \cap {"readable", "reset"} # {}
        /\ \A s \in wfds' : "writable" \in cond[s]
        /\ AllEmpty' <=> ~AnyReady
    BY <1>0 DEF SetsInv, ReadReady, WriteReady, ExceptReady, AllEmpty, AnyReady
  <1>2. HandleSignaled' <=> HandleSignaled
    BY <1>0 DEF HandleSignaled
  <1>3. /\ timeout \in Int /\ spent \in Int /\ looptime \in Int /\ left \in Int /\ lag \in Nat
        /\ elapsed \in Nat /\ IntMax \in Nat /\ LoopCap \in Nat /\ timeout <= IntMax
        /\ looptime <= LoopCap
    BY DEF TypeOK
  <1>4. /\ timeout >= -1 => looptime >= 0
        /\ timeout >= 0 => /\ spent >= 0 /\ spent + looptime <= timeout
                           /\ HandleSignaled => elapsed = spent
                           /\ ~HandleSignaled => elapsed = spent + looptime - left
        /\ timeout < -1 => HandleSignaled
    BY <1>0, <1>3 DEF TimeInv
  <1>5. CASE /\ HandleSignaled \/ AnyReady
             /\ pc' = "answer"
             /\ UNCHANGED spent
    <2>1. TypeOK'
      BY <1>0, <1>1, <1>5 DEF TypeOK
    <2>2. ArgsInv' /\ SetsInv'
      BY <1>0, <1>1, <1>5, ArrayFrame DEF ArgsInv, SetsInv, Accepted
    <2>3. WaitInv'
      BY <1>0, <1>2, <1>5, ArrayFrame DEF WaitInv, HandleSignaled, Signaled, IsHandle, HandleIndex
    <2>4. timeout >= 0 => elapsed <= timeout
      BY <1>0, <1>3, <1>4
    <2>5. TimeInv'
      BY <1>0, <1>1, <1>2, <1>5, <2>4 DEF TimeInv
    <2>6. WaitsExactly' /\ AnswersTrue'
      BY <1>0, <1>5, <2>1, <2>4 DEF WaitsExactly, AnswersTrue
    <2> QED
      BY <2>1, <2>2, <2>3, <2>5, <2>6
  <1>6. CASE /\ ~HandleSignaled /\ ~AnyReady
             /\ spent' = WrapInt(spent + looptime)
             /\ pc' = IF KeepWaiting(spent') THEN "loop" ELSE "answer"
    <2>0. spent + looptime \in Int
      BY <1>3
    <2>1. spent' \in -IntMax - 1 .. IntMax
      BY <1>6, <2>0, Wrapping
    <2>2. /\ timeout >= -1 /\ left = 0
          /\ timeout >= 0 => spent' = spent + looptime /\ elapsed = spent'
      <3>1. timeout >= -1 /\ left = 0
        BY <1>0, <1>3, <1>4, <1>6
      <3>2. timeout >= 0 => spent + looptime \in 0 .. IntMax
        BY <1>3, <1>4, <3>1
      <3>3. timeout >= 0 => spent' = spent + looptime
        BY <1>6, <3>2, Wrapping
      <3> QED
        BY <1>3, <1>4, <1>6, <3>1, <3>3
    <2>3. /\ pc' \in {"loop", "answer"}
          /\ pc' = "answer" /\ timeout >= 0 => elapsed = timeout
          /\ timeout >= 0 => spent' \in 0 .. timeout
      <3>1. timeout >= 0 => spent' \in 0 .. timeout
        BY <1>3, <1>4, <2>2
      <3>2. pc' = "answer" /\ timeout >= 0 => ~(spent' < timeout)
        BY <1>6 DEF KeepWaiting
      <3> QED
        BY <1>3, <1>6, <2>2, <3>1, <3>2
    <2>4. TypeOK'
      BY <1>0, <1>1, <2>1, <2>3 DEF TypeOK
    <2>5. ArgsInv' /\ SetsInv'
      BY <1>0, <1>1, <2>3, ArrayFrame DEF ArgsInv, SetsInv, Accepted
    <2>6. WaitInv'
      BY <1>2, <1>6, <2>3 DEF WaitInv
    <2>7. timeout >= 0 => elapsed <= timeout
      BY <1>3, <2>2, <2>3
    <2>8. TimeInv'
      BY <1>0, <1>3, <1>4, <2>2, <2>3, <2>7 DEF TimeInv
    <2>9. WaitsExactly' /\ AnswersTrue'
      BY <1>0, <2>3, <2>4, <2>7 DEF WaitsExactly, AnswersTrue
    <2> QED
      BY <2>4, <2>5, <2>6, <2>8, <2>9
  <1> QED
    BY <1>5, <1>6 DEF SelectReturns

\* select() fails: with a socket to watch, its sets were not empty, and EINVAL is the caller's.
LEMMA SelectFailsIInv ==
  ASSUME IInv, SelectFails
  PROVE  IInv'
  <1> USE PollAssumption DEF IInv
  <1>0. /\ pc = "select" /\ revents = <<>> /\ lag <= LoopCap /\ failed' = TRUE
        /\ UNCHANGED <<pfds, timeout, revents, rfds, wfds, efds, wait_rc, spent, looptime, left,
                       cond, console, events, elapsed, lag>>
        /\ timeout \in Int /\ elapsed \in Nat /\ spent \in Int /\ looptime \in Int /\ left \in Int
        /\ lag \in Nat
    BY DEF SelectFails, ArgsInv, TimeInv, TypeOK, args, sets, kernel
  <1>1. timeout >= 0 => elapsed <= timeout
    BY <1>0 DEF TimeInv
  <1>2. PICK err \in IF AllEmpty \/ left < 0 THEN {"WSAEINVAL"} ELSE SelectErrors :
          \/ ~HandleSignaled /\ Returns(-1, wsa_select_errno(err))
          \/ HandleSignaled /\ pc' = "answer" /\ UNCHANGED <<ret, errno>>
    BY DEF SelectFails
  <1>3. CASE ~HandleSignaled /\ Returns(-1, wsa_select_errno(err))
    <2>0. pc' = "returned" /\ ret' = -1 /\ errno' = wsa_select_errno(err) /\ ~HandleSignaled'
      BY <1>0, <1>3 DEF Returns, HandleSignaled
    <2>1. TypeOK'
      <3>1. wsa_select_errno(err) \in Errno
        BY DEF wsa_select_errno, Errno
      <3> QED
        BY <1>0, <2>0, <3>1 DEF TypeOK
    <2>2. ArgsInv' /\ SetsInv' /\ WaitInv' /\ TimeInv'
      BY <1>0, <2>0 DEF ArgsInv, SetsInv, WaitInv, TimeInv, Accepted
    <2>3. WaitsExactly'
      BY <1>0, <1>1, <2>0, <2>1 DEF WaitsExactly
    <2>4. errno' = "EINVAL" => AllEmpty \/ left < 0
      BY <1>2, <2>0 DEF wsa_select_errno, WSAErrors
    <2>5. num_sockets > 0 => ~AllEmpty
      <3>1. pfds \in PollSets
        BY <1>0 DEF TypeOK, ArgsInv, Accepted
      <3>2. num_sockets > 0 => {i \in DOMAIN pfds : IsSocket(i)} # {}
        <4>1. ASSUME {i \in DOMAIN pfds : IsSocket(i)} = {} PROVE num_sockets = 0
          BY <4>1, FS_EmptySet DEF num_sockets
        <4> QED
          BY <4>1
      <3>3. num_sockets > 0 => efds_in # {}
        BY <3>2 DEF efds_in
      <3> QED
        BY <1>0, <3>3 DEF SetsInv, AllEmpty
    <2>6. left < 0 => timeout < -1
      BY <1>0 DEF TimeInv
    <2>7. AnswersTrue'
      BY <1>0, <2>0, <2>4, <2>5, <2>6, ArrayFrame DEF AnswersTrue
    <2> QED
      BY <2>1, <2>2, <2>3, <2>7
  <1>4. CASE HandleSignaled /\ pc' = "answer" /\ UNCHANGED <<ret, errno>>
    <2>0. HandleSignaled'
      BY <1>0, <1>4 DEF HandleSignaled
    <2>1. TypeOK'
      BY <1>0, <1>4 DEF TypeOK
    <2>2. ArgsInv' /\ SetsInv'
      BY <1>0, <1>4, ArrayFrame DEF ArgsInv, SetsInv, Accepted
    <2>3. WaitInv'
      BY <1>0, <1>4, ArrayFrame DEF WaitInv, HandleSignaled, Signaled, IsHandle, HandleIndex
    <2>4. TimeInv'
      BY <1>0, <1>1, <1>4, <2>0 DEF TimeInv
    <2>5. WaitsExactly' /\ AnswersTrue'
      BY <1>0, <1>1, <1>4, <2>1 DEF WaitsExactly, AnswersTrue
    <2> QED
      BY <2>1, <2>2, <2>3, <2>4, <2>5
  <1> QED
    BY <1>2, <1>3, <1>4

\* An entry whose socket is left in one of the sets is reported.
LEMMA ReadyReported ==
  ASSUME NEW i \in DOMAIN pfds, IsSocket(i),
         \/ Wants(i, {"IN", "RDBAND"}) /\ pfds[i].fd \in rfds
         \/ Wants(i, {"OUT", "WRBAND"}) /\ pfds[i].fd \in wfds
         \/ pfds[i].fd \in efds
  PROVE  compute_select_revents(i) # {}
  BY DEF compute_select_revents

\* What is reported are bits of revents.
LEMMA ReventsType ==
  ASSUME NEW i
  PROVE  compute_select_revents(i) \subseteq Revents /\ compute_wait_revents(i) \subseteq Revents
  BY DEF compute_select_revents, compute_wait_revents, Revents

\* The second pass: what it reports is so, and it counts what it reports.
LEMMA AnswerIInv ==
  ASSUME IInv, Answer
  PROVE  IInv'
  <1> USE DEF IInv
  <1> DEFINE R == {i \in DOMAIN pfds : revents'[i] # {}}
             Fill(i) == CASE IsSocket(i) -> compute_select_revents(i)
                          [] IsHandle(i) -> compute_wait_revents(i)
                          [] OTHER -> {}
  <1>0. /\ pc = "answer" /\ pfds \in PollSets /\ lag <= LoopCap
        /\ pc' = "returned" /\ ret' = Cardinality(R) /\ errno' = errno
        /\ revents' = [i \in DOMAIN pfds |-> Fill(i)]
        /\ Flush
        /\ UNCHANGED <<pfds, timeout, rfds, wfds, efds, wait_rc, spent, looptime, left, cond,
                       events, elapsed, lag, failed>>
        /\ num_sockets <= FD_SETSIZE /\ num_handles <= FD_SETSIZE
    BY DEF Answer, Returns, TypeOK, ArgsInv, TimeInv, Accepted, args, sets, ghosts
  <1>1. \A i \in DOMAIN pfds : revents'[i] = Fill(i)
    BY <1>0
  <1>2. ASSUME NEW i \in DOMAIN pfds
        PROVE  /\ IsSocket(i) => revents'[i] = compute_select_revents(i) /\ ~IsHandle(i)
               /\ IsHandle(i) => revents'[i] = compute_wait_revents(i)
    <2>1. ~(IsSocket(i) /\ IsHandle(i))
      BY PollAssumption DEF IsSocket, IsHandle
    <2> QED
      BY <1>1, <2>1
  <1>3. /\ IsFiniteSet(R) /\ Cardinality(R) \in Nat /\ Cardinality(R) <= IntMax
        /\ \A i \in DOMAIN pfds : revents'[i] # {} => Cardinality(R) > 0
    <2> DEFINE A == {i \in DOMAIN pfds : IsSocket(i)}
               B == {i \in DOMAIN pfds : IsHandle(i)}
    <2>1. R \subseteq A \cup B
      BY <1>1
    <2>2. /\ IsFiniteSet(A) /\ IsFiniteSet(B)
          /\ Cardinality(A) \in Nat /\ Cardinality(A) <= FD_SETSIZE
          /\ Cardinality(B) \in Nat /\ Cardinality(B) <= FD_SETSIZE
      BY <1>0, Counts DEF num_sockets, num_handles
    <2> HIDE DEF A, B, R
    <2>3. /\ IsFiniteSet(A \cup B) /\ Cardinality(A \cup B) \in Nat
          /\ Cardinality(A \cup B) = Cardinality(A) + Cardinality(B) - Cardinality(A \cap B)
          /\ Cardinality(A \cap B) \in Nat
      <3>1. IsFiniteSet(A \cap B)
        BY <2>2, FS_Intersection
      <3>2. IsFiniteSet(A \cup B)
            /\ Cardinality(A \cup B) = Cardinality(A) + Cardinality(B) - Cardinality(A \cap B)
        BY <2>2, FS_Union
      <3> QED
        BY <3>1, <3>2, FS_CardinalityType
    <2>4. IsFiniteSet(R) /\ Cardinality(R) \in Nat /\ Cardinality(R) <= Cardinality(A \cup B)
      BY <2>1, <2>3, FS_Subset, FS_CardinalityType
    <2>5. Cardinality(R) <= IntMax
      BY <2>2, <2>3, <2>4, PollAssumption
    <2>6. ASSUME NEW i \in DOMAIN pfds, revents'[i] # {} PROVE Cardinality(R) > 0
      <3>1. i \in R
        BY <2>6 DEF R
      <3> QED
        BY <2>4, <3>1, FS_EmptySet
    <2> QED
      BY <2>4, <2>5, <2>6
  <1>4. TypeOK'
    <2>1. revents' \in Seq(SUBSET Revents)
      <3>1. \A i \in DOMAIN pfds : Fill(i) \in SUBSET Revents
        BY ReventsType
      <3> HIDE DEF Fill
      <3> QED
        BY <1>0, <3>1, Entries
    <2>2. console' \in Seq({"key", "other"})
      <3>1. console \in Seq({"key", "other"})
        BY DEF TypeOK
      <3>2. (\E i \in DOMAIN pfds : IsHandle(i) /\ Woken(i) /\ NotAKey(pfds[i].fd))
              => console # <<>>
        BY DEF NotAKey
      <3> QED
        BY <1>0, <3>1, <3>2 DEF Flush
    <2>3. ret' \in -1 .. IntMax
      BY <1>0, <1>3, PollAssumption
    <2> QED
      BY <1>0, <2>1, <2>2, <2>3 DEF TypeOK
  <1>5. ArgsInv' /\ SetsInv' /\ WaitInv' /\ TimeInv'
    BY <1>0 DEF ArgsInv, SetsInv, WaitInv, TimeInv, Accepted
  <1>6. rfds \cup wfds \cup efds # {} => ret' > 0
    <2> SUFFICES ASSUME NEW s \in rfds \cup wfds \cup efds
                 PROVE  \E i \in DOMAIN pfds : revents'[i] # {}
      BY <1>0, <1>3
    <2>1. PICK i \in DOMAIN pfds :
            /\ IsSocket(i) /\ pfds[i].fd = s
            /\ \/ Wants(i, {"IN", "RDBAND"}) /\ s \in rfds
               \/ Wants(i, {"OUT", "WRBAND"}) /\ s \in wfds
               \/ s \in efds
      BY <1>0 DEF SetsInv, rfds_in, wfds_in, efds_in, SocketFds
    <2>2. revents'[i] = compute_select_revents(i)
      BY <1>2, <2>1
    <2> QED
      BY <2>1, <2>2, ReadyReported
  <1>7. WaitsExactly'
    <2>1. timeout >= 0 => elapsed <= timeout
      BY <1>0 DEF TimeInv
    <2>2. timeout >= 0 /\ ret' = 0 /\ ~HandleSignaled => elapsed = timeout
      BY <1>0, <1>6 DEF TimeInv, AllEmpty
    <2> QED
      BY <1>0, <1>4, <2>1, <2>2 DEF WaitsExactly, HandleSignaled
  <1>8. ASSUME NEW i \in DOMAIN pfds, IsHandle(i)
        PROVE  "IN" \in revents'[i] <=> Woken(i) /\ ~NotAKey(pfds[i].fd)
    BY <1>0, <1>2, <1>8, SameHandle DEF compute_wait_revents
  <1>9. ASSUME NEW i \in DOMAIN pfds, IsHandle(i), "IN" \in revents'[i]
        PROVE  Signaled(pfds[i].fd)'
    <2>1. Woken(i) /\ ~NotAKey(pfds[i].fd)
      BY <1>8, <1>9
    <2>2. Signaled(pfds[i].fd)
      BY <1>0, <1>9, <2>1, SameHandle DEF WaitInv, Woken
    <2>3. CASE pfds[i].fd # Console
      BY <1>0, <2>2, <2>3 DEF Signaled
    <2>4. CASE pfds[i].fd = Console
      <3>1. ASSUME NEW j \in DOMAIN pfds, IsHandle(j), Woken(j)
            PROVE  pfds[j].fd = pfds[i].fd
        BY <1>0, <1>9, <2>1, <3>1, SameHandle DEF Woken
      <3>2. console' = console
        BY <1>0, <2>1, <3>1 DEF Flush
      <3> QED
        BY <1>0, <2>2, <2>4, <3>2 DEF Signaled
    <2> QED
      BY <2>3, <2>4
  <1>10. ASSUME NEW i \in DOMAIN pfds, IsSocket(i), ~failed
         PROVE  /\ "IN" \in revents'[i] => "readable" \in cond[pfds[i].fd]
                /\ "OUT" \in revents'[i] => "writable" \in cond[pfds[i].fd]
    <2>1. /\ "IN" \in revents'[i] => pfds[i].fd \in rfds /\ ~conn_is_closed(pfds[i].fd)
          /\ "OUT" \in revents'[i] => pfds[i].fd \in wfds
      BY <1>2, <1>10 DEF compute_select_revents
    <2> QED
      BY <1>0, <1>10, <2>1 DEF SetsInv, conn_is_closed
  <1>11. AnswersTrue'
    <2>1. /\ DOMAIN revents' = DOMAIN pfds /\ pfds' = pfds /\ cond' = cond /\ failed' = failed
          /\ wait_rc' = wait_rc /\ ret' >= 0
      BY <1>0, <1>3
    <2>2. ASSUME NEW i \in DOMAIN revents'
          PROVE  /\ IsHandle(i)' /\ "IN" \in revents'[i] => Signaled(pfds[i].fd)'
                 /\ IsSocket(i)' /\ ~failed' =>
                      /\ "IN" \in revents'[i] => "readable" \in cond'[pfds'[i].fd]
                      /\ "OUT" \in revents'[i] => "writable" \in cond'[pfds'[i].fd]
      BY <1>9, <1>10, <2>1, <2>2 DEF IsHandle, IsSocket
    <2>3. ASSUME NEW i \in DOMAIN pfds', IsHandle(i)', Woken(i)', pfds'[i].fd # Console
          PROVE  "IN" \in revents'[i]
      <3>1. IsHandle(i) /\ Woken(i) /\ i \in DOMAIN pfds /\ ~NotAKey(pfds[i].fd)
        BY <2>1, <2>3 DEF IsHandle, Woken, HandleSignaled, HandleIndex, Wants, NotAKey
      <3> QED
        BY <1>8, <3>1
    <2>4. (rfds \cup wfds \cup efds)' # {} => ret' > 0
      BY <1>0, <1>6
    <2>5. ret' # -1
      BY <1>0, <1>3
    <2> QED
      BY <2>1, <2>2, <2>3, <2>4, <2>5 DEF AnswersTrue, Signaled
  <1> QED
    BY <1>4, <1>5, <1>7, <1>11

\* The caller polls again.
LEMMA AgainIInv ==
  ASSUME IInv, Again
  PROVE  IInv'
  <1> USE PollAssumption DEF IInv, Again, args, sets, kernel
  <1>1. TypeOK'
    <2>1. revents' \in Seq(SUBSET Revents) /\ elapsed' \in Nat /\ lag' \in Nat /\ left' \in Int
      OBVIOUS
    <2>2. ret' \in -1 .. IntMax /\ errno' \in Errno /\ wait_rc' \in WAIT_FAILED .. IntMax
      BY DEF Errno, WAIT_FAILED
    <2> QED
      BY <2>1, <2>2 DEF TypeOK
  <1>2. ArgsInv' /\ SetsInv' /\ WaitInv' /\ TimeInv'
    BY DEF ArgsInv, SetsInv, WaitInv, TimeInv, Accepted, HandleSignaled, WAIT_FAILED
  <1>3. WaitsExactly' /\ AnswersTrue'
    BY <1>1 DEF WaitsExactly, AnswersTrue
  <1> QED
    BY <1>1, <1>2, <1>3

\* What the kernel does makes nothing that was found untrue.
LEMMA KernelEventIInv ==
  ASSUME IInv, KernelEvent
  PROVE  IInv'
  <1> USE PollAssumption DEF IInv
  <1>0. /\ events' \in 0 .. EnvMax
        /\ UNCHANGED <<pfds, timeout, pc, ret, errno, revents, rfds, wfds, efds, wait_rc, spent,
                       looptime, left, elapsed, lag, failed>>
    BY DEF KernelEvent, TypeOK, args, sets, ghosts
  <1>1. /\ cond' \in [Fds -> SUBSET Conditions] /\ console' \in Seq({"key", "other"})
        /\ \A f \in Fds : cond[f] \subseteq cond'[f]
        /\ console # <<>> => console' # <<>>
    <2>1. ASSUME NEW f \in Fds, NEW c \in Conditions, cond' = [cond EXCEPT ![f] = @ \cup {c}],
                 console' = console
          PROVE  /\ cond' \in [Fds -> SUBSET Conditions]
                 /\ \A g \in Fds : cond[g] \subseteq cond'[g]
                 /\ console' \in Seq({"key", "other"})
      BY <2>1 DEF TypeOK
    <2>2. ASSUME NEW r \in {"key", "other"}, console' = Append(console, r), cond' = cond
          PROVE  /\ console' \in Seq({"key", "other"}) /\ console' # <<>>
                 /\ cond' \in [Fds -> SUBSET Conditions]
      BY <2>2 DEF TypeOK
    <2> QED
      BY <2>1, <2>2 DEF KernelEvent
  <1>2. \A f \in Fds : Signaled(f) => Signaled(f)'
    BY <1>1 DEF Signaled
  <1>3. TypeOK'
    BY <1>0, <1>1 DEF TypeOK
  <1>4. ArgsInv'
    BY <1>0, ArrayFrame DEF ArgsInv, Accepted
  <1>5. SetsInv'
    <2>1. rfds \subseteq Fds /\ wfds \subseteq Fds
      BY DEF TypeOK, Fds
    <2> QED
      BY <1>0, <1>1, <2>1, ArrayFrame DEF SetsInv
  <1>6. WaitInv'
    <2> SUFFICES ASSUME pc \in {"select", "answer"}, HandleSignaled, NEW i \in DOMAIN pfds,
                        IsHandle(i), wait_rc = HandleIndex(i)
                 PROVE  Signaled(pfds[i].fd)'
      BY <1>0 DEF WaitInv, HandleSignaled, IsHandle, HandleIndex, Signaled
    <2>1. Signaled(pfds[i].fd) /\ pfds[i].fd \in Fds
      BY DEF WaitInv, IsHandle, Fds
    <2> QED
      BY <1>0, <1>1, <2>1 DEF Signaled
  <1>7. TimeInv'
    BY <1>0 DEF TimeInv, HandleSignaled, AllEmpty
  <1>8. WaitsExactly'
    BY <1>0, <1>3 DEF WaitsExactly, HandleSignaled
  <1>9. AnswersTrue'
    <2> SUFFICES ASSUME pc = "returned" PROVE AnswersTrue'
      BY <1>0 DEF AnswersTrue
    <2>1. ASSUME NEW i \in DOMAIN revents
          PROVE  /\ i \in DOMAIN pfds /\ pfds[i].fd \in Fds
                 /\ IsHandle(i) /\ "IN" \in revents[i] => Signaled(pfds[i].fd)'
                 /\ IsSocket(i) /\ ~failed =>
                      /\ "IN" \in revents[i] => "readable" \in cond'[pfds[i].fd]
                      /\ "OUT" \in revents[i] => "writable" \in cond'[pfds[i].fd]
      <3>1. i \in DOMAIN pfds /\ pfds[i].fd \in Fds
        BY <2>1, Entries DEF ArgsInv, TypeOK, Pollfd
      <3>2. /\ IsHandle(i) /\ "IN" \in revents[i] => Signaled(pfds[i].fd)
            /\ IsSocket(i) /\ ~failed =>
                      /\ "IN" \in revents[i] => "readable" \in cond[pfds[i].fd]
                      /\ "OUT" \in revents[i] => "writable" \in cond[pfds[i].fd]
        BY <2>1 DEF AnswersTrue
      <3> QED
        BY <1>0, <1>1, <3>1, <3>2 DEF Signaled
    <2>2. /\ \A i : IsHandle(i)' <=> IsHandle(i)
          /\ \A i : IsSocket(i)' <=> IsSocket(i)
          /\ \A i : Woken(i)' <=> Woken(i)
          /\ HandleSignaled' <=> HandleSignaled
      BY <1>0 DEF IsHandle, IsSocket, Woken, HandleSignaled, HandleIndex, Wants
    <2> QED
      BY <1>0, <2>1, <2>2, ArrayFrame DEF AnswersTrue, Signaled
  <1> QED
    BY <1>3, <1>4, <1>5, <1>6, <1>7, <1>8, <1>9

\* Every step preserves the invariant.
LEMMA NextIInv == IInv /\ [Next]_vars => IInv'
  <1> SUFFICES ASSUME IInv, [Next]_vars PROVE IInv'
    OBVIOUS
  <1>1. CASE UNCHANGED vars
    <2>1. TypeOK' /\ ArgsInv' /\ SetsInv' /\ WaitInv' /\ TimeInv'
      BY <1>1, ArrayFrame
      DEF vars, IInv, TypeOK, ArgsInv, SetsInv, WaitInv, TimeInv, Accepted, HandleSignaled,
          Signaled, IsHandle, HandleIndex, AllEmpty
    <2>2. WaitsExactly'
      BY <1>1, <2>1 DEF vars, IInv, WaitsExactly, HandleSignaled
    <2>3. AnswersTrue'
      BY <1>1, ArrayFrame
      DEF vars, IInv, AnswersTrue, IsHandle, IsSocket, Woken, HandleSignaled, HandleIndex, Wants,
          Signaled
    <2> QED
      BY <2>1, <2>2, <2>3 DEF IInv
  <1> QED
    BY <1>1, PollIInv, PassIInv, TickIInv, SelectReturnsIInv, AnswerIInv, SelectFailsIInv,
       AgainIInv, KernelEventIInv DEF Next, Call

(***************************************************************************)
(* The inductive invariant holds in every state that poll can be in.       *)
(***************************************************************************)
THEOREM Invariant == Spec => []IInv
  BY InitIInv, NextIInv, PTL DEF Spec

(***************************************************************************)
(* poll waits as long as it was asked to and not longer, for every timeout *)
(* and every length of a pass, and no signaled handle waits for more than  *)
(* a pass.                                                                 *)
(***************************************************************************)
THEOREM Waits == Spec => []WaitsExactly
  <1>1. IInv => WaitsExactly
    BY DEF IInv
  <1> QED
    BY <1>1, Invariant, PTL

(***************************************************************************)
(* What poll reports of sockets and handles is so, for every array of      *)
(* descriptors, and EINVAL means bad arguments.                            *)
(***************************************************************************)
THEOREM Answers == Spec => []AnswersTrue
  <1>1. IInv => AnswersTrue
    BY DEF IInv
  <1> QED
    BY <1>1, Invariant, PTL

=============================================================================
