-------------------------------- MODULE Poll --------------------------------
(***************************************************************************)
(* apps/openssl/compat/poll_win.c: poll() on Windows.                      *)
(*                                                                         *)
(* Sockets are watched by select(), other handles by                       *)
(* WaitForMultipleObjects(); poll alternates between the two in passes of  *)
(* at most LoopCap time units.  The kernel changes the state of sockets,   *)
(* handles and the console between any two steps.  Time passes only inside *)
(* select().  After a call returns the caller may poll the same            *)
(* descriptors again.                                                      *)
(***************************************************************************)
EXTENDS Integers, Sequences, FiniteSets

CONSTANTS Sockets,       \* descriptors for which is_socket() holds
          Handles,       \* other open descriptors
          Console,       \* the one of Handles that is stdin and a console
          Closed,        \* non-negative numbers that are no open descriptor
          Skipped,       \* negative descriptors
          PollSets,      \* the arrays of struct pollfd that callers pass
          Timeouts,      \* the timeouts that callers pass
          FD_SETSIZE,
          LoopCap,       \* the 100 ms of a pass, in model time units
          IntMax,        \* largest int, for timespent_ms
          SelectErrors,  \* what select() may fail with by itself
          EnvMax,        \* bound: kernel events in a behaviour
          NULL

Fds == Sockets \cup Handles \cup Closed \cup Skipped
EventBits == {"IN", "RDBAND", "OUT", "WRBAND"}  \* IN, OUT with their NORM twins
Pollfd == [fd : Fds, events : SUBSET EventBits]
Revents == {"IN", "OUT", "HUP", "RDBAND", "PRI", "ERR"}
Conditions == {"readable", "writable", "oob", "failed", "reset", "signaled"}
WSAErrors == {"WSAEINTR", "WSAEINPROGRESS", "WSAEFAULT", "WSAEINVAL",
              "WSANOTINITIALISED", "WSAENETDOWN", "WSAENOTSOCK"}
Errno == {"none", "EINVAL", "ENOMEM", "EINTR", "EFAULT", "EPERM", "EIO"}

ASSUME PollAssumption ==
  /\ Console \in Handles /\ NULL \notin PollSets /\ NULL \notin Fds
  /\ Sockets \cap (Handles \cup Closed) = {}
  /\ PollSets \subseteq Seq(Pollfd)
  /\ FD_SETSIZE \in Nat /\ LoopCap \in Nat \ {0} /\ IntMax \in Nat /\ EnvMax \in Nat
  /\ Timeouts \subseteq -IntMax .. IntMax
  /\ 2 * FD_SETSIZE <= IntMax  \* what poll returns is an int
  /\ SelectErrors \subseteq WSAErrors \ {"WSAEINVAL"}

VARIABLES pfds, timeout,                  \* the arguments
          pc, ret, errno, revents,        \* where the call is, its results
          rfds, wfds, efds,               \* the sets handed to select()
          wait_rc, spent, looptime,       \* locals of the loop
          left,                           \* time left of the current select()
          cond, console, events,          \* kernel: conditions, input records, count
          elapsed, lag, failed            \* ghosts: time in this call, time a handle waits,
                                          \* whether select() has failed

args == <<pfds, timeout>>
sets == <<rfds, wfds, efds>>
kernel == <<cond, console, events>>
ghosts == <<elapsed, lag, failed>>
vars == <<pfds, timeout, pc, ret, errno, revents, rfds, wfds, efds, wait_rc, spent,
          looptime, left, cond, console, events, elapsed, lag, failed>>

-----------------------------------------------------------------------------
IsSocket(i) == pfds[i].fd \in Sockets
IsHandle(i) == pfds[i].fd \in Handles \cup Closed
Wants(i, bits) == pfds[i].events \cap bits # {}

SocketFds(bits) == {pfds[i].fd : i \in {j \in DOMAIN pfds : IsSocket(j) /\ Wants(j, bits)}}
rfds_in == SocketFds({"IN", "RDBAND"})
wfds_in == SocketFds({"OUT", "WRBAND"})
efds_in == {pfds[i].fd : i \in {j \in DOMAIN pfds : IsSocket(j)}}

num_sockets == Cardinality({i \in DOMAIN pfds : IsSocket(i)})
num_handles == Cardinality({i \in DOMAIN pfds : IsHandle(i)})

\* The entry whose handle the first pass puts at handles[k], counting from 1.
HandleEntry(k) ==
  CHOOSE i \in DOMAIN pfds : IsHandle(i) /\ Cardinality({j \in 1 .. i : IsHandle(j)}) = k

handles == [k \in 1 .. num_handles |-> pfds[HandleEntry(k)].fd]

\* A mutation: the second pass also counts the descriptors it skips.
HandleIndexAll(i) == i

\* The index in handles[] at which the second pass looks for the entry.
HandleIndex(i) == Cardinality({j \in 1 .. i : IsHandle(j)})

Signaled(h) == IF h = Console THEN console # <<>> ELSE "signaled" \in cond[h]

\* The two codes that are no index; handles[] counts from 1 here.
WAIT_FAILED == -1
WAIT_TIMEOUT == 0

\* WaitForMultipleObjects(num_handles, handles, FALSE, 0): the lowest index
WaitForMultipleObjects ==
  IF \E k \in DOMAIN handles : handles[k] \in Closed THEN WAIT_FAILED
  ELSE IF \E k \in DOMAIN handles : Signaled(handles[k])
       THEN CHOOSE k \in DOMAIN handles :
              /\ Signaled(handles[k])
              /\ \A j \in 1 .. k - 1 : ~Signaled(handles[j])
       ELSE WAIT_TIMEOUT

HandleSignaled == wait_rc > 0

\* What select() leaves in each set.
ReadReady == {s \in rfds : cond[s] \cap {"readable", "reset"} # {}}
WriteReady == {s \in wfds : "writable" \in cond[s]}
ExceptReady == {s \in efds : cond[s] \cap {"oob", "failed"} # {}}
AnyReady == ReadReady \cup WriteReady \cup ExceptReady # {}
AllEmpty == rfds \cup wfds \cup efds = {}

\* recv(MSG_PEEK) fails with one of the errors of a dead connection.
conn_is_closed(s) == "reset" \in cond[s]
conn_has_oob_data(s) == "oob" \in cond[s]

compute_select_revents(i) ==
  LET s == pfds[i].fd IN
    (IF Wants(i, {"IN", "RDBAND"}) /\ s \in rfds
     THEN IF conn_is_closed(s) THEN {"HUP"} ELSE {"IN"} ELSE {})
    \cup (IF Wants(i, {"OUT", "WRBAND"}) /\ s \in wfds THEN {"OUT"} ELSE {})
    \cup (IF s \notin efds THEN {}
          ELSE IF conn_is_closed(s) THEN {"HUP"}
          ELSE IF conn_has_oob_data(s) THEN {"RDBAND", "PRI"} ELSE {"ERR"})

\* The entry's handle ended the wait and input was asked for.
Woken(i) == HandleSignaled /\ wait_rc = HandleIndex(i) /\ Wants(i, {"IN"})
NotAKey(h) == h = Console /\ console # <<>> /\ Head(console) # "key"

compute_wait_revents(i) ==
  (IF Wants(i, {"OUT"}) THEN {"OUT"} ELSE {})
  \cup (IF Woken(i) /\ ~NotAKey(handles[HandleIndex(i)]) THEN {"IN"} ELSE {})

wsa_select_errno(err) ==
  CASE err \in {"WSAEINTR", "WSAEINPROGRESS"} -> "EINTR"
    [] err = "WSAEFAULT" -> "EFAULT"
    [] err = "WSAEINVAL" -> "EINVAL"
    [] err = "WSANOTINITIALISED" -> "EPERM"
    [] err = "WSAENETDOWN" -> "ENOMEM"
    [] OTHER -> "EIO"

\* timespent_ms is an int and is incremented without end when the timeout is
\* infinite: it wraps (undefined behaviour in C; this is what compilers do).
WrapInt(x) == ((x + IntMax + 1) % (2 * (IntMax + 1))) - (IntMax + 1)

-----------------------------------------------------------------------------
TypeOK ==
  /\ pfds \in PollSets \cup {NULL} /\ timeout \in Timeouts
  /\ pc \in {"idle", "loop", "select", "answer", "returned"}
  /\ ret \in -1 .. IntMax /\ errno \in Errno
  /\ revents \in Seq(SUBSET Revents)
  /\ rfds \subseteq Sockets /\ wfds \subseteq Sockets /\ efds \subseteq Sockets
  /\ wait_rc \in WAIT_FAILED .. IntMax
  /\ spent \in -IntMax - 1 .. IntMax /\ looptime \in -IntMax .. LoopCap /\ left \in Int
  /\ cond \in [Fds -> SUBSET Conditions] /\ console \in Seq({"key", "other"})
  /\ events \in 0 .. EnvMax /\ elapsed \in Nat /\ lag \in Nat /\ failed \in BOOLEAN

Init ==
  /\ pfds \in PollSets \cup {NULL} /\ timeout \in Timeouts
  /\ pc = "idle" /\ ret = 0 /\ errno = "none" /\ revents = <<>>
  /\ rfds = {} /\ wfds = {} /\ efds = {}
  /\ wait_rc = WAIT_FAILED /\ spent = 0 /\ looptime = 0 /\ left = 0
  /\ cond = [f \in Fds |-> {}] /\ console = <<>> /\ events = 0
  /\ elapsed = 0 /\ lag = 0 /\ failed = FALSE

Returns(r, e) == pc' = "returned" /\ ret' = r /\ errno' = e

FirstLooptime == IF timeout > LoopCap \/ timeout = -1 THEN LoopCap ELSE timeout

\* Entry up to the loop: the argument tests and the first pass over pfds.
poll ==
  /\ pc = "idle"
  /\ \/ pfds = NULL /\ Returns(-1, "EINVAL")
        /\ UNCHANGED <<sets, spent, looptime, wait_rc>>
     \/ pfds = <<>> /\ Returns(0, errno)
        /\ UNCHANGED <<sets, spent, looptime, wait_rc>>
     \/ /\ pfds \notin {NULL, <<>>}
        /\ num_sockets > FD_SETSIZE \/ num_handles > FD_SETSIZE
        /\ Returns(-1, "EINVAL")
        /\ UNCHANGED <<sets, spent, looptime, wait_rc>>
     \/ /\ pfds \notin {NULL, <<>>}
        /\ num_sockets <= FD_SETSIZE /\ num_handles <= FD_SETSIZE
        /\ pc' = "loop"
        /\ rfds' = rfds_in /\ wfds' = wfds_in /\ efds' = efds_in
        /\ spent' = 0 /\ wait_rc' = WAIT_FAILED
        /\ looptime' = FirstLooptime
        /\ UNCHANGED <<ret, errno>>
  /\ UNCHANGED <<args, revents, left, kernel, ghosts>>

\* A mutation: the wait is not capped at the time remaining.
CapUncapped == looptime

\* The looptime of this pass.
CappedLooptime ==
  IF timeout # -1 /\ timeout - spent < looptime THEN timeout - spent ELSE looptime

RestoreSets == rfds' = rfds_in /\ wfds' = wfds_in /\ efds' = efds_in

\* The head of the loop: restore the sets, look at the handles.
Pass ==
  /\ pc = "loop"
  /\ RestoreSets
  /\ looptime' = CappedLooptime
  /\ wait_rc' = IF num_handles > 0 THEN WaitForMultipleObjects ELSE wait_rc
  /\ \/ /\ num_handles > 0 /\ wait_rc' = WAIT_FAILED
        /\ Returns(-1, "ENOMEM")
        /\ UNCHANGED <<left, lag>>
     \/ /\ num_handles = 0 \/ wait_rc' # WAIT_FAILED
        /\ left' = IF HandleSignaled' THEN 0 ELSE looptime'
        /\ lag' = 0 /\ pc' = "select"
        /\ UNCHANGED <<ret, errno>>
  /\ UNCHANGED <<args, revents, spent, kernel, elapsed, failed>>

\* Time passes in select() while nothing is ready.
Tick ==
  /\ pc = "select" /\ ~AllEmpty /\ left > 0 /\ ~AnyReady
  /\ left' = left - 1
  /\ elapsed' = IF timeout = -1 THEN elapsed ELSE elapsed + 1
  /\ lag' = IF \E h \in Handles : Signaled(h) /\ \E i \in DOMAIN pfds : pfds[i].fd = h
            THEN lag + 1 ELSE lag
  /\ UNCHANGED <<args, pc, ret, errno, revents, sets, wait_rc, spent, looptime, kernel, failed>>

\* A mutation: one more pass when the time is up.
KeepWaitingAtEnd(t) == timeout = -1 \/ t <= timeout

\* The condition of the do ... while loop.
KeepWaiting(t) == timeout = -1 \/ t < timeout

\* select() returns; the loop ends or goes round again.
SelectReturns ==
  /\ pc = "select" /\ ~AllEmpty /\ left >= 0 /\ (AnyReady \/ left = 0)
  /\ rfds' = ReadReady /\ wfds' = WriteReady /\ efds' = ExceptReady
  /\ \/ /\ HandleSignaled \/ AnyReady
        /\ pc' = "answer"
        /\ UNCHANGED spent
     \/ /\ ~HandleSignaled /\ ~AnyReady
        /\ spent' = WrapInt(spent + looptime)
        /\ pc' = IF KeepWaiting(spent') THEN "loop" ELSE "answer"
  /\ UNCHANGED <<args, ret, errno, revents, wait_rc, looptime, left, kernel, ghosts>>

\* select() fails and leaves the sets as they were.
SelectFails ==
  /\ pc = "select"
  /\ \E err \in IF AllEmpty \/ left < 0 THEN {"WSAEINVAL"} ELSE SelectErrors :
       \/ ~HandleSignaled /\ Returns(-1, wsa_select_errno(err))
       \/ HandleSignaled /\ pc' = "answer" /\ UNCHANGED <<ret, errno>>
  /\ failed' = TRUE
  /\ UNCHANGED <<args, revents, sets, wait_rc, spent, looptime, left, kernel, elapsed, lag>>

\* A mutation: a record that is no key press stays in the console's buffer.
FlushForgotten == UNCHANGED console

\* ReadConsoleInput() removes the record that was peeked at.
Flush == console' = IF \E i \in DOMAIN pfds : IsHandle(i) /\ Woken(i) /\ NotAKey(pfds[i].fd)
                    THEN Tail(console) ELSE console

\* The second pass over pfds.
Answer ==
  /\ pc = "answer"
  /\ revents' = [i \in DOMAIN pfds |->
                   CASE IsSocket(i) -> compute_select_revents(i)
                     [] IsHandle(i) -> compute_wait_revents(i)
                     [] OTHER -> {}]
  /\ Flush
  /\ Returns(Cardinality({i \in DOMAIN pfds : revents'[i] # {}}), errno)
  /\ UNCHANGED <<args, sets, wait_rc, spent, looptime, left, cond, events, ghosts>>

\* The caller polls again.
Again ==
  /\ pc = "returned"
  /\ pc' = "idle" /\ ret' = 0 /\ errno' = "none" /\ revents' = <<>>
  /\ wait_rc' = WAIT_FAILED /\ elapsed' = 0 /\ lag' = 0 /\ failed' = FALSE /\ left' = 0
  /\ UNCHANGED <<args, sets, spent, looptime, kernel>>

\* Something happens to a socket, a handle or the console.
KernelEvent ==
  /\ events < EnvMax
  /\ events' = events + 1
  /\ \/ /\ \E f \in Fds, c \in Conditions :
             /\ (f \in Sockets) = (c # "signaled")
             /\ f \in Sockets \cup (Handles \ {Console})
             /\ c \notin cond[f]
             /\ cond' = [cond EXCEPT ![f] = @ \cup {c}]
        /\ UNCHANGED console
     \/ \E r \in {"key", "other"} : console' = Append(console, r) /\ UNCHANGED cond
  /\ UNCHANGED <<args, pc, ret, errno, revents, sets, wait_rc, spent, looptime, left, ghosts>>

Call == poll \/ Pass \/ Tick \/ SelectReturns \/ Answer
Next == Call \/ SelectFails \/ Again \/ KernelEvent

Spec == Init /\ [][Next]_vars

\* The thread in poll keeps running, select() returns when its time is up, and
\* the application is a loop around poll.  WSAEINVAL is select()'s certain answer to empty
\* sets, its other failures need not happen.
Fairness == /\ WF_vars(Call) /\ WF_vars(Again)
            /\ WF_vars(SelectFails /\ (AllEmpty \/ left < 0))

FairSpec == Spec /\ Fairness

-----------------------------------------------------------------------------
(***************************************************************************)
(* poll never waits longer than the timeout, and when it returns 0         *)
(* although no handle was signaled it has waited all of it: the passes add *)
(* up to the timeout exactly, whatever it is modulo the length of a pass.  *)
(* Meanwhile no signaled handle waits for longer than one pass.            *)
(***************************************************************************)
WaitsExactly ==
  /\ TypeOK /\ lag <= LoopCap
  /\ pfds # NULL /\ timeout >= 0 =>
       /\ elapsed <= timeout
       /\ pc = "returned" /\ ret = 0 /\ pfds # <<>> /\ ~HandleSignaled => elapsed = timeout

(***************************************************************************)
(* What poll reports is so.  Input on a handle: that handle is signaled,   *)
(* because the second pass reads handles[] where the first put the entry's *)
(* handle, although both skip sockets and negative descriptors.  A handle  *)
(* found signaled is reported, also when select() failed after that: the   *)
(* failure is ignored, and the sockets, whose sets it left full, are       *)
(* reported as asked for; in every other call a socket reported readable   *)
(* or writable is.  When select() found a socket ready, some descriptor is *)
(* reported.  With a socket to watch, EINVAL means bad arguments: no pass  *)
(* hands select() the sets that an earlier one emptied.                    *)
(***************************************************************************)
AnswersTrue ==
  pc = "returned" =>
    /\ \A i \in DOMAIN revents :
         /\ IsHandle(i) /\ "IN" \in revents[i] => Signaled(pfds[i].fd)
         /\ IsSocket(i) /\ ~failed =>
              /\ "IN" \in revents[i] => "readable" \in cond[pfds[i].fd]
              /\ "OUT" \in revents[i] => "writable" \in cond[pfds[i].fd]
    /\ HandleSignaled =>
         /\ ret >= 0
         /\ \A i \in DOMAIN pfds : IsHandle(i) /\ Woken(i) /\ pfds[i].fd # Console =>
                                   "IN" \in revents[i]
    /\ rfds \cup wfds \cup efds # {} /\ revents # <<>> => ret > 0
    /\ ret = -1 /\ errno = "EINVAL" /\ pfds # NULL /\ num_sockets > 0 =>
         num_sockets > FD_SETSIZE \/ num_handles > FD_SETSIZE \/ timeout < -1

(***************************************************************************)
(* The comment on rfds_in: no pass hands select() three empty sets, so     *)
(* that poll waits out its timeout instead of failing with WSAEINVAL.      *)
(***************************************************************************)
NeverSelectsNothing == pc = "select" => ~AllEmpty

(***************************************************************************)
(* A call with a finite timeout returns.                                   *)
(***************************************************************************)
PollReturns == pc = "loop" /\ timeout # -1 ~> pc = "returned"

(***************************************************************************)
(* A caller that polls a console in a loop is told of a key press, however *)
(* many window and mouse records are queued before it.                     *)
(***************************************************************************)
KeyReported ==
  \A i \in 1 .. 3 :
    (/\ pfds # NULL /\ i \in DOMAIN pfds /\ pfds[i].fd = Console /\ Wants(i, {"IN"})
     /\ \A j \in DOMAIN pfds : j < i => ~IsHandle(j)
     /\ num_handles <= FD_SETSIZE /\ num_sockets <= FD_SETSIZE
     /\ \A j \in DOMAIN pfds : pfds[j].fd \notin Closed
     /\ \E k \in DOMAIN console : console[k] = "key")
    ~> (pc = "returned" /\ i \in DOMAIN revents /\ "IN" \in revents[i])

=============================================================================
