----------------------------- MODULE WinSocket -----------------------------
(***************************************************************************)
(* crypto/compat/posix_win.c: connect(), read(), write(), getsockopt() and *)
(* close() of a non-blocking socket on Windows.                            *)
(*                                                                         *)
(* Winsock reports its errors in its own numbering; wsa_errno() translates *)
(* them and the caller decides by errno whether to wait, to try again or   *)
(* to give up.  Lengths are size_t here and int in Winsock.  The caller    *)
(* (external: nc, openssl s_client, libtls) does what POSIX programs do:   *)
(* it connects, waits, asks for SO_ERROR, sends a request, reads the       *)
(* answer to its end and closes.                                           *)
(***************************************************************************)
EXTENDS Integers

CONSTANTS INT_MAX,    \* the largest int; a size_t goes beyond it
          Request,    \* bytes the caller sends
          Answer,     \* bytes the peer sends back
          Buffer,     \* room in the kernel's send buffer
          Causes      \* Winsock errors that may end a connection

\* What is assumed of the constants.
SocketAssumption ==
  /\ INT_MAX \in Nat \ {0} /\ Request \in Nat \ {0} /\ Answer \in Nat /\ Buffer \in Nat \ {0}
  /\ Causes \cap {"WSAEWOULDBLOCK", "WSAEINPROGRESS", "WSAEINTR", "none"} = {}

VARIABLES net,    \* the socket: new, connecting, up, down, closed
          cause,  \* of the error that it has to report
          room,   \* what the send buffer takes
          left,   \* bytes of the answer the peer has still to send
          avail,  \* bytes that have arrived and nobody has read
          errno,
          view,   \* the caller's: start, pending, sending, reading, ended, failed, closed
          sent, received  \* what the results of write() and read() add up to

kernel == <<net, cause, room, left, avail>>
caller == <<errno, view, sent, received>>
vars == <<net, cause, room, left, avail, errno, view, sent, received>>

TypeOK ==
  /\ net \in {"new", "connecting", "up", "down", "closed"} /\ cause \in Causes \cup {"none"}
  /\ room \in 0 .. Buffer /\ left \in 0 .. Answer
  /\ avail \in 0 .. Answer /\ sent \in 0 .. Request /\ received \in 0 .. Answer
  /\ view \in {"start", "pending", "sending", "reading", "ended", "failed", "closed"}

Init ==
  /\ net = "new" /\ cause = "none" /\ room = Buffer /\ left = Answer /\ avail = 0
  /\ errno = "none" /\ view = "start" /\ sent = 0 /\ received = 0

-----------------------------------------------------------------------------
\* A mutation: an error that is not in the table leaves errno as it was.
WsaErrnoNoDefault(err) ==
  CASE err = "WSAEWOULDBLOCK" -> "EAGAIN"
    [] err = "WSAEINTR" -> "EINTR"
    [] err = "WSAECONNREFUSED" -> "ECONNREFUSED"
    [] err \in {"WSAECONNRESET", "WSAETIMEDOUT"} -> "EPIPE"
    [] OTHER -> errno

wsa_errno(err) ==
  CASE err = "WSAENOBUFS" -> "ENOMEM"
    [] err = "WSAEACCES" -> "EACCES"
    [] err = "WSANOTINITIALISED" -> "EPERM"
    [] err \in {"WSAEHOSTUNREACH", "WSAENETDOWN"} -> "EIO"
    [] err = "WSAEFAULT" -> "EFAULT"
    [] err = "WSAEINTR" -> "EINTR"
    [] err = "WSAEINVAL" -> "EINVAL"
    [] err = "WSAEINPROGRESS" -> "EINPROGRESS"
    [] err = "WSAEWOULDBLOCK" -> "EAGAIN"
    [] err = "WSAEOPNOTSUPP" -> "ENOTSUP"
    [] err = "WSAEMSGSIZE" -> "EFBIG"
    [] err = "WSAENOTSOCK" -> "ENOTSOCK"
    [] err = "WSAENOPROTOOPT" -> "ENOPROTOOPT"
    [] err = "WSAECONNREFUSED" -> "ECONNREFUSED"
    [] err = "WSAEAFNOSUPPORT" -> "EAFNOSUPPORT"
    [] err = "WSAEBADF" -> "EBADF"
    [] err \in {"WSAENETRESET", "WSAENOTCONN", "WSAECONNABORTED", "WSAECONNRESET",
                "WSAESHUTDOWN", "WSAETIMEDOUT"} -> "EPIPE"
    [] OTHER -> "EIO"

\* A mutation: the general table.
ConnectErrnoPlain(err) == wsa_errno(err)

\* A connection in progress is WSAEWOULDBLOCK here and EINPROGRESS for the caller.
ConnectErrno(err) == IF err = "WSAEWOULDBLOCK" THEN "EINPROGRESS" ELSE wsa_errno(err)

\* if (count > INT_MAX) count = INT_MAX;
Clamp(count) == IF count > INT_MAX THEN INT_MAX ELSE count

\* The conversion of a size_t to Winsock's int.
AsInt(count) ==
  LET low == count % (2 * (INT_MAX + 1))
  IN  IF low > INT_MAX THEN low - 2 * (INT_MAX + 1) ELSE low

-----------------------------------------------------------------------------
posix_connect ==
  /\ view = "start"
  /\ \/ net' = "up" /\ view' = "sending" /\ UNCHANGED <<cause, errno>>
     \/ /\ net' = "connecting" /\ errno' = ConnectErrno("WSAEWOULDBLOCK")
        /\ view' = IF errno' = "EINPROGRESS" THEN "pending" ELSE "failed"
        /\ UNCHANGED cause
     \/ \E c \in Causes :
          /\ net' = "down" /\ cause' = c /\ errno' = ConnectErrno(c)
          /\ view' = IF errno' = "EINPROGRESS" THEN "pending" ELSE "failed"
  /\ UNCHANGED <<room, left, avail, sent, received>>

\* poll() has reported the socket; SO_ERROR tells how the connection went.
posix_getsockopt ==
  /\ view = "pending" /\ net \in {"up", "down"}
  /\ \/ view' = (IF net = "up" THEN "sending" ELSE "failed") /\ UNCHANGED errno
     \/ net = "down" /\ errno' = wsa_errno(cause) /\ view' = "failed"
  /\ UNCHANGED <<kernel, sent, received>>

\* What the caller makes of -1: wait and call again, or give up.
Judge(err) ==
  /\ errno' = wsa_errno(err)
  /\ view' = IF errno' \in {"EAGAIN", "EINTR"} THEN view ELSE "failed"

\* How much of n bytes is moved when the kernel can move that many: some, and nothing only if
\* nothing was asked for.
Amounts(n, possible) == IF n = 0 THEN {0} ELSE {k \in 1 .. n : k <= possible}

\* What Winsock has to say instead of a transfer.
Refusal(n, nothing) ==
  IF n < 0 THEN {"WSAEFAULT"}
  ELSE IF net = "down" THEN {cause}
  ELSE {"WSAEINTR"} \cup (IF nothing THEN {"WSAEWOULDBLOCK"} ELSE {})

posix_write ==
  LET n == AsInt(Clamp(Request - sent)) IN
    /\ view = "sending"
    /\ \/ /\ net = "up" /\ n >= 0
          /\ \E k \in Amounts(n, room) : room' = room - k /\ sent' = sent + k
          /\ view' = IF sent' = Request THEN "reading" ELSE view
          /\ UNCHANGED errno
       \/ \E err \in Refusal(n, room = 0) : Judge(err) /\ UNCHANGED <<room, sent>>
    /\ UNCHANGED <<net, cause, left, avail, received>>

\* The caller's buffer is larger than an int can say; it reads until the result is 0.
posix_read ==
  LET n == AsInt(Clamp(2 * (INT_MAX + 1))) IN
    /\ view = "reading"
    /\ \/ /\ net = "up" /\ n >= 0
          /\ \E k \in Amounts(n, avail) \cup (IF avail + left = 0 THEN {0} ELSE {}) :
               /\ avail' = avail - k /\ received' = received + k
               /\ view' = IF k = 0 THEN "ended" ELSE view
          /\ UNCHANGED errno
       \/ /\ \E err \in Refusal(n, avail = 0 /\ left > 0) : Judge(err)
          /\ UNCHANGED <<avail, received>>
    /\ UNCHANGED <<net, cause, room, left, sent>>

\* closesocket() ends the connection even when it reports an error.
posix_close ==
  /\ view \in {"ended", "failed"} /\ view' = "closed" /\ net' = "closed"
  /\ errno' \in {errno} \cup {wsa_errno(c) : c \in Causes}
  /\ UNCHANGED <<cause, room, left, avail, sent, received>>

-----------------------------------------------------------------------------
\* The network: a connection is made or refused, data flows, the peer goes away.
Completes ==
  /\ net = "connecting"
  /\ \/ net' = "up" /\ UNCHANGED cause
     \/ net' = "down" /\ \E c \in Causes : cause' = c
  /\ UNCHANGED <<room, left, avail, caller>>

Drains == /\ net = "up" /\ room < Buffer /\ room' = Buffer
          /\ UNCHANGED <<net, cause, left, avail, caller>>

Answers == /\ net = "up" /\ left > 0 /\ sent = Request
           /\ \E k \in 1 .. left : left' = left - k /\ avail' = avail + k
           /\ UNCHANGED <<net, cause, room, caller>>

Breaks == /\ net = "up" /\ net' = "down" /\ \E c \in Causes : cause' = c
          /\ UNCHANGED <<room, left, avail, caller>>

Call == posix_connect \/ posix_getsockopt \/ posix_write \/ posix_read \/ posix_close

\* The socket is closed and the caller has gone on.
Finished == view = "closed" /\ UNCHANGED vars

Next == Call \/ Completes \/ Drains \/ Answers \/ Breaks \/ Finished

\* The caller goes on calling, the network delivers or breaks, and Winsock does not interrupt
\* for ever a transfer that is possible.
Fairness ==
  /\ WF_vars(Call) /\ WF_vars(Completes) /\ WF_vars(Drains) /\ WF_vars(Answers)
  /\ SF_vars(posix_write /\ sent' > sent)
  /\ SF_vars(posix_read /\ (received' > received \/ view' = "ended"))

Spec == Init /\ [][Next]_vars /\ Fairness

-----------------------------------------------------------------------------
(***************************************************************************)
(* The caller's view of the connection is the kernel's: it gives up only a *)
(* connection that is broken, never one in progress or in use, it sends    *)
(* only when one was made, and it takes for the end of the answer only the *)
(* end, also when it asks for more than an int can say.                    *)
(***************************************************************************)
ViewTrue ==
  /\ TypeOK
  /\ view = "failed" => net = "down"
  /\ view \in {"sending", "reading"} => net \in {"up", "down"}
  /\ view = "ended" => received = Answer

(***************************************************************************)
(* Every connection comes to an end: no error, in the table or not, leaves *)
(* the caller trying again for ever on a socket that is broken.            *)
(***************************************************************************)
ConnectionEnds == <>(view = "closed")

=============================================================================
