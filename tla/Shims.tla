------------------------------- MODULE Shims -------------------------------
(***************************************************************************)
(* The small parts of the portability layer, side by side: positioned      *)
(* transfers (FileOffset, which this module extends), reference counts     *)
(* (AddLock), the alarm of "openssl speed" (SpeedAlarm), a socket and its  *)
(* caller (WinSocket), getdelim(), asprintf(), the byte order of hosts,    *)
(* and the lists of queue.h.  They share no state.  A program uses one of  *)
(* them.                                                                   *)
(***************************************************************************)
EXTENDS FileOffset

CONSTANTS Holders, MaxRefs,                          \* AddLock
          MaxAlarms, Lapses,                         \* SpeedAlarm
          INT_MAX, Request, Answer, Buffer, Causes,  \* WinSocket
          SIZE_MAX, BUFSIZ, MaxInput,                \* Getdelim
          INIT_SZ, LEN_MAX,                          \* Asprintf
          Heads, Elements, NIL                       \* Queue

VARIABLES use,
          pointer, amount, result, apc, refs, destroyed,                \* AddLock
          speed_thread, speed_lapse, speed_schlock, run, caller, thread, handles, alarms,
          asked, slept,                                                 \* SpeedAlarm
          net, cause, room, left, avail, serrno, view, sent, received,  \* WinSocket
          input, mem, bufsiz, ptr, gpc, gret, line, overrun,            \* Getdelim
          spc, string, str, live, sret, strerrno,                       \* Asprintf
          host, order, width, value, wire, got,                         \* ByteOrder
          kind, q, list, loop                                           \* Queue

COUNT == INSTANCE AddLock WITH Threads <- Holders, pc <- apc, ret <- result
ALARM == INSTANCE SpeedAlarm WITH pc <- caller
SOCKET == INSTANCE WinSocket WITH errno <- serrno
GETDELIM == INSTANCE Getdelim WITH pc <- gpc, ret <- gret
ASPRINTF == INSTANCE Asprintf WITH INT_MAX <- LEN_MAX, pc <- spc, ret <- sret, errno <- strerrno
BYTES == INSTANCE ByteOrder
QUEUE == INSTANCE Queue WITH Nodes <- Elements, NULL <- NIL

Parts == {"FILE", "COUNT", "ALARM", "SOCKET", "GETDELIM", "ASPRINTF", "BYTES", "QUEUE"}

countVars == <<pointer, amount, result, apc, refs, destroyed>>
alarmVars == <<speed_thread, speed_lapse, speed_schlock, run, caller, thread, handles, alarms,
               asked, slept>>
socketVars == <<net, cause, room, left, avail, serrno, view, sent, received>>
getdelimVars == <<input, mem, bufsiz, ptr, gpc, gret, line, overrun>>
asprintfVars == <<spc, string, str, live, sret, strerrno>>
bytesVars == <<host, order, width, value, wire, got>>
queueVars == <<kind, q, list, loop>>
shimVars ==
  <<vars, countVars, alarmVars, socketVars, getdelimVars, asprintfVars, bytesVars, queueVars>>

\* A part that is not in use stays in one initial state.
ShimsInit ==
  /\ use # "COUNT" => refs = [t \in Holders |-> IF t = CHOOSE c \in Holders : TRUE THEN 1 ELSE 0]
  /\ use # "GETDELIM" => input = <<>> /\ mem = <<>> /\ bufsiz = 0
  /\ use # "BYTES" => /\ host = <<"windows", "windows">> /\ order = "be" /\ width = 2
                      /\ value = [i \in 0 .. 1 |-> 0]
  /\ use # "QUEUE" => kind = "LIST"
  /\ Init /\ COUNT!Init /\ ALARM!Init /\ SOCKET!Init /\ GETDELIM!Init /\ ASPRINTF!Init
  /\ BYTES!Init /\ QUEUE!Init

ShimsNext ==
  \/ /\ use = "FILE" /\ Next
     /\ UNCHANGED <<countVars, alarmVars, socketVars, getdelimVars, asprintfVars, bytesVars, queueVars>>
  \/ /\ use = "COUNT" /\ COUNT!Next
     /\ UNCHANGED <<vars, alarmVars, socketVars, getdelimVars, asprintfVars, bytesVars, queueVars>>
  \/ /\ use = "ALARM" /\ ALARM!Next
     /\ UNCHANGED <<vars, countVars, socketVars, getdelimVars, asprintfVars, bytesVars, queueVars>>
  \/ /\ use = "SOCKET" /\ SOCKET!Next
     /\ UNCHANGED <<vars, countVars, alarmVars, getdelimVars, asprintfVars, bytesVars, queueVars>>
  \/ /\ use = "GETDELIM" /\ GETDELIM!Next
     /\ UNCHANGED <<vars, countVars, alarmVars, socketVars, asprintfVars, bytesVars, queueVars>>
  \/ /\ use = "ASPRINTF" /\ ASPRINTF!Next
     /\ UNCHANGED <<vars, countVars, alarmVars, socketVars, getdelimVars, bytesVars, queueVars>>
  \/ /\ use = "BYTES" /\ BYTES!Next
     /\ UNCHANGED <<vars, countVars, alarmVars, socketVars, getdelimVars, asprintfVars, queueVars>>
  \/ /\ use = "QUEUE" /\ QUEUE!Next
     /\ UNCHANGED <<vars, countVars, alarmVars, socketVars, getdelimVars, asprintfVars, bytesVars>>

\* Only the parts with something that must happen assume fairness.
ShimsFairness ==
  /\ use = "ALARM" => ALARM!Fairness
  /\ use = "SOCKET" => SOCKET!Fairness

-----------------------------------------------------------------------------
\* What each part must fulfil, with the properties of its module; of FileOffset it is
\* ImplementsPositioned.

\* One thread, the last, is told to destroy a counted object.
DestroyedByLast == COUNT!DestroyedByLast
\* An alarm rings for the measurement it was set for.
AlarmOwn == ALARM!AlarmOwn
\* What the caller of a socket makes of its results is true of the connection.
ViewTrue == SOCKET!ViewTrue
\* getdelim gives exact records and asprintf whole strings, inside what they allocated.
BuffersExact == GETDELIM!LinesExact /\ ASPRINTF!WholeOrNothing
\* The bytes sent are the number in the order asked for, and the receiver gets the number.
WireAgrees == BYTES!WireAgrees
\* A list is the sequence of its elements, forwards and backwards, and a loop that removes
\* what it meets visits every element.
RepresentsLists ==
  QUEUE!TypeOK /\ QUEUE!RepresentsLists /\ QUEUE!WalksBackwards /\ QUEUE!LoopVisitsAll
\* Setting an alarm, measuring and taking it back comes to an end.
MeasurementEnds == use = "ALARM" => ALARM!MeasurementEnds
\* A connection comes to an end, whatever error ends it.
ConnectionEnds == use = "SOCKET" => SOCKET!ConnectionEnds
=============================================================================
