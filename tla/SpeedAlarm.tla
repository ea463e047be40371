----------------------------- MODULE SpeedAlarm -----------------------------
(***************************************************************************)
(* apps/openssl/apps_win.c: the alarm of "openssl speed" on Windows.       *)
(*                                                                         *)
(* speed_alarm() starts a thread that sleeps and then calls the handler;   *)
(* it waits by polling speed_schlock until the thread runs.                *)
(* speed_alarm_free() terminates the thread unless it has rung.  All share *)
(* static variables without a lock, and each access is a step.             *)
(*                                                                         *)
(* The caller (external, patches/speed.c.patch): it sets the alarm, sets   *)
(* run, loops until the handler clears run or the count is at its limit,   *)
(* and calls speed_alarm_free(run).  TerminateThread takes effect at once. *)
(***************************************************************************)
EXTENDS Naturals

CONSTANTS MaxAlarms,  \* bound: measurements, each with a thread of its own
          Lapses      \* seconds that may be asked for

\* What is assumed of the constants.
AlarmAssumption == MaxAlarms \in Nat /\ Lapses \subseteq Nat \ {0}

VARIABLES speed_thread, speed_lapse, speed_schlock,
          run,        \* of the caller, which its handler sets to 0
          pc,         \* where the caller is
          thread,     \* where each timer thread is
          handles,    \* of threads, open
          alarms,     \* measurements begun
          asked, slept  \* ghosts: the lapse each thread was made for, and the one it read

statics == <<speed_thread, speed_lapse, speed_schlock>>
ghosts == <<asked, slept>>
vars == <<speed_thread, speed_lapse, speed_schlock, run, pc, thread, handles, alarms,
          asked, slept>>

Timers == 1 .. MaxAlarms
NoThread == 0  \* NULL

TypeOK ==
  /\ speed_thread \in Timers \cup {NoThread} /\ speed_lapse \in Lapses \cup {0}
  /\ speed_schlock \in 0 .. 1 /\ run \in 0 .. 1
  /\ pc \in {"idle", "create", "check", "spin", "begin", "loop", "free", "terminate", "close",
             "exited"}
  /\ thread \in [Timers -> {"none", "created", "running", "asleep", "over"}]
  /\ handles \subseteq Timers /\ alarms \in 0 .. MaxAlarms
  /\ asked \in [Timers -> Lapses \cup {0}] /\ slept \in [Timers -> Lapses \cup {0}]

Init ==
  /\ speed_thread = NoThread /\ speed_lapse = 0 /\ speed_schlock = 0 /\ run = 0
  /\ pc = "idle" /\ handles = {} /\ alarms = 0
  /\ thread = [t \in Timers |-> "none"]
  /\ asked = [t \in Timers |-> 0] /\ slept = [t \in Timers |-> 0]

-----------------------------------------------------------------------------
Goto(from, to) == pc = from /\ pc' = to

\* speed_timer(); speed_signal() has installed the handler before the first alarm.
TimerStart(t) ==
  /\ thread[t] = "created" /\ thread' = [thread EXCEPT ![t] = "running"]
  /\ speed_schlock' = 1
  /\ UNCHANGED <<speed_thread, speed_lapse, run, pc, handles, alarms, ghosts>>

TimerSleep(t) ==
  /\ thread[t] = "running" /\ thread' = [thread EXCEPT ![t] = "asleep"]
  /\ slept' = [slept EXCEPT ![t] = speed_lapse]
  /\ UNCHANGED <<statics, run, pc, handles, alarms, asked>>

\* (*speed_alarm_handler)(0), which is sig_done
TimerRing(t) ==
  /\ thread[t] = "asleep" /\ thread' = [thread EXCEPT ![t] = "over"]
  /\ run' = 0
  /\ UNCHANGED <<statics, pc, handles, alarms, ghosts>>

Timer(t) == pc # "exited" /\ (TimerStart(t) \/ TimerSleep(t) \/ TimerRing(t))

-----------------------------------------------------------------------------
\* speed_alarm(seconds)
speed_alarm ==
  /\ Goto("idle", "create") /\ alarms < MaxAlarms
  /\ \E seconds \in Lapses :
       /\ speed_lapse' = seconds /\ asked' = [asked EXCEPT ![alarms + 1] = seconds]
  /\ speed_schlock' = 0 /\ alarms' = alarms + 1
  /\ UNCHANGED <<speed_thread, run, thread, handles, slept>>

\* CreateThread, or ExitProcess
Create ==
  /\ \/ /\ Goto("create", "check")
        /\ speed_thread' = alarms /\ handles' = handles \cup {alarms}
        /\ thread' = [thread EXCEPT ![alarms] = "created"]
     \/ Goto("create", "exited") /\ UNCHANGED <<speed_thread, handles, thread>>
  /\ UNCHANGED <<speed_lapse, speed_schlock, run, alarms, ghosts>>

\* A mutation: the flag is cleared when the thread exists.
CheckClears ==
  /\ Goto("check", "spin") /\ speed_schlock' = 0
  /\ UNCHANGED <<speed_thread, speed_lapse, run, thread, handles, alarms, ghosts>>

\* if (speed_thread == NULL)
Check ==
  /\ Goto("check", "spin")
  /\ UNCHANGED <<statics, run, thread, handles, alarms, ghosts>>

\* while (!speed_schlock) Sleep(0);
Spin ==
  /\ \/ Goto("spin", "begin") /\ speed_schlock = 1
     \/ pc = "spin" /\ speed_schlock = 0 /\ UNCHANGED pc
  /\ UNCHANGED <<statics, run, thread, handles, alarms, ghosts>>

\* run = 1; the alarm may have rung before.
Begin ==
  /\ Goto("begin", "loop") /\ run' = 1
  /\ UNCHANGED <<statics, thread, handles, alarms, ghosts>>

\* The handler has cleared run, or the count is at its limit.
LoopEnds ==
  /\ Goto("loop", "free")
  /\ UNCHANGED <<statics, run, thread, handles, alarms, ghosts>>

\* A mutation: the thread is left to itself.
FreeGoesOn == "close"

FreeGoes == IF run = 1 THEN "terminate" ELSE "close"

\* speed_alarm_free(run): the argument is read here, and the alarm may ring after that.
speed_alarm_free ==
  /\ Goto("free", FreeGoes)
  /\ UNCHANGED <<statics, run, thread, handles, alarms, ghosts>>

Terminate ==
  /\ \/ /\ Goto("terminate", "close") /\ speed_thread # NoThread
        /\ thread' = [thread EXCEPT ![speed_thread] = "over"]
     \/ Goto("terminate", "exited") /\ UNCHANGED thread
  /\ UNCHANGED <<statics, run, handles, alarms, ghosts>>

\* CloseHandle, then the variables are reset
Close ==
  /\ \/ /\ Goto("close", "idle") /\ handles' = handles \ {speed_thread}
        /\ speed_thread' = NoThread /\ speed_lapse' = 0 /\ speed_schlock' = 0
     \/ Goto("close", "exited") /\ UNCHANGED <<handles, statics>>
  /\ UNCHANGED <<run, thread, alarms, ghosts>>

Main ==
  \/ Create \/ Check \/ Spin \/ Begin \/ LoopEnds \/ speed_alarm_free \/ Terminate \/ Close

\* The process has exited, or has made all its measurements.
Finished == (pc = "exited" \/ (pc = "idle" /\ alarms = MaxAlarms)) /\ UNCHANGED vars

Next == speed_alarm \/ Main \/ (\E t \in Timers : Timer(t)) \/ Finished

\* Threads are scheduled and Sleep() ends; the count of a loop reaches its limit.
Fairness == WF_vars(Main) /\ \A t \in Timers : WF_vars(Timer(t))

Spec == Init /\ [][Next]_vars /\ Fairness

-----------------------------------------------------------------------------
(***************************************************************************)
(* An alarm rings for the measurement it was set for: a thread that can    *)
(* still ring is the one in speed_thread, it sleeps as long as its own     *)
(* speed_alarm() asked, and between measurements there is none.  No handle *)
(* but that of speed_thread is open.                                       *)
(***************************************************************************)
AlarmOwn ==
  /\ TypeOK
  /\ \A t \in Timers : thread[t] \in {"created", "running", "asleep"} =>
                         t = speed_thread /\ t = alarms
  /\ \A t \in Timers : thread[t] = "asleep" => slept[t] = asked[t]
  /\ handles = {speed_thread} \ {NoThread}

(***************************************************************************)
(* A measurement ends: speed_alarm() is never left waiting for a thread    *)
(* that has already said that it runs.                                     *)
(***************************************************************************)
MeasurementEnds == pc \notin {"idle", "exited"} ~> pc \in {"idle", "exited"}

=============================================================================
