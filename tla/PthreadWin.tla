----------------------------- MODULE PthreadWin -----------------------------
(***************************************************************************)
(* include/compat/pthread.h on Windows: mutexes and pthread_once().        *)
(*                                                                         *)
(* A mutex is a pointer to a critical section.  PTHREAD_MUTEX_INITIALIZER  *)
(* makes it NULL and pthread_mutex_lock() creates the section on first     *)
(* use, with the same race as CRYPTO_lock(); pthread_mutex_init() creates  *)
(* it at once, but stores the pointer before the section is initialised;   *)
(* pthread_mutex_destroy() gives it back.  Each access to shared memory is *)
(* a step.                                                                 *)
(*                                                                         *)
(* The program (external) does what POSIX asks of it: it uses a mutex of   *)
(* Dynamics only after its own pthread_once() call, whose callback is      *)
(* pthread_mutex_init(), has returned; it unlocks what it holds; and it    *)
(* destroys a mutex that nobody holds or is about to use.                  *)
(***************************************************************************)
EXTENDS CriticalSection

CONSTANTS Statics,   \* mutexes with PTHREAD_MUTEX_INITIALIZER
          Dynamics,  \* mutexes that a pthread_once() callback initialises
          MaxDepth   \* bound: how often a thread nests one mutex

Mutexes == Statics \cup Dynamics

ASSUME PthreadAssumption ==
  /\ Statics \cap Dynamics = {} /\ MaxDepth \in Nat \ {0}
  /\ "no" \notin Threads /\ "done" \notin Threads  \* the values of once

VARIABLES lock,     \* mutex->lock
          once,     \* once->once, for each dynamic mutex: no, a thread, done
          pc, call, \* where each thread is, and the mutex of its call
          lcs,      \* the local variable lcs of pthread_mutex_lock
          held,     \* the program's view: lock calls returned minus unlock calls
          ready,    \* the dynamic mutexes whose pthread_once() returned to the thread
          retired,  \* the program has decided to destroy these
          exited    \* exit(ENOMEM) was called

vars == <<heapVars, lock, once, pc, call, lcs, held, ready, retired, exited>>

PC == {"idle", "test", "malloc", "init", "cas", "delete", "free", "enter",
       "leave", "once", "cb_malloc", "cb_init", "cb_return", "d_test", "d_delete", "d_free",
       "d_null"}

TypeOK ==
  /\ HeapTypeOK
  /\ lock \in [Mutexes -> Addrs \cup {NULL}]
  /\ once \in [Dynamics -> {"no", "done"} \cup Threads]
  /\ pc \in [Threads -> PC]
  /\ call \in [Threads -> Mutexes \cup {NULL}]
  /\ lcs \in [Threads -> Addrs \cup {NULL}]
  /\ held \in [Threads -> [Mutexes -> Nat]]
  /\ ready \in [Threads -> SUBSET Dynamics]
  /\ retired \in SUBSET Mutexes
  /\ exited \in BOOLEAN

Init ==
  /\ HeapInit
  /\ lock = [m \in Mutexes |-> NULL]
  /\ once = [m \in Dynamics |-> "no"]
  /\ pc = [t \in Threads |-> "idle"]
  /\ call = [t \in Threads |-> NULL]
  /\ lcs = [t \in Threads |-> NULL]
  /\ held = [t \in Threads |-> [m \in Mutexes |-> 0]]
  /\ ready = [t \in Threads |-> {}]
  /\ retired = {}
  /\ exited = FALSE

-----------------------------------------------------------------------------
Goto(t, from, to) ==
  /\ ~exited
  /\ pc[t] = from
  /\ pc' = [pc EXCEPT ![t] = to]

Begin(t, m, to) ==
  /\ Goto(t, "idle", to)
  /\ m \notin retired
  /\ call' = [call EXCEPT ![t] = m]

Return(t, from) ==
  /\ Goto(t, from, "idle")
  /\ call' = [call EXCEPT ![t] = NULL]
  /\ lcs' = [lcs EXCEPT ![t] = NULL]

\* if ((x = malloc(sizeof(CRITICAL_SECTION))) == NULL) exit(ENOMEM);
OutOfMemory(t) ==
  /\ ~exited /\ pc[t] \in {"malloc", "cb_malloc"}
  /\ exited' = TRUE
  /\ UNCHANGED <<heapVars, lock, once, pc, call, lcs, held, ready, retired>>

-----------------------------------------------------------------------------
\* pthread_mutex_lock.  A dynamic mutex may be taken under a static one.
pthread_mutex_lock(t, m) ==
  /\ Begin(t, m, "test")
  /\ m \in Statics \cup ready[t]
  /\ held[t][m] < MaxDepth
  /\ \A n \in Mutexes \ {m} : held[t][n] > 0 => n \in Statics /\ m \in Dynamics
  /\ UNCHANGED <<heapVars, lock, once, lcs, held, ready, retired, exited>>

NullTest(t) ==
  /\ Goto(t, "test", IF lock[call[t]] = NULL THEN "malloc" ELSE "enter")
  /\ UNCHANGED <<heapVars, lock, once, call, lcs, held, ready, retired, exited>>

AllocSection(t) ==
  /\ Goto(t, "malloc", "init")
  /\ \E a \in Addrs : malloc(a) /\ lcs' = [lcs EXCEPT ![t] = a]
  /\ UNCHANGED <<lock, once, call, held, ready, retired, exited>>

InitSection(t) ==
  /\ Goto(t, "init", "cas")
  /\ InitializeCriticalSection(lcs[t])
  /\ UNCHANGED <<lock, once, call, lcs, held, ready, retired, exited>>

\* A mutation: an unconditional store, as if the exchange did not compare.
PublishBlindly(t) ==
  /\ Goto(t, "cas", "enter")
  /\ lock' = [lock EXCEPT ![call[t]] = lcs[t]]
  /\ UNCHANGED <<heapVars, once, call, lcs, held, ready, retired, exited>>

\* InterlockedCompareExchangePointer(&mutex->lock, lcs, NULL)
Publish(t) ==
  /\ pc[t] = "cas"
  /\ \/ /\ lock[call[t]] = NULL
        /\ Goto(t, "cas", "enter")
        /\ lock' = [lock EXCEPT ![call[t]] = lcs[t]]
     \/ /\ lock[call[t]] # NULL
        /\ Goto(t, "cas", "delete")
        /\ UNCHANGED lock
  /\ UNCHANGED <<heapVars, once, call, lcs, held, ready, retired, exited>>

DeleteLoser(t) ==
  /\ Goto(t, "delete", "free")
  /\ DeleteCriticalSection(lcs[t])
  /\ UNCHANGED <<lock, once, call, lcs, held, ready, retired, exited>>

FreeLoser(t) ==
  /\ Goto(t, "free", "enter")
  /\ free(lcs[t])
  /\ UNCHANGED <<lock, once, call, lcs, held, ready, retired, exited>>

Enter(t) ==
  /\ Return(t, "enter")
  /\ EnterCriticalSection(t, lock[call[t]])
  /\ held' = [held EXCEPT ![t][call[t]] = @ + 1]
  /\ UNCHANGED <<lock, once, ready, retired, exited>>

pthread_mutex_unlock(t, m) ==
  /\ Begin(t, m, "leave")
  /\ held[t][m] > 0
  /\ UNCHANGED <<heapVars, lock, once, lcs, held, ready, retired, exited>>

Leave(t) ==
  /\ Return(t, "leave")
  /\ LeaveCriticalSection(lock[call[t]])
  /\ held' = [held EXCEPT ![t][call[t]] = @ - 1]
  /\ UNCHANGED <<lock, once, ready, retired, exited>>

-----------------------------------------------------------------------------
\* pthread_once, and pthread_mutex_init as its callback
pthread_once(t, m) ==
  /\ Begin(t, m, "once")
  /\ m \in Dynamics \ ready[t]
  /\ UNCHANGED <<heapVars, lock, once, lcs, held, ready, retired, exited>>

\* InitOnceExecuteOnce calls the callback once and holds back the other callers
\* until it has returned.
ExecuteOnce(t) ==
  /\ Goto(t, "once", "cb_malloc")
  /\ once[call[t]] = "no"
  /\ once' = [once EXCEPT ![call[t]] = t]
  /\ UNCHANGED <<heapVars, lock, call, lcs, held, ready, retired, exited>>

OnceReturn(t) ==
  /\ Return(t, "once")
  /\ once[call[t]] = "done"
  /\ ready' = [ready EXCEPT ![t] = @ \cup {call[t]}]
  /\ UNCHANGED <<heapVars, lock, once, held, retired, exited>>

\* mutex->lock = malloc(...): the pointer is visible before the section is initialised
MutexInitAlloc(t) ==
  /\ Goto(t, "cb_malloc", "cb_init")
  /\ \E a \in Addrs : malloc(a) /\ lock' = [lock EXCEPT ![call[t]] = a]
  /\ UNCHANGED <<once, call, lcs, held, ready, retired, exited>>

\* A mutation: pthread_mutex_init leaves the section uninitialised.
MutexInitForgotten(t) ==
  /\ Goto(t, "cb_init", "cb_return")
  /\ UNCHANGED <<heapVars, lock, once, call, lcs, held, ready, retired, exited>>

MutexInitSection(t) ==
  /\ Goto(t, "cb_init", "cb_return")
  /\ InitializeCriticalSection(lock[call[t]])
  /\ UNCHANGED <<lock, once, call, lcs, held, ready, retired, exited>>

\* return TRUE from _pthread_once_win32_cb, and 0 from pthread_once
CallbackReturn(t) ==
  /\ Return(t, "cb_return")
  /\ once' = [once EXCEPT ![call[t]] = "done"]
  /\ ready' = [ready EXCEPT ![t] = @ \cup {call[t]}]
  /\ UNCHANGED <<heapVars, lock, held, retired, exited>>

-----------------------------------------------------------------------------
\* pthread_mutex_destroy, of a mutex that nobody is using
pthread_mutex_destroy(t, m) ==
  /\ Begin(t, m, "d_test")
  /\ m \in Statics \cup ready[t]
  /\ \A u \in Threads : held[u][m] = 0 /\ call[u] # m
  /\ retired' = retired \cup {m}
  /\ UNCHANGED <<heapVars, lock, once, lcs, held, ready, exited>>

\* A static mutex is as its initializer left it and may be used again.
DestroyReturn(t, from) ==
  /\ Return(t, from)
  /\ retired' = retired \ ({call[t]} \cap Statics)

DestroyTest(t) ==
  /\ pc[t] = "d_test"
  /\ \/ /\ lock[call[t]] = NULL
        /\ DestroyReturn(t, "d_test")
     \/ /\ lock[call[t]] # NULL
        /\ Goto(t, "d_test", "d_delete")
        /\ UNCHANGED <<call, lcs, retired>>
  /\ UNCHANGED <<heapVars, lock, once, held, ready, exited>>

DestroyDelete(t) ==
  /\ Goto(t, "d_delete", "d_free")
  /\ DeleteCriticalSection(lock[call[t]])
  /\ UNCHANGED <<lock, once, call, lcs, held, ready, retired, exited>>

\* A mutation: the memory is kept.
DestroyKeeps(t) ==
  /\ Goto(t, "d_free", "d_null")
  /\ UNCHANGED <<heapVars, lock, once, call, lcs, held, ready, retired, exited>>

DestroyFree(t) ==
  /\ Goto(t, "d_free", "d_null")
  /\ free(lock[call[t]])
  /\ UNCHANGED <<lock, once, call, lcs, held, ready, retired, exited>>

DestroyNull(t) ==
  /\ DestroyReturn(t, "d_null")
  /\ lock' = [lock EXCEPT ![call[t]] = NULL]
  /\ UNCHANGED <<heapVars, once, held, ready, exited>>

-----------------------------------------------------------------------------
Step(t) ==
  \/ NullTest(t) \/ AllocSection(t) \/ InitSection(t) \/ Publish(t) \/ DeleteLoser(t)
  \/ FreeLoser(t) \/ Enter(t) \/ Leave(t)
  \/ ExecuteOnce(t) \/ OnceReturn(t) \/ MutexInitAlloc(t) \/ MutexInitSection(t)
  \/ CallbackReturn(t)
  \/ DestroyTest(t) \/ DestroyDelete(t) \/ DestroyFree(t) \/ DestroyNull(t)
  \/ OutOfMemory(t)

\* After exit() nothing more happens.
Exited == exited /\ UNCHANGED vars

Next ==
  \/ \E t \in Threads :
       \/ \E m \in Mutexes : \/ pthread_mutex_lock(t, m) \/ pthread_mutex_unlock(t, m)
                             \/ pthread_once(t, m) \/ pthread_mutex_destroy(t, m)
       \/ Step(t)
  \/ Exited

Spec == Init /\ [][Next]_vars

-----------------------------------------------------------------------------
(***************************************************************************)
(* Enter, Leave and Delete only ever meet an initialised section: not one  *)
(* that pthread_mutex_init has stored but not yet initialised, not one     *)
(* that a losing thread or a pthread_mutex_destroy has given back.         *)
(***************************************************************************)
UsesLiveSection ==
  \A t \in Threads :
    pc[t] \in {"enter", "leave", "d_delete"} =>
      /\ lock[call[t]] # NULL
      /\ mem[lock[call[t]]] = "live"

(***************************************************************************)
(* Every allocation is reachable from a mutex or in the hands of a thread  *)
(* that is about to publish or free it (a second initialisation of the     *)
(* same mutex would lose the first), and a mutex that has been destroyed   *)
(* and that nobody is using holds no pointer to what was freed.            *)
(***************************************************************************)
NoLeak ==
  /\ TypeOK
  /\ \A a \in Addrs :
       mem[a] # "free" =>
         \/ \E m \in Mutexes : lock[m] = a
         \/ \E t \in Threads : lcs[t] = a /\ pc[t] \in {"init", "cas", "delete", "free"}
  /\ \A m \in retired : (\A t \in Threads : call[t] # m) => lock[m] = NULL

(***************************************************************************)
(* The mutexes implement locks that exist from the start, through lazy     *)
(* creation, pthread_once and destruction.                                 *)
(***************************************************************************)
Abstract == INSTANCE LockTable WITH LockTypes <- Mutexes
ImplementsLockTable == Abstract!Spec

=============================================================================
