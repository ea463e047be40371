----------------------------- MODULE CryptoLock -----------------------------
(***************************************************************************)
(* crypto/compat/crypto_lock_win.c: CRYPTO_lock() on Windows.              *)
(*                                                                         *)
(* The table of locks starts empty.  The first caller of a lock type       *)
(* allocates a critical section and publishes it with an interlocked       *)
(* compare-and-exchange; a caller that loses the race deletes and frees    *)
(* its own and uses the winner's.  Each access to shared memory is a step, *)
(* so calls of different threads interleave between any two of them.       *)
(*                                                                         *)
(* The callers are libcrypto's CRYPTO_w_lock/CRYPTO_w_unlock macros        *)
(* (external): they unlock what they hold, and they take several lock      *)
(* types only in increasing order.                                         *)
(***************************************************************************)
EXTENDS CriticalSection, Integers

CONSTANTS NumLocks,   \* CRYPTO_NUM_LOCKS
          MaxDepth    \* bound: how often a caller nests one lock type

ASSUME CryptoLockAssumption == NumLocks \in Nat \ {0} /\ MaxDepth \in Nat \ {0}

VARIABLES locks,   \* the static array locks[CRYPTO_NUM_LOCKS]
          pc,      \* where each thread is in CRYPTO_lock
          call,    \* the arguments (mode, type) of the current call
          lcs,     \* the local variable lcs
          held,    \* caller's view: lock calls returned minus unlock calls
          exited   \* exit(ENOMEM) was called

localVars == <<pc, call, lcs>>
vars == <<mem, owner, depth, locks, pc, call, lcs, held, exited>>

LockTypes == 0 .. NumLocks - 1
CallTypes == -1 .. NumLocks      \* in range and just outside it
Modes == {"LOCK", "UNLOCK"}
Calls == [mode : Modes, type : CallTypes]
NoCall == [mode |-> "LOCK", type |-> 0]   \* the arguments outside a call
PC == {"idle", "range", "test", "malloc", "init", "cas", "delete", "free",
       "enter", "leave"}

TypeOK ==
  /\ HeapTypeOK
  /\ locks \in [LockTypes -> Addrs \cup {NULL}]
  /\ pc \in [Threads -> PC]
  /\ call \in [Threads -> Calls]
  /\ lcs \in [Threads -> Addrs \cup {NULL}]
  /\ held \in [Threads -> [LockTypes -> Nat]]
  /\ exited \in BOOLEAN

Init ==
  /\ HeapInit
  /\ locks = [k \in LockTypes |-> NULL]
  /\ pc = [t \in Threads |-> "idle"]
  /\ call = [t \in Threads |-> NoCall]
  /\ lcs = [t \in Threads |-> NULL]
  /\ held = [t \in Threads |-> [k \in LockTypes |-> 0]]
  /\ exited = FALSE

-----------------------------------------------------------------------------
Goto(t, from, to) ==
  /\ ~exited
  /\ pc[t] = from
  /\ pc' = [pc EXCEPT ![t] = to]

\* The locals of the call go out of scope.
Return(t, from) ==
  /\ Goto(t, from, "idle")
  /\ call' = [call EXCEPT ![t] = NoCall]
  /\ lcs' = [lcs EXCEPT ![t] = NULL]

\* The mode test at the end of CRYPTO_lock.
Finish(t) == IF call[t].mode = "LOCK" THEN "enter" ELSE "leave"

\* What the callers may ask for.
CallerMay(t, c) ==
  \/ c.type \notin LockTypes
  \/ /\ c.type \in LockTypes
     /\ c.mode = "LOCK"
     /\ held[t][c.type] < MaxDepth
     /\ \A k \in LockTypes : k > c.type => held[t][k] = 0
  \/ /\ c.type \in LockTypes
     /\ c.mode = "UNLOCK"
     /\ held[t][c.type] > 0

CRYPTO_lock(t, c) ==
  /\ Goto(t, "idle", "range")
  /\ CallerMay(t, c)
  /\ call' = [call EXCEPT ![t] = c]
  /\ UNCHANGED <<heapVars, locks, lcs, held, exited>>

\* if (type < 0 || type >= CRYPTO_NUM_LOCKS) return;
RangeTest(t) ==
  /\ pc[t] = "range"
  /\ \/ /\ call[t].type < 0 \/ call[t].type >= NumLocks
        /\ Return(t, "range")
     \/ /\ 0 <= call[t].type /\ call[t].type < NumLocks
        /\ Goto(t, "range", "test")
        /\ UNCHANGED <<call, lcs>>
  /\ UNCHANGED <<heapVars, locks, held, exited>>

\* if (locks[type] == NULL)
NullTest(t) ==
  /\ Goto(t, "test", IF locks[call[t].type] = NULL THEN "malloc" ELSE Finish(t))
  /\ UNCHANGED <<heapVars, locks, call, lcs, held, exited>>

AllocSection(t) ==
  /\ Goto(t, "malloc", "init")
  /\ \E a \in Addrs : malloc(a) /\ lcs' = [lcs EXCEPT ![t] = a]
  /\ UNCHANGED <<locks, call, held, exited>>

\* if (lcs == NULL) exit(ENOMEM);
AllocFails(t) ==
  /\ ~exited
  /\ pc[t] = "malloc"
  /\ exited' = TRUE
  /\ UNCHANGED <<heapVars, locks, localVars, held>>

InitSection(t) ==
  /\ Goto(t, "init", "cas")
  /\ InitializeCriticalSection(lcs[t])
  /\ UNCHANGED <<locks, call, lcs, held, exited>>

\* A mutation: an unconditional store, as if the exchange did not compare.
PublishBlindly(t) ==
  /\ Goto(t, "cas", Finish(t))
  /\ locks' = [locks EXCEPT ![call[t].type] = lcs[t]]
  /\ UNCHANGED <<heapVars, call, lcs, held, exited>>

\* InterlockedCompareExchangePointer(&locks[type], lcs, NULL)
Publish(t) ==
  /\ pc[t] = "cas"
  /\ \/ /\ locks[call[t].type] = NULL
        /\ Goto(t, "cas", Finish(t))
        /\ locks' = [locks EXCEPT ![call[t].type] = lcs[t]]
     \/ /\ locks[call[t].type] # NULL
        /\ Goto(t, "cas", "delete")
        /\ UNCHANGED locks
  /\ UNCHANGED <<heapVars, call, lcs, held, exited>>

DeleteLoser(t) ==
  /\ Goto(t, "delete", "free")
  /\ DeleteCriticalSection(lcs[t])
  /\ UNCHANGED <<locks, call, lcs, held, exited>>

\* A mutation: the loser's section is deleted but its memory is kept.
FreeForgotten(t) ==
  /\ Goto(t, "free", Finish(t))
  /\ UNCHANGED <<heapVars, locks, call, lcs, held, exited>>

\* A mutation: the loser frees the section it lost to, not its own.
FreeWinner(t) ==
  /\ Goto(t, "free", Finish(t))
  /\ free(locks[call[t].type])
  /\ UNCHANGED <<locks, call, lcs, held, exited>>

FreeLoser(t) ==
  /\ Goto(t, "free", Finish(t))
  /\ free(lcs[t])
  /\ UNCHANGED <<locks, call, lcs, held, exited>>

Enter(t) ==
  LET k == call[t].type IN
  /\ Return(t, "enter")
  /\ EnterCriticalSection(t, locks[k])
  /\ held' = [held EXCEPT ![t][k] = @ + 1]
  /\ UNCHANGED <<locks, exited>>

\* A mutation: the unlock call returns without leaving the section.
LeaveForgotten(t) ==
  LET k == call[t].type IN
  /\ Return(t, "leave")
  /\ held' = [held EXCEPT ![t][k] = @ - 1]
  /\ UNCHANGED <<heapVars, locks, exited>>

Leave(t) ==
  LET k == call[t].type IN
  /\ Return(t, "leave")
  /\ LeaveCriticalSection(locks[k])
  /\ held' = [held EXCEPT ![t][k] = @ - 1]
  /\ UNCHANGED <<locks, exited>>

\* After exit() nothing runs.
Exited == exited /\ UNCHANGED vars

Step(t) ==
  \/ RangeTest(t)
  \/ NullTest(t)
  \/ AllocSection(t)
  \/ AllocFails(t)
  \/ InitSection(t)
  \/ Publish(t)
  \/ DeleteLoser(t)
  \/ FreeLoser(t)
  \/ Enter(t)
  \/ Leave(t)

Next ==
  \/ \E t \in Threads :
       \/ \E c \in Calls : CRYPTO_lock(t, c)
       \/ Step(t)
  \/ Exited

Spec == Init /\ [][Next]_vars

(***************************************************************************)
(* Fairness: a thread inside CRYPTO_lock keeps running; Windows grants a   *)
(* free critical section to a waiting thread eventually (strong fairness   *)
(* of Enter); and libcrypto pairs every lock with an unlock, so that a     *)
(* thread that comes back at some depth does not go deeper for ever.       *)
(***************************************************************************)
Fairness ==
  \A t \in Threads :
    /\ WF_vars(Step(t))
    /\ SF_vars(Enter(t))
    /\ \A k \in LockTypes, d \in 1 .. MaxDepth :
         SF_vars(held[t][k] = d /\ CRYPTO_lock(t, [mode |-> "UNLOCK", type |-> k]))

FairSpec == Spec /\ Fairness

-----------------------------------------------------------------------------
InSection(t) == pc[t] \in {"init", "cas", "delete", "free"}

(***************************************************************************)
(* Two threads never hold the same lock type at once, whatever races took  *)
(* place while its critical section was being created.                     *)
(***************************************************************************)
MutualExclusion ==
  \A t, u \in Threads, k \in LockTypes :
    held[t][k] > 0 /\ held[u][k] > 0 => t = u

(***************************************************************************)
(* EnterCriticalSection and LeaveCriticalSection are only ever given an    *)
(* initialised critical section: never NULL, never one a losing thread     *)
(* has deleted or freed.                                                   *)
(***************************************************************************)
UsesLiveSection ==
  \A t \in Threads :
    pc[t] \in {"enter", "leave"} =>
      /\ locks[call[t].type] # NULL
      /\ mem[locks[call[t].type]] = "live"

(***************************************************************************)
(* The allocation of a thread that lost the race is always given back:     *)
(* allocated memory is in the table or still in the hands of a thread that *)
(* is creating a section.                                                  *)
(***************************************************************************)
NoLeak ==
  \A a \in Addrs :
    mem[a] # "free" =>
      \/ \E k \in LockTypes : locks[k] = a
      \/ \E t \in Threads : InSection(t) /\ lcs[t] = a

(***************************************************************************)
(* A published critical section stays: CRYPTO_lock reads locks[type] again *)
(* after the test, which is only sound when the entry can no longer change.*)
(***************************************************************************)
PublishedStays ==
  [][\A k \in LockTypes : locks[k] # NULL => locks'[k] = locks[k]]_vars

(***************************************************************************)
(* CRYPTO_lock implements a table of locks that exist from the start.      *)
(***************************************************************************)
Abstract == INSTANCE LockTable
ImplementsLockTable == Abstract!Spec

(***************************************************************************)
(* Every lock call returns (or the process exits for want of memory).      *)
(***************************************************************************)
LockReturns ==
  \A t \in Threads : pc[t] = "range" ~> pc[t] = "idle" \/ exited

=============================================================================
