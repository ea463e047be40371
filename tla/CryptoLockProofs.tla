-------------------------- MODULE CryptoLockProofs --------------------------
(***************************************************************************)
(* Proofs that CRYPTO_lock of crypto/compat/crypto_lock_win.c is correct   *)
(* for any number of threads, lock types and addresses.                    *)
(***************************************************************************)
EXTENDS CryptoLock, TLAPS

\* Past the range test, so that locks[type] is indexed.
Ranged(t) == pc[t] \notin {"idle", "range"}

\* The section exists for good: the lock call may enter or leave it.
Created(t) == pc[t] \in {"delete", "free", "enter", "leave"}

\* Only valid lock types get past the range test, and the section a thread
\* is about to use exists.
IndexInv ==
  \A t \in Threads :
    /\ Ranged(t) => call[t].type \in LockTypes
    /\ Created(t) => locks[call[t].type] # NULL

\* The sections in the table are initialised, and no two entries share one.
TableInv ==
  /\ \A k \in LockTypes : locks[k] # NULL => mem[locks[k]] = "live"
  /\ \A j, k \in LockTypes : locks[k] # NULL /\ locks[j] = locks[k] => j = k

\* The section a thread is creating is private to it until it is published.
PrivateInv ==
  \A t \in Threads : InSection(t) =>
    /\ lcs[t] \in Addrs
    /\ mem[lcs[t]] # "free"
    /\ \A k \in LockTypes : locks[k] # lcs[t]
    /\ \A u \in Threads : InSection(u) /\ lcs[u] = lcs[t] => u = t
    /\ pc[t] = "cas" =>
         /\ mem[lcs[t]] = "live"
         /\ owner[lcs[t]] = NULL
         /\ depth[lcs[t]] = 0

\* What the callers hold is what the critical sections record.
HoldInv ==
  /\ \A t \in Threads, k \in LockTypes :
       held[t][k] > 0 => locks[k] # NULL /\ owner[locks[k]] = t
  /\ \A k \in LockTypes : locks[k] # NULL =>
       /\ owner[locks[k]] = NULL => depth[locks[k]] = 0
       /\ \A t \in Threads : owner[locks[k]] = t => depth[locks[k]] = held[t][k]

\* An unlock call is made by a thread that holds the lock, and only lock
\* calls enter and unlock calls leave.
UnlockInv ==
  \A t \in Threads :
    /\ pc[t] # "idle" /\ call[t].mode = "UNLOCK" /\ call[t].type \in LockTypes
         => held[t][call[t].type] > 0
    /\ pc[t] = "enter" => call[t].mode = "LOCK"
    /\ pc[t] = "leave" => call[t].mode = "UNLOCK"

IInv == TypeOK /\ IndexInv /\ TableInv /\ PrivateInv /\ HoldInv /\ UnlockInv

-----------------------------------------------------------------------------

LEMMA NoCallType == NoCall \in Calls
  BY CryptoLockAssumption DEF NoCall, Calls, Modes, CallTypes

\* The initial state satisfies the invariant.
LEMMA InitIInv == Init => IInv
  <1> SUFFICES ASSUME Init PROVE IInv
    OBVIOUS
  <1> USE HeapAssumption, CryptoLockAssumption DEF Init, HeapInit
  <1>1. TypeOK
    <2>1. HeapTypeOK
      BY DEF HeapTypeOK, MemState
    <2>2. call \in [Threads -> Calls]
      BY NoCallType
    <2> QED
      BY <2>1, <2>2 DEF TypeOK, PC
  <1>2. IndexInv /\ PrivateInv /\ UnlockInv
    BY DEF IndexInv, PrivateInv, UnlockInv, Ranged, Created, InSection
  <1>3. TableInv /\ HoldInv
    BY DEF TableInv, HoldInv
  <1> QED
    BY <1>1, <1>2, <1>3 DEF IInv

\* A new call.
LEMMA CRYPTO_lockIInv ==
  ASSUME IInv, NEW t \in Threads, NEW c \in Calls, CRYPTO_lock(t, c)
  PROVE  IInv'
  <1> USE HeapAssumption DEF IInv, CRYPTO_lock, Goto, CallerMay
  <1>1. TypeOK'
    BY DEF TypeOK, HeapTypeOK, PC, MemState, PrivateInv, InSection, heapVars, localVars
  <1>2. IndexInv'
    BY DEF TypeOK, IndexInv, Ranged, Created, heapVars, localVars
  <1>3. TableInv'
    BY DEF TypeOK, HeapTypeOK, TableInv, PrivateInv, InSection, heapVars, localVars
  <1>4. PrivateInv'
    BY DEF TypeOK, HeapTypeOK, TableInv, PrivateInv, InSection, heapVars, localVars
  <1>5. HoldInv'
    BY DEF TypeOK, HeapTypeOK, TableInv, PrivateInv, HoldInv, InSection, heapVars, localVars
  <1>6. UnlockInv'
    BY DEF TypeOK, UnlockInv, heapVars, localVars
  <1> QED
    BY <1>1, <1>2, <1>3, <1>4, <1>5, <1>6 DEF IInv

\* The range test returns, or lets a valid lock type pass.
LEMMA RangeTestIInv ==
  ASSUME IInv, NEW t \in Threads, RangeTest(t)
  PROVE  IInv'
  <1> USE HeapAssumption DEF IInv
  <1>1. CASE Return(t, "range")
    <2> USE <1>1, NoCallType DEF RangeTest, Return, Goto
    <2>1. TypeOK'
      BY DEF TypeOK, HeapTypeOK, PC, MemState, PrivateInv, InSection, heapVars, localVars
    <2>2. IndexInv'
      BY DEF TypeOK, IndexInv, Ranged, Created, heapVars, localVars
    <2>3. TableInv'
      BY DEF TypeOK, HeapTypeOK, TableInv, PrivateInv, InSection, heapVars, localVars
    <2>4. PrivateInv'
      BY DEF TypeOK, HeapTypeOK, TableInv, PrivateInv, InSection, heapVars, localVars
    <2>5. HoldInv'
      BY DEF TypeOK, HeapTypeOK, TableInv, PrivateInv, HoldInv, InSection, heapVars, localVars
    <2>6. UnlockInv'
      BY DEF TypeOK, UnlockInv, heapVars, localVars
    <2> QED
      BY <2>1, <2>2, <2>3, <2>4, <2>5, <2>6 DEF IInv
  <1>2. CASE /\ 0 <= call[t].type /\ call[t].type < NumLocks
             /\ Goto(t, "range", "test")
             /\ UNCHANGED <<call, lcs>>
    <2> USE <1>2 DEF RangeTest, Goto
    <2>1. TypeOK'
      BY DEF TypeOK, HeapTypeOK, PC, MemState, PrivateInv, InSection, heapVars, localVars
    <2>2. IndexInv'
      <3>1. call[t].type \in LockTypes
        BY CryptoLockAssumption DEF TypeOK, Calls, CallTypes, LockTypes
      <3> QED
        BY <3>1 DEF TypeOK, IndexInv, Ranged, Created, heapVars
    <2>3. TableInv'
      BY DEF TypeOK, HeapTypeOK, TableInv, PrivateInv, InSection, heapVars, localVars
    <2>4. PrivateInv'
      BY DEF TypeOK, HeapTypeOK, TableInv, PrivateInv, InSection, heapVars, localVars
    <2>5. HoldInv'
      BY DEF TypeOK, HeapTypeOK, TableInv, PrivateInv, HoldInv, InSection, heapVars, localVars
    <2>6. UnlockInv'
      BY DEF TypeOK, UnlockInv, heapVars, localVars
    <2> QED
      BY <2>1, <2>2, <2>3, <2>4, <2>5, <2>6 DEF IInv
  <1> QED
    BY <1>1, <1>2 DEF RangeTest

\* The test of locks[type].
LEMMA NullTestIInv ==
  ASSUME IInv, NEW t \in Threads, NullTest(t)
  PROVE  IInv'
  <1> USE HeapAssumption DEF IInv, NullTest, Goto, Finish
  <1>1. TypeOK'
    BY DEF TypeOK, HeapTypeOK, PC, MemState, PrivateInv, InSection, heapVars, localVars
  <1>2. IndexInv'
    BY DEF TypeOK, IndexInv, Ranged, Created, heapVars, localVars
  <1>3. TableInv'
    BY DEF TypeOK, HeapTypeOK, TableInv, PrivateInv, InSection, heapVars, localVars
  <1>4. PrivateInv'
    BY DEF TypeOK, HeapTypeOK, TableInv, PrivateInv, InSection, heapVars, localVars
  <1>5. HoldInv'
    BY DEF TypeOK, HeapTypeOK, TableInv, PrivateInv, HoldInv, InSection, heapVars, localVars
  <1>6. UnlockInv'
    BY DEF TypeOK, UnlockInv, Calls, Modes, heapVars
  <1> QED
    BY <1>1, <1>2, <1>3, <1>4, <1>5, <1>6 DEF IInv

\* malloc returns memory that no one uses.
LEMMA AllocSectionIInv ==
  ASSUME IInv, NEW t \in Threads, AllocSection(t)
  PROVE  IInv'
  <1> USE HeapAssumption DEF IInv, AllocSection, Goto, malloc
  <1>1. TypeOK'
    BY DEF TypeOK, HeapTypeOK, PC, MemState, PrivateInv, InSection, heapVars, localVars
  <1>2. IndexInv'
    BY DEF TypeOK, IndexInv, Ranged, Created, heapVars, localVars
  <1>3. TableInv'
    BY DEF TypeOK, HeapTypeOK, TableInv, PrivateInv, InSection, heapVars, localVars
  <1>4. PrivateInv'
    BY DEF TypeOK, HeapTypeOK, TableInv, PrivateInv, InSection, heapVars, localVars
  <1>5. HoldInv'
    BY DEF TypeOK, HeapTypeOK, TableInv, PrivateInv, HoldInv, InSection, heapVars, localVars
  <1>6. UnlockInv'
    BY DEF TypeOK, UnlockInv, heapVars, localVars
  <1> QED
    BY <1>1, <1>2, <1>3, <1>4, <1>5, <1>6 DEF IInv

\* exit(ENOMEM) changes nothing else.
LEMMA AllocFailsIInv ==
  ASSUME IInv, NEW t \in Threads, AllocFails(t)
  PROVE  IInv'
  <1> USE HeapAssumption DEF IInv, AllocFails
  <1>1. TypeOK'
    BY DEF TypeOK, HeapTypeOK, PC, MemState, PrivateInv, InSection, heapVars, localVars
  <1>2. IndexInv'
    BY DEF TypeOK, IndexInv, Ranged, Created, heapVars, localVars
  <1>3. TableInv'
    BY DEF TypeOK, HeapTypeOK, TableInv, PrivateInv, InSection, heapVars, localVars
  <1>4. PrivateInv'
    BY DEF TypeOK, HeapTypeOK, TableInv, PrivateInv, InSection, heapVars, localVars
  <1>5. HoldInv'
    BY DEF TypeOK, HeapTypeOK, TableInv, PrivateInv, HoldInv, InSection, heapVars, localVars
  <1>6. UnlockInv'
    BY DEF TypeOK, UnlockInv, heapVars, localVars
  <1> QED
    BY <1>1, <1>2, <1>3, <1>4, <1>5, <1>6 DEF IInv

\* The private section is initialised.
LEMMA InitSectionIInv ==
  ASSUME IInv, NEW t \in Threads, InitSection(t)
  PROVE  IInv'
  <1> USE HeapAssumption DEF IInv, InitSection, Goto, InitializeCriticalSection
  <1>1. TypeOK'
    BY DEF TypeOK, HeapTypeOK, PC, MemState, PrivateInv, InSection, heapVars, localVars
  <1>2. IndexInv'
    BY DEF TypeOK, IndexInv, Ranged, Created, heapVars, localVars
  <1>3. TableInv'
    BY DEF TypeOK, HeapTypeOK, TableInv, PrivateInv, InSection, heapVars, localVars
  <1>4. PrivateInv'
    BY DEF TypeOK, HeapTypeOK, TableInv, PrivateInv, InSection, heapVars, localVars
  <1>5. HoldInv'
    <2>1. lcs[t] \in Addrs /\ \A k \in LockTypes : locks[k] # lcs[t]
      BY DEF PrivateInv, InSection
    <2>2. \A k \in LockTypes : locks[k] # NULL =>
            owner'[locks[k]] = owner[locks[k]] /\ depth'[locks[k]] = depth[locks[k]]
      BY <2>1 DEF TypeOK, HeapTypeOK
    <2> QED
      BY <2>2 DEF HoldInv
  <1>6. UnlockInv'
    BY DEF TypeOK, UnlockInv, heapVars, localVars
  <1> QED
    BY <1>1, <1>2, <1>3, <1>4, <1>5, <1>6 DEF IInv

\* The compare-and-exchange: only the winner changes the table.
LEMMA PublishIInv ==
  ASSUME IInv, NEW t \in Threads, Publish(t)
  PROVE  IInv'
  <1> USE HeapAssumption DEF IInv
  <1>0. call[t].type \in LockTypes /\ lcs[t] \in Addrs /\ pc[t] = "cas"
    BY DEF Publish, IndexInv, Ranged, PrivateInv, InSection
  <1>1. CASE locks[call[t].type] = NULL
    <2>1. /\ ~exited
          /\ pc' = [pc EXCEPT ![t] = Finish(t)]
          /\ locks' = [locks EXCEPT ![call[t].type] = lcs[t]]
          /\ UNCHANGED <<heapVars, call, lcs, held, exited>>
      BY <1>1 DEF Publish, Goto
    <2> USE <1>0, <1>1, <2>1 DEF Finish
    <2>2. TypeOK'
      BY DEF TypeOK, HeapTypeOK, PC, heapVars
    <2>3. IndexInv'
      BY DEF TypeOK, IndexInv, Ranged, Created
    <2>4. TableInv'
      BY DEF TypeOK, HeapTypeOK, TableInv, PrivateInv, InSection, heapVars
    <2>5. PrivateInv'
      BY DEF TypeOK, HeapTypeOK, PrivateInv, InSection, heapVars
    <2>6. HoldInv'
      <3>1. owner[lcs[t]] = NULL /\ depth[lcs[t]] = 0
        BY DEF PrivateInv, InSection
      <3>2. \A u \in Threads : ~(held[u][call[t].type] > 0)
        BY DEF HoldInv
      <3> QED
        BY <3>1, <3>2 DEF TypeOK, HoldInv, heapVars
    <2>7. UnlockInv'
      BY DEF TypeOK, UnlockInv, Calls, Modes
    <2> QED
      BY <2>2, <2>3, <2>4, <2>5, <2>6, <2>7
  <1>2. CASE locks[call[t].type] # NULL
    <2> USE <1>0, <1>2 DEF Publish, Goto
    <2>1. TypeOK'
      BY DEF TypeOK, HeapTypeOK, PC, MemState, PrivateInv, InSection, heapVars, localVars
    <2>2. IndexInv'
      BY DEF TypeOK, IndexInv, Ranged, Created, heapVars, localVars
    <2>3. TableInv'
      BY DEF TypeOK, HeapTypeOK, TableInv, PrivateInv, InSection, heapVars, localVars
    <2>4. PrivateInv'
      BY DEF TypeOK, HeapTypeOK, TableInv, PrivateInv, InSection, heapVars, localVars
    <2>5. HoldInv'
      BY DEF HoldInv, heapVars
    <2>6. UnlockInv'
      BY DEF TypeOK, UnlockInv, heapVars, localVars
    <2> QED
      BY <2>1, <2>2, <2>3, <2>4, <2>5, <2>6 DEF IInv
  <1> QED
    BY <1>1, <1>2

\* The loser's section is private.
LEMMA DeleteLoserIInv ==
  ASSUME IInv, NEW t \in Threads, DeleteLoser(t)
  PROVE  IInv'
  <1> USE HeapAssumption DEF IInv, DeleteLoser, Goto, DeleteCriticalSection
  <1>1. TypeOK'
    BY DEF TypeOK, HeapTypeOK, PC, MemState, PrivateInv, InSection, heapVars, localVars
  <1>2. IndexInv'
    BY DEF TypeOK, IndexInv, Ranged, Created, heapVars, localVars
  <1>3. TableInv'
    BY DEF TypeOK, HeapTypeOK, TableInv, PrivateInv, InSection, heapVars, localVars
  <1>4. PrivateInv'
    BY DEF TypeOK, HeapTypeOK, TableInv, PrivateInv, InSection, heapVars, localVars
  <1>5. HoldInv'
    BY DEF TypeOK, HeapTypeOK, TableInv, PrivateInv, HoldInv, InSection, heapVars, localVars
  <1>6. UnlockInv'
    BY DEF TypeOK, UnlockInv, heapVars, localVars
  <1> QED
    BY <1>1, <1>2, <1>3, <1>4, <1>5, <1>6 DEF IInv

\* The loser's memory is private.
LEMMA FreeLoserIInv ==
  ASSUME IInv, NEW t \in Threads, FreeLoser(t)
  PROVE  IInv'
  <1> USE HeapAssumption DEF IInv, FreeLoser, Goto, Finish, free
  <1>1. TypeOK'
    BY DEF TypeOK, HeapTypeOK, PC, MemState, PrivateInv, InSection, heapVars, localVars
  <1>2. IndexInv'
    BY DEF TypeOK, IndexInv, Ranged, Created, heapVars, localVars
  <1>3. TableInv'
    BY DEF TypeOK, HeapTypeOK, TableInv, PrivateInv, InSection, heapVars, localVars
  <1>4. PrivateInv'
    BY DEF TypeOK, HeapTypeOK, TableInv, PrivateInv, InSection, heapVars, localVars
  <1>5. HoldInv'
    BY DEF TypeOK, HeapTypeOK, TableInv, PrivateInv, HoldInv, InSection, heapVars, localVars
  <1>6. UnlockInv'
    BY DEF TypeOK, UnlockInv, Calls, Modes
  <1> QED
    BY <1>1, <1>2, <1>3, <1>4, <1>5, <1>6 DEF IInv

\* Entering keeps the section's owner and count in step with the callers.
LEMMA EnterIInv ==
  ASSUME IInv, NEW t \in Threads, Enter(t)
  PROVE  IInv'
  <1> DEFINE k == call[t].type
  <1> DEFINE a == locks[k]
  <1> USE HeapAssumption DEF IInv
  <1>1. k \in LockTypes /\ a \in Addrs /\ call[t].mode = "LOCK"
    BY DEF Enter, Return, Goto, TypeOK, IndexInv, UnlockInv, Ranged, Created
  <1>2. held[t][k] \in Nat /\ depth[a] \in Nat
    BY <1>1 DEF TypeOK, HeapTypeOK
  <1>3. /\ held'[t][k] = held[t][k] + 1
        /\ depth'[a] = depth[a] + 1
        /\ owner'[a] = t
        /\ depth[a] = held[t][k]
        /\ \A u \in Threads : u # t => ~(held[u][k] > 0)
    BY <1>1, <1>2 DEF Enter, EnterCriticalSection, HoldInv, TypeOK, HeapTypeOK
  <1>4. TypeOK'
    <2>1. HeapTypeOK'
      BY <1>1, <1>2, <1>3 DEF TypeOK, HeapTypeOK, Enter, EnterCriticalSection
    <2>2. held' \in [Threads -> [LockTypes -> Nat]]
      BY <1>1, <1>2, <1>3 DEF TypeOK, Enter
    <2> QED
      BY <2>1, <2>2, NoCallType DEF TypeOK, Enter, Return, Goto, PC
  <1>5. IndexInv'
    BY DEF TypeOK, IndexInv, Ranged, Created, Enter, Return, Goto
  <1>6. TableInv'
    BY DEF TableInv, Enter, EnterCriticalSection
  <1>7. PrivateInv'
    <2>1. \A b \in Addrs : b # a => owner'[b] = owner[b] /\ depth'[b] = depth[b]
      BY <1>1 DEF TypeOK, HeapTypeOK, Enter, EnterCriticalSection
    <2> QED
      BY <1>1, <2>1 DEF TypeOK, HeapTypeOK, PrivateInv, InSection, Enter, Return, Goto, EnterCriticalSection
  <1>8. HoldInv'
    <2>1. \A j \in LockTypes : j # k /\ locks[j] # NULL =>
            /\ owner'[locks[j]] = owner[locks[j]]
            /\ depth'[locks[j]] = depth[locks[j]]
      BY <1>1 DEF TypeOK, HeapTypeOK, TableInv, Enter, EnterCriticalSection
    <2>2. \A u \in Threads, j \in LockTypes : u # t \/ j # k => held'[u][j] = held[u][j]
      BY <1>1 DEF TypeOK, Enter
    <2>3. UNCHANGED locks
      BY DEF Enter
    <2>4. ASSUME NEW u \in Threads, NEW j \in LockTypes, held'[u][j] > 0
          PROVE  locks[j] # NULL /\ owner'[locks[j]] = u
      <3>1. CASE j = k /\ u = t
        BY <1>1, <1>2, <1>3, <3>1
      <3>2. CASE j = k /\ u # t
        BY <1>3, <2>2, <2>4, <3>2
      <3>3. CASE j # k
        BY <2>1, <2>2, <2>4, <3>3 DEF HoldInv
      <3> QED
        BY <3>1, <3>2, <3>3
    <2>5. ASSUME NEW j \in LockTypes, locks[j] # NULL
          PROVE  /\ owner'[locks[j]] = NULL => depth'[locks[j]] = 0
                 /\ \A u \in Threads : owner'[locks[j]] = u => depth'[locks[j]] = held'[u][j]
      <3>1. CASE j = k
        BY <1>1, <1>2, <1>3, <3>1
      <3>2. CASE j # k
        BY <2>1, <2>2, <2>5, <3>2 DEF HoldInv
      <3> QED
        BY <3>1, <3>2
    <2> QED
      BY <2>3, <2>4, <2>5 DEF HoldInv
  <1>9. UnlockInv'
    BY <1>1, <1>2 DEF TypeOK, UnlockInv, Enter, Return, Goto
  <1> QED
    BY <1>4, <1>5, <1>6, <1>7, <1>8, <1>9

\* Leaving keeps the section's owner and count in step with the callers.
LEMMA LeaveIInv ==
  ASSUME IInv, NEW t \in Threads, Leave(t)
  PROVE  IInv'
  <1> DEFINE k == call[t].type
  <1> DEFINE a == locks[k]
  <1> USE HeapAssumption DEF IInv
  <1>1. k \in LockTypes /\ a \in Addrs /\ call[t].mode = "UNLOCK"
    BY DEF Leave, Return, Goto, TypeOK, IndexInv, UnlockInv, Ranged, Created
  <1>2. held[t][k] \in Nat /\ depth[a] \in Nat
    BY <1>1 DEF TypeOK, HeapTypeOK
  <1>3. /\ held[t][k] > 0
        /\ depth[a] = held[t][k]
        /\ held'[t][k] = held[t][k] - 1
        /\ depth'[a] = depth[a] - 1
        /\ owner'[a] = IF depth[a] = 1 THEN NULL ELSE t
        /\ \A u \in Threads : u # t => ~(held[u][k] > 0)
    <2>1. held[t][k] > 0
      BY <1>1 DEF Leave, Return, Goto, UnlockInv
    <2>2. owner[a] = t /\ depth[a] = held[t][k]
      BY <1>1, <2>1 DEF HoldInv
    <2>3. \A u \in Threads : u # t => ~(held[u][k] > 0)
      BY <1>1, <2>2 DEF HoldInv
    <2> QED
      BY <1>1, <2>1, <2>2, <2>3 DEF Leave, LeaveCriticalSection, TypeOK, HeapTypeOK
  <1>4. TypeOK'
    <2>1. HeapTypeOK'
      BY <1>1, <1>2, <1>3 DEF TypeOK, HeapTypeOK, Leave, LeaveCriticalSection
    <2>2. held' \in [Threads -> [LockTypes -> Nat]]
      BY <1>1, <1>2, <1>3 DEF TypeOK, Leave
    <2> QED
      BY <2>1, <2>2, NoCallType DEF TypeOK, Leave, Return, Goto, PC
  <1>5. IndexInv'
    BY DEF TypeOK, IndexInv, Ranged, Created, Leave, Return, Goto
  <1>6. TableInv'
    BY DEF TableInv, Leave, LeaveCriticalSection
  <1>7. PrivateInv'
    <2>1. \A b \in Addrs : b # a => owner'[b] = owner[b] /\ depth'[b] = depth[b]
      BY <1>1 DEF TypeOK, HeapTypeOK, Leave, LeaveCriticalSection
    <2> QED
      BY <1>1, <2>1 DEF TypeOK, HeapTypeOK, PrivateInv, InSection, Leave, Return, Goto, LeaveCriticalSection
  <1>8. HoldInv'
    <2>1. \A j \in LockTypes : j # k /\ locks[j] # NULL =>
            /\ owner'[locks[j]] = owner[locks[j]]
            /\ depth'[locks[j]] = depth[locks[j]]
      BY <1>1 DEF TypeOK, HeapTypeOK, TableInv, Leave, LeaveCriticalSection
    <2>2. \A u \in Threads, j \in LockTypes : u # t \/ j # k => held'[u][j] = held[u][j]
      BY <1>1 DEF TypeOK, Leave
    <2>3. UNCHANGED locks
      BY DEF Leave
    <2>4. ASSUME NEW u \in Threads, NEW j \in LockTypes, held'[u][j] > 0
          PROVE  locks[j] # NULL /\ owner'[locks[j]] = u
      <3>1. CASE j = k /\ u = t
        BY <1>1, <1>2, <1>3, <2>4, <3>1
      <3>2. CASE j = k /\ u # t
        BY <1>3, <2>2, <2>4, <3>2
      <3>3. CASE j # k
        BY <2>1, <2>2, <2>4, <3>3 DEF HoldInv
      <3> QED
        BY <3>1, <3>2, <3>3
    <2>5. ASSUME NEW j \in LockTypes, locks[j] # NULL
          PROVE  /\ owner'[locks[j]] = NULL => depth'[locks[j]] = 0
                 /\ \A u \in Threads : owner'[locks[j]] = u => depth'[locks[j]] = held'[u][j]
      <3>1. CASE j = k /\ depth[a] = 1
        BY <1>3, <3>1
      <3>2. CASE j = k /\ depth[a] # 1
        BY <1>3, <3>2
      <3>3. CASE j # k
        BY <2>1, <2>2, <2>5, <3>3 DEF HoldInv
      <3> QED
        BY <3>1, <3>2, <3>3
    <2> QED
      BY <2>3, <2>4, <2>5 DEF HoldInv
  <1>9. UnlockInv'
    BY <1>1, <1>2 DEF TypeOK, UnlockInv, Leave, Return, Goto
  <1> QED
    BY <1>4, <1>5, <1>6, <1>7, <1>8, <1>9

\* Every step preserves the invariant.
LEMMA NextIInv == IInv /\ [Next]_vars => IInv'
  <1> SUFFICES ASSUME IInv, [Next]_vars PROVE IInv'
    OBVIOUS
  <1>1. CASE UNCHANGED vars
    BY <1>1 DEF vars, IInv, TypeOK, HeapTypeOK, IndexInv, TableInv, PrivateInv, HoldInv,
                UnlockInv, Ranged, Created, InSection
  <1>2. ASSUME NEW t \in Threads, NEW c \in Calls, CRYPTO_lock(t, c) PROVE IInv'
    BY <1>2, CRYPTO_lockIInv
  <1>3. ASSUME NEW t \in Threads, Step(t) PROVE IInv'
    BY <1>3, RangeTestIInv, NullTestIInv, AllocSectionIInv, AllocFailsIInv, InitSectionIInv,
       PublishIInv, DeleteLoserIInv, FreeLoserIInv, EnterIInv, LeaveIInv DEF Step
  <1> QED
    BY <1>1, <1>2, <1>3 DEF Next, Exited

\* The inductive invariant holds in every reachable state of CRYPTO_lock.
THEOREM Invariant == Spec => []IInv
  BY InitIInv, NextIInv, PTL DEF Spec

(***************************************************************************)
(* Type correctness: in particular no count of a critical section or of a  *)
(* caller ever goes below zero, so no unlock is unmatched.                 *)
(***************************************************************************)
THEOREM TypeCorrect == Spec => []TypeOK
  <1>1. IInv => TypeOK
    BY DEF IInv
  <1> QED
    BY <1>1, Invariant, PTL

(***************************************************************************)
(* CRYPTO_lock is mutually exclusive for any number of threads and types.  *)
(***************************************************************************)
THEOREM MutexCorrect == Spec => []MutualExclusion
  <1>1. IInv => MutualExclusion
    BY DEF IInv, HoldInv, MutualExclusion
  <1> QED
    BY <1>1, Invariant, PTL

(***************************************************************************)
(* CRYPTO_lock enters and leaves initialised critical sections only.       *)
(***************************************************************************)
THEOREM SectionsLive == Spec => []UsesLiveSection
  <1>1. IInv => UsesLiveSection
    BY DEF IInv, IndexInv, TableInv, UsesLiveSection, Ranged, Created
  <1> QED
    BY <1>1, Invariant, PTL

(***************************************************************************)
(* No allocation of CRYPTO_lock is lost, whoever loses the race.           *)
(***************************************************************************)
THEOREM LeakFree == Spec => []NoLeak
  <1>1. Init => NoLeak
    BY DEF Init, HeapInit, NoLeak
  <1>2. IInv /\ NoLeak /\ [Next]_vars => NoLeak'
    <2> SUFFICES ASSUME IInv, NoLeak, [Next]_vars, NEW a \in Addrs, mem'[a] # "free"
                 PROVE  \/ \E k \in LockTypes : locks'[k] = a
                        \/ \E u \in Threads : InSection(u)' /\ lcs'[u] = a
      BY DEF NoLeak
    <2>1. CASE UNCHANGED <<mem, locks, pc, lcs>>
      BY <2>1 DEF NoLeak, InSection
    <2>2. ASSUME NEW t \in Threads, mem' = mem, locks' = locks, ~InSection(t),
                 \A u \in Threads : u # t => pc'[u] = pc[u] /\ lcs'[u] = lcs[u]
          PROVE  \/ \E k \in LockTypes : locks'[k] = a
                 \/ \E u \in Threads : InSection(u)' /\ lcs'[u] = a
      BY <2>2 DEF NoLeak, InSection
    <2>3. ASSUME NEW t \in Threads, AllocSection(t)
          PROVE  \/ \E k \in LockTypes : locks'[k] = a
                 \/ \E u \in Threads : InSection(u)' /\ lcs'[u] = a
      <3>1. PICK b \in Addrs : malloc(b) /\ lcs' = [lcs EXCEPT ![t] = b]
        BY <2>3 DEF AllocSection
      <3>2. CASE a = b
        BY <2>3, <3>1, <3>2 DEF AllocSection, Goto, InSection, IInv, TypeOK
      <3>3. CASE a # b
        BY <2>3, <3>1, <3>3
           DEF AllocSection, malloc, Goto, NoLeak, InSection, IInv, TypeOK, HeapTypeOK
      <3> QED
        BY <3>2, <3>3
    <2>4. ASSUME NEW t \in Threads, InitSection(t) \/ DeleteLoser(t) \/ FreeLoser(t)
          PROVE  \/ \E k \in LockTypes : locks'[k] = a
                 \/ \E u \in Threads : InSection(u)' /\ lcs'[u] = a
      <3>1. locks' = locks /\ lcs' = lcs /\ lcs[t] \in Addrs /\ InSection(t)
        BY <2>4 DEF InitSection, DeleteLoser, FreeLoser, Goto, IInv, PrivateInv, InSection
      <3>2. \A u \in Threads : u # t => pc'[u] = pc[u]
        BY <2>4 DEF InitSection, DeleteLoser, FreeLoser, Goto, IInv, TypeOK
      <3>3. CASE a = lcs[t]
        BY <2>4, <3>1, <3>3 DEF InitSection, DeleteLoser, FreeLoser, free, Goto, InSection,
                                IInv, TypeOK, HeapTypeOK
      <3>4. CASE a # lcs[t]
        <4>1. mem'[a] = mem[a]
          BY <2>4, <3>1, <3>4 DEF InitSection, InitializeCriticalSection, DeleteLoser,
             DeleteCriticalSection, FreeLoser, free, IInv, TypeOK, HeapTypeOK
        <4> QED
          BY <3>1, <3>2, <3>4, <4>1 DEF NoLeak, InSection
      <3> QED
        BY <3>3, <3>4
    <2>5. ASSUME NEW t \in Threads, Publish(t)
          PROVE  \/ \E k \in LockTypes : locks'[k] = a
                 \/ \E u \in Threads : InSection(u)' /\ lcs'[u] = a
      <3>1. call[t].type \in LockTypes /\ mem'[a] = mem[a] /\ lcs' = lcs
        BY <2>5 DEF Publish, heapVars, IInv, IndexInv, Ranged
      <3>2. CASE locks[call[t].type] = NULL
        <4>1. locks'[call[t].type] = lcs[t]
          BY <2>5, <3>1, <3>2 DEF Publish, IInv, TypeOK
        <4>2. \A k \in LockTypes : locks[k] = a => locks'[k] = a
          BY <2>5, <3>2, HeapAssumption DEF Publish, IInv, TypeOK
        <4>3. \A u \in Threads : u # t => pc'[u] = pc[u]
          BY <2>5 DEF Publish, Goto, IInv, TypeOK
        <4> QED
          BY <3>1, <4>1, <4>2, <4>3 DEF NoLeak, InSection
      <3>3. CASE locks[call[t].type] # NULL
        BY <2>5, <3>1, <3>3 DEF Publish, Goto, NoLeak, InSection, IInv, TypeOK
      <3> QED
        BY <3>2, <3>3
    <2>6. ASSUME NEW t \in Threads, NEW c \in Calls, CRYPTO_lock(t, c)
          PROVE  \/ \E k \in LockTypes : locks'[k] = a
                 \/ \E u \in Threads : InSection(u)' /\ lcs'[u] = a
      BY <2>2, <2>6 DEF CRYPTO_lock, Goto, InSection, heapVars, IInv, TypeOK
    <2>7. ASSUME NEW t \in Threads,
                 RangeTest(t) \/ NullTest(t) \/ AllocFails(t) \/ Enter(t) \/ Leave(t)
          PROVE  \/ \E k \in LockTypes : locks'[k] = a
                 \/ \E u \in Threads : InSection(u)' /\ lcs'[u] = a
      BY <2>2, <2>7 DEF RangeTest, NullTest, AllocFails, Enter, Leave, Return, Goto, InSection,
           EnterCriticalSection, LeaveCriticalSection, heapVars, localVars, IInv, TypeOK
    <2> QED
      BY <2>1, <2>3, <2>4, <2>5, <2>6, <2>7 DEF Next, Step, Exited, vars
  <1> QED
    BY <1>1, <1>2, Invariant, PTL DEF Spec

(***************************************************************************)
(* A published entry of the table locks[] never changes again.             *)
(***************************************************************************)
THEOREM Published == Spec => PublishedStays
  <1>1. IInv /\ [Next]_vars => [\A k \in LockTypes : locks[k] # NULL => locks'[k] = locks[k]]_vars
    <2> SUFFICES ASSUME IInv, Next, NEW k \in LockTypes, locks[k] # NULL
                 PROVE  locks'[k] = locks[k]
      OBVIOUS
    <2>1. ASSUME NEW t \in Threads, Publish(t) PROVE locks'[k] = locks[k]
      BY <2>1 DEF Publish, IInv, TypeOK
    <2> QED
      BY <2>1 DEF Next, Step, CRYPTO_lock, RangeTest, NullTest, AllocSection, AllocFails,
                  InitSection, DeleteLoser, FreeLoser, Enter, Leave, Exited, vars
  <1> QED
    BY <1>1, Invariant, PTL DEF Spec, PublishedStays

(***************************************************************************)
(* CRYPTO_lock implements the table of locks that libcrypto relies on:     *)
(* entering is the abstract acquire, leaving the abstract release, and     *)
(* every other step of the lazy creation is invisible.                     *)
(***************************************************************************)
THEOREM Refinement == Spec => ImplementsLockTable
  <1>1. Init => Abstract!Init
    BY DEF Init, Abstract!Init
  <1>2. IInv /\ [Next]_vars => [Abstract!Next]_held
    <2> SUFFICES ASSUME IInv, [Next]_vars, held' # held PROVE Abstract!Next
      OBVIOUS
    <2>1. ASSUME NEW t \in Threads, Enter(t) PROVE Abstract!Next
      <3>1. call[t].type \in LockTypes /\ locks[call[t].type] # NULL
        BY <2>1 DEF Enter, Return, Goto, IInv, IndexInv, Ranged, Created
      <3>2. \A u \in Threads \ {t} : held[u][call[t].type] = 0
        BY <2>1, <3>1, HeapAssumption
           DEF Enter, EnterCriticalSection, IInv, TypeOK, HoldInv
      <3>3. Abstract!Acquire(t, call[t].type)
        BY <2>1, <3>2 DEF Enter, Abstract!Acquire
      <3> QED
        BY <3>1, <3>3 DEF Abstract!Next
    <2>2. ASSUME NEW t \in Threads, Leave(t) PROVE Abstract!Next
      <3>1. call[t].type \in LockTypes /\ held[t][call[t].type] > 0
        BY <2>2 DEF Leave, Return, Goto, IInv, IndexInv, UnlockInv, Ranged
      <3>2. Abstract!Release(t, call[t].type)
        BY <2>2, <3>1 DEF Leave, Abstract!Release
      <3> QED
        BY <3>1, <3>2 DEF Abstract!Next
    <2>3. UNCHANGED held \/ \E t \in Threads : Enter(t) \/ Leave(t)
      BY DEF Next, Step, CRYPTO_lock, RangeTest, NullTest, AllocSection, AllocFails,
             InitSection, Publish, DeleteLoser, FreeLoser, Exited, vars
    <2> QED
      BY <2>1, <2>2, <2>3
  <1> QED
    BY <1>1, <1>2, Invariant, PTL DEF Spec, ImplementsLockTable, Abstract!Spec

=============================================================================
