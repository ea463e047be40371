-------------------------- MODULE PthreadWinProofs --------------------------
(***************************************************************************)
(* Proofs that the mutexes and pthread_once() of include/compat/pthread.h  *)
(* are correct on Windows for any number of threads, mutexes and addresses *)
(* and however deep the mutexes are nested: through lazy creation, through *)
(* pthread_mutex_init in a pthread_once() callback, and through            *)
(* pthread_mutex_destroy and the reuse of freed memory.                    *)
(***************************************************************************)
EXTENDS PthreadWin, TLAPS

\* Where a call may be: in pthread_mutex_lock, with a section of its own making there, in the
\* callback of pthread_once, in pthread_mutex_destroy.
Locking(t) == pc[t] \in {"test", "malloc", "init", "cas", "delete", "free", "enter"}
Making(t) == pc[t] \in {"init", "cas", "delete", "free"}
InCallback(t) == pc[t] \in {"cb_malloc", "cb_init", "cb_return"}
Destroying(t) == pc[t] \in {"d_test", "d_delete", "d_free", "d_null"}

\* Some thread has allocated the section of m in the callback and not initialised it; has
\* deleted it and not freed it; has freed it and not cleared the pointer.
Raw(m) == \E t \in Threads : pc[t] = "cb_init" /\ call[t] = m
Dead(m) == \E t \in Threads : pc[t] = "d_free" /\ call[t] = m
Dangling(m) == \E t \in Threads : pc[t] = "d_null" /\ call[t] = m

\* What a call is about, and where the pointer must be there.
CallInv ==
  \A t \in Threads :
    /\ pc[t] # "idle" => call[t] \in Mutexes
    /\ pc[t] = "once" \/ InCallback(t) => call[t] \in Dynamics
    /\ Locking(t) \/ Destroying(t) => call[t] \in Statics \cup ready[t]
    /\ pc[t] = "leave" => held[t][call[t]] > 0
    /\ pc[t] \in {"delete", "free", "enter", "cb_init", "cb_return", "d_delete", "d_free", "d_null"}
         => lock[call[t]] # NULL

\* pthread_once: one thread is in the callback, the pointer is NULL until it has allocated, and
\* whoever may use the mutex comes after it.
OnceInv ==
  /\ \A t \in Threads : InCallback(t) => once[call[t]] = t
  /\ \A t \in Threads : pc[t] = "cb_malloc" => lock[call[t]] = NULL
  /\ \A m \in Dynamics : once[m] = "no" => lock[m] = NULL
  /\ \A t \in Threads : \A m \in ready[t] : once[m] = "done"

\* A mutex that is being or has been destroyed is used by its destroyer only.
RetiredInv ==
  /\ \A t \in Threads : Destroying(t) => call[t] \in retired
  /\ \A t, u \in Threads : Destroying(t) /\ pc[u] # "idle" /\ call[u] = call[t] => u = t
  /\ \A t \in Threads : pc[t] # "idle" /\ call[t] \in retired => Destroying(t)
  /\ \A m \in retired : (\A t \in Threads : pc[t] = "idle" \/ call[t] # m) => lock[m] = NULL

\* A pointer that does not dangle is to allocated memory, to a live section unless it is being
\* created or deleted, and no two of them are the same.
TableInv ==
  /\ \A m \in Mutexes : lock[m] # NULL /\ ~Dangling(m) =>
       /\ mem[lock[m]] # "free"
       /\ mem[lock[m]] = "live" \/ Raw(m) \/ Dead(m)
  /\ \A m, n \in Mutexes :
       lock[m] # NULL /\ lock[m] = lock[n] /\ ~Dangling(m) /\ ~Dangling(n) => m = n

\* The section that pthread_mutex_lock is making is private to its thread.
PrivateInv ==
  \A t \in Threads : Making(t) =>
    /\ lcs[t] \in Addrs
    /\ mem[lcs[t]] # "free"
    /\ \A m \in Mutexes : lock[m] = lcs[t] => Dangling(m)
    /\ \A u \in Threads : Making(u) /\ lcs[u] = lcs[t] => u = t
    /\ pc[t] = "cas" =>
         /\ mem[lcs[t]] = "live"
         /\ owner[lcs[t]] = NULL
         /\ depth[lcs[t]] = 0

\* What the program holds is what the critical sections record.
HoldInv ==
  /\ \A t \in Threads, m \in Mutexes : held[t][m] > 0 =>
       /\ m \in Statics \cup ready[t] /\ m \notin retired
       /\ lock[m] # NULL /\ owner[lock[m]] = t
  /\ \A m \in Mutexes \ retired : lock[m] # NULL /\ ~Raw(m) =>
       /\ owner[lock[m]] = NULL => depth[lock[m]] = 0
       /\ \A t \in Threads : owner[lock[m]] = t => depth[lock[m]] = held[t][m]

\* Allocated memory is reached from a pointer that does not dangle, or is being made.
ReachInv ==
  \A a \in Addrs : mem[a] # "free" =>
    \/ \E m \in Mutexes : lock[m] = a /\ ~Dangling(m)
    \/ \E t \in Threads : Making(t) /\ lcs[t] = a

IInv == /\ TypeOK /\ CallInv /\ OnceInv /\ RetiredInv /\ TableInv /\ PrivateInv /\ HoldInv
        /\ ReachInv

-----------------------------------------------------------------------------
\* A step of t that neither starts nor ends one of the three stages leaves them alone.
LEMMA StageFrame ==
  ASSUME NEW t \in Threads,
         pc[t] \notin {"cb_init", "d_free", "d_null"},
         pc'[t] \notin {"cb_init", "d_free", "d_null"},
         \A u \in Threads \ {t} : pc'[u] = pc[u] /\ call'[u] = call[u]
  PROVE  \A m : (Raw(m)' <=> Raw(m)) /\ (Dead(m)' <=> Dead(m)) /\ (Dangling(m)' <=> Dangling(m))
  BY DEF Raw, Dead, Dangling

\* A pointer dangles in its destroyer's hands only.
LEMMA DanglingRetired ==
  ASSUME IInv, NEW m, Dangling(m)
  PROVE  m \in retired
  BY DEF IInv, RetiredInv, Dangling, Destroying

\* The initial state satisfies the invariant.
LEMMA InitIInv == Init => IInv
  <1> SUFFICES ASSUME Init PROVE IInv
    OBVIOUS
  <1> USE HeapAssumption, PthreadAssumption DEF Init, HeapInit
  <1>1. TypeOK
    BY DEF TypeOK, HeapTypeOK, MemState, PC
  <1>2. CallInv /\ OnceInv /\ RetiredInv
    BY DEF CallInv, OnceInv, RetiredInv, Locking, Destroying, InCallback, Mutexes
  <1>3. TableInv /\ PrivateInv /\ HoldInv /\ ReachInv
    BY DEF TableInv, PrivateInv, HoldInv, ReachInv, Making, Mutexes
  <1> QED
    BY <1>1, <1>2, <1>3 DEF IInv

\* A new lock call.
LEMMA MutexLockIInv ==
  ASSUME IInv, NEW t \in Threads, NEW m \in Mutexes, pthread_mutex_lock(t, m)
  PROVE  IInv'
  <1> USE HeapAssumption, PthreadAssumption
          DEF IInv, heapVars, Mutexes, pthread_mutex_lock, Begin, Goto
  <1>0. \A k : (Raw(k)' <=> Raw(k)) /\ (Dead(k)' <=> Dead(k)) /\ (Dangling(k)' <=> Dangling(k))
    BY StageFrame DEF TypeOK
  <1>1. TypeOK'
    BY <1>0 DEF TypeOK, HeapTypeOK, PC, MemState
  <1>2. CallInv'
    BY <1>0 DEF TypeOK, CallInv, Locking, Destroying, InCallback
  <1>3. OnceInv'
    BY <1>0 DEF TypeOK, CallInv, OnceInv, Locking, Destroying, InCallback
  <1>4. RetiredInv'
    BY <1>0 DEF TypeOK, CallInv, RetiredInv, Destroying
  <1>5. TableInv'
    BY <1>0 DEF TypeOK, HeapTypeOK, CallInv, TableInv, PrivateInv, Making
  <1>6. PrivateInv'
    BY <1>0 DEF TypeOK, HeapTypeOK, CallInv, TableInv, PrivateInv, Making
  <1>7. HoldInv'
    BY <1>0 DEF TypeOK, HeapTypeOK, CallInv, TableInv, PrivateInv, HoldInv, Making
  <1>8. ReachInv'
    BY <1>0 DEF TypeOK, HeapTypeOK, CallInv, ReachInv, Making
  <1> QED
    BY <1>1, <1>2, <1>3, <1>4, <1>5, <1>6, <1>7, <1>8

\* A new unlock call, by a thread that holds the mutex.
LEMMA MutexUnlockIInv ==
  ASSUME IInv, NEW t \in Threads, NEW m \in Mutexes, pthread_mutex_unlock(t, m)
  PROVE  IInv'
  <1> USE HeapAssumption, PthreadAssumption
          DEF IInv, heapVars, Mutexes, pthread_mutex_unlock, Begin, Goto
  <1>0. \A k : (Raw(k)' <=> Raw(k)) /\ (Dead(k)' <=> Dead(k)) /\ (Dangling(k)' <=> Dangling(k))
    BY StageFrame DEF TypeOK
  <1>1. TypeOK'
    BY <1>0 DEF TypeOK, HeapTypeOK, PC, MemState
  <1>2. CallInv'
    BY <1>0 DEF TypeOK, CallInv, Locking, Destroying, InCallback
  <1>3. OnceInv'
    BY <1>0 DEF TypeOK, CallInv, OnceInv, Locking, Destroying, InCallback
  <1>4. RetiredInv'
    BY <1>0 DEF TypeOK, CallInv, RetiredInv, HoldInv, Destroying
  <1>5. TableInv'
    BY <1>0 DEF TypeOK, HeapTypeOK, CallInv, TableInv, PrivateInv, Making
  <1>6. PrivateInv'
    BY <1>0 DEF TypeOK, HeapTypeOK, CallInv, TableInv, PrivateInv, Making
  <1>7. HoldInv'
    BY <1>0 DEF TypeOK, HeapTypeOK, CallInv, TableInv, PrivateInv, HoldInv, Making
  <1>8. ReachInv'
    BY <1>0 DEF TypeOK, HeapTypeOK, CallInv, ReachInv, Making
  <1> QED
    BY <1>1, <1>2, <1>3, <1>4, <1>5, <1>6, <1>7, <1>8

\* A new pthread_once call.
LEMMA OnceIInv ==
  ASSUME IInv, NEW t \in Threads, NEW m \in Mutexes, pthread_once(t, m)
  PROVE  IInv'
  <1> USE HeapAssumption, PthreadAssumption DEF IInv, heapVars, Mutexes, pthread_once, Begin, Goto
  <1>0. \A k : (Raw(k)' <=> Raw(k)) /\ (Dead(k)' <=> Dead(k)) /\ (Dangling(k)' <=> Dangling(k))
    BY StageFrame DEF TypeOK
  <1>1. TypeOK'
    BY <1>0 DEF TypeOK, HeapTypeOK, PC, MemState
  <1>2. CallInv'
    BY <1>0 DEF TypeOK, CallInv, Locking, Destroying, InCallback
  <1>3. OnceInv'
    BY <1>0 DEF TypeOK, CallInv, OnceInv, Locking, Destroying, InCallback
  <1>4. RetiredInv'
    BY <1>0 DEF TypeOK, CallInv, RetiredInv, Destroying
  <1>5. TableInv'
    BY <1>0 DEF TypeOK, HeapTypeOK, CallInv, TableInv, PrivateInv, Making
  <1>6. PrivateInv'
    BY <1>0 DEF TypeOK, HeapTypeOK, CallInv, TableInv, PrivateInv, Making
  <1>7. HoldInv'
    BY <1>0 DEF TypeOK, HeapTypeOK, CallInv, TableInv, PrivateInv, HoldInv, Making
  <1>8. ReachInv'
    BY <1>0 DEF TypeOK, HeapTypeOK, CallInv, ReachInv, Making
  <1> QED
    BY <1>1, <1>2, <1>3, <1>4, <1>5, <1>6, <1>7, <1>8

\* The program destroys a mutex that nobody uses.
LEMMA MutexDestroyIInv ==
  ASSUME IInv, NEW t \in Threads, NEW m \in Mutexes, pthread_mutex_destroy(t, m)
  PROVE  IInv'
  <1> USE HeapAssumption, PthreadAssumption
          DEF IInv, heapVars, Mutexes, pthread_mutex_destroy, Begin, Goto
  <1>0. \A k : (Raw(k)' <=> Raw(k)) /\ (Dead(k)' <=> Dead(k)) /\ (Dangling(k)' <=> Dangling(k))
    BY StageFrame DEF TypeOK
  <1>1. TypeOK'
    BY <1>0 DEF TypeOK, HeapTypeOK, PC, MemState
  <1>2. CallInv'
    BY <1>0 DEF TypeOK, CallInv, Locking, Destroying, InCallback
  <1>3. OnceInv'
    BY <1>0 DEF TypeOK, CallInv, OnceInv, Locking, Destroying, InCallback
  <1>4. RetiredInv'
    BY <1>0 DEF TypeOK, CallInv, RetiredInv, Destroying
  <1>5. TableInv'
    BY <1>0 DEF TypeOK, HeapTypeOK, CallInv, TableInv, PrivateInv, Making
  <1>6. PrivateInv'
    BY <1>0 DEF TypeOK, HeapTypeOK, CallInv, TableInv, PrivateInv, Making
  <1>7. HoldInv'
    BY <1>0 DEF TypeOK, HeapTypeOK, CallInv, TableInv, PrivateInv, HoldInv, Making
  <1>8. ReachInv'
    BY <1>0 DEF TypeOK, HeapTypeOK, CallInv, ReachInv, Making
  <1> QED
    BY <1>1, <1>2, <1>3, <1>4, <1>5, <1>6, <1>7, <1>8

\* The test of mutex->lock.
LEMMA NullTestIInv ==
  ASSUME IInv, NEW t \in Threads, NullTest(t)
  PROVE  IInv'
  <1> USE HeapAssumption, PthreadAssumption DEF IInv, heapVars, Mutexes, NullTest, Goto
  <1>0. \A k : (Raw(k)' <=> Raw(k)) /\ (Dead(k)' <=> Dead(k)) /\ (Dangling(k)' <=> Dangling(k))
    BY StageFrame DEF TypeOK
  <1>1. TypeOK'
    BY <1>0 DEF TypeOK, HeapTypeOK, PC, MemState
  <1>2. CallInv'
    BY <1>0 DEF TypeOK, CallInv, Locking, Destroying, InCallback
  <1>3. OnceInv'
    BY <1>0 DEF TypeOK, CallInv, OnceInv, Locking, Destroying, InCallback
  <1>4. RetiredInv'
    BY <1>0 DEF TypeOK, CallInv, RetiredInv, Destroying
  <1>5. TableInv'
    BY <1>0 DEF TypeOK, HeapTypeOK, CallInv, TableInv, PrivateInv, Making
  <1>6. PrivateInv'
    BY <1>0 DEF TypeOK, HeapTypeOK, CallInv, TableInv, PrivateInv, Making
  <1>7. HoldInv'
    BY <1>0 DEF TypeOK, HeapTypeOK, CallInv, TableInv, PrivateInv, HoldInv, Making
  <1>8. ReachInv'
    BY <1>0 DEF TypeOK, HeapTypeOK, CallInv, ReachInv, Making
  <1> QED
    BY <1>1, <1>2, <1>3, <1>4, <1>5, <1>6, <1>7, <1>8

\* malloc returns memory that no one uses.
LEMMA AllocSectionIInv ==
  ASSUME IInv, NEW t \in Threads, AllocSection(t)
  PROVE  IInv'
  <1> USE HeapAssumption, PthreadAssumption DEF IInv, heapVars, Mutexes, AllocSection, Goto, malloc
  <1>0. \A k : (Raw(k)' <=> Raw(k)) /\ (Dead(k)' <=> Dead(k)) /\ (Dangling(k)' <=> Dangling(k))
    BY StageFrame DEF TypeOK
  <1>1. TypeOK'
    BY <1>0 DEF TypeOK, HeapTypeOK, PC, MemState
  <1>2. CallInv'
    BY <1>0 DEF TypeOK, CallInv, Locking, Destroying, InCallback
  <1>3. OnceInv'
    BY <1>0 DEF TypeOK, CallInv, OnceInv, Locking, Destroying, InCallback
  <1>4. RetiredInv'
    BY <1>0 DEF TypeOK, CallInv, RetiredInv, Destroying
  <1>5. TableInv'
    BY <1>0 DEF TypeOK, HeapTypeOK, CallInv, TableInv, PrivateInv, Making
  <1>6. PrivateInv'
    BY <1>0 DEF TypeOK, HeapTypeOK, CallInv, TableInv, PrivateInv, Making
  <1>7. HoldInv'
    BY <1>0, SMTT(20) DEF TypeOK, HeapTypeOK, CallInv, TableInv, PrivateInv, HoldInv, Making
  <1>8. ReachInv'
    BY <1>0 DEF TypeOK, HeapTypeOK, CallInv, ReachInv, Making
  <1> QED
    BY <1>1, <1>2, <1>3, <1>4, <1>5, <1>6, <1>7, <1>8

\* exit(ENOMEM) changes nothing else.
LEMMA OutOfMemoryIInv ==
  ASSUME IInv, NEW t \in Threads, OutOfMemory(t)
  PROVE  IInv'
  <1> USE HeapAssumption, PthreadAssumption DEF IInv, heapVars, Mutexes, OutOfMemory
  <1>0. \A k : (Raw(k)' <=> Raw(k)) /\ (Dead(k)' <=> Dead(k)) /\ (Dangling(k)' <=> Dangling(k))
    BY StageFrame DEF TypeOK
  <1>1. TypeOK'
    BY <1>0 DEF TypeOK, HeapTypeOK, PC, MemState
  <1>2. CallInv'
    BY <1>0 DEF TypeOK, CallInv, Locking, Destroying, InCallback
  <1>3. OnceInv'
    BY <1>0 DEF TypeOK, CallInv, OnceInv, Locking, Destroying, InCallback
  <1>4. RetiredInv'
    BY <1>0 DEF TypeOK, CallInv, RetiredInv, Destroying
  <1>5. TableInv'
    BY <1>0 DEF TypeOK, HeapTypeOK, CallInv, TableInv, PrivateInv, Making
  <1>6. PrivateInv'
    BY <1>0 DEF TypeOK, HeapTypeOK, CallInv, TableInv, PrivateInv, Making
  <1>7. HoldInv'
    BY <1>0 DEF TypeOK, HeapTypeOK, CallInv, TableInv, PrivateInv, HoldInv, Making
  <1>8. ReachInv'
    BY <1>0 DEF TypeOK, HeapTypeOK, CallInv, ReachInv, Making
  <1> QED
    BY <1>1, <1>2, <1>3, <1>4, <1>5, <1>6, <1>7, <1>8

\* The private section is initialised.
LEMMA InitSectionIInv ==
  ASSUME IInv, NEW t \in Threads, InitSection(t)
  PROVE  IInv'
  <1> USE HeapAssumption, PthreadAssumption
          DEF IInv, heapVars, Mutexes, InitSection, Goto, InitializeCriticalSection
  <1>0. \A k : (Raw(k)' <=> Raw(k)) /\ (Dead(k)' <=> Dead(k)) /\ (Dangling(k)' <=> Dangling(k))
    BY StageFrame DEF TypeOK
  <1>1. TypeOK'
    BY <1>0 DEF TypeOK, HeapTypeOK, PC, MemState
  <1>2. CallInv'
    BY <1>0 DEF TypeOK, CallInv, Locking, Destroying, InCallback
  <1>3. OnceInv'
    BY <1>0 DEF TypeOK, CallInv, OnceInv, Locking, Destroying, InCallback
  <1>4. RetiredInv'
    BY <1>0 DEF TypeOK, CallInv, RetiredInv, Destroying
  <1>5. TableInv'
    BY <1>0 DEF TypeOK, HeapTypeOK, CallInv, TableInv, PrivateInv, Making
  <1>6. PrivateInv'
    BY <1>0 DEF TypeOK, HeapTypeOK, CallInv, TableInv, PrivateInv, Making
  <1>7. HoldInv'
    <2>1. lcs[t] \in Addrs /\ \A m \in Mutexes \ retired : lock[m] # lcs[t]
      BY DanglingRetired DEF PrivateInv, Making
    <2>2. \A m \in Mutexes \ retired : lock[m] # NULL =>
            owner'[lock[m]] = owner[lock[m]] /\ depth'[lock[m]] = depth[lock[m]]
      BY <2>1 DEF TypeOK, HeapTypeOK
    <2>3. UNCHANGED <<lock, held, ready, retired>>
      OBVIOUS
    <2>4. \A u \in Threads, m \in Mutexes : held[u][m] > 0 =>
            /\ m \in Statics \cup ready[u] /\ m \notin retired
            /\ lock[m] # NULL /\ owner'[lock[m]] = u
      BY <2>2 DEF HoldInv
    <2>5. \A m \in Mutexes \ retired : lock[m] # NULL /\ ~Raw(m) =>
            /\ owner'[lock[m]] = NULL => depth'[lock[m]] = 0
            /\ \A u \in Threads : owner'[lock[m]] = u => depth'[lock[m]] = held[u][m]
      BY <2>2 DEF HoldInv
    <2> HIDE DEF InitSection, InitializeCriticalSection
    <2> QED
      BY <1>0, <2>3, <2>4, <2>5 DEF HoldInv
  <1>8. ReachInv'
    BY <1>0 DEF TypeOK, HeapTypeOK, CallInv, ReachInv, Making
  <1> QED
    BY <1>1, <1>2, <1>3, <1>4, <1>5, <1>6, <1>7, <1>8

\* The compare-and-exchange: only the winner changes the pointer, and it publishes its private
\* section; a loser keeps it.
LEMMA PublishIInv ==
  ASSUME IInv, NEW t \in Threads, Publish(t)
  PROVE  IInv'
  <1> DEFINE m == call[t]
  <1> USE HeapAssumption, PthreadAssumption DEF IInv, heapVars, Mutexes
  <1>0. \A n : (Raw(n)' <=> Raw(n)) /\ (Dead(n)' <=> Dead(n)) /\ (Dangling(n)' <=> Dangling(n))
    BY StageFrame DEF TypeOK, Publish, Goto
  <1>a. /\ pc[t] = "cas" /\ m \in Mutexes /\ m \in Statics \cup ready[t] /\ m \notin retired
        /\ lcs[t] \in Addrs
    BY DEF Publish, CallInv, RetiredInv, PrivateInv, Locking, Destroying, Making
  <1>1. CASE lock[m] = NULL
    <2>1. /\ pc' = [pc EXCEPT ![t] = "enter"]
          /\ lock' = [lock EXCEPT ![m] = lcs[t]]
          /\ UNCHANGED <<mem, owner, depth, once, call, lcs, held, ready, retired, exited>>
      BY <1>1 DEF Publish, Goto
    <2>2. /\ lock'[m] = lcs[t]
          /\ \A n \in Mutexes : n # m => lock'[n] = lock[n]
          /\ pc'[t] = "enter"
          /\ \A u \in Threads : u # t => pc'[u] = pc[u]
      BY <1>a, <2>1 DEF TypeOK
    <2>3. TypeOK'
      BY <1>a, <2>1 DEF TypeOK, HeapTypeOK, PC
    <2>4. CallInv'
      BY <1>a, <2>1, <2>2 DEF CallInv, Locking, Destroying, InCallback
    <2>5. OnceInv'
      BY <1>a, <2>1, <2>2 DEF OnceInv, CallInv, InCallback
    <2>6. RetiredInv'
      BY <1>a, <2>1, <2>2 DEF TypeOK, RetiredInv, Destroying
    <2>7. TableInv'
      BY <1>0, <1>a, <2>1, <2>2 DEF TableInv, PrivateInv, Making
    <2>8. PrivateInv'
      BY <1>0, <1>a, <2>1, <2>2 DEF PrivateInv, Making
    <2>9. HoldInv'
      <3>1. owner[lcs[t]] = NULL /\ depth[lcs[t]] = 0
        BY <1>a DEF PrivateInv, Making
      <3>2. \A u \in Threads : ~(held[u][m] > 0)
        BY <1>1, <1>a DEF HoldInv
      <3> QED
        BY <1>0, <1>a, <2>1, <2>2, <3>1, <3>2 DEF HoldInv
    <2>10. ReachInv'
      <3>1. ~Dangling(m)
        BY <1>a, DanglingRetired
      <3> QED
        BY <1>0, <1>1, <1>a, <2>1, <2>2, <3>1 DEF ReachInv, Making
    <2> QED
      BY <2>3, <2>4, <2>5, <2>6, <2>7, <2>8, <2>9, <2>10
  <1>2. CASE lock[m] # NULL
    <2>1. /\ pc' = [pc EXCEPT ![t] = "delete"]
          /\ UNCHANGED <<mem, owner, depth, lock, once, call, lcs, held, ready, retired, exited>>
      BY <1>2 DEF Publish, Goto
    <2> USE <1>2, <1>a, <2>1
    <2>2. TypeOK'
      BY DEF TypeOK, HeapTypeOK, PC
    <2>3. CallInv'
      BY DEF TypeOK, CallInv, Locking, Destroying, InCallback
    <2>4. OnceInv'
      BY DEF TypeOK, OnceInv, InCallback
    <2>5. RetiredInv'
      BY DEF TypeOK, RetiredInv, Destroying
    <2>6. TableInv'
      BY <1>0 DEF TableInv
    <2>7. PrivateInv'
      BY <1>0 DEF TypeOK, PrivateInv, Making
    <2>8. HoldInv'
      BY <1>0 DEF HoldInv
    <2>9. ReachInv'
      BY <1>0 DEF TypeOK, ReachInv, Making
    <2> QED
      BY <2>2, <2>3, <2>4, <2>5, <2>6, <2>7, <2>8, <2>9
  <1> QED
    BY <1>1, <1>2

\* The loser's section is private.
LEMMA DeleteLoserIInv ==
  ASSUME IInv, NEW t \in Threads, DeleteLoser(t)
  PROVE  IInv'
  <1> USE HeapAssumption, PthreadAssumption
          DEF IInv, heapVars, Mutexes, DeleteLoser, Goto, DeleteCriticalSection
  <1>0. \A k : (Raw(k)' <=> Raw(k)) /\ (Dead(k)' <=> Dead(k)) /\ (Dangling(k)' <=> Dangling(k))
    BY StageFrame DEF TypeOK
  <1>1. TypeOK'
    BY <1>0 DEF TypeOK, HeapTypeOK, PC, MemState
  <1>2. CallInv'
    BY <1>0 DEF TypeOK, CallInv, Locking, Destroying, InCallback
  <1>3. OnceInv'
    BY <1>0 DEF TypeOK, CallInv, OnceInv, Locking, Destroying, InCallback
  <1>4. RetiredInv'
    BY <1>0 DEF TypeOK, CallInv, RetiredInv, Destroying
  <1>5. TableInv'
    BY <1>0 DEF TypeOK, HeapTypeOK, CallInv, TableInv, PrivateInv, Making
  <1>6. PrivateInv'
    BY <1>0 DEF TypeOK, HeapTypeOK, CallInv, TableInv, PrivateInv, Making
  <1>7. HoldInv'
    <2>1. UNCHANGED <<owner, depth, lock, held, ready, retired>>
      OBVIOUS
    <2> QED
      BY <1>0, <2>1 DEF HoldInv
  <1>8. ReachInv'
    BY <1>0 DEF TypeOK, HeapTypeOK, CallInv, ReachInv, Making
  <1> QED
    BY <1>1, <1>2, <1>3, <1>4, <1>5, <1>6, <1>7, <1>8

\* The loser's memory is private.
LEMMA FreeLoserIInv ==
  ASSUME IInv, NEW t \in Threads, FreeLoser(t)
  PROVE  IInv'
  <1> USE HeapAssumption, PthreadAssumption DEF IInv, heapVars, Mutexes, FreeLoser, Goto, free
  <1>0. \A k : (Raw(k)' <=> Raw(k)) /\ (Dead(k)' <=> Dead(k)) /\ (Dangling(k)' <=> Dangling(k))
    BY StageFrame DEF TypeOK
  <1>1. TypeOK'
    BY <1>0 DEF TypeOK, HeapTypeOK, PC, MemState
  <1>2. CallInv'
    BY <1>0 DEF TypeOK, CallInv, Locking, Destroying, InCallback
  <1>3. OnceInv'
    BY <1>0 DEF TypeOK, CallInv, OnceInv, Locking, Destroying, InCallback
  <1>4. RetiredInv'
    BY <1>0 DEF TypeOK, CallInv, RetiredInv, Destroying
  <1>5. TableInv'
    BY <1>0 DEF TypeOK, HeapTypeOK, CallInv, TableInv, PrivateInv, Making
  <1>6. PrivateInv'
    BY <1>0 DEF TypeOK, HeapTypeOK, CallInv, TableInv, PrivateInv, Making
  <1>7. HoldInv'
    BY <1>0 DEF TypeOK, HeapTypeOK, CallInv, TableInv, PrivateInv, HoldInv, Making
  <1>8. ReachInv'
    BY <1>0 DEF TypeOK, HeapTypeOK, CallInv, ReachInv, Making
  <1> QED
    BY <1>1, <1>2, <1>3, <1>4, <1>5, <1>6, <1>7, <1>8

\* The callback begins, in one thread.
LEMMA ExecuteOnceIInv ==
  ASSUME IInv, NEW t \in Threads, ExecuteOnce(t)
  PROVE  IInv'
  <1> USE HeapAssumption, PthreadAssumption DEF IInv, heapVars, Mutexes, ExecuteOnce, Goto
  <1>0. \A k : (Raw(k)' <=> Raw(k)) /\ (Dead(k)' <=> Dead(k)) /\ (Dangling(k)' <=> Dangling(k))
    BY StageFrame DEF TypeOK
  <1>1. TypeOK'
    BY <1>0 DEF TypeOK, HeapTypeOK, PC, MemState
  <1>2. CallInv'
    BY <1>0 DEF TypeOK, CallInv, Locking, Destroying, InCallback
  <1>3. OnceInv'
    BY <1>0 DEF TypeOK, CallInv, OnceInv, Locking, Destroying, InCallback
  <1>4. RetiredInv'
    BY <1>0 DEF TypeOK, CallInv, RetiredInv, Destroying
  <1>5. TableInv'
    BY <1>0 DEF TypeOK, HeapTypeOK, CallInv, TableInv, PrivateInv, Making
  <1>6. PrivateInv'
    BY <1>0 DEF TypeOK, HeapTypeOK, CallInv, TableInv, PrivateInv, Making
  <1>7. HoldInv'
    BY <1>0 DEF TypeOK, HeapTypeOK, CallInv, TableInv, PrivateInv, HoldInv, Making
  <1>8. ReachInv'
    BY <1>0 DEF TypeOK, HeapTypeOK, CallInv, ReachInv, Making
  <1> QED
    BY <1>1, <1>2, <1>3, <1>4, <1>5, <1>6, <1>7, <1>8

\* pthread_once returns after the callback of another thread.
LEMMA OnceReturnIInv ==
  ASSUME IInv, NEW t \in Threads, OnceReturn(t)
  PROVE  IInv'
  <1> USE HeapAssumption, PthreadAssumption DEF IInv, heapVars, Mutexes, OnceReturn, Return, Goto
  <1>0. \A k : (Raw(k)' <=> Raw(k)) /\ (Dead(k)' <=> Dead(k)) /\ (Dangling(k)' <=> Dangling(k))
    BY StageFrame DEF TypeOK
  <1>1. TypeOK'
    BY <1>0 DEF TypeOK, HeapTypeOK, PC, MemState, CallInv, InCallback
  <1>2. CallInv'
    BY <1>0 DEF TypeOK, CallInv, Locking, Destroying, InCallback
  <1>3. OnceInv'
    BY <1>0 DEF TypeOK, CallInv, OnceInv, Locking, Destroying, InCallback
  <1>4. RetiredInv'
    BY <1>0 DEF TypeOK, CallInv, RetiredInv, Destroying
  <1>5. TableInv'
    BY <1>0 DEF TypeOK, HeapTypeOK, CallInv, TableInv, PrivateInv, Making
  <1>6. PrivateInv'
    BY <1>0 DEF TypeOK, HeapTypeOK, CallInv, TableInv, PrivateInv, Making
  <1>7. HoldInv'
    BY <1>0 DEF TypeOK, HeapTypeOK, CallInv, TableInv, PrivateInv, HoldInv, Making
  <1>8. ReachInv'
    BY <1>0 DEF TypeOK, HeapTypeOK, CallInv, ReachInv, Making
  <1> QED
    BY <1>1, <1>2, <1>3, <1>4, <1>5, <1>6, <1>7, <1>8

\* The callback returns and the mutex may be used.
LEMMA CallbackReturnIInv ==
  ASSUME IInv, NEW t \in Threads, CallbackReturn(t)
  PROVE  IInv'
  <1> USE HeapAssumption, PthreadAssumption
          DEF IInv, heapVars, Mutexes, CallbackReturn, Return, Goto
  <1>0. \A k : (Raw(k)' <=> Raw(k)) /\ (Dead(k)' <=> Dead(k)) /\ (Dangling(k)' <=> Dangling(k))
    BY StageFrame DEF TypeOK
  <1>1. TypeOK'
    BY <1>0 DEF TypeOK, HeapTypeOK, PC, MemState, CallInv, InCallback
  <1>2. CallInv'
    BY <1>0 DEF TypeOK, CallInv, Locking, Destroying, InCallback
  <1>3. OnceInv'
    BY <1>0 DEF TypeOK, CallInv, OnceInv, Locking, Destroying, InCallback
  <1>4. RetiredInv'
    BY <1>0 DEF TypeOK, CallInv, RetiredInv, Destroying
  <1>5. TableInv'
    BY <1>0 DEF TypeOK, HeapTypeOK, CallInv, TableInv, PrivateInv, Making
  <1>6. PrivateInv'
    BY <1>0 DEF TypeOK, HeapTypeOK, CallInv, TableInv, PrivateInv, Making
  <1>7. HoldInv'
    BY <1>0 DEF TypeOK, HeapTypeOK, CallInv, TableInv, PrivateInv, HoldInv, Making
  <1>8. ReachInv'
    BY <1>0 DEF TypeOK, HeapTypeOK, CallInv, ReachInv, Making
  <1> QED
    BY <1>1, <1>2, <1>3, <1>4, <1>5, <1>6, <1>7, <1>8

\* pthread_mutex_destroy returns at once if there is no section, or goes on to delete it.
LEMMA DestroyTestIInv ==
  ASSUME IInv, NEW t \in Threads, DestroyTest(t)
  PROVE  IInv'
  <1> USE HeapAssumption, PthreadAssumption DEF IInv, heapVars, Mutexes
  <1>0. \A k : (Raw(k)' <=> Raw(k)) /\ (Dead(k)' <=> Dead(k)) /\ (Dangling(k)' <=> Dangling(k))
    BY StageFrame DEF TypeOK, DestroyTest, DestroyReturn, Return, Goto
  <1>1. TypeOK'
    BY DEF DestroyTest, DestroyReturn, Return, Goto, TypeOK, HeapTypeOK, PC
  <1>2. CallInv'
    BY DEF DestroyTest, DestroyReturn, Return, Goto, TypeOK, CallInv, Locking, Destroying,
           InCallback
  <1>3. OnceInv'
    BY DEF DestroyTest, DestroyReturn, Return, Goto, TypeOK, OnceInv, InCallback
  <1>4. RetiredInv'
    <2>1. CASE lock[call[t]] = NULL
      <3>1. /\ pc' = [pc EXCEPT ![t] = "idle"]
            /\ call' = [call EXCEPT ![t] = NULL]
            /\ retired' \subseteq retired
            /\ \A m \in retired : m # call[t] => m \in retired'
            /\ UNCHANGED lock
        BY <2>1 DEF DestroyTest, DestroyReturn, Return, Goto
      <3>2. pc[t] = "d_test" /\ Destroying(t)
        BY DEF DestroyTest, Destroying
      <3>3. \A u \in Threads : u # t =>
              /\ pc'[u] = pc[u] /\ call'[u] = call[u]
              /\ pc[u] # "idle" => call[u] # call[t]
        BY <3>1, <3>2 DEF TypeOK, RetiredInv
      <3>4. pc'[t] = "idle"
        BY <3>1 DEF TypeOK
      <3> QED
        BY <2>1, <3>1, <3>2, <3>3, <3>4 DEF RetiredInv, Destroying
    <2>2. CASE lock[call[t]] # NULL
      BY <2>2 DEF DestroyTest, Goto, TypeOK, RetiredInv, Destroying
    <2> QED
      BY <2>1, <2>2
  <1>5. TableInv'
    BY <1>0 DEF DestroyTest, TableInv
  <1>6. PrivateInv'
    <2>1. \A u \in Threads : Making(u)' => /\ Making(u)
                                          /\ pc'[u] = pc[u] /\ lcs'[u] = lcs[u]
      BY DEF DestroyTest, DestroyReturn, Return, Goto, TypeOK, Making
    <2>2. UNCHANGED <<mem, owner, depth, lock>>
      BY DEF DestroyTest
    <2> QED
      BY <1>0, <2>1, <2>2 DEF PrivateInv
  <1>7. HoldInv'
    <2>1. CASE lock[call[t]] = NULL
      BY <1>0, <2>1 DEF DestroyTest, DestroyReturn, HoldInv
    <2>2. CASE lock[call[t]] # NULL
      BY <1>0, <2>2 DEF DestroyTest, HoldInv
    <2> QED
      BY <2>1, <2>2
  <1>8. ReachInv'
    BY <1>0 DEF DestroyTest, DestroyReturn, Return, Goto, TypeOK, ReachInv, Making
  <1> QED
    BY <1>1, <1>2, <1>3, <1>4, <1>5, <1>6, <1>7, <1>8

\* pthread_mutex_init allocates: the pointer was NULL, and nobody else may use it yet.
LEMMA MutexInitAllocIInv ==
  ASSUME IInv, NEW t \in Threads, MutexInitAlloc(t)
  PROVE  IInv'
  <1> DEFINE m == call[t]
  <1> USE HeapAssumption, PthreadAssumption DEF IInv, heapVars, Mutexes
  <1>1. PICK a \in Addrs : malloc(a) /\ lock' = [lock EXCEPT ![m] = a]
    BY DEF MutexInitAlloc
  <1>2. /\ pc[t] = "cb_malloc" /\ InCallback(t) /\ m \in Dynamics /\ m \in Mutexes
        /\ lock[m] = NULL /\ once[m] = t /\ mem[a] = "free" /\ m \notin retired
    BY <1>1 DEF MutexInitAlloc, Goto, malloc, CallInv, OnceInv, RetiredInv, InCallback, Destroying
  <1>3. /\ lock'[m] = a
        /\ \A n \in Mutexes : n # m => lock'[n] = lock[n]
        /\ mem'[a] = "raw"
        /\ \A b \in Addrs : b # a => mem'[b] = mem[b]
        /\ pc'[t] = "cb_init"
        /\ \A u \in Threads : u # t => pc'[u] = pc[u]
        /\ UNCHANGED <<owner, depth, once, call, lcs, held, ready, retired, exited>>
    BY <1>1, <1>2 DEF MutexInitAlloc, Goto, malloc, TypeOK, HeapTypeOK
  <1>4. /\ \A n : n # m => (Raw(n)' <=> Raw(n))
        /\ \A n : (Dead(n)' <=> Dead(n)) /\ (Dangling(n)' <=> Dangling(n))
        /\ Raw(m)'
    BY <1>2, <1>3 DEF Raw, Dead, Dangling
  <1>5. \A u \in Threads : u # t /\ pc[u] # "idle" /\ call[u] = m => pc[u] = "once"
    BY <1>2, SMTT(20) DEF CallInv, OnceInv, HoldInv, TypeOK, PC, Locking, Destroying, InCallback
  <1>6. TypeOK'
    BY <1>1, <1>2 DEF MutexInitAlloc, Goto, malloc, TypeOK, HeapTypeOK, PC, MemState
  <1>7. CallInv'
    BY <1>2, <1>3 DEF CallInv, Locking, Destroying, InCallback
  <1>8. OnceInv'
    BY <1>2, <1>3, <1>5 DEF CallInv, OnceInv, InCallback
  <1>9. RetiredInv'
    BY <1>2, <1>3, SMTT(20) DEF TypeOK, RetiredInv, Destroying
  <1>10. TableInv'
    BY <1>2, <1>3, <1>4 DEF TypeOK, TableInv
  <1>11. PrivateInv'
    BY <1>2, <1>3, <1>4 DEF PrivateInv, Making
  <1>12. HoldInv'
    BY <1>2, <1>3, <1>4 DEF HoldInv
  <1>13. ReachInv'
    <2>1. ~Dangling(m)
      BY <1>2, DanglingRetired
    <2> QED
      BY <1>2, <1>3, <1>4, <2>1 DEF ReachInv, Making
  <1> QED
    BY <1>6, <1>7, <1>8, <1>9, <1>10, <1>11, <1>12, <1>13

\* pthread_mutex_init initialises the section: nobody has used it so far.
LEMMA MutexInitSectionIInv ==
  ASSUME IInv, NEW t \in Threads, MutexInitSection(t)
  PROVE  IInv'
  <1> DEFINE m == call[t]
  <1> DEFINE a == lock[m]
  <1> USE HeapAssumption, PthreadAssumption DEF IInv, heapVars, Mutexes
  <1>1. /\ pc[t] = "cb_init" /\ InCallback(t) /\ m \in Dynamics /\ m \in Mutexes
        /\ a \in Addrs /\ once[m] = t /\ m \notin retired
    BY DEF MutexInitSection, Goto, CallInv, OnceInv, RetiredInv, InCallback, Destroying, TypeOK
  <1>2. /\ mem'[a] = "live" /\ owner'[a] = NULL /\ depth'[a] = 0
        /\ \A b \in Addrs : b # a => /\ mem'[b] = mem[b]
                                     /\ owner'[b] = owner[b] /\ depth'[b] = depth[b]
        /\ pc'[t] = "cb_return"
        /\ \A u \in Threads : u # t => pc'[u] = pc[u]
        /\ UNCHANGED <<lock, once, call, lcs, held, ready, retired, exited>>
    BY <1>1 DEF MutexInitSection, Goto, InitializeCriticalSection, TypeOK, HeapTypeOK
  <1>3. \A u \in Threads : InCallback(u) /\ call[u] = m => u = t
    BY <1>1 DEF OnceInv
  <1>4. /\ \A n : n # m => (Raw(n)' <=> Raw(n))
        /\ \A n : (Dead(n)' <=> Dead(n)) /\ (Dangling(n)' <=> Dangling(n))
        /\ ~Raw(m)'
    BY <1>1, <1>2, <1>3 DEF Raw, Dead, Dangling, InCallback
  <1>5. ~Dangling(m) /\ \A n \in Mutexes \ retired : lock[n] = a => n = m
    BY <1>1, DanglingRetired DEF TableInv
  <1>6. TypeOK'
    BY DEF MutexInitSection, Goto, InitializeCriticalSection, TypeOK, HeapTypeOK, PC, MemState
  <1>7. CallInv'
    BY <1>1, <1>2 DEF CallInv, Locking, Destroying, InCallback
  <1>8. OnceInv'
    BY <1>1, <1>2 DEF OnceInv, InCallback
  <1>9. RetiredInv'
    BY <1>1, <1>2 DEF RetiredInv, Destroying
  <1>10. TableInv'
    BY <1>1, <1>2, <1>4 DEF TypeOK, TableInv
  <1>11. PrivateInv'
    <2>1. \A u \in Threads : Making(u) => lcs[u] # a
      BY <1>1, <1>5 DEF PrivateInv
    <2> QED
      BY <1>1, <1>2, <1>4, <2>1 DEF PrivateInv, Making
  <1>12. HoldInv'
    <2>1. \A u \in Threads : ~(held[u][m] > 0)
      BY <1>1 DEF HoldInv, OnceInv
    <2>2. \A n \in Mutexes \ retired : n # m /\ lock[n] # NULL =>
            owner'[lock[n]] = owner[lock[n]] /\ depth'[lock[n]] = depth[lock[n]]
      BY <1>1, <1>2, <1>5 DEF TypeOK
    <2>3. ASSUME NEW u \in Threads, NEW n \in Mutexes, held'[u][n] > 0
          PROVE  /\ n \in Statics \cup ready'[u] /\ n \notin retired'
                 /\ lock'[n] # NULL /\ owner'[lock'[n]] = u
      BY <1>2, <2>1, <2>2, <2>3 DEF HoldInv
    <2>4. ASSUME NEW n \in Mutexes \ retired, lock[n] # NULL, ~Raw(n)'
          PROVE  /\ owner'[lock[n]] = NULL => depth'[lock[n]] = 0
                 /\ \A u \in Threads : owner'[lock[n]] = u => depth'[lock[n]] = held[u][n]
      BY <1>2, <1>4, <2>2, <2>4 DEF HoldInv
    <2> QED
      BY <1>2, <2>3, <2>4 DEF HoldInv
  <1>13. ReachInv'
    BY <1>1, <1>2, <1>4, <1>5 DEF ReachInv, Making
  <1> QED
    BY <1>6, <1>7, <1>8, <1>9, <1>10, <1>11, <1>12, <1>13

\* The destroyer deletes the section: nobody else uses it.
LEMMA DestroyDeleteIInv ==
  ASSUME IInv, NEW t \in Threads, DestroyDelete(t)
  PROVE  IInv'
  <1> DEFINE m == call[t]
  <1> DEFINE a == lock[m]
  <1> USE HeapAssumption, PthreadAssumption DEF IInv, heapVars, Mutexes
  <1>1. pc[t] = "d_delete" /\ Destroying(t) /\ m \in Mutexes /\ a \in Addrs /\ m \in retired
    BY DEF DestroyDelete, Goto, CallInv, RetiredInv, Destroying, TypeOK
  <1>2. /\ mem'[a] = "dead"
        /\ \A b \in Addrs : b # a => mem'[b] = mem[b]
        /\ pc'[t] = "d_free"
        /\ \A u \in Threads : u # t => pc'[u] = pc[u]
        /\ UNCHANGED <<owner, depth, lock, once, call, lcs, held, ready, retired, exited>>
    BY <1>1 DEF DestroyDelete, Goto, DeleteCriticalSection, TypeOK, HeapTypeOK
  <1>3. /\ \A n : n # m => (Dead(n)' <=> Dead(n))
        /\ \A n : (Raw(n)' <=> Raw(n)) /\ (Dangling(n)' <=> Dangling(n))
        /\ Dead(m)'
    BY <1>1, <1>2 DEF Raw, Dead, Dangling
  <1>4. ~Dangling(m)
    BY <1>1 DEF RetiredInv, Dangling
  <1>5. \A n \in Mutexes : n # m /\ lock[n] = a => Dangling(n)
    BY <1>1, <1>4 DEF TableInv
  <1>6. TypeOK'
    BY DEF DestroyDelete, Goto, DeleteCriticalSection, TypeOK, HeapTypeOK, PC, MemState
  <1>7. CallInv'
    BY <1>1, <1>2 DEF CallInv, Locking, Destroying, InCallback
  <1>8. OnceInv'
    BY <1>1, <1>2 DEF OnceInv, InCallback
  <1>9. RetiredInv'
    BY <1>1, <1>2 DEF RetiredInv, Destroying
  <1>10. TableInv'
    BY <1>1, <1>2, <1>3, <1>5 DEF TypeOK, TableInv
  <1>11. PrivateInv'
    <2>1. \A u \in Threads : Making(u) => lcs[u] # a
      BY <1>1, <1>4 DEF PrivateInv
    <2> QED
      BY <1>1, <1>2, <1>3, <2>1 DEF PrivateInv, Making
  <1>12. HoldInv'
    BY <1>2, <1>3 DEF HoldInv
  <1>13. ReachInv'
    BY <1>1, <1>2, <1>3, <1>4 DEF ReachInv, Making
  <1> QED
    BY <1>6, <1>7, <1>8, <1>9, <1>10, <1>11, <1>12, <1>13

\* The destroyer frees the memory: from now on its pointer dangles, and the memory may be
\* handed out again.
LEMMA DestroyFreeIInv ==
  ASSUME IInv, NEW t \in Threads, DestroyFree(t)
  PROVE  IInv'
  <1> DEFINE m == call[t]
  <1> DEFINE a == lock[m]
  <1> USE HeapAssumption, PthreadAssumption DEF IInv, heapVars, Mutexes
  <1>1. pc[t] = "d_free" /\ Destroying(t) /\ m \in Mutexes /\ a \in Addrs /\ m \in retired
    BY DEF DestroyFree, Goto, CallInv, RetiredInv, Destroying, TypeOK
  <1>2. /\ mem'[a] = "free"
        /\ \A b \in Addrs : b # a => mem'[b] = mem[b]
        /\ pc'[t] = "d_null"
        /\ \A u \in Threads : u # t => pc'[u] = pc[u]
        /\ UNCHANGED <<owner, depth, lock, once, call, lcs, held, ready, retired, exited>>
    BY <1>1 DEF DestroyFree, Goto, free, TypeOK, HeapTypeOK
  <1>3. /\ \A n : n # m => (Dead(n)' <=> Dead(n)) /\ (Dangling(n)' <=> Dangling(n))
        /\ \A n : Raw(n)' <=> Raw(n)
        /\ Dangling(m)'
    BY <1>1, <1>2 DEF Raw, Dead, Dangling
  <1>4. ~Dangling(m)
    BY <1>1 DEF RetiredInv, Dangling
  <1>5. \A n \in Mutexes : n # m /\ lock[n] = a => Dangling(n)
    BY <1>1, <1>4 DEF TableInv
  <1>6. TypeOK'
    BY DEF DestroyFree, Goto, free, TypeOK, HeapTypeOK, PC, MemState
  <1>7. CallInv'
    BY <1>1, <1>2 DEF CallInv, Locking, Destroying, InCallback
  <1>8. OnceInv'
    BY <1>1, <1>2 DEF OnceInv, InCallback
  <1>9. RetiredInv'
    BY <1>1, <1>2 DEF RetiredInv, Destroying
  <1>10. TableInv'
    BY <1>1, <1>2, <1>3, <1>5 DEF TypeOK, TableInv
  <1>11. PrivateInv'
    <2>1. \A u \in Threads : Making(u) => lcs[u] # a
      BY <1>1, <1>4 DEF PrivateInv
    <2> QED
      BY <1>1, <1>2, <1>3, <2>1 DEF PrivateInv, Making
  <1>12. HoldInv'
    BY <1>2, <1>3 DEF HoldInv
  <1>13. ReachInv'
    BY <1>1, <1>2, <1>3 DEF ReachInv, Making
  <1> QED
    BY <1>6, <1>7, <1>8, <1>9, <1>10, <1>11, <1>12, <1>13

\* The destroyer clears the dangling pointer and returns; whoever has been given the memory
\* meanwhile keeps it.
LEMMA DestroyNullIInv ==
  ASSUME IInv, NEW t \in Threads, DestroyNull(t)
  PROVE  IInv'
  <1> DEFINE m == call[t]
  <1> USE HeapAssumption, PthreadAssumption DEF IInv, heapVars, Mutexes
  <1>1. /\ pc[t] = "d_null" /\ Destroying(t) /\ m \in Mutexes /\ m \in retired
        /\ \A u \in Threads : pc[u] # "idle" /\ call[u] = m => u = t
        /\ \A u \in Threads : ~(held[u][m] > 0)
    BY DEF DestroyNull, DestroyReturn, Return, Goto, CallInv, RetiredInv, HoldInv, Destroying
  <1>2. /\ lock'[m] = NULL
        /\ \A n \in Mutexes : n # m => lock'[n] = lock[n]
        /\ pc'[t] = "idle"
        /\ \A u \in Threads : u # t => pc'[u] = pc[u] /\ call'[u] = call[u] /\ lcs'[u] = lcs[u]
        /\ retired' \subseteq retired
        /\ \A n \in retired : n # m => n \in retired'
        /\ UNCHANGED <<mem, owner, depth, once, held, ready, exited>>
    BY <1>1 DEF DestroyNull, DestroyReturn, Return, Goto, TypeOK
  <1>3. /\ \A n : (Raw(n)' <=> Raw(n)) /\ (Dead(n)' <=> Dead(n))
        /\ \A n : n # m => (Dangling(n)' <=> Dangling(n))
        /\ Dangling(m)
    BY <1>1, <1>2 DEF Raw, Dead, Dangling
  <1>4. TypeOK'
    BY <1>1 DEF DestroyNull, DestroyReturn, Return, Goto, TypeOK, HeapTypeOK, PC
  <1>5. CallInv'
    BY <1>1, <1>2 DEF CallInv, Locking, Destroying, InCallback
  <1>6. OnceInv'
    BY <1>1, <1>2, SMTT(20) DEF TypeOK, OnceInv, CallInv, InCallback
  <1>7. RetiredInv'
    <2>1. \A u \in Threads : Destroying(u)' => u # t /\ Destroying(u)
      BY <1>2 DEF Destroying
    <2>2. \A u, v \in Threads : Destroying(u)' /\ pc'[v] # "idle" /\ call'[v] = call'[u] => v = u
      BY <1>2, <2>1 DEF RetiredInv
    <2>3. \A u \in Threads : Destroying(u)' => call'[u] \in retired'
      BY <1>1, <1>2, <2>1 DEF RetiredInv, Destroying
    <2>4. \A u \in Threads : pc'[u] # "idle" /\ call'[u] \in retired' => Destroying(u)'
      BY <1>2 DEF RetiredInv, Destroying
    <2>5. ASSUME NEW n \in retired', \A u \in Threads : pc'[u] = "idle" \/ call'[u] # n
          PROVE  lock'[n] = NULL
      <3>1. CASE n = m
        BY <1>2, <3>1
      <3>2. CASE n # m
        <4>1. n \in retired /\ n \in Mutexes /\ lock'[n] = lock[n]
          BY <1>2, <2>5, <3>2 DEF TypeOK
        <4>2. \A u \in Threads : pc[u] = "idle" \/ call[u] # n
          BY <1>2, <2>5, <3>2
        <4> QED
          BY <4>1, <4>2 DEF RetiredInv
      <3> QED
        BY <3>1, <3>2
    <2> QED
      BY <2>2, <2>3, <2>4, <2>5 DEF RetiredInv
  <1>8. TableInv'
    BY <1>1, <1>2, <1>3 DEF TableInv
  <1>9. PrivateInv'
    BY <1>1, <1>2, <1>3 DEF PrivateInv, Making
  <1>10. HoldInv'
    BY <1>1, <1>2, <1>3 DEF HoldInv
  <1>11. ReachInv'
    BY <1>1, <1>2, <1>3 DEF ReachInv, Making
  <1> QED
    BY <1>4, <1>5, <1>6, <1>7, <1>8, <1>9, <1>10, <1>11

\* Entering keeps the section's owner and count in step with the program.
LEMMA EnterIInv ==
  ASSUME IInv, NEW t \in Threads, Enter(t)
  PROVE  IInv'
  <1> DEFINE m == call[t]
  <1> DEFINE a == lock[m]
  <1> USE HeapAssumption, PthreadAssumption DEF IInv, heapVars, Mutexes
  <1>0. \A n : (Raw(n)' <=> Raw(n)) /\ (Dead(n)' <=> Dead(n)) /\ (Dangling(n)' <=> Dangling(n))
    BY StageFrame DEF TypeOK, Enter, Return, Goto
  <1>1. /\ pc[t] = "enter" /\ m \in Mutexes /\ a \in Addrs
        /\ m \in Statics \cup ready[t] /\ m \notin retired
    BY DEF Enter, Return, Goto, TypeOK, CallInv, RetiredInv, Locking, Destroying
  <1>2. ~Raw(m) /\ ~Dangling(m) /\ \A n \in Mutexes \ retired : lock[n] = a => n = m
    <2>1. ~Raw(m)
      BY <1>1 DEF Raw, CallInv, OnceInv, InCallback
    <2> QED
      BY <1>1, <2>1, DanglingRetired DEF TableInv
  <1>3. held[t][m] \in Nat /\ depth[a] \in Nat
    BY <1>1 DEF TypeOK, HeapTypeOK
  <1>4. /\ owner[a] \in {NULL, t}
        /\ held'[t][m] = held[t][m] + 1
        /\ depth'[a] = depth[a] + 1
        /\ owner'[a] = t
        /\ \A b \in Addrs : b # a => owner'[b] = owner[b] /\ depth'[b] = depth[b]
        /\ \A u \in Threads, n \in Mutexes : u # t \/ n # m => held'[u][n] = held[u][n]
        /\ UNCHANGED <<mem, lock, once, ready, retired, exited>>
    BY <1>1, <1>3 DEF Enter, EnterCriticalSection, TypeOK, HeapTypeOK
  <1>5. /\ pc'[t] = "idle"
        /\ \A u \in Threads : u # t => pc'[u] = pc[u] /\ call'[u] = call[u] /\ lcs'[u] = lcs[u]
    BY DEF Enter, Return, Goto, TypeOK
  <1>6. depth[a] = held[t][m] /\ \A u \in Threads : u # t => ~(held[u][m] > 0)
    BY <1>1, <1>2, <1>3, <1>4 DEF HoldInv, TypeOK
  <1>7. TypeOK'
    <2>1. HeapTypeOK'
      BY <1>1, <1>3, <1>4 DEF TypeOK, HeapTypeOK, Enter, EnterCriticalSection
    <2>2. held' \in [Threads -> [Mutexes -> Nat]]
      BY <1>1, <1>3, <1>4 DEF TypeOK, Enter
    <2> QED
      BY <2>1, <2>2 DEF TypeOK, Enter, Return, Goto, PC
  <1>8. CallInv'
    BY <1>1, <1>4, <1>5 DEF CallInv, Locking, Destroying, InCallback
  <1>9. OnceInv'
    BY <1>4, <1>5 DEF OnceInv, InCallback
  <1>10. RetiredInv'
    BY <1>1, <1>4, <1>5 DEF RetiredInv, Destroying
  <1>11. TableInv'
    BY <1>0, <1>4 DEF TableInv
  <1>12. PrivateInv'
    <2>1. \A u \in Threads : Making(u) => lcs[u] # a
      BY <1>1, <1>2 DEF PrivateInv
    <2> QED
      BY <1>0, <1>1, <1>4, <1>5, <2>1 DEF PrivateInv, Making
  <1>13. HoldInv'
    <2>1. \A n \in Mutexes \ retired : n # m /\ lock[n] # NULL =>
            owner'[lock[n]] = owner[lock[n]] /\ depth'[lock[n]] = depth[lock[n]]
      BY <1>1, <1>2, <1>4 DEF TypeOK
    <2>2. ASSUME NEW u \in Threads, NEW n \in Mutexes, held'[u][n] > 0
          PROVE  /\ n \in Statics \cup ready[u] /\ n \notin retired
                 /\ lock[n] # NULL /\ owner'[lock[n]] = u
      <3>1. CASE n = m /\ u = t
        BY <1>1, <1>4, <3>1
      <3>2. CASE n = m /\ u # t
        BY <1>4, <1>6, <2>2, <3>2
      <3>3. CASE n # m
        BY <1>4, <2>1, <2>2, <3>3 DEF HoldInv
      <3> QED
        BY <3>1, <3>2, <3>3
    <2>3. ASSUME NEW n \in Mutexes \ retired, lock[n] # NULL, ~Raw(n)
          PROVE  /\ owner'[lock[n]] = NULL => depth'[lock[n]] = 0
                 /\ \A u \in Threads : owner'[lock[n]] = u => depth'[lock[n]] = held'[u][n]
      <3>1. CASE n = m
        BY <1>3, <1>4, <1>6, <3>1
      <3>2. CASE n # m
        BY <1>4, <2>1, <2>3, <3>2 DEF HoldInv
      <3> QED
        BY <3>1, <3>2
    <2> QED
      BY <1>0, <1>4, <2>2, <2>3 DEF HoldInv
  <1>14. ReachInv'
    BY <1>0, <1>1, <1>4, <1>5 DEF ReachInv, Making
  <1> QED
    BY <1>7, <1>8, <1>9, <1>10, <1>11, <1>12, <1>13, <1>14

\* Leaving keeps the section's owner and count in step with the program.
LEMMA LeaveIInv ==
  ASSUME IInv, NEW t \in Threads, Leave(t)
  PROVE  IInv'
  <1> DEFINE m == call[t]
  <1> DEFINE a == lock[m]
  <1> USE HeapAssumption, PthreadAssumption DEF IInv, heapVars, Mutexes
  <1>0. \A n : (Raw(n)' <=> Raw(n)) /\ (Dead(n)' <=> Dead(n)) /\ (Dangling(n)' <=> Dangling(n))
    BY StageFrame DEF TypeOK, Leave, Return, Goto
  <1>1. /\ pc[t] = "leave" /\ m \in Mutexes /\ a \in Addrs
        /\ m \in Statics \cup ready[t] /\ m \notin retired
        /\ held[t][m] > 0 /\ owner[a] = t
    <2>1. pc[t] = "leave" /\ m \in Mutexes /\ held[t][m] > 0
      BY DEF Leave, Return, Goto, CallInv
    <2> QED
      BY <2>1 DEF TypeOK, HoldInv
  <1>2. ~Raw(m) /\ ~Dangling(m) /\ \A n \in Mutexes \ retired : lock[n] = a => n = m
    <2>1. ~Raw(m)
      BY <1>1 DEF Raw, CallInv, OnceInv, InCallback
    <2> QED
      BY <1>1, <2>1, DanglingRetired DEF TableInv
  <1>3. held[t][m] \in Nat /\ depth[a] \in Nat
    BY <1>1 DEF TypeOK, HeapTypeOK
  <1>4. /\ held'[t][m] = held[t][m] - 1
        /\ depth'[a] = depth[a] - 1
        /\ owner'[a] = IF depth[a] = 1 THEN NULL ELSE t
        /\ \A b \in Addrs : b # a => owner'[b] = owner[b] /\ depth'[b] = depth[b]
        /\ \A u \in Threads, n \in Mutexes : u # t \/ n # m => held'[u][n] = held[u][n]
        /\ UNCHANGED <<mem, lock, once, ready, retired, exited>>
    BY <1>1, <1>3 DEF Leave, LeaveCriticalSection, TypeOK, HeapTypeOK
  <1>5. /\ pc'[t] = "idle"
        /\ \A u \in Threads : u # t => pc'[u] = pc[u] /\ call'[u] = call[u] /\ lcs'[u] = lcs[u]
    BY DEF Leave, Return, Goto, TypeOK
  <1>6. depth[a] = held[t][m] /\ \A u \in Threads : u # t => ~(held[u][m] > 0)
    BY <1>1, <1>2, <1>3, <1>4 DEF HoldInv, TypeOK
  <1>7. TypeOK'
    <2>1. HeapTypeOK'
      BY <1>1, <1>3, <1>4, <1>6 DEF TypeOK, HeapTypeOK, Leave, LeaveCriticalSection
    <2>2. held' \in [Threads -> [Mutexes -> Nat]]
      BY <1>1, <1>3, <1>4 DEF TypeOK, Leave
    <2> QED
      BY <2>1, <2>2 DEF TypeOK, Leave, Return, Goto, PC
  <1>8. CallInv'
    BY <1>1, <1>4, <1>5 DEF CallInv, Locking, Destroying, InCallback
  <1>9. OnceInv'
    BY <1>4, <1>5 DEF OnceInv, InCallback
  <1>10. RetiredInv'
    BY <1>1, <1>4, <1>5 DEF RetiredInv, Destroying
  <1>11. TableInv'
    BY <1>0, <1>4 DEF TableInv
  <1>12. PrivateInv'
    <2>1. \A u \in Threads : Making(u) => lcs[u] # a
      BY <1>1, <1>2 DEF PrivateInv
    <2> QED
      BY <1>0, <1>1, <1>4, <1>5, <2>1 DEF PrivateInv, Making
  <1>13. HoldInv'
    <2>1. \A n \in Mutexes \ retired : n # m /\ lock[n] # NULL =>
            owner'[lock[n]] = owner[lock[n]] /\ depth'[lock[n]] = depth[lock[n]]
      BY <1>1, <1>2, <1>4 DEF TypeOK
    <2>2. ASSUME NEW u \in Threads, NEW n \in Mutexes, held'[u][n] > 0
          PROVE  /\ n \in Statics \cup ready[u] /\ n \notin retired
                 /\ lock[n] # NULL /\ owner'[lock[n]] = u
      <3>1. CASE n = m /\ u = t
        BY <1>1, <1>3, <1>4, <1>6, <2>2, <3>1
      <3>2. CASE n = m /\ u # t
        BY <1>4, <1>6, <2>2, <3>2
      <3>3. CASE n # m
        BY <1>4, <2>1, <2>2, <3>3 DEF HoldInv
      <3> QED
        BY <3>1, <3>2, <3>3
    <2>3. ASSUME NEW n \in Mutexes \ retired, lock[n] # NULL, ~Raw(n)
          PROVE  /\ owner'[lock[n]] = NULL => depth'[lock[n]] = 0
                 /\ \A u \in Threads : owner'[lock[n]] = u => depth'[lock[n]] = held'[u][n]
      <3>1. CASE n = m
        BY <1>3, <1>4, <1>6, <3>1
      <3>2. CASE n # m
        BY <1>4, <2>1, <2>3, <3>2 DEF HoldInv
      <3> QED
        BY <3>1, <3>2
    <2> QED
      BY <1>0, <1>4, <2>2, <2>3 DEF HoldInv
  <1>14. ReachInv'
    BY <1>0, <1>1, <1>4, <1>5 DEF ReachInv, Making
  <1> QED
    BY <1>7, <1>8, <1>9, <1>10, <1>11, <1>12, <1>13, <1>14

\* Every step preserves the invariant.
LEMMA NextIInv == IInv /\ [Next]_vars => IInv'
  <1> SUFFICES ASSUME IInv, [Next]_vars PROVE IInv'
    OBVIOUS
  <1>1. CASE UNCHANGED vars
    BY <1>1 DEF vars, heapVars, IInv, TypeOK, HeapTypeOK, CallInv, OnceInv, RetiredInv, TableInv,
                PrivateInv, HoldInv, ReachInv, Locking, Making, InCallback, Destroying, Raw, Dead,
                Dangling
  <1>2. ASSUME NEW t \in Threads, NEW m \in Mutexes,
               \/ pthread_mutex_lock(t, m) \/ pthread_mutex_unlock(t, m)
               \/ pthread_once(t, m) \/ pthread_mutex_destroy(t, m)
        PROVE  IInv'
    BY <1>2, MutexLockIInv, MutexUnlockIInv, OnceIInv, MutexDestroyIInv
  <1>3. ASSUME NEW t \in Threads, Step(t) PROVE IInv'
    BY <1>3, NullTestIInv, AllocSectionIInv, OutOfMemoryIInv, InitSectionIInv, PublishIInv,
       DeleteLoserIInv, FreeLoserIInv, EnterIInv, LeaveIInv, ExecuteOnceIInv, OnceReturnIInv,
       MutexInitAllocIInv, MutexInitSectionIInv, CallbackReturnIInv, DestroyTestIInv,
       DestroyDeleteIInv, DestroyFreeIInv, DestroyNullIInv DEF Step
  <1> QED
    BY <1>1, <1>2, <1>3 DEF Next, Exited

(***************************************************************************)
(* The inductive invariant holds in every reachable state: whatever calls  *)
(* of pthread_mutex_lock, unlock, destroy and pthread_once interleave.     *)
(***************************************************************************)
THEOREM Invariant == Spec => []IInv
  BY InitIInv, NextIInv, PTL DEF Spec

(***************************************************************************)
(* pthread_mutex_lock and unlock enter and leave initialised sections      *)
(* only, and pthread_mutex_destroy deletes only such a section: none that  *)
(* the pthread_once() callback has yet to initialise, none given back.     *)
(***************************************************************************)
THEOREM SectionsLive == Spec => []UsesLiveSection
  <1>1. IInv => UsesLiveSection
    <2> SUFFICES ASSUME IInv, NEW t \in Threads, pc[t] \in {"enter", "leave", "d_delete"}
                 PROVE  lock[call[t]] # NULL /\ mem[lock[call[t]]] = "live"
      BY DEF UsesLiveSection
    <2> USE PthreadAssumption DEF IInv
    <2>1. call[t] \in Mutexes /\ lock[call[t]] # NULL
      BY DEF CallInv, HoldInv
    <2>2. call[t] \in Statics \cup ready[t]
      BY <2>1 DEF CallInv, HoldInv, Locking, Destroying
    <2>3. ~Raw(call[t])
      BY <2>2 DEF Raw, CallInv, OnceInv, InCallback
    <2>4. ~Dead(call[t]) /\ ~Dangling(call[t])
      BY DEF Dead, Dangling, RetiredInv, Destroying
    <2> QED
      BY <2>1, <2>3, <2>4 DEF TableInv
  <1> QED
    BY <1>1, Invariant, PTL

(***************************************************************************)
(* No allocation of pthread_mutex_lock or pthread_mutex_init is lost, and  *)
(* a destroyed mutex keeps no pointer to what was freed.  In particular no *)
(* count goes below zero: no unlock is unmatched.                          *)
(***************************************************************************)
THEOREM LeakFree == Spec => []NoLeak
  <1>1. IInv => NoLeak
    BY DEF IInv, ReachInv, RetiredInv, NoLeak, Making
  <1> QED
    BY <1>1, Invariant, PTL

(***************************************************************************)
(* The mutexes implement a table of locks that exist from the start:       *)
(* entering is the abstract acquire, leaving the abstract release, and     *)
(* creation, pthread_once and destruction are invisible.                   *)
(***************************************************************************)
THEOREM Refinement == Spec => ImplementsLockTable
  <1>1. Init => Abstract!Init
    BY DEF Init, Abstract!Init
  <1>2. IInv /\ [Next]_vars => [Abstract!Next]_held
    <2> SUFFICES ASSUME IInv, [Next]_vars, held' # held PROVE Abstract!Next
      OBVIOUS
    <2>1. ASSUME NEW t \in Threads, Enter(t) PROVE Abstract!Next
      <3>1. call[t] \in Mutexes /\ lock[call[t]] # NULL
        BY <2>1 DEF Enter, Return, Goto, IInv, CallInv
      <3>2. \A u \in Threads \ {t} : held[u][call[t]] = 0
        BY <2>1, <3>1, HeapAssumption
           DEF Enter, EnterCriticalSection, IInv, TypeOK, HoldInv
      <3>3. Abstract!Acquire(t, call[t])
        BY <2>1, <3>2 DEF Enter, Abstract!Acquire
      <3> QED
        BY <3>1, <3>3 DEF Abstract!Next
    <2>2. ASSUME NEW t \in Threads, Leave(t) PROVE Abstract!Next
      <3>1. call[t] \in Mutexes /\ held[t][call[t]] > 0
        BY <2>2 DEF Leave, Return, Goto, IInv, CallInv
      <3>2. Abstract!Release(t, call[t])
        BY <2>2, <3>1 DEF Leave, Abstract!Release
      <3> QED
        BY <3>1, <3>2 DEF Abstract!Next
    <2>3. UNCHANGED held \/ \E t \in Threads : Enter(t) \/ Leave(t)
      BY DEF Next, Step, pthread_mutex_lock, pthread_mutex_unlock, pthread_once,
             pthread_mutex_destroy, NullTest, AllocSection, OutOfMemory, InitSection, Publish,
             DeleteLoser, FreeLoser, ExecuteOnce, OnceReturn, MutexInitAlloc, MutexInitSection,
             CallbackReturn, DestroyTest, DestroyDelete, DestroyFree, DestroyNull, Exited, vars
    <2> QED
      BY <2>1, <2>2, <2>3
  <1> QED
    BY <1>1, <1>2, Invariant, PTL DEF Spec, ImplementsLockTable, Abstract!Spec


=============================================================================
