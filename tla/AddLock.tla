------------------------------ MODULE AddLock ------------------------------
(***************************************************************************)
(* crypto/compat/crypto_lock_win.c: CRYPTO_add_lock() on Windows, an       *)
(* atomic exchange-and-add whose result is computed from the value the     *)
(* exchange returned.                                                      *)
(*                                                                         *)
(* The callers (external) are libcrypto's reference counts: a thread that  *)
(* owns a reference may add one or hand one to another thread, and gives   *)
(* one up by adding -1; the thread that gets 0 back destroys the object.   *)
(***************************************************************************)
EXTENDS Integers, FiniteSets

CONSTANTS Threads,
          MaxRefs   \* bound: references of one thread; far from INT_MAX

VARIABLES pointer,   \* *pointer, the reference count
          amount,    \* the argument of each thread's call
          ret,       \* the local ret
          pc,        \* idle, called, added, destroy
          refs,      \* how many references each thread owns
          destroyed  \* how often the object was destroyed

vars == <<pointer, amount, ret, pc, refs, destroyed>>

TypeOK ==
  /\ pointer \in Nat /\ amount \in [Threads -> {-1, 0, 1}] /\ ret \in [Threads -> Nat]
  /\ pc \in [Threads -> {"idle", "called", "added", "destroy"}]
  /\ refs \in [Threads -> Nat] /\ destroyed \in {0, 1}

\* The thread that created the object has the only reference.
Init ==
  /\ pointer = 1
  /\ amount = [t \in Threads |-> 0] /\ ret = [t \in Threads |-> 0]
  /\ pc = [t \in Threads |-> "idle"]
  /\ \E creator \in Threads : refs = [t \in Threads |-> IF t = creator THEN 1 ELSE 0]
  /\ destroyed = 0

\* A reference is no longer the caller's once it starts to give it up.
CRYPTO_add_lock(t, d) ==
  /\ pc[t] = "idle" /\ refs[t] > 0 /\ refs[t] + d <= MaxRefs
  /\ pc' = [pc EXCEPT ![t] = "called"]
  /\ amount' = [amount EXCEPT ![t] = d]
  /\ refs' = [refs EXCEPT ![t] = IF d = -1 THEN @ - 1 ELSE @]
  /\ UNCHANGED <<pointer, ret, destroyed>>

InterlockedExchangeAdd(t) ==
  /\ pc[t] = "called"
  /\ ret' = [ret EXCEPT ![t] = pointer]
  /\ pointer' = pointer + amount[t]
  /\ pc' = [pc EXCEPT ![t] = "added"]
  /\ UNCHANGED <<amount, refs, destroyed>>

\* A mutation: the result is read back from memory after the exchange.
ResultReadBack(t) == pointer

\* return ret + amount;
Result(t) == ret[t] + amount[t]

Return(t) ==
  /\ pc[t] = "added"
  /\ pc' = [pc EXCEPT ![t] = IF Result(t) = 0 THEN "destroy" ELSE "idle"]
  /\ refs' = [refs EXCEPT ![t] = IF amount[t] = 1 THEN @ + 1 ELSE @]
  /\ amount' = [amount EXCEPT ![t] = 0] /\ ret' = [ret EXCEPT ![t] = 0]
  /\ UNCHANGED <<pointer, destroyed>>

Pass(t, u) ==
  /\ t # u /\ pc[t] = "idle" /\ refs[t] > 0 /\ refs[u] < MaxRefs
  /\ refs' = [refs EXCEPT ![t] = @ - 1, ![u] = @ + 1]
  /\ UNCHANGED <<pointer, amount, ret, pc, destroyed>>

Destroy(t) ==
  /\ pc[t] = "destroy"
  /\ destroyed' = destroyed + 1
  /\ pc' = [pc EXCEPT ![t] = "idle"]
  /\ UNCHANGED <<pointer, amount, ret, refs>>

Gone == destroyed = 1 /\ UNCHANGED vars

Next ==
  \/ \E t \in Threads :
       \/ \E d \in {-1, 1} : CRYPTO_add_lock(t, d)
       \/ InterlockedExchangeAdd(t) \/ Return(t) \/ Destroy(t)
       \/ \E u \in Threads : Pass(t, u)
  \/ Gone

Spec == Init /\ [][Next]_vars

-----------------------------------------------------------------------------
(***************************************************************************)
(* Only one thread is ever told to destroy the object, and then no thread  *)
(* has a reference, is getting one, or has yet to count one down; and an   *)
(* object without references has been destroyed: the last decrement never  *)
(* goes unnoticed, in whatever order the results come back.                *)
(***************************************************************************)
DestroyedByLast ==
  LET told == {t \in Threads : pc[t] = "destroy"} IN
    /\ TypeOK
    /\ Cardinality(told) + destroyed > 0 =>
         /\ Cardinality(told) + destroyed = 1
         /\ \A t \in Threads : refs[t] = 0 /\ pc[t] # "called" /\ amount[t] # 1
    /\ (\A t \in Threads : refs[t] = 0 /\ pc[t] = "idle") => destroyed = 1

=============================================================================
