------------------------------ MODULE LockTable ------------------------------
(***************************************************************************)
(* What libcrypto expects of CRYPTO_lock(): a table of recursive mutual    *)
(* exclusion locks that exist from the start.  held[t][k] is how many      *)
(* times thread t holds lock k.  Nothing here knows of lazy allocation.    *)
(***************************************************************************)
EXTENDS Naturals

CONSTANTS Threads, LockTypes

VARIABLE held

Init == held = [t \in Threads |-> [k \in LockTypes |-> 0]]

Acquire(t, k) ==
  /\ \A u \in Threads \ {t} : held[u][k] = 0
  /\ held' = [held EXCEPT ![t][k] = @ + 1]

Release(t, k) ==
  /\ held[t][k] > 0
  /\ held' = [held EXCEPT ![t][k] = @ - 1]

Next == \E t \in Threads, k \in LockTypes : Acquire(t, k) \/ Release(t, k)

Spec == Init /\ [][Next]_held

=============================================================================
