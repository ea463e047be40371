-------------------------- MODULE CriticalSection --------------------------
(***************************************************************************)
(* The Win32 services that the lock shims of LibreSSL-portable are built   *)
(* on: malloc/free of CRITICAL_SECTION objects and the four calls that     *)
(* act on one.  None of this code is in the repository; it is modelled     *)
(* from how crypto/compat/crypto_lock_win.c and include/compat/pthread.h   *)
(* use it.                                                                 *)
(*                                                                         *)
(* An address is "free" (not allocated), "raw" (allocated, contents        *)
(* undefined), "live" (an initialised critical section) or "dead"          *)
(* (deleted, not yet freed).  The calls do not check the state of the      *)
(* object they are given, as the real ones do not: that every use meets a  *)
(* live object is a property of the callers.  A critical section is        *)
(* recursive: the owner may enter it again.                                *)
(***************************************************************************)
EXTENDS Naturals

CONSTANTS Threads,  \* the threads of the process
          Addrs,    \* the addresses malloc can return
          NULL      \* no address, no thread

ASSUME HeapAssumption == NULL \notin Addrs /\ NULL \notin Threads

VARIABLES mem,    \* Addrs -> state of the memory at the address
          owner,  \* Addrs -> OwningThread of the critical section
          depth   \* Addrs -> RecursionCount

heapVars == <<mem, owner, depth>>

MemState == {"free", "raw", "live", "dead"}

HeapTypeOK ==
  /\ mem \in [Addrs -> MemState]
  /\ owner \in [Addrs -> Threads \cup {NULL}]
  /\ depth \in [Addrs -> Nat]

HeapInit ==
  /\ mem = [a \in Addrs |-> "free"]
  /\ owner = [a \in Addrs |-> NULL]
  /\ depth = [a \in Addrs |-> 0]

\* malloc(sizeof(CRITICAL_SECTION)) that succeeds and returns a
malloc(a) ==
  /\ mem[a] = "free"
  /\ mem' = [mem EXCEPT ![a] = "raw"]
  /\ UNCHANGED <<owner, depth>>

free(a) ==
  /\ mem' = [mem EXCEPT ![a] = "free"]
  /\ UNCHANGED <<owner, depth>>

InitializeCriticalSection(a) ==
  /\ mem' = [mem EXCEPT ![a] = "live"]
  /\ owner' = [owner EXCEPT ![a] = NULL]
  /\ depth' = [depth EXCEPT ![a] = 0]

DeleteCriticalSection(a) ==
  /\ mem' = [mem EXCEPT ![a] = "dead"]
  /\ UNCHANGED <<owner, depth>>

\* Blocks (is not enabled) while another thread owns the section.
EnterCriticalSection(t, a) ==
  /\ owner[a] \in {NULL, t}
  /\ owner' = [owner EXCEPT ![a] = t]
  /\ depth' = [depth EXCEPT ![a] = @ + 1]
  /\ UNCHANGED mem

LeaveCriticalSection(a) ==
  /\ depth' = [depth EXCEPT ![a] = @ - 1]
  /\ owner' = [owner EXCEPT ![a] = IF depth[a] = 1 THEN NULL ELSE @]
  /\ UNCHANGED mem

=============================================================================
