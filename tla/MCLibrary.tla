----------------------------- MODULE MCLibrary -----------------------------
(***************************************************************************)
(* TLC instance of the code that programs use as a library: a program      *)
(* works on a red-black tree or a splay tree (include/compat/sys/tree.h),  *)
(* or uses one of the small parts that Shims composes, lists among them.   *)
(***************************************************************************)
EXTENDS Shims

CONSTANTS RBNodes, SplayNodes, HDR

VARIABLES tree, rbpc, elm, par, rbmembers,  \* RBTree
          root, child, members, last        \* SplayTree

\* Nine keys, elements 4 and 10 having the same one; six keys, elements 3 and 7 likewise.
RBKey == [n \in RBNodes |-> IF n = 10 THEN 4 ELSE n]
SplayKey == [n \in SplayNodes |-> IF n = 7 THEN 3 ELSE n]

RB == INSTANCE RBTree WITH Nodes <- RBNodes, Key <- RBKey, pc <- rbpc, members <- rbmembers
SPLAY == INSTANCE SplayTree WITH Nodes <- SplayNodes, Key <- SplayKey

ASSUME PartsAssumption ==
  /\ FileAssumption /\ ALARM!AlarmAssumption /\ SOCKET!SocketAssumption
  /\ GETDELIM!GetdelimAssumption /\ ASPRINTF!AsprintfAssumption /\ BYTES!BytesAssumption
  /\ QUEUE!QueueAssumption

rbVars == <<tree, rbpc, elm, par, rbmembers>>
splayVars == <<root, child, members, last>>
mcVars == <<use, rbVars, splayVars, shimVars>>

\* A part that is not in use stays in one of its initial states.
MCInit ==
  /\ use \in {"RB", "SPLAY"} \cup Parts
  /\ RB!Init /\ SPLAY!Init /\ ShimsInit

MCNext ==
  \/ use = "RB" /\ RB!Next /\ UNCHANGED <<use, splayVars, shimVars>>
  \/ use = "SPLAY" /\ SPLAY!Next /\ UNCHANGED <<use, rbVars, shimVars>>
  \/ ShimsNext /\ UNCHANGED <<use, rbVars, splayVars>>

MCSpec == MCInit /\ [][MCNext]_mcVars /\ ShimsFairness

\* What the trees must fulfil, with the properties of their modules.

\* A red-black tree stands for the set of what was inserted and not removed, and its colours
\* are balanced, so that no loop follows a sibling or grandparent that is NULL.
RedBlackTree == RB!TypeOK /\ RB!RepresentsSet /\ RB!RedBlack /\ RB!NeverDereferencesNull
\* A splay tree is a search tree of the members, with the requested element at its root,
\* and gives the results that the ordered set would.
SearchTree == SPLAY!TypeOK /\ SPLAY!SearchTree /\ SPLAY!ResultRight /\ SPLAY!RequestedAtRoot
=============================================================================
