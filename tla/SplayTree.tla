----------------------------- MODULE SplayTree -----------------------------
(***************************************************************************)
(* include/compat/sys/tree.h: the splay tree macros SPLAY_*.               *)
(*                                                                         *)
(* As in RBTree, child[L] is spe_left and child[R] spe_right, and a side   *)
(* as parameter stands for two mirrored branches.  Every operation, a      *)
(* lookup too, rearranges the tree; each is one action.  HDR is the local  *)
(* __node of the splay.  The program inserts elements that are not in the  *)
(* tree, although one with an equal key may be, and removes and asks for   *)
(* the successor of elements that are.                                     *)
(***************************************************************************)
EXTENDS Naturals

CONSTANTS Nodes,  \* the elements
          Key,    \* Nodes -> Nat, what cmp compares
          HDR,    \* the node __node on the stack, none of the elements
          NIL     \* NULL

VARIABLES root, child,
          members,       \* what the program has inserted and not removed
          last           \* the last operation, its argument and its result

vars == <<root, child, members, last>>

Sides == {"L", "R"}
Opp(d) == IF d = "L" THEN "R" ELSE "L"
Ops == {"none", "insert", "remove", "find", "next", "min", "max"}

\* Pointers lead to elements of the tree.
TypeOK ==
  /\ members \in SUBSET Nodes
  /\ root \in members \cup {NIL}
  /\ child \in [Sides -> [Nodes \cup {HDR} -> members \cup {NIL}]]
  /\ last.op \in Ops /\ last.ret \in Nodes \cup {NIL}

Init ==
  /\ root = NIL /\ child = [d \in Sides |-> [n \in Nodes \cup {HDR} |-> NIL]]
  /\ members = {} /\ last = [op |-> "none", arg |-> NIL, ret |-> NIL]

-----------------------------------------------------------------------------
\* SPLAY_ROTATE_RIGHT for d = L, SPLAY_ROTATE_LEFT for d = R: the d-child becomes the root.
Rotate(t, d) ==
  LET tmp == t.child[d][t.root]
  IN  [t EXCEPT !.root = tmp, !.child[d][t.root] = t.child[Opp(d)][tmp],
                !.child[Opp(d)][tmp] = t.root]

\* A mutation: the end of the side tree does not move on.
LinkForgets(t, d) == [t EXCEPT !.child[d][t.end[d]] = t.root, !.root = t.child[d][t.root]]

\* SPLAY_LINKLEFT (d = L, end[L] is __right), SPLAY_LINKRIGHT (d = R, end[R] is __left)
Link(t, d) ==
  [t EXCEPT !.child[d][t.end[d]] = t.root, !.end[d] = t.root, !.root = t.child[d][t.root]]

\* SPLAY_ASSEMBLE
Assemble(t) ==
  LET t1 == [t EXCEPT !.child["R"][t.end["R"]] = t.child["L"][t.root],
                      !.child["L"][t.end["L"]] = t.child["R"][t.root]]
  IN  [t1 EXCEPT !.child["L"][t.root] = t1.child["R"][HDR],
                 !.child["R"][t.root] = t1.child["L"][HDR]]

\* The loop of SPLAY and SPLAY_MINMAX: dir[n] says where the search goes from n.
RECURSIVE Loop(_, _)
Loop(t, dir) ==
  LET d == dir[t.root]
      tmp == t.child[d][t.root]
      t1 == IF dir[tmp] = d THEN Rotate(t, d) ELSE t
  IN  IF d = "=" THEN t
      ELSE IF tmp = NIL THEN t
      ELSE IF dir[tmp] = d /\ t1.child[d][t1.root] = NIL THEN t1
      ELSE Loop(Link(t1, d), dir)

Splay(r, c, dir) ==
  LET t == Assemble(Loop([root |-> r, child |-> c, end |-> [d \in Sides |-> HDR]], dir))
  IN  [root |-> t.root,
       child |-> [d \in Sides |-> [t.child[d] EXCEPT ![HDR] = NIL]]]

\* cmp(elm, n) for an elm with key k
Toward(k, n) == IF k < Key[n] THEN "L" ELSE IF k > Key[n] THEN "R" ELSE "="

name_SPLAY(r, c, k) == Splay(r, c, [n \in Nodes |-> Toward(k, n)])

name_SPLAY_MINMAX(r, c, d) == Splay(r, c, [n \in Nodes |-> d])

-----------------------------------------------------------------------------
Result(op, arg, ret) == last' = [op |-> op, arg |-> arg, ret |-> ret]
Becomes(t) == root' = t.root /\ child' = t.child

\* The root's subtree on the side d of the new element goes below it, the root on the other.
SplitAt(t, e, d) ==
  [t EXCEPT !.root = e, !.child[d][e] = t.child[d][t.root], !.child[Opp(d)][e] = t.root,
            !.child[d][t.root] = NIL]

SPLAY_INSERT(e) ==
  LET t == name_SPLAY(root, child, Key[e])
      c == Toward(Key[e], t.root)
  IN  /\ e \notin members
      /\ members' = IF \E n \in members : Key[n] = Key[e] THEN members ELSE members \cup {e}
      /\ IF root = NIL
         THEN /\ root' = e /\ child' = [d \in Sides |-> [child[d] EXCEPT ![e] = NIL]]
              /\ Result("insert", e, NIL)
         ELSE IF c = "=" THEN Becomes(t) /\ Result("insert", e, t.root)
         ELSE Becomes(SplitAt(t, e, c)) /\ Result("insert", e, NIL)

\* The subtrees of the root joined: the greatest of the left one has no right child.
Join(t, k) ==
  LET left == name_SPLAY(t.child["L"][t.root], t.child, k)
  IN  IF t.child["L"][t.root] = NIL THEN [root |-> t.child["R"][t.root], child |-> t.child]
      ELSE [left EXCEPT !.child["R"][left.root] = t.child["R"][t.root]]

\* The fields of an element outside the tree are not represented: SPLAY_INSERT sets them.
SPLAY_REMOVE(e) ==
  LET t == Join(name_SPLAY(root, child, Key[e]), Key[e])
  IN  /\ e \in members
      /\ root' = t.root /\ child' = [d \in Sides |-> [t.child[d] EXCEPT ![e] = NIL]]
      /\ members' = members \ {e} /\ Result("remove", e, e)

\* The element sought may be one that only carries the key.
SPLAY_FIND(e) ==
  /\ UNCHANGED members
  /\ IF root = NIL THEN Result("find", e, NIL) /\ UNCHANGED <<root, child>>
     ELSE LET t == name_SPLAY(root, child, Key[e])
          IN  Becomes(t) /\ Result("find", e, IF Key[t.root] = Key[e] THEN t.root ELSE NIL)

SPLAY_NEXT(e) ==
  LET t == name_SPLAY(root, child, Key[e])
      least[n \in Nodes] == IF t.child["L"][n] = NIL THEN n ELSE least[t.child["L"][n]]
  IN  /\ e \in members /\ UNCHANGED members
      /\ Becomes(t)
      /\ Result("next", e, IF t.child["R"][e] = NIL THEN NIL ELSE least[t.child["R"][e]])

SPLAY_MIN_MAX(d) ==
  /\ UNCHANGED members
  /\ IF root = NIL THEN UNCHANGED <<root, child>> ELSE Becomes(name_SPLAY_MINMAX(root, child, d))
  /\ Result(IF d = "L" THEN "min" ELSE "max", NIL, root')

Next ==
  \/ \E e \in Nodes : SPLAY_INSERT(e) \/ SPLAY_REMOVE(e) \/ SPLAY_FIND(e) \/ SPLAY_NEXT(e)
  \/ \E d \in Sides : SPLAY_MIN_MAX(d)

Spec == Init /\ [][Next]_vars

-----------------------------------------------------------------------------
Least(S) == IF S = {} THEN NIL ELSE CHOOSE m \in S : \A n \in S : Key[m] <= Key[n]
Greatest(S) == IF S = {} THEN NIL ELSE CHOOSE m \in S : \A n \in S : Key[m] >= Key[n]

\* The elements in the subtree of n.
Subtree == LET f[n \in Nodes \cup {NIL}] ==
                 IF n = NIL THEN {} ELSE {n} \cup f[child["L"][n]] \cup f[child["R"][n]]
           IN  f

(***************************************************************************)
(* However the tree has been rearranged, it holds what was inserted and    *)
(* not removed, in search order.                                           *)
(***************************************************************************)
SearchTree ==
  /\ Subtree[root] = members
  /\ \A n \in members : /\ \A m \in Subtree[child["L"][n]] : Key[m] < Key[n]
                        /\ \A m \in Subtree[child["R"][n]] : Key[m] > Key[n]

(***************************************************************************)
(* Each operation gives what the ordered set would: the element with the   *)
(* key, the successor, the least, the greatest, the element in the way of  *)
(* an insertion.                                                           *)
(***************************************************************************)
ResultRight ==
  LET k == Key[last.arg]
      equal == {n \in members : Key[n] = k}
  IN  /\ last.op = "insert" => last.ret = (IF last.arg \in members THEN NIL ELSE Least(equal))
      /\ last.op = "find" => last.ret = Least(equal)
      /\ last.op = "next" => last.ret = Least({n \in members : Key[n] > k})
      /\ last.op = "min" => last.ret = Least(members)
      /\ last.op = "max" => last.ret = Greatest(members)

(***************************************************************************)
(* "The splay moves the requested node to the root of the tree": what was  *)
(* just found, inserted or asked about is the root.                        *)
(***************************************************************************)
RequestedAtRoot ==
  /\ last.op = "insert" => root = (IF last.ret = NIL THEN last.arg ELSE last.ret)
  /\ last.op \in {"find", "min", "max"} /\ last.ret # NIL => root = last.ret
  /\ last.op = "next" => root = last.arg

=============================================================================
