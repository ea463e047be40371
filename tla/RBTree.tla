------------------------------- MODULE RBTree -------------------------------
(***************************************************************************)
(* include/compat/sys/tree.h: the red-black tree macros RB_*.              *)
(*                                                                         *)
(* The elements of a tree are linked by the pointers left, right and       *)
(* parent that RB_ENTRY puts into them.  tree holds the pointers of all    *)
(* elements of the program; child[L] is rbe_left and child[R] rbe_right,   *)
(* so that the two mirrored halves of each macro are one definition with   *)
(* a side as parameter.  Each round of the loops of RB_INSERT_COLOR and    *)
(* RB_REMOVE_COLOR is a step.  The program inserts elements that are not   *)
(* in the tree, although one with an equal key may be, and removes         *)
(* elements that are.  RB_AUGMENT is left at its default, which does       *)
(* nothing.                                                                *)
(***************************************************************************)
EXTENDS Naturals

CONSTANTS Nodes,     \* the elements
          Key,       \* Nodes -> Nat, what cmp compares
          NIL        \* NULL, none of the elements

VARIABLES tree,       \* root, child, parent, color
          pc,         \* idle, insert_color, remove_color
          elm, par,   \* the variables elm and parent of the two loops
          members     \* what the program has inserted and not removed

vars == <<tree, pc, elm, par, members>>

Sides == {"L", "R"}
Opp(d) == IF d = "L" THEN "R" ELSE "L"
Ptr == Nodes \cup {NIL}
Colors == {"BLACK", "RED"}

\* Pointers lead to elements of the tree, also in the middle of a call.
TypeOK ==
  /\ members \in SUBSET Nodes
  /\ LET In == members \cup {NIL} IN
       /\ tree \in [root : In, child : [Sides -> [Nodes -> In]], parent : [Nodes -> In],
                    color : [Nodes -> Colors]]
       /\ elm \in In /\ par \in In
  /\ pc \in {"idle", "insert_color", "remove_color"}

Init ==
  /\ tree = [root |-> NIL, child |-> [d \in Sides |-> [n \in Nodes |-> NIL]],
             parent |-> [n \in Nodes |-> NIL], color |-> [n \in Nodes |-> "BLACK"]]
  /\ pc = "idle" /\ elm = NIL /\ par = NIL /\ members = {}

-----------------------------------------------------------------------------
\* The link from up that led to old, or the root, now leads to new.
Relink(t, up, old, new) ==
  IF up = NIL THEN [t EXCEPT !.root = new]
  ELSE IF t.child["L"][up] = old THEN [t EXCEPT !.child["L"][up] = new]
  ELSE [t EXCEPT !.child["R"][up] = new]

SetParent(t, n, up) == IF n = NIL THEN t ELSE [t EXCEPT !.parent[n] = up]

IsRed(t, n) == n # NIL /\ t.color[n] = "RED"

\* RB_SET_BLACKRED
SetBlackRed(t, black, red) == [t EXCEPT !.color[black] = "BLACK", !.color[red] = "RED"]

\* RB_ROTATE_LEFT for d = L, RB_ROTATE_RIGHT for d = R
Rotate(t, e, d) ==
  LET tmp == t.child[Opp(d)][e]
      inner == t.child[d][tmp]
      up == t.parent[e]
      t1 == SetParent([t EXCEPT !.child[Opp(d)][e] = inner], inner, e)
      t2 == Relink([t1 EXCEPT !.parent[tmp] = up], up, e, tmp)
  IN  [t2 EXCEPT !.child[d][tmp] = e, !.parent[e] = tmp]

-----------------------------------------------------------------------------
\* The last element on the search path for key k: one with that key, if there is one.
Descend(t, k) ==
  LET f[n \in Nodes] ==
        LET next == IF k < Key[n] THEN t.child["L"][n] ELSE t.child["R"][n]
        IN  IF k = Key[n] \/ next = NIL THEN n ELSE f[next]
  IN  IF t.root = NIL THEN NIL ELSE f[t.root]

RB_FIND(t, k) ==
  LET last == Descend(t, k) IN IF last # NIL /\ Key[last] = k THEN last ELSE NIL

\* The least element whose key is at least k.
RB_NFIND(t, k) ==
  LET f[n \in Ptr, res \in Ptr] ==
        IF n = NIL THEN res
        ELSE IF k < Key[n] THEN f[t.child["L"][n], n]
        ELSE IF k > Key[n] THEN f[t.child["R"][n], res]
        ELSE n
  IN  f[t.root, NIL]

\* The end of the chain of d-children that starts at n.
Extreme(t, n, d) ==
  LET f[m \in Nodes] == IF t.child[d][m] = NIL THEN m ELSE f[t.child[d][m]] IN f[n]

\* RB_MINMAX for d = L and d = R
RB_MINMAX(t, d) == IF t.root = NIL THEN NIL ELSE Extreme(t, t.root, d)

\* RB_NEXT for d = R, RB_PREV for d = L
Neighbour(t, n, d) ==
  LET up[m \in Nodes] ==
        IF t.parent[m] # NIL /\ m = t.child[d][t.parent[m]] THEN up[t.parent[m]] ELSE t.parent[m]
  IN  IF t.child[d][n] # NIL THEN Extreme(t, t.child[d][n], Opp(d)) ELSE up[n]

-----------------------------------------------------------------------------
Equal(k) == {n \in members : Key[n] = k}

\* RB_INSERT, up to the call of RB_INSERT_COLOR: RB_SET and the link from the parent
RB_INSERT(e) ==
  LET at == Descend(tree, Key[e])
      set == [tree EXCEPT !.parent[e] = at, !.child["L"][e] = NIL, !.child["R"][e] = NIL,
                          !.color[e] = "RED"]
      d == IF Key[e] < Key[at] THEN "L" ELSE "R"
  IN  /\ pc = "idle" /\ e \notin members
      /\ IF at # NIL /\ Key[at] = Key[e]
         THEN UNCHANGED <<tree, pc, elm>>
         ELSE /\ tree' = IF at = NIL THEN [set EXCEPT !.root = e]
                         ELSE [set EXCEPT !.child[d][at] = e]
              /\ pc' = "insert_color" /\ elm' = e
      /\ members' = IF Equal(Key[e]) = {} THEN members \cup {e} ELSE members
      /\ UNCHANGED par

\* A round of RB_INSERT_COLOR, entered with a red parent.
InsertColor(t, e) ==
  LET parent == t.parent[e]
      gparent == t.parent[parent]
      d == IF parent = t.child["L"][gparent] THEN "L" ELSE "R"
      uncle == t.child[Opp(d)][gparent]
      inner == t.child[Opp(d)][parent] = e
      t1 == IF inner THEN Rotate(t, parent, d) ELSE t
      outer == IF inner THEN e ELSE parent
      low == IF inner THEN parent ELSE e
  IN  IF IsRed(t, uncle)
      THEN [tree |-> SetBlackRed([t EXCEPT !.color[uncle] = "BLACK"], parent, gparent),
            elm |-> gparent]
      ELSE [tree |-> Rotate(SetBlackRed(t1, outer, gparent), gparent, Opp(d)), elm |-> low]

InsertRound ==
  /\ pc = "insert_color" /\ IsRed(tree, tree.parent[elm])
  /\ LET r == InsertColor(tree, elm) IN tree' = r.tree /\ elm' = r.elm
  /\ UNCHANGED <<pc, par, members>>

InsertDone ==
  /\ pc = "insert_color" /\ ~IsRed(tree, tree.parent[elm])
  /\ tree' = [tree EXCEPT !.color[tree.root] = "BLACK"]
  /\ pc' = "idle" /\ elm' = NIL
  /\ UNCHANGED <<par, members>>

-----------------------------------------------------------------------------
\* n, which has at most one child, is unlinked.
Unlink(t, n) ==
  LET child == IF t.child["L"][n] = NIL THEN t.child["R"][n] ELSE t.child["L"][n]
  IN  Relink(SetParent(t, child, t.parent[n]), t.parent[n], n, child)

\* (elm)->field = (old)->field, and the links to old now lead to e
Replace(t, old, e) ==
  LET t1 == [t EXCEPT !.child["L"][e] = t.child["L"][old], !.child["R"][e] = t.child["R"][old],
                      !.parent[e] = t.parent[old], !.color[e] = t.color[old]]
      t2 == Relink(t1, t.parent[old], old, e)
  IN  SetParent([t2 EXCEPT !.parent[t.child["L"][old]] = e], t.child["R"][old], e)

\* The fields of an element outside the tree are not represented: RB_INSERT sets all of them.
Forget(t, n) == [t EXCEPT !.child["L"][n] = NIL, !.child["R"][n] = NIL, !.parent[n] = NIL,
                          !.color[n] = "BLACK"]

\* if (RB_PARENT(elm, field) == old) parent = elm;
RemoveParent(t, old, e) == IF t.parent[e] = old THEN e ELSE t.parent[e]

\* RB_REMOVE, up to the call of RB_REMOVE_COLOR
RB_REMOVE(old) ==
  LET both == tree.child["L"][old] # NIL /\ tree.child["R"][old] # NIL
      e == IF both THEN Extreme(tree, tree.child["R"][old], "L") ELSE old
      child == IF tree.child["L"][e] = NIL THEN tree.child["R"][e] ELSE tree.child["L"][e]
      unlinked == Unlink(tree, e)
      replaced == IF both THEN Replace(unlinked, old, e) ELSE unlinked
  IN  /\ pc = "idle" /\ old \in members
      /\ tree' = Forget(replaced, old)
      /\ IF tree.color[e] = "BLACK"
         THEN /\ pc' = "remove_color" /\ elm' = child
              /\ par' = IF both THEN RemoveParent(tree, old, e) ELSE tree.parent[e]
         ELSE UNCHANGED <<pc, elm, par>>
      /\ members' = members \ {old}

RemoveGoesOn == ~IsRed(tree, elm) /\ elm # tree.root

\* The side of elm below its parent, and its sibling there.
Side == IF tree.child["L"][par] = elm THEN "L" ELSE "R"
Sibling == tree.child[Opp(Side)][par]

\* A round of RB_REMOVE_COLOR.  The sibling's red children decide between
\* recolouring, which moves the problem upwards, and the rotations that end it.
RemoveRound ==
  LET d == Side
      red == tree.color[Sibling] = "RED"
      t1 == IF red THEN Rotate(SetBlackRed(tree, Sibling, par), par, d) ELSE tree
      tmp == t1.child[Opp(d)][par]
      far(t, n) == t.child[Opp(d)][n]
      near == t1.child[d][tmp]
      t2 == IF ~IsRed(t1, far(t1, tmp))
            THEN Rotate([t1 EXCEPT !.color[near] = "BLACK", !.color[tmp] = "RED"], tmp, Opp(d))
            ELSE t1
      tmp2 == far(t2, par)
      t3 == [t2 EXCEPT !.color[tmp2] = t2.color[par], !.color[par] = "BLACK"]
      t4 == IF far(t3, tmp2) = NIL THEN t3 ELSE [t3 EXCEPT !.color[far(t3, tmp2)] = "BLACK"]
  IN  /\ pc = "remove_color" /\ RemoveGoesOn
      /\ IF ~IsRed(t1, near) /\ ~IsRed(t1, far(t1, tmp))
         THEN /\ tree' = [t1 EXCEPT !.color[tmp] = "RED"]
              /\ elm' = par /\ par' = t1.parent[par]
         ELSE /\ tree' = Rotate(t4, par, d)
              /\ elm' = Rotate(t4, par, d).root /\ par' = NIL
      /\ UNCHANGED <<pc, members>>

\* A mutation: the element that is left is not made black.
RemoveColorKept == tree

\* if (elm) RB_COLOR(elm, field) = RB_BLACK;
RemoveColor == IF elm = NIL THEN tree ELSE [tree EXCEPT !.color[elm] = "BLACK"]

RemoveDone ==
  /\ pc = "remove_color" /\ ~RemoveGoesOn
  /\ tree' = RemoveColor
  /\ pc' = "idle" /\ elm' = NIL /\ par' = NIL
  /\ UNCHANGED members

Step == InsertRound \/ InsertDone \/ RemoveRound \/ RemoveDone
Next == (\E n \in Nodes : RB_INSERT(n) \/ RB_REMOVE(n)) \/ Step

Spec == Init /\ [][Next]_vars

-----------------------------------------------------------------------------
\* The member that comes next to n in order of keys, or NIL.
Above(S, n) == {m \in S : Key[m] > Key[n]}
Below(S, n) == {m \in S : Key[m] < Key[n]}
Least(S) == IF S = {} THEN NIL ELSE CHOOSE m \in S : \A n \in S : Key[m] <= Key[n]
Greatest(S) == IF S = {} THEN NIL ELSE CHOOSE m \in S : \A n \in S : Key[m] >= Key[n]

(***************************************************************************)
(* Between calls the pointers represent exactly what was inserted and not  *)
(* removed: RB_MIN, RB_MAX, RB_NEXT, RB_PREV, RB_FIND and RB_NFIND give    *)
(* what the ordered set would, after any sequence of calls.                *)
(***************************************************************************)
RepresentsSet ==
  pc = "idle" =>
    /\ RB_MINMAX(tree, "L") = Least(members) /\ RB_MINMAX(tree, "R") = Greatest(members)
    /\ \A n \in members : /\ Neighbour(tree, n, "R") = Least(Above(members, n))
                          /\ Neighbour(tree, n, "L") = Greatest(Below(members, n))
    /\ \A n \in Nodes : /\ RB_FIND(tree, Key[n]) = Least(Equal(Key[n]))
                        /\ RB_NFIND(tree, Key[n]) = Least(Above(members, n) \cup Equal(Key[n]))

\* The number of black elements on every path down from n, or 0 if they differ.
BlackHeight(t) ==
  LET h[n \in Ptr] ==
        IF n = NIL THEN 1
        ELSE LET l == h[t.child["L"][n]]
                 r == h[t.child["R"][n]]
             IN  IF l = 0 \/ l # r THEN 0 ELSE IF t.color[n] = "BLACK" THEN l + 1 ELSE l
  IN  h[t.root]

(***************************************************************************)
(* What the header says a red-black tree fulfils: as many black elements   *)
(* on every path from the root, and no red element below a red one; and    *)
(* the root is black, on which RB_INSERT_COLOR relies.                     *)
(***************************************************************************)
RedBlack ==
  pc = "idle" =>
    /\ BlackHeight(tree) > 0
    /\ \A n \in members : IsRed(tree, n) => ~IsRed(tree, tree.parent[n])
    /\ ~IsRed(tree, tree.root)

(***************************************************************************)
(* The loops dereference gparent and the sibling without a test: they are  *)
(* never NULL, and neither is the red child that a rotation pulls up.      *)
(***************************************************************************)
NeverDereferencesNull ==
  /\ pc = "insert_color" /\ IsRed(tree, tree.parent[elm]) => tree.parent[tree.parent[elm]] # NIL
  /\ pc = "remove_color" /\ RemoveGoesOn =>
       /\ par # NIL /\ Sibling # NIL
       /\ tree.color[Sibling] = "RED" => tree.child[Side][Sibling] # NIL

=============================================================================
