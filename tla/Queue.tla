------------------------------- MODULE Queue -------------------------------
(***************************************************************************)
(* include/compat/sys/queue.h: SLIST, LIST, SIMPLEQ, XSIMPLEQ and TAILQ.   *)
(*                                                                         *)
(* A cell is the address of a "next" pointer: &head->first is the cell of  *)
(* the head, &elm->next the cell of the element.  prev and last hold such  *)
(* addresses, as le_prev, tqe_prev, sqh_last and tqh_last do.  The kinds   *)
(* differ in which of the two they keep (Double, Tail), and their macros   *)
(* are otherwise the same assignments.  An XSIMPLEQ is a SIMPLEQ whose     *)
(* pointers are stored XORed with a random cookie of their head.  Both     *)
(* heads of an instance are of one kind.  A program may remove the current *)
(* element inside a FOREACH_SAFE loop.                                     *)
(***************************************************************************)
EXTENDS Naturals, Sequences, SequencesExt

CONSTANTS Heads, Nodes,  \* list heads and elements, different things
          NULL

VARIABLES kind,  \* SLIST, LIST, SIMPLEQ, XSIMPLEQ or TAILQ
          q,     \* the pointers: next, prev, last
          list,  \* what each head stands for, a sequence of elements
          loop   \* a FOREACH_SAFE loop: its head, direction, var and tvar, and the
                 \* elements it has yet to leave behind

vars == <<kind, q, list, loop>>

Cells == Heads \cup Nodes

\* Heads, elements and NULL are different things, and no XORed pointer is one of them.
QueueAssumption ==
  /\ Heads \cap Nodes = {} /\ NULL \notin Cells
  /\ \A h \in Heads, p \in Cells \cup {NULL} : <<h, p>> \notin Cells \cup {NULL}

Double == kind \in {"LIST", "TAILQ"}
Tail_ == kind \in {"SIMPLEQ", "XSIMPLEQ", "TAILQ"}
Simple == kind \in {"SIMPLEQ", "XSIMPLEQ"}
Used == UNION {Range(list[h]) : h \in Heads}
NoLoop == [on |-> FALSE, head |-> NULL, back |-> FALSE, var |-> NULL, tvar |-> NULL,
           todo |-> <<>>]

\* XSIMPLEQ_XOR: a pointer becomes one that only the same head's cookie turns back.  The
\* macro goes through unsigned long, which is taken to hold a pointer (not so on 64-bit
\* Windows, where the upper half would be lost).
XOR(h, p) ==
  IF kind # "XSIMPLEQ" THEN p
  ELSE IF p \in {h} \X (Cells \cup {NULL}) THEN p[2] ELSE <<h, p>>

Pointers(cells) == cells \cup (IF kind = "XSIMPLEQ" THEN Heads \X cells ELSE {})

TypeOK ==
  /\ q.next \in [Cells -> Pointers(Used \cup {NULL})]
  /\ q.prev \in [Nodes -> Heads \cup Used \cup {NULL}]
  /\ q.last \in [Heads -> Pointers(Heads \cup Used \cup {NULL})]

Init ==
  /\ kind \in {"SLIST", "LIST", "SIMPLEQ", "XSIMPLEQ", "TAILQ"}
  /\ q = [next |-> [c \in Cells |-> IF c \in Heads THEN XOR(c, NULL) ELSE NULL],
          prev |-> [n \in Nodes |-> NULL],
          last |-> [h \in Heads |-> IF Tail_ THEN XOR(h, h) ELSE NULL]]
  /\ list = [h \in Heads |-> <<>>]
  /\ loop = NoLoop

-----------------------------------------------------------------------------
SetPrev(p, n, c) == IF Double /\ n # NULL THEN [p EXCEPT !.prev[n] = c] ELSE p
SetLast(p, h, c) == IF Tail_ THEN [p EXCEPT !.last[h] = XOR(h, c)] ELSE p

\* A mutation: the tail pointer is not looked after.
LinkNoTail(p, h, c, e) ==
  LET p1 == SetPrev([p EXCEPT !.next[e] = p.next[c]], p.next[c], e)
  IN  SetPrev([p1 EXCEPT !.next[c] = XOR(h, e)], e, c)

\* INSERT_HEAD (c is the head's cell) and INSERT_AFTER (c is an element's)
Link(p, h, c, e) ==
  LET p1 == [p EXCEPT !.next[e] = p.next[c]]
      p2 == IF p.next[c] = XOR(h, NULL) THEN SetLast(p1, h, e) ELSE SetPrev(p1, p.next[c], e)
  IN  SetPrev([p2 EXCEPT !.next[c] = XOR(h, e)], e, c)

\* INSERT_TAIL
LinkTail(p, h, e) ==
  LET p1 == SetPrev([p EXCEPT !.next[e] = XOR(h, NULL)], e, p.last[h])
  IN  SetLast([p1 EXCEPT !.next[XOR(h, p.last[h])] = XOR(h, e)], h, e)

\* INSERT_BEFORE
LinkBefore(p, at, e) ==
  [p EXCEPT !.prev[e] = p.prev[at], !.next[e] = at, !.next[p.prev[at]] = e, !.prev[at] = e]

\* The fields of an element outside every list are not represented.
Forget(p, e) == SetPrev([p EXCEPT !.next[e] = NULL], e, NULL)

\* REMOVE_HEAD, REMOVE_AFTER and SLIST_REMOVE: the element after cell c
UnlinkAfter(p, h, c) ==
  LET e == XOR(h, p.next[c])
      p1 == [p EXCEPT !.next[c] = p.next[e]]
  IN  Forget(IF p.next[e] = XOR(h, NULL) THEN SetLast(p1, h, c) ELSE p1, e)

\* LIST_REMOVE, TAILQ_REMOVE
Unlink(p, h, e) ==
  LET p1 == IF p.next[e] = NULL THEN SetLast(p, h, p.prev[e]) ELSE SetPrev(p, p.next[e], p.prev[e])
  IN  Forget([p1 EXCEPT !.next[p.prev[e]] = p.next[e]], e)

\* LIST_REPLACE, TAILQ_REPLACE
Exchange(p, h, e, e2) ==
  LET p1 == [p EXCEPT !.next[e2] = p.next[e]]
      p2 == IF p.next[e] = NULL THEN SetLast(p1, h, e2) ELSE SetPrev(p1, p.next[e], e2)
  IN  Forget([p2 EXCEPT !.prev[e2] = p.prev[e], !.next[p.prev[e]] = e2], e)

\* SIMPLEQ_CONCAT, TAILQ_CONCAT of a second list that is not empty
Splice(p, h1, h2) ==
  LET p1 == [p EXCEPT !.next[p.last[h1]] = p.next[h2], !.last[h1] = p.last[h2]]
      p2 == SetPrev(p1, p.next[h2], p.last[h1])
  IN  [p2 EXCEPT !.next[h2] = NULL, !.last[h2] = h2]

\* TAILQ_PREV and TAILQ_LAST read the head of an element's entry as if it were a list's:
\* what follows the next pointer at cell c is last for a head and prev for an element.
Second(c) == IF c \in Heads THEN q.last[c] ELSE q.prev[c]
TAILQ_LAST(h) == q.next[Second(q.last[h])]
TAILQ_PREV(e) == q.next[Second(q.prev[e])]

-----------------------------------------------------------------------------
Free(e) == e \in Nodes \ Used
Idle == ~loop.on /\ UNCHANGED <<kind, loop>>
IndexIn(s, e) == CHOOSE k \in DOMAIN s : s[k] = e
Without(s, e) == RemoveAt(s, IndexIn(s, e))

INSERT_HEAD(h, e) ==
  /\ Idle /\ Free(e)
  /\ q' = Link(q, h, h, e) /\ list' = [list EXCEPT ![h] = <<e>> \o @]

INSERT_TAIL(h, e) ==
  /\ Idle /\ Free(e) /\ Tail_
  /\ q' = LinkTail(q, h, e) /\ list' = [list EXCEPT ![h] = Append(@, e)]

INSERT_AFTER(h, at, e) ==
  /\ Idle /\ Free(e) /\ at \in Range(list[h])
  /\ q' = Link(q, h, at, e)
  /\ list' = [list EXCEPT ![h] = InsertAt(@, IndexIn(@, at) + 1, e)]

INSERT_BEFORE(h, at, e) ==
  /\ Idle /\ Free(e) /\ Double /\ at \in Range(list[h])
  /\ q' = LinkBefore(q, at, e)
  /\ list' = [list EXCEPT ![h] = InsertAt(@, IndexIn(@, at), e)]

REMOVE_HEAD(h) ==
  /\ Idle /\ ~Double /\ list[h] # <<>>
  /\ q' = UnlinkAfter(q, h, h) /\ list' = [list EXCEPT ![h] = Tail(@)]

REMOVE_AFTER(h, e) ==
  /\ Idle /\ ~Double /\ e \in Range(list[h]) /\ XOR(h, q.next[e]) # NULL
  /\ q' = UnlinkAfter(q, h, e) /\ list' = [list EXCEPT ![h] = RemoveAt(@, IndexIn(@, e) + 1)]

\* SLIST_REMOVE searches for the cell that leads to the element.
RemovedFrom(h, e) ==
  IF Double THEN Unlink(q, h, e)
  ELSE UnlinkAfter(q, h, CHOOSE c \in {h} \cup Range(list[h]) : q.next[c] = e)

REMOVE(h, e) ==
  /\ Idle /\ ~Simple /\ e \in Range(list[h])
  /\ q' = RemovedFrom(h, e) /\ list' = [list EXCEPT ![h] = Without(@, e)]

REPLACE(h, e, e2) ==
  /\ Idle /\ Double /\ e \in Range(list[h]) /\ Free(e2)
  /\ q' = Exchange(q, h, e, e2) /\ list' = [list EXCEPT ![h][IndexIn(list[h], e)] = e2]

CONCAT(h1, h2) ==
  /\ Idle /\ kind \in {"SIMPLEQ", "TAILQ"} /\ h1 # h2
  /\ q' = IF q.next[h2] = NULL THEN q ELSE Splice(q, h1, h2)
  /\ list' = [list EXCEPT ![h1] = @ \o list[h2], ![h2] = <<>>]

-----------------------------------------------------------------------------
\* The loop reaches var: tvar is read before the body runs.
At(h, back, var, todo) ==
  loop' = IF var = NULL THEN [NoLoop EXCEPT !.todo = todo]
          ELSE [on |-> TRUE, head |-> h, back |-> back, var |-> var, todo |-> todo,
                tvar |-> IF back THEN TAILQ_PREV(var) ELSE XOR(h, q.next[var])]

FOREACH_SAFE(h) ==
  /\ ~loop.on /\ list[h] # <<>>
  /\ At(h, FALSE, XOR(h, q.next[h]), list[h])
  /\ UNCHANGED <<kind, q, list>>

FOREACH_REVERSE_SAFE(h) ==
  /\ ~loop.on /\ kind = "TAILQ" /\ list[h] # <<>>
  /\ At(h, TRUE, TAILQ_LAST(h), Reverse(list[h]))
  /\ UNCHANGED <<kind, q, list>>

\* The body removes the current element, once.
BodyRemoves ==
  /\ loop.on /\ ~Simple /\ loop.var \in Used
  /\ q' = RemovedFrom(loop.head, loop.var)
  /\ list' = [list EXCEPT ![loop.head] = Without(@, loop.var)]
  /\ UNCHANGED <<kind, loop>>

\* (var) = (tvar)
Step == loop.tvar

LoopNext ==
  /\ loop.on
  /\ At(loop.head, loop.back, Step, Tail(loop.todo))
  /\ UNCHANGED <<kind, q, list>>

Next ==
  \/ \E h \in Heads, e \in Nodes :
       \/ INSERT_HEAD(h, e) \/ INSERT_TAIL(h, e) \/ REMOVE(h, e) \/ REMOVE_AFTER(h, e)
       \/ \E f \in Nodes : INSERT_AFTER(h, f, e) \/ INSERT_BEFORE(h, f, e) \/ REPLACE(h, f, e)
  \/ \E h \in Heads : \/ REMOVE_HEAD(h) \/ FOREACH_SAFE(h) \/ FOREACH_REVERSE_SAFE(h)
                      \/ \E h2 \in Heads : CONCAT(h, h2)
  \/ BodyRemoves \/ LoopNext

Spec == Init /\ [][Next]_vars

-----------------------------------------------------------------------------
\* The cells of a list in order, the head's first.
CellsOf(h) == <<h>> \o list[h]

(***************************************************************************)
(* The pointers stand for the sequences the calls describe: next leads     *)
(* through the list, last is the address of its last next pointer, so that *)
(* the next insertion at the tail ends up at the tail.                     *)
(***************************************************************************)
RepresentsLists ==
  \A h \in Heads :
    LET c == CellsOf(h) IN
      /\ \A k \in 1 .. Len(c) - 1 : XOR(h, q.next[c[k]]) = c[k + 1]
      /\ XOR(h, q.next[c[Len(c)]]) = NULL
      /\ Tail_ => XOR(h, q.last[h]) = c[Len(c)]

(***************************************************************************)
(* Every element knows the cell that leads to it, and TAILQ_LAST and       *)
(* TAILQ_PREV, which reinterpret an element as a list head, walk a tail    *)
(* queue backwards and stop at its first element.                          *)
(***************************************************************************)
WalksBackwards ==
  \A h \in Heads :
    LET c == CellsOf(h)
        before(k) == IF k <= 1 THEN NULL ELSE c[k]
    IN  /\ Double => \A k \in 2 .. Len(c) : q.prev[c[k]] = c[k - 1]
        /\ kind = "TAILQ" => /\ TAILQ_LAST(h) = before(Len(c))
                             /\ \A k \in 2 .. Len(c) : TAILQ_PREV(c[k]) = before(k - 1)

(***************************************************************************)
(* A FOREACH_SAFE loop whose body removes elements as it meets them visits *)
(* every element that was in the list when it began, in order.             *)
(***************************************************************************)
LoopVisitsAll ==
  IF loop.on THEN /\ loop.todo # <<>> /\ loop.var = Head(loop.todo)
                  /\ loop.tvar = NULL <=> Len(loop.todo) = 1
             ELSE loop.todo = <<>>

=============================================================================
