------------------------------ MODULE PcbTree ------------------------------
(***************************************************************************)
(* The process tree of src/src/pcb.c as the kernel stores it: two kinds of *)
(* circular doubly linked lists threaded through the PCBs.                 *)
(*                                                                         *)
(*  - p_child of a parent is the sentinel of a ring, and p_child of a      *)
(*    child is the link node in it; only the firstborn is linked there, so *)
(*    one ring of p_child nodes runs down a whole chain of firstborns;     *)
(*  - p_sib links all children of one parent in a ring with no sentinel.   *)
(*                                                                         *)
(* Pointers are never reset when a node leaves a ring or a PCB is freed    *)
(* (allocPcb's setlist_head works on a copy), so what stale pointers still *)
(* reach is part of the model.  A p_child pointer only ever points at a    *)
(* p_child field and a p_sib pointer at a p_sib field: a pointer is the    *)
(* PCB that holds the field.                                               *)
(*                                                                         *)
(* The walks along p_parent are given by the set of PCBs they visit, the   *)
(* least set closed under the step of the loop.  The adoption loop of      *)
(* TerminateProcess, which changes the tree while it walks it, is a step   *)
(* per round in the modules that use this one.                             *)
(***************************************************************************)
EXTENDS Naturals, ListX

CONSTANT MaxProc            \* entries of pcbFree_table (20 in the code)
ASSUME MaxProcAssumption == MaxProc \in Nat \ {0}

Pcb  == 1..MaxProc
NULL == 0
Ptr  == Pcb \cup {NULL}

\* One family of list nodes, and the tree fields of all PCBs.
Links == [next : [Pcb -> Ptr], prev : [Pcb -> Ptr]]
Trees == [parent : [Pcb -> Ptr], child : Links, sib : Links]

NoLinks == [next |-> [p \in Pcb |-> NULL], prev |-> [p \in Pcb |-> NULL]]
\* pcbFree_table is zero-initialised storage.
EmptyTree == [parent |-> [p \in Pcb |-> NULL], child |-> NoLinks, sib |-> NoLinks]

----------------------------------------------------------------------------
(* The tree operations of pcb.c *)

\* Variant of emptyChild: without the test of the p_parent (line 188).
EmptyIfAlone(t, p) == t.child.next[p] # NULL => list_empty(t.child, p)

\* The answer of emptyChild; the initialisation it makes on the way is
\* ReadyChild.
emptyChild(t, p) ==
  t.child.next[p] # NULL =>
    list_empty(t.child, p) \/ t.parent[t.child.next[p]] # p

ReadyChild(t, p) ==
  IF t.child.next[p] = NULL THEN [t EXCEPT !.child = INIT_LIST_HEAD(@, p)] ELSE t

firstChild(t, p) == t.child.next[p]

\* Variant of insertChild: p_sib is not initialised.
InsertStaleSib(t, prnt, p) ==
  LET t1 == [t EXCEPT !.parent[p] = prnt]
      t2 == ReadyChild(t1, prnt)
  IN IF emptyChild(t1, prnt)
     THEN [t2 EXCEPT !.child = list_add_between(@, p, prnt, @.next[prnt])]
     ELSE [t2 EXCEPT !.sib = list_add_tail(@, p, firstChild(t2, prnt))]

insertChild(t, prnt, p) ==
  LET t1 == [parent |-> [t.parent EXCEPT ![p] = prnt],
             child  |-> t.child,
             sib    |-> INIT_LIST_HEAD(t.sib, p)]
      t2 == ReadyChild(t1, prnt)
  IN IF emptyChild(t1, prnt)
     THEN [t2 EXCEPT !.child = list_add_between(@, p, prnt, @.next[prnt])]
     ELSE [t2 EXCEPT !.sib = list_add_tail(@, p, firstChild(t2, prnt))]

\* The firstborn hands its place in the parent's p_child ring to the next
\* sibling, if there is one.
PromoteSibling(t, p) ==
  LET c == list_del(t.child, p)
      prnt == t.parent[p]
  IN IF list_empty(t.sib, p) THEN c
     ELSE list_add_between(c, t.sib.next[p], prnt, c.next[prnt])

\* Variant of outChild: p_parent is not reset.
OutKeepsParent(t, p) ==
  IF t.parent[p] = NULL THEN t
  ELSE [parent |-> t.parent,
        child  |-> IF t.child.next[t.parent[p]] = p THEN PromoteSibling(t, p)
                   ELSE t.child,
        sib    |-> list_del(t.sib, p)]

outChild(t, p) ==
  IF t.parent[p] = NULL THEN t
  ELSE [parent |-> [t.parent EXCEPT ![p] = NULL],
        child  |-> IF t.child.next[t.parent[p]] = p THEN PromoteSibling(t, p)
                   ELSE t.child,
        sib    |-> list_del(t.sib, p)]

----------------------------------------------------------------------------
(* The walks of handler.c towards the root start at p's parent and follow  *)
(* p_parent until they have visited a PCB of stop or one with no parent.   *)
(* Once the pointers contain a cycle that holds neither, a walk never ends.*)

Visited(t, p, stop) ==
  {q \in Pcb : \A S \in SUBSET Pcb :
      (/\ t.parent[p] \in S \cup {NULL}
       /\ \A r \in S \ stop : t.parent[r] \in S \cup {NULL})
      => q \in S}

WalkEnds(t, p, stop) ==
  \/ t.parent[p] = NULL
  \/ \E q \in Visited(t, p, stop) : q \in stop \/ t.parent[q] = NULL

\* Variant of Descendant: every process is taken for a descendant.
AnyDescendant(t, p, ancestor) == TRUE

Descendant(t, p, ancestor) == ancestor \in Visited(t, p, {ancestor})
DescendantEnds(t, p, ancestor) == WalkEnds(t, p, {ancestor})

\* The nearest ancestor of p that is a tutor, NULL if there is none.
Tutor(t, tutors, p) ==
  LET hit == Visited(t, p, tutors) \cap tutors
  IN IF hit = {} THEN NULL ELSE CHOOSE q \in hit : TRUE

TreeTop(t, p) ==
  IF t.parent[p] = NULL THEN p
  ELSE CHOOSE q \in Visited(t, p, {}) : t.parent[q] = NULL

\* Who adopts the children of p (lines 378-385), and whether finding out ends.
Adopter(t, tutors, p) ==
  IF Tutor(t, tutors, p) # NULL THEN Tutor(t, tutors, p) ELSE TreeTop(t, p)
AdopterFound(t, tutors, p) == WalkEnds(t, p, tutors)

\* Variant of Adopt: x is not taken from its parent first.
AdoptInPlace(t, a, x) == insertChild(t, a, x)

\* outChild(x); insertChild(a, x): x changes parent.
Adopt(t, a, x) == insertChild(outChild(t, x), a, x)
============================================================================
