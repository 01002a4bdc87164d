---------------------------- MODULE FamilyProofs ----------------------------
(***************************************************************************)
(* For any number of PCBs and any sequence of SYS2, SYS3 and SYS8: the     *)
(* free list never holds a PCB twice, and the lists that link siblings     *)
(* stay sound, however damaged the parent pointers get.                    *)
(*                                                                         *)
(* The first half is what the list macros and the tree operations keep.    *)
(* Two invariants of a tree carry the rest: the p_sib fields of processes  *)
(* with a parent form rings of siblings (Rings), and p_child fields in use *)
(* point at p_child fields in use (Linked).  The second half applies this  *)
(* to the actions of Family.                                               *)
(***************************************************************************)
EXTENDS Family, TLAPS

\* P is p_parent, N and V are the two pointers of one list node.
Ring(P, N, V) ==
  \A p \in Pcb : P[p] # NULL =>
    /\ N[p] # NULL /\ V[p] # NULL
    /\ V[N[p]] = p /\ N[V[p]] = p
    /\ P[N[p]] = P[p] /\ P[V[p]] = P[p]

InUse(N, V) ==
  \A p \in Pcb :
    /\ N[p] = NULL <=> V[p] = NULL
    /\ N[p] # NULL => N[N[p]] # NULL /\ N[V[p]] # NULL

Rings(t)  == Ring(t.parent, t.sib.next, t.sib.prev)
Linked(t) == InUse(t.child.next, t.child.prev)
Sound(t)  == t \in Trees /\ Rings(t) /\ Linked(t)

LEMMA PcbFacts == /\ NULL \notin Pcb /\ NULL \in Ptr
                  /\ \A x \in Ptr : x # NULL => x \in Pcb
                  /\ \A x \in Pcb : x \in Ptr
  BY MaxProcAssumption DEF Pcb, NULL, Ptr

----------------------------------------------------------------------------
(* One ring or family of rings under one macro *)

LEMMA RingOut ==
  ASSUME NEW P \in [Pcb -> Ptr], NEW N \in [Pcb -> Ptr], NEW V \in [Pcb -> Ptr],
         Ring(P, N, V), NEW p \in Pcb, P[p] # NULL
  PROVE  Ring([P EXCEPT ![p] = NULL],
              [N EXCEPT ![V[p]] = N[p]], [V EXCEPT ![N[p]] = V[p]])
  <1> DEFINE P1 == [P EXCEPT ![p] = NULL]
             N1 == [N EXCEPT ![V[p]] = N[p]]
             V1 == [V EXCEPT ![N[p]] = V[p]]
  <1>1. /\ N[p] \in Pcb /\ V[p] \in Pcb
        /\ V[N[p]] = p /\ N[V[p]] = p /\ P[N[p]] = P[p] /\ P[V[p]] = P[p]
    BY PcbFacts DEF Ring
  <1>2. \A q \in Pcb : /\ P1[q] = IF q = p THEN NULL ELSE P[q]
                       /\ N1[q] = IF q = V[p] THEN N[p] ELSE N[q]
                       /\ V1[q] = IF q = N[p] THEN V[p] ELSE V[q]
    OBVIOUS
  <1> HIDE DEF P1, N1, V1
  <1>3. ASSUME NEW q \in Pcb, P1[q] # NULL
        PROVE  /\ N1[q] # NULL /\ V1[q] # NULL
               /\ V1[N1[q]] = q /\ N1[V1[q]] = q
               /\ P1[N1[q]] = P1[q] /\ P1[V1[q]] = P1[q]
    <2>1. q # p /\ P[q] # NULL /\ P1[q] = P[q]
      BY <1>2, <1>3
    <2>2. /\ N[q] \in Pcb /\ V[q] \in Pcb
          /\ V[N[q]] = q /\ N[V[q]] = q /\ P[N[q]] = P[q] /\ P[V[q]] = P[q]
      BY <2>1, PcbFacts DEF Ring
    <2>3. /\ N1[q] # NULL /\ V1[N1[q]] = q /\ P1[N1[q]] = P1[q]
      <3>1. CASE q = V[p]
        BY <1>1, <1>2, <2>1, <2>2, <3>1, PcbFacts
      <3>2. CASE q # V[p]
        BY <1>1, <1>2, <2>1, <2>2, <3>2, PcbFacts
      <3> QED
        BY <3>1, <3>2
    <2>4. /\ V1[q] # NULL /\ N1[V1[q]] = q /\ P1[V1[q]] = P1[q]
      <3>1. CASE q = N[p]
        BY <1>1, <1>2, <2>1, <2>2, <3>1, PcbFacts
      <3>2. CASE q # N[p]
        BY <1>1, <1>2, <2>1, <2>2, <3>2, PcbFacts
      <3> QED
        BY <3>1, <3>2
    <2> QED
      BY <2>3, <2>4
  <1>4. Ring(P1, N1, V1)
    BY <1>3 DEF Ring
  <1> QED
    BY <1>4 DEF P1, N1, V1

LEMMA RingInit ==
  ASSUME NEW P \in [Pcb -> Ptr], NEW N \in [Pcb -> Ptr], NEW V \in [Pcb -> Ptr],
         Ring(P, N, V), NEW p \in Pcb, P[p] = NULL, NEW prnt \in Pcb
  PROVE  Ring([P EXCEPT ![p] = prnt], [N EXCEPT ![p] = p], [V EXCEPT ![p] = p])
  <1> DEFINE P1 == [P EXCEPT ![p] = prnt]
             N1 == [N EXCEPT ![p] = p]
             V1 == [V EXCEPT ![p] = p]
  <1>1. \A q \in Pcb : /\ P1[q] = IF q = p THEN prnt ELSE P[q]
                       /\ N1[q] = IF q = p THEN p ELSE N[q]
                       /\ V1[q] = IF q = p THEN p ELSE V[q]
    OBVIOUS
  <1> HIDE DEF P1, N1, V1
  <1>2. ASSUME NEW q \in Pcb, P1[q] # NULL
        PROVE  /\ N1[q] # NULL /\ V1[q] # NULL
               /\ V1[N1[q]] = q /\ N1[V1[q]] = q
               /\ P1[N1[q]] = P1[q] /\ P1[V1[q]] = P1[q]
    <2>1. CASE q = p
      BY <1>1, <2>1, PcbFacts
    <2>2. CASE q # p
      <3>1. P[q] # NULL /\ P1[q] = P[q]
        BY <1>1, <1>2, <2>2
      <3>2. /\ N[q] \in Pcb /\ V[q] \in Pcb
            /\ V[N[q]] = q /\ N[V[q]] = q /\ P[N[q]] = P[q] /\ P[V[q]] = P[q]
        BY <3>1, PcbFacts DEF Ring
      <3>3. N[q] # p /\ V[q] # p
        BY <3>1, <3>2
      <3> QED
        BY <1>1, <2>2, <3>1, <3>2, <3>3, PcbFacts
    <2> QED
      BY <2>1, <2>2
  <1>3. Ring(P1, N1, V1)
    BY <1>2 DEF Ring
  <1> QED
    BY <1>3 DEF P1, N1, V1

LEMMA RingAddTail ==
  ASSUME NEW P \in [Pcb -> Ptr], NEW N \in [Pcb -> Ptr], NEW V \in [Pcb -> Ptr],
         Ring(P, N, V), NEW p \in Pcb, N[p] = p, V[p] = p,
         NEW f \in Pcb, P[f] # NULL, P[p] = P[f]
  PROVE  Ring(P, [N EXCEPT ![p] = f, ![V[f]] = p], [V EXCEPT ![f] = p, ![p] = V[f]])
  <1> DEFINE N1 == [N EXCEPT ![p] = f, ![V[f]] = p]
             V1 == [V EXCEPT ![f] = p, ![p] = V[f]]
  <1>1. /\ V[f] \in Pcb /\ N[V[f]] = f /\ P[V[f]] = P[f]
    BY PcbFacts DEF Ring
  <1>2. CASE f = p
    <2>1. N1 = N /\ V1 = V
      BY <1>2
    <2> QED
      BY <2>1
  <1>3. CASE f # p
    <2>1. V[f] # p
      BY <1>1, <1>3
    <2>2. \A q \in Pcb :
             /\ N1[q] = IF q = V[f] THEN p ELSE IF q = p THEN f ELSE N[q]
             /\ V1[q] = IF q = p THEN V[f] ELSE IF q = f THEN p ELSE V[q]
      BY <1>1
    <2> HIDE DEF N1, V1
    <2>3. ASSUME NEW q \in Pcb, P[q] # NULL
          PROVE  /\ N1[q] # NULL /\ V1[q] # NULL
                 /\ V1[N1[q]] = q /\ N1[V1[q]] = q
                 /\ P[N1[q]] = P[q] /\ P[V1[q]] = P[q]
      <3>1. /\ N[q] \in Pcb /\ V[q] \in Pcb
            /\ V[N[q]] = q /\ N[V[q]] = q /\ P[N[q]] = P[q] /\ P[V[q]] = P[q]
        BY <2>3, PcbFacts DEF Ring
      <3>2. /\ N1[q] # NULL /\ V1[N1[q]] = q /\ P[N1[q]] = P[q]
        <4>1. CASE q = V[f]
          BY <1>1, <1>3, <2>1, <2>2, <4>1, PcbFacts
        <4>2. CASE q = p
          BY <1>1, <1>3, <2>1, <2>2, <4>2, PcbFacts
        <4>3. CASE q # V[f] /\ q # p
          <5>1. N[q] # f /\ N[q] # p
            BY <3>1, <4>3
          <5> QED
            BY <2>2, <3>1, <4>3, <5>1, PcbFacts
        <4> QED
          BY <4>1, <4>2, <4>3
      <3>3. /\ V1[q] # NULL /\ N1[V1[q]] = q /\ P[V1[q]] = P[q]
        <4>1. CASE q = f
          BY <1>1, <1>3, <2>1, <2>2, <4>1, PcbFacts
        <4>2. CASE q = p
          BY <1>1, <1>3, <2>1, <2>2, <4>2, PcbFacts
        <4>3. CASE q # f /\ q # p
          <5>1. V[q] # V[f] /\ V[q] # p
            BY <1>1, <3>1, <4>3
          <5> QED
            BY <2>2, <3>1, <4>3, <5>1, PcbFacts
        <4> QED
          BY <4>1, <4>2, <4>3
      <3> QED
        BY <3>2, <3>3
    <2>4. Ring(P, N1, V1)
      BY <2>3 DEF Ring
    <2> QED
      BY <2>4 DEF N1, V1
  <1> QED
    BY <1>2, <1>3

LEMMA InUseInit ==
  ASSUME NEW N \in [Pcb -> Ptr], NEW V \in [Pcb -> Ptr], InUse(N, V), NEW p \in Pcb
  PROVE  InUse([N EXCEPT ![p] = p], [V EXCEPT ![p] = p])
  BY PcbFacts DEF InUse

LEMMA InUseAdd ==
  ASSUME NEW N \in [Pcb -> Ptr], NEW V \in [Pcb -> Ptr], InUse(N, V),
         NEW new \in Pcb, NEW prev \in Pcb, N[prev] # NULL,
         NEW next \in Pcb, N[next] # NULL
  PROVE  InUse([N EXCEPT ![new] = next, ![prev] = new],
               [V EXCEPT ![next] = new, ![new] = prev])
  <1> DEFINE N1 == [N EXCEPT ![new] = next, ![prev] = new]
             V1 == [V EXCEPT ![next] = new, ![new] = prev]
  <1>1. \A q \in Pcb : /\ N1[q] = IF q = prev THEN new ELSE IF q = new THEN next ELSE N[q]
                       /\ V1[q] = IF q = new THEN prev ELSE IF q = next THEN new ELSE V[q]
    OBVIOUS
  <1> HIDE DEF N1, V1
  <1>2. \A q \in Pcb : N1[q] # NULL <=> (q = new \/ N[q] # NULL)
    BY <1>1, PcbFacts
  <1>3. \A q \in Pcb : V1[q] # NULL <=> (q = new \/ V[q] # NULL)
    <2>1. V[next] # NULL
      BY DEF InUse
    <2> QED
      BY <1>1, <2>1, PcbFacts
  <1>4. ASSUME NEW q \in Pcb
        PROVE  /\ N1[q] = NULL <=> V1[q] = NULL
               /\ N1[q] # NULL => N1[N1[q]] # NULL /\ N1[V1[q]] # NULL
    <2>1. N1[q] = NULL <=> V1[q] = NULL
      BY <1>2, <1>3 DEF InUse
    <2>2. ASSUME N1[q] # NULL PROVE N1[N1[q]] # NULL
      <3>1. N1[q] \in {new, next} \/ (N[q] # NULL /\ N1[q] = N[q])
        BY <1>1, <2>2
      <3>2. CASE N1[q] \in {new, next}
        BY <1>2, <3>2
      <3>3. CASE N[q] # NULL /\ N1[q] = N[q]
        <4>1. N[q] \in Pcb /\ N[N[q]] # NULL
          BY <3>3, PcbFacts DEF InUse
        <4> QED
          BY <1>2, <3>3, <4>1
      <3> QED
        BY <3>1, <3>2, <3>3
    <2>3. ASSUME N1[q] # NULL PROVE N1[V1[q]] # NULL
      <3>1. V1[q] \in {new, prev} \/ (V[q] # NULL /\ V1[q] = V[q])
        BY <1>1, <2>1, <2>3
      <3>2. CASE V1[q] \in {new, prev}
        BY <1>2, <3>2
      <3>3. CASE V[q] # NULL /\ V1[q] = V[q]
        <4>1. V[q] \in Pcb /\ N[V[q]] # NULL
          BY <3>3, PcbFacts DEF InUse
        <4> QED
          BY <1>2, <3>3, <4>1
      <3> QED
        BY <3>1, <3>2, <3>3
    <2> QED
      BY <2>1, <2>2, <2>3
  <1>5. InUse(N1, V1)
    BY <1>4 DEF InUse
  <1> QED
    BY <1>5 DEF N1, V1

LEMMA InUseDel ==
  ASSUME NEW N \in [Pcb -> Ptr], NEW V \in [Pcb -> Ptr], InUse(N, V),
         NEW x \in Pcb, N[x] # NULL
  PROVE  InUse([N EXCEPT ![V[x]] = N[x]], [V EXCEPT ![N[x]] = V[x]])
  <1> DEFINE N1 == [N EXCEPT ![V[x]] = N[x]]
             V1 == [V EXCEPT ![N[x]] = V[x]]
  <1>1. /\ N[x] \in Pcb /\ V[x] \in Pcb /\ N[N[x]] # NULL /\ N[V[x]] # NULL
    BY PcbFacts DEF InUse
  <1>2. \A q \in Pcb : /\ N1[q] = IF q = V[x] THEN N[x] ELSE N[q]
                       /\ V1[q] = IF q = N[x] THEN V[x] ELSE V[q]
    OBVIOUS
  <1> HIDE DEF N1, V1
  <1>3. \A q \in Pcb : N1[q] # NULL <=> N[q] # NULL
    BY <1>1, <1>2, PcbFacts
  <1>4. \A q \in Pcb : V1[q] # NULL <=> V[q] # NULL
    BY <1>1, <1>2, PcbFacts DEF InUse
  <1>5. ASSUME NEW q \in Pcb, N[q] # NULL
        PROVE  /\ N1[q] \in Pcb /\ N[N1[q]] # NULL
               /\ V1[q] \in Pcb /\ N[V1[q]] # NULL
    BY <1>1, <1>2, <1>5, PcbFacts DEF InUse
  <1>6. InUse(N1, V1)
    BY <1>3, <1>4, <1>5 DEF InUse
  <1> QED
    BY <1>6 DEF N1, V1

----------------------------------------------------------------------------
(* The tree operations *)

LEMMA TreeFields ==
  ASSUME NEW t \in Trees
  PROVE  /\ t = [parent |-> t.parent, child |-> t.child, sib |-> t.sib]
         /\ t.parent \in [Pcb -> Ptr]
         /\ t.child \in Links /\ t.child.next \in [Pcb -> Ptr] /\ t.child.prev \in [Pcb -> Ptr]
         /\ t.sib \in Links /\ t.sib.next \in [Pcb -> Ptr] /\ t.sib.prev \in [Pcb -> Ptr]
  BY DEF Trees, Links

\* emptyChild's side effect.
LEMMA ReadyChildSound ==
  ASSUME NEW t, Sound(t), NEW p \in Pcb
  PROVE  /\ Sound(ReadyChild(t, p))
         /\ ReadyChild(t, p).parent = t.parent
         /\ ReadyChild(t, p).sib = t.sib
         /\ ReadyChild(t, p).child.next[p] # NULL
  <1>1. CASE t.child.next[p] = NULL
    <2> DEFINE r == [t EXCEPT !.child = INIT_LIST_HEAD(t.child, p)]
    <2>1. ReadyChild(t, p) = r
      BY <1>1 DEF ReadyChild
    <2>2. /\ t \in Trees /\ t.child.next \in [Pcb -> Ptr] /\ t.child.prev \in [Pcb -> Ptr]
      BY TreeFields DEF Sound
    <2>3. /\ r \in Trees /\ r.parent = t.parent /\ r.sib = t.sib
          /\ r.child.next = [t.child.next EXCEPT ![p] = p]
          /\ r.child.prev = [t.child.prev EXCEPT ![p] = p]
      BY <2>2, PcbFacts DEF Trees, Links, INIT_LIST_HEAD
    <2>4. InUse(r.child.next, r.child.prev)
      BY <2>2, <2>3, InUseInit DEF Sound, Linked
    <2>5. r.child.next[p] # NULL
      BY <2>2, <2>3, PcbFacts
    <2> HIDE DEF r
    <2> QED
      BY <2>1, <2>3, <2>4, <2>5 DEF Sound, Rings, Linked
  <1>2. CASE t.child.next[p] # NULL
    BY <1>2 DEF ReadyChild
  <1> QED
    BY <1>1, <1>2

\* list_add_between on the p_child ring, between the sentinel and the first.
LEMMA ChildAddSound ==
  ASSUME NEW t \in Trees, Linked(t), NEW new \in Pcb,
         NEW prnt \in Pcb, t.child.next[prnt] # NULL
  PROVE  LET c == list_add_between(t.child, new, prnt, t.child.next[prnt])
         IN c \in Links /\ InUse(c.next, c.prev)
  <1> DEFINE n == t.child.next[prnt]
             c == list_add_between(t.child, new, prnt, n)
  <1>1. /\ t.child.next \in [Pcb -> Ptr] /\ t.child.prev \in [Pcb -> Ptr]
        /\ InUse(t.child.next, t.child.prev)
    BY TreeFields DEF Linked
  <1>2. n \in Pcb /\ t.child.next[n] # NULL
    BY <1>1, PcbFacts DEF InUse
  <1>3. /\ c.next = [t.child.next EXCEPT ![new] = n, ![prnt] = new]
        /\ c.prev = [t.child.prev EXCEPT ![n] = new, ![new] = prnt]
    BY DEF list_add_between
  <1>4. c \in Links
    BY <1>1, <1>2, PcbFacts DEF Links, list_add_between
  <1> HIDE DEF c
  <1>5. InUse(c.next, c.prev)
    <2> HIDE DEF n
    <2> QED
      BY <1>1, <1>2, <1>3, InUseAdd
  <1> QED
    BY <1>4, <1>5 DEF c

\* outChild only makes p an orphan: nobody else's parent changes, and the rings
\* of the others close.
LEMMA OutChildSound ==
  ASSUME NEW t, Sound(t), NEW p \in Pcb
  PROVE  /\ Sound(outChild(t, p))
         /\ outChild(t, p).parent = [t.parent EXCEPT ![p] = NULL]
  <1>1. CASE t.parent[p] = NULL
    <2>1. [t.parent EXCEPT ![p] = NULL] = t.parent
      BY <1>1, TreeFields DEF Sound
    <2> QED
      BY <1>1, <2>1 DEF outChild
  <1>2. CASE t.parent[p] # NULL
    <2> DEFINE prnt == t.parent[p]
               ch == IF t.child.next[prnt] = p THEN PromoteSibling(t, p) ELSE t.child
               sb == list_del(t.sib, p)
               pr == [t.parent EXCEPT ![p] = NULL]
    <2>1. /\ t \in Trees /\ t.parent \in [Pcb -> Ptr]
          /\ t.child \in Links /\ t.child.next \in [Pcb -> Ptr] /\ t.child.prev \in [Pcb -> Ptr]
          /\ t.sib \in Links /\ t.sib.next \in [Pcb -> Ptr] /\ t.sib.prev \in [Pcb -> Ptr]
          /\ Ring(t.parent, t.sib.next, t.sib.prev)
          /\ InUse(t.child.next, t.child.prev)
      BY TreeFields DEF Sound, Rings, Linked
    <2>2. /\ prnt \in Pcb /\ t.sib.next[p] \in Pcb /\ t.sib.prev[p] \in Pcb
      BY <1>2, <2>1, PcbFacts DEF Ring
    <2>3. outChild(t, p) = [parent |-> pr, child |-> ch, sib |-> sb]
      BY <1>2 DEF outChild
    <2>4. /\ sb.next = [t.sib.next EXCEPT ![t.sib.prev[p]] = t.sib.next[p]]
          /\ sb.prev = [t.sib.prev EXCEPT ![t.sib.next[p]] = t.sib.prev[p]]
          /\ sb \in Links
      BY <2>1, <2>2, PcbFacts DEF list_del, Links
    <2>5. Ring(pr, sb.next, sb.prev)
      <3> HIDE DEF prnt, ch, sb, pr
      <3>1. Ring([t.parent EXCEPT ![p] = NULL],
                 [t.sib.next EXCEPT ![t.sib.prev[p]] = t.sib.next[p]],
                 [t.sib.prev EXCEPT ![t.sib.next[p]] = t.sib.prev[p]])
        BY <1>2, <2>1, RingOut
      <3> QED
        BY <2>4, <3>1 DEF pr
    <2>6. pr \in [Pcb -> Ptr]
      BY <2>1, PcbFacts
    <2>7. ch \in Links /\ InUse(ch.next, ch.prev)
      <3>1. CASE t.child.next[prnt] # p
        BY <2>1, <3>1
      <3>2. CASE t.child.next[prnt] = p
        <4> DEFINE d == list_del(t.child, p)
                   u == [t EXCEPT !.child = d]
        <4>1. t.child.next[p] # NULL /\ t.child.next[prnt] # NULL
          BY <2>1, <2>2, <3>2, PcbFacts DEF InUse
        <4>2. /\ d.next = [t.child.next EXCEPT ![t.child.prev[p]] = t.child.next[p]]
              /\ d.prev = [t.child.prev EXCEPT ![t.child.next[p]] = t.child.prev[p]]
              /\ d \in Links
          BY <2>1, PcbFacts DEF list_del, Links
        <4>3. InUse(d.next, d.prev)
          BY <2>1, <4>1, <4>2, InUseDel
        <4>4. d.next[prnt] # NULL
          <5>1. d.next[prnt] \in {t.child.next[prnt], t.child.next[p]}
            BY <2>1, <2>2, <4>2
          <5> QED
            BY <4>1, <5>1
        <4> HIDE DEF d
        <4>5. u \in Trees /\ u.child = d /\ Linked(u)
          BY <2>1, <4>2, <4>3 DEF Trees, Linked
        <4>6. LET c == list_add_between(d, t.sib.next[p], prnt, d.next[prnt])
              IN c \in Links /\ InUse(c.next, c.prev)
          BY <2>2, <4>4, <4>5, ChildAddSound
        <4>7. ch = IF list_empty(t.sib, p) THEN d
                   ELSE list_add_between(d, t.sib.next[p], prnt, d.next[prnt])
          BY <3>2 DEF PromoteSibling, d
        <4> QED
          BY <4>2, <4>3, <4>6, <4>7
      <3> QED
        BY <3>1, <3>2
    <2> HIDE DEF pr, ch, sb
    <2>8. outChild(t, p) \in Trees
      BY <2>3, <2>4, <2>6, <2>7 DEF Trees
    <2>9. Sound(outChild(t, p)) /\ outChild(t, p).parent = pr
      BY <2>3, <2>5, <2>7, <2>8 DEF Sound, Rings, Linked
    <2> QED
      BY <2>9 DEF pr
  <1> QED
    BY <1>1, <1>2

\* insertChild gives an orphan a parent and changes nobody else's.
LEMMA InsertChildSound ==
  ASSUME NEW t, Sound(t), NEW prnt \in Pcb, NEW p \in Pcb, t.parent[p] = NULL
  PROVE  /\ Sound(insertChild(t, prnt, p))
         /\ insertChild(t, prnt, p).parent = [t.parent EXCEPT ![p] = prnt]
  <1> DEFINE t1 == [parent |-> [t.parent EXCEPT ![p] = prnt],
                    child  |-> t.child,
                    sib    |-> INIT_LIST_HEAD(t.sib, p)]
             t2 == ReadyChild(t1, prnt)
             f == firstChild(t2, prnt)
  <1>1. /\ t \in Trees /\ t.parent \in [Pcb -> Ptr]
        /\ t.child \in Links
        /\ t.sib \in Links /\ t.sib.next \in [Pcb -> Ptr] /\ t.sib.prev \in [Pcb -> Ptr]
        /\ Ring(t.parent, t.sib.next, t.sib.prev)
        /\ Linked(t)
    BY TreeFields DEF Sound, Rings
  <1>2. /\ t1.parent = [t.parent EXCEPT ![p] = prnt]
        /\ t1.child = t.child
        /\ t1.sib = [next |-> [t.sib.next EXCEPT ![p] = p],
                     prev |-> [t.sib.prev EXCEPT ![p] = p]]
        /\ t1 = [parent |-> t1.parent, child |-> t.child, sib |-> t1.sib]
    BY DEF INIT_LIST_HEAD
  <1>3. Sound(t1)
    <2> HIDE DEF t1
    <2>1. t1 \in Trees
      BY <1>1, <1>2, PcbFacts DEF Trees, Links
    <2>2. Ring(t1.parent, t1.sib.next, t1.sib.prev)
      <3>1. Ring([t.parent EXCEPT ![p] = prnt],
                 [t.sib.next EXCEPT ![p] = p], [t.sib.prev EXCEPT ![p] = p])
        BY <1>1, RingInit
      <3>2. /\ t1.sib.next = [t.sib.next EXCEPT ![p] = p]
            /\ t1.sib.prev = [t.sib.prev EXCEPT ![p] = p]
        BY <1>2
      <3> QED
        BY <1>2, <3>1, <3>2
    <2>3. Linked(t1)
      BY <1>1, <1>2 DEF Linked
    <2> QED
      BY <2>1, <2>2, <2>3 DEF Sound, Rings
  <1>4. /\ Sound(t2) /\ t2.parent = t1.parent /\ t2.sib = t1.sib
        /\ t2.child.next[prnt] # NULL
    <2> HIDE DEF t1
    <2> QED
      BY <1>3, ReadyChildSound
  <1>5. /\ t2.sib.next[p] = p /\ t2.sib.prev[p] = p /\ t2.parent[p] = prnt
    BY <1>1, <1>2, <1>4
  <1>6. CASE emptyChild(t1, prnt)
    <2> DEFINE c == list_add_between(t2.child, p, prnt, t2.child.next[prnt])
               r == [t2 EXCEPT !.child = c]
    <2>1. insertChild(t, prnt, p) = r
      BY <1>6 DEF insertChild
    <2> HIDE DEF t1, t2
    <2>2. c \in Links /\ InUse(c.next, c.prev)
      BY <1>4, ChildAddSound DEF Sound
    <2> HIDE DEF c
    <2>3. /\ r \in Trees /\ r.parent = t2.parent /\ r.sib = t2.sib /\ r.child = c
      BY <1>4, <2>2 DEF Sound, Trees
    <2> HIDE DEF r
    <2> QED
      BY <1>2, <1>4, <2>1, <2>2, <2>3 DEF Sound, Rings, Linked
  <1>7. CASE ~emptyChild(t1, prnt)
    <2> DEFINE s == list_add_tail(t2.sib, p, f)
               r == [t2 EXCEPT !.sib = s]
    <2>1. insertChild(t, prnt, p) = r
      BY <1>7 DEF insertChild
    <2>2. t1.child.next[prnt] # NULL /\ t1.parent[t1.child.next[prnt]] = prnt
      BY <1>7 DEF emptyChild
    <2>3. f = t1.child.next[prnt]
      BY <2>2 DEF firstChild, ReadyChild
    <2>4. f \in Pcb /\ t2.parent[f] = prnt
      <3>1. t1.child.next \in [Pcb -> Ptr]
        BY <1>1, <1>2, TreeFields
      <3>2. f \in Ptr /\ f # NULL
        BY <2>2, <2>3, <3>1
      <3> QED
        BY <1>4, <2>2, <2>3, <3>2, PcbFacts
    <2> HIDE DEF t1, t2, f
    <2>5. /\ t2 \in Trees /\ t2.parent \in [Pcb -> Ptr]
          /\ t2.sib.next \in [Pcb -> Ptr] /\ t2.sib.prev \in [Pcb -> Ptr]
          /\ Ring(t2.parent, t2.sib.next, t2.sib.prev)
      BY <1>4, TreeFields DEF Sound, Rings
    <2>6. /\ s.next = [t2.sib.next EXCEPT ![p] = f, ![t2.sib.prev[f]] = p]
          /\ s.prev = [t2.sib.prev EXCEPT ![f] = p, ![p] = t2.sib.prev[f]]
          /\ s \in Links
      BY <2>4, <2>5, PcbFacts DEF list_add_tail, list_add_between, Links
    <2>7. Ring(t2.parent, s.next, s.prev)
      BY <1>5, <2>4, <2>5, <2>6, RingAddTail, PcbFacts
    <2> HIDE DEF s
    <2>8. /\ r \in Trees /\ r.parent = t2.parent /\ r.child = t2.child /\ r.sib = s
      BY <2>5, <2>6 DEF Trees
    <2> HIDE DEF r
    <2> QED
      BY <1>2, <1>4, <2>1, <2>7, <2>8 DEF Sound, Rings, Linked
  <1> QED
    BY <1>6, <1>7

\* One adoption: x, whoever its parent was, becomes a's child.
LEMMA AdoptSound ==
  ASSUME NEW t, Sound(t), NEW a \in Pcb, NEW x \in Pcb
  PROVE  /\ Sound(Adopt(t, a, x))
         /\ Adopt(t, a, x).parent = [t.parent EXCEPT ![x] = a]
  <1>1. /\ Sound(outChild(t, x))
        /\ outChild(t, x).parent = [t.parent EXCEPT ![x] = NULL]
    BY OutChildSound
  <1>2. t.parent \in [Pcb -> Ptr] /\ outChild(t, x).parent[x] = NULL
    BY <1>1, TreeFields DEF Sound
  <1>3. /\ Sound(insertChild(outChild(t, x), a, x))
        /\ insertChild(outChild(t, x), a, x).parent
             = [outChild(t, x).parent EXCEPT ![x] = a]
    BY <1>1, <1>2, InsertChildSound
  <1> QED
    BY <1>1, <1>2, <1>3 DEF Adopt

\* The firstborn emptyChild saw is a child of p.
LEMMA FirstIsChild ==
  ASSUME NEW t \in Trees, NEW p \in Pcb, ~emptyChild(t, p)
  PROVE  firstChild(t, p) \in Pcb /\ t.parent[firstChild(t, p)] = p
  BY TreeFields, PcbFacts DEF emptyChild, firstChild

----------------------------------------------------------------------------
(* The walks *)

\* A process with no parent is nobody's descendant.
LEMMA DescendantHasParent ==
  ASSUME NEW t, NEW p \in Pcb, NEW a, Descendant(t, p, a)
  PROVE  t.parent[p] # NULL
  <1> SUFFICES ASSUME t.parent[p] = NULL PROVE FALSE
    OBVIOUS
  <1>1. {} \in SUBSET Pcb /\ t.parent[p] \in {} \cup {NULL}
    OBVIOUS
  <1>2. a \in {}
    BY <1>1 DEF Descendant, Visited
  <1> QED
    BY <1>2

\* A walk that may stop earlier visits no more.
LEMMA VisitedMonotone ==
  ASSUME NEW t, NEW p, NEW stop
  PROVE  Visited(t, p, stop) \subseteq Visited(t, p, {})
  BY DEF Visited

\* When the search ends there is somebody who adopts.
LEMMA AdopterIsPcb ==
  ASSUME NEW t, NEW T, NEW p \in Pcb, AdopterFound(t, T, p)
  PROVE  Adopter(t, T, p) \in Pcb
  <1>1. Visited(t, p, T) \subseteq Pcb
    BY DEF Visited
  <1>2. CASE Visited(t, p, T) \cap T # {}
    <2>1. Tutor(t, T, p) \in Visited(t, p, T) \cap T
      BY <1>2 DEF Tutor
    <2> QED
      BY <1>1, <2>1, PcbFacts DEF Adopter
  <1>3. CASE Visited(t, p, T) \cap T = {}
    <2>1. Tutor(t, T, p) = NULL
      BY <1>3 DEF Tutor
    <2>2. CASE t.parent[p] = NULL
      BY <2>1, <2>2 DEF Adopter, TreeTop
    <2>3. CASE t.parent[p] # NULL
      <3>1. PICK q \in Visited(t, p, T) : t.parent[q] = NULL
        BY <1>3, <2>3 DEF AdopterFound, WalkEnds
      <3>2. q \in Visited(t, p, {}) /\ Visited(t, p, {}) \subseteq Pcb
        BY <3>1, VisitedMonotone DEF Visited
      <3>3. (CHOOSE x \in Visited(t, p, {}) : t.parent[x] = NULL) \in Visited(t, p, {})
        BY <3>1, <3>2
      <3> QED
        BY <2>1, <2>3, <3>2, <3>3 DEF Adopter, TreeTop
    <2> QED
      BY <2>2, <2>3
  <1> QED
    BY <1>2, <1>3

----------------------------------------------------------------------------
(* The actions of Family *)

\* While the adoption loop runs, what it holds are PCBs in use: iter is one of
\* the tutor's children.
LoopInv ==
  loop # NoLoop =>
    /\ loop.pid \in Live
    /\ loop.tutor \in Pcb
    /\ loop.iter \in Pcb
    /\ tree.parent[loop.iter] # NULL

IInv == TypeOK /\ Linked(tree) /\ SibRings /\ FreeHasNoParent /\ NoDoubleFree /\ LoopInv

LEMMA TreeSound == ASSUME IInv PROVE Sound(tree)
  BY DEF IInv, TypeOK, SibRings, Sound, Rings, Ring

LEMMA InitInv == Init => IInv
  <1> SUFFICES ASSUME Init PROVE IInv
    OBVIOUS
  <1>1. tree \in Trees /\ SibRings /\ Linked(tree) /\ FreeHasNoParent
    <2>1. /\ tree.parent = [p \in Pcb |-> NULL]
          /\ tree.child = NoLinks /\ tree.sib = NoLinks
          /\ tree = [parent |-> tree.parent, child |-> tree.child, sib |-> tree.sib]
      BY DEF Init, EmptyTree
    <2>2. NoLinks \in Links /\ tree.parent \in [Pcb -> Ptr]
      BY <2>1, PcbFacts DEF NoLinks, Links
    <2>3. tree \in Trees
      BY <2>1, <2>2 DEF Trees
    <2>4. \A p \in Pcb : tree.parent[p] = NULL
      BY <2>1
    <2>5. SibRings
      BY <2>4 DEF SibRings
    <2>6. Linked(tree)
      BY <2>1 DEF Linked, InUse, NoLinks
    <2>7. Free \subseteq Pcb
      BY MaxProcAssumption DEF Init, Free, Pcb
    <2>8. FreeHasNoParent
      BY <2>4, <2>7 DEF FreeHasNoParent
    <2> QED
      BY <2>3, <2>5, <2>6, <2>8
  <1>2. free \in Seq(Pcb) /\ NoDoubleFree
    BY MaxProcAssumption DEF Init, NoDoubleFree, Pcb
  <1>3. loop \in [pid : Ptr, tutor : Ptr, first : Ptr, iter : Ptr] /\ LoopInv
    BY PcbFacts DEF Init, NoLoop, LoopInv
  <1> QED
    BY <1>1, <1>2, <1>3 DEF Init, IInv, TypeOK

----------------------------------------------------------------------------
\* Adding a PCB in use to the free list frees that one alone.
LEMMA FreeAppend ==
  ASSUME free \in Seq(Pcb), NoDoubleFree, NEW p \in Live, free' = Append(free, p)
  PROVE  /\ free' \in Seq(Pcb)
         /\ NoDoubleFree'
         /\ Free' = Free \cup {p}
  <1>1. /\ Len(free) \in Nat /\ DOMAIN free = 1..Len(free)
        /\ free' \in Seq(Pcb) /\ DOMAIN free' = 1..(Len(free) + 1)
        /\ free'[Len(free) + 1] = p
        /\ \A i \in 1..Len(free) : free'[i] = free[i]
    BY DEF Live
  <1>2. \A i \in 1..Len(free) : free[i] # p
    BY <1>1 DEF Live, Free
  <1>3. NoDoubleFree'
    BY <1>1, <1>2 DEF NoDoubleFree
  <1>4. Free' = Free \cup {p}
    <2>1. \A i \in 1..(Len(free) + 1) : i \in 1..Len(free) \/ i = Len(free) + 1
      BY <1>1
    <2>2. \A i \in 1..Len(free) : i \in 1..(Len(free) + 1)
      BY <1>1
    <2>3. Len(free) + 1 \in 1..(Len(free) + 1)
      BY <1>1
    <2> QED
      BY <1>1, <2>1, <2>2, <2>3 DEF Free
  <1> QED
    BY <1>1, <1>3, <1>4

\* allocPcb takes one PCB off the free list.
LEMMA FreeAlloc ==
  ASSUME free \in Seq(Pcb), NoDoubleFree, free # <<>>,
         free' = SubSeq(free, 1, Len(free) - 1)
  PROVE  /\ allocPcb \in Free /\ allocPcb \in Pcb
         /\ free' \in Seq(Pcb)
         /\ NoDoubleFree'
         /\ Free' = Free \ {allocPcb}
  <1>1. /\ Len(free) \in Nat \ {0} /\ DOMAIN free = 1..Len(free)
        /\ Len(free) - 1 \in Nat
    OBVIOUS
  <1>2. /\ free' \in Seq(Pcb) /\ DOMAIN free' = 1..(Len(free) - 1)
        /\ \A i \in 1..(Len(free) - 1) : free'[i] = free[i]
    BY <1>1
  <1>3. allocPcb = free[Len(free)] /\ Len(free) \in DOMAIN free
    BY <1>1 DEF allocPcb
  <1>4. allocPcb \in Free /\ allocPcb \in Pcb
    BY <1>3 DEF Free
  <1>5. \A i, j \in 1..Len(free) : i # j => free[i] # free[j]
    BY <1>1 DEF NoDoubleFree
  <1>6. NoDoubleFree'
    BY <1>1, <1>2, <1>5 DEF NoDoubleFree
  <1>7. ASSUME NEW n \in Nat
        PROVE  /\ \A i \in 1..(n - 1) : i \in 1..n /\ i # n
               /\ \A i \in 1..n : i = n \/ i \in 1..(n - 1)
    OBVIOUS
  <1>8. /\ \A i \in 1..(Len(free) - 1) : i \in 1..Len(free) /\ i # Len(free)
        /\ \A i \in 1..Len(free) : i = Len(free) \/ i \in 1..(Len(free) - 1)
    <2>1. Len(free) \in Nat
      BY <1>1
    <2> QED
      BY <1>7, <2>1
  <1>9. Free' = Free \ {allocPcb}
    <2>1. Free = {free[i] : i \in 1..Len(free)}
      BY <1>1 DEF Free
    <2>2. Free' = {free[i] : i \in 1..(Len(free) - 1)}
      BY <1>2 DEF Free
    <2> QED
      BY <1>3, <1>5, <1>8, <2>1, <2>2
  <1> QED
    BY <1>2, <1>4, <1>6, <1>9

\* The burial of a process in use whose loop, if it had one, is over.
LEMMA BuryInv ==
  ASSUME IInv, NEW t, Sound(t), t.parent = tree.parent, NEW pid \in Live,
         Bury(t, pid), tutors' = tutors, hung' = hung, created' = created,
         loop' = NoLoop
  PROVE  IInv'
  <1>1. pid \in Pcb /\ free \in Seq(Pcb) /\ NoDoubleFree /\ FreeHasNoParent
    BY DEF IInv, TypeOK, Live
  <1>2. /\ Sound(tree') /\ tree'.parent = [tree.parent EXCEPT ![pid] = NULL]
    BY <1>1, OutChildSound DEF Bury
  <1>3. free' \in Seq(Pcb) /\ NoDoubleFree' /\ Free' = Free \cup {pid}
    BY <1>1, FreeAppend DEF Bury
  <1>4. TypeOK'
    <2>1. loop' \in [pid : Ptr, tutor : Ptr, first : Ptr, iter : Ptr]
      BY PcbFacts DEF NoLoop
    <2> QED
      BY <1>2, <1>3, <2>1 DEF IInv, TypeOK, Sound
  <1>5. SibRings' /\ Linked(tree')
    <2>1. Rings(tree') /\ Linked(tree')
      BY <1>2 DEF Sound
    <2> QED
      BY <2>1 DEF Rings, Ring, SibRings
  <1>6. FreeHasNoParent'
    <2>1. tree.parent \in [Pcb -> Ptr]
      BY TreeFields DEF IInv, TypeOK
    <2>2. \A p \in Free' : p \in Pcb
      BY <1>3 DEF Free
    <2> QED
      BY <1>1, <1>2, <1>3, <2>1, <2>2 DEF FreeHasNoParent
  <1>7. LoopInv'
    BY DEF LoopInv
  <1> QED
    BY <1>3, <1>4, <1>5, <1>6, <1>7 DEF IInv

\* An adoption by the loop of pid: x is in use and its siblings are, too.
LEMMA AdoptInv ==
  ASSUME IInv, NEW pid \in Live, NEW a \in Pcb, NEW x \in Pcb, tree.parent[x] # NULL,
         NEW f \in Ptr,
         tree' = Adopt(tree, a, x),
         loop' = [pid |-> pid, tutor |-> a, first |-> f, iter |-> tree'.sib.next[x]],
         UNCHANGED <<tutors, free, hung, created>>
  PROVE  IInv'
  <1>1. Sound(tree') /\ tree'.parent = [tree.parent EXCEPT ![x] = a]
    BY TreeSound, AdoptSound
  <1>2. tree.parent \in [Pcb -> Ptr] /\ tree'.parent[x] = a /\ a # NULL
    BY <1>1, TreeFields, PcbFacts DEF IInv, TypeOK
  <1>3. SibRings' /\ Linked(tree')
    BY <1>1 DEF Sound, Rings, Ring, SibRings
  <1>4. /\ tree'.sib.next[x] \in Pcb
        /\ tree'.parent[tree'.sib.next[x]] = a
    <2>1. /\ tree'.sib.next[x] # NULL
          /\ tree'.parent[tree'.sib.next[x]] = tree'.parent[x]
      BY <1>2, <1>3 DEF SibRings
    <2>2. tree'.sib.next[x] \in Ptr
      BY <1>1, TreeFields DEF Sound
    <2> QED
      BY <1>2, <2>1, <2>2, PcbFacts
  <1>5. TypeOK'
    BY <1>1, <1>4, PcbFacts DEF IInv, TypeOK, Sound, Live
  <1>6. Free' = Free /\ Live' = Live /\ NoDoubleFree'
    BY DEF IInv, Free, Live, NoDoubleFree
  <1>7. FreeHasNoParent'
    <2>1. x \notin Free /\ \A p \in Free : p \in Pcb /\ tree.parent[p] = NULL
      BY DEF IInv, FreeHasNoParent, TypeOK, Free
    <2> QED
      BY <1>1, <1>2, <1>6, <2>1 DEF FreeHasNoParent
  <1>8. LoopInv'
    BY <1>2, <1>4, <1>6 DEF LoopInv
  <1> QED
    BY <1>3, <1>5, <1>6, <1>7, <1>8 DEF IInv

LEMMA CreateInv ==
  ASSUME IInv, NEW running \in Live, CreateProcess(running)
  PROVE  IInv'
  <1> DEFINE t == [tree EXCEPT !.parent[allocPcb] = NULL]
  <1>1. /\ allocPcb \in Free /\ allocPcb \in Pcb /\ free' \in Seq(Pcb)
        /\ NoDoubleFree' /\ Free' = Free \ {allocPcb}
    BY FreeAlloc DEF CreateProcess, IInv, TypeOK
  <1>2. t = tree
    <2>1. tree.parent[allocPcb] = NULL /\ tree \in Trees
      BY <1>1 DEF IInv, TypeOK, FreeHasNoParent
    <2>2. tree.parent \in [Pcb -> Ptr]
      BY <2>1, TreeFields
    <2> QED
      BY <2>1, <2>2 DEF Trees
  <1>3. /\ Sound(tree')
        /\ tree'.parent = [tree.parent EXCEPT ![allocPcb] = running]
    <2>1. tree.parent[allocPcb] = NULL /\ running \in Pcb
      BY <1>1 DEF IInv, FreeHasNoParent, Live
    <2>2. tree' = insertChild(tree, running, allocPcb)
      BY <1>2 DEF CreateProcess
    <2> QED
      BY <1>1, <2>1, <2>2, TreeSound, InsertChildSound
  <1>4. TypeOK'
    BY <1>1, <1>3, MaxCreateAssumption DEF IInv, TypeOK, Sound, CreateProcess
  <1>5. SibRings' /\ Linked(tree')
    BY <1>3 DEF Sound, Rings, Ring, SibRings
  <1>6. FreeHasNoParent'
    <2>1. tree.parent \in [Pcb -> Ptr] /\ \A p \in Free : p \in Pcb /\ tree.parent[p] = NULL
      BY TreeFields DEF IInv, TypeOK, FreeHasNoParent, Free
    <2> QED
      BY <1>1, <1>3, <2>1 DEF FreeHasNoParent
  <1>7. LoopInv'
    BY DEF CreateProcess, Ready, LoopInv
  <1> QED
    BY <1>1, <1>4, <1>5, <1>6, <1>7 DEF IInv

LEMMA SameTreeInv ==
  ASSUME IInv, UNCHANGED <<tree, free, loop>>, tutors' \subseteq Pcb, hung' \in BOOLEAN,
         created' = created
  PROVE  IInv'
  BY DEF IInv, TypeOK, SibRings, FreeHasNoParent, NoDoubleFree, LoopInv, Free, Live

\* SYS3 ends no free PCB: one without a parent is refused.
LEMMA VictimInUse ==
  ASSUME IInv, NEW running \in Live, NEW pid \in Pcb,
         pid = running \/ Descendant(tree, pid, running)
  PROVE  pid \in Live
  <1>1. CASE pid = running
    BY <1>1
  <1>2. CASE Descendant(tree, pid, running)
    <2>1. tree.parent[pid] # NULL
      BY <1>2, DescendantHasParent
    <2> QED
      BY <2>1 DEF IInv, FreeHasNoParent, Live
  <1> QED
    BY <1>1, <1>2

LEMMA TerminateInv ==
  ASSUME IInv, NEW running \in Live, NEW pid \in Pcb, TerminateProcess(running, pid)
  PROVE  IInv'
  <1>1. CASE Hang
    BY <1>1, SameTreeInv DEF Hang, IInv, TypeOK
  <1>2. CASE pid = running \/ Descendant(tree, pid, running)
    <2>1. pid \in Live
      BY <1>2, VictimInUse
    <2>2. CASE /\ emptyChild(tree, pid)
               /\ Bury(ReadyChild(tree, pid), pid)
               /\ UNCHANGED <<tutors, loop, hung, created>>
      <3>1. Sound(ReadyChild(tree, pid)) /\ ReadyChild(tree, pid).parent = tree.parent
        BY TreeSound, ReadyChildSound
      <3>2. loop' = NoLoop
        BY <2>2 DEF TerminateProcess, Ready
      <3> QED
        BY <2>1, <2>2, <3>1, <3>2, BuryInv
    <2>3. CASE /\ ~emptyChild(tree, pid)
               /\ AdopterFound(tree, tutors, pid)
               /\ LET a == Adopter(tree, tutors, pid)
                      f == firstChild(tree, pid)
                      t == Adopt(tree, a, f)
                  IN /\ tree' = t
                     /\ loop' = [pid |-> pid, tutor |-> a, first |-> f,
                                 iter |-> t.sib.next[f]]
               /\ UNCHANGED <<tutors, free, hung, created>>
      <3> DEFINE a == Adopter(tree, tutors, pid)
                 f == firstChild(tree, pid)
      <3>1. a \in Pcb
        BY <2>3, AdopterIsPcb
      <3>2. f \in Pcb /\ tree.parent[f] = pid /\ f \in Ptr /\ pid # NULL
        BY <2>3, FirstIsChild, PcbFacts DEF IInv, TypeOK
      <3>3. /\ tree' = Adopt(tree, a, f)
            /\ loop' = [pid |-> pid, tutor |-> a, first |-> f,
                        iter |-> tree'.sib.next[f]]
            /\ UNCHANGED <<tutors, free, hung, created>>
        BY <2>3
      <3> HIDE DEF a, f
      <3> QED
        BY <2>1, <3>1, <3>2, <3>3, AdoptInv
    <2> QED
      BY <1>1, <1>2, <2>2, <2>3 DEF TerminateProcess
  <1> QED
    BY <1>1, <1>2 DEF TerminateProcess

LEMMA AdoptNextInv == ASSUME IInv, AdoptNext PROVE IInv'
  <1>1. /\ loop.pid \in Live /\ loop.tutor \in Pcb
        /\ loop.iter \in Pcb /\ tree.parent[loop.iter] # NULL
    BY DEF AdoptNext, IInv, LoopInv
  <1>2. /\ loop.first \in Ptr
        /\ loop = [pid |-> loop.pid, tutor |-> loop.tutor,
                   first |-> loop.first, iter |-> loop.iter]
    BY DEF IInv, TypeOK
  <1>3. loop' = [pid |-> loop.pid, tutor |-> loop.tutor,
                 first |-> loop.first, iter |-> tree'.sib.next[loop.iter]]
    BY <1>2 DEF AdoptNext
  <1>4. /\ tree' = Adopt(tree, loop.tutor, loop.iter)
        /\ UNCHANGED <<tutors, free, hung, created>>
    BY DEF AdoptNext
  <1> QED
    BY <1>1, <1>2, <1>3, <1>4, AdoptInv

LEMMA TerminateEndInv == ASSUME IInv, TerminateEnd PROVE IInv'
  BY TreeSound, BuryInv DEF TerminateEnd, IInv, LoopInv

LEMMA NextInv == ASSUME IInv, [Next]_vars PROVE IInv'
  <1>1. ASSUME NEW running \in Live, CreateProcess(running) PROVE IInv'
    BY <1>1, CreateInv
  <1>2. ASSUME NEW running \in Live, Set_Tutor(running) PROVE IInv'
    BY <1>2, SameTreeInv DEF Set_Tutor, IInv, TypeOK, Live
  <1>3. ASSUME NEW running \in Live, NEW pid \in Pcb, TerminateProcess(running, pid)
        PROVE  IInv'
    BY <1>3, TerminateInv
  <1>4. CASE AdoptNext
    BY <1>4, AdoptNextInv
  <1>5. CASE TerminateEnd
    BY <1>5, TerminateEndInv
  <1>6. CASE UNCHANGED vars
    BY <1>6, SameTreeInv DEF vars, IInv, TypeOK
  <1> QED
    BY <1>1, <1>2, <1>3, <1>4, <1>5, <1>6 DEF Next

LEMMA Inductive == Spec => []IInv
  BY InitInv, NextInv, PTL DEF Spec

----------------------------------------------------------------------------
\* pcb.c, types_rikaya.h: every variable keeps its type.
THEOREM FamilyType == Spec => []TypeOK
  <1>1. IInv => TypeOK
    BY DEF IInv
  <1> QED
    BY <1>1, Inductive, PTL

\* handler.c:366-371 and 416: no PCB is freed twice, whatever pid SYS3 gets.
THEOREM NeverFreedTwice == Spec => []NoDoubleFree
  <1>1. IInv => NoDoubleFree
    BY DEF IInv
  <1> QED
    BY <1>1, Inductive, PTL

\* pcb.c: a free PCB has no parent, so Descendant refuses its pid.
THEOREM FreeIsOrphan == Spec => []FreeHasNoParent
  <1>1. IInv => FreeHasNoParent
    BY DEF IInv
  <1> QED
    BY <1>1, Inductive, PTL

\* pcb.c:197-268: the p_sib rings stay closed.
THEOREM SiblingsStayLinked == Spec => []SibRings
  <1>1. IInv => SibRings
    BY DEF IInv
  <1> QED
    BY <1>1, Inductive, PTL

\* pcb.c:181-268: the list macros never follow a NULL p_child pointer.
THEOREM ChildListsStayLinked == Spec => []ChildLinked
  <1>1. IInv => ChildLinked
    BY PcbFacts DEF IInv, Linked, InUse, ChildLinked
  <1> QED
    BY <1>1, Inductive, PTL

\* handler.c:388-396: what TerminateProcess reaches as children of pid are pid's.
THEOREM ReachesOwnChildren == Spec => []ChildrenAreMine
  <1>1. ASSUME IInv, NEW p \in Pcb, NEW c \in Children(tree, p)
        PROVE  tree.parent[c] = p
    <2> DEFINE S == {q \in Pcb : tree.parent[q] = p}
    <2>1. ~emptyChild(tree, p)
      BY <1>1 DEF Children
    <2>2. firstChild(tree, p) \in S
      BY <1>1, <2>1, FirstIsChild DEF IInv, TypeOK
    <2>3. \A r \in S : tree.sib.next[r] \in S
      <3> SUFFICES ASSUME NEW r \in Pcb, tree.parent[r] = p
                   PROVE  tree.sib.next[r] \in S
        OBVIOUS
      <3>1. p # NULL /\ tree.sib.next[r] \in Ptr
        BY <1>1, TreeFields, PcbFacts DEF IInv, TypeOK
      <3>2. tree.sib.next[r] # NULL /\ tree.parent[tree.sib.next[r]] = p
        BY <1>1, <3>1 DEF IInv, SibRings
      <3> QED
        BY <3>1, <3>2, PcbFacts
    <2>4. c \in S
      <3>1. S \in SUBSET Pcb
        OBVIOUS
      <3> QED
        BY <1>1, <2>1, <2>2, <2>3, <3>1 DEF Children
    <2> QED
      BY <2>4
  <1>2. IInv => ChildrenAreMine
    BY <1>1 DEF ChildrenAreMine
  <1> QED
    BY <1>2, Inductive, PTL
=============================================================================
