----------------------------- MODULE AslProofs -----------------------------
(***************************************************************************)
(* For any numbers of PCBs, descriptors and semaphores: the two rings of   *)
(* the active semaphore list stay closed and share no descriptor, the free *)
(* list is never empty when somebody has to block, and all of it is one    *)
(* queue per semaphore, as BlockedQueues has it.                           *)
(***************************************************************************)
EXTENDS Asl, ProcQProofs, FiniteSetTheorems

----------------------------------------------------------------------------
(* Rings without a sentinel, for the macros of listx.h. *)

\* The elements of R are linked in both directions, and whoever follows next from
\* any of them comes by all.
Ring(l, R) ==
  /\ \A d \in R : /\ l.next[d] \in R /\ l.prev[l.next[d]] = d
                  /\ l.prev[d] \in R /\ l.next[l.prev[d]] = d
  /\ \A S \in SUBSET R : S # {} /\ (\A d \in S : l.next[d] \in S) => S = R

Tables == [next : Links, prev : Links]

LEMMA SemdFacts ==
  /\ MaxSemd \in Nat /\ MaxSemd >= 1 /\ 1 \in Semd /\ MaxSemd \in Semd
  /\ NULL \notin Semd /\ Semd \subseteq Nat
  BY AslAssumption DEF Semd, NULL

\* A ring does not notice what happens to other links.
LEMMA RingElsewhere ==
  ASSUME NEW l, NEW m, NEW R, Ring(l, R),
         \A d \in R : m.next[d] = l.next[d] /\ m.prev[d] = l.prev[d]
  PROVE  Ring(m, R)
  <1>1. \A d \in R : /\ l.next[d] \in R /\ l.prev[l.next[d]] = d
                     /\ l.prev[d] \in R /\ l.next[l.prev[d]] = d
    BY DEF Ring
  <1>2. \A d \in R : /\ m.next[d] \in R /\ m.prev[m.next[d]] = d
                     /\ m.prev[d] \in R /\ m.next[m.prev[d]] = d
    BY <1>1
  <1>3. ASSUME NEW S \in SUBSET R, S # {}, \A d \in S : m.next[d] \in S
        PROVE  S = R
    <2>1. \A d \in S : l.next[d] \in S
      BY <1>3
    <2> QED
      BY <1>3, <2>1 DEF Ring
  <1> QED
    BY <1>2, <1>3 DEF Ring

\* list_empty finds out whether the head is alone.
LEMMA RingAlone ==
  ASSUME NEW l, NEW R, Ring(l, R), NEW h \in R
  PROVE  /\ list_empty(l, h) <=> R = {h}
         /\ l.prev[h] = h <=> R = {h}
         /\ l.next[h] = h <=> R = {h}
  <1>1. /\ l.next[h] \in R /\ l.prev[h] \in R
        /\ l.prev[l.next[h]] = h /\ l.next[l.prev[h]] = h
    BY DEF Ring
  <1>2. ASSUME l.next[h] = h PROVE R = {h}
    <2>1. {h} \in SUBSET R /\ {h} # {} /\ \A d \in {h} : l.next[d] \in {h}
      BY <1>2
    <2> QED
      BY <2>1 DEF Ring
  <1> QED
    BY <1>1, <1>2 DEF list_empty

\* INIT_LIST_HEAD
LEMMA RingInit ==
  ASSUME NEW l \in Tables, NEW x \in Semd
  PROVE  /\ INIT_LIST_HEAD(l, x) \in Tables
         /\ Ring(INIT_LIST_HEAD(l, x), {x})
         /\ \A d \in Semd \ {x} : /\ INIT_LIST_HEAD(l, x).next[d] = l.next[d]
                                  /\ INIT_LIST_HEAD(l, x).prev[d] = l.prev[d]
  <1> DEFINE m == INIT_LIST_HEAD(l, x)
  <1>1. l.next \in Links /\ l.prev \in Links
    BY DEF Tables
  <1>2. /\ m.next = [l.next EXCEPT ![x] = x] /\ m.prev = [l.prev EXCEPT ![x] = x]
        /\ m = [next |-> m.next, prev |-> m.prev]
    BY DEF INIT_LIST_HEAD
  <1> HIDE DEF m
  <1>3. m.next \in Links /\ m.prev \in Links
    BY <1>1, <1>2 DEF Links
  <1>4. m \in Tables
    BY <1>2, <1>3 DEF Tables
  <1>5. m.next[x] = x /\ m.prev[x] = x
    BY <1>1, <1>2 DEF Links
  <1>6. \A d \in Semd \ {x} : m.next[d] = l.next[d] /\ m.prev[d] = l.prev[d]
    BY <1>1, <1>2 DEF Links
  <1> QED
    BY <1>4, <1>5, <1>6 DEF Ring, m

\* __list_add, between an element of a ring and the one that follows it.
LEMMA RingAdd ==
  ASSUME NEW l \in Tables, NEW R \in SUBSET Semd, Ring(l, R),
         NEW x \in Semd, x \notin R, NEW a \in R, NEW b, b = l.next[a],
         NEW m, m = list_add_between(l, x, a, b)
  PROVE  /\ m \in Tables
         /\ Ring(m, R \cup {x})
         /\ \A d \in Semd \ (R \cup {x}) : m.next[d] = l.next[d] /\ m.prev[d] = l.prev[d]
  <1> DEFINE T == R \cup {x}
  <1>1. /\ l.next \in Links /\ l.prev \in Links
        /\ \A d \in R : /\ l.next[d] \in R /\ l.prev[l.next[d]] = d
                        /\ l.prev[d] \in R /\ l.next[l.prev[d]] = d
    BY DEF Tables, Ring
  <1>2. /\ m.next = [l.next EXCEPT ![x] = b, ![a] = x]
        /\ m.prev = [l.prev EXCEPT ![b] = x, ![x] = a]
        /\ m = [next |-> m.next, prev |-> m.prev]
    BY DEF list_add_between
  <1>3. b \in R /\ a \in Semd /\ b \in Semd /\ x # a /\ x # b /\ l.prev[b] = a
    BY <1>1
  <1>4. m.next \in Links /\ m.prev \in Links
    BY <1>1, <1>2, <1>3 DEF Links
  <1>5. m \in Tables
    BY <1>2, <1>4 DEF Tables
  <1>6. /\ m.next[x] = b /\ m.next[a] = x /\ m.prev[b] = x /\ m.prev[x] = a
        /\ \A d \in Semd \ {x, a} : m.next[d] = l.next[d]
        /\ \A d \in Semd \ {x, b} : m.prev[d] = l.prev[d]
    BY <1>1, <1>2, <1>3 DEF Links
  <1>7. ASSUME NEW d \in T
        PROVE  /\ m.next[d] \in T /\ m.prev[m.next[d]] = d
               /\ m.prev[d] \in T /\ m.next[m.prev[d]] = d
    <2>1. CASE d = x
      BY <1>3, <1>6, <2>1
    <2>2. CASE d \in R
      <3>1. m.next[d] \in T /\ m.prev[m.next[d]] = d
        <4>1. CASE d = a
          BY <1>3, <1>6, <4>1
        <4>2. CASE d # a
          <5>1. m.next[d] = l.next[d] /\ l.next[d] \in R /\ l.prev[l.next[d]] = d
            BY <1>1, <1>6, <2>2, <4>2
          <5>2. l.next[d] # b
            BY <1>3, <4>2, <5>1
          <5> QED
            BY <1>6, <5>1, <5>2
        <4> QED
          BY <4>1, <4>2
      <3>2. m.prev[d] \in T /\ m.next[m.prev[d]] = d
        <4>1. CASE d = b
          BY <1>3, <1>6, <4>1
        <4>2. CASE d # b
          <5>1. m.prev[d] = l.prev[d] /\ l.prev[d] \in R /\ l.next[l.prev[d]] = d
            BY <1>1, <1>6, <2>2, <4>2
          <5>2. l.prev[d] # a
            BY <4>2, <5>1
          <5> QED
            BY <1>6, <5>1, <5>2
        <4> QED
          BY <4>1, <4>2
      <3> QED
        BY <3>1, <3>2
    <2> QED
      BY <2>1, <2>2
  <1>8. ASSUME NEW S \in SUBSET T, S # {}, \A d \in S : m.next[d] \in S
        PROVE  S = T
    <2>1. S \ {x} # {}
      <3> SUFFICES ASSUME x \in S PROVE b \in S
        BY <1>3, <1>8
      <3> QED
        BY <1>6, <1>8
    <2>2. ASSUME NEW d \in S \ {x} PROVE l.next[d] \in S \ {x}
      <3>1. d \in R /\ l.next[d] \in R
        BY <1>1
      <3>2. CASE d = a
        BY <1>3, <1>6, <1>8, <3>2
      <3>3. CASE d # a
        BY <1>6, <1>8, <3>1, <3>3
      <3> QED
        BY <3>2, <3>3
    <2>3. S \ {x} = R
      <3>1. S \ {x} \in SUBSET R
        OBVIOUS
      <3> QED
        BY <2>1, <2>2, <3>1 DEF Ring
    <2>4. x \in S
      BY <1>6, <1>8, <2>3
    <2> QED
      BY <2>3, <2>4
  <1>9. Ring(m, T)
    BY <1>7, <1>8 DEF Ring
  <1>10. \A d \in Semd \ T : m.next[d] = l.next[d] /\ m.prev[d] = l.prev[d]
    BY <1>3, <1>6
  <1> QED
    BY <1>5, <1>9, <1>10

\* list_del
LEMMA RingDel ==
  ASSUME NEW l \in Tables, NEW R \in SUBSET Semd, Ring(l, R),
         NEW x \in R, R # {x}
  PROVE  /\ list_del(l, x) \in Tables
         /\ Ring(list_del(l, x), R \ {x})
         /\ l.next[x] \in R \ {x}
         /\ \A d \in Semd \ R : /\ list_del(l, x).next[d] = l.next[d]
                                /\ list_del(l, x).prev[d] = l.prev[d]
  <1> DEFINE a == l.prev[x]
             b == l.next[x]
             m == list_del(l, x)
             T == R \ {x}
  <1>1. /\ l.next \in Links /\ l.prev \in Links
        /\ \A d \in R : /\ l.next[d] \in R /\ l.prev[l.next[d]] = d
                        /\ l.prev[d] \in R /\ l.next[l.prev[d]] = d
    BY DEF Tables, Ring
  <1>2. /\ m.next = [l.next EXCEPT ![a] = b]
        /\ m.prev = [l.prev EXCEPT ![b] = a]
        /\ m = [next |-> m.next, prev |-> m.prev]
    BY DEF list_del
  <1>3. a \in T /\ b \in T /\ l.next[a] = x /\ l.prev[b] = x
    BY <1>1, RingAlone
  <1> HIDE DEF m, a, b
  <1>4. m.next \in Links /\ m.prev \in Links
    BY <1>1, <1>2, <1>3 DEF Links
  <1>5. m \in Tables
    BY <1>2, <1>4 DEF Tables
  <1>6. /\ m.next[a] = b /\ m.prev[b] = a
        /\ \A d \in Semd \ {a} : m.next[d] = l.next[d]
        /\ \A d \in Semd \ {b} : m.prev[d] = l.prev[d]
    BY <1>1, <1>2, <1>3 DEF Links
  <1>7. ASSUME NEW d \in T
        PROVE  /\ m.next[d] \in T /\ m.prev[m.next[d]] = d
               /\ m.prev[d] \in T /\ m.next[m.prev[d]] = d
    <2>1. m.next[d] \in T /\ m.prev[m.next[d]] = d
      <3>1. CASE d = a
        BY <1>3, <1>6, <3>1
      <3>2. CASE d # a
        <4>1. m.next[d] = l.next[d] /\ l.next[d] \in R /\ l.prev[l.next[d]] = d
          BY <1>1, <1>6, <3>2
        <4>2. l.next[d] # x /\ l.next[d] # b
          BY <1>3, <3>2, <4>1 DEF a
        <4> QED
          BY <1>6, <4>1, <4>2
      <3> QED
        BY <3>1, <3>2
    <2>2. m.prev[d] \in T /\ m.next[m.prev[d]] = d
      <3>1. CASE d = b
        BY <1>3, <1>6, <3>1
      <3>2. CASE d # b
        <4>1. m.prev[d] = l.prev[d] /\ l.prev[d] \in R /\ l.next[l.prev[d]] = d
          BY <1>1, <1>6, <3>2
        <4>2. l.prev[d] # x /\ l.prev[d] # a
          BY <1>3, <3>2, <4>1 DEF b
        <4> QED
          BY <1>6, <4>1, <4>2
      <3> QED
        BY <3>1, <3>2
    <2> QED
      BY <2>1, <2>2
  <1>8. ASSUME NEW S \in SUBSET T, S # {}, \A d \in S : m.next[d] \in S
        PROVE  S = T
    <2>1. ASSUME NEW d \in S, d # a PROVE l.next[d] \in S
      BY <1>6, <1>8, <2>1
    <2>2. CASE a \notin S
      <3>1. S \in SUBSET R /\ \A d \in S : l.next[d] \in S
        BY <2>1, <2>2
      <3>2. S = R
        BY <1>8, <3>1 DEF Ring
      <3> QED
        BY <3>2
    <2>3. CASE a \in S
      <3>1. b \in S
        BY <1>6, <1>8, <2>3
      <3>2. S \cup {x} \in SUBSET R /\ S \cup {x} # {}
        OBVIOUS
      <3>3. \A d \in S \cup {x} : l.next[d] \in S \cup {x}
        BY <1>3, <2>1, <3>1 DEF b
      <3>4. S \cup {x} = R
        BY <3>2, <3>3 DEF Ring
      <3> QED
        BY <3>4
    <2> QED
      BY <2>2, <2>3
  <1>9. Ring(m, T)
    BY <1>7, <1>8 DEF Ring
  <1>10. \A d \in Semd \ R : m.next[d] = l.next[d] /\ m.prev[d] = l.prev[d]
    BY <1>3, <1>6
  <1> QED
    BY <1>3, <1>5, <1>9, <1>10 DEF m, b

\* A loop over a ring comes by its elements and no others.
LEMMA RingAtRing ==
  ASSUME NEW R \in SUBSET Semd, Ring(s_next, R), NEW h \in R
  PROVE  RingAt(h) = R
  <1>1. \A d \in R : s_next.next[d] \in R
    BY DEF Ring
  <1>2. ASSUME NEW d \in RingAt(h) PROVE d \in R
    <2>1. /\ R \in SUBSET Semd /\ h \in R \cup {NULL}
          /\ \A r \in R : s_next.next[r] \in R \cup {NULL}
      BY <1>1
    <2> QED
      BY <2>1 DEF RingAt
  <1>3. ASSUME NEW d \in R PROVE d \in RingAt(h)
    <2> SUFFICES ASSUME NEW S \in SUBSET Semd, h \in S \cup {NULL},
                        \A r \in S : s_next.next[r] \in S \cup {NULL}
                 PROVE  d \in S
      BY DEF RingAt
    <2>1. h \in S \cap R
      BY SemdFacts
    <2>2. \A r \in S \cap R : s_next.next[r] \in S \cap R
      BY <1>1, SemdFacts
    <2>3. S \cap R = R
      BY <2>1, <2>2 DEF Ring
    <2> QED
      BY <2>3
  <1> QED
    BY <1>2, <1>3

LEMMA RingAtNull == RingAt(NULL) = {}
  <1> SUFFICES ASSUME NEW d \in RingAt(NULL) PROVE FALSE
    OBVIOUS
  <1>1. /\ {} \in SUBSET Semd /\ NULL \in {} \cup {NULL}
        /\ \A r \in {} : s_next.next[r] \in {} \cup {NULL}
    OBVIOUS
  <1>2. d \in {}
    BY <1>1 DEF RingAt
  <1> QED
    BY <1>2

----------------------------------------------------------------------------
(* The inductive invariant. *)

\* The descriptors somebody waits at.
Used   == {d \in Semd : s_procQ[d] # <<>>}
Unused == Semd \ Used

\* h is the head of a ring of all of R, or NULL if there are none.
Headed(h, R) == IF R = {} THEN h = NULL ELSE h \in R

TwoRings ==
  /\ Ring(s_next, Used)   /\ Headed(semd_h, Used)
  /\ Ring(s_next, Unused) /\ Headed(semdFree_h, Unused)

Waiters(key) == {p \in Pcb : p_semkey[p] = key}

\* One descriptor per key that somebody waits for, with all of them, once each.
OneQueuePerKey ==
  /\ \A d \in Used : /\ s_key[d] \in Key /\ Injective(s_procQ[d])
                     /\ Elems(s_procQ[d]) = Waiters(s_key[d])
  /\ \A d, e \in Used : s_key[d] = s_key[e] => d = e
  /\ \A p \in Pcb : p_semkey[p] # NoKey => \E d \in Used : s_key[d] = p_semkey[p]

IInv == TypeOK /\ TwoRings /\ OneQueuePerKey /\ NeverFails

\* The loops and searches find what the invariant speaks of.
LEMMA LoopsFind ==
  ASSUME IInv
  PROVE  /\ RingAt(semd_h) = Used /\ RingAt(semdFree_h) = Unused
         /\ \A d \in Used : getSemd(s_key[d]) = d
         /\ \A key : (\A d \in Used : s_key[d] # key) => getSemd(key) = NULL
         /\ \A key : getSemd(key) # NULL =>
              getSemd(key) \in Used /\ s_key[getSemd(key)] = key
  <1>1. RingAt(semd_h) = Used
    BY RingAtRing, RingAtNull DEF IInv, TwoRings, Headed, Used
  <1>2. RingAt(semdFree_h) = Unused
    BY RingAtRing, RingAtNull DEF IInv, TwoRings, Headed, Unused
  <1>3. \A key : getSemd(key) =
          IF {d \in Used : s_key[d] = key} = {} THEN NULL
          ELSE CHOOSE d \in {d \in Used : s_key[d] = key} : TRUE
    BY <1>1 DEF getSemd
  <1>4. ASSUME NEW d \in Used PROVE getSemd(s_key[d]) = d
    <2>1. {e \in Used : s_key[e] = s_key[d]} = {d}
      BY DEF IInv, OneQueuePerKey
    <2> QED
      BY <1>3, <2>1
  <1>5. ASSUME NEW key, \A d \in Used : s_key[d] # key PROVE getSemd(key) = NULL
    BY <1>3, <1>5
  <1> QED
    BY <1>1, <1>2, <1>4, <1>5

\* initASL links all descriptors in one ring.
LEMMA InitRing == Init => Ring(s_next, Semd)
  <1> SUFFICES ASSUME Init PROVE Ring(s_next, Semd)
    OBVIOUS
  <1>1. /\ s_next.next = [d \in Semd |-> IF d = MaxSemd THEN 1 ELSE d + 1]
        /\ s_next.prev = [d \in Semd |-> IF d = 1 THEN MaxSemd ELSE d - 1]
    BY DEF Init
  <1>2. \A d \in Semd : /\ s_next.next[d] \in Semd /\ s_next.prev[s_next.next[d]] = d
                       /\ s_next.prev[d] \in Semd /\ s_next.next[s_next.prev[d]] = d
    BY <1>1, SemdFacts DEF Semd
  <1>3. ASSUME NEW S \in SUBSET Semd, S # {}, \A d \in S : s_next.next[d] \in S
        PROVE  S = Semd
    <2>1. 1 \in S
      <3>1. PICK s \in S : TRUE
        BY <1>3
      <3> DEFINE Left == {MaxSemd - d : d \in S}
      <3>2. Left \in SUBSET Nat /\ Left # {}
        BY <3>1, SemdFacts DEF Semd
      <3>3. PICK x \in Left : \A y \in Left : x <= y
        BY <3>2, LeastPosition
      <3>4. PICK d \in S : x = MaxSemd - d
        OBVIOUS
      <3>5. d = MaxSemd
        <4> SUFFICES ASSUME d # MaxSemd PROVE FALSE
          OBVIOUS
        <4>1. d + 1 \in S
          BY <1>1, <1>3
        <4>2. MaxSemd - (d + 1) \in Left
          BY <4>1
        <4>3. x <= MaxSemd - (d + 1)
          BY <3>3, <4>2
        <4> QED
          BY <3>4, <4>3, SemdFacts DEF Semd
      <3> QED
        BY <1>1, <1>3, <3>5
    <2>2. Semd \subseteq S
      <3> SUFFICES ASSUME Semd \ S # {} PROVE FALSE
        OBVIOUS
      <3>1. Semd \ S \in SUBSET Nat
        BY SemdFacts
      <3>2. PICK x \in Semd \ S : \A y \in Semd \ S : x <= y
        BY <3>1, LeastPosition
      <3>3. x # 1 /\ x \in Nat /\ x - 1 \in Semd /\ x - 1 # MaxSemd
        BY <2>1, SemdFacts DEF Semd
      <3>4. x - 1 \in S
        BY <3>2, <3>3
      <3>5. s_next.next[x - 1] = x
        BY <1>1, <3>3
      <3> QED
        BY <1>3, <3>4, <3>5
    <2> QED
      BY <2>2
  <1> QED
    BY <1>2, <1>3 DEF Ring

LEMMA InitInv == Init => IInv
  <1> SUFFICES ASSUME Init PROVE IInv
    OBVIOUS
  <1>1. Used = {} /\ Unused = Semd
    BY DEF Init, Used, Unused
  <1>2. TypeOK
    <2>1. s_next \in [next : Links, prev : Links]
      BY SemdFacts DEF Init, Links, Semd, NULL
    <2>2. <<>> \in Seq(Pcb)
      OBVIOUS
    <2>3. s_procQ \in [Semd -> Seq(Pcb)]
      BY <2>2 DEF Init
    <2>4. /\ s_key \in [Semd -> Key \cup {NoKey}]
          /\ p_semkey \in [Pcb -> Key \cup {NoKey}]
          /\ semd_h \in Semd \cup {NULL} /\ semdFree_h \in Semd \cup {NULL}
          /\ priority \in [Pcb -> Prio] /\ failed \in BOOLEAN
      BY SemdFacts DEF Init
    <2> QED
      BY <2>1, <2>3, <2>4 DEF TypeOK
  <1>3. TwoRings
    <2>1. Ring(s_next, {})
      BY DEF Ring
    <2> QED
      BY <1>1, <2>1, InitRing, SemdFacts DEF TwoRings, Headed, Init
  <1>4. OneQueuePerKey /\ NeverFails
    BY <1>1 DEF Init, OneQueuePerKey, NeverFails
  <1> QED
    BY <1>2, <1>3, <1>4 DEF IInv

----------------------------------------------------------------------------
(* The two rings. *)

LEMMA CutFacts ==
  ASSUME NEW l \in Tables, NEW x \in Semd
  PROVE  /\ Cut(l, x) \in Tables
         /\ \A d \in Semd \ {x} : /\ Cut(l, x).next[d] = l.next[d]
                                  /\ Cut(l, x).prev[d] = l.prev[d]
  <1> DEFINE m == Cut(l, x)
  <1>1. l.next \in Links /\ l.prev \in Links
    BY DEF Tables
  <1>2. /\ m.next = [l.next EXCEPT ![x] = NULL] /\ m.prev = [l.prev EXCEPT ![x] = NULL]
        /\ m = [next |-> m.next, prev |-> m.prev]
    BY DEF Cut
  <1> HIDE DEF m
  <1>3. m.next \in Links /\ m.prev \in Links
    BY <1>1, <1>2 DEF Links
  <1>4. m \in Tables
    BY <1>2, <1>3 DEF Tables
  <1>5. \A d \in Semd \ {x} : m.next[d] = l.next[d] /\ m.prev[d] = l.prev[d]
    BY <1>1, <1>2 DEF Links
  <1> QED
    BY <1>4, <1>5 DEF m

\* What a handler finds of the rings.
LEMMA RingsNow ==
  ASSUME IInv
  PROVE  /\ s_next \in Tables /\ Used \in SUBSET Semd /\ Unused \in SUBSET Semd
         /\ Ring(s_next, Used) /\ Ring(s_next, Unused)
         /\ Headed(semd_h, Used) /\ Headed(semdFree_h, Unused)
         /\ Used \cap Unused = {} /\ Used \cup Unused = Semd
  BY DEF IInv, TypeOK, TwoRings, Tables, Used, Unused

\* allocSemaphore takes the last free descriptor out of its ring, and leaves the
\* other ring alone.
LEMMA AllocRings ==
  ASSUME IInv, semdFree_h # NULL
  PROVE  /\ LastFree \in Unused
         /\ LinksAfterAlloc \in Tables
         /\ Ring(LinksAfterAlloc, Used) /\ Ring(LinksAfterAlloc, Unused \ {LastFree})
         /\ Headed(FreeAfterAlloc, Unused \ {LastFree})
  <1> DEFINE x == LastFree
             h == semdFree_h
             rest == Unused \ {x}
             out == IF list_empty(s_next, h) THEN s_next ELSE list_del(s_next, x)
  <1>1. /\ s_next \in Tables /\ Used \in SUBSET Semd /\ Unused \in SUBSET Semd
        /\ Ring(s_next, Used) /\ Ring(s_next, Unused)
        /\ Used \cap Unused = {}
    BY RingsNow
  <1>2. h \in Unused
    BY RingsNow DEF Headed
  <1>3. x \in Unused
    BY <1>1, <1>2 DEF Ring, LastFree
  <1>4. /\ list_empty(s_next, h) <=> Unused = {h}
        /\ x = h <=> Unused = {h}
    BY <1>1, <1>2, RingAlone DEF LastFree
  <1> HIDE DEF x, h
  <1>5. /\ out \in Tables /\ Ring(out, rest)
        /\ \A d \in Used : out.next[d] = s_next.next[d] /\ out.prev[d] = s_next.prev[d]
    <2>1. CASE Unused = {h}
      <3>1. rest = {} /\ out = s_next
        BY <1>4, <2>1
      <3> QED
        BY <1>1, <3>1 DEF Ring
    <2>2. CASE Unused # {h}
      <3>1. out = list_del(s_next, x) /\ Unused # {x}
        BY <1>2, <1>4, <2>2
      <3> QED
        BY <1>1, <1>3, <3>1, RingDel
    <2> QED
      BY <2>1, <2>2
  <1> HIDE DEF out
  <1>6. LinksAfterAlloc = Cut(out, x)
    BY DEF LinksAfterAlloc, out, x, h
  <1>7. /\ Cut(out, x) \in Tables
        /\ \A d \in Semd \ {x} : /\ Cut(out, x).next[d] = out.next[d]
                                 /\ Cut(out, x).prev[d] = out.prev[d]
    BY <1>1, <1>3, <1>5, CutFacts
  <1>8. Ring(Cut(out, x), rest)
    BY <1>1, <1>5, <1>7, RingElsewhere
  <1>9. \A d \in Used : /\ Cut(out, x).next[d] = s_next.next[d]
                       /\ Cut(out, x).prev[d] = s_next.prev[d]
    BY <1>1, <1>3, <1>5, <1>7
  <1>10. Ring(Cut(out, x), Used)
    BY <1>1, <1>9, RingElsewhere
  <1>11. Headed(FreeAfterAlloc, rest)
    BY <1>2, <1>3, <1>4 DEF Headed, FreeAfterAlloc, h
  <1> QED
    BY <1>3, <1>6, <1>7, <1>8, <1>10, <1>11 DEF x

\* insertBlocked with a new descriptor, which goes behind the other active ones.
LEMMA NewRings ==
  ASSUME IInv, semdFree_h # NULL, NEW m, NEW h,
         h = IF semd_h = NULL THEN LastFree ELSE semd_h,
         m = IF semd_h = NULL THEN INIT_LIST_HEAD(LinksAfterAlloc, LastFree)
             ELSE list_add_tail(LinksAfterAlloc, LastFree, semd_h)
  PROVE  /\ m \in Tables
         /\ Ring(m, Used \cup {LastFree}) /\ Headed(h, Used \cup {LastFree})
         /\ Ring(m, Unused \ {LastFree})
  <1> DEFINE x == LastFree
             l == LinksAfterAlloc
  <1>1. /\ x \in Unused /\ l \in Tables /\ Ring(l, Used) /\ Ring(l, Unused \ {x})
    BY AllocRings
  <1>2. /\ Used \in SUBSET Semd /\ Unused \in SUBSET Semd /\ Used \cap Unused = {}
        /\ Headed(semd_h, Used)
    BY RingsNow
  <1>3. x \in Semd /\ x \notin Used
    BY <1>1, <1>2
  <1>4. semd_h = NULL <=> Used = {}
    BY <1>2, SemdFacts DEF Headed
  <1> HIDE DEF x, l
  <1>5. CASE semd_h = NULL
    <2>1. m = INIT_LIST_HEAD(l, x) /\ Used \cup {x} = {x} /\ h = x
      BY <1>4, <1>5 DEF x, l
    <2>2. /\ m \in Tables /\ Ring(m, {x})
          /\ \A d \in Semd \ {x} : m.next[d] = l.next[d] /\ m.prev[d] = l.prev[d]
      BY <1>1, <1>3, <2>1, RingInit
    <2>3. Ring(m, Unused \ {x})
      BY <1>1, <1>2, <2>2, RingElsewhere
    <2> QED
      BY <2>1, <2>2, <2>3 DEF Headed, x
  <1>6. CASE semd_h # NULL
    <2> DEFINE a == l.prev[semd_h]
    <2>1. semd_h \in Used
      BY <1>2, <1>6, <1>4 DEF Headed
    <2>2. a \in Used /\ l.next[a] = semd_h
      BY <1>1, <2>1 DEF Ring
    <2>3. m = list_add_between(l, x, a, semd_h) /\ h = semd_h
      BY <1>6 DEF list_add_tail, x, l
    <2> HIDE DEF a
    <2>4. /\ m \in Tables /\ Ring(m, Used \cup {x})
          /\ \A d \in Semd \ (Used \cup {x}) : m.next[d] = l.next[d] /\ m.prev[d] = l.prev[d]
      <3>1. /\ l \in Tables /\ Used \in SUBSET Semd /\ Ring(l, Used)
            /\ x \in Semd /\ x \notin Used /\ a \in Used /\ semd_h = l.next[a]
            /\ m = list_add_between(l, x, a, semd_h)
        BY <1>1, <1>2, <1>3, <2>2, <2>3
      <3> QED
        BY <3>1, RingAdd
    <2>5. Ring(m, Unused \ {x})
      BY <1>1, <1>2, <2>4, RingElsewhere
    <2> QED
      BY <2>1, <2>3, <2>4, <2>5 DEF Headed, x
  <1> QED
    BY <1>5, <1>6

\* freeSemaphore moves a descriptor from one ring to the other, in every case: the
\* head, the only one, and one behind the head.
LEMMA FreeRings ==
  ASSUME IInv, NEW d \in Used, freeSemaphore(d)
  PROVE  /\ s_next' \in Tables
         /\ Ring(s_next', Used \ {d})      /\ Headed(semd_h', Used \ {d})
         /\ Ring(s_next', Unused \cup {d}) /\ Headed(semdFree_h', Unused \cup {d})
  <1> DEFINE last == list_empty(s_next, semd_h)
             out == IF last THEN s_next ELSE list_del(s_next, d)
             rest == Used \ {d}
  <1>1. /\ s_next \in Tables /\ Used \in SUBSET Semd /\ Unused \in SUBSET Semd
        /\ Ring(s_next, Used) /\ Ring(s_next, Unused)
        /\ Headed(semd_h, Used) /\ Headed(semdFree_h, Unused)
        /\ Used \cap Unused = {} /\ d \in Semd /\ d \notin Unused
    BY RingsNow
  <1>2. semd_h \in Used /\ (semdFree_h = NULL <=> Unused = {})
    BY <1>1, SemdFacts DEF Headed
  <1>3. last <=> Used = {semd_h}
    BY <1>1, <1>2, RingAlone
  <1>4. /\ semd_h' = IF last THEN NULL
                     ELSE IF d = semd_h THEN s_next.next[semd_h] ELSE semd_h
        /\ semdFree_h' = IF semdFree_h = NULL THEN d ELSE semdFree_h
        /\ s_next' = IF semdFree_h = NULL THEN INIT_LIST_HEAD(out, d)
                     ELSE list_add(out, d, semdFree_h)
    BY DEF freeSemaphore
  <1> HIDE DEF last, out
  <1>5. /\ out \in Tables /\ Ring(out, rest)
        /\ \A e \in Unused : out.next[e] = s_next.next[e] /\ out.prev[e] = s_next.prev[e]
        /\ Headed(semd_h', rest)
    <2>1. CASE last
      <3>1. rest = {} /\ out = s_next /\ semd_h' = NULL
        BY <1>3, <1>4, <2>1 DEF out
      <3> QED
        BY <1>1, <3>1 DEF Ring, Headed
    <2>2. CASE ~last
      <3>1. out = list_del(s_next, d) /\ Used # {d}
        BY <1>2, <1>3, <2>2 DEF out
      <3>2. /\ out \in Tables /\ Ring(out, rest) /\ s_next.next[d] \in rest
            /\ \A e \in Semd \ Used : out.next[e] = s_next.next[e] /\ out.prev[e] = s_next.prev[e]
        BY <1>1, <3>1, RingDel
      <3>3. semd_h' \in rest
        BY <1>2, <1>4, <2>2, <3>2
      <3> QED
        BY <1>1, <3>2, <3>3 DEF Headed
    <2> QED
      BY <2>1, <2>2
  <1>6. Ring(out, Unused)
    BY <1>1, <1>5, RingElsewhere
  <1>7. /\ s_next' \in Tables /\ Ring(s_next', Unused \cup {d})
        /\ Headed(semdFree_h', Unused \cup {d})
        /\ \A e \in Semd \ (Unused \cup {d}) :
             s_next'.next[e] = out.next[e] /\ s_next'.prev[e] = out.prev[e]
    <2>1. CASE semdFree_h = NULL
      <3>1. s_next' = INIT_LIST_HEAD(out, d) /\ Unused \cup {d} = {d} /\ semdFree_h' = d
        BY <1>2, <1>4, <2>1
      <3> QED
        BY <1>1, <1>5, <3>1, RingInit DEF Headed
    <2>2. CASE semdFree_h # NULL
      <3>1. semdFree_h \in Unused
        BY <1>1, <1>2, <2>2 DEF Headed
      <3>2. s_next' = list_add_between(out, d, semdFree_h, out.next[semdFree_h])
        BY <1>4, <2>2 DEF list_add
      <3>3. /\ s_next' \in Tables /\ Ring(s_next', Unused \cup {d})
            /\ \A e \in Semd \ (Unused \cup {d}) :
                 s_next'.next[e] = out.next[e] /\ s_next'.prev[e] = out.prev[e]
        <4>1. /\ out \in Tables /\ Unused \in SUBSET Semd /\ Ring(out, Unused)
              /\ d \in Semd /\ d \notin Unused /\ semdFree_h \in Unused
          BY <1>1, <1>5, <1>6, <3>1
        <4> DEFINE b == out.next[semdFree_h]
        <4>2. b = out.next[semdFree_h] /\ s_next' = list_add_between(out, d, semdFree_h, b)
          BY <3>2
        <4> HIDE DEF b
        <4>3. ASSUME NEW m, m = list_add_between(out, d, semdFree_h, b)
              PROVE  /\ m \in Tables /\ Ring(m, Unused \cup {d})
                     /\ \A e \in Semd \ (Unused \cup {d}) :
                          m.next[e] = out.next[e] /\ m.prev[e] = out.prev[e]
          BY <4>1, <4>2, <4>3, RingAdd, Z3
        <4> QED
          BY <4>2, <4>3
      <3> QED
        BY <1>4, <2>2, <3>1, <3>3 DEF Headed
    <2> QED
      BY <2>1, <2>2
  <1>8. Ring(s_next', rest)
    BY <1>1, <1>5, <1>7, RingElsewhere
  <1> QED
    BY <1>5, <1>7, <1>8

\* asl.c:114 and 143: while somebody can still block there is a free descriptor,
\* for the others block at most one each.
LEMMA RoomLeft ==
  ASSUME IInv, NEW p \in Pcb, p_semkey[p] = NoKey
  PROVE  semdFree_h # NULL
  <1>1. SUFFICES ASSUME semdFree_h = NULL PROVE FALSE
    OBVIOUS
  <1>2. Used = Semd
    BY <1>1, RingsNow, SemdFacts DEF Headed
  <1> DEFINE f == [d \in Semd |-> s_procQ[d][1]]
  <1>3. ASSUME NEW d \in Semd PROVE f[d] \in Pcb \ {p} /\ p_semkey[f[d]] = s_key[d]
    <2>1. s_procQ[d] \in Seq(Pcb) /\ s_procQ[d] # <<>>
      BY <1>2 DEF IInv, TypeOK, Used
    <2>2. 1 \in DOMAIN s_procQ[d]
      BY <2>1
    <2>3. f[d] \in Waiters(s_key[d]) /\ s_key[d] \in Key
      BY <1>2, <2>2 DEF IInv, OneQueuePerKey, Elems
    <2> QED
      BY <2>3, AslAssumption DEF Waiters
  <1>4. f \in [Semd -> Pcb \ {p}]
    BY <1>3
  <1>5. \A d, e \in Semd : f[d] = f[e] => d = e
    <2> SUFFICES ASSUME NEW d \in Semd, NEW e \in Semd, f[d] = f[e] PROVE d = e
      OBVIOUS
    <2>1. s_key[d] = s_key[e]
      BY <1>3
    <2> QED
      BY <1>2, <2>1 DEF IInv, OneQueuePerKey
  <1> HIDE DEF f
  <1>6. IsFiniteSet(Semd) /\ Cardinality(Semd) = MaxSemd
    BY FS_Interval, SemdFacts DEF Semd
  <1>7. IsFiniteSet(Pcb \ {p}) /\ Cardinality(Pcb \ {p}) = Cardinality(Pcb) - 1
    BY FS_RemoveElement, AslAssumption
  <1>8. Cardinality(Pcb \ {p}) < Cardinality(Semd)
    BY <1>6, <1>7, AslAssumption, FS_CardinalityType
  <1> QED
    BY <1>4, <1>5, <1>6, <1>7, <1>8, FS_PigeonHole

----------------------------------------------------------------------------
(* The queues. *)

\* Somebody who waits for nothing goes into the queue of d: the one of its key, or
\* an unused one where there is none of that key.
LEMMA EnqueueKeeps ==
  ASSUME IInv, NEW key \in Key, NEW p \in Pcb, p_semkey[p] = NoKey, NEW d \in Semd,
         \/ d \in Used /\ s_key[d] = key
         \/ d \in Unused /\ \A e \in Used : s_key[e] # key,
         priority' \in [Pcb -> Prio],
         s_key' = [s_key EXCEPT ![d] = key],
         Enqueue(d, key, p, s_procQ[d])
  PROVE  /\ s_procQ' \in [Semd -> Seq(Pcb)] /\ p_semkey' \in [Pcb -> Key \cup {NoKey}]
         /\ Used' = Used \cup {d} /\ Unused' = Unused \ {d}
         /\ OneQueuePerKey'
  <1> DEFINE q == insertProcQ(s_procQ[d], p, priority', Beyond)
  <1>1. /\ s_key \in [Semd -> Key \cup {NoKey}] /\ s_procQ \in [Semd -> Seq(Pcb)]
        /\ p_semkey \in [Pcb -> Key \cup {NoKey}] /\ NoKey \notin Key
    BY AslAssumption DEF IInv, TypeOK
  <1>2. /\ p_semkey' = [p_semkey EXCEPT ![p] = key]
        /\ s_procQ' = [s_procQ EXCEPT ![d] = q]
    BY DEF Enqueue
  <1>3. /\ Elems(s_procQ[d]) = Waiters(key) /\ Injective(s_procQ[d])
        /\ p \notin Elems(s_procQ[d])
    <2>1. CASE d \in Used
      BY <1>1, <2>1 DEF IInv, OneQueuePerKey, Waiters, Unused
    <2>2. CASE d \in Unused
      <3>1. s_procQ[d] = <<>>
        BY <2>2 DEF Used, Unused
      <3>2. Elems(<<>>) = {} /\ Injective(<<>>)
        BY DEF Elems, Injective
      <3>3. \A r \in Pcb : p_semkey[r] # key
        BY <1>1, <2>2 DEF IInv, OneQueuePerKey, Unused
      <3> QED
        BY <3>1, <3>2, <3>3 DEF Waiters
    <2> QED
      BY <2>1, <2>2
  <1>4. PICK i \in 1..(Len(s_procQ[d]) + 1) : q = Link(s_procQ[d], i, p)
    <2>1. /\ s_procQ[d] \in Seq(Pcb) /\ priority' \in [Pcb -> Int]
          /\ Beyond \in Int /\ Beyond # priority'[p]
      BY <1>1, PrioAssumption
    <2> QED
      BY <2>1, InsertLinks
  <1> HIDE DEF q
  <1>5. /\ q \in Seq(Pcb) /\ q # <<>> /\ Injective(q)
        /\ Elems(q) = Waiters(key) \cup {p}
    <2>1. s_procQ[d] \in Seq(Pcb) /\ Len(s_procQ[d]) \in Nat
      BY <1>1
    <2>2. /\ q \in Seq(Pcb) /\ Len(q) = Len(s_procQ[d]) + 1
          /\ Elems(q) = Elems(s_procQ[d]) \cup {p} /\ Injective(q)
      BY <1>3, <1>4, <2>1, LinkFacts
    <2>3. q # <<>>
      BY <2>1, <2>2
    <2> QED
      BY <1>3, <2>2, <2>3
  <1>6. s_procQ' \in [Semd -> Seq(Pcb)] /\ p_semkey' \in [Pcb -> Key \cup {NoKey}]
    BY <1>1, <1>2, <1>5
  <1>7. s_procQ'[d] = q /\ \A e \in Semd \ {d} : s_procQ'[e] = s_procQ[e]
    BY <1>1, <1>2
  <1>8. Used' = Used \cup {d} /\ Unused' = Unused \ {d}
    BY <1>5, <1>7 DEF Used, Unused
  <1>9. s_key'[d] = key /\ \A e \in Used \ {d} : s_key'[e] = s_key[e] /\ s_key[e] # key
    BY <1>1 DEF IInv, OneQueuePerKey, Used, Unused
  <1>10. /\ Waiters(key)' = Waiters(key) \cup {p}
         /\ \A k \in Key \ {key} : Waiters(k)' = Waiters(k)
    BY <1>1, <1>2 DEF Waiters
  <1>11. ASSUME NEW e \in Used'
         PROVE  /\ s_key'[e] \in Key /\ Injective(s_procQ'[e])
                /\ Elems(s_procQ'[e]) = {r \in Pcb : p_semkey'[r] = s_key'[e]}
    <2>1. CASE e = d
      BY <1>5, <1>7, <1>9, <1>10, <2>1 DEF Waiters
    <2>2. CASE e # d
      <3>1. /\ e \in Used /\ e \in Semd /\ s_key'[e] = s_key[e] /\ s_key[e] # key
            /\ s_procQ'[e] = s_procQ[e]
        BY <1>7, <1>8, <1>9, <2>2 DEF Used
      <3>2. /\ s_key[e] \in Key /\ Injective(s_procQ[e])
            /\ Elems(s_procQ[e]) = Waiters(s_key[e])
        BY <3>1 DEF IInv, OneQueuePerKey
      <3>3. Waiters(s_key[e]) = {r \in Pcb : p_semkey'[r] = s_key[e]}
        BY <1>1, <1>2, <3>1, <3>2 DEF Waiters
      <3> QED
        BY <3>1, <3>2, <3>3
    <2> QED
      BY <2>1, <2>2
  <1>12. ASSUME NEW e \in Used', NEW f \in Used', s_key'[e] = s_key'[f] PROVE e = f
    BY <1>8, <1>9, <1>12 DEF IInv, OneQueuePerKey
  <1>13. ASSUME NEW r \in Pcb, p_semkey'[r] # NoKey
         PROVE  \E e \in Used' : s_key'[e] = p_semkey'[r]
    <2>1. CASE r = p
      BY <1>1, <1>2, <1>8, <1>9, <2>1
    <2>2. CASE r # p
      <3>1. p_semkey'[r] = p_semkey[r]
        BY <1>1, <1>2, <2>2
      <3>2. PICK e \in Used : s_key[e] = p_semkey[r]
        BY <1>13, <3>1 DEF IInv, OneQueuePerKey
      <3>3. s_key'[e] = s_key[e]
        BY <1>8, <1>9 DEF Unused
      <3> QED
        BY <1>8, <3>1, <3>2, <3>3
    <2> QED
      BY <2>1, <2>2
  <1>14. OneQueuePerKey'
    BY <1>11, <1>12, <1>13 DEF OneQueuePerKey, Waiters
  <1> QED
    BY <1>6, <1>8, <1>14

\* p leaves the queue of d, and q is what is left; the descriptor of an empty queue
\* becomes free.
LEMMA DequeueKeeps ==
  ASSUME IInv, NEW d \in Used, NEW p \in Elems(s_procQ[d]), NEW q \in Seq(Pcb),
         Injective(q), Elems(q) = Elems(s_procQ[d]) \ {p}, Dequeue(d, p, q)
  PROVE  IInv'
  <1>1. /\ s_key \in [Semd -> Key \cup {NoKey}] /\ s_procQ \in [Semd -> Seq(Pcb)]
        /\ p_semkey \in [Pcb -> Key \cup {NoKey}] /\ NoKey \notin Key
        /\ d \in Semd /\ p \in Pcb
    BY AslAssumption DEF IInv, TypeOK, Used, Elems
  <1>2. /\ s_procQ' = [s_procQ EXCEPT ![d] = q]
        /\ p_semkey' = [p_semkey EXCEPT ![p] = NoKey]
        /\ IF q = <<>> THEN freeSemaphore(d) ELSE UNCHANGED <<s_next, semd_h, semdFree_h>>
        /\ UNCHANGED <<s_key, priority, failed>>
    BY DEF Dequeue
  <1>3. /\ s_key[d] \in Key /\ p_semkey[p] = s_key[d]
        /\ Elems(s_procQ[d]) = Waiters(s_key[d])
        /\ \A e \in Used \ {d} : s_key[e] # s_key[d]
    BY DEF IInv, OneQueuePerKey, Waiters
  <1>4. s_procQ' \in [Semd -> Seq(Pcb)] /\ p_semkey' \in [Pcb -> Key \cup {NoKey}]
    BY <1>1, <1>2
  <1>5. s_procQ'[d] = q /\ \A e \in Semd \ {d} : s_procQ'[e] = s_procQ[e]
    BY <1>1, <1>2
  <1>6. /\ Used' = IF q = <<>> THEN Used \ {d} ELSE Used
        /\ Unused' = IF q = <<>> THEN Unused \cup {d} ELSE Unused
    BY <1>1, <1>5 DEF Used, Unused
  <1>7. ASSUME NEW e \in Used'
        PROVE  /\ s_key[e] \in Key /\ Injective(s_procQ'[e])
               /\ Elems(s_procQ'[e]) = {r \in Pcb : p_semkey'[r] = s_key[e]}
    <2>1. CASE e = d
      <3>1. {r \in Pcb : p_semkey'[r] = s_key[d]} = Waiters(s_key[d]) \ {p}
        BY <1>1, <1>2, <1>3 DEF Waiters
      <3> QED
        BY <1>3, <1>5, <2>1, <3>1
    <2>2. CASE e # d
      <3>1. e \in Used /\ e \in Semd /\ s_procQ'[e] = s_procQ[e] /\ s_key[e] # s_key[d]
        BY <1>3, <1>5, <1>6, <2>2 DEF Used
      <3>2. /\ s_key[e] \in Key /\ Injective(s_procQ[e])
            /\ Elems(s_procQ[e]) = Waiters(s_key[e])
        BY <3>1 DEF IInv, OneQueuePerKey
      <3>3. Waiters(s_key[e]) = {r \in Pcb : p_semkey'[r] = s_key[e]}
        BY <1>1, <1>2, <1>3, <3>1, <3>2 DEF Waiters
      <3> QED
        BY <3>1, <3>2, <3>3
    <2> QED
      BY <2>1, <2>2
  <1>8. ASSUME NEW r \in Pcb, p_semkey'[r] # NoKey
        PROVE  \E e \in Used' : s_key[e] = p_semkey'[r]
    <2>1. r # p /\ p_semkey'[r] = p_semkey[r]
      BY <1>1, <1>2, <1>8
    <2>2. PICK e \in Used : s_key[e] = p_semkey[r]
      BY <1>8, <2>1 DEF IInv, OneQueuePerKey
    <2>3. e \in Used'
      <3>1. CASE e # d
        BY <1>6, <3>1
      <3>2. CASE e = d
        <4>1. r \in Elems(q)
          BY <1>3, <2>1, <2>2, <3>2 DEF Waiters
        <4>2. q # <<>>
          BY <4>1 DEF Elems
        <4> QED
          BY <1>6, <4>2
      <3> QED
        BY <3>1, <3>2
    <2> QED
      BY <2>1, <2>2, <2>3
  <1>9. OneQueuePerKey'
    <2>1. \A e, f \in Used' : s_key[e] = s_key[f] => e = f
      BY <1>6 DEF IInv, OneQueuePerKey
    <2> QED
      BY <1>2, <1>7, <1>8, <2>1 DEF OneQueuePerKey, Waiters
  <1>10. /\ s_next' \in Tables
         /\ Ring(s_next', Used')   /\ Headed(semd_h', Used')
         /\ Ring(s_next', Unused') /\ Headed(semdFree_h', Unused')
    <2>1. CASE q = <<>>
      BY <1>2, <1>6, <2>1, FreeRings
    <2>2. CASE q # <<>>
      BY <1>2, <1>6, <2>2, RingsNow
    <2> QED
      BY <2>1, <2>2
  <1>11. semd_h' \in Semd \cup {NULL} /\ semdFree_h' \in Semd \cup {NULL}
    BY <1>10 DEF Headed, Used, Unused
  <1>12. TypeOK'
    BY <1>2, <1>4, <1>10, <1>11 DEF IInv, TypeOK, Tables
  <1> QED
    BY <1>2, <1>9, <1>10, <1>12 DEF IInv, TwoRings, NeverFails

----------------------------------------------------------------------------
(* The abstract queues, in terms of the descriptors that are used. *)

QueueOf == [key \in Key |-> IF getSemd(key) = NULL THEN <<>> ELSE s_procQ[getSemd(key)]]

QueueFacts ==
  /\ DOMAIN QueueOf = Key
  /\ QueueOf = [key \in Key |-> QueueOf[key]]
  /\ \A d \in Used : QueueOf[s_key[d]] = s_procQ[d]
  /\ \A key \in Key : (\A d \in Used : s_key[d] # key) => QueueOf[key] = <<>>

LEMMA QueueIs == IInv => QueueFacts
  <1> SUFFICES ASSUME IInv PROVE QueueFacts
    OBVIOUS
  <1>1. \A d \in Used : s_key[d] \in Key /\ d # NULL
    BY SemdFacts DEF IInv, OneQueuePerKey, Used
  <1>2. /\ DOMAIN QueueOf = Key
        /\ \A key \in Key : QueueOf[key] =
             IF getSemd(key) = NULL THEN <<>> ELSE s_procQ[getSemd(key)]
    BY DEF QueueOf
  <1>3. QueueOf = [key \in Key |-> QueueOf[key]]
    BY DEF QueueOf
  <1>4. \A d \in Used : QueueOf[s_key[d]] = s_procQ[d]
    BY <1>1, <1>2, LoopsFind
  <1>5. \A key \in Key : (\A d \in Used : s_key[d] # key) => QueueOf[key] = <<>>
    BY <1>2, LoopsFind
  <1> QED
    BY <1>2, <1>3, <1>4, <1>5 DEF QueueFacts

LEMMA QueueIsNext == IInv' => QueueFacts'
  BY QueueIs, PTL

\* Two such functions are the same if they agree at every key.
LEMMA QueueChange ==
  ASSUME QueueFacts, QueueFacts', NEW key \in Key, NEW q,
         QueueOf'[key] = q, \A k \in Key \ {key} : QueueOf'[k] = QueueOf[k]
  PROVE  QueueOf' = [QueueOf EXCEPT ![key] = q]
  <1>1. /\ DOMAIN QueueOf = Key
        /\ QueueOf' = [k \in Key |-> QueueOf'[k]]
    BY DEF QueueFacts
  <1>2. [QueueOf EXCEPT ![key] = q] = [k \in Key |-> IF k = key THEN q ELSE QueueOf[k]]
    BY <1>1
  <1>3. \A k \in Key : QueueOf'[k] = IF k = key THEN q ELSE QueueOf[k]
    OBVIOUS
  <1> QED
    BY <1>1, <1>2, <1>3

LEMMA EnqueueQueue ==
  ASSUME IInv, IInv', NEW key \in Key, NEW p \in Pcb, NEW d \in Semd,
         \/ d \in Used /\ s_key[d] = key
         \/ d \in Unused /\ \A e \in Used : s_key[e] # key,
         s_key' = [s_key EXCEPT ![d] = key], Used' = Used \cup {d},
         Enqueue(d, key, p, s_procQ[d])
  PROVE  QueueOf' = [QueueOf EXCEPT ![key] = insertProcQ(QueueOf[key], p, priority', Beyond)]
  <1> DEFINE q == insertProcQ(s_procQ[d], p, priority', Beyond)
  <1>1. QueueFacts /\ QueueFacts'
    BY QueueIs, QueueIsNext
  <1>2. s_procQ' = [s_procQ EXCEPT ![d] = q]
    BY DEF Enqueue
  <1>3. QueueOf[key] = s_procQ[d]
    <2>1. CASE d \in Used /\ s_key[d] = key
      BY <1>1, <2>1 DEF QueueFacts
    <2>2. CASE d \in Unused /\ \A e \in Used : s_key[e] # key
      <3>1. s_procQ[d] = <<>>
        BY <2>2 DEF Unused, Used
      <3> QED
        BY <1>1, <2>2, <3>1 DEF QueueFacts
    <2> QED
      BY <2>1, <2>2
  <1> HIDE DEF q
  <1>4. /\ s_procQ'[d] = q /\ s_key'[d] = key
        /\ \A e \in Semd \ {d} : s_procQ'[e] = s_procQ[e] /\ s_key'[e] = s_key[e]
    BY <1>2 DEF IInv, TypeOK
  <1>5. QueueOf'[key] = q
    BY <1>1, <1>4 DEF QueueFacts
  <1>6. ASSUME NEW k \in Key \ {key} PROVE QueueOf'[k] = QueueOf[k]
    <2>1. CASE \E e \in Used : s_key[e] = k
      <3>1. PICK e \in Used : s_key[e] = k
        BY <2>1
      <3>2. e # d /\ e \in Semd /\ e \in Used'
        BY <3>1 DEF Unused, Used
      <3>3. s_procQ'[e] = s_procQ[e] /\ s_key'[e] = k
        BY <1>4, <3>1, <3>2
      <3> QED
        BY <1>1, <3>1, <3>2, <3>3 DEF QueueFacts
    <2>2. CASE \A e \in Used : s_key[e] # k
      <3>1. \A e \in Used' : s_key'[e] # k
        BY <1>4, <2>2 DEF Used
      <3> QED
        BY <1>1, <2>2, <3>1 DEF QueueFacts
    <2> QED
      BY <2>1, <2>2
  <1>7. QueueOf' = [QueueOf EXCEPT ![key] = q]
    BY <1>1, <1>5, <1>6, QueueChange
  <1> QED
    BY <1>3, <1>7 DEF q

LEMMA DequeueQueue ==
  ASSUME IInv, IInv', NEW d \in Used, NEW p, NEW q, Dequeue(d, p, q)
  PROVE  QueueOf' = [QueueOf EXCEPT ![s_key[d]] = q]
  <1>1. QueueFacts /\ QueueFacts'
    BY QueueIs, QueueIsNext
  <1>2. s_procQ' = [s_procQ EXCEPT ![d] = q] /\ s_key' = s_key
    BY DEF Dequeue
  <1>3. /\ d \in Semd /\ s_procQ'[d] = q
        /\ \A e \in Semd \ {d} : s_procQ'[e] = s_procQ[e]
    BY <1>2 DEF IInv, TypeOK, Used
  <1>4. Used' = IF q = <<>> THEN Used \ {d} ELSE Used
    BY <1>3 DEF Used
  <1>5. s_key[d] \in Key /\ \A e \in Used \ {d} : s_key[e] # s_key[d]
    BY DEF IInv, OneQueuePerKey
  <1>6. QueueOf'[s_key[d]] = q
    <2>1. CASE q = <<>>
      <3>1. \A e \in Used' : s_key'[e] # s_key[d]
        BY <1>2, <1>4, <1>5, <2>1
      <3> QED
        BY <1>1, <1>5, <2>1, <3>1 DEF QueueFacts
    <2>2. CASE q # <<>>
      <3>1. d \in Used' /\ s_key'[d] = s_key[d]
        BY <1>2, <1>4, <2>2
      <3> QED
        BY <1>1, <1>3, <3>1 DEF QueueFacts
    <2> QED
      BY <2>1, <2>2
  <1>7. ASSUME NEW k \in Key \ {s_key[d]} PROVE QueueOf'[k] = QueueOf[k]
    <2>1. CASE \E e \in Used : s_key[e] = k
      <3>1. PICK e \in Used : s_key[e] = k
        BY <2>1
      <3>2. e # d /\ e \in Semd /\ e \in Used' /\ s_key'[e] = k
        BY <1>2, <1>4, <3>1 DEF Used
      <3>3. s_procQ'[e] = s_procQ[e]
        BY <1>3, <3>2
      <3> QED
        BY <1>1, <3>1, <3>2, <3>3 DEF QueueFacts
    <2>2. CASE \A e \in Used : s_key[e] # k
      <3>1. \A e \in Used' : s_key'[e] # k
        BY <1>2, <1>4, <2>2
      <3> QED
        BY <1>1, <2>2, <3>1 DEF QueueFacts
    <2> QED
      BY <2>1, <2>2
  <1> QED
    BY <1>1, <1>5, <1>6, <1>7, QueueChange

----------------------------------------------------------------------------
(* The actions: each keeps the invariant, and is the abstract one. *)

LEMMA InsertKnownStep ==
  ASSUME IInv, NEW key \in Key, NEW p \in Pcb, p_semkey[p] = NoKey,
         priority' \in [Pcb -> Prio], InsertKnown(key, p)
  PROVE  /\ IInv'
         /\ p_semkey' = [p_semkey EXCEPT ![p] = key]
         /\ QueueOf' = [QueueOf EXCEPT ![key] = insertProcQ(QueueOf[key], p, priority', Beyond)]
  <1> DEFINE d == getSemd(key)
  <1>1. /\ d # NULL /\ Enqueue(d, key, p, s_procQ[d])
        /\ UNCHANGED <<s_next, s_key, semd_h, semdFree_h, failed>>
    BY DEF InsertKnown
  <1>2. d \in Used /\ s_key[d] = key
    BY <1>1, LoopsFind
  <1> HIDE DEF d
  <1>3. d \in Semd /\ s_key' = [s_key EXCEPT ![d] = key]
    BY <1>1, <1>2 DEF IInv, TypeOK, Used
  <1>4. /\ s_procQ' \in [Semd -> Seq(Pcb)] /\ p_semkey' \in [Pcb -> Key \cup {NoKey}]
        /\ Used' = Used \cup {d} /\ Unused' = Unused \ {d} /\ OneQueuePerKey'
    BY <1>1, <1>2, <1>3, EnqueueKeeps
  <1>5. Used' = Used /\ Unused' = Unused
    BY <1>2, <1>4 DEF Unused
  <1>6. TwoRings'
    BY <1>1, <1>5 DEF IInv, TwoRings
  <1>7. IInv'
    BY <1>1, <1>4, <1>6 DEF IInv, TypeOK, NeverFails
  <1>8. p_semkey' = [p_semkey EXCEPT ![p] = key]
    BY <1>1 DEF Enqueue
  <1> QED
    BY <1>1, <1>2, <1>3, <1>4, <1>7, <1>8, EnqueueQueue

LEMMA InsertNewStep ==
  ASSUME IInv, NEW key \in Key, NEW p \in Pcb, p_semkey[p] = NoKey,
         priority' \in [Pcb -> Prio], InsertNew(key, p)
  PROVE  /\ IInv'
         /\ p_semkey' = [p_semkey EXCEPT ![p] = key]
         /\ QueueOf' = [QueueOf EXCEPT ![key] = insertProcQ(QueueOf[key], p, priority', Beyond)]
  <1> DEFINE d == LastFree
  <1>1. semdFree_h # NULL
    BY RoomLeft
  <1>2. /\ getSemd(key) = NULL
        /\ s_key' = [s_key EXCEPT ![d] = key]
        /\ semdFree_h' = FreeAfterAlloc
        /\ semd_h' = IF semd_h = NULL THEN d ELSE semd_h
        /\ s_next' = IF semd_h = NULL THEN INIT_LIST_HEAD(LinksAfterAlloc, d)
                     ELSE list_add_tail(LinksAfterAlloc, d, semd_h)
        /\ Enqueue(d, key, p, <<>>)
        /\ UNCHANGED failed
    BY <1>1 DEF InsertNew
  <1>3. d \in Unused /\ Headed(semdFree_h', Unused \ {d})
    BY <1>1, <1>2, AllocRings
  <1>4. /\ s_next' \in Tables
        /\ Ring(s_next', Used \cup {d}) /\ Headed(semd_h', Used \cup {d})
        /\ Ring(s_next', Unused \ {d})
    BY <1>1, <1>2, NewRings
  <1> HIDE DEF d
  <1>5. \A e \in Used : s_key[e] # key
    <2>1. \A e \in Used : getSemd(s_key[e]) = e /\ e # NULL
      BY LoopsFind, SemdFacts DEF Used
    <2> QED
      BY <1>2, <2>1
  <1>6. d \in Semd /\ s_procQ[d] = <<>>
    BY <1>3 DEF Used, Unused
  <1>7. Enqueue(d, key, p, s_procQ[d])
    BY <1>2, <1>6
  <1>8. /\ s_procQ' \in [Semd -> Seq(Pcb)] /\ p_semkey' \in [Pcb -> Key \cup {NoKey}]
        /\ Used' = Used \cup {d} /\ Unused' = Unused \ {d} /\ OneQueuePerKey'
    BY <1>2, <1>3, <1>5, <1>6, <1>7, EnqueueKeeps
  <1>9. TwoRings'
    BY <1>3, <1>4, <1>8 DEF TwoRings
  <1>10. TypeOK'
    <2>1. s_key' \in [Semd -> Key \cup {NoKey}]
      BY <1>2 DEF IInv, TypeOK
    <2>2. semd_h' \in Semd \cup {NULL} /\ semdFree_h' \in Semd \cup {NULL}
      BY <1>3, <1>4, <1>6 DEF Headed, Used, Unused
    <2> QED
      BY <1>2, <1>4, <1>8, <2>1, <2>2 DEF IInv, TypeOK, Tables
  <1>11. IInv'
    BY <1>2, <1>8, <1>9, <1>10 DEF IInv, NeverFails
  <1>12. p_semkey' = [p_semkey EXCEPT ![p] = key]
    BY <1>7 DEF Enqueue
  <1> QED
    BY <1>2, <1>3, <1>5, <1>6, <1>7, <1>8, <1>11, <1>12, EnqueueQueue

LEMMA RemoveBlockedStep ==
  ASSUME IInv, NEW key \in Key, removeBlocked(key)
  PROVE  /\ IInv'
         /\ QueueOf[key] # <<>>
         /\ p_semkey' = [p_semkey EXCEPT ![headProcQ(QueueOf[key])] = NoKey]
         /\ QueueOf' = [QueueOf EXCEPT ![key] = removeProcQ(QueueOf[key])]
         /\ UNCHANGED priority
  <1> DEFINE d == getSemd(key)
             s == s_procQ[d]
  <1>1. d # NULL /\ Dequeue(d, headProcQ(s), removeProcQ(s))
    BY DEF removeBlocked
  <1>2. d \in Used /\ s_key[d] = key
    BY <1>1, LoopsFind
  <1> HIDE DEF d
  <1>3. s \in Seq(Pcb) /\ s # <<>> /\ Injective(s)
    BY <1>2 DEF IInv, TypeOK, OneQueuePerKey, Used
  <1>4. QueueOf[key] = s
    BY <1>2, QueueIs DEF QueueFacts
  <1>5. /\ headProcQ(s) \in Elems(s) /\ removeProcQ(s) \in Seq(Pcb)
        /\ Injective(removeProcQ(s))
        /\ Elems(removeProcQ(s)) = Elems(s) \ {headProcQ(s)}
    <2>1. 1 \in 1..Len(s) /\ headProcQ(s) = s[1] /\ removeProcQ(s) = Unlink(s, 1)
      BY <1>3, RemoveUnlinks
    <2>2. s[1] \in Elems(s)
      BY <1>3, <2>1 DEF Elems
    <2> QED
      BY <1>3, <2>1, <2>2, UnlinkFacts
  <1>6. IInv'
    BY <1>1, <1>2, <1>5, DequeueKeeps
  <1>7. QueueOf' = [QueueOf EXCEPT ![key] = removeProcQ(s)]
    BY <1>1, <1>2, <1>6, DequeueQueue
  <1> QED
    BY <1>1, <1>3, <1>4, <1>6, <1>7 DEF Dequeue

LEMMA OutBlockedStep ==
  ASSUME IInv, NEW p \in Pcb, outBlocked(p)
  PROVE  /\ IInv'
         /\ p_semkey[p] # NoKey
         /\ p_semkey' = [p_semkey EXCEPT ![p] = NoKey]
         /\ QueueOf' = [QueueOf EXCEPT ![p_semkey[p]] = outProcQ(QueueOf[p_semkey[p]], p)]
         /\ UNCHANGED priority
  <1> DEFINE d == getSemd(p_semkey[p])
             s == s_procQ[d]
  <1>1. p_semkey[p] # NoKey /\ d # NULL /\ Dequeue(d, p, outProcQ(s, p))
    BY DEF outBlocked
  <1>2. d \in Used /\ s_key[d] = p_semkey[p]
    BY <1>1, LoopsFind
  <1> HIDE DEF d
  <1>3. s \in Seq(Pcb) /\ Injective(s) /\ p \in Elems(s)
    BY <1>2 DEF IInv, TypeOK, OneQueuePerKey, Waiters, Used
  <1>4. QueueOf[p_semkey[p]] = s
    BY <1>2, QueueIs DEF QueueFacts
  <1>5. /\ outProcQ(s, p) \in Seq(Pcb) /\ Injective(outProcQ(s, p))
        /\ Elems(outProcQ(s, p)) = Elems(s) \ {p}
    <2>1. PICK i \in 1..Len(s) : s[i] = p /\ outProcQ(s, p) = Unlink(s, i)
      BY <1>3, OutUnlinks
    <2> QED
      BY <1>3, <2>1, UnlinkFacts
  <1>6. IInv'
    BY <1>1, <1>2, <1>3, <1>5, DequeueKeeps
  <1>7. QueueOf' = [QueueOf EXCEPT ![p_semkey[p]] = outProcQ(s, p)]
    BY <1>1, <1>2, <1>6, DequeueQueue
  <1> QED
    BY <1>1, <1>4, <1>6, <1>7 DEF Dequeue

LEMMA InsertBlockedStep ==
  ASSUME IInv, NEW key \in Key, NEW p \in Pcb, NEW n \in Prio, insertBlocked(key, p, n)
  PROVE  /\ IInv'
         /\ p_semkey[p] = NoKey
         /\ priority' = [priority EXCEPT ![p] = n]
         /\ p_semkey' = [p_semkey EXCEPT ![p] = key]
         /\ QueueOf' = [QueueOf EXCEPT ![key] = insertProcQ(QueueOf[key], p, priority', Beyond)]
  <1>1. /\ p_semkey[p] = NoKey /\ priority' = [priority EXCEPT ![p] = n]
        /\ InsertKnown(key, p) \/ InsertNew(key, p)
    BY DEF insertBlocked
  <1>2. priority' \in [Pcb -> Prio]
    BY <1>1 DEF IInv, TypeOK
  <1> QED
    BY <1>1, <1>2, InsertKnownStep, InsertNewStep

LEMMA StepInv == ASSUME IInv, [Next]_vars PROVE IInv'
  <1>1. ASSUME NEW key \in Key, NEW p \in Pcb, NEW n \in Prio, insertBlocked(key, p, n)
        PROVE  IInv'
    BY <1>1, InsertBlockedStep
  <1>2. ASSUME NEW key \in Key, removeBlocked(key) PROVE IInv'
    BY <1>2, RemoveBlockedStep
  <1>3. ASSUME NEW p \in Pcb, outBlocked(p) PROVE IInv'
    BY <1>3, OutBlockedStep
  <1>4. CASE UNCHANGED vars
    BY <1>4 DEF vars, IInv, TypeOK, TwoRings, OneQueuePerKey, Waiters, NeverFails, Used, Unused
  <1> QED
    BY <1>1, <1>2, <1>3, <1>4 DEF Next

LEMMA Invariance == Spec => []IInv
  BY InitInv, StepInv, PTL DEF Spec

----------------------------------------------------------------------------
\* Every variable keeps its type.
THEOREM AslType == Spec => []TypeOK
  BY Invariance, PTL DEF IInv

\* Each descriptor is in one ring, the active one when and only when somebody
\* waits in its queue, and no two active ones stand for one key.
THEOREM DescriptorsInOneRing == Spec => []ActiveHasWaiters
  <1>1. IInv => ActiveHasWaiters
    <2> SUFFICES ASSUME IInv PROVE ActiveHasWaiters
      OBVIOUS
    <2>1. Active = Used /\ Idle = Unused
      BY LoopsFind DEF Active, Idle
    <2>2. \A d, e \in Active : s_key[d] = s_key[e] => d = e
      BY <2>1 DEF IInv, OneQueuePerKey
    <2> QED
      BY <2>1, <2>2 DEF ActiveHasWaiters, Used, Unused
  <1> QED
    BY <1>1, Invariance, PTL

\* No operation leaves a pointer behind: both rings are closed in both directions.
THEOREM RingsStayClosed == Spec => []RingsClosed
  <1>1. IInv => RingsClosed
    <2> SUFFICES ASSUME IInv, NEW h \in {semd_h, semdFree_h} \ {NULL}, NEW d \in RingAt(h)
                 PROVE  /\ s_next.next[d] # NULL /\ s_next.prev[s_next.next[d]] = d
                        /\ s_next.prev[d] # NULL /\ s_next.next[s_next.prev[d]] = d
      BY DEF RingsClosed
    <2>1. PICK R \in SUBSET Semd : Ring(s_next, R) /\ d \in R
      BY LoopsFind, RingsNow
    <2>2. /\ s_next.next[d] \in R /\ s_next.prev[s_next.next[d]] = d
          /\ s_next.prev[d] \in R /\ s_next.next[s_next.prev[d]] = d
      BY <2>1 DEF Ring
    <2> QED
      BY <2>2, SemdFacts
  <1> QED
    BY <1>1, Invariance, PTL

\* asl.c:114 and 143: insertBlocked never returns TRUE.
THEOREM AlwaysAFreeDescriptor == Spec => []NeverFails
  BY Invariance, PTL DEF IInv

\* Whoever has a p_semkey is in the queue that getSemd finds for it.
THEOREM BlockedAreFound == Spec => []BlockedIsQueued
  <1>1. IInv => BlockedIsQueued
    <2> SUFFICES ASSUME IInv, NEW p \in Pcb, p_semkey[p] # NoKey
                 PROVE  /\ getSemd(p_semkey[p]) # NULL
                        /\ p \in Elems(s_procQ[getSemd(p_semkey[p])])
      BY DEF BlockedIsQueued
    <2>1. PICK d \in Used : s_key[d] = p_semkey[p]
      BY DEF IInv, OneQueuePerKey
    <2>2. getSemd(p_semkey[p]) = d /\ d # NULL
      BY <2>1, LoopsFind, SemdFacts DEF Used
    <2>3. p \in Elems(s_procQ[d])
      BY <2>1 DEF IInv, OneQueuePerKey, Waiters
    <2> QED
      BY <2>2, <2>3
  <1> QED
    BY <1>1, Invariance, PTL

----------------------------------------------------------------------------
(* The refinement. *)

\* The queue operators of the two modules are the same.
LEMMA SameOperators ==
  /\ \A q, p, prio, b : Queues!insertProcQ(q, p, prio, b) = insertProcQ(q, p, prio, b)
  /\ \A q : Queues!headProcQ(q) = headProcQ(q) /\ Queues!removeProcQ(q) = removeProcQ(q)
  /\ \A q, p : Queues!outProcQ(q, p) = outProcQ(q, p)
  <1>1. \A q, p, prio, b : Queues!insertProcQ(q, p, prio, b) = insertProcQ(q, p, prio, b)
    BY DEF Queues!insertProcQ, insertProcQ, Queues!BreakAt, BreakAt,
           Queues!NextPrio, NextPrio, Queues!Link, Link
  <1>2. \A q, p : Queues!outProcQ(q, p) = outProcQ(q, p)
    BY DEF Queues!outProcQ, outProcQ, Queues!Elems, Elems, Queues!Unlink, Unlink
  <1> QED
    BY <1>1, <1>2 DEF Queues!headProcQ, headProcQ, Queues!removeProcQ, removeProcQ

LEMMA RefinesInit == Init => Queues!Init
  <1> SUFFICES ASSUME Init PROVE Queues!Init
    OBVIOUS
  <1>1. Used = {}
    BY DEF Init, Used
  <1>2. \A key \in Key : QueueOf[key] = <<>>
    BY <1>1, InitInv, QueueIs DEF QueueFacts
  <1>3. QueueOf = [key \in Key |-> <<>>]
    BY <1>2 DEF QueueOf
  <1> QED
    BY <1>3 DEF Queues!Init, QueueOf, Init

LEMMA RefinesNext == ASSUME IInv, [Next]_vars PROVE [Queues!Next]_(Queues!vars)
  <1>1. ASSUME NEW key \in Key, NEW p \in Pcb, NEW n \in Prio, insertBlocked(key, p, n)
        PROVE  Queues!Next
    <2>1. /\ priority' \in [Pcb -> Prio]
          /\ \A r \in Pcb \ {p} : priority'[r] = priority[r]
      BY <1>1, InsertBlockedStep DEF IInv, TypeOK
    <2>2. Queues!InsertBlocked(key, p)
      BY <1>1, <2>1, InsertBlockedStep, SameOperators DEF Queues!InsertBlocked, QueueOf
    <2> QED
      BY <2>2 DEF Queues!Next
  <1>2. ASSUME NEW key \in Key, removeBlocked(key) PROVE Queues!Next
    <2>1. Queues!RemoveBlocked(key)
      BY <1>2, RemoveBlockedStep, SameOperators DEF Queues!RemoveBlocked, QueueOf
    <2> QED
      BY <2>1 DEF Queues!Next
  <1>3. ASSUME NEW p \in Pcb, outBlocked(p) PROVE Queues!Next
    <2>1. Queues!OutBlocked(p)
      BY <1>3, OutBlockedStep, SameOperators DEF Queues!OutBlocked, QueueOf
    <2> QED
      BY <2>1 DEF Queues!Next
  <1>4. CASE UNCHANGED vars
    BY <1>4 DEF vars, Queues!vars, getSemd, RingAt
  <1> QED
    BY <1>1, <1>2, <1>3, <1>4 DEF Next

\* Descriptors, rings and free list together are one queue per semaphore, with room
\* for everybody.
THEOREM ImplementsBlockedQueues == Spec => ImplementsQueues
  BY Invariance, RefinesInit, RefinesNext, PTL DEF Spec, ImplementsQueues, Queues!Spec
============================================================================
