---------------------------- MODULE ProcQProofs ----------------------------
(***************************************************************************)
(* What the queue operators of ProcQ do to a queue of any length, proved   *)
(* once here and cited where queues change.                                *)
(***************************************************************************)
EXTENDS ProcQ, SequenceTheorems, WellFoundedInduction, TLAPS

\* No PCB is twice in the queue.
Injective(q) == \A i, j \in DOMAIN q : q[i] = q[j] => i = j

\* The loops of pcb.c stop at the first position that fits.
LEMMA LeastPosition ==
  ASSUME NEW T \in SUBSET Nat, T # {}
  PROVE  \E x \in T : \A y \in T : x <= y
  <1>1. PICK x \in T : \A y \in T : <<y, x>> \notin OpToRel(<, Nat)
    BY WFMin, NatLessThanWellFounded
  <1>2. \A y \in T : ~ (y < x)
    BY <1>1 DEF OpToRel
  <1> QED
    BY <1>2

\* Linking p in keeps a sequence and adds p alone.
LEMMA LinkFacts ==
  ASSUME NEW S, NEW q \in Seq(S), NEW p \in S, NEW i \in 1..(Len(q) + 1)
  PROVE  /\ Link(q, i, p) \in Seq(S)
         /\ Len(Link(q, i, p)) = Len(q) + 1
         /\ Elems(Link(q, i, p)) = Elems(q) \cup {p}
         /\ Injective(q) /\ p \notin Elems(q) => Injective(Link(q, i, p))
  <1> DEFINE l == Link(q, i, p)
  <1>0. Len(q) \in Nat /\ DOMAIN q = 1..Len(q)
    OBVIOUS
  <1>1. /\ l \in Seq(S)
        /\ Len(l) = Len(q) + 1
        /\ DOMAIN l = 1..(Len(q) + 1)
    BY <1>0 DEF Link
  <1>2. /\ l[i] = p
        /\ \A j \in 1..Len(q) : j < i => l[j] = q[j]
        /\ \A j \in 1..Len(q) : j >= i => l[j + 1] = q[j]
    BY <1>0 DEF Link
  <1>3. \A j \in 1..(Len(q) + 1) :
          \/ j < i /\ j \in 1..Len(q) /\ l[j] = q[j]
          \/ j = i /\ l[j] = p
          \/ j > i /\ j - 1 \in 1..Len(q) /\ l[j] = q[j - 1]
    BY <1>0 DEF Link
  <1>4. Elems(l) = Elems(q) \cup {p}
    <2>1. Elems(l) \subseteq Elems(q) \cup {p}
      BY <1>0, <1>1, <1>3 DEF Elems
    <2>2. p \in Elems(l)
      BY <1>0, <1>1, <1>2 DEF Elems
    <2>3. ASSUME NEW j \in 1..Len(q) PROVE q[j] \in Elems(l)
      <3>1. j \in DOMAIN l /\ j + 1 \in DOMAIN l
        BY <1>0, <1>1
      <3>2. q[j] = l[j] \/ q[j] = l[j + 1]
        BY <1>0, <1>2
      <3> QED
        BY <3>1, <3>2 DEF Elems
    <2> QED
      BY <1>0, <2>1, <2>2, <2>3 DEF Elems
  <1>5. ASSUME Injective(q), p \notin Elems(q) PROVE Injective(l)
    <2>1. \A j \in 1..Len(q) : q[j] # p
      BY <1>0, <1>5 DEF Elems
    <2>2. ASSUME NEW j \in 1..(Len(q) + 1), NEW k \in 1..(Len(q) + 1), l[j] = l[k]
          PROVE  j = k
      <3>1. \A a, b \in 1..Len(q) : q[a] = q[b] => a = b
        BY <1>0, <1>5 DEF Injective
      <3>2. CASE j = i
        BY <1>3, <2>1, <2>2, <3>2
      <3>3. CASE k = i
        BY <1>3, <2>1, <2>2, <3>3
      <3>4. CASE j # i /\ k # i
        BY <1>0, <1>2, <1>3, <2>2, <3>1, <3>4
      <3> HIDE DEF l
      <3> QED
        BY <3>2, <3>3, <3>4
    <2> QED
      BY <1>1, <2>2 DEF Injective
  <1> QED
    BY <1>1, <1>4, <1>5

\* The loop of insertProcQ breaks: at the last element at the latest, unless the
\* word past the sentinel happens to equal p's priority.
LEMMA InsertBreaks ==
  ASSUME NEW S, NEW q \in Seq(S), NEW p \in S, NEW prio \in [S -> Int],
         NEW b \in Int, b # prio[p], q # <<>>
  PROVE  \E i \in 1..Len(q) :
           /\ insertProcQ(q, p, prio, b)
                = Link(q, IF prio[q[i]] < prio[p] THEN i ELSE i + 1, p)
           /\ \/ prio[q[i]] < prio[p]
              \/ prio[q[i]] = prio[p] /\ i < Len(q) /\ prio[q[i + 1]] # prio[p]
              \/ prio[q[i]] >= prio[p] /\ i = Len(q)
           /\ \A j \in 1..Len(q) : j < i => prio[q[j]] >= prio[p]
  <1> DEFINE B == BreakAt(q, p, prio, b)
  <1>1. /\ Len(q) \in Nat \ {0} /\ DOMAIN q = 1..Len(q)
        /\ prio[p] \in Int
        /\ \A j \in 1..Len(q) : q[j] \in S /\ prio[q[j]] \in Int
    OBVIOUS
  <1>2. ASSUME NEW j \in 1..Len(q)
        PROVE  j \in B <=>
                 \/ prio[q[j]] < prio[p]
                 \/ /\ prio[q[j]] = prio[p]
                    /\ j < Len(q) => prio[q[j + 1]] # prio[p]
                 \/ prio[q[j]] > prio[p] /\ j = Len(q)
    BY <1>1 DEF BreakAt, NextPrio
  <1>3. B \subseteq 1..Len(q)
    BY <1>1 DEF BreakAt
  <1> HIDE DEF B
  <1>4. Len(q) \in B
    <2>1. Len(q) \in 1..Len(q) /\ ~(Len(q) < Len(q))
      BY <1>1
    <2>2. prio[q[Len(q)]] \in Int
      BY <1>1, <2>1
    <2>3. \/ prio[q[Len(q)]] < prio[p]
          \/ prio[q[Len(q)]] = prio[p]
          \/ prio[q[Len(q)]] > prio[p]
      BY <1>1, <2>2
    <2> QED
      BY <1>2, <2>1, <2>3
  <1>5. PICK i \in 1..Len(q) : i \in B /\ \A y \in B : i <= y
    <2>1. B \in SUBSET Nat /\ B # {}
      BY <1>1, <1>3, <1>4
    <2> QED
      BY <1>3, <2>1, LeastPosition
  <1>6. i = CHOOSE x \in B : \A y \in B : x <= y
    <2>1. \A x, y \in B : x <= y /\ y <= x => x = y
      BY <1>1, <1>3
    <2>2. \A x \in B : (\A y \in B : x <= y) => x = i
      BY <1>5, <2>1
    <2> QED
      BY <1>5, <2>2
  <1>7. insertProcQ(q, p, prio, b)
          = Link(q, IF prio[q[i]] < prio[p] THEN i ELSE i + 1, p)
    BY <1>4, <1>6 DEF insertProcQ, B
  <1>8. \A j \in 1..Len(q) : j < i => prio[q[j]] >= prio[p]
    <2>1. ASSUME NEW j \in 1..Len(q), j < i PROVE ~(prio[q[j]] < prio[p])
      <3>1. j \notin B
        BY <1>1, <1>3, <1>5, <2>1
      <3> QED
        BY <1>2, <3>1
    <2> QED
      BY <1>1, <2>1
  <1>9. /\ i \in 1..Len(q)
        /\ \/ prio[q[i]] < prio[p]
           \/ prio[q[i]] = prio[p] /\ i < Len(q) /\ prio[q[i + 1]] # prio[p]
           \/ prio[q[i]] >= prio[p] /\ i = Len(q)
    <2>1. i \in 1..Len(q) /\ prio[q[i]] \in Int
      BY <1>1
    <2>2. i < Len(q) \/ i = Len(q)
      <3>1. Len(q) \in Nat
        OBVIOUS
      <3> QED
        BY <3>1
    <2> QED
      <3>1. \/ prio[q[i]] < prio[p]
            \/ prio[q[i]] = prio[p] /\ (i < Len(q) => prio[q[i + 1]] # prio[p])
            \/ prio[q[i]] > prio[p] /\ i = Len(q)
        BY <1>2, <1>5
      <3>2. \A m, n \in Int : m = n \/ m > n => m >= n
        OBVIOUS
      <3> QED
        BY <1>1, <2>1, <2>2, <3>1, <3>2
  <1> QED
    BY <1>7, <1>8, <1>9

\* Then p is linked, at some position.
LEMMA InsertLinks ==
  ASSUME NEW S, NEW q \in Seq(S), NEW p \in S, NEW prio \in [S -> Int],
         NEW b \in Int, b # prio[p]
  PROVE  \E i \in 1..(Len(q) + 1) : insertProcQ(q, p, prio, b) = Link(q, i, p)
  <1>1. CASE q = <<>>
    <2>1. Link(q, 1, p) = <<p>>
      BY <1>1 DEF Link
    <2> QED
      BY <1>1, <2>1 DEF insertProcQ
  <1>2. CASE q # <<>>
    <2>1. PICK i \in 1..Len(q) :
            insertProcQ(q, p, prio, b)
              = Link(q, IF prio[q[i]] < prio[p] THEN i ELSE i + 1, p)
      BY <1>2, InsertBreaks
    <2> DEFINE at == IF prio[q[i]] < prio[p] THEN i ELSE i + 1
    <2>2. at \in 1..(Len(q) + 1)
      BY <2>1
    <2> QED
      BY <2>1, <2>2
  <1> QED
    BY <1>1, <1>2

\* The queue is in order of service: no PCB behind one of lower priority.
Sorted(q, prio) ==
  \A i, j \in DOMAIN q : i < j => prio[q[i]] >= prio[q[j]]

\* In a sorted queue p goes behind every PCB of its priority or higher and
\* before every PCB of lower priority.
LEMMA InsertPosition ==
  ASSUME NEW S, NEW q \in Seq(S), NEW p \in S, NEW prio \in [S -> Int],
         NEW b \in Int, b # prio[p], Sorted(q, prio)
  PROVE  \E i \in 1..(Len(q) + 1) :
           /\ insertProcQ(q, p, prio, b) = Link(q, i, p)
           /\ \A j \in 1..Len(q) : /\ j < i => prio[q[j]] >= prio[p]
                                   /\ j >= i => prio[q[j]] < prio[p]
  <1>1. CASE q = <<>>
    <2>1. Link(q, 1, p) = <<p>>
      BY <1>1 DEF Link
    <2> QED
      BY <1>1, <2>1 DEF insertProcQ
  <1>2. CASE q # <<>>
    <2>1. /\ Len(q) \in Nat \ {0} /\ DOMAIN q = 1..Len(q)
          /\ prio[p] \in Int
          /\ \A j \in 1..Len(q) : q[j] \in S /\ prio[q[j]] \in Int
      BY <1>2
    <2>2. PICK i \in 1..Len(q) :
            /\ insertProcQ(q, p, prio, b)
                 = Link(q, IF prio[q[i]] < prio[p] THEN i ELSE i + 1, p)
            /\ \/ prio[q[i]] < prio[p]
               \/ prio[q[i]] = prio[p] /\ i < Len(q) /\ prio[q[i + 1]] # prio[p]
               \/ prio[q[i]] >= prio[p] /\ i = Len(q)
            /\ \A j \in 1..Len(q) : j < i => prio[q[j]] >= prio[p]
      BY <1>2, InsertBreaks
    <2> DEFINE at == IF prio[q[i]] < prio[p] THEN i ELSE i + 1
    <2>3. at \in 1..(Len(q) + 1)
      BY <2>1
    <2>4. ASSUME NEW j \in 1..Len(q), NEW k \in 1..Len(q), j <= k
          PROVE  prio[q[j]] >= prio[q[k]]
      <3>1. CASE j = k
        <4>1. prio[q[j]] \in Int
          BY <2>1
        <4> QED
          BY <3>1, <4>1
      <3>2. CASE j < k
        BY <2>1, <3>2 DEF Sorted
      <3> QED
        BY <2>1, <2>4, <3>1, <3>2
    <2>5. ASSUME NEW j \in 1..Len(q)
          PROVE  /\ j < at => prio[q[j]] >= prio[p]
                 /\ j >= at => prio[q[j]] < prio[p]
      <3>1. CASE prio[q[i]] < prio[p]
        <4>1. at = i
          BY <3>1
        <4>2. CASE j < i
          BY <2>2, <4>1, <4>2
        <4>3. CASE j >= i
          <5>1. prio[q[i]] >= prio[q[j]] /\ prio[q[i]] \in Int /\ prio[q[j]] \in Int
            BY <2>1, <2>4, <4>3
          <5> QED
            BY <2>1, <3>1, <4>1, <4>3, <5>1
        <4> QED
          BY <4>2, <4>3
      <3>2. CASE prio[q[i]] = prio[p] /\ i < Len(q) /\ prio[q[i + 1]] # prio[p]
        <4>1. at = i + 1 /\ i + 1 \in 1..Len(q)
          BY <2>1, <3>2
        <4>2. prio[q[i + 1]] < prio[p]
          BY <2>1, <2>4, <3>2, <4>1
        <4>3. j < i + 1 => prio[q[j]] >= prio[q[i]]
          BY <2>4
        <4>4. j >= i + 1 => prio[q[i + 1]] >= prio[q[j]]
          BY <2>4, <4>1
        <4> QED
          BY <2>1, <3>2, <4>1, <4>2, <4>3, <4>4
      <3>3. CASE prio[q[i]] >= prio[p] /\ i = Len(q)
        <4>1. prio[q[j]] >= prio[q[i]]
          BY <2>4, <3>3
        <4> QED
          BY <2>1, <3>3, <4>1
      <3> QED
        BY <2>2, <3>1, <3>2, <3>3
    <2> QED
      BY <2>2, <2>3, <2>5
  <1> QED
    BY <1>1, <1>2

\* Unlinking position i keeps the others in their order.
LEMMA UnlinkFacts ==
  ASSUME NEW S, NEW q \in Seq(S), NEW i \in 1..Len(q)
  PROVE  /\ Unlink(q, i) \in Seq(S)
         /\ Len(Unlink(q, i)) = Len(q) - 1
         /\ Injective(q) => /\ Elems(Unlink(q, i)) = Elems(q) \ {q[i]}
                            /\ Injective(Unlink(q, i))
  <1> DEFINE u == Unlink(q, i)
  <1>0. Len(q) \in Nat \ {0} /\ DOMAIN q = 1..Len(q)
    OBVIOUS
  <1>1. /\ u \in Seq(S)
        /\ Len(u) = Len(q) - 1
        /\ DOMAIN u = 1..(Len(q) - 1)
    BY <1>0 DEF Unlink
  <1>2. \A j \in 1..(Len(q) - 1) : u[j] = IF j < i THEN q[j] ELSE q[j + 1]
    BY <1>0 DEF Unlink
  <1> HIDE DEF u
  <1>3. ASSUME Injective(q) PROVE Elems(u) = Elems(q) \ {q[i]} /\ Injective(u)
    <2>1. \A j, k \in 1..Len(q) : q[j] = q[k] => j = k
      BY <1>0, <1>3 DEF Injective
    <2>2. ASSUME NEW j \in 1..Len(q), j # i PROVE q[j] \in Elems(u)
      <3>1. CASE j < i
        <4>1. j \in 1..(Len(q) - 1) /\ u[j] = q[j]
          BY <1>0, <1>2, <3>1
        <4> QED
          BY <1>1, <4>1 DEF Elems
      <3>2. CASE j > i
        <4>1. j - 1 \in 1..(Len(q) - 1) /\ u[j - 1] = q[j]
          BY <1>0, <1>2, <3>2
        <4> QED
          BY <1>1, <4>1 DEF Elems
      <3> QED
        BY <2>2, <3>1, <3>2
    <2>3. ASSUME NEW j \in 1..(Len(q) - 1)
          PROVE  \E k \in 1..Len(q) : k # i /\ u[j] = q[k]
      <3>1. CASE j < i
        BY <1>0, <1>2, <3>1
      <3>2. CASE j >= i
        <4>1. j + 1 \in 1..Len(q) /\ j + 1 # i /\ u[j] = q[j + 1]
          BY <1>0, <1>2, <3>2
        <4> QED
          BY <4>1
      <3> QED
        BY <3>1, <3>2
    <2>4. Elems(u) = Elems(q) \ {q[i]}
      <3>1. Elems(u) = {u[j] : j \in 1..(Len(q) - 1)}
        BY <1>1 DEF Elems
      <3>2. Elems(q) = {q[j] : j \in 1..Len(q)}
        BY <1>0 DEF Elems
      <3>3. Elems(u) \subseteq Elems(q) \ {q[i]}
        BY <2>1, <2>3, <3>1, <3>2
      <3>4. Elems(q) \ {q[i]} \subseteq Elems(u)
        BY <2>2, <3>2
      <3> QED
        BY <3>3, <3>4
    <2>5. ASSUME NEW j \in 1..(Len(q) - 1), NEW k \in 1..(Len(q) - 1), u[j] = u[k]
          PROVE  j = k
      <3>1. /\ j \in 1..Len(q) /\ j + 1 \in 1..Len(q)
            /\ k \in 1..Len(q) /\ k + 1 \in 1..Len(q)
        BY <1>0
      <3> QED
        BY <1>0, <1>2, <2>1, <2>5, <3>1
    <2> QED
      BY <1>1, <2>4, <2>5 DEF Injective
  <1> QED
    BY <1>1, <1>3 DEF u

\* outProcQ unlinks p, and leaves a queue without p alone.
LEMMA OutUnlinks ==
  ASSUME NEW S, NEW q \in Seq(S), NEW p
  PROVE  IF p \in Elems(q)
         THEN \E i \in 1..Len(q) : q[i] = p /\ outProcQ(q, p) = Unlink(q, i)
         ELSE outProcQ(q, p) = q
  <1>1. CASE p \in Elems(q)
    <2> DEFINE P == {i \in DOMAIN q : q[i] = p}
               i == CHOOSE i \in DOMAIN q :
                      q[i] = p /\ \A j \in DOMAIN q : q[j] = p => i <= j
    <2>1. P \subseteq Nat /\ P # {}
      BY <1>1 DEF Elems
    <2>2. \E x \in P : \A y \in P : x <= y
      BY <2>1, LeastPosition
    <2>3. \E x \in DOMAIN q : q[x] = p /\ \A j \in DOMAIN q : q[j] = p => x <= j
      BY <2>2
    <2>4. i \in 1..Len(q) /\ q[i] = p
      BY <2>3
    <2>5. outProcQ(q, p) = Unlink(q, i)
      BY <1>1 DEF outProcQ
    <2> HIDE DEF i
    <2> QED
      BY <1>1, <2>4, <2>5
  <1>2. CASE p \notin Elems(q)
    BY <1>2 DEF outProcQ
  <1> QED
    BY <1>1, <1>2

\* Removing the head is unlinking position 1.
LEMMA RemoveUnlinks ==
  ASSUME NEW S, NEW q \in Seq(S), q # <<>>
  PROVE  /\ 1 \in 1..Len(q)
         /\ headProcQ(q) = q[1]
         /\ removeProcQ(q) = Unlink(q, 1)
  <1>1. Len(q) \in Nat \ {0}
    OBVIOUS
  <1>2. /\ Tail(q) \in Seq(S)
        /\ Len(Tail(q)) = Len(q) - 1
        /\ \A j \in 1..(Len(q) - 1) : Tail(q)[j] = q[j + 1]
    BY HeadTailProperties
  <1>3. /\ Unlink(q, 1) \in Seq(S)
        /\ Len(Unlink(q, 1)) = Len(q) - 1
        /\ \A j \in 1..(Len(q) - 1) : Unlink(q, 1)[j] = q[j + 1]
    BY <1>1 DEF Unlink
  <1>4. Tail(q) = Unlink(q, 1)
    BY <1>2, <1>3, SeqEqual
  <1> QED
    BY <1>1, <1>4 DEF headProcQ, removeProcQ

----------------------------------------------------------------------------
\* s is a queue, in order of priority, of the PCBs of T.
Row(s, prio, T) == Injective(s) /\ Sorted(s, prio) /\ Elems(s) = T

\* Nobody is in the empty queue.
LEMMA RowEmpty ==
  ASSUME NEW S, NEW s \in Seq(S), NEW prio, NEW T, Row(s, prio, T)
  PROVE  s = <<>> <=> T = {}
  <1>1. DOMAIN s = 1..Len(s) /\ Len(s) \in Nat
    OBVIOUS
  <1>2. CASE s = <<>>
    BY <1>2 DEF Row, Elems
  <1>3. CASE s # <<>>
    <2>1. 1 \in DOMAIN s
      BY <1>1, <1>3
    <2> QED
      BY <1>3, <2>1 DEF Row, Elems
  <1> QED
    BY <1>2, <1>3

\* Who is elsewhere may change priority; and all in the queue may together.
LEMMA RowPrio ==
  ASSUME NEW S, NEW s \in Seq(S), NEW prio \in [S -> Int], NEW T, Row(s, prio, T),
         NEW new \in [S -> Int], NEW d \in Int, \A p \in T : new[p] = prio[p] + d
  PROVE  Row(s, new, T)
  <1>1. Sorted(s, new)
    <2> SUFFICES ASSUME NEW i \in DOMAIN s, NEW j \in DOMAIN s, i < j
                 PROVE  new[s[i]] >= new[s[j]]
      BY DEF Sorted
    <2>1. s[i] \in T /\ s[j] \in T /\ s[i] \in S /\ s[j] \in S
      BY DEF Row, Elems
    <2>2. prio[s[i]] >= prio[s[j]]
      BY DEF Row, Sorted
    <2> QED
      BY <2>1, <2>2
  <1> QED
    BY <1>1 DEF Row

LEMMA RowKeep ==
  ASSUME NEW S, NEW s \in Seq(S), NEW prio \in [S -> Int], NEW T, Row(s, prio, T),
         NEW new \in [S -> Int], \A p \in T : new[p] = prio[p]
  PROVE  Row(s, new, T)
  <1>1. T \subseteq S
    BY DEF Row, Elems
  <1>2. 0 \in Int /\ \A p \in T : new[p] = prio[p] + 0
    BY <1>1
  <1> QED
    BY <1>2, RowPrio

\* insertProcQ keeps the order.
LEMMA RowInsert ==
  ASSUME NEW S, NEW s \in Seq(S), NEW prio \in [S -> Int], NEW T, Row(s, prio, T),
         NEW p \in S, p \notin T, NEW b \in Int, b # prio[p]
  PROVE  /\ insertProcQ(s, p, prio, b) \in Seq(S)
         /\ Len(insertProcQ(s, p, prio, b)) = Len(s) + 1
         /\ Row(insertProcQ(s, p, prio, b), prio, T \cup {p})
  <1>1. Injective(s) /\ Sorted(s, prio) /\ Elems(s) = T
    BY DEF Row
  <1>2. PICK i \in 1..(Len(s) + 1) :
          /\ insertProcQ(s, p, prio, b) = Link(s, i, p)
          /\ \A j \in 1..Len(s) : /\ j < i => prio[s[j]] >= prio[p]
                                  /\ j >= i => prio[s[j]] < prio[p]
    BY <1>1, InsertPosition
  <1>3. /\ Link(s, i, p) \in Seq(S) /\ Len(Link(s, i, p)) = Len(s) + 1
        /\ Elems(Link(s, i, p)) = T \cup {p} /\ Injective(Link(s, i, p))
    BY <1>1, LinkFacts
  <1>4. Sorted(Link(s, i, p), prio)
    <2> DEFINE l == Link(s, i, p)
    <2> SUFFICES ASSUME NEW j \in DOMAIN l, NEW k \in DOMAIN l, j < k
                 PROVE  prio[l[j]] >= prio[l[k]]
      BY DEF Sorted
    <2>1. DOMAIN l = 1..(Len(s) + 1) /\ DOMAIN s = 1..Len(s) /\ Len(s) \in Nat
      BY <1>3
    <2>2. \A m \in 1..(Len(s) + 1) :
            \/ m < i /\ m \in 1..Len(s) /\ l[m] = s[m]
            \/ m = i /\ l[m] = p
            \/ m > i /\ m - 1 \in 1..Len(s) /\ l[m] = s[m - 1]
      BY <2>1 DEF Link
    <2>3. \A x, y \in 1..Len(s) : x < y => prio[s[x]] >= prio[s[y]]
      BY <1>1, <2>1 DEF Sorted
    <2>4. \A x \in 1..Len(s) : prio[s[x]] \in Int
      BY <2>1
    <2>5. prio[p] \in Int
      OBVIOUS
    <2>6. /\ j \in 1..(Len(s) + 1) /\ k \in 1..(Len(s) + 1)
          /\ i \in Int /\ j \in Int /\ k \in Int /\ Len(s) \in Nat
      BY <2>1
    <2>7. \/ j < i /\ j \in 1..Len(s) /\ l[j] = s[j]
          \/ j = i /\ l[j] = p
          \/ j > i /\ j - 1 \in 1..Len(s) /\ l[j] = s[j - 1]
      BY <2>2, <2>6
    <2>8. \/ k < i /\ k \in 1..Len(s) /\ l[k] = s[k]
          \/ k = i /\ l[k] = p
          \/ k > i /\ k - 1 \in 1..Len(s) /\ l[k] = s[k - 1]
      BY <2>2, <2>6
    <2> HIDE DEF l
    <2>9. CASE k < i
      <3>1. j < i
        BY <2>6, <2>9
      <3> QED
        BY <2>3, <2>6, <2>7, <2>8, <2>9, <3>1
    <2>10. CASE k = i
      <3>1. j \in 1..Len(s) /\ j < i /\ l[j] = s[j] /\ l[k] = p
        BY <2>6, <2>7, <2>8, <2>10
      <3> QED
        BY <1>2, <3>1
    <2>11. CASE k > i
      <3>1. k - 1 \in 1..Len(s) /\ k - 1 >= i /\ l[k] = s[k - 1]
        BY <2>6, <2>8, <2>11
      <3>2. CASE j = i
        <4>1. l[j] = p
          BY <2>6, <2>7, <3>2
        <4>2. prio[s[k - 1]] < prio[p]
          BY <1>2, <3>1
        <4> QED
          BY <2>4, <2>5, <3>1, <4>1, <4>2
      <3>3. CASE j < i
        <4>1. j \in 1..Len(s) /\ l[j] = s[j] /\ j < k - 1
          BY <2>6, <2>7, <2>11, <3>3
        <4> QED
          BY <2>3, <3>1, <4>1
      <3>4. CASE j > i
        <4>1. j - 1 \in 1..Len(s) /\ l[j] = s[j - 1] /\ j - 1 < k - 1
          BY <2>6, <2>7, <3>4
        <4> QED
          BY <2>3, <3>1, <4>1
      <3> QED
        BY <2>6, <3>2, <3>3, <3>4
    <2> QED
      BY <2>6, <2>9, <2>10, <2>11
  <1> QED
    BY <1>2, <1>3, <1>4 DEF Row

\* Taking position i out keeps the order.
LEMMA RowUnlink ==
  ASSUME NEW S, NEW s \in Seq(S), NEW prio \in [S -> Int], NEW T, Row(s, prio, T),
         NEW i \in 1..Len(s)
  PROVE  /\ Unlink(s, i) \in Seq(S)
         /\ Len(Unlink(s, i)) = Len(s) - 1
         /\ s[i] \in T
         /\ Row(Unlink(s, i), prio, T \ {s[i]})
  <1>1. Injective(s) /\ Sorted(s, prio) /\ Elems(s) = T
    BY DEF Row
  <1>2. /\ Unlink(s, i) \in Seq(S) /\ Len(Unlink(s, i)) = Len(s) - 1
        /\ Elems(Unlink(s, i)) = T \ {s[i]} /\ Injective(Unlink(s, i))
    BY <1>1, UnlinkFacts
  <1>3. Sorted(Unlink(s, i), prio)
    <2> DEFINE u == Unlink(s, i)
    <2> SUFFICES ASSUME NEW j \in DOMAIN u, NEW k \in DOMAIN u, j < k
                 PROVE  prio[u[j]] >= prio[u[k]]
      BY DEF Sorted
    <2> DEFINE at(m) == IF m < i THEN m ELSE m + 1
    <2>1. j \in 1..(Len(s) - 1) /\ k \in 1..(Len(s) - 1) /\ Len(s) \in Nat
      BY DEF Unlink
    <2>2. u[j] = s[at(j)] /\ u[k] = s[at(k)]
      BY <2>1 DEF Unlink
    <2>3. at(j) \in 1..Len(s) /\ at(k) \in 1..Len(s) /\ at(j) < at(k)
      BY <2>1
    <2>4. \A x, y \in 1..Len(s) : x < y => prio[s[x]] >= prio[s[y]]
      BY <1>1 DEF Sorted
    <2> HIDE DEF u, at
    <2> QED
      BY <2>2, <2>3, <2>4
  <1>4. s[i] \in T
    BY <1>1 DEF Elems
  <1> QED
    BY <1>2, <1>3, <1>4 DEF Row

\* removeProcQ takes the head, outProcQ the PCB it is told.
LEMMA RowRemove ==
  ASSUME NEW S, NEW s \in Seq(S), NEW prio \in [S -> Int], NEW T, Row(s, prio, T),
         s # <<>>
  PROVE  /\ headProcQ(s) \in T
         /\ removeProcQ(s) \in Seq(S)
         /\ Len(removeProcQ(s)) = Len(s) - 1
         /\ Row(removeProcQ(s), prio, T \ {headProcQ(s)})
  <1>1. /\ 1 \in 1..Len(s) /\ headProcQ(s) = s[1] /\ removeProcQ(s) = Unlink(s, 1)
    BY RemoveUnlinks
  <1>2. /\ Unlink(s, 1) \in Seq(S) /\ Len(Unlink(s, 1)) = Len(s) - 1
        /\ s[1] \in T /\ Row(Unlink(s, 1), prio, T \ {s[1]})
    BY <1>1, RowUnlink
  <1> QED
    BY <1>1, <1>2

LEMMA RowOut ==
  ASSUME NEW S, NEW s \in Seq(S), NEW prio \in [S -> Int], NEW T, Row(s, prio, T),
         NEW p \in T
  PROVE  /\ outProcQ(s, p) \in Seq(S)
         /\ Len(outProcQ(s, p)) = Len(s) - 1
         /\ Row(outProcQ(s, p), prio, T \ {p})
  <1>1. p \in Elems(s)
    BY DEF Row
  <1>2. PICK i \in 1..Len(s) : s[i] = p /\ outProcQ(s, p) = Unlink(s, i)
    BY <1>1, OutUnlinks
  <1>3. /\ Unlink(s, i) \in Seq(S) /\ Len(Unlink(s, i)) = Len(s) - 1
        /\ Row(Unlink(s, i), prio, T \ {s[i]})
    BY RowUnlink
  <1> QED
    BY <1>2, <1>3
============================================================================
