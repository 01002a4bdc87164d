--------------------------- MODULE SchedulerProofs ---------------------------
(***************************************************************************)
(* The two things scheduler.c lives on, each with a specification of its   *)
(* own.                                                                    *)
(*                                                                         *)
(* ReadyQueue, for any number of PCBs and any priorities: a process queue  *)
(* loses nobody and serves in order, as long as the word past its sentinel *)
(* is no priority in use.                                                  *)
(*                                                                         *)
(* Clock, for any time slice, period of the pseudo-clock and length of the *)
(* low word that satisfy its assumptions, and any number of processes: the *)
(* timer never misses the tick it is set for, and a tick wakes nobody who  *)
(* called after it.                                                        *)
(***************************************************************************)
EXTENDS ReadyQueue, Clock, ProcQProofs

----------------------------------------------------------------------------
(* The queue. *)

\* Who waits arrived before now.
ArrivedBefore == \A p \in waiting : arrival[p] < clock

\* ServiceOrder's Before, for any priorities and arrivals.
Precedes(pr, ar, p, q) == pr[p] > pr[q] \/ (pr[p] = pr[q] /\ ar[p] < ar[q])

\* Aging does not reach what is read past the sentinel.
PrioSafe ==
  \A p \in Pcb : \A b \in Beyond : b < prio[p] \/ (b > prio[p] /\ b > MaxPrio)

QueueInv == TypeOK /\ NothingLost /\ ServiceOrder /\ ArrivedBefore /\ PrioSafe

LEMMA QueueInitInv == ASSUME SentinelSafe, InitQueue PROVE QueueInv
  <1> USE PrioAssumption
  <1>1. TypeOK
    <2>1. prio \in [Pcb -> Int]
      BY DEF InitQueue
    <2>2. queue \in Seq(Pcb) /\ waiting \subseteq Pcb /\ clock \in Nat
      BY DEF InitQueue
    <2>3. arrival \in [Pcb -> Nat]
      BY DEF InitQueue
    <2> QED
      BY <2>1, <2>2, <2>3 DEF TypeOK
  <1>2. NothingLost /\ ServiceOrder /\ ArrivedBefore
    BY DEF InitQueue, NothingLost, ServiceOrder, ArrivedBefore, Elems
  <1>3. PrioSafe
    BY DEF InitQueue, PrioSafe, SentinelSafe
  <1> QED
    BY <1>1, <1>2, <1>3 DEF QueueInv

LEMMA InsertInv ==
  ASSUME SentinelSafe, QueueInv, NEW p \in Pcb, NEW n \in Prio, Insert(p, n)
  PROVE  QueueInv'
  <1> USE PrioAssumption DEF QueueInv
  <1>1. /\ TypeOK /\ p \notin waiting /\ clock' = clock + 1
        /\ prio' = [prio EXCEPT ![p] = n]
        /\ waiting' = waiting \cup {p}
        /\ arrival' = [arrival EXCEPT ![p] = clock]
    BY DEF Insert
  <1>2. PICK b \in Beyond : queue' = insertProcQ(queue, p, prio', b)
    BY DEF Insert
  <1>3. /\ prio' \in [Pcb -> Int] /\ prio'[p] = n /\ b \in Int /\ queue \in Seq(Pcb)
        /\ \A r \in Pcb : r # p => prio'[r] = prio[r]
        /\ \A r \in Pcb : r # p => arrival'[r] = arrival[r]
        /\ arrival'[p] = clock /\ clock \in Nat /\ arrival' \in [Pcb -> Nat]
    BY <1>1 DEF TypeOK
  <1>4. b # prio'[p]
    BY <1>3 DEF SentinelSafe
  <1>5. /\ p \notin Elems(queue) /\ Injective(queue) /\ Elems(queue) = waiting
        /\ \A j \in DOMAIN queue : queue[j] # p /\ queue[j] \in waiting
    BY <1>1 DEF NothingLost, Injective, Elems
  <1>6. DOMAIN queue = 1..Len(queue) /\ Len(queue) \in Nat
    BY <1>3
  <1>7. Sorted(queue, prio')
    <2> SUFFICES ASSUME NEW j \in DOMAIN queue, NEW k \in DOMAIN queue, j < k
                 PROVE  prio'[queue[j]] >= prio'[queue[k]]
      BY DEF Sorted
    <2>1. queue[j] \in Pcb /\ queue[k] \in Pcb /\ queue[j] # p /\ queue[k] # p
      BY <1>3, <1>5
    <2>2. prio[queue[j]] >= prio[queue[k]]
      <3>1. prio[queue[j]] \in Int /\ prio[queue[k]] \in Int
        BY <1>1, <2>1 DEF TypeOK
      <3>2. Precedes(prio, arrival, queue[j], queue[k])
        BY DEF ServiceOrder, Before, Precedes
      <3> QED
        BY <3>1, <3>2 DEF Precedes
    <2> QED
      BY <1>3, <2>1, <2>2
  <1>8. PICK i \in 1..(Len(queue) + 1) :
          /\ queue' = Link(queue, i, p)
          /\ \A j \in 1..Len(queue) : /\ j < i => prio'[queue[j]] >= prio'[p]
                                      /\ j >= i => prio'[queue[j]] < prio'[p]
    BY <1>2, <1>3, <1>4, <1>7, InsertPosition
  <1>9. /\ queue' \in Seq(Pcb) /\ Len(queue') = Len(queue) + 1
        /\ Elems(queue') = Elems(queue) \cup {p} /\ Injective(queue')
    <2>1. /\ Link(queue, i, p) \in Seq(Pcb)
          /\ Len(Link(queue, i, p)) = Len(queue) + 1
          /\ Elems(Link(queue, i, p)) = Elems(queue) \cup {p}
          /\ Injective(queue) /\ p \notin Elems(queue) => Injective(Link(queue, i, p))
      <3>1. queue \in Seq(Pcb)
        BY <1>3
      <3> QED
        BY ONLY <3>1, p \in Pcb, i \in 1..(Len(queue) + 1), LinkFacts
    <2> QED
      BY <1>5, <1>8, <2>1
  <1>10. TypeOK'
    BY <1>1, <1>3, <1>9 DEF TypeOK
  <1>11. NothingLost'
    BY <1>1, <1>5, <1>9 DEF NothingLost, Injective
  <1>12. ServiceOrder'
    <2> SUFFICES ASSUME NEW j \in DOMAIN queue', NEW k \in DOMAIN queue', j < k
                 PROVE  Precedes(prio', arrival', queue'[j], queue'[k])
      BY DEF ServiceOrder, Before, Precedes
    <2>1. DOMAIN queue' = 1..(Len(queue) + 1)
      BY <1>9
    <2>2. \A m \in 1..(Len(queue) + 1) :
            \/ m < i /\ m \in 1..Len(queue) /\ queue'[m] = queue[m]
            \/ m = i /\ queue'[m] = p
            \/ m > i /\ m - 1 \in 1..Len(queue) /\ queue'[m] = queue[m - 1]
      BY <1>6, <1>8 DEF Link
    <2>3. \A x, y \in 1..Len(queue) : x < y =>
            Precedes(prio', arrival', queue[x], queue[y])
      <3> SUFFICES ASSUME NEW x \in 1..Len(queue), NEW y \in 1..Len(queue), x < y
                   PROVE  Precedes(prio', arrival', queue[x], queue[y])
        OBVIOUS
      <3>1. /\ queue[x] \in Pcb /\ queue[y] \in Pcb
            /\ queue[x] # p /\ queue[y] # p
        <4>1. x \in DOMAIN queue /\ y \in DOMAIN queue
          BY <1>6
        <4> QED
          BY <1>3, <1>5, <4>1
      <3>2. Precedes(prio, arrival, queue[x], queue[y])
        BY <1>6 DEF ServiceOrder, Before, Precedes
      <3>3. /\ prio'[queue[x]] = prio[queue[x]] /\ prio'[queue[y]] = prio[queue[y]]
            /\ arrival'[queue[x]] = arrival[queue[x]]
            /\ arrival'[queue[y]] = arrival[queue[y]]
        BY <1>3, <3>1
      <3> QED
        BY <3>2, <3>3 DEF Precedes
    <2>4. \A x \in 1..Len(queue) : x < i => Precedes(prio', arrival', queue[x], p)
      <3> SUFFICES ASSUME NEW x \in 1..Len(queue), x < i
                   PROVE  Precedes(prio', arrival', queue[x], p)
        OBVIOUS
      <3>1. /\ queue[x] \in Pcb /\ queue[x] # p /\ queue[x] \in waiting
        <4>1. x \in DOMAIN queue
          BY <1>6
        <4>2. queue[x] \in Pcb
          BY <1>3, <4>1
        <4> QED
          BY <1>5, <4>1, <4>2
      <3>2. arrival'[queue[x]] < clock
        <4>1. arrival[queue[x]] < clock
          BY <3>1 DEF ArrivedBefore
        <4> QED
          BY <1>3, <3>1, <4>1
      <3>3. prio'[queue[x]] >= prio'[p] /\ prio'[queue[x]] \in Int /\ prio'[p] \in Int
        BY <1>3, <1>8, <3>1
      <3>4. prio'[queue[x]] > prio'[p] \/ prio'[queue[x]] = prio'[p]
        BY <3>3
      <3> QED
        BY <1>3, <3>2, <3>4 DEF Precedes
    <2>5. \A x \in 1..Len(queue) : x >= i => Precedes(prio', arrival', p, queue[x])
      <3> SUFFICES ASSUME NEW x \in 1..Len(queue), x >= i
                   PROVE  Precedes(prio', arrival', p, queue[x])
        OBVIOUS
      <3>1. prio'[queue[x]] \in Int /\ prio'[p] \in Int
        BY <1>3, <1>6
      <3>2. prio'[queue[x]] < prio'[p]
        BY <1>8
      <3>3. prio'[p] > prio'[queue[x]]
        BY <3>1, <3>2
      <3> QED
        BY <3>3 DEF Precedes
    <2>6. i \in Int /\ j \in Int /\ k \in Int
      BY <2>1
    <2>7. CASE j < i /\ k < i
      BY <2>1, <2>2, <2>3, <2>6, <2>7
    <2>8. CASE j < i /\ k = i
      BY <2>1, <2>2, <2>4, <2>6, <2>8
    <2>9. CASE j < i /\ k > i
      <3>1. j \in 1..Len(queue) /\ queue'[j] = queue[j]
        BY <2>1, <2>2, <2>6, <2>9
      <3>2. k - 1 \in 1..Len(queue) /\ queue'[k] = queue[k - 1]
        BY <2>1, <2>2, <2>6, <2>9
      <3> QED
        BY <2>3, <2>6, <2>9, <3>1, <3>2
    <2>10. CASE j = i /\ k > i
      <3>1. k - 1 \in 1..Len(queue) /\ queue'[k] = queue[k - 1] /\ queue'[j] = p
        BY <2>1, <2>2, <2>6, <2>10
      <3> QED
        BY <2>5, <2>6, <2>10, <3>1
    <2>11. CASE j > i /\ k > i
      <3>1. j - 1 \in 1..Len(queue) /\ queue'[j] = queue[j - 1]
        BY <2>1, <2>2, <2>6, <2>11
      <3>2. k - 1 \in 1..Len(queue) /\ queue'[k] = queue[k - 1]
        BY <2>1, <2>2, <2>6, <2>11
      <3> QED
        BY <2>3, <2>6, <2>11, <3>1, <3>2
    <2> QED
      BY <2>6, <2>7, <2>8, <2>9, <2>10, <2>11
  <1>13. ArrivedBefore'
    BY <1>1, <1>3 DEF ArrivedBefore, TypeOK
  <1>14. PrioSafe'
    BY <1>3 DEF PrioSafe, SentinelSafe
  <1> QED
    BY <1>10, <1>11, <1>12, <1>13, <1>14

\* Both removals take one PCB out and leave the order of the others.
LEMMA UnlinkInv ==
  ASSUME QueueInv, NEW i \in 1..Len(queue), queue' = Unlink(queue, i),
         waiting' = waiting \ {queue[i]}, UNCHANGED <<prio, arrival, clock>>
  PROVE  QueueInv'
  <1> USE DEF QueueInv
  <1>1. /\ queue \in Seq(Pcb) /\ Len(queue) \in Nat /\ DOMAIN queue = 1..Len(queue)
        /\ Injective(queue) /\ Elems(queue) = waiting
    BY DEF TypeOK, NothingLost, Injective
  <1>2. /\ queue' \in Seq(Pcb) /\ Len(queue') = Len(queue) - 1
        /\ Elems(queue') = Elems(queue) \ {queue[i]} /\ Injective(queue')
    BY <1>1, UnlinkFacts
  <1>3. TypeOK' /\ NothingLost'
    BY <1>1, <1>2 DEF TypeOK, NothingLost, Injective
  <1>4. ServiceOrder'
    <2> SUFFICES ASSUME NEW j \in DOMAIN queue', NEW k \in DOMAIN queue', j < k
                 PROVE  Precedes(prio', arrival', queue'[j], queue'[k])
      BY DEF ServiceOrder, Before, Precedes
    <2>1. j \in 1..(Len(queue) - 1) /\ k \in 1..(Len(queue) - 1)
      BY <1>2
    <2> DEFINE at(m) == IF m < i THEN m ELSE m + 1
    <2>2. \A m \in 1..(Len(queue) - 1) : queue'[m] = queue[at(m)]
      BY <1>1 DEF Unlink
    <2>3. at(j) \in 1..Len(queue) /\ at(k) \in 1..Len(queue) /\ at(j) < at(k)
      BY <1>1, <2>1
    <2>4. Precedes(prio, arrival, queue[at(j)], queue[at(k)])
      BY <1>1, <2>3 DEF ServiceOrder, Before, Precedes
    <2>5. queue'[j] = queue[at(j)] /\ queue'[k] = queue[at(k)]
      BY <2>1, <2>2
    <2> HIDE DEF at
    <2> QED
      BY <2>4, <2>5
  <1>5. ArrivedBefore' /\ PrioSafe'
    BY DEF ArrivedBefore, PrioSafe
  <1> QED
    BY <1>3, <1>4, <1>5

LEMMA AgeInv == ASSUME QueueInv, Age PROVE QueueInv'
  <1> USE PrioAssumption, BoundAssumption DEF QueueInv
  <1>1. /\ queue \in Seq(Pcb) /\ prio \in [Pcb -> Int]
        /\ UNCHANGED <<queue, waiting, arrival, clock>>
        /\ \A p \in Elems(queue) : prio[p] < MaxPrio
        /\ \A p \in Elems(queue) : p \in Pcb /\ prio'[p] = prio[p] + 1
        /\ \A p \in Pcb : p \notin Elems(queue) => prio'[p] = prio[p]
        /\ prio' \in [Pcb -> Int]
    <2>1. queue \in Seq(Pcb) /\ prio \in [Pcb -> Int]
      BY DEF TypeOK
    <2>2. Elems(queue) \subseteq Pcb
      BY <2>1 DEF Elems
    <2> QED
      BY <2>1, <2>2 DEF Age
  <1>2. TypeOK' /\ NothingLost' /\ ArrivedBefore'
    BY <1>1 DEF TypeOK, NothingLost, ArrivedBefore
  <1>3. ServiceOrder'
    <2> SUFFICES ASSUME NEW j \in DOMAIN queue, NEW k \in DOMAIN queue, j < k
                 PROVE  Precedes(prio', arrival, queue[j], queue[k])
      BY <1>1 DEF ServiceOrder, Before, Precedes
    <2>1. queue[j] \in Elems(queue) /\ queue[k] \in Elems(queue)
      BY DEF Elems
    <2>2. Precedes(prio, arrival, queue[j], queue[k])
      BY DEF ServiceOrder, Before, Precedes
    <2>3. prio[queue[j]] \in Int /\ prio[queue[k]] \in Int
      BY <1>1, <2>1
    <2> QED
      BY <1>1, <2>1, <2>2, <2>3 DEF Precedes
  <1>4. PrioSafe'
    <2> SUFFICES ASSUME NEW p \in Pcb, NEW b \in Beyond
                 PROVE  b < prio'[p] \/ (b > prio'[p] /\ b > MaxPrio)
      BY DEF PrioSafe
    <2>1. b \in Int /\ prio[p] \in Int /\ MaxPrio \in Int
      BY <1>1
    <2>2. b < prio[p] \/ (b > prio[p] /\ b > MaxPrio)
      BY DEF PrioSafe
    <2>3. prio'[p] = prio[p] \/ (prio[p] < MaxPrio /\ prio'[p] = prio[p] + 1)
      BY <1>1
    <2> QED
      BY <2>1, <2>2, <2>3
  <1> QED
    BY <1>2, <1>3, <1>4

LEMMA NextInv == ASSUME SentinelSafe, QueueInv, [NextQueue]_queue_vars PROVE QueueInv'
  <1>1. ASSUME NEW p \in Pcb, NEW n \in Prio, Insert(p, n) PROVE QueueInv'
    BY <1>1, InsertInv
  <1>2. ASSUME NEW p \in Pcb, Out(p) PROVE QueueInv'
    <2>1. queue \in Seq(Pcb) /\ p \in Elems(queue)
      BY <1>2 DEF Out, QueueInv, TypeOK, NothingLost
    <2>2. PICK i \in 1..Len(queue) :
            queue[i] = p /\ outProcQ(queue, p) = Unlink(queue, i)
      BY <2>1, OutUnlinks
    <2> QED
      BY <1>2, <2>2, UnlinkInv DEF Out
  <1>3. CASE Remove
    <2>1. /\ 1 \in 1..Len(queue) /\ headProcQ(queue) = queue[1]
          /\ removeProcQ(queue) = Unlink(queue, 1)
      BY <1>3, RemoveUnlinks DEF Remove, QueueInv, TypeOK
    <2> QED
      BY <1>3, <2>1, UnlinkInv DEF Remove
  <1>4. CASE Age
    BY <1>4, AgeInv
  <1>5. CASE UNCHANGED queue_vars
    BY <1>5 DEF queue_vars, QueueInv, TypeOK, NothingLost, ServiceOrder, Before,
                ArrivedBefore, PrioSafe
  <1> QED
    BY <1>1, <1>2, <1>3, <1>4, <1>5 DEF NextQueue

\* pcb.c: a queue holds exactly the PCBs inserted and not removed, each once.
THEOREM QueueLosesNobody == ASSUME SentinelSafe PROVE QueueSpec => []NothingLost
  <1>1. InitQueue => QueueInv
    BY QueueInitInv
  <1>2. QueueInv /\ [NextQueue]_queue_vars => QueueInv'
    BY NextInv
  <1>3. QueueInv => NothingLost
    BY DEF QueueInv
  <1> QED
    BY <1>1, <1>2, <1>3, PTL DEF QueueSpec

\* pcb.c:122-124: highest priority first, first come first served within one.
THEOREM QueueServesInOrder == ASSUME SentinelSafe PROVE QueueSpec => []ServiceOrder
  <1>1. InitQueue => QueueInv
    BY QueueInitInv
  <1>2. QueueInv /\ [NextQueue]_queue_vars => QueueInv'
    BY NextInv
  <1>3. QueueInv => ServiceOrder
    BY DEF QueueInv
  <1> QED
    BY <1>1, <1>2, <1>3, PTL DEF QueueSpec

\* Whatever is found past the sentinel, the queue stays a sequence of PCBs.
LEMMA InsertType ==
  ASSUME NEW S, NEW q \in Seq(S), NEW p \in S, NEW pr, NEW b
  PROVE  insertProcQ(q, p, pr, b) \in Seq(S)
  <1> DEFINE breaks == BreakAt(q, p, pr, b)
             i == CHOOSE k \in breaks : \A c \in breaks : k <= c
  <1>1. breaks \in SUBSET (1..Len(q)) /\ Len(q) \in Nat /\ DOMAIN q = 1..Len(q)
    BY DEF BreakAt
  <1>2. insertProcQ(q, p, pr, b) =
          IF q = <<>> THEN <<p>>
          ELSE IF breaks = {} THEN q
          ELSE Link(q, IF pr[q[i]] < pr[p] THEN i ELSE i + 1, p)
    BY DEF insertProcQ
  <1> HIDE DEF breaks
  <1>3. ASSUME breaks # {} PROVE i \in breaks
    <2>1. breaks \in SUBSET Nat
      BY <1>1
    <2>2. \E k \in breaks : \A c \in breaks : k <= c
      BY <1>3, <2>1, LeastPosition
    <2> QED
      BY <2>2
  <1> HIDE DEF i
  <1>4. CASE q = <<>> \/ breaks = {}
    BY <1>2, <1>4
  <1>5. CASE q # <<>> /\ breaks # {}
    <2>1. i \in 1..Len(q)
      BY <1>1, <1>3, <1>5
    <2>2. i \in 1..(Len(q) + 1) /\ i + 1 \in 1..(Len(q) + 1)
      BY <1>1, <2>1
    <2> QED
      BY <1>2, <1>5, <2>2, LinkFacts
  <1> QED
    BY <1>4, <1>5

\* Every variable keeps its type, also where the queue loses somebody.
THEOREM QueueType == QueueSpec => []TypeOK
  <1>1. InitQueue => TypeOK
    <2> SUFFICES ASSUME InitQueue PROVE TypeOK
      OBVIOUS
    <2>1. prio \in [Pcb -> Int] /\ arrival \in [Pcb -> Nat]
      BY PrioAssumption DEF InitQueue
    <2> QED
      BY <2>1 DEF InitQueue, TypeOK
  <1>2. ASSUME TypeOK, [NextQueue]_queue_vars PROVE TypeOK'
    <2>1. ASSUME NEW p \in Pcb, NEW n \in Prio, Insert(p, n) PROVE TypeOK'
      <3>1. queue' \in Seq(Pcb)
        BY <1>2, <2>1, InsertType DEF TypeOK, Insert
      <3>2. n \in Int
        BY PrioAssumption
      <3> QED
        BY <1>2, <2>1, <3>1, <3>2 DEF TypeOK, Insert
    <2>2. CASE Remove
      <3>1. queue' \in Seq(Pcb)
        BY <1>2, <2>2, RemoveUnlinks, UnlinkFacts DEF TypeOK, Remove
      <3> QED
        BY <1>2, <2>2, <3>1 DEF TypeOK, Remove
    <2>3. ASSUME NEW p \in Pcb, Out(p) PROVE TypeOK'
      <3>1. outProcQ(queue, p) \in Seq(Pcb)
        <4>1. queue \in Seq(Pcb)
          BY <1>2 DEF TypeOK
        <4>2. CASE p \in Elems(queue)
          <5>1. PICK i \in 1..Len(queue) : outProcQ(queue, p) = Unlink(queue, i)
            BY <4>1, <4>2, OutUnlinks
          <5> QED
            BY <4>1, <5>1, UnlinkFacts
        <4>3. CASE p \notin Elems(queue)
          BY <4>1, <4>3 DEF outProcQ
        <4> QED
          BY <4>2, <4>3
      <3> QED
        BY <1>2, <2>3, <3>1 DEF TypeOK, Out
    <2>4. CASE Age
      BY <1>2, <2>4 DEF TypeOK, Age
    <2>5. CASE UNCHANGED queue_vars
      BY <1>2, <2>5 DEF TypeOK, queue_vars
    <2> QED
      BY <1>2, <2>1, <2>2, <2>3, <2>4, <2>5 DEF NextQueue
  <1> QED
    BY <1>1, <1>2, PTL DEF QueueSpec

----------------------------------------------------------------------------
(* The timer. *)

Slice == SCHED_TIME_SLICE * TIME_SCALE

\* Division with remainder, for any divisor.
LEMMA DivMod ==
  ASSUME NEW a \in Nat, NEW b \in Nat, b > 0
  PROVE  /\ a \div b \in Nat /\ a % b \in 0..b - 1
         /\ a = (a \div b) * b + (a % b)
  OBVIOUS

LEMMA DivUnique ==
  ASSUME NEW a \in Nat, NEW b \in Nat, b > 0,
         NEW q \in Nat, NEW r \in 0..b - 1, a = q * b + r
  PROVE  a \div b = q /\ a % b = r
  OBVIOUS

LEMMA Multiples ==
  ASSUME NEW a \in Int, NEW b \in Int, NEW c \in Nat, a <= b
  PROVE  a * c <= b * c
  <1>1. (b - a) * c >= 0
    OBVIOUS
  <1>2. (b - a) * c = b * c - a * c
    OBVIOUS
  <1>3. a * c \in Int /\ b * c \in Int
    OBVIOUS
  <1> QED
    BY <1>1, <1>2, <1>3

\* A slice and a microsecond fit in a period.
LEMMA Sizes ==
  /\ TIME_SCALE \in Nat /\ TIME_SCALE >= 1
  /\ SCHED_PSEUDO_CLOCK \in Nat /\ SCHED_PSEUDO_CLOCK > 0
  /\ SCHED_TIME_SLICE \in Nat
  /\ Slice \in Nat /\ Slice > 0
  /\ Period \in Nat /\ Slice + TIME_SCALE <= Period
  /\ LO \in Nat /\ Period < LO
  /\ TIME_SCALE <= LO % Period /\ LO % Period < Period - Slice
  <1>1. /\ TIME_SCALE \in Nat /\ TIME_SCALE >= 1
        /\ SCHED_PSEUDO_CLOCK \in Nat /\ SCHED_PSEUDO_CLOCK > 0
        /\ SCHED_TIME_SLICE \in Nat /\ 1 <= SCHED_TIME_SLICE
        /\ SCHED_TIME_SLICE + 1 <= SCHED_PSEUDO_CLOCK
    BY TimeAssumption
  <1>2. /\ Slice \in Nat /\ Period \in Nat
        /\ (SCHED_TIME_SLICE + 1) * TIME_SCALE = Slice + TIME_SCALE
        /\ 1 * TIME_SCALE = TIME_SCALE
    BY <1>1 DEF Slice, Period
  <1>3. Slice + TIME_SCALE <= Period
    BY <1>1, <1>2, Multiples DEF Period
  <1>4. Slice > 0
    <2>1. 1 * TIME_SCALE <= Slice
      BY <1>1, Multiples DEF Slice
    <2> QED
      BY <1>1, <1>2, <2>1
  <1> QED
    BY <1>1, <1>2, <1>3, <1>4, WrapAssumption DEF Slice

\* Where t is in its period, and how long that period is.
LEMMA UntilFacts ==
  ASSUME NEW t \in 0..LO - 1
  PROVE  /\ t \div Period \in Nat /\ LO \div Period \in Nat
         /\ t % Period \in 0..Period - 1 /\ LO % Period \in 0..Period - 1
         /\ t = (t \div Period) * Period + (t % Period)
         /\ LO = (LO \div Period) * Period + (LO % Period)
         /\ t \div Period <= LO \div Period
         /\ t \div Period < LO \div Period => UntilTick(t) = Period - (t % Period)
         /\ t \div Period = LO \div Period =>
              /\ t % Period < LO % Period
              /\ UntilTick(t) = (LO % Period) - (t % Period) + Period
  <1> DEFINE q == t \div Period
             r == t % Period
             n == LO \div Period
             e == LO % Period
  <1>1. t \in Nat /\ t < LO /\ LO \in Nat /\ Period \in Nat /\ Period > 0 /\ e >= 1
    BY Sizes
  <1>2. /\ q \in Nat /\ r \in 0..Period - 1 /\ t = q * Period + r
        /\ n \in Nat /\ e \in 0..Period - 1 /\ LO = n * Period + e
    BY <1>1, DivMod
  <1>3. UntilTick(t) = IF (q + 1) * Period < LO THEN (q + 1) * Period - t ELSE LO - t + Period
    BY DEF UntilTick
  <1> HIDE DEF q, r, n, e
  <1>4. /\ q * Period \in Nat /\ n * Period \in Nat
        /\ (q + 1) * Period = q * Period + Period /\ (n + 1) * Period = n * Period + Period
    BY <1>1, <1>2
  <1>5. q <= n
    <2> SUFFICES ASSUME n + 1 <= q PROVE FALSE
      BY <1>2
    <2>1. (n + 1) * Period <= q * Period
      BY <1>1, <1>2, Multiples
    <2> QED
      BY <1>1, <1>2, <1>4, <2>1
  <1>6. CASE q < n
    <2>1. (q + 1) * Period <= n * Period
      BY <1>1, <1>2, <1>6, Multiples
    <2>2. UntilTick(t) = Period - r
      BY <1>1, <1>2, <1>3, <1>4, <2>1
    <2> QED
      BY <1>2, <1>5, <1>6, <2>2 DEF q, r, n, e
  <1>7. CASE q = n
    <2>1. r < e
      BY <1>1, <1>2, <1>4, <1>7
    <2>2. UntilTick(t) = e - r + Period
      BY <1>1, <1>2, <1>3, <1>4, <1>7
    <2> QED
      BY <1>2, <1>5, <1>7, <2>1, <2>2 DEF q, r, n, e
  <1> QED
    BY <1>2, <1>5, <1>6, <1>7

\* What one tick of the time of day changes.
LEMMA UntilStep ==
  ASSUME NEW t \in 0..LO - 1
  PROVE  /\ (t + 1) % LO \in 0..LO - 1
         /\ UntilTick(t) \in Nat /\ UntilTick(t) >= 1
         /\ UntilTick((t + 1) % LO) \in Nat /\ UntilTick((t + 1) % LO) >= 1
         /\ UntilTick(t) > 1 => UntilTick((t + 1) % LO) = UntilTick(t) - 1
         /\ UntilTick(t) = 1 => ((t + 1) % LO) % Period = 0
         /\ (t % Period) + 1 < TIME_SCALE => ((t + 1) % LO) % Period = (t % Period) + 1
  <1> DEFINE u == (t + 1) % LO
             q == t \div Period
             r == t % Period
             n == LO \div Period
             e == LO % Period
  <1>1. /\ t \in Nat /\ t < LO /\ LO \in Nat /\ LO > 0 /\ Period \in Nat /\ Period > 0
        /\ TIME_SCALE <= e /\ e < Period /\ TIME_SCALE \in Nat /\ TIME_SCALE >= 1
    BY Sizes
  <1>2. /\ q \in Nat /\ r \in 0..Period - 1 /\ t = q * Period + r
        /\ n \in Nat /\ e \in 0..Period - 1 /\ LO = n * Period + e
        /\ q <= n
        /\ q < n => UntilTick(t) = Period - r
        /\ q = n => r < e /\ UntilTick(t) = e - r + Period
    BY UntilFacts
  <1>3. u = IF t + 1 = LO THEN 0 ELSE t + 1
    <2>1. CASE t + 1 = LO
      BY <1>1, <2>1, DivUnique
    <2>2. CASE t + 1 # LO
      <3>1. t + 1 \in 0..LO - 1 /\ t + 1 = 0 * LO + (t + 1)
        BY <1>1, <2>2
      <3> QED
        BY <1>1, <2>2, <3>1, DivUnique
    <2> QED
      BY <2>1, <2>2
  <1>4. u \in 0..LO - 1
    BY <1>1, <1>3
  <1>5. ASSUME NEW k \in Nat, NEW s \in 0..Period - 1, u = k * Period + s
        PROVE  /\ u % Period = s
               /\ k < n => UntilTick(u) = Period - s
               /\ k = n => UntilTick(u) = e - s + Period
    <2>1. u \div Period = k /\ u % Period = s
      BY <1>1, <1>4, <1>5, DivUnique
    <2> HIDE DEF u
    <2> QED
      BY <1>4, <2>1, UntilFacts
  <1> HIDE DEF u, q, r, n, e
  <1>6. UntilTick(t) \in Nat /\ UntilTick(t) >= 1
    BY <1>1, <1>2
  <1>7. CASE t + 1 = LO
    <2>1. q = n
      <3> SUFFICES ASSUME q + 1 <= n PROVE FALSE
        BY <1>2
      <3>1. (q + 1) * Period <= n * Period /\ (q + 1) * Period = q * Period + Period
        BY <1>1, <1>2, Multiples
      <3>2. q * Period \in Nat /\ n * Period \in Nat
        BY <1>1, <1>2
      <3> QED
        BY <1>1, <1>2, <1>7, <3>1, <3>2
    <2>2. r = e - 1
      BY <1>1, <1>2, <1>7, <2>1
    <2>3. n # 0
      BY <1>1, <1>2, Sizes
    <2>4. u = 0 * Period + 0 /\ 0 \in 0..Period - 1 /\ 0 < n
      BY <1>1, <1>2, <1>3, <1>7, <2>3
    <2>5. u % Period = 0 /\ UntilTick(u) = Period
      BY <1>1, <1>5, <2>4
    <2> QED
      BY <1>1, <1>2, <1>4, <1>6, <2>1, <2>2, <2>5 DEF u, r
  <1>8. CASE t + 1 # LO /\ r + 1 < Period
    <2>1. u = q * Period + (r + 1) /\ r + 1 \in 0..Period - 1
      BY <1>1, <1>2, <1>3, <1>8
    <2>2. /\ u % Period = r + 1
          /\ q < n => UntilTick(u) = Period - (r + 1)
          /\ q = n => UntilTick(u) = e - (r + 1) + Period
      BY <1>2, <1>5, <2>1
    <2> QED
      BY <1>1, <1>2, <1>4, <1>6, <1>8, <2>2 DEF u, r
  <1>9. CASE t + 1 # LO /\ r + 1 = Period
    <2>1. q < n
      BY <1>1, <1>2, <1>9
    <2>2. u = (q + 1) * Period + 0 /\ 0 \in 0..Period - 1 /\ q + 1 \in Nat /\ q + 1 <= n
      BY <1>1, <1>2, <1>3, <1>9, <2>1
    <2>3. /\ u % Period = 0
          /\ q + 1 < n => UntilTick(u) = Period
          /\ q + 1 = n => UntilTick(u) = e + Period
      BY <1>1, <1>2, <1>5, <2>2
    <2> QED
      BY <1>1, <1>2, <1>4, <1>6, <1>9, <2>1, <2>2, <2>3 DEF u, r
  <1> QED
    BY <1>1, <1>2, <1>7, <1>8, <1>9

\* What set_timer computes, against the ticks that are left.
LEMMA RemainingFacts ==
  ASSUME NEW t \in 0..LO - 1,
         NEW m, m = (t \div TIME_SCALE) % SCHED_PSEUDO_CLOCK,
         NEW rem, rem = SCHED_PSEUDO_CLOCK - m
  PROVE  /\ rem \in Nat
         /\ rem <= SCHED_TIME_SLICE =>
              /\ rem * TIME_SCALE \in 0..Slice
              /\ rem * TIME_SCALE - UntilTick(t) \in 0..TIME_SCALE - 1
         /\ rem > SCHED_TIME_SLICE => Slice < UntilTick(t)
         /\ t % Period < TIME_SCALE => m = 0
  <1> DEFINE a == t \div TIME_SCALE
             v == t % TIME_SCALE
             k == a \div SCHED_PSEUDO_CLOCK
             q == t \div Period
             r == t % Period
             n == LO \div Period
             e == LO % Period
  <1>1. /\ t \in Nat /\ t < LO /\ LO \in Nat /\ Period \in Nat /\ Period > 0
        /\ Slice \in Nat /\ Slice + TIME_SCALE <= Period
        /\ TIME_SCALE <= e /\ e < Period - Slice /\ TIME_SCALE \in Nat /\ TIME_SCALE >= 1
        /\ SCHED_PSEUDO_CLOCK \in Nat /\ SCHED_PSEUDO_CLOCK > 0 /\ SCHED_TIME_SLICE \in Nat
    BY Sizes
  <1>2. /\ a \in Nat /\ v \in 0..TIME_SCALE - 1 /\ t = a * TIME_SCALE + v
    BY <1>1, DivMod
  <1>3. k \in Nat /\ m \in 0..SCHED_PSEUDO_CLOCK - 1 /\ a = k * SCHED_PSEUDO_CLOCK + m
    <2> HIDE DEF a
    <2> QED
      BY <1>1, <1>2, DivMod DEF a
  <1>4. /\ r \in 0..Period - 1 /\ q <= n /\ q \in Nat /\ n \in Nat /\ e \in Nat
        /\ q < n => UntilTick(t) = Period - r
        /\ q = n => r < e /\ UntilTick(t) = e - r + Period
    BY UntilFacts
  <1>5. ASSUME NEW j \in Nat, NEW s \in 0..Period - 1, t = j * Period + s
        PROVE  r = s
    BY <1>1, <1>5, DivUnique
  <1> HIDE DEF a, v, k, q, r, n, e
  <1>6. /\ m * TIME_SCALE \in Nat /\ (m + 1) * TIME_SCALE = m * TIME_SCALE + TIME_SCALE
        /\ rem * TIME_SCALE = Period - m * TIME_SCALE
        /\ (SCHED_TIME_SLICE + 1) * TIME_SCALE = Slice + TIME_SCALE
        /\ rem \in Nat
    BY <1>1, <1>3 DEF Period, Slice
  <1>7. m * TIME_SCALE + v \in 0..Period - 1
    <2>1. (m + 1) * TIME_SCALE <= SCHED_PSEUDO_CLOCK * TIME_SCALE
      BY <1>1, <1>3, Multiples
    <2> QED
      BY <1>1, <1>2, <1>6, <2>1 DEF Period
  <1>8. r = m * TIME_SCALE + v
    <2>1. a * TIME_SCALE = k * Period + m * TIME_SCALE
      BY <1>1, <1>2, <1>3 DEF Period
    <2>2. k * Period \in Nat
      BY <1>1, <1>3
    <2> QED
      BY <1>2, <1>3, <1>5, <1>6, <1>7, <2>1, <2>2
  <1>9. rem * TIME_SCALE = Period - r + v
    BY <1>1, <1>2, <1>6, <1>8
  <1>10. ASSUME rem <= SCHED_TIME_SLICE
         PROVE  /\ rem * TIME_SCALE \in 0..Slice
                /\ rem * TIME_SCALE - UntilTick(t) \in 0..TIME_SCALE - 1
    <2>1. rem * TIME_SCALE <= Slice
      BY <1>1, <1>6, <1>10, Multiples DEF Slice
    <2>2. q # n
      BY <1>1, <1>2, <1>4, <1>9, <2>1
    <2> QED
      BY <1>1, <1>2, <1>4, <1>9, <2>1, <2>2
  <1>11. ASSUME rem > SCHED_TIME_SLICE
         PROVE  Slice < UntilTick(t)
    <2>1. Slice + TIME_SCALE <= rem * TIME_SCALE
      BY <1>1, <1>6, <1>11, Multiples
    <2> QED
      BY <1>1, <1>2, <1>4, <1>9, <2>1
  <1>12. ASSUME r < TIME_SCALE PROVE m = 0
    <2> SUFFICES ASSUME 1 <= m PROVE FALSE
      BY <1>3
    <2>1. 1 * TIME_SCALE <= m * TIME_SCALE
      BY <1>1, <1>3, Multiples
    <2> QED
      BY <1>1, <1>2, <1>6, <1>8, <1>12, <2>1
  <1> QED
    BY <1>6, <1>10, <1>11, <1>12 DEF r

----------------------------------------------------------------------------
(* The inductive invariant. *)

OneRunning == \A p, q \in Proc : Runs(p) /\ Runs(q) => p = q

\* As long as somebody waits who has not seen a tick go by, the timer does not
\* stand for one that has.
TickAhead ==
  timer_cause = "PSEUDOCLOCK" /\ timer < UntilTick(lo)
    => Now("clock") \subseteq due \cup TimerMasked

ClockInv == ClockTypeOK /\ TimerGuardsTick /\ OneRunning /\ TickAhead

\* The timer part of the invariant, as set_timer leaves it.
TimerSet(tm, cause) ==
  \/ cause = "PSEUDOCLOCK" /\ tm \in 0..Slice /\ tm - UntilTick(lo) \in 0..TIME_SCALE - 1
  \/ cause = "TIMESLICE" /\ tm \in 0..Slice /\ tm < UntilTick(lo)

\* Before a slice ends the tick that is left is within the timer's reach, or the
\* slice ends before it.
LEMMA TimerIsSet ==
  ASSUME lo \in 0..LO - 1, NEW tm, NEW cause,
         IF pseudoclock_remainingTime <= SCHED_TIME_SLICE
         THEN cause = "PSEUDOCLOCK" /\ tm = pseudoclock_remainingTime * TIME_SCALE
         ELSE cause = "TIMESLICE" /\ tm = Slice
  PROVE  TimerSet(tm, cause)
  <1> DEFINE m == (lo \div TIME_SCALE) % SCHED_PSEUDO_CLOCK
             rem == SCHED_PSEUDO_CLOCK - m
  <1>1. /\ rem \in Nat
        /\ rem <= SCHED_TIME_SLICE =>
             /\ rem * TIME_SCALE \in 0..Slice
             /\ rem * TIME_SCALE - UntilTick(lo) \in 0..TIME_SCALE - 1
        /\ rem > SCHED_TIME_SLICE => Slice < UntilTick(lo)
    <2> HIDE DEF m
    <2> QED
      BY RemainingFacts DEF m
  <1>2. pseudoclock_remainingTime = rem
    BY DEF pseudoclock_remainingTime
  <1> HIDE DEF rem
  <1>3. CASE rem <= SCHED_TIME_SLICE
    BY <1>1, <1>2, <1>3 DEF TimerSet
  <1>4. CASE ~(rem <= SCHED_TIME_SLICE)
    <2>1. rem > SCHED_TIME_SLICE /\ Slice \in 0..Slice
      BY <1>1, <1>4, Sizes
    <2> QED
      BY <1>1, <1>2, <1>4, <2>1 DEF TimerSet
  <1> QED
    BY <1>3, <1>4

\* Whoever sets the timer keeps what the invariant says of it.
LEMMA SetTimerKeeps ==
  ASSUME lo \in 0..LO - 1, set_timer, UNCHANGED lo
  PROVE  /\ timer' \in 0..Slice /\ timer_cause' \in {"TIMESLICE", "PSEUDOCLOCK"}
         /\ TimerGuardsTick' /\ TickAhead'
  <1>1. TimerSet(timer', timer_cause')
    BY TimerIsSet DEF set_timer, Slice
  <1>2. UntilTick(lo)' = UntilTick(lo) /\ lo' = lo
    BY DEF UntilTick
  <1>3. UntilTick(lo) \in Nat
    BY UntilStep
  <1> HIDE DEF UntilTick
  <1>4. CASE /\ timer_cause' = "PSEUDOCLOCK" /\ timer' \in 0..Slice
             /\ timer' - UntilTick(lo) \in 0..TIME_SCALE - 1
    <2>1. timer' \in Nat /\ TIME_SCALE \in Nat
      BY <1>4, Sizes
    <2>2. ~(timer' < UntilTick(lo))
      BY <1>3, <1>4, <2>1
    <2> QED
      BY <1>2, <1>4, <2>2 DEF TimerGuardsTick, TickAhead
  <1>5. CASE /\ timer_cause' = "TIMESLICE" /\ timer' \in 0..Slice
             /\ timer' < UntilTick(lo)
    BY <1>2, <1>5 DEF TimerGuardsTick, TickAhead
  <1> QED
    BY <1>1, <1>4, <1>5 DEF TimerSet

\* Nor does it matter to the timer who is where, as long as nobody begins to wait.
LEMMA TimerAlone ==
  ASSUME ClockTypeOK, TimerGuardsTick, TickAhead, UNCHANGED <<lo, timer, timer_cause>>
  PROVE  /\ TimerGuardsTick'
         /\ Now("clock")' \subseteq Now("clock") /\ due \subseteq due' => TickAhead'
  BY DEF TimerGuardsTick, TickAhead, UntilTick

LEMMA ClockInitInv == Init => ClockInv
  <1> SUFFICES ASSUME Init PROVE ClockInv
    OBVIOUS
  <1>1. lo \in 0..LO - 1
    BY DEF Init
  <1>2. TimerSet(timer, timer_cause)
    BY <1>1, TimerIsSet DEF Init, Slice
  <1>3. ClockTypeOK
    BY <1>1, <1>2, ProcAssumption DEF Init, ClockTypeOK, TimerSet, Slice, Place, CpuState
  <1>4. TimerGuardsTick
    BY <1>2 DEF TimerGuardsTick, TimerSet
  <1>5. OneRunning /\ TickAhead
    BY DEF Init, OneRunning, Runs, TickAhead, Now
  <1> QED
    BY <1>3, <1>4, <1>5 DEF ClockInv

\* A tick of the time of day.
LEMMA ElapseInv == ASSUME ClockInv, Elapse PROVE ClockInv'
  <1>1. /\ lo \in 0..LO - 1 /\ timer \in 0..Slice /\ TIME_SCALE \in Nat
        /\ TIME_SCALE >= 1 /\ Slice \in Nat
    BY Sizes DEF ClockInv, ClockTypeOK, Slice
  <1>2. /\ lo' = (lo + 1) % LO
        /\ timer' = IF timer > 0 THEN timer - 1 ELSE 0
        /\ UNCHANGED <<timer_cause, where, stuck, cpu>>
        /\ due' = IF UntilTick(lo) = 1 THEN due \cup Now("clock") ELSE due
    BY DEF Elapse
  <1>3. /\ lo' \in 0..LO - 1 /\ UntilTick(lo) \in Nat /\ UntilTick(lo) >= 1
        /\ UntilTick(lo)' \in Nat /\ UntilTick(lo)' >= 1
        /\ UntilTick(lo) > 1 => UntilTick(lo)' = UntilTick(lo) - 1
        /\ UntilTick(lo) = 1 => (lo % Period)' = 0
        /\ (lo % Period) + 1 < TIME_SCALE => (lo % Period)' = (lo % Period) + 1
    <2>1. UntilTick(lo)' = UntilTick(lo') /\ (lo % Period)' = lo' % Period
      BY DEF UntilTick, Period
    <2> QED
      BY <1>1, <1>2, <2>1, UntilStep
  <1>4. lo % Period \in Nat
    BY <1>1, Sizes, DivMod
  <1>5. timer' \in 0..Slice
    BY <1>1, <1>2
  <1>6. ClockTypeOK'
    BY <1>2, <1>3, <1>5 DEF ClockInv, ClockTypeOK, Slice, Now
  <1> DEFINE u == UntilTick(lo)
             r == lo % Period
  <1>7. TimerGuardsTick <=>
          IF timer_cause = "TIMESLICE" THEN timer < u
          ELSE timer - u \in 0..TIME_SCALE - 1 \/ timer = 0 \/ r + timer < TIME_SCALE
    BY DEF TimerGuardsTick
  <1>8. TimerGuardsTick' <=>
          IF timer_cause = "TIMESLICE" THEN timer' < u'
          ELSE timer' - u' \in 0..TIME_SCALE - 1 \/ timer' = 0 \/ r' + timer' < TIME_SCALE
    BY <1>2 DEF TimerGuardsTick
  <1>9. TimerGuardsTick
    BY DEF ClockInv
  <1> HIDE DEF u, r
  <1>10. /\ u \in Nat /\ u >= 1 /\ u' \in Nat /\ u' >= 1 /\ r \in Nat
         /\ u > 1 => u' = u - 1
         /\ u = 1 => r' = 0
         /\ r + 1 < TIME_SCALE => r' = r + 1
    BY <1>3, <1>4 DEF u, r
  <1>11. TimerGuardsTick'
    <2>1. CASE timer_cause = "TIMESLICE"
      BY <1>1, <1>2, <1>7, <1>8, <1>9, <1>10, <2>1
    <2>2. CASE timer_cause # "TIMESLICE" /\ timer - u \in 0..TIME_SCALE - 1
      <3>1. CASE u > 1
        BY <1>1, <1>2, <1>8, <1>10, <2>2, <3>1
      <3>2. CASE u = 1
        <4>1. timer >= 1 /\ timer <= TIME_SCALE /\ timer' = timer - 1 /\ r' = 0
          BY <1>1, <1>2, <1>10, <2>2, <3>2
        <4>2. r' + timer' < TIME_SCALE
          BY <1>1, <4>1
        <4> QED
          BY <1>8, <2>2, <4>2
      <3> QED
        BY <1>10, <3>1, <3>2
    <2>3. CASE timer_cause # "TIMESLICE" /\ timer = 0
      BY <1>2, <1>8, <2>3
    <2>4. CASE timer_cause # "TIMESLICE" /\ timer # 0 /\ r + timer < TIME_SCALE
      <3>1. timer' = timer - 1
        BY <1>1, <1>2, <2>4
      <3>2. CASE timer = 1
        BY <1>8, <2>4, <3>1, <3>2
      <3>3. CASE timer # 1
        <4>1. r + 1 < TIME_SCALE
          BY <1>1, <1>10, <2>4, <3>3
        <4>2. r' + timer' < TIME_SCALE
          BY <1>1, <1>10, <2>4, <3>1, <4>1
        <4> QED
          BY <1>8, <2>4, <4>2
      <3> QED
        BY <3>2, <3>3
    <2> QED
      BY <1>7, <1>9, <2>1, <2>2, <2>3, <2>4
  <1>12. OneRunning'
    BY <1>2 DEF ClockInv, OneRunning, Runs
  <1>13. TickAhead'
    <2>1. SUFFICES ASSUME timer_cause = "PSEUDOCLOCK", timer' < u'
                   PROVE  Now("clock") \subseteq due' \cup TimerMasked
      BY <1>2 DEF TickAhead, Now, u
    <2>2. CASE u = 1
      BY <1>2, <2>2 DEF u
    <2>3. CASE u # 1
      <3>1. timer < u
        BY <1>1, <1>2, <1>10, <2>1, <2>3
      <3> QED
        BY <1>2, <2>1, <2>3, <3>1 DEF ClockInv, TickAhead, u
    <2> QED
      BY <2>2, <2>3
  <1> QED
    BY <1>6, <1>11, <1>12, <1>13 DEF ClockInv

\* A call or trap: the process it moves, p, is the running one or becomes ready
\* or ends, and nobody else moves.
LEMMA ExceptionInv ==
  ASSUME ClockInv, NEW p \in Proc, NEW place \in Place, Exception(p, place),
         place = "running" => Runs(p), stuck' \subseteq Proc, due' \subseteq Proc,
         place # "clock" => due' = due,
         place = "clock" =>
           /\ Runs(p)
           /\ due' = IF (lo \div TIME_SCALE) % SCHED_PSEUDO_CLOCK = 0
                     THEN due \cup {p} ELSE due \ {p}
  PROVE  ClockInv'
  <1>1. /\ cpu = "user" /\ cpu' = "sys"
        /\ TimerEnabled => timer > 0
        /\ where' = [where EXCEPT ![p] = place]
        /\ UNCHANGED <<lo, timer, timer_cause>>
    BY DEF Exception
  <1>2. where \in [Proc -> Place]
    BY DEF ClockInv, ClockTypeOK
  <1>3. ClockTypeOK'
    BY <1>1, <1>2 DEF ClockInv, ClockTypeOK, CpuState
  <1>4. TimerGuardsTick'
    BY <1>1, TimerAlone DEF ClockInv
  <1>5. OneRunning'
    BY <1>1, <1>2 DEF ClockInv, OneRunning, Runs
  <1>6. TickAhead'
    <2>1. CASE place # "clock"
      <3>1. Now("clock")' \subseteq Now("clock") /\ due \subseteq due'
        BY <1>1, <1>2, <2>1 DEF Now
      <3> QED
        BY <1>1, <3>1, TimerAlone DEF ClockInv
    <2>2. CASE place = "clock"
      <3>1. SUFFICES ASSUME timer_cause = "PSEUDOCLOCK", timer < UntilTick(lo)
                     PROVE  Now("clock")' \subseteq due' \cup TimerMasked
        BY <1>1 DEF TickAhead, UntilTick
      <3>2. Now("clock")' \subseteq Now("clock") \cup {p}
        BY <1>1, <1>2 DEF Now
      <3>3. Now("clock") \subseteq due \cup TimerMasked
        BY <3>1 DEF ClockInv, TickAhead
      <3>4. CASE p \in TimerMasked
        BY <2>2, <3>2, <3>3, <3>4
      <3>5. CASE p \notin TimerMasked
        <4>1. TimerEnabled
          BY <1>1, <2>2, <3>5 DEF ClockInv, OneRunning, TimerEnabled, Now, Runs
        <4>2. /\ timer > 0 /\ timer \in Nat /\ lo \in 0..LO - 1
              /\ TIME_SCALE \in Nat /\ UntilTick(lo) \in Nat /\ lo % Period \in Nat
          <5>1. timer > 0 /\ timer \in 0..Slice /\ lo \in 0..LO - 1
            BY <1>1, <4>1 DEF ClockInv, ClockTypeOK, Slice
          <5>2. lo \in Nat /\ timer \in Nat /\ UntilTick(lo) \in Nat
            BY <5>1, UntilStep, Sizes
          <5> QED
            BY <5>1, <5>2, Sizes, DivMod
        <4>3. (lo % Period) + timer < TIME_SCALE
          <5> HIDE DEF UntilTick, Period
          <5>1. \/ timer - UntilTick(lo) \in 0..TIME_SCALE - 1
                \/ timer = 0
                \/ (lo % Period) + timer < TIME_SCALE
            BY <3>1 DEF ClockInv, TimerGuardsTick
          <5> QED
            BY <3>1, <4>2, <5>1
        <4>4. lo % Period < TIME_SCALE
          BY <4>2, <4>3
        <4>5. (lo \div TIME_SCALE) % SCHED_PSEUDO_CLOCK = 0
          BY <4>2, <4>4, RemainingFacts
        <4> QED
          BY <2>2, <3>2, <3>3, <4>5
      <3> QED
        BY <3>4, <3>5
    <2> QED
      BY <2>1, <2>2
  <1> QED
    BY <1>3, <1>4, <1>5, <1>6 DEF ClockInv

\* A handler that sets the timer on its way out; nobody begins to wait.
LEMMA SetTimerInv ==
  ASSUME ClockInv, set_timer, UNCHANGED <<lo, due>>,
         where' \in [Proc -> Place], OneRunning', stuck' \subseteq Proc, cpu' \in CpuState
  PROVE  ClockInv'
  <1>1. lo \in 0..LO - 1
    BY DEF ClockInv, ClockTypeOK
  <1>2. /\ timer' \in 0..Slice /\ timer_cause' \in {"TIMESLICE", "PSEUDOCLOCK"}
        /\ TimerGuardsTick' /\ TickAhead'
    BY <1>1, SetTimerKeeps
  <1> QED
    BY <1>1, <1>2 DEF ClockInv, ClockTypeOK, Slice

\* One that leaves it alone.
LEMMA LeaveTimerInv ==
  ASSUME ClockInv, UNCHANGED <<lo, timer, timer_cause, due>>,
         where' \in [Proc -> Place], OneRunning', stuck' \subseteq Proc, cpu' \in CpuState,
         Now("clock")' \subseteq Now("clock")
  PROVE  ClockInv'
  BY TimerAlone DEF ClockInv, ClockTypeOK

LEMMA DispatchInv == ASSUME ClockInv, Dispatch, UNCHANGED <<lo, due>> PROVE ClockInv'
  <1>1. PICK p \in Now("ready") :
          /\ where' = [q \in Proc |-> IF q = p THEN "running"
                                     ELSE IF Runs(q) THEN "ready" ELSE where[q]]
          /\ Resume(p)
    BY DEF Dispatch
  <1>2. where' \in [Proc -> Place] /\ OneRunning'
    BY <1>1 DEF ClockInv, ClockTypeOK, OneRunning, Runs, Place
  <1>3. cpu' \in CpuState /\ stuck' \subseteq Proc /\ set_timer
    BY <1>1 DEF Dispatch, Resume, CpuState, ClockInv, ClockTypeOK
  <1> QED
    BY <1>2, <1>3, SetTimerInv

\* Who waits or halts changes neither the timer's cause nor anybody's place.
LEMMA WaitOrHaltFacts ==
  ASSUME ClockInv, WaitOrHalt
  PROVE  /\ where' \in [Proc -> Place] /\ OneRunning' /\ Now("clock")' \subseteq Now("clock")
         /\ cpu' \in CpuState /\ stuck' \subseteq Proc
  BY DEF WaitOrHalt, ClockInv, ClockTypeOK, OneRunning, Runs, Now, CpuState

LEMMA ScheduleInv == ASSUME ClockInv, schedule, UNCHANGED <<lo, due>> PROVE ClockInv'
  <1>1. CASE Dispatch
    BY <1>1, DispatchInv
  <1>2. CASE WaitOrHalt /\ UNCHANGED <<timer, timer_cause>>
    BY <1>2, WaitOrHaltFacts, LeaveTimerInv
  <1> QED
    BY <1>1, <1>2 DEF schedule

LEMMA GoOnInv == ASSUME ClockInv, GoOn, UNCHANGED <<lo, due>> PROVE ClockInv'
  <1>1. set_timer /\ UNCHANGED <<where, stuck>> /\ cpu' \in CpuState
    BY DEF GoOn, Resume, CpuState
  <1>2. where' \in [Proc -> Place] /\ OneRunning' /\ stuck' \subseteq Proc
    BY <1>1 DEF ClockInv, ClockTypeOK, OneRunning, Runs
  <1> QED
    BY <1>1, <1>2, SetTimerInv

\* When the timer's interrupt is taken as a tick, everybody who waits is woken.
LEMMA TimerBranchInv == ASSUME ClockInv, TimerBranch PROVE ClockInv'
  <1>1. where' \in [Proc -> Place] /\ OneRunning' /\ Now("clock")' \subseteq Now("clock")
    BY DEF TimerBranch, ClockInv, ClockTypeOK, OneRunning, Runs, Now, Place
  <1>2. cpu' \in CpuState /\ stuck' \subseteq Proc
    BY DEF TimerBranch, CpuState, ClockInv, ClockTypeOK
  <1> QED
    BY <1>1, <1>2, LeaveTimerInv DEF TimerBranch

LEMMA DeviceInterruptInv ==
  ASSUME ClockInv, NEW p \in Proc, DeviceInterrupt(p) PROVE ClockInv'
  <1>1. where' \in [Proc -> Place] /\ OneRunning' /\ Now("clock")' \subseteq Now("clock")
    BY DEF DeviceInterrupt, ClockInv, ClockTypeOK, OneRunning, Runs, Now, Place
  <1>2. cpu' \in CpuState /\ stuck' \subseteq Proc
    BY DEF DeviceInterrupt, CpuState, ClockInv, ClockTypeOK
  <1> QED
    BY <1>1, <1>2, LeaveTimerInv DEF DeviceInterrupt

LEMMA TimerEndInv == ASSUME ClockInv, TimerEnd PROVE ClockInv'
  <1>1. UNCHANGED <<lo, due>>
    BY DEF TimerEnd
  <1>2. CASE WaitOrHalt /\ set_timer
    BY <1>1, <1>2, WaitOrHaltFacts, SetTimerInv
  <1>3. CASE schedule
    BY <1>1, <1>3, ScheduleInv
  <1> QED
    BY <1>2, <1>3 DEF TimerEnd

\* One step per action.
LEMMA StepInv == ASSUME ClockInv, [Next]_vars PROVE ClockInv'
  <1>0. stuck \subseteq Proc /\ due \subseteq Proc
    BY DEF ClockInv, ClockTypeOK
  <1>1. CASE Elapse
    BY <1>1, ElapseInv
  <1>2. ASSUME NEW p \in Proc, WaitClock(p) PROVE ClockInv'
    BY <1>0, <1>2, ExceptionInv DEF WaitClock, Place
  <1>3. ASSUME NEW p \in Proc, Block(p) PROVE ClockInv'
    BY <1>0, <1>3, ExceptionInv DEF Block, Place
  <1>4. ASSUME NEW p \in Proc, Create(p) PROVE ClockInv'
    <2>1. stuck' \subseteq Proc /\ due' = due /\ Exception(p, "ready")
      BY <1>0, <1>4 DEF Create
    <2> QED
      BY <1>0, <2>1, ExceptionInv DEF Place
  <1>5. ASSUME NEW p \in Proc, Wake(p) PROVE ClockInv'
    BY <1>0, <1>5, ExceptionInv DEF Wake, Place
  <1>6. ASSUME NEW p \in Proc, Terminate(p) PROVE ClockInv'
    BY <1>0, <1>6, ExceptionInv DEF Terminate, Place
  <1>7. ASSUME NEW p \in Proc, Answer(p) PROVE ClockInv'
    BY <1>0, <1>7, ExceptionInv DEF Answer, Place
  <1>8. ASSUME NEW p \in Proc, DeviceInterrupt(p) PROVE ClockInv'
    BY <1>8, DeviceInterruptInv
  <1>9. CASE SysEnd
    BY <1>9, GoOnInv, ScheduleInv DEF SysEnd
  <1>10. CASE TimerInterrupt \/ DeviceBringsTimer
    BY <1>10, TimerBranchInv DEF TimerInterrupt, DeviceBringsTimer
  <1>11. CASE TimerEnd
    BY <1>11, TimerEndInv
  <1>12. CASE DeviceEnd
    BY <1>12, GoOnInv, ScheduleInv DEF DeviceEnd
  <1>13. CASE UNCHANGED vars
    BY <1>13 DEF vars, ClockInv, ClockTypeOK, TimerGuardsTick, UntilTick, OneRunning, Runs,
                 TickAhead, Now
  <1> QED
    BY <1>1, <1>2, <1>3, <1>4, <1>5, <1>6, <1>7, <1>8, <1>9, <1>10, <1>11, <1>12, <1>13
       DEF Next

LEMMA Invariance == Spec => []ClockInv
  BY ClockInitInv, StepInv, PTL DEF Spec

----------------------------------------------------------------------------
\* Every variable keeps its type; the timer never holds more than a slice.
THEOREM ClockType == Spec => []ClockTypeOK
  BY Invariance, PTL DEF ClockInv

\* At every moment, however long handlers take: a slice ends before the tick that
\* follows it, and the interrupt of a tick comes in its microsecond.
THEOREM TimerNeverMissesItsTick == Spec => []TimerGuardsTick
  BY Invariance, PTL DEF ClockInv

\* A tick wakes nobody who called SYS6 after it, but those that run with the
\* timer masked.
THEOREM WokenByTheNextTick == Spec => NoEarlyTick
  <1>1. ASSUME ClockInv, TimerBranch, timer_cause = "PSEUDOCLOCK"
        PROVE  Now("clock") \subseteq due \cup TimerMasked
    <2>1. timer = 0 /\ lo \in 0..LO - 1
      BY <1>1 DEF TimerBranch, ClockInv, ClockTypeOK
    <2>2. timer < UntilTick(lo)
      BY <2>1, UntilStep
    <2> QED
      BY <1>1, <2>2 DEF ClockInv, TickAhead
  <1>2. ClockInv /\ [Next]_vars =>
          [TimerBranch /\ timer_cause = "PSEUDOCLOCK"
             => Now("clock") \subseteq due \cup TimerMasked]_vars
    BY <1>1
  <1> QED
    BY <1>2, Invariance, PTL DEF Spec, NoEarlyTick
=============================================================================
