----------------------------- MODULE ReadyQueue -----------------------------
(***************************************************************************)
(* One process queue under the operations the kernel performs on it:       *)
(* insertion (CreateProcess, Verhogen, schedule), removal of the head      *)
(* (schedule, Verhogen), removal of any element (TerminateProcess) and the *)
(* aging of a whole queue at the end of a time slice (interrupts.c:49-56). *)
(* arrival is history: it tells which of two PCBs came first.              *)
(***************************************************************************)
EXTENDS ProcQ

CONSTANTS
  Pcb,        \* the PCBs
  Prio,       \* priorities a PCB may be inserted with
  Beyond,     \* values line 125 of pcb.c may read past the sentinel
  MaxPrio,    \* bound: no queue with this priority in it is aged
  MaxArrival  \* bound: insertions in one behaviour

ASSUME PrioAssumption == Prio \subseteq Int /\ Beyond \subseteq Int /\ Beyond # {}
ASSUME BoundAssumption == MaxPrio \in Int /\ MaxArrival \in Nat

VARIABLES queue, prio, waiting, arrival, clock
queue_vars == <<queue, prio, waiting, arrival, clock>>

InitQueue ==
  /\ queue = <<>>
  /\ prio \in [Pcb -> Prio]
  /\ waiting = {}
  /\ arrival = [p \in Pcb |-> 0]
  /\ clock = 0

Insert(p, n) ==
  /\ p \notin waiting
  /\ clock < MaxArrival
  /\ clock' = clock + 1
  /\ prio' = [prio EXCEPT ![p] = n]
  /\ \E b \in Beyond : queue' = insertProcQ(queue, p, prio', b)
  /\ waiting' = waiting \cup {p}
  /\ arrival' = [arrival EXCEPT ![p] = clock]

\* Variant: the removed element taken for the rest of the queue.
RemoveTakesHead ==
  /\ queue # <<>>
  /\ queue' = headProcQ(queue)
  /\ waiting' = waiting \ {headProcQ(queue)}
  /\ UNCHANGED <<prio, arrival, clock>>

Remove ==
  /\ queue # <<>>
  /\ queue' = removeProcQ(queue)
  /\ waiting' = waiting \ {headProcQ(queue)}
  /\ UNCHANGED <<prio, arrival, clock>>

Out(p) ==
  /\ p \in waiting
  /\ queue' = outProcQ(queue, p)
  /\ waiting' = waiting \ {p}
  /\ UNCHANGED <<prio, arrival, clock>>

Age ==
  /\ queue # <<>>
  /\ \A p \in Elems(queue) : prio[p] < MaxPrio
  /\ prio' = [p \in Pcb |-> IF p \in Elems(queue) THEN prio[p] + 1 ELSE prio[p]]
  /\ UNCHANGED <<queue, waiting, arrival, clock>>

NextQueue ==
  \/ \E p \in Pcb : \/ \E n \in Prio : Insert(p, n)
                    \/ Out(p)
  \/ Remove
  \/ Age

QueueSpec == InitQueue /\ [][NextQueue]_queue_vars

----------------------------------------------------------------------------
\* The fields have their types (pcb.c, types_rikaya.h).
TypeOK ==
  /\ queue \in Seq(Pcb)
  /\ prio \in [Pcb -> Int]
  /\ waiting \subseteq Pcb
  /\ arrival \in [Pcb -> Nat]
  /\ clock \in Nat

\* No priority a PCB can reach is what line 125 finds past the sentinel.
SentinelSafe ==
  \A b \in Beyond : \A n \in Prio : b < n \/ (b > n /\ b > MaxPrio)

\* pcb.c:122-124: a PCB goes behind those of its own priority; so every queue
\* serves the highest priority first and equal priorities in order of arrival,
\* whatever aging and removals from the middle do in between.
Before(p, q) ==
  prio[p] > prio[q] \/ (prio[p] = prio[q] /\ arrival[p] < arrival[q])
ServiceOrder ==
  \A i, j \in DOMAIN queue : i < j => Before(queue[i], queue[j])

\* A PCB that was inserted and not removed is in the queue, once.
NothingLost ==
  /\ Elems(queue) = waiting
  /\ \A i, j \in DOMAIN queue : i # j => queue[i] # queue[j]
=============================================================================
