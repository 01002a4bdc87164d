--------------------------------- MODULE Asl ---------------------------------
(***************************************************************************)
(* The active semaphore list, src/src/asl.c: a table of descriptors, each  *)
(* in one of two rings of s_next fields.  The active ones (semd_h points   *)
(* into their ring) hold the queues of blocked PCBs; the others wait on    *)
(* the free list.  Neither ring has a sentinel.                            *)
(*                                                                         *)
(* The callers are Passeren, Verhogen and TerminateProcess: a PCB is       *)
(* inserted only when it is not blocked, and taken out only when it is.    *)
(***************************************************************************)
EXTENDS ProcQ, ListX, FiniteSets

CONSTANTS
  Pcb,      \* the PCBs
  MaxSemd,  \* descriptors on the free list at first (initASL links MAXPROC)
  Key,      \* addresses of semaphores
  NoKey,    \* NULL as a key
  Prio, Beyond  \* see ReadyQueue

ASSUME AslAssumption ==
  /\ IsFiniteSet(Pcb) /\ MaxSemd \in Nat \ {0} /\ Cardinality(Pcb) <= MaxSemd
  /\ NoKey \notin Key
\* Priorities are C ints.  The word insertProcQ reads behind the queue of
\* semd_table[i] is a link of semd_table[i + 9], or past the table; it is taken to be
\* no process's priority.
ASSUME PrioAssumption == Prio \subseteq Int /\ Beyond \in Int /\ Beyond \notin Prio

Semd == 1..MaxSemd
NULL == 0

VARIABLES
  s_next,   \* the links of the descriptors
  s_key,
  s_procQ,
  semd_h, semdFree_h,
  p_semkey,
  priority, \* of the PCBs when they were blocked last; nobody looks at it before
  failed    \* insertBlocked returned TRUE, which Passeren does not look at
vars == <<s_next, s_key, s_procQ, semd_h, semdFree_h, p_semkey, priority, failed>>

----------------------------------------------------------------------------
\* The descriptors a loop over the ring at h comes by.
RingAt(h) ==
  {d \in Semd : \A S \in SUBSET Semd :
     (h \in S \cup {NULL} /\ \A r \in S : s_next.next[r] \in S \cup {NULL}) => d \in S}

\* Variant: only the head is looked at.
HeadSemd(key) == IF semd_h # NULL /\ s_key[semd_h] = key THEN semd_h ELSE NULL

getSemd(key) ==
  LET hit == {d \in RingAt(semd_h) : s_key[d] = key}
  IN IF hit = {} THEN NULL ELSE CHOOSE d \in hit : TRUE

\* allocSemaphore takes the last descriptor of the free list off it.
LastFree == s_next.prev[semdFree_h]
Cut(l, d) == [next |-> [l.next EXCEPT ![d] = NULL], prev |-> [l.prev EXCEPT ![d] = NULL]]
\* Variant: the descriptor is not taken out of the ring.
AllocWithoutDel == Cut(s_next, LastFree)
LinksAfterAlloc ==
  Cut(IF list_empty(s_next, semdFree_h) THEN s_next ELSE list_del(s_next, LastFree),
      LastFree)
FreeAfterAlloc == IF list_empty(s_next, semdFree_h) THEN NULL ELSE semdFree_h

\* Variant: a descriptor freed when the free list is empty is lost.
FreeToNobody(d) ==
  LET last == list_empty(s_next, semd_h)
      out  == IF last THEN s_next ELSE list_del(s_next, d)
  IN /\ semd_h' = IF last THEN NULL
                  ELSE IF d = semd_h THEN s_next.next[semd_h] ELSE semd_h
     /\ UNCHANGED semdFree_h
     /\ s_next' = IF semdFree_h = NULL THEN out ELSE list_add(out, d, semdFree_h)

\* freeSemaphore, when the last waiter of d is gone.
freeSemaphore(d) ==
  LET last == list_empty(s_next, semd_h)
      out  == IF last THEN s_next ELSE list_del(s_next, d)
  IN /\ semd_h' = IF last THEN NULL
                  ELSE IF d = semd_h THEN s_next.next[semd_h] ELSE semd_h
     /\ semdFree_h' = IF semdFree_h = NULL THEN d ELSE semdFree_h
     /\ s_next' = IF semdFree_h = NULL THEN INIT_LIST_HEAD(out, d)
                  ELSE list_add(out, d, semdFree_h)

----------------------------------------------------------------------------
\* initASL
Init ==
  /\ s_next = [next |-> [d \in Semd |-> IF d = MaxSemd THEN 1 ELSE d + 1],
               prev |-> [d \in Semd |-> IF d = 1 THEN MaxSemd ELSE d - 1]]
  /\ s_key = [d \in Semd |-> NoKey]
  /\ s_procQ = [d \in Semd |-> <<>>]
  /\ semd_h = NULL
  /\ semdFree_h = 1
  /\ p_semkey = [p \in Pcb |-> NoKey]
  /\ priority \in [Pcb -> Prio]
  /\ failed = FALSE

\* Variants of Enqueue: p_semkey gets the descriptor; p goes to the head.
EnqueueKeepsSemd(d, key, p, q) ==
  /\ p_semkey' = [p_semkey EXCEPT ![p] = d]
  /\ s_procQ' = [s_procQ EXCEPT ![d] = insertProcQ(q, p, priority', Beyond)]

EnqueueFirst(d, key, p, q) ==
  /\ p_semkey' = [p_semkey EXCEPT ![p] = key]
  /\ s_procQ' = [s_procQ EXCEPT ![d] = <<p>> \o q]

\* p is put into the queue of d, which has key.
Enqueue(d, key, p, q) ==
  /\ p_semkey' = [p_semkey EXCEPT ![p] = key]
  /\ s_procQ' = [s_procQ EXCEPT ![d] = insertProcQ(q, p, priority', Beyond)]

InsertKnown(key, p) ==
  /\ getSemd(key) # NULL
  /\ Enqueue(getSemd(key), key, p, s_procQ[getSemd(key)])
  /\ UNCHANGED <<s_next, s_key, semd_h, semdFree_h, failed>>

InsertNew(key, p) ==
  /\ getSemd(key) = NULL
  /\ IF semdFree_h = NULL
     THEN /\ failed' = TRUE
          /\ UNCHANGED <<s_next, s_key, s_procQ, semd_h, semdFree_h, p_semkey>>
     ELSE /\ s_key' = [s_key EXCEPT ![LastFree] = key]
          /\ semdFree_h' = FreeAfterAlloc
          /\ semd_h' = IF semd_h = NULL THEN LastFree ELSE semd_h
          /\ s_next' = IF semd_h = NULL THEN INIT_LIST_HEAD(LinksAfterAlloc, LastFree)
                       ELSE list_add_tail(LinksAfterAlloc, LastFree, semd_h)
          /\ Enqueue(LastFree, key, p, <<>>)
          /\ UNCHANGED failed

insertBlocked(key, p, n) ==
  /\ p_semkey[p] = NoKey
  /\ priority' = [priority EXCEPT ![p] = n]
  /\ InsertKnown(key, p) \/ InsertNew(key, p)

\* Variants of Dequeue: p_semkey keeps its value; the descriptor stays active.
DequeueKeepsKey(d, p, q) ==
  /\ s_procQ' = [s_procQ EXCEPT ![d] = q]
  /\ IF q = <<>> THEN freeSemaphore(d) ELSE UNCHANGED <<s_next, semd_h, semdFree_h>>
  /\ UNCHANGED <<s_key, priority, failed, p_semkey>>

DequeueKeepsSemd(d, p, q) ==
  /\ s_procQ' = [s_procQ EXCEPT ![d] = q]
  /\ p_semkey' = [p_semkey EXCEPT ![p] = NoKey]
  /\ UNCHANGED <<s_key, priority, failed, s_next, semd_h, semdFree_h>>

\* p leaves the queue of d, q is what is left of it.
Dequeue(d, p, q) ==
  /\ s_procQ' = [s_procQ EXCEPT ![d] = q]
  /\ p_semkey' = [p_semkey EXCEPT ![p] = NoKey]
  /\ IF q = <<>> THEN freeSemaphore(d) ELSE UNCHANGED <<s_next, semd_h, semdFree_h>>
  /\ UNCHANGED <<s_key, priority, failed>>

removeBlocked(key) ==
  LET d == getSemd(key) IN
  /\ d # NULL
  /\ Dequeue(d, headProcQ(s_procQ[d]), removeProcQ(s_procQ[d]))

outBlocked(p) ==
  LET d == getSemd(p_semkey[p]) IN
  /\ p_semkey[p] # NoKey
  /\ d # NULL
  /\ Dequeue(d, p, outProcQ(s_procQ[d], p))

Next ==
  \/ \E key \in Key, p \in Pcb, n \in Prio : insertBlocked(key, p, n)
  \/ \E key \in Key : removeBlocked(key)
  \/ \E p \in Pcb : outBlocked(p)

Spec == Init /\ [][Next]_vars

----------------------------------------------------------------------------
Links == [Semd -> Semd \cup {NULL}]

\* Every variable keeps its type (types_rikaya.h).
TypeOK ==
  /\ s_next \in [next : Links, prev : Links]
  /\ s_key \in [Semd -> Key \cup {NoKey}]
  /\ s_procQ \in [Semd -> Seq(Pcb)]
  /\ semd_h \in Semd \cup {NULL}
  /\ semdFree_h \in Semd \cup {NULL}
  /\ p_semkey \in [Pcb -> Key \cup {NoKey}]
  /\ priority \in [Pcb -> Prio]
  /\ failed \in BOOLEAN

Active == RingAt(semd_h)
Idle   == RingAt(semdFree_h)

\* Each descriptor is in one ring, the active one when and only when somebody
\* waits in its queue, and no two active ones have one key: the loop of
\* searchSemaphoreByKey comes by all of them, and takes the first that fits.
ActiveHasWaiters ==
  /\ Active \cup Idle = Semd
  /\ Active \cap Idle = {}
  /\ \A d \in Semd : d \in Active <=> s_procQ[d] # <<>>
  /\ \A d, e \in Active : s_key[d] = s_key[e] => d = e

\* Both rings are closed in both directions: list_del in the middle, at the
\* head and of the last but one element leaves no pointer behind.
RingsClosed ==
  \A h \in {semd_h, semdFree_h} \ {NULL} : \A d \in RingAt(h) :
    /\ s_next.next[d] # NULL /\ s_next.prev[s_next.next[d]] = d
    /\ s_next.prev[d] # NULL /\ s_next.next[s_next.prev[d]] = d

\* asl.c:114 and 143: the free list is never empty when a process has to block,
\* so Passeren may ignore what insertBlocked returns.
NeverFails == ~failed

\* Whoever has a p_semkey is in the queue of the descriptor with that key.
BlockedIsQueued ==
  \A p \in Pcb : p_semkey[p] # NoKey =>
    /\ getSemd(p_semkey[p]) # NULL
    /\ p \in Elems(s_procQ[getSemd(p_semkey[p])])

\* All of it together is one queue per key.
Queues == INSTANCE BlockedQueues WITH
  queue <- [key \in Key |-> IF getSemd(key) = NULL THEN <<>> ELSE s_procQ[getSemd(key)]]
ImplementsQueues == Queues!Spec
=============================================================================
