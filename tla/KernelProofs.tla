---------------------------- MODULE KernelProofs ----------------------------
(***************************************************************************)
(* For any number of PCBs, priorities and semaphores: every process is     *)
(* where its p_semkey says, the counters count, and a negative semaphore   *)
(* has exactly that many waiters.                                          *)
(*                                                                         *)
(* Between a handler's dequeue and enqueue a PCB is in no queue, so the    *)
(* argument is about the nucleus data q and a set W of PCBs that ought to  *)
(* be queued:                                                              *)
(*   Placed(q, W)  each PCB of W is in its queue, and the queues are sorted *)
(*   Sound(q, W)   and the counters and the semaphores agree with them     *)
(*   Good(q, L)    Sound for all of L but the running process              *)
(* Each operator of Kernel takes one such state to another, each action    *)
(* is a composition of those, and IInv joins Good with the invariant of    *)
(* the process tree, which FamilyProofs establishes: its instance FP       *)
(* is the instance Fam of Kernel, definition by definition (the Same...    *)
(* lemmas).                                                                *)
(***************************************************************************)
EXTENDS Kernel, ProcQProofs, FiniteSetTheorems, TLAPS

FP == INSTANCE FamilyProofs

----------------------------------------------------------------------------
\* The PCBs are 1..MaxProc, which NULL is not.
LEMMA PcbFacts == NULL \notin Pcb /\ IsFiniteSet(Pcb)
  <1>1. NULL = 0 /\ Pcb = 1..MaxProc
    BY DEF NULL, Fam!NULL, Pcb, Fam!Pcb
  <1> QED
    BY <1>1, FamilyAssumption, FS_Interval

\* The types of the fields of k.
Record ==
  [ready : Seq(Pcb), ready_processes : Int, running : Pcb \cup {NULL},
   queue : [Key -> Seq(Pcb)], blocked_processes : Int,
   semkey : [Pcb -> Key \cup {NoKey}], sem : [Key -> Int],
   prio : [Pcb -> Int], original : [Pcb -> Int],
   saved : [Pcb -> Context], cpu : CpuState]

\* The PCBs of W that wait for key; for NoKey, those that are ready.
At(q, W, key) == {p \in W : q.semkey[p] = key}

\* The PCBs of W are each in the queue p_semkey says, and no others are in one.
Placed(q, W) ==
  /\ q \in Record
  /\ W \subseteq Pcb
  /\ \A p \in Pcb : Beyond < q.prio[p] /\ Beyond < q.original[p]
  /\ q.ready_processes = Len(q.ready)
  /\ Row(q.ready, q.prio, At(q, W, NoKey))
  /\ \A key \in Key : Row(q.queue[key], q.prio, At(q, W, key))

\* Beyond, the priority the loop of insertProcQ stops at, is below every PCB's.
LEMMA InsertRow ==
  ASSUME NEW s \in Seq(Pcb), NEW prio \in [Pcb -> Int], NEW T, Row(s, prio, T),
         NEW p \in Pcb, p \notin T, Beyond < prio[p]
  PROVE  /\ insertProcQ(s, p, prio, Beyond) \in Seq(Pcb)
         /\ Len(insertProcQ(s, p, prio, Beyond)) = Len(s) + 1
         /\ Row(insertProcQ(s, p, prio, Beyond), prio, T \cup {p})
  <1>1. Beyond \in Int /\ prio[p] \in Int /\ Beyond # prio[p]
    <2>1. Beyond \in Int /\ prio[p] \in Int
      BY PrioAssumption
    <2> QED
      BY <2>1
  <1> QED
    BY <1>1, RowInsert

\* What insertProcqReady changes.
LEMMA InsertReadyFields ==
  ASSUME NEW q \in Record, NEW p \in Pcb, NEW old,
         NEW r, r = insertProcqReady(q, old, p)
  PROVE  /\ r.prio \in [Pcb -> Int]
         /\ \A x \in Pcb : r.prio[x] = IF x = p /\ q.running = p THEN q.original[p]
                                       ELSE q.prio[x]
         /\ r.ready = insertProcQ(q.ready, p, r.prio, Beyond)
         /\ r.ready_processes = q.ready_processes + 1
         /\ r.queue = q.queue /\ r.semkey = q.semkey /\ r.sem = q.sem
         /\ r.blocked_processes = q.blocked_processes /\ r.original = q.original
         /\ r.running = q.running /\ r.cpu = q.cpu
         /\ r.ready \in Seq(Pcb) => r \in Record
  <1>0. q.ready_processes + 1 \in Int
    BY DEF Record
  <1>1. CASE q.running # p
    <2>1. r = [q EXCEPT !.ready = insertProcQ(q.ready, p, q.prio, Beyond),
                        !.ready_processes = q.ready_processes + 1]
      BY <1>1 DEF insertProcqReady
    <2> QED
      BY <1>0, <1>1, <2>1 DEF Record
  <1>2. CASE q.running = p
    <2> DEFINE pr == [q.prio EXCEPT ![p] = q.original[p]]
               sv == [q.saved EXCEPT ![p] = IF old \in Context THEN old ELSE @]
    <2>1. r = [q EXCEPT !.prio = pr, !.saved = sv,
                        !.ready = insertProcQ(q.ready, p, pr, Beyond),
                        !.ready_processes = q.ready_processes + 1]
      BY <1>2 DEF insertProcqReady
    <2>2. pr \in [Pcb -> Int] /\ sv \in [Pcb -> Context]
      BY DEF Record
    <2>3. \A x \in Pcb : pr[x] = IF x = p THEN q.original[p] ELSE q.prio[x]
      BY DEF Record
    <2> HIDE DEF pr, sv
    <2>4. /\ r.prio = pr /\ r.ready = insertProcQ(q.ready, p, pr, Beyond)
          /\ r.ready_processes = q.ready_processes + 1
          /\ r.queue = q.queue /\ r.semkey = q.semkey /\ r.sem = q.sem
          /\ r.blocked_processes = q.blocked_processes /\ r.original = q.original
          /\ r.running = q.running /\ r.cpu = q.cpu
      BY <2>1 DEF Record
    <2>5. ASSUME r.ready \in Seq(Pcb) PROVE r \in Record
      BY <1>0, <2>1, <2>2, <2>4, <2>5 DEF Record
    <2> QED
      BY <1>2, <2>2, <2>3, <2>4, <2>5
  <1> QED
    BY <1>1, <1>2

\* insertProcqReady puts a PCB that is nowhere among the ready.
LEMMA InsertReadyPlaced ==
  ASSUME NEW q, NEW W, Placed(q, W), NEW p \in Pcb \ W, q.semkey[p] = NoKey,
         NEW old, NEW r, r = insertProcqReady(q, old, p)
  PROVE  /\ Placed(r, W \cup {p})
         /\ \A key \in Key : At(r, W \cup {p}, key) = At(q, W, key)
  <1>1. q \in Record /\ W \subseteq Pcb /\ q.ready_processes = Len(q.ready)
    BY DEF Placed
  <1>2. q.ready \in Seq(Pcb) /\ q.prio \in [Pcb -> Int] /\ q.queue \in [Key -> Seq(Pcb)]
    BY <1>1 DEF Record
  <1>3. /\ Row(q.ready, q.prio, At(q, W, NoKey))
        /\ \A key \in Key : Row(q.queue[key], q.prio, At(q, W, key))
        /\ \A x \in Pcb : Beyond < q.prio[x] /\ Beyond < q.original[x]
    BY DEF Placed
  <1>4. /\ r.prio \in [Pcb -> Int]
        /\ \A x \in Pcb : r.prio[x] = IF x = p /\ q.running = p THEN q.original[p]
                                      ELSE q.prio[x]
    BY <1>1, InsertReadyFields
  <1>5. /\ r.ready = insertProcQ(q.ready, p, r.prio, Beyond)
        /\ r.ready_processes = q.ready_processes + 1
        /\ r.ready \in Seq(Pcb) => r \in Record
    BY <1>1, InsertReadyFields
  <1>6. r.queue = q.queue /\ r.semkey = q.semkey /\ r.original = q.original
    BY <1>1, InsertReadyFields
  <1>7. Beyond \in Int /\ \A x \in Pcb : Beyond < r.prio[x]
    BY <1>3, <1>4, PrioAssumption
  <1>8. ASSUME NEW key PROVE \A x \in At(q, W, key) : r.prio[x] = q.prio[x]
    BY <1>1, <1>4 DEF At
  <1>9. Row(q.ready, r.prio, At(q, W, NoKey))
    <2>1. \A x \in At(q, W, NoKey) : r.prio[x] = q.prio[x]
      BY <1>8
    <2> QED
      BY <1>2, <1>3, <1>4, <2>1, RowKeep
  <1>10. ASSUME NEW key \in Key PROVE Row(q.queue[key], r.prio, At(q, W, key))
    <2>1. q.queue[key] \in Seq(Pcb) /\ Row(q.queue[key], q.prio, At(q, W, key))
      BY <1>2, <1>3
    <2>2. \A x \in At(q, W, key) : r.prio[x] = q.prio[x]
      BY <1>8
    <2> QED
      BY <1>2, <1>4, <2>1, <2>2, RowKeep
  <1>11. /\ r.ready \in Seq(Pcb) /\ Len(r.ready) = Len(q.ready) + 1
         /\ Row(r.ready, r.prio, At(q, W, NoKey) \cup {p})
    <2>1. p \notin At(q, W, NoKey)
      BY DEF At
    <2> DEFINE l == insertProcQ(q.ready, p, r.prio, Beyond)
    <2>2. /\ l \in Seq(Pcb) /\ Len(l) = Len(q.ready) + 1
          /\ Row(l, r.prio, At(q, W, NoKey) \cup {p})
      <3>1. r.prio \in [Pcb -> Int] /\ Beyond < r.prio[p]
        BY <1>4, <1>7
      <3> QED
        BY <1>2, <1>9, <2>1, <3>1, InsertRow
    <2> QED
      BY <1>5, <2>2
  <1>12. At(r, W \cup {p}, NoKey) = At(q, W, NoKey) \cup {p}
    BY <1>6 DEF At
  <1>13. ASSUME NEW key \in Key PROVE At(r, W \cup {p}, key) = At(q, W, key)
    BY <1>6, KeyAssumption DEF At
  <1>14. r.ready_processes = Len(r.ready)
    BY <1>1, <1>5, <1>11
  <1>15. \A key \in Key : Row(r.queue[key], r.prio, At(r, W \cup {p}, key))
    BY <1>6, <1>10, <1>13
  <1>16. \A x \in Pcb : Beyond < r.prio[x] /\ Beyond < r.original[x]
    BY <1>3, <1>6, <1>7
  <1>17. Row(r.ready, r.prio, At(r, W \cup {p}, NoKey))
    BY <1>11, <1>12
  <1>18. r \in Record /\ W \cup {p} \subseteq Pcb
    BY <1>1, <1>5, <1>11
  <1> QED
    BY <1>13, <1>14, <1>15, <1>16, <1>17, <1>18 DEF Placed

\* removeProcQ takes a ready PCB off its queue, and nothing else.
LEMMA RemoveReadyPlaced ==
  ASSUME NEW q, NEW W, Placed(q, W), q.ready # <<>>,
         NEW r, r = [q EXCEPT !.ready = removeProcQ(@), !.ready_processes = @ - 1]
  PROVE  /\ headProcQ(q.ready) \in W /\ q.semkey[headProcQ(q.ready)] = NoKey
         /\ Placed(r, W \ {headProcQ(q.ready)})
         /\ \A key \in Key : At(r, W \ {headProcQ(q.ready)}, key) = At(q, W, key)
  <1> DEFINE p == headProcQ(q.ready)
  <1>1. /\ q \in Record /\ W \subseteq Pcb
        /\ q.ready \in Seq(Pcb) /\ q.prio \in [Pcb -> Int]
        /\ Row(q.ready, q.prio, At(q, W, NoKey))
    BY DEF Placed, Record
  <1>2. /\ p \in At(q, W, NoKey) /\ removeProcQ(q.ready) \in Seq(Pcb)
        /\ Len(removeProcQ(q.ready)) = Len(q.ready) - 1
        /\ Row(removeProcQ(q.ready), q.prio, At(q, W, NoKey) \ {p})
    BY <1>1, RowRemove
  <1> HIDE DEF p
  <1>3. /\ r \in Record /\ r.ready = removeProcQ(q.ready)
        /\ r.ready_processes = q.ready_processes - 1
        /\ r.semkey = q.semkey /\ r.queue = q.queue /\ r.prio = q.prio
        /\ r.original = q.original
    <2>1. q.ready_processes \in Int /\ q.ready_processes - 1 \in Int
      BY <1>1 DEF Record
    <2> QED
      BY <1>1, <1>2, <2>1 DEF Record
  <1>4. At(r, W \ {p}, NoKey) = At(q, W, NoKey) \ {p}
    BY <1>3 DEF At
  <1>5. \A key \in Key : At(r, W \ {p}, key) = At(q, W, key)
    BY <1>2, <1>3, KeyAssumption DEF At
  <1>6. Placed(r, W \ {p})
    <2>1. r.ready_processes = Len(r.ready)
      BY <1>2, <1>3 DEF Placed
    <2>2. \A key \in Key : Row(r.queue[key], r.prio, At(r, W \ {p}, key))
      BY <1>3, <1>5 DEF Placed
    <2>3. \A x \in Pcb : Beyond < r.prio[x] /\ Beyond < r.original[x]
      BY <1>3 DEF Placed
    <2>4. Row(r.ready, r.prio, At(r, W \ {p}, NoKey))
      BY <1>2, <1>3, <1>4
    <2> QED
      BY <1>1, <1>3, <2>1, <2>2, <2>3, <2>4 DEF Placed
  <1> QED
    BY <1>2, <1>5, <1>6 DEF p, At

\* outProcQ takes a ready PCB off its queue, wherever in it.
LEMMA OutReadyPlaced ==
  ASSUME NEW q, NEW W, Placed(q, W), NEW p \in W, q.semkey[p] = NoKey,
         NEW r, r = [q EXCEPT !.ready = outProcQ(@, p), !.ready_processes = @ - 1]
  PROVE  /\ Placed(r, W \ {p})
         /\ \A key \in Key : At(r, W \ {p}, key) = At(q, W, key)
  <1>1. /\ q \in Record /\ W \subseteq Pcb
        /\ q.ready \in Seq(Pcb) /\ q.prio \in [Pcb -> Int]
        /\ Row(q.ready, q.prio, At(q, W, NoKey)) /\ p \in At(q, W, NoKey)
    BY DEF Placed, Record, At
  <1>2. /\ outProcQ(q.ready, p) \in Seq(Pcb)
        /\ Len(outProcQ(q.ready, p)) = Len(q.ready) - 1
        /\ Row(outProcQ(q.ready, p), q.prio, At(q, W, NoKey) \ {p})
    BY <1>1, RowOut
  <1>3. /\ r \in Record /\ r.ready = outProcQ(q.ready, p)
        /\ r.ready_processes = q.ready_processes - 1
        /\ r.semkey = q.semkey /\ r.queue = q.queue /\ r.prio = q.prio
        /\ r.original = q.original
    <2>1. q.ready_processes \in Int /\ q.ready_processes - 1 \in Int
      BY <1>1 DEF Record
    <2> QED
      BY <1>1, <1>2, <2>1 DEF Record
  <1>4. At(r, W \ {p}, NoKey) = At(q, W, NoKey) \ {p}
    BY <1>3 DEF At
  <1>5. \A key \in Key : At(r, W \ {p}, key) = At(q, W, key)
    BY <1>1, <1>3, KeyAssumption DEF At
  <1>6. Placed(r, W \ {p})
    <2>1. r.ready_processes = Len(r.ready)
      BY <1>2, <1>3 DEF Placed
    <2>2. \A key \in Key : Row(r.queue[key], r.prio, At(r, W \ {p}, key))
      BY <1>3, <1>5 DEF Placed
    <2>3. \A x \in Pcb : Beyond < r.prio[x] /\ Beyond < r.original[x]
      BY <1>3 DEF Placed
    <2>4. Row(r.ready, r.prio, At(r, W \ {p}, NoKey))
      BY <1>2, <1>3, <1>4
    <2> QED
      BY <1>1, <1>3, <2>1, <2>2, <2>3, <2>4 DEF Placed
  <1> QED
    BY <1>5, <1>6

----------------------------------------------------------------------------
\* r is q after p has got into the queue of key.
Entered(r, q, W, p, key) ==
  /\ Placed(r, W \cup {p})
  /\ Len(r.queue[key]) = Len(q.queue[key]) + 1
  /\ \A x \in Key : x # key => r.queue[x] = q.queue[x]
  /\ r.semkey[p] = key /\ \A x \in Pcb : x # p => r.semkey[x] = q.semkey[x]
  /\ r.sem = q.sem /\ r.blocked_processes = q.blocked_processes
  /\ r.running = q.running /\ r.cpu = q.cpu

\* insertBlocked puts a PCB that is nowhere among those that wait for key.
LEMMA InsertBlockedPlaced ==
  ASSUME NEW q, NEW W, Placed(q, W), NEW p \in Pcb \ W, NEW key \in Key,
         NEW r, r = insertBlocked(q, key, p)
  PROVE  Entered(r, q, W, p, key)
  <1> DEFINE sk == [q.semkey EXCEPT ![p] = key]
             l  == insertProcQ(q.queue[key], p, q.prio, Beyond)
             qu == [q.queue EXCEPT ![key] = l]
  <1>1. q \in Record /\ W \subseteq Pcb /\ q.ready_processes = Len(q.ready)
    BY DEF Placed
  <1>2. /\ q.prio \in [Pcb -> Int] /\ q.queue \in [Key -> Seq(Pcb)]
        /\ q.semkey \in [Pcb -> Key \cup {NoKey}]
    BY <1>1 DEF Record
  <1>3. /\ Row(q.ready, q.prio, At(q, W, NoKey))
        /\ \A x \in Key : Row(q.queue[x], q.prio, At(q, W, x))
        /\ \A x \in Pcb : Beyond < q.prio[x] /\ Beyond < q.original[x]
    BY DEF Placed
  <1>4. l \in Seq(Pcb) /\ Len(l) = Len(q.queue[key]) + 1
        /\ Row(l, q.prio, At(q, W, key) \cup {p})
    <2>1. p \notin At(q, W, key) /\ q.queue[key] \in Seq(Pcb)
      BY <1>2 DEF At
    <2> QED
      BY <1>2, <1>3, <2>1, InsertRow
  <1>5. /\ sk \in [Pcb -> Key \cup {NoKey}] /\ sk[p] = key
        /\ \A x \in Pcb : x # p => sk[x] = q.semkey[x]
    BY <1>2
  <1> HIDE DEF l, sk
  <1>6. /\ qu \in [Key -> Seq(Pcb)] /\ qu[key] = l
        /\ \A x \in Key : x # key => qu[x] = q.queue[x]
    BY <1>2, <1>4
  <1>7. r = [q EXCEPT !.semkey = sk, !.queue = qu]
    BY DEF insertBlocked, l, sk
  <1> HIDE DEF qu
  <1>8. /\ r.semkey = sk /\ r.queue = qu /\ r.ready = q.ready /\ r.prio = q.prio
        /\ r.original = q.original /\ r.ready_processes = q.ready_processes
        /\ r.sem = q.sem /\ r.blocked_processes = q.blocked_processes
        /\ r.running = q.running /\ r.cpu = q.cpu
    BY <1>1, <1>7 DEF Record
  <1>9. r \in Record
    BY <1>1, <1>5, <1>6, <1>7 DEF Record
  <1>10. At(r, W \cup {p}, NoKey) = At(q, W, NoKey)
    BY <1>1, <1>5, <1>8, KeyAssumption DEF At
  <1>11. ASSUME NEW x \in Key
         PROVE  At(r, W \cup {p}, x) = IF x = key THEN At(q, W, x) \cup {p}
                                       ELSE At(q, W, x)
    BY <1>1, <1>5, <1>8 DEF At
  <1>12. ASSUME NEW x \in Key PROVE Row(r.queue[x], r.prio, At(r, W \cup {p}, x))
    BY <1>3, <1>4, <1>6, <1>8, <1>11
  <1>13. Placed(r, W \cup {p})
    BY <1>1, <1>3, <1>8, <1>9, <1>10, <1>12 DEF Placed
  <1> QED
    BY <1>4, <1>5, <1>6, <1>8, <1>13 DEF Entered

\* r is q after p, one of the PCBs of W that wait for key, has left the queue.
Left(r, q, W, p, key) ==
  /\ Placed(r, W \ {p})
  /\ Len(r.queue[key]) = Len(q.queue[key]) - 1
  /\ \A x \in Key : x # key => r.queue[x] = q.queue[x]
  /\ r.semkey[p] = NoKey /\ \A x \in Pcb : x # p => r.semkey[x] = q.semkey[x]
  /\ r.sem = q.sem /\ r.blocked_processes = q.blocked_processes
  /\ r.running = q.running /\ r.cpu = q.cpu

\* A PCB off the queue of its key, and with no key, is nowhere.
LEMMA LeavePlaced ==
  ASSUME NEW q, NEW W, Placed(q, W), NEW p \in W, NEW key \in Key, q.semkey[p] = key,
         NEW l \in Seq(Pcb), Len(l) = Len(q.queue[key]) - 1,
         Row(l, q.prio, At(q, W, key) \ {p}),
         NEW r, r = [q EXCEPT !.semkey[p] = NoKey, !.queue[key] = l]
  PROVE  Left(r, q, W, p, key)
  <1> DEFINE sk == [q.semkey EXCEPT ![p] = NoKey]
             qu == [q.queue EXCEPT ![key] = l]
  <1>1. q \in Record /\ W \subseteq Pcb /\ q.ready_processes = Len(q.ready) /\ p \in Pcb
    BY DEF Placed
  <1>2. /\ q.prio \in [Pcb -> Int] /\ q.queue \in [Key -> Seq(Pcb)]
        /\ q.semkey \in [Pcb -> Key \cup {NoKey}]
    BY <1>1 DEF Record
  <1>3. /\ Row(q.ready, q.prio, At(q, W, NoKey))
        /\ \A x \in Key : Row(q.queue[x], q.prio, At(q, W, x))
        /\ \A x \in Pcb : Beyond < q.prio[x] /\ Beyond < q.original[x]
    BY DEF Placed
  <1>4. /\ sk \in [Pcb -> Key \cup {NoKey}] /\ sk[p] = NoKey
        /\ \A x \in Pcb : x # p => sk[x] = q.semkey[x]
    BY <1>1, <1>2
  <1>5. /\ qu \in [Key -> Seq(Pcb)] /\ qu[key] = l
        /\ \A x \in Key : x # key => qu[x] = q.queue[x]
    BY <1>2
  <1>6. r = [q EXCEPT !.semkey = sk, !.queue = qu]
    OBVIOUS
  <1> HIDE DEF sk, qu
  <1>7. /\ r.semkey = sk /\ r.queue = qu /\ r.ready = q.ready /\ r.prio = q.prio
        /\ r.original = q.original /\ r.ready_processes = q.ready_processes
        /\ r.sem = q.sem /\ r.blocked_processes = q.blocked_processes
        /\ r.running = q.running /\ r.cpu = q.cpu
    BY <1>1, <1>6 DEF Record
  <1>8. r \in Record
    BY <1>1, <1>4, <1>5, <1>6 DEF Record
  <1>9. At(r, W \ {p}, NoKey) = At(q, W, NoKey)
    BY <1>1, <1>4, <1>7, KeyAssumption DEF At
  <1>10. ASSUME NEW x \in Key
         PROVE  At(r, W \ {p}, x) = IF x = key THEN At(q, W, x) \ {p} ELSE At(q, W, x)
    BY <1>1, <1>4, <1>7 DEF At
  <1>11. ASSUME NEW x \in Key PROVE Row(r.queue[x], r.prio, At(r, W \ {p}, x))
    BY <1>3, <1>5, <1>7, <1>10
  <1>12. Placed(r, W \ {p})
    BY <1>1, <1>3, <1>7, <1>8, <1>9, <1>11 DEF Placed
  <1> QED
    BY <1>4, <1>5, <1>7, <1>12 DEF Left

\* Who is in the queue of a semaphore waits for it.
LEMMA HeadWaits ==
  ASSUME NEW q, NEW W, Placed(q, W), NEW key \in Key, q.queue[key] # <<>>
  PROVE  headProcQ(q.queue[key]) \in W /\ q.semkey[headProcQ(q.queue[key])] = key
  <1>1. /\ q.queue[key] \in Seq(Pcb) /\ q.prio \in [Pcb -> Int]
        /\ Row(q.queue[key], q.prio, At(q, W, key))
    BY DEF Placed, Record
  <1>2. headProcQ(q.queue[key]) \in At(q, W, key)
    BY <1>1, RowRemove
  <1> QED
    BY <1>2 DEF At

\* removeBlocked takes the head of the queue of key.
LEMMA RemoveBlockedPlaced ==
  ASSUME NEW q, NEW W, Placed(q, W), NEW key \in Key, q.queue[key] # <<>>,
         NEW p, p = headProcQ(q.queue[key]),
         NEW r, r = removeBlocked(q, key)
  PROVE  /\ p \in W /\ q.semkey[p] = key
         /\ Left(r, q, W, p, key)
  <1>1. /\ q.queue[key] \in Seq(Pcb) /\ q.prio \in [Pcb -> Int]
        /\ Row(q.queue[key], q.prio, At(q, W, key))
    BY DEF Placed, Record
  <1>2. p \in W /\ q.semkey[p] = key
    BY HeadWaits
  <1> DEFINE l == removeProcQ(q.queue[key])
  <1>3. /\ l \in Seq(Pcb) /\ Len(l) = Len(q.queue[key]) - 1
        /\ Row(l, q.prio, At(q, W, key) \ {p})
    BY <1>1, RowRemove
  <1>4. r = [q EXCEPT !.semkey[p] = NoKey, !.queue[key] = l]
    BY DEF removeBlocked
  <1> HIDE DEF l
  <1> QED
    BY <1>2, <1>3, <1>4, LeavePlaced

\* outBlocked takes a waiting PCB off its queue, wherever in it.
LEMMA OutBlockedPlaced ==
  ASSUME NEW q, NEW W, Placed(q, W), NEW p \in W, NEW key \in Key, q.semkey[p] = key,
         NEW r, r = outBlocked(q, p)
  PROVE  Left(r, q, W, p, key)
  <1>1. /\ q.queue[key] \in Seq(Pcb) /\ q.prio \in [Pcb -> Int]
        /\ Row(q.queue[key], q.prio, At(q, W, key)) /\ p \in At(q, W, key)
    BY DEF Placed, Record, At
  <1> DEFINE l == outProcQ(q.queue[key], p)
  <1>2. /\ l \in Seq(Pcb) /\ Len(l) = Len(q.queue[key]) - 1
        /\ Row(l, q.prio, At(q, W, key) \ {p})
    BY <1>1, RowOut
  <1>3. r = [q EXCEPT !.semkey[p] = NoKey, !.queue[key] = l]
    BY DEF outBlocked
  <1> HIDE DEF l
  <1> QED
    BY <1>2, <1>3, LeavePlaced

\* What the queues do not depend on may change.
LEMMA SamePlaced ==
  ASSUME NEW q, NEW W, Placed(q, W), NEW r \in Record,
         r.ready = q.ready, r.ready_processes = q.ready_processes, r.queue = q.queue,
         \A x \in W : r.prio[x] = q.prio[x] /\ r.semkey[x] = q.semkey[x],
         \A x \in Pcb : Beyond < r.prio[x] /\ Beyond < r.original[x]
  PROVE  Placed(r, W) /\ \A key : At(r, W, key) = At(q, W, key)
  <1>1. /\ q \in Record /\ W \subseteq Pcb /\ q.ready_processes = Len(q.ready)
        /\ Row(q.ready, q.prio, At(q, W, NoKey))
        /\ \A x \in Key : Row(q.queue[x], q.prio, At(q, W, x))
    BY DEF Placed
  <1>2. /\ q.prio \in [Pcb -> Int] /\ r.prio \in [Pcb -> Int] /\ q.ready \in Seq(Pcb)
        /\ \A x \in Key : q.queue[x] \in Seq(Pcb)
    BY <1>1 DEF Record
  <1>3. ASSUME NEW key
        PROVE  At(r, W, key) = At(q, W, key) /\ \A x \in At(q, W, key) : r.prio[x] = q.prio[x]
    BY DEF At
  <1>4. Row(r.ready, r.prio, At(r, W, NoKey))
    <2>1. Row(q.ready, r.prio, At(q, W, NoKey))
      <3>1. \A x \in At(q, W, NoKey) : r.prio[x] = q.prio[x]
        BY <1>3
      <3> QED
        BY <1>1, <1>2, <3>1, RowKeep
    <2> QED
      BY <1>3, <2>1
  <1>5. ASSUME NEW key \in Key PROVE Row(r.queue[key], r.prio, At(r, W, key))
    <2>1. Row(q.queue[key], r.prio, At(q, W, key))
      <3>1. \A x \in At(q, W, key) : r.prio[x] = q.prio[x]
        BY <1>3
      <3>2. q.queue[key] \in Seq(Pcb) /\ Row(q.queue[key], q.prio, At(q, W, key))
        BY <1>1, <1>2
      <3> QED
        BY <1>2, <3>1, <3>2, RowKeep
    <2> QED
      BY <1>3, <2>1
  <1> QED
    BY <1>1, <1>3, <1>4, <1>5 DEF Placed

----------------------------------------------------------------------------
\* The PCBs of W that wait.
Blocked(q, W) == {p \in W : q.semkey[p] # NoKey}

\* A semaphore counts its waiters (SemCountsWaiters).
Waiters(q, key) == Len(q.queue[key]) = IF q.sem[key] < 0 THEN -q.sem[key] ELSE 0

\* The PCBs of W are in queues, and everything that counts them counts right.
Sound(q, W) ==
  /\ Placed(q, W)
  /\ q.blocked_processes = Cardinality(Blocked(q, W))
  /\ \A key \in Key : Waiters(q, key)

\* A PCB that becomes ready changes no semaphore and no count of the blocked.
LEMMA InsertReadySound ==
  ASSUME NEW q, NEW W, Sound(q, W), NEW p \in Pcb \ W, q.semkey[p] = NoKey,
         NEW old, NEW r, r = insertProcqReady(q, old, p)
  PROVE  /\ Sound(r, W \cup {p})
         /\ r.semkey = q.semkey /\ r.sem = q.sem
         /\ r.running = q.running /\ r.cpu = q.cpu
  <1>1. Placed(q, W) /\ q \in Record
    BY DEF Sound, Placed
  <1>2. Placed(r, W \cup {p})
    BY <1>1, InsertReadyPlaced
  <1>3. /\ r.queue = q.queue /\ r.semkey = q.semkey /\ r.sem = q.sem
        /\ r.blocked_processes = q.blocked_processes
        /\ r.running = q.running /\ r.cpu = q.cpu
    BY <1>1, InsertReadyFields
  <1>4. Blocked(r, W \cup {p}) = Blocked(q, W)
    BY <1>3 DEF Blocked
  <1>5. r.blocked_processes = Cardinality(Blocked(r, W \cup {p}))
    BY <1>3, <1>4 DEF Sound
  <1>6. \A key \in Key : Waiters(r, key)
    BY <1>3 DEF Sound, Waiters
  <1> QED
    BY <1>2, <1>3, <1>5, <1>6 DEF Sound

\* One more or one less is blocked.
LEMMA BlockedCount ==
  ASSUME NEW B, B \subseteq Pcb, NEW p
  PROVE  /\ Cardinality(B) \in Nat /\ (Cardinality(B) = 0 <=> B = {})
         /\ p \in B => Cardinality(B \ {p}) = Cardinality(B) - 1
         /\ p \notin B => Cardinality(B \cup {p}) = Cardinality(B) + 1
  <1>1. IsFiniteSet(B)
    BY PcbFacts, FS_Subset
  <1> QED
    BY <1>1, FS_CardinalityType, FS_EmptySet, FS_AddElement, FS_RemoveElement

\* A semaphore with a waiter is below zero, and the other way round.
LEMMA BelowZero ==
  ASSUME NEW q, NEW W, Sound(q, W), NEW key \in Key
  PROVE  /\ q.sem[key] \in Int /\ Len(q.queue[key]) \in Nat
         /\ q.queue[key] \in Seq(Pcb)
         /\ q.queue[key] = <<>> <=> q.sem[key] >= 0
         /\ q.queue[key] = <<>> <=> At(q, W, key) = {}
         /\ Len(q.queue[key]) = IF q.sem[key] < 0 THEN -q.sem[key] ELSE 0
  <1>1. /\ q.sem[key] \in Int /\ q.queue[key] \in Seq(Pcb)
        /\ Row(q.queue[key], q.prio, At(q, W, key))
    BY DEF Sound, Placed, Record
  <1>2. Len(q.queue[key]) = IF q.sem[key] < 0 THEN -q.sem[key] ELSE 0
    BY DEF Sound, Waiters
  <1>3. Len(q.queue[key]) \in Nat /\ (q.queue[key] = <<>> <=> Len(q.queue[key]) = 0)
    BY <1>1
  <1>4. q.queue[key] = <<>> <=> At(q, W, key) = {}
    BY <1>1, RowEmpty
  <1> QED
    BY <1>1, <1>2, <1>3, <1>4

\* verhogen: the semaphore goes up, and the head of its queue leaves it.
LEMMA VerhogenSound ==
  ASSUME NEW q, NEW W, Sound(q, W), NEW key \in Key,
         NEW r, r = Verhogen(q, key)
  PROVE  /\ Sound(r, W)
         /\ r.sem = [q.sem EXCEPT ![key] = @ + 1]
         /\ \A x \in Pcb \ W : r.semkey[x] = q.semkey[x]
         /\ r.running = q.running /\ r.cpu = q.cpu
  <1> DEFINE s  == [q.sem EXCEPT ![key] = @ + 1]
             k1 == [q EXCEPT !.sem = s]
             p  == headProcQ(k1.queue[key])
  <1>1. q \in Record /\ Placed(q, W) /\ W \subseteq Pcb
    BY DEF Sound, Placed
  <1>2. q.sem \in [Key -> Int]
    BY <1>1 DEF Record
  <1>3. /\ s \in [Key -> Int] /\ s[key] = q.sem[key] + 1
        /\ \A x \in Key : x # key => s[x] = q.sem[x]
    BY <1>2
  <1> HIDE DEF s
  <1>4. /\ k1 \in Record /\ k1.sem = s /\ k1.ready = q.ready /\ k1.queue = q.queue
        /\ k1.ready_processes = q.ready_processes /\ k1.prio = q.prio
        /\ k1.semkey = q.semkey /\ k1.original = q.original
        /\ k1.blocked_processes = q.blocked_processes
        /\ k1.running = q.running /\ k1.cpu = q.cpu
    BY <1>1, <1>3 DEF Record
  <1>5. r = IF k1.sem[key] > 0 \/ k1.queue[key] = <<>> THEN k1
            ELSE [insertProcqReady(removeBlocked(k1, key), "none", p)
                    EXCEPT !.blocked_processes = @ - 1]
    BY DEF Verhogen, s
  <1>6. Placed(k1, W)
    <2>1. \A x \in Pcb : Beyond < k1.prio[x] /\ Beyond < k1.original[x]
      BY <1>1, <1>4 DEF Placed
    <2> HIDE DEF k1
    <2> QED
      BY <1>1, <1>4, <2>1, SamePlaced
  <1>7. /\ q.sem[key] \in Int /\ Len(q.queue[key]) \in Nat
        /\ q.queue[key] = <<>> <=> q.sem[key] >= 0
        /\ Len(q.queue[key]) = IF q.sem[key] < 0 THEN -q.sem[key] ELSE 0
    BY BelowZero
  <1> HIDE DEF k1
  <1>8. CASE k1.sem[key] > 0 \/ k1.queue[key] = <<>>
    <2>1. r = k1 /\ q.sem[key] >= 0
      BY <1>3, <1>4, <1>5, <1>7, <1>8
    <2>2. Waiters(r, key)
      BY <1>3, <1>4, <1>7, <2>1 DEF Waiters
    <2>3. \A x \in Key : x # key => Waiters(r, x)
      BY <1>3, <1>4, <2>1 DEF Sound, Waiters
    <2>4. Blocked(r, W) = Blocked(q, W)
      BY <1>4, <2>1 DEF Blocked
    <2>5. r.blocked_processes = Cardinality(Blocked(r, W))
      BY <1>4, <2>1, <2>4 DEF Sound
    <2> QED
      BY <1>4, <1>6, <2>1, <2>2, <2>3, <2>5 DEF Sound, s
  <1>9. CASE ~(k1.sem[key] > 0 \/ k1.queue[key] = <<>>)
    <2> DEFINE k2 == removeBlocked(k1, key)
               k3 == insertProcqReady(k2, "none", p)
    <2>1. p \in W /\ k1.semkey[p] = key /\ Left(k2, k1, W, p, key) /\ p \in Pcb
      <3>1. k1.queue[key] # <<>>
        BY <1>9
      <3> QED
        BY <1>1, <1>6, <3>1, RemoveBlockedPlaced
    <2> HIDE DEF p
    <2>2. /\ Placed(k2, W \ {p}) /\ k2.semkey[p] = NoKey /\ k2 \in Record
          /\ Len(k2.queue[key]) = Len(k1.queue[key]) - 1
          /\ \A x \in Key : x # key => k2.queue[x] = k1.queue[x]
          /\ k2.sem = k1.sem /\ k2.blocked_processes = k1.blocked_processes
          /\ k2.running = k1.running /\ k2.cpu = k1.cpu
          /\ \A x \in Pcb : x # p => k2.semkey[x] = k1.semkey[x]
      BY <2>1 DEF Left, Placed
    <2> HIDE DEF k2
    <2>3. Placed(k3, (W \ {p}) \cup {p}) /\ k3 \in Record
      <3>1. p \in Pcb \ (W \ {p})
        BY <2>1
      <3>2. Placed(k3, (W \ {p}) \cup {p})
        BY <2>2, <3>1, InsertReadyPlaced
      <3> QED
        BY <3>2 DEF Placed
    <2>4. /\ k3.queue = k2.queue /\ k3.semkey = k2.semkey /\ k3.sem = k2.sem
          /\ k3.blocked_processes = k2.blocked_processes
          /\ k3.running = k2.running /\ k3.cpu = k2.cpu
      BY <2>1, <2>2, InsertReadyFields
    <2>5. (W \ {p}) \cup {p} = W
      BY <2>1
    <2>6. r = [k3 EXCEPT !.blocked_processes = k3.blocked_processes - 1]
      BY <1>5, <1>9 DEF k2
    <2> HIDE DEF k3
    <2>7. k3.blocked_processes \in Int /\ k3.blocked_processes - 1 \in Int
      BY <2>3 DEF Record
    <2>8. /\ r \in Record /\ r.ready = k3.ready /\ r.queue = k3.queue
          /\ r.ready_processes = k3.ready_processes /\ r.prio = k3.prio
          /\ r.semkey = k3.semkey /\ r.original = k3.original
          /\ r.blocked_processes = k3.blocked_processes - 1 /\ r.sem = k3.sem
          /\ r.running = k3.running /\ r.cpu = k3.cpu
      BY <2>3, <2>6, <2>7 DEF Record
    <2>9. Placed(r, W)
      <3>1. Placed(k3, W)
        BY <2>3, <2>5
      <3>2. \A x \in Pcb : Beyond < r.prio[x] /\ Beyond < r.original[x]
        BY <2>8, <3>1 DEF Placed
      <3> QED
        BY <2>8, <3>1, <3>2, SamePlaced
    <2>10. Waiters(r, key)
      <3>1. Len(r.queue[key]) = Len(q.queue[key]) - 1 /\ r.sem[key] = q.sem[key] + 1
        BY <1>3, <1>4, <2>2, <2>4, <2>8
      <3>2. q.sem[key] < 0
        BY <1>4, <1>7, <1>9
      <3> QED
        BY <1>7, <3>1, <3>2 DEF Waiters
    <2>11. ASSUME NEW x \in Key, x # key PROVE Waiters(r, x)
      <3>1. r.queue[x] = q.queue[x] /\ r.sem[x] = q.sem[x]
        BY <1>3, <1>4, <2>2, <2>4, <2>8, <2>11
      <3> QED
        BY <3>1 DEF Sound, Waiters
    <2>12. r.blocked_processes = Cardinality(Blocked(r, W))
      <3>1. Blocked(r, W) = Blocked(q, W) \ {p} /\ p \in Blocked(q, W)
        <4>1. r.semkey[p] = NoKey /\ q.semkey[p] = key /\ key # NoKey
          BY <1>4, <2>1, <2>2, <2>4, <2>8, KeyAssumption
        <4>2. \A x \in W : x # p => r.semkey[x] = q.semkey[x]
          BY <1>1, <1>4, <2>2, <2>4, <2>8
        <4> QED
          BY <2>1, <4>1, <4>2 DEF Blocked
      <3>2. Blocked(q, W) \subseteq Pcb
        BY <1>1 DEF Blocked
      <3>3. r.blocked_processes = q.blocked_processes - 1
        BY <1>4, <2>2, <2>4, <2>8
      <3> QED
        BY <3>1, <3>2, <3>3, BlockedCount DEF Sound
    <2>13. /\ r.sem = [q.sem EXCEPT ![key] = @ + 1]
           /\ \A x \in Pcb \ W : r.semkey[x] = q.semkey[x]
           /\ r.running = q.running /\ r.cpu = q.cpu
      BY <1>4, <2>1, <2>2, <2>4, <2>8 DEF s
    <2> QED
      BY <2>9, <2>10, <2>11, <2>12, <2>13 DEF Sound
  <1> QED
    BY <1>8, <1>9

\* passeren: the semaphore goes down, and below zero its caller enters the queue.
LEMMA PasserenSound ==
  ASSUME NEW q, NEW W, Sound(q, W), NEW key \in Key,
         q.running \in Pcb \ W, q.semkey[q.running] = NoKey,
         NEW r, r = Passeren(q, key)
  PROVE  /\ r.sem = [q.sem EXCEPT ![key] = @ - 1] /\ r.cpu = q.cpu
         /\ \/ /\ r.running = q.running /\ r.semkey = q.semkey
               /\ Sound(r, W)
            \/ /\ r.running = NULL
               /\ Sound(r, W \cup {q.running})
  <1> DEFINE s  == [q.sem EXCEPT ![key] = @ - 1]
             p  == q.running
             k1 == [q EXCEPT !.sem = s]
  <1>1. q \in Record /\ Placed(q, W) /\ W \subseteq Pcb /\ p \in Pcb \ W /\ p # NULL
    BY PcbFacts DEF Sound, Placed
  <1>2. q.sem \in [Key -> Int]
    BY <1>1 DEF Record
  <1>3. /\ s \in [Key -> Int] /\ s[key] = q.sem[key] - 1
        /\ \A x \in Key : x # key => s[x] = q.sem[x]
    BY <1>2
  <1> HIDE DEF s
  <1>4. /\ k1 \in Record /\ k1.sem = s /\ k1.ready = q.ready /\ k1.queue = q.queue
        /\ k1.ready_processes = q.ready_processes /\ k1.prio = q.prio
        /\ k1.semkey = q.semkey /\ k1.original = q.original
        /\ k1.blocked_processes = q.blocked_processes /\ k1.saved = q.saved
        /\ k1.running = q.running /\ k1.cpu = q.cpu
    BY <1>1, <1>3 DEF Record
  <1> HIDE DEF p
  <1>5. r = IF k1.sem[key] >= 0 \/ p = NULL THEN k1
            ELSE insertBlocked([k1 EXCEPT !.blocked_processes = @ + 1,
                                          !.prio[p] = k1.original[p],
                                          !.running = NULL,
                                          !.saved[p] = "user"], key, p)
    BY DEF Passeren, s, p
  <1>6. \A x \in Pcb : Beyond < q.prio[x] /\ Beyond < q.original[x]
    BY <1>1 DEF Placed
  <1>7. /\ q.sem[key] \in Int /\ Len(q.queue[key]) \in Nat
        /\ Len(q.queue[key]) = IF q.sem[key] < 0 THEN -q.sem[key] ELSE 0
    BY BelowZero
  <1> HIDE DEF k1
  <1>8. CASE k1.sem[key] >= 0
    <2>1. r = k1 /\ q.sem[key] > 0
      BY <1>3, <1>4, <1>5, <1>7, <1>8
    <2>2. Waiters(r, key)
      BY <1>3, <1>4, <1>7, <2>1 DEF Waiters
    <2>3. \A x \in Key : x # key => Waiters(r, x)
      BY <1>3, <1>4, <2>1 DEF Sound, Waiters
    <2>4. Placed(k1, W)
      BY <1>1, <1>4, <1>6, SamePlaced
    <2>5. Blocked(r, W) = Blocked(q, W)
      BY <1>4, <2>1 DEF Blocked
    <2>6. r.blocked_processes = Cardinality(Blocked(r, W))
      BY <1>4, <2>1, <2>5 DEF Sound
    <2> QED
      BY <1>4, <2>1, <2>2, <2>3, <2>4, <2>6 DEF Sound, s
  <1>9. CASE ~(k1.sem[key] >= 0)
    <2> DEFINE pr == [q.prio EXCEPT ![p] = q.original[p]]
               sv == [q.saved EXCEPT ![p] = "user"]
               b  == q.blocked_processes + 1
               k2 == [k1 EXCEPT !.blocked_processes = b, !.prio = pr,
                                !.running = NULL, !.saved = sv]
    <2>1. pr \in [Pcb -> Int] /\ sv \in [Pcb -> Context] /\ b \in Int
      BY <1>1 DEF Record, Context
    <2>2. \A x \in Pcb : pr[x] = IF x = p THEN q.original[p] ELSE q.prio[x]
      BY <1>1 DEF Record
    <2>3. r = insertBlocked(k2, key, p)
      BY <1>1, <1>4, <1>5, <1>9
    <2> HIDE DEF pr, sv, b
    <2>4. /\ k2 \in Record /\ k2.ready = q.ready /\ k2.queue = q.queue
          /\ k2.ready_processes = q.ready_processes /\ k2.prio = pr
          /\ k2.semkey = q.semkey /\ k2.original = q.original
          /\ k2.blocked_processes = b /\ k2.sem = s
          /\ k2.running = NULL /\ k2.cpu = q.cpu
      <3>1. NULL \in Pcb \cup {NULL}
        OBVIOUS
      <3> QED
        BY <1>4, <2>1, <3>1 DEF Record
    <2> HIDE DEF k2
    <2>5. Placed(k2, W)
      <3>1. \A x \in Pcb : Beyond < k2.prio[x] /\ Beyond < k2.original[x]
        BY <1>1, <1>6, <2>2, <2>4
      <3>2. \A x \in W : k2.prio[x] = q.prio[x] /\ k2.semkey[x] = q.semkey[x]
        BY <1>1, <2>2, <2>4
      <3> QED
        BY <1>1, <2>4, <3>1, <3>2, SamePlaced
    <2>6. Entered(r, k2, W, p, key)
      BY <1>1, <2>3, <2>5, InsertBlockedPlaced
    <2>7. /\ Placed(r, W \cup {p}) /\ r.semkey[p] = key
          /\ Len(r.queue[key]) = Len(k2.queue[key]) + 1
          /\ \A x \in Key : x # key => r.queue[x] = k2.queue[x]
      BY <2>6 DEF Entered
    <2>8. /\ r.sem = k2.sem /\ r.blocked_processes = k2.blocked_processes
          /\ r.running = k2.running /\ r.cpu = k2.cpu
          /\ \A x \in Pcb : x # p => r.semkey[x] = k2.semkey[x]
      BY <2>6 DEF Entered
    <2>9. Waiters(r, key)
      <3>1. Len(r.queue[key]) = Len(q.queue[key]) + 1 /\ r.sem[key] = q.sem[key] - 1
        BY <1>3, <2>4, <2>7, <2>8
      <3>2. q.sem[key] <= 0
        BY <1>3, <1>4, <1>7, <1>9
      <3> QED
        BY <1>7, <3>1, <3>2 DEF Waiters
    <2>10. ASSUME NEW x \in Key, x # key PROVE Waiters(r, x)
      <3>1. r.queue[x] = q.queue[x] /\ r.sem[x] = q.sem[x]
        BY <1>3, <2>4, <2>7, <2>8, <2>10
      <3> QED
        BY <3>1 DEF Sound, Waiters
    <2>11. r.blocked_processes = Cardinality(Blocked(r, W \cup {p}))
      <3>1. Blocked(r, W \cup {p}) = Blocked(q, W) \cup {p} /\ p \notin Blocked(q, W)
        <4>1. key # NoKey /\ \A x \in W : r.semkey[x] = q.semkey[x]
          BY <1>1, <2>4, <2>8, KeyAssumption
        <4> QED
          BY <1>1, <2>7, <4>1 DEF Blocked
      <3>2. Blocked(q, W) \subseteq Pcb
        BY <1>1 DEF Blocked
      <3>3. r.blocked_processes = q.blocked_processes + 1
        BY <2>4, <2>8 DEF b
      <3>4. Cardinality(Blocked(q, W) \cup {p}) = Cardinality(Blocked(q, W)) + 1
        BY <3>1, <3>2, BlockedCount
      <3>5. q.blocked_processes = Cardinality(Blocked(q, W))
        BY DEF Sound
      <3> QED
        BY <3>1, <3>3, <3>4, <3>5
    <2> QED
      BY <2>4, <2>7, <2>8, <2>9, <2>10, <2>11 DEF Sound, s, p
  <1>10. k1.sem[key] \in Int
    BY <1>3, <1>4
  <1> QED
    BY <1>8, <1>9

\* Whoever waits for a semaphore can be taken out; the V for it is part of it.
RemoveBlocked(q, p) ==
  [outBlocked([q EXCEPT !.sem[q.semkey[p]] = @ + 1], p)
     EXCEPT !.blocked_processes = @ - 1]

\* SYS3 on a waiting process gives its semaphore back what it took.
LEMMA RemoveBlockedSound ==
  ASSUME NEW q, NEW W, Sound(q, W), NEW p \in W, q.semkey[p] \in Key,
         NEW r, r = RemoveBlocked(q, p)
  PROVE  /\ Sound(r, W \ {p})
         /\ r.sem = [q.sem EXCEPT ![q.semkey[p]] = @ + 1] /\ q.sem[q.semkey[p]] < 0
         /\ \A x \in Pcb \ W : r.semkey[x] = q.semkey[x]
         /\ r.running = q.running /\ r.cpu = q.cpu
  <1>0. PICK key \in Key : q.semkey[p] = key
    OBVIOUS
  <1> DEFINE s  == [q.sem EXCEPT ![key] = @ + 1]
             k1 == [q EXCEPT !.sem = s]
             k2 == outBlocked(k1, p)
  <1>1. q \in Record /\ Placed(q, W) /\ W \subseteq Pcb /\ p \in Pcb
    BY DEF Sound, Placed
  <1>2. q.sem \in [Key -> Int]
    BY <1>1 DEF Record
  <1>3. /\ s \in [Key -> Int] /\ s[key] = q.sem[key] + 1
        /\ \A x \in Key : x # key => s[x] = q.sem[x]
    BY <1>2
  <1>4. r = [k2 EXCEPT !.blocked_processes = k2.blocked_processes - 1]
    BY <1>0 DEF RemoveBlocked
  <1> HIDE DEF s
  <1>5. /\ k1 \in Record /\ k1.sem = s /\ k1.ready = q.ready /\ k1.queue = q.queue
        /\ k1.ready_processes = q.ready_processes /\ k1.prio = q.prio
        /\ k1.semkey = q.semkey /\ k1.original = q.original
        /\ k1.blocked_processes = q.blocked_processes
        /\ k1.running = q.running /\ k1.cpu = q.cpu
    BY <1>1, <1>3 DEF Record
  <1> HIDE DEF k1
  <1>6. Placed(k1, W)
    <2>1. \A x \in Pcb : Beyond < k1.prio[x] /\ Beyond < k1.original[x]
      BY <1>1, <1>5 DEF Placed
    <2> QED
      BY <1>1, <1>5, <2>1, SamePlaced
  <1>7. /\ q.sem[key] \in Int /\ Len(q.queue[key]) \in Nat
        /\ Len(q.queue[key]) = IF q.sem[key] < 0 THEN -q.sem[key] ELSE 0
        /\ q.sem[key] < 0
    <2>1. At(q, W, key) # {}
      BY <1>0 DEF At
    <2> QED
      BY <2>1, BelowZero
  <1>8. Left(k2, k1, W, p, key)
    BY <1>0, <1>5, <1>6, OutBlockedPlaced
  <1> HIDE DEF k2
  <1>9. /\ Placed(k2, W \ {p}) /\ k2.semkey[p] = NoKey /\ k2 \in Record
        /\ Len(k2.queue[key]) = Len(k1.queue[key]) - 1
        /\ \A x \in Key : x # key => k2.queue[x] = k1.queue[x]
        /\ k2.sem = k1.sem /\ k2.blocked_processes = k1.blocked_processes
        /\ k2.running = k1.running /\ k2.cpu = k1.cpu
        /\ \A x \in Pcb : x # p => k2.semkey[x] = k1.semkey[x]
    BY <1>8 DEF Left, Placed
  <1>10. k2.blocked_processes - 1 \in Int
    BY <1>9 DEF Record
  <1>11. /\ r \in Record /\ r.ready = k2.ready /\ r.queue = k2.queue
         /\ r.ready_processes = k2.ready_processes /\ r.prio = k2.prio
         /\ r.semkey = k2.semkey /\ r.original = k2.original
         /\ r.blocked_processes = k2.blocked_processes - 1 /\ r.sem = k2.sem
         /\ r.running = k2.running /\ r.cpu = k2.cpu
    BY <1>4, <1>9, <1>10 DEF Record
  <1>12. Placed(r, W \ {p})
    <2>1. \A x \in Pcb : Beyond < r.prio[x] /\ Beyond < r.original[x]
      BY <1>9, <1>11 DEF Placed
    <2> QED
      BY <1>9, <1>11, <2>1, SamePlaced
  <1>13. Waiters(r, key)
    <2>1. Len(r.queue[key]) = Len(q.queue[key]) - 1 /\ r.sem[key] = q.sem[key] + 1
      BY <1>3, <1>5, <1>9, <1>11
    <2> QED
      BY <1>7, <2>1 DEF Waiters
  <1>14. ASSUME NEW x \in Key, x # key PROVE Waiters(r, x)
    <2>1. r.queue[x] = q.queue[x] /\ r.sem[x] = q.sem[x]
      BY <1>3, <1>5, <1>9, <1>11, <1>14
    <2> QED
      BY <2>1 DEF Sound, Waiters
  <1>15. r.blocked_processes = Cardinality(Blocked(r, W \ {p}))
    <2>1. Blocked(r, W \ {p}) = Blocked(q, W) \ {p} /\ p \in Blocked(q, W)
      <3>1. key # NoKey /\ \A x \in W \ {p} : r.semkey[x] = q.semkey[x]
        BY <1>1, <1>5, <1>9, <1>11, KeyAssumption
      <3> QED
        BY <1>0, <3>1 DEF Blocked
    <2>2. Blocked(q, W) \subseteq Pcb
      BY <1>1 DEF Blocked
    <2>3. r.blocked_processes = q.blocked_processes - 1
      BY <1>5, <1>9, <1>11
    <2> QED
      BY <2>1, <2>2, <2>3, BlockedCount DEF Sound
  <1> QED
    BY <1>0, <1>5, <1>7, <1>9, <1>11, <1>12, <1>13, <1>14, <1>15 DEF Sound, s

\* The queues depend on neither saved, running and cpu, nor on the PCBs outside W.
LEMMA SameSound ==
  ASSUME NEW q, NEW W, Sound(q, W), NEW r \in Record,
         r.ready = q.ready, r.ready_processes = q.ready_processes, r.queue = q.queue,
         r.sem = q.sem, r.blocked_processes = q.blocked_processes,
         \A x \in W : r.prio[x] = q.prio[x] /\ r.semkey[x] = q.semkey[x],
         \A x \in Pcb : Beyond < r.prio[x] /\ Beyond < r.original[x]
  PROVE  Sound(r, W)
  <1>1. Placed(r, W)
    BY SamePlaced DEF Sound
  <1>2. Blocked(r, W) = Blocked(q, W)
    BY DEF Blocked
  <1>3. r.blocked_processes = Cardinality(Blocked(r, W))
    BY <1>2 DEF Sound
  <1>4. \A key \in Key : Waiters(r, key)
    BY DEF Sound, Waiters
  <1> QED
    BY <1>1, <1>3, <1>4 DEF Sound

----------------------------------------------------------------------------
\* L being the PCBs in use: one may run, the others are in the queues, and a P on
\* a semaphore of the nucleus blocks.
Good(q, L) ==
  /\ L \subseteq Pcb
  /\ q.running \in L \cup {NULL}
  /\ q.running # NULL => q.semkey[q.running] = NoKey
  /\ Sound(q, L \ {q.running})
  /\ \A key \in KernelSem : q.sem[key] <= 0

\* What Good says of the running process and of the others.
LEMMA GoodFacts ==
  ASSUME NEW q, NEW L, Good(q, L)
  PROVE  /\ q \in Record /\ L \subseteq Pcb
         /\ Sound(q, L \ {q.running}) /\ Placed(q, L \ {q.running})
         /\ q.running # NULL => q.running \in L /\ q.running \in Pcb \ (L \ {q.running})
                                /\ q.semkey[q.running] = NoKey
         /\ q.running = NULL => L \ {q.running} = L
         /\ \A x \in Pcb : Beyond < q.prio[x] /\ Beyond < q.original[x]
  BY PcbFacts DEF Good, Sound, Placed

\* The state of the processor may change freely.
LEMMA GoodCpu ==
  ASSUME NEW q, NEW L, Good(q, L), NEW c \in CpuState, NEW r, r = [q EXCEPT !.cpu = c]
  PROVE  /\ Good(r, L)
         /\ r.cpu = c /\ r.running = q.running /\ r.ready = q.ready /\ r.queue = q.queue
         /\ r.semkey = q.semkey
  <1>1. q \in Record
    BY GoodFacts
  <1>2. /\ r \in Record
        /\ r.ready = q.ready /\ r.ready_processes = q.ready_processes
        /\ r.queue = q.queue /\ r.sem = q.sem
        /\ r.blocked_processes = q.blocked_processes
        /\ r.prio = q.prio /\ r.semkey = q.semkey /\ r.original = q.original
        /\ r.running = q.running /\ r.cpu = c
    BY <1>1 DEF Record
  <1>3. Sound(r, L \ {q.running})
    BY <1>2, GoodFacts, SameSound
  <1> QED
    BY <1>2, <1>3 DEF Good

\* When the processor is in user mode somebody runs; it waits, or halts, only if
\* there is somebody, or nobody, to wait for.
Waits(q, L) ==
  /\ q.cpu = "user" => q.running # NULL
  /\ q.cpu = "idle" => q.ready = <<>> /\ \E p \in L : q.semkey[p] # NoKey
  /\ q.cpu = "halt" => q.ready = <<>> /\ \A p \in L : q.semkey[p] = NoKey

\* schedule: the running process joins the ready, and one of them runs.
LEMMA ScheduleGood ==
  ASSUME NEW q, NEW L, Good(q, L), NEW old, NEW r, r = schedule(q, old)
  PROVE  /\ Good(r, L) /\ Waits(r, L)
         /\ r.queue = q.queue /\ r.cpu \in {"user", "wild", "idle", "halt"}
  <1> DEFINE u == q.running
             W == L \ {u}
  <1>1. /\ q \in Record /\ L \subseteq Pcb /\ Placed(q, W) /\ Sound(q, W)
        /\ u # NULL => u \in L /\ u \in Pcb \ W /\ q.semkey[u] = NoKey
        /\ u = NULL => W = L
        /\ \A x \in Pcb : Beyond < q.prio[x] /\ Beyond < q.original[x]
    BY GoodFacts
  <1>2. q.ready \in Seq(Pcb) /\ q.ready_processes = Len(q.ready)
    BY <1>1 DEF Placed, Record
  <1>3. CASE q.ready_processes > 0
    <2> DEFINE p  == headProcQ(q.ready)
               k1 == [q EXCEPT !.ready = removeProcQ(@), !.ready_processes = @ - 1]
               k2 == IF k1.running = NULL THEN k1
                     ELSE insertProcqReady(k1, old, k1.running)
    <2>1. q.ready # <<>>
      BY <1>2, <1>3
    <2>2. /\ p \in W /\ q.semkey[p] = NoKey /\ Placed(k1, W \ {p}) /\ k1 \in Record
      BY <1>1, <2>1, RemoveReadyPlaced DEF Placed
    <2>3. r = [k2 EXCEPT !.running = p, !.cpu = LDST(k2.saved[p])]
      BY <1>3 DEF schedule
    <2>4. /\ k1.queue = q.queue /\ k1.semkey = q.semkey /\ k1.sem = q.sem
          /\ k1.blocked_processes = q.blocked_processes /\ k1.running = u
      BY <1>1 DEF Record
    <2> HIDE DEF k1, p, u
    <2>5. Sound(k1, W \ {p})
      <3>1. Blocked(k1, W \ {p}) = Blocked(q, W)
        BY <2>2, <2>4 DEF Blocked
      <3> QED
        BY <1>1, <2>2, <2>4, <3>1 DEF Sound, Waiters
    <2>6. /\ Sound(k2, L \ {p}) /\ k2 \in Record
          /\ k2.queue = q.queue /\ k2.semkey = q.semkey /\ k2.sem = q.sem
      <3>1. CASE u = NULL
        <4>1. k2 = k1 /\ L \ {p} = W \ {p}
          BY <1>1, <2>4, <3>1
        <4> QED
          BY <2>2, <2>4, <2>5, <4>1
      <3>2. CASE u # NULL
        <4>1. k2 = insertProcqReady(k1, old, u) /\ u \in Pcb
          BY <1>1, <2>4, <3>2
        <4>2. u \in Pcb \ (W \ {p}) /\ k1.semkey[u] = NoKey
          BY <1>1, <2>4, <3>2
        <4> HIDE DEF k2
        <4>3. Sound(k2, (W \ {p}) \cup {u}) /\ k2.semkey = k1.semkey /\ k2.sem = k1.sem
          BY <2>5, <4>1, <4>2, InsertReadySound
        <4>4. k2.queue = k1.queue
          BY <2>2, <4>1, InsertReadyFields
        <4>5. (W \ {p}) \cup {u} = L \ {p}
          BY <1>1, <2>2, <3>2
        <4> QED
          BY <2>4, <4>3, <4>4, <4>5 DEF Sound, Placed
      <3> QED
        BY <3>1, <3>2
    <2> HIDE DEF k2
    <2>7. LDST(k2.saved[p]) \in {"user", "wild"}
      BY DEF LDST
    <2>8. p \in Pcb \cup {NULL} /\ p \in Pcb /\ p # NULL /\ p \in L
      BY <1>1, <2>2, PcbFacts
    <2>9. /\ r.running = p /\ r.cpu \in {"user", "wild"}
          /\ r.ready = k2.ready /\ r.ready_processes = k2.ready_processes
          /\ r.queue = k2.queue /\ r.sem = k2.sem /\ r.semkey = k2.semkey
          /\ r.blocked_processes = k2.blocked_processes
          /\ r.prio = k2.prio /\ r.original = k2.original
      BY <2>3, <2>6, <2>7 DEF Record
    <2>10. r \in Record
      <3>1. LDST(k2.saved[p]) \in CpuState
        BY <2>7 DEF CpuState
      <3> QED
        BY <2>3, <2>6, <2>8, <3>1 DEF Record
    <2>11. Sound(r, L \ {p})
      <3>1. \A x \in Pcb : Beyond < r.prio[x] /\ Beyond < r.original[x]
        BY <2>6, <2>9 DEF Sound, Placed
      <3> QED
        BY <2>6, <2>9, <2>10, <3>1, SameSound
    <2>12. Good(r, L)
      <3>1. \A key \in KernelSem : r.sem[key] <= 0
        BY <2>6, <2>9 DEF Good
      <3> QED
        BY <1>1, <2>2, <2>6, <2>8, <2>9, <2>11, <3>1 DEF Good
    <2>13. Waits(r, L)
      BY <2>8, <2>9 DEF Waits
    <2> QED
      BY <2>6, <2>9, <2>12, <2>13
  <1>4. CASE ~(q.ready_processes > 0)
    <2> DEFINE c == IF q.blocked_processes > 0 THEN "idle" ELSE "halt"
    <2>1. r = [q EXCEPT !.cpu = c]
      BY <1>4 DEF schedule
    <2>2. c \in CpuState
      BY DEF CpuState
    <2>3. /\ Good(r, L) /\ r.cpu = c /\ r.ready = q.ready /\ r.queue = q.queue
          /\ r.semkey = q.semkey
      <3> HIDE DEF c
      <3> QED
        BY <2>1, <2>2, GoodCpu
    <2>4. r.ready = <<>>
      BY <1>2, <1>4, <2>3
    <2>5. Blocked(q, W) \subseteq Pcb /\ q.blocked_processes = Cardinality(Blocked(q, W))
      BY <1>1 DEF Sound, Blocked
    <2>6. /\ q.blocked_processes \in Nat
          /\ q.blocked_processes = 0 <=> Blocked(q, W) = {}
      BY <2>5, BlockedCount
    <2>7. Blocked(q, W) = {p \in L : r.semkey[p] # NoKey}
      BY <1>1, <2>3, PcbFacts DEF Blocked
    <2>8. Waits(r, L)
      <3>1. CASE q.blocked_processes > 0
        <4>1. r.cpu = "idle"
          BY <2>3, <3>1
        <4>2. Blocked(q, W) # {}
          BY <2>6, <3>1
        <4>3. \E p \in L : r.semkey[p] # NoKey
          BY <2>7, <4>2
        <4> QED
          BY <2>4, <4>1, <4>3 DEF Waits
      <3>2. CASE ~(q.blocked_processes > 0)
        <4>1. r.cpu = "halt"
          BY <2>3, <3>2
        <4>2. Blocked(q, W) = {}
          BY <2>6, <3>2
        <4>3. \A p \in L : r.semkey[p] = NoKey
          BY <2>7, <4>2
        <4> QED
          BY <2>4, <4>1, <4>3 DEF Waits
      <3> QED
        BY <3>1, <3>2
    <2> QED
      BY <2>3, <2>8
  <1> QED
    BY <1>3, <1>4

\* verhogen, for the system.
LEMMA VerhogenGood ==
  ASSUME NEW q, NEW L, Good(q, L), NEW key \in Key, key \in KernelSem => q.sem[key] < 0,
         NEW r, r = Verhogen(q, key)
  PROVE  Good(r, L) /\ r.running = q.running /\ r.cpu = q.cpu
  <1>1. /\ q \in Record /\ L \subseteq Pcb /\ Sound(q, L \ {q.running})
        /\ q.running # NULL => q.running \in Pcb \ (L \ {q.running})
      BY GoodFacts
  <1>2. /\ Sound(r, L \ {q.running}) /\ r.sem = [q.sem EXCEPT ![key] = @ + 1]
        /\ \A x \in Pcb \ (L \ {q.running}) : r.semkey[x] = q.semkey[x]
        /\ r.running = q.running /\ r.cpu = q.cpu
    BY <1>1, VerhogenSound
  <1>3. r.running # NULL => r.semkey[r.running] = NoKey
    BY <1>1, <1>2 DEF Good
  <1>4. ASSUME NEW x \in KernelSem PROVE r.sem[x] <= 0
    <2>1. q.sem \in [Key -> Int] /\ x \in Key /\ q.sem[x] <= 0
      BY <1>1 DEF Good, Record, Key
    <2>2. CASE x = key
      <3>1. r.sem[x] = q.sem[x] + 1 /\ q.sem[x] < 0 /\ q.sem[x] \in Int
        BY <1>2, <2>1, <2>2
      <3> QED
        BY <3>1
    <2>3. CASE x # key
      BY <1>2, <2>1, <2>3
    <2> QED
      BY <2>2, <2>3
  <1> QED
    BY <1>1, <1>2, <1>3, <1>4 DEF Good

\* passeren by the running process.
LEMMA PasserenGood ==
  ASSUME NEW q, NEW L, Good(q, L), NEW key \in Key, q.running # NULL,
         NEW r, r = Passeren(q, key)
  PROVE  Good(r, L) /\ r.cpu = q.cpu
  <1> DEFINE W == L \ {q.running}
  <1>1. /\ q \in Record /\ L \subseteq Pcb /\ Sound(q, W) /\ q.running \in L
        /\ q.running \in Pcb \ W /\ q.semkey[q.running] = NoKey
    BY GoodFacts
  <1>2. /\ r.sem = [q.sem EXCEPT ![key] = @ - 1] /\ r.cpu = q.cpu
        /\ \/ /\ r.running = q.running /\ r.semkey = q.semkey
              /\ Sound(r, W)
           \/ /\ r.running = NULL
              /\ Sound(r, W \cup {q.running})
    <2> HIDE DEF W
    <2> QED
      BY <1>1, PasserenSound
  <1>3. ASSUME NEW x \in KernelSem PROVE r.sem[x] <= 0
    <2>1. q.sem \in [Key -> Int] /\ x \in Key /\ q.sem[x] <= 0
      BY <1>1 DEF Good, Record, Key
    <2>2. q.sem[x] \in Int /\ (r.sem[x] = q.sem[x] - 1 \/ r.sem[x] = q.sem[x])
      BY <1>2, <2>1
    <2> QED
      BY <2>1, <2>2
  <1>4. W \cup {q.running} = L /\ L \ {NULL} = L
    BY <1>1, PcbFacts
  <1> QED
    BY <1>1, <1>2, <1>3, <1>4 DEF Good

\* SYS3 takes its victim from wherever it is.
LEMMA RemoveGood ==
  ASSUME NEW q, NEW L, Good(q, L), NEW pid \in L, NEW r, r = Remove(q, pid)
  PROVE  Good(r, L \ {pid}) /\ r.cpu = q.cpu
  <1> DEFINE W == L \ {q.running}
  <1>1. /\ q \in Record /\ L \subseteq Pcb /\ Placed(q, W) /\ Sound(q, W)
        /\ q.running # NULL => q.running \in L /\ q.running \in Pcb \ W
                               /\ q.semkey[q.running] = NoKey
        /\ \A x \in Pcb : Beyond < q.prio[x] /\ Beyond < q.original[x]
    BY GoodFacts
  <1>2. pid \in Pcb /\ pid # NULL
    BY <1>1, PcbFacts
  <1>3. \A x \in KernelSem : x \in Key /\ q.sem[x] <= 0
    BY DEF Good, Key
  <1>4. CASE q.semkey[pid] # NoKey
    <2> DEFINE key == q.semkey[pid]
    <2>1. key \in Key /\ pid # q.running /\ pid \in W
      BY <1>1, <1>2, <1>4 DEF Record
    <2>2. r = RemoveBlocked(q, pid)
      BY <1>4, <2>1 DEF Remove, RemoveBlocked
    <2> HIDE DEF W
    <2>4. /\ Sound(r, W \ {pid})
          /\ r.sem = [q.sem EXCEPT ![key] = @ + 1] /\ q.sem[key] < 0
          /\ \A x \in Pcb \ W : r.semkey[x] = q.semkey[x]
          /\ r.running = q.running /\ r.cpu = q.cpu
      BY <1>1, <2>1, <2>2, RemoveBlockedSound
    <2> HIDE DEF key
    <2>5. W \ {pid} = (L \ {pid}) \ {r.running}
      BY <2>4 DEF W
    <2>6. r.running \in (L \ {pid}) \cup {NULL}
      BY <2>1, <2>4 DEF Good
    <2>7. r.running # NULL => r.semkey[r.running] = NoKey
      BY <1>1, <2>4
    <2>8. ASSUME NEW x \in KernelSem PROVE r.sem[x] <= 0
      <3>1. q.sem \in [Key -> Int] /\ q.sem[x] \in Int
        BY <1>1, <1>3 DEF Record
      <3>2. CASE x = key
        <4>1. r.sem[x] = q.sem[x] + 1 /\ q.sem[x] < 0
          BY <1>3, <2>4, <3>1, <3>2
        <4> QED
          BY <3>1, <4>1
      <3>3. CASE x # key
        BY <1>3, <2>4, <3>1, <3>3
      <3> QED
        BY <3>2, <3>3
    <2> QED
      BY <1>1, <2>4, <2>5, <2>6, <2>7, <2>8 DEF Good
  <1>5. CASE q.semkey[pid] = NoKey /\ pid # q.running
    <2>1. r = [q EXCEPT !.ready = outProcQ(@, pid), !.ready_processes = @ - 1]
      BY <1>5 DEF Remove
    <2>2. pid \in W
      BY <1>5
    <2> HIDE DEF W
    <2>3. Placed(r, W \ {pid})
      BY <1>1, <1>5, <2>1, <2>2, OutReadyPlaced
    <2>4. /\ r.queue = q.queue /\ r.semkey = q.semkey /\ r.sem = q.sem
          /\ r.blocked_processes = q.blocked_processes
          /\ r.running = q.running /\ r.cpu = q.cpu
      BY <1>1, <2>1 DEF Record
    <2>5. Sound(r, W \ {pid})
      <3>1. Blocked(r, W \ {pid}) = Blocked(q, W)
        BY <1>5, <2>2, <2>4 DEF Blocked
      <3> QED
        BY <1>1, <2>3, <2>4, <3>1 DEF Sound, Waiters
    <2>6. W \ {pid} = (L \ {pid}) \ {r.running}
      BY <2>4 DEF W
    <2> QED
      BY <1>1, <1>3, <1>5, <2>4, <2>5, <2>6 DEF Good
  <1>6. CASE pid = q.running
    <2>1. q.semkey[pid] = NoKey
      BY <1>1, <1>2, <1>6
    <2>2. r = [q EXCEPT !.running = NULL]
      BY <1>6, <2>1 DEF Remove
    <2>3. NULL \in Pcb \cup {NULL}
      OBVIOUS
    <2>4. /\ r \in Record
          /\ r.ready = q.ready /\ r.ready_processes = q.ready_processes
          /\ r.queue = q.queue /\ r.sem = q.sem
          /\ r.blocked_processes = q.blocked_processes
          /\ r.prio = q.prio /\ r.semkey = q.semkey /\ r.original = q.original
          /\ r.running = NULL /\ r.cpu = q.cpu
      BY <1>1, <2>2, <2>3 DEF Record
    <2>5. Sound(r, W)
      BY <1>1, <2>4, SameSound
    <2>6. W = (L \ {pid}) \ {r.running}
      BY <1>1, <1>6, <2>4, PcbFacts
    <2> QED
      BY <1>1, <1>3, <2>4, <2>5, <2>6 DEF Good
  <1> QED
    BY <1>4, <1>5, <1>6

\* CreateProcess: a PCB that was free gets a state, a priority and a place.
Created(q, p, n) ==
  insertProcqReady([q EXCEPT !.prio[p] = n, !.original[p] = n,
                             !.semkey[p] = NoKey, !.saved[p] = "user"], "none", p)

\* SYS2 makes ready a PCB that no process had.
LEMMA CreateGood ==
  ASSUME NEW q, NEW L, Good(q, L), NEW p \in Pcb \ L, NEW n \in Prio,
         NEW r, r = Created(q, p, n)
  PROVE  Good(r, L \cup {p}) /\ r.running = q.running /\ r.cpu = q.cpu
  <1> DEFINE W  == L \ {q.running}
             pr == [q.prio EXCEPT ![p] = n]
             og == [q.original EXCEPT ![p] = n]
             sk == [q.semkey EXCEPT ![p] = NoKey]
             sv == [q.saved EXCEPT ![p] = "user"]
             q1 == [q EXCEPT !.prio = pr, !.original = og, !.semkey = sk, !.saved = sv]
  <1>1. /\ q \in Record /\ L \subseteq Pcb /\ Sound(q, W)
        /\ q.running # NULL => q.running \in L /\ q.running \in Pcb \ W
                               /\ q.semkey[q.running] = NoKey
        /\ \A x \in Pcb : Beyond < q.prio[x] /\ Beyond < q.original[x]
        /\ p # NULL
    BY GoodFacts, PcbFacts
  <1>2. n \in Int /\ Beyond < n
    BY PrioAssumption
  <1>3. /\ pr \in [Pcb -> Int] /\ og \in [Pcb -> Int]
        /\ sk \in [Pcb -> Key \cup {NoKey}] /\ sv \in [Pcb -> Context]
        /\ sk[p] = NoKey
        /\ \A x \in Pcb : x # p => pr[x] = q.prio[x] /\ sk[x] = q.semkey[x]
    BY <1>1, <1>2 DEF Record, Context
  <1>4. \A x \in Pcb : Beyond < pr[x] /\ Beyond < og[x]
    BY <1>1, <1>2 DEF Record
  <1>5. r = insertProcqReady(q1, "none", p)
    BY DEF Created
  <1> HIDE DEF pr, og, sk, sv
  <1>6. /\ q1 \in Record
        /\ q1.ready = q.ready /\ q1.ready_processes = q.ready_processes
        /\ q1.queue = q.queue /\ q1.sem = q.sem
        /\ q1.blocked_processes = q.blocked_processes
        /\ q1.prio = pr /\ q1.semkey = sk /\ q1.original = og
        /\ q1.running = q.running /\ q1.cpu = q.cpu
    BY <1>1, <1>3 DEF Record
  <1> HIDE DEF q1
  <1>7. Sound(q1, W)
    <2>1. \A x \in W : q1.prio[x] = q.prio[x] /\ q1.semkey[x] = q.semkey[x]
      BY <1>1, <1>3, <1>6
    <2>2. \A x \in Pcb : Beyond < q1.prio[x] /\ Beyond < q1.original[x]
      BY <1>4, <1>6
    <2> QED
      BY <1>1, <1>6, <2>1, <2>2, SameSound
  <1>8. /\ Sound(r, W \cup {p}) /\ r.semkey = q1.semkey /\ r.sem = q1.sem
        /\ r.running = q1.running /\ r.cpu = q1.cpu
    <2>1. p \in Pcb \ W /\ q1.semkey[p] = NoKey
      BY <1>3, <1>6
    <2> HIDE DEF W
    <2> QED
      BY <1>5, <1>7, <2>1, InsertReadySound
  <1>9. W \cup {p} = (L \cup {p}) \ {r.running}
    BY <1>1, <1>6, <1>8 DEF Good
  <1>10. r.running # NULL => r.semkey[r.running] = NoKey
    BY <1>1, <1>3, <1>6, <1>8
  <1>11. \A x \in KernelSem : r.sem[x] <= 0
    BY <1>6, <1>8 DEF Good
  <1> QED
    BY <1>1, <1>6, <1>8, <1>9, <1>10, <1>11 DEF Good

\* The end of a slice: all in the ready queue rise together.
LEMMA AgeGood ==
  ASSUME NEW q, NEW L, Good(q, L),
         NEW r, r = [q EXCEPT !.prio = [p \in Pcb |-> IF p \in Elems(q.ready) THEN @[p] + 1
                                                      ELSE @[p]]]
  PROVE  Good(r, L) /\ r.queue = q.queue /\ r.running = q.running
  <1> DEFINE W  == L \ {q.running}
             T  == At(q, W, NoKey)
             pr == [p \in Pcb |-> IF p \in Elems(q.ready) THEN q.prio[p] + 1 ELSE q.prio[p]]
  <1>1. /\ q \in Record /\ L \subseteq Pcb /\ Placed(q, W) /\ Sound(q, W)
        /\ \A x \in Pcb : Beyond < q.prio[x] /\ Beyond < q.original[x]
    BY GoodFacts
  <1>2. /\ q.ready \in Seq(Pcb) /\ q.prio \in [Pcb -> Int]
        /\ q.queue \in [Key -> Seq(Pcb)]
    BY <1>1 DEF Record
  <1>3. /\ Row(q.ready, q.prio, T) /\ Elems(q.ready) = T
        /\ \A key \in Key : Row(q.queue[key], q.prio, At(q, W, key))
        /\ q.ready_processes = Len(q.ready) /\ W \subseteq Pcb
    BY <1>1 DEF Placed, Row
  <1>4. /\ pr \in [Pcb -> Int]
        /\ \A x \in Pcb : pr[x] = IF x \in T THEN q.prio[x] + 1 ELSE q.prio[x]
    BY <1>2, <1>3
  <1>5. r = [q EXCEPT !.prio = pr]
    OBVIOUS
  <1> HIDE DEF pr
  <1>6. /\ r \in Record /\ r.prio = pr
        /\ r.ready = q.ready /\ r.ready_processes = q.ready_processes
        /\ r.queue = q.queue /\ r.sem = q.sem
        /\ r.blocked_processes = q.blocked_processes
        /\ r.semkey = q.semkey /\ r.original = q.original
        /\ r.running = q.running /\ r.cpu = q.cpu
    BY <1>1, <1>4, <1>5 DEF Record
  <1>7. \A key : At(r, W, key) = At(q, W, key)
    BY <1>6 DEF At
  <1>8. Row(q.ready, pr, T)
    <2>1. 1 \in Int /\ \A x \in T : pr[x] = q.prio[x] + 1
      BY <1>3, <1>4 DEF At
    <2> QED
      BY <1>2, <1>3, <1>4, <2>1, RowPrio
  <1>9. ASSUME NEW key \in Key PROVE Row(q.queue[key], pr, At(q, W, key))
    <2>1. q.queue[key] \in Seq(Pcb) /\ Row(q.queue[key], q.prio, At(q, W, key))
      BY <1>2, <1>3
    <2>2. \A x \in At(q, W, key) : pr[x] = q.prio[x]
      BY <1>3, <1>4, KeyAssumption DEF At
    <2> QED
      BY <1>2, <1>4, <2>1, <2>2, RowKeep
  <1>10. \A x \in Pcb : Beyond < r.prio[x] /\ Beyond < r.original[x]
    <2> SUFFICES ASSUME NEW x \in Pcb PROVE Beyond < pr[x]
      BY <1>1, <1>6
    <2>1. Beyond \in Int /\ q.prio[x] \in Int /\ Beyond < q.prio[x]
      BY <1>1, <1>2, PrioAssumption
    <2> QED
      BY <1>4, <2>1
  <1>11. Placed(r, W)
    BY <1>3, <1>6, <1>7, <1>8, <1>9, <1>10 DEF Placed
  <1>12. Sound(r, W)
    <2>1. Blocked(r, W) = Blocked(q, W)
      BY <1>6 DEF Blocked
    <2> QED
      BY <1>1, <1>6, <1>11, <2>1 DEF Sound, Waiters
  <1> QED
    BY <1>6, <1>12 DEF Good

\* The end of a system call.
LEMMA EndsGood ==
  ASSUME NEW q, NEW L, Good(q, L), q.cpu = "user",
         NEW r, r = IF q.running # NULL THEN q ELSE schedule(q, "none")
  PROVE  Good(r, L) /\ Waits(r, L)
  <1>1. CASE q.running # NULL
    BY <1>1 DEF Waits
  <1>2. CASE q.running = NULL
    BY <1>2, ScheduleGood
  <1> QED
    BY <1>1, <1>2

----------------------------------------------------------------------------
(* Kernel uses Family, and FamilyProofs extends it: the definitions of Fam and
   of FP are the same, under two names. *)

\* Fam and FP are two instances of one module: their definitions are equal.
LEMMA SameNames ==
  /\ Fam!Pcb = FP!Pcb /\ Fam!NULL = FP!NULL /\ Fam!NoLoop = FP!NoLoop
  /\ Fam!Free = FP!Free /\ Fam!Live = FP!Live /\ (Fam!Ready <=> FP!Ready)
  /\ Fam!allocPcb = FP!allocPcb
  BY DEF Fam!Pcb, FP!Pcb, Fam!NULL, FP!NULL, Fam!NoLoop, FP!NoLoop, Fam!Free, FP!Free,
         Fam!Live, FP!Live, Fam!Ready, FP!Ready, Fam!allocPcb, FP!allocPcb

LEMMA SameOutChild == ASSUME NEW t, NEW p PROVE Fam!outChild(t, p) = FP!outChild(t, p)
  BY DEF Fam!outChild, FP!outChild, Fam!PromoteSibling, FP!PromoteSibling,
         Fam!list_del, FP!list_del, Fam!list_empty, FP!list_empty,
         Fam!list_add_between, FP!list_add_between, Fam!NULL, FP!NULL

LEMMA SameInsertChild ==
  ASSUME NEW t, NEW a, NEW p PROVE Fam!insertChild(t, a, p) = FP!insertChild(t, a, p)
  BY DEF Fam!insertChild, FP!insertChild, Fam!INIT_LIST_HEAD, FP!INIT_LIST_HEAD,
         Fam!ReadyChild, FP!ReadyChild, Fam!emptyChild, FP!emptyChild,
         Fam!list_empty, FP!list_empty, Fam!list_add_between, FP!list_add_between,
         Fam!list_add_tail, FP!list_add_tail, Fam!firstChild, FP!firstChild,
         Fam!NULL, FP!NULL

LEMMA SameChildTests ==
  ASSUME NEW t, NEW p
  PROVE  /\ Fam!ReadyChild(t, p) = FP!ReadyChild(t, p)
         /\ Fam!emptyChild(t, p) <=> FP!emptyChild(t, p)
  BY DEF Fam!ReadyChild, FP!ReadyChild, Fam!INIT_LIST_HEAD, FP!INIT_LIST_HEAD,
         Fam!emptyChild, FP!emptyChild, Fam!list_empty, FP!list_empty,
         Fam!NULL, FP!NULL

LEMMA SameWalks ==
  ASSUME NEW t, NEW p, NEW S
  PROVE  /\ Fam!Visited(t, p, S) = FP!Visited(t, p, S)
         /\ Fam!WalkEnds(t, p, S) <=> FP!WalkEnds(t, p, S)
  <1>1. Fam!Visited(t, p, S) = FP!Visited(t, p, S)
    BY DEF Fam!Visited, FP!Visited, Fam!Pcb, FP!Pcb, Fam!NULL, FP!NULL
  <1> QED
    BY <1>1 DEF Fam!WalkEnds, FP!WalkEnds, Fam!NULL, FP!NULL

LEMMA SameAdopter ==
  ASSUME NEW t, NEW p, NEW S PROVE Fam!Adopter(t, S, p) = FP!Adopter(t, S, p)
  <1>1. Fam!Tutor(t, S, p) = FP!Tutor(t, S, p)
    BY DEF Fam!Tutor, FP!Tutor, Fam!NULL, FP!NULL, Fam!Visited, FP!Visited,
           Fam!Pcb, FP!Pcb
  <1>2. Fam!TreeTop(t, p) = FP!TreeTop(t, p)
    BY DEF Fam!TreeTop, FP!TreeTop, Fam!NULL, FP!NULL, Fam!Visited, FP!Visited,
           Fam!Pcb, FP!Pcb
  <1> QED
    BY <1>1, <1>2 DEF Fam!Adopter, FP!Adopter, Fam!NULL, FP!NULL

LEMMA SameAdopt ==
  ASSUME NEW t, NEW a, NEW x PROVE Fam!Adopt(t, a, x) = FP!Adopt(t, a, x)
  <1> DEFINE u == FP!outChild(t, x)
  <1>1. Fam!outChild(t, x) = u
    BY SameOutChild
  <1>2. Fam!insertChild(u, a, x) = FP!insertChild(u, a, x)
    <2> HIDE DEF u
    <2> QED
      BY SameInsertChild
  <1>3. /\ Fam!Adopt(t, a, x) = Fam!insertChild(Fam!outChild(t, x), a, x)
        /\ FP!Adopt(t, a, x) = FP!insertChild(u, a, x)
    BY DEF Fam!Adopt, FP!Adopt
  <1> QED
    BY <1>1, <1>2, <1>3

LEMMA SameBury == ASSUME NEW t, NEW p PROVE Fam!Bury(t, p) <=> FP!Bury(t, p)
  BY SameOutChild DEF Fam!Bury, FP!Bury

LEMMA SameTerminate ==
  ASSUME NEW r, NEW p PROVE Fam!TerminateProcess(r, p) <=> FP!TerminateProcess(r, p)
  BY SameNames, SameChildTests, SameWalks, SameAdopter, SameAdopt, SameBury
     DEF Fam!TerminateProcess, FP!TerminateProcess, Fam!Hang, FP!Hang,
         Fam!firstChild, FP!firstChild, Fam!AdopterFound, FP!AdopterFound,
         Fam!Descendant, FP!Descendant, Fam!DescendantEnds, FP!DescendantEnds

LEMMA SameCreate ==
  ASSUME NEW r PROVE Fam!CreateProcess(r) <=> FP!CreateProcess(r)
  <1> DEFINE t == [tree EXCEPT !.parent[FP!allocPcb] = FP!NULL]
  <1>1. Fam!insertChild(t, r, FP!allocPcb) = FP!insertChild(t, r, FP!allocPcb)
    <2> HIDE DEF t
    <2> QED
      BY SameInsertChild
  <1> QED
    BY <1>1, SameNames DEF Fam!CreateProcess, FP!CreateProcess

LEMMA SameLoop ==
  /\ Fam!AdoptNext <=> FP!AdoptNext
  /\ Fam!TerminateEnd <=> FP!TerminateEnd
  BY SameNames, SameAdopt, SameBury
     DEF Fam!AdoptNext, FP!AdoptNext, Fam!TerminateEnd, FP!TerminateEnd

LEMMA SameTutor == ASSUME NEW r PROVE Fam!Set_Tutor(r) <=> FP!Set_Tutor(r)
  BY SameNames DEF Fam!Set_Tutor, FP!Set_Tutor

LEMMA SameInit == Fam!Init <=> FP!Init
  BY SameNames DEF Fam!Init, FP!Init, Fam!EmptyTree, FP!EmptyTree,
                   Fam!NoLinks, FP!NoLinks, Fam!NULL, FP!NULL, Fam!Pcb, FP!Pcb

LEMMA SameNext ==
  /\ Fam!Next <=> FP!Next
  /\ Fam!vars = FP!vars
  BY SameNames, SameTerminate, SameCreate, SameLoop, SameTutor
     DEF Fam!Next, FP!Next, Fam!vars, FP!vars

----------------------------------------------------------------------------

\* An exception is handled to its end, so nothing but the adoption loop changes
\* anything while it runs.
IInv ==
  /\ FP!IInv
  /\ Good(k, Live)
  /\ Waits(k, Live)
  /\ loop # Fam!NoLoop => k.cpu = "user"
  /\ mask \in [Pcb -> SUBSET {"timer", "device"}]
  /\ timer_cause \in {"TIMESLICE", "PSEUDOCLOCK"}
  /\ dev \in [Device -> DevState]

\* A step of the process tree keeps its invariant.
LEMMA FamilyInv ==
  ASSUME IInv, [FP!Next]_(FP!vars)
  PROVE  FP!IInv'
  BY FamilyAssumption, FP!NextInv DEF IInv

\* So does a step that leaves it alone.
LEMMA SameFamily ==
  ASSUME IInv, UNCHANGED family
  PROVE  FP!IInv' /\ Live' = Live /\ loop' = loop /\ [FP!Next]_(FP!vars)
  <1>1. UNCHANGED <<tree, tutors, free, loop, hung, created>>
    BY DEF family
  <1>2. [FP!Next]_(FP!vars)
    BY <1>1 DEF FP!vars
  <1>3. Live' = Live /\ loop' = loop
    BY <1>1 DEF Live, Fam!Live, Fam!Free, Fam!Pcb
  <1> QED
    BY <1>2, <1>3, FamilyInv

\* Who is in use before and after a step of the process tree.
LEMMA LiveFacts ==
  /\ Live = FP!Live /\ Pcb = FP!Pcb /\ NULL = FP!NULL
  /\ Live = Pcb \ FP!Free /\ Live' = Pcb \ (FP!Free)'
  <1>1. Live = FP!Live /\ Pcb = FP!Pcb /\ NULL = FP!NULL
    BY SameNames DEF Live, Pcb, NULL
  <1>2. Live = Pcb \ FP!Free
    BY <1>1 DEF FP!Live
  <1>3. Live' = Pcb \ (FP!Free)'
    BY DEF Live, Fam!Live, Fam!Free, FP!Free, Pcb, Fam!Pcb
  <1> QED
    BY <1>1, <1>2, <1>3

\* In user mode the process that runs is one in use.
LEMMA RunningLive ==
  ASSUME IInv, k.cpu = "user"
  PROVE  k.running \in Live /\ k.running # NULL
  BY DEF IInv, Good, Waits

\* Who makes the system call goes on, or the scheduler runs.
LEMMA SyscallInv ==
  ASSUME NEW q, NEW L, Good(q, L), q.cpu = "user", SyscallEnds(q),
         timer_cause \in {"TIMESLICE", "PSEUDOCLOCK"}
  PROVE  /\ Good(k', L) /\ Waits(k', L)
         /\ timer_cause' \in {"TIMESLICE", "PSEUDOCLOCK"}
  <1>1. k' = IF q.running # NULL THEN q ELSE schedule(q, "none")
    BY DEF SyscallEnds
  <1>2. Good(k', L) /\ Waits(k', L)
    BY <1>1, EndsGood
  <1>3. timer_cause' \in {"TIMESLICE", "PSEUDOCLOCK"}
    BY DEF SyscallEnds, TimerAfter, set_timer
  <1> QED
    BY <1>2, <1>3

\* boot.c: the system starts in a good state.
LEMMA InitInv == Init => IInv
  <1> SUFFICES ASSUME Init PROVE IInv
    OBVIOUS
  <1>1. FP!IInv /\ loop = Fam!NoLoop
    <2>1. FP!Init
      BY SameInit DEF Init
    <2> QED
      BY <2>1, FamilyAssumption, FP!InitInv, SameNames DEF FP!Init
  <1>2. Live = {MaxProc} /\ MaxProc \in Pcb /\ MaxProc # NULL
    BY FamilyAssumption
       DEF Init, Fam!Init, Live, Fam!Live, Fam!Free, Pcb, Fam!Pcb, NULL, Fam!NULL
  <1>3. /\ k.ready = <<>> /\ k.ready_processes = 0 /\ k.running = MaxProc
        /\ k.blocked_processes = 0 /\ k.cpu = "user"
        /\ k.queue = [key \in Key |-> <<>>] /\ k.semkey = [p \in Pcb |-> NoKey]
        /\ k.prio = [p \in Pcb |-> 0] /\ k.original = [p \in Pcb |-> 0]
        /\ k.saved = [p \in Pcb |-> "user"]
        /\ k.sem \in [Key -> SemInit \cup {0}]
        /\ \A i \in KernelSem : k.sem[i] = 0
        /\ k = [ready |-> k.ready, ready_processes |-> k.ready_processes,
                running |-> k.running, queue |-> k.queue,
                blocked_processes |-> k.blocked_processes, semkey |-> k.semkey,
                sem |-> k.sem, prio |-> k.prio, original |-> k.original,
                saved |-> k.saved, cpu |-> k.cpu]
    BY DEF Init
  <1>4. k \in Record
    <2>1. /\ k.ready \in Seq(Pcb) /\ k.ready_processes \in Int
          /\ k.running \in Pcb \cup {NULL} /\ k.queue \in [Key -> Seq(Pcb)]
          /\ k.blocked_processes \in Int /\ k.semkey \in [Pcb -> Key \cup {NoKey}]
          /\ k.prio \in [Pcb -> Int] /\ k.original \in [Pcb -> Int]
          /\ k.saved \in [Pcb -> Context] /\ k.cpu \in CpuState
      BY <1>2, <1>3 DEF Context, CpuState
    <2>2. k.sem \in [Key -> Int]
      BY <1>3, SemAssumption
    <2> QED
      BY <1>3, <2>1, <2>2 DEF Record
  <1>5. \A W : Row(<<>>, k.prio, W) <=> W = {}
    BY DEF Row, Injective, Sorted, Elems
  <1>6. Live \ {k.running} = {}
    BY <1>2, <1>3
  <1>7. Placed(k, {})
    <2>1. \A key : At(k, {}, key) = {}
      BY DEF At
    <2>2. \A x \in Pcb : Beyond < k.prio[x] /\ Beyond < k.original[x]
      BY <1>3, PrioAssumption
    <2>3. k.ready_processes = Len(k.ready)
      BY <1>3
    <2>4. Row(k.ready, k.prio, At(k, {}, NoKey))
      BY <1>3, <1>5, <2>1
    <2>5. \A key \in Key : Row(k.queue[key], k.prio, At(k, {}, key))
      BY <1>3, <1>5, <2>1
    <2> QED
      BY <1>4, <2>2, <2>3, <2>4, <2>5 DEF Placed
  <1>8. Sound(k, {})
    <2>1. Blocked(k, {}) = {} /\ Cardinality({}) = 0
      BY FS_EmptySet DEF Blocked
    <2>2. ASSUME NEW key \in Key PROVE Waiters(k, key)
      <3>1. k.sem[key] \in Nat /\ k.queue[key] = <<>>
        BY <1>3, SemAssumption
      <3> QED
        BY <3>1 DEF Waiters
    <2> QED
      BY <1>3, <1>7, <2>1, <2>2 DEF Sound
  <1>9. Good(k, Live)
    <2>1. \A key \in KernelSem : k.sem[key] <= 0
      BY <1>3
    <2> QED
      BY <1>2, <1>3, <1>6, <1>8, <2>1 DEF Good
  <1>10. Waits(k, Live)
    BY <1>2, <1>3 DEF Waits
  <1>11. /\ mask \in [Pcb -> SUBSET {"timer", "device"}]
         /\ timer_cause \in {"TIMESLICE", "PSEUDOCLOCK"}
         /\ dev \in [Device -> DevState]
    BY DEF Init, DevState
  <1> QED
    BY <1>1, <1>9, <1>10, <1>11 DEF IInv

----------------------------------------------------------------------------
\* What a step of the nucleus is to the process tree.
FamilyStep == [FP!Next]_(FP!vars)

\* A system call with no effect on the processes there are.
LEMMA CallInv ==
  ASSUME IInv, UserRuns, UNCHANGED family,
         NEW q, Good(q, Live), q.cpu = "user", SyscallEnds(q),
         mask' \in [Pcb -> SUBSET {"timer", "device"}], dev' \in [Device -> DevState]
  PROVE  IInv' /\ FamilyStep
  <1>1. FP!IInv' /\ Live' = Live /\ loop' = loop /\ FamilyStep
    BY SameFamily DEF FamilyStep
  <1>2. loop' = Fam!NoLoop
    BY <1>1 DEF UserRuns, Fam!Ready
  <1>3. /\ Good(k', Live) /\ Waits(k', Live)
        /\ timer_cause' \in {"TIMESLICE", "PSEUDOCLOCK"}
    BY SyscallInv DEF IInv
  <1> QED
    BY <1>1, <1>2, <1>3 DEF IInv

\* SYS4.
LEMMA VerhogenInv ==
  ASSUME IInv, NEW s \in UserSem, SysVerhogen(s)
  PROVE  IInv' /\ FamilyStep
  <1>1. /\ UserRuns /\ UNCHANGED family /\ SyscallEnds(Verhogen(k, s))
        /\ mask' = mask /\ dev' = dev /\ k.cpu = "user"
    BY DEF SysVerhogen, UserRuns
  <1>2. s \in Key /\ s \notin KernelSem
    BY KeyAssumption DEF Key
  <1>3. Good(Verhogen(k, s), Live) /\ Verhogen(k, s).cpu = "user"
    BY <1>1, <1>2, VerhogenGood DEF IInv
  <1> QED
    BY <1>1, <1>3, CallInv DEF IInv

\* SYS5, and the wait of SYS6 and SYS7.
LEMMA PasserenInv ==
  ASSUME IInv, UserRuns, NEW key \in Key, SyscallEnds(Passeren(k, key)),
         UNCHANGED <<family, mask>>, dev' \in [Device -> DevState]
  PROVE  IInv' /\ FamilyStep
  <1>1. k.cpu = "user" /\ k.running # NULL
    BY RunningLive DEF UserRuns
  <1>2. Good(Passeren(k, key), Live) /\ Passeren(k, key).cpu = "user"
    BY <1>1, PasserenGood DEF IInv
  <1> QED
    BY <1>2, CallInv DEF IInv

\* SYS2 takes a PCB that is not in use.
LEMMA AllocatedFree ==
  ASSUME IInv, k.cpu = "user", Fam!CreateProcess(k.running)
  PROVE  Fam!allocPcb \in Pcb \ Live /\ Live' = Live \cup {Fam!allocPcb}
  <1> DEFINE p == Fam!allocPcb
  <1>1. FP!TypeOK /\ FP!NoDoubleFree /\ FP!CreateProcess(k.running)
    BY SameCreate DEF IInv, FP!IInv
  <1>2. /\ free \in Seq(FP!Pcb) /\ free # <<>>
        /\ free' = SubSeq(free, 1, Len(free) - 1)
    BY <1>1 DEF FP!TypeOK, FP!CreateProcess
  <1>3. p \in FP!Free /\ p \in Pcb /\ (FP!Free)' = FP!Free \ {p}
    BY <1>1, <1>2, FamilyAssumption, FP!FreeAlloc, SameNames, LiveFacts
  <1> QED
    BY <1>3, LiveFacts

\* SYS2.
LEMMA CreateInv ==
  ASSUME IInv, NEW n \in Prio, NEW m \in Masks, SysCreate(n, m)
  PROVE  IInv' /\ FamilyStep
  <1> DEFINE p == Fam!allocPcb
             q == Created(k, p, n)
  <1>1. /\ k.cpu = "user" /\ Fam!CreateProcess(k.running) /\ SyscallEnds(q)
        /\ mask' = [mask EXCEPT ![p] = m] /\ dev' = dev
    BY DEF SysCreate, UserRuns, Created
  <1>2. k.running \in FP!Live /\ FP!CreateProcess(k.running)
    BY <1>1, RunningLive, SameCreate, LiveFacts
  <1>3. FamilyStep
    BY <1>2 DEF FamilyStep, FP!Next
  <1>4. p \in Pcb \ Live /\ Live' = Live \cup {p}
    BY <1>1, AllocatedFree
  <1>5. Good(q, Live') /\ q.cpu = "user"
    <2>1. Good(k, Live)
      BY DEF IInv
    <2> HIDE DEF p
    <2> QED
      BY <1>1, <1>4, <2>1, CreateGood
  <1>6. /\ Good(k', Live') /\ Waits(k', Live')
        /\ timer_cause' \in {"TIMESLICE", "PSEUDOCLOCK"}
    BY <1>1, <1>5, SyscallInv DEF IInv
  <1>7. loop' = Fam!NoLoop
    BY <1>1 DEF Fam!CreateProcess, Fam!Ready
  <1>8. mask' \in [Pcb -> SUBSET {"timer", "device"}]
    BY <1>1, <1>4, MaskAssumption DEF IInv
  <1>9. FP!IInv'
    BY <1>3, FamilyInv DEF FamilyStep
  <1> QED
    BY <1>1, <1>3, <1>6, <1>7, <1>8, <1>9 DEF IInv

\* The end of a process that is in use.
LEMMA BuryLive ==
  ASSUME IInv, NEW pid \in Live, free' = Append(free, pid)
  PROVE  Live' = Live \ {pid}
  <1>1. FP!TypeOK /\ FP!NoDoubleFree /\ pid \in FP!Live
    BY LiveFacts DEF IInv, FP!IInv
  <1>2. (FP!Free)' = FP!Free \cup {pid}
    BY <1>1, FamilyAssumption, FP!FreeAppend DEF FP!TypeOK
  <1> QED
    BY <1>2, LiveFacts

\* The end of SYS3: its victim is off the queues, and its PCB is free.
LEMMA EndInv ==
  ASSUME IInv, k.cpu = "user", NEW pid \in Live, free' = Append(free, pid),
         loop' = Fam!NoLoop, FamilyStep, SyscallEnds(Remove(k, pid)),
         UNCHANGED <<mask, dev>>
  PROVE  IInv'
  <1>1. Live' = Live \ {pid}
    BY BuryLive
  <1>2. Good(Remove(k, pid), Live') /\ Remove(k, pid).cpu = "user"
    BY <1>1, RemoveGood DEF IInv
  <1>3. /\ Good(k', Live') /\ Waits(k', Live')
        /\ timer_cause' \in {"TIMESLICE", "PSEUDOCLOCK"}
    BY <1>2, SyscallInv DEF IInv
  <1>4. FP!IInv'
    BY FamilyInv DEF FamilyStep
  <1> QED
    BY <1>3, <1>4 DEF IInv

\* SYS3 without a loop ends a process that is in use.
LEMMA TerminatedLive ==
  ASSUME IInv, NEW pid \in Pcb, Terminate(pid), ~(hung' \/ loop' # Fam!NoLoop)
  PROVE  pid \in Live /\ free' = Append(free, pid)
  <1>1. /\ k.running \in FP!Live /\ FP!TerminateProcess(k.running, pid)
        /\ pid \in FP!Pcb /\ FP!NULL \notin FP!Pcb
    BY RunningLive, SameTerminate, LiveFacts, PcbFacts DEF Terminate, UserRuns
  <1>2. /\ pid = k.running \/ FP!Descendant(tree, pid, k.running)
        /\ free' = Append(free, pid)
    <2>1. [pid |-> pid, tutor |-> FP!Adopter(tree, tutors, pid),
           first |-> FP!firstChild(tree, pid),
           iter |-> FP!Adopt(tree, FP!Adopter(tree, tutors, pid),
                             FP!firstChild(tree, pid)).sib.next[FP!firstChild(tree, pid)]]
            # FP!NoLoop
      BY <1>1 DEF FP!NoLoop
    <2>2. ~hung' /\ loop' = FP!NoLoop
      BY SameNames
    <2> QED
      BY <1>1, <2>1, <2>2 DEF FP!TerminateProcess, FP!Hang, FP!Bury
  <1>3. pid \in Live
    BY <1>1, <1>2, FamilyAssumption, FP!VictimInUse, LiveFacts DEF IInv
  <1> QED
    BY <1>2, <1>3

\* SYS3, up to its loop over the children or past it.
LEMMA TerminateInv ==
  ASSUME IInv, NEW pid \in Pcb, Terminate(pid)
  PROVE  IInv' /\ FamilyStep
  <1>1. /\ k.cpu = "user" /\ loop = Fam!NoLoop /\ ~hung
        /\ Fam!TerminateProcess(k.running, pid)
        /\ UNCHANGED <<mask, dev>>
    BY DEF Terminate, UserRuns, Fam!Ready
  <1>2. /\ k.running \in FP!Live /\ FP!TerminateProcess(k.running, pid)
        /\ pid \in FP!Pcb /\ FP!NULL \notin FP!Pcb
    BY <1>1, RunningLive, SameTerminate, LiveFacts, PcbFacts
  <1>3. FamilyStep
    BY <1>2 DEF FamilyStep, FP!Next
  <1>4. FP!IInv'
    BY <1>3, FamilyInv DEF FamilyStep
  <1>5. ASSUME free' = free, UNCHANGED <<k, timer_cause>> PROVE IInv'
    <2>1. Live' = Live
      BY <1>5 DEF Live, Fam!Live, Fam!Free
    <2> QED
      BY <1>1, <1>4, <1>5, <2>1 DEF IInv, Good, Waits
  <1>6. CASE hung' \/ loop' # Fam!NoLoop
    <2>1. UNCHANGED <<k, timer_cause>>
      BY <1>6 DEF Terminate
    <2>2. free' = free
      BY <1>1, <1>2, <1>6, SameNames DEF FP!TerminateProcess, FP!Hang
    <2> QED
      BY <1>3, <1>5, <2>1, <2>2
  <1>7. CASE ~(hung' \/ loop' # Fam!NoLoop)
    <2>1. SyscallEnds(Remove(k, pid))
      BY <1>7 DEF Terminate
    <2>2. pid \in Live /\ free' = Append(free, pid)
      BY <1>7, TerminatedLive
    <2> QED
      BY <1>1, <1>3, <1>7, <2>1, <2>2, EndInv
  <1> QED
    BY <1>6, <1>7

\* SYS3 after that loop.
LEMMA TerminateEndInv == ASSUME IInv, TerminateEnd PROVE IInv' /\ FamilyStep
  <1>1. /\ Fam!TerminateEnd /\ SyscallEnds(Remove(k, loop.pid))
        /\ UNCHANGED <<mask, dev>>
    BY DEF TerminateEnd
  <1>2. FamilyStep
    BY <1>1, SameLoop DEF FamilyStep, FP!Next
  <1>3. /\ loop # Fam!NoLoop /\ loop' = Fam!NoLoop
        /\ free' = Append(free, loop.pid)
    BY <1>1 DEF Fam!TerminateEnd, Fam!Bury
  <1>4. loop.pid \in Live /\ k.cpu = "user"
    BY <1>3, SameNames, LiveFacts DEF IInv, FP!IInv, FP!LoopInv
  <1> QED
    BY <1>1, <1>2, <1>3, <1>4, EndInv

\* One turn of that loop changes the tree alone.
LEMMA AdoptNextInv == ASSUME IInv, AdoptNext PROVE IInv' /\ FamilyStep
  <1>1. Fam!AdoptNext /\ UNCHANGED <<k, mask, timer_cause, dev>>
    BY DEF AdoptNext
  <1>2. FamilyStep
    BY <1>1, SameLoop DEF FamilyStep, FP!Next
  <1>3. FP!IInv'
    BY <1>2, FamilyInv DEF FamilyStep
  <1>4. free' = free /\ loop # Fam!NoLoop
    BY <1>1 DEF Fam!AdoptNext
  <1>5. Live' = Live
    BY <1>4 DEF Live, Fam!Live, Fam!Free
  <1> QED
    BY <1>1, <1>2, <1>3, <1>4, <1>5 DEF IInv, Good, Waits

\* SYS8.
LEMMA SetTutorInv == ASSUME IInv, SysSetTutor PROVE IInv' /\ FamilyStep
  <1>1. /\ k.cpu = "user" /\ Fam!Set_Tutor(k.running) /\ SyscallEnds(k)
        /\ UNCHANGED <<mask, dev>>
    BY DEF SysSetTutor, UserRuns
  <1>2. k.running \in FP!Live /\ FP!Set_Tutor(k.running)
    BY <1>1, RunningLive, SameTutor, LiveFacts
  <1>3. FamilyStep
    BY <1>2 DEF FamilyStep, FP!Next
  <1>4. FP!IInv'
    BY <1>3, FamilyInv DEF FamilyStep
  <1>5. free' = free /\ loop' = loop /\ loop = Fam!NoLoop
    BY <1>1 DEF Fam!Set_Tutor, Fam!Ready
  <1>6. Live' = Live
    BY <1>5 DEF Live, Fam!Live, Fam!Free
  <1>7. /\ Good(k', Live) /\ Waits(k', Live)
        /\ timer_cause' \in {"TIMESLICE", "PSEUDOCLOCK"}
    BY <1>1, SyscallInv DEF IInv
  <1> QED
    BY <1>1, <1>3, <1>4, <1>5, <1>6, <1>7 DEF IInv

\* A system call that only answers its caller.
LEMMA CallerGoesOnInv == ASSUME IInv, CallerGoesOn PROVE IInv' /\ FamilyStep
  BY CallInv DEF CallerGoesOn, UserRuns, IInv

\* An exception passed up to the process.
LEMMA PassUpInv == ASSUME IInv, NEW m \in Masks, PassUp(m) PROVE IInv' /\ FamilyStep
  <1>1. mask' \in [Pcb -> SUBSET {"timer", "device"}]
    BY MaskAssumption DEF IInv, PassUp
  <1> QED
    BY <1>1, CallInv DEF PassUp, UserRuns, IInv

----------------------------------------------------------------------------
\* No interrupt comes between the rounds of the adoption loop.
LEMMA NoLoopThen ==
  ASSUME IInv, k.cpu # "user" \/ UserRuns
  PROVE  loop = Fam!NoLoop
  BY DEF IInv, UserRuns, Fam!Ready

\* What the steps of the interrupt handler have in common.
LEMMA InterruptInv ==
  ASSUME IInv, k.cpu # "user" \/ UserRuns, UNCHANGED <<family, mask>>,
         Good(k', Live), Waits(k', Live),
         timer_cause' \in {"TIMESLICE", "PSEUDOCLOCK"}, dev' \in [Device -> DevState]
  PROVE  IInv' /\ FamilyStep
  <1>1. FP!IInv' /\ Live' = Live /\ loop' = loop /\ FamilyStep
    BY SameFamily DEF FamilyStep
  <1>2. loop = Fam!NoLoop
    BY NoLoopThen
  <1> QED
    BY <1>1, <1>2 DEF IInv

\* An interrupt of the timer.
LEMMA TimerInv ==
  ASSUME IInv, k.cpu # "user" \/ UserRuns, UNCHANGED <<family, mask, dev>>,
         NEW q, Good(q, Live), TimerEnds(q)
  PROVE  IInv' /\ FamilyStep
  <1>1. k' = schedule(q, OldArea) /\ timer_cause' \in {"TIMESLICE", "PSEUDOCLOCK"}
    BY DEF TimerEnds, TimerAfter, set_timer, IInv
  <1>2. Good(k', Live) /\ Waits(k', Live)
    BY <1>1, ScheduleGood
  <1> QED
    BY <1>1, <1>2, InterruptInv DEF IInv

\* An interrupt reaches a processor that runs a process, or that is idle.
LEMMA EnabledThen ==
  ASSUME NEW line, Enabled(line)
  PROVE  k.cpu # "user" \/ UserRuns
  BY DEF Enabled

\* So does one of the timer.
LEMMA TimerTakenThen ==
  ASSUME TimerTaken
  PROVE  k.cpu # "user" \/ UserRuns
  BY DEF TimerTaken, Enabled

\* The slice of the running process ends.
LEMMA TimeSliceInv == ASSUME IInv, TimeSlice PROVE IInv' /\ FamilyStep
  <1> DEFINE q == [k EXCEPT !.prio = [p \in Pcb |-> IF p \in Elems(k.ready) THEN @[p] + 1
                                                    ELSE @[p]]]
  <1>1. TimerTaken /\ TimerEnds(q) /\ UNCHANGED <<family, mask, dev>>
    BY DEF TimeSlice
  <1>2. Good(q, Live)
    BY AgeGood DEF IInv
  <1> HIDE DEF q
  <1> QED
    BY <1>1, <1>2, TimerTakenThen, TimerInv

\* The tick begins.
LEMMA PseudoClockInv == ASSUME IInv, PseudoClock PROVE IInv' /\ FamilyStep
  <1> DEFINE c == IF k.cpu = "idle" THEN "idleclock" ELSE "clock"
  <1>1. /\ TimerTaken /\ k' = [k EXCEPT !.cpu = c]
        /\ UNCHANGED <<family, mask, timer_cause, dev>>
    BY DEF PseudoClock
  <1>2. c \in CpuState /\ c \notin {"user", "idle", "halt"}
    BY DEF CpuState
  <1> HIDE DEF c
  <1>3. Good(k', Live) /\ k'.cpu = c
    BY <1>1, <1>2, GoodCpu DEF IInv
  <1>4. Waits(k', Live)
    BY <1>2, <1>3 DEF Waits
  <1> QED
    BY <1>1, <1>3, <1>4, TimerTakenThen, InterruptInv DEF IInv

\* The tick wakes one of those that wait for it.
LEMMA ClockWakeInv == ASSUME IInv, ClockWake PROVE IInv' /\ FamilyStep
  <1>1. /\ k.cpu \in {"clock", "idleclock"} /\ k.sem[waitclockSem] < 0
        /\ k' = Verhogen(k, waitclockSem)
        /\ UNCHANGED <<family, mask, timer_cause, dev>>
    BY DEF ClockWake, InClockLoop
  <1>2. Good(k', Live) /\ k'.cpu = k.cpu
    BY <1>1, VerhogenGood DEF IInv, Key, KernelSem
  <1>3. Waits(k', Live)
    BY <1>1, <1>2 DEF Waits
  <1> QED
    BY <1>1, <1>2, <1>3, InterruptInv DEF IInv

\* The tick ends.
LEMMA ClockEndInv == ASSUME IInv, ClockEnd PROVE IInv' /\ FamilyStep
  BY TimerInv DEF ClockEnd, InClockLoop, IInv

\* A device completes, and wakes who waits for it.
LEMMA DeviceDoneInv ==
  ASSUME IInv, NEW d \in Device, DeviceDone(d)
  PROVE  IInv' /\ FamilyStep
  <1>1. UNCHANGED <<family, k, mask, timer_cause>> /\ dev' \in [Device -> DevState]
    BY DEF DeviceDone, IInv, DevState
  <1>2. FP!IInv' /\ Live' = Live /\ loop' = loop /\ FamilyStep
    BY <1>1, SameFamily DEF FamilyStep
  <1> QED
    BY <1>1, <1>2 DEF IInv

\* interrupts.c:92 and 133: the waiter of the device is woken, or there is none.
LEMMA DeviceInterruptInv ==
  ASSUME IInv, NEW d \in Device, DeviceInterrupt(d)
  PROVE  IInv' /\ FamilyStep
  <1>1. Enabled("device") /\ UNCHANGED <<family, mask>> /\ d \in Key /\ d \in KernelSem
    BY DEF DeviceInterrupt, Key, KernelSem
  <1>2. Good(k, Live)
    BY DEF IInv
  <1>3. CASE k.queue[d] = <<>>
    <2>1. k' = [k EXCEPT !.cpu = "panic"] /\ UNCHANGED <<timer_cause, dev>>
      BY <1>3 DEF DeviceInterrupt
    <2>2. "panic" \in CpuState
      BY DEF CpuState
    <2>3. Good(k', Live) /\ k'.cpu = "panic"
      BY <1>2, <2>1, <2>2, GoodCpu
    <2>4. Waits(k', Live)
      BY <2>3 DEF Waits
    <2> QED
      BY <1>1, <2>1, <2>3, <2>4, EnabledThen, InterruptInv DEF IInv
  <1>4. CASE k.queue[d] # <<>>
    <2> DEFINE q == Verhogen(k, d)
    <2>1. /\ k' = IF q.running # NULL THEN [q EXCEPT !.cpu = LDST(OldArea)]
                  ELSE schedule(q, "none")
          /\ TimerAfter(k')
          /\ dev' = [dev EXCEPT ![d] = "idle"]
      BY <1>4 DEF DeviceInterrupt
    <2>2. k.sem[d] < 0
      <3>1. Sound(k, Live \ {k.running})
        BY <1>2 DEF Good
      <3> QED
        BY <1>1, <1>4, <3>1, BelowZero
    <2>3. Good(q, Live)
      BY <1>1, <1>2, <2>2, VerhogenGood
    <2> HIDE DEF q
    <2>4. Good(k', Live) /\ Waits(k', Live)
      <3>1. CASE q.running # NULL
        <4>1. LDST(OldArea) \in CpuState /\ LDST(OldArea) \notin {"idle", "halt"}
          BY DEF LDST, CpuState
        <4>2. /\ Good(k', Live) /\ k'.cpu = LDST(OldArea)
              /\ k'.running = q.running
          BY <2>1, <2>3, <3>1, <4>1, GoodCpu
        <4> QED
          BY <3>1, <4>1, <4>2 DEF Waits
      <3>2. CASE q.running = NULL
        BY <2>1, <2>3, <3>2, ScheduleGood
      <3> QED
        BY <3>1, <3>2
    <2>5. timer_cause' \in {"TIMESLICE", "PSEUDOCLOCK"}
      BY <2>1 DEF TimerAfter, set_timer, IInv
    <2>6. dev' \in [Device -> DevState]
      BY <2>1 DEF IInv, DevState
    <2> QED
      BY <1>1, <2>4, <2>5, <2>6, EnabledThen, InterruptInv
  <1> QED
    BY <1>3, <1>4

\* Every step keeps the invariant, and is a step of the process tree or none.
LEMMA NextInv == ASSUME IInv, [Next]_vars PROVE IInv' /\ FamilyStep
  <1>1. ASSUME NEW n \in Prio, NEW m \in Masks, SysCreate(n, m) PROVE IInv' /\ FamilyStep
    BY <1>1, CreateInv
  <1>2. ASSUME NEW pid \in Pcb, Terminate(pid) PROVE IInv' /\ FamilyStep
    BY <1>2, TerminateInv
  <1>3. CASE AdoptNext \/ TerminateEnd
    BY <1>3, AdoptNextInv, TerminateEndInv
  <1>4. ASSUME NEW s \in UserSem, SysVerhogen(s) PROVE IInv' /\ FamilyStep
    BY <1>4, VerhogenInv
  <1>5. ASSUME NEW s \in UserSem, SysPasseren(s) PROVE IInv' /\ FamilyStep
    <2>1. s \in Key /\ dev' \in [Device -> DevState]
      BY <1>5 DEF Key, SysPasseren, IInv
    <2> QED
      BY <1>5, <2>1, PasserenInv DEF SysPasseren
  <1>6. CASE SysWaitClock
    <2>1. waitclockSem \in Key /\ dev' \in [Device -> DevState]
      BY <1>6 DEF Key, KernelSem, SysWaitClock, IInv
    <2> QED
      BY <1>6, <2>1, PasserenInv DEF SysWaitClock
  <1>7. ASSUME NEW d \in Device, SysDoIO(d) PROVE IInv' /\ FamilyStep
    <2>1. d \in Key /\ dev' \in [Device -> DevState]
      BY <1>7 DEF Key, KernelSem, SysDoIO, Command, IInv, DevState
    <2> QED
      BY <1>7, <2>1, PasserenInv DEF SysDoIO
  <1>8. ASSUME NEW d \in Device, DeviceDone(d) \/ DeviceInterrupt(d)
        PROVE  IInv' /\ FamilyStep
    BY <1>8, DeviceDoneInv, DeviceInterruptInv
  <1>9. CASE SysSetTutor \/ CallerGoesOn
    BY <1>9, SetTutorInv, CallerGoesOnInv
  <1>10. ASSUME NEW m \in Masks, PassUp(m) PROVE IInv' /\ FamilyStep
    BY <1>10, PassUpInv
  <1>11. CASE TimeSlice \/ PseudoClock \/ ClockWake \/ ClockEnd
    BY <1>11, TimeSliceInv, PseudoClockInv, ClockWakeInv, ClockEndInv
  <1>12. CASE UNCHANGED vars
    <2>1. UNCHANGED <<family, k, mask, timer_cause, dev>>
      BY <1>12 DEF vars
    <2>2. FP!IInv' /\ Live' = Live /\ loop' = loop /\ FamilyStep
      BY <2>1, SameFamily DEF FamilyStep
    <2> QED
      BY <2>1, <2>2 DEF IInv
  <1> QED
    BY <1>1, <1>2, <1>3, <1>4, <1>5, <1>6, <1>7, <1>8, <1>9, <1>10, <1>11, <1>12
       DEF Next

\* So the invariant always holds.
LEMMA Inductive == Spec => []IInv
  BY InitInv, NextInv, PTL DEF Spec

----------------------------------------------------------------------------
\* handler.c: whatever the nucleus does, to the process tree and the free list it
\* is a step of Family, or none.
THEOREM NucleusKeepsFamily == Spec => FamilySpec
  <1>1. Init => Fam!Init
    BY DEF Init
  <1>2. IInv /\ [Next]_vars => [Fam!Next]_(Fam!vars)
    <2> SUFFICES ASSUME IInv, [Next]_vars
                 PROVE  Fam!Next \/ UNCHANGED Fam!vars
      BY DEF FamilyStep
    <2>1. FamilyStep
      BY NextInv
    <2>2. Fam!vars = FP!vars /\ Fam!vars' = FP!vars'
      BY DEF Fam!vars, FP!vars
    <2> QED
      BY <2>1, <2>2, SameNext DEF FamilyStep
  <1> QED
    BY <1>1, <1>2, Inductive, PTL DEF Spec, FamilySpec, Fam!Spec

\* globals.c, types_rikaya.h: every variable keeps its type.
THEOREM KernelType == Spec => []TypeOK
  <1>1. IInv => TypeOK
    BY GoodFacts DEF IInv, TypeOK, Record
  <1> QED
    BY <1>1, Inductive, PTL

\* handler.c, interrupts.c, scheduler.c: a PCB in use is in one place, a free one
\* in none.
THEOREM EachInOnePlace == Spec => []OnePlace
  <1>1. ASSUME IInv PROVE OnePlace
    <2> DEFINE W == Live \ {k.running}
               ready == Elems(k.ready)
               blocked == {p \in Live : k.semkey[p] # NoKey}
               running == {k.running} \ {NULL}
    <2>1. /\ Placed(k, W) /\ k.running \in Live \cup {NULL} /\ NULL \notin Live
          /\ k.running # NULL => k.semkey[k.running] = NoKey
      BY <1>1, GoodFacts, PcbFacts DEF IInv, Good
    <2>2. Injective(k.ready) /\ ready = At(k, W, NoKey)
      BY <2>1 DEF Placed, Row
    <2>3. ASSUME NEW key \in Key
          PROVE  /\ NoRepeats(k.queue[key])
                 /\ Elems(k.queue[key]) = {p \in Live : k.semkey[p] = key}
      <3>1. Injective(k.queue[key]) /\ Elems(k.queue[key]) = At(k, W, key)
        BY <2>1 DEF Placed, Row
      <3>2. At(k, W, key) = {p \in Live : k.semkey[p] = key}
        BY <2>1, KeyAssumption DEF At
      <3> QED
        BY <3>1, <3>2 DEF Injective, NoRepeats
    <2>4. NoRepeats(k.ready)
      BY <2>2 DEF Injective, NoRepeats
    <2>5. Live = running \cup ready \cup blocked
      BY <2>1, <2>2 DEF At
    <2>6. running \cap ready = {} /\ blocked \cap (running \cup ready) = {}
      BY <2>1, <2>2 DEF At
    <2> QED
      BY <2>3, <2>4, <2>5, <2>6 DEF OnePlace
  <1> QED
    BY <1>1, Inductive, PTL

\* scheduler.c:14 and 28, interrupts.c:65: the counters the scheduler decides by
\* are right.
THEOREM CountersAreRight == Spec => []CountersCount
  <1>1. ASSUME IInv PROVE CountersCount
    <2> DEFINE W == Live \ {k.running}
    <2>1. /\ k.ready_processes = Len(k.ready)
          /\ k.blocked_processes = Cardinality(Blocked(k, W))
      BY <1>1 DEF IInv, Good, Sound, Placed
    <2>2. Blocked(k, W) = {p \in Live : k.semkey[p] # NoKey}
      BY <1>1, PcbFacts DEF IInv, Good, Blocked
    <2> QED
      BY <2>1, <2>2 DEF CountersCount
  <1> QED
    BY <1>1, Inductive, PTL

\* handler.c:430-505: no V, kill or tick loses a wake-up, or makes one twice.
THEOREM NoWakeUpLost == Spec => []SemCountsWaiters
  <1>1. IInv => SemCountsWaiters
    BY DEF IInv, Good, Sound, Waiters, SemCountsWaiters
  <1> QED
    BY <1>1, Inductive, PTL

\* pcb.c:110-142, interrupts.c:49-56: the head of a queue is the one to serve, also
\* after some have aged and others have not.
THEOREM HeadsAreNext == Spec => []QueuesSorted
  <1>1. ASSUME IInv PROVE QueuesSorted
    <2>1. Placed(k, Live \ {k.running})
      BY <1>1 DEF IInv, Good, Sound
    <2>2. Sorted(k.ready, k.prio) /\ \A key \in Key : Sorted(k.queue[key], k.prio)
      BY <2>1 DEF Placed, Row
    <2> QED
      BY <2>2 DEF QueuesSorted, Sorted
  <1> QED
    BY <1>1, Inductive, PTL

\* handler.c:505-580: SYS6 and SYS7 always suspend the caller.
THEOREM KernelSemaphoresBlock == Spec => []KernelSemsBlock
  <1>1. IInv => KernelSemsBlock
    BY DEF IInv, Good, KernelSemsBlock
  <1> QED
    BY <1>1, Inductive, PTL

\* Without a process to put back schedule stops with nobody running.
LEMMA ScheduleLeavesNobody ==
  ASSUME NEW q \in Record, q.running = NULL, NEW old, NEW r, r = schedule(q, old),
         r.cpu \in {"idle", "halt"}
  PROVE  r.running = NULL
  <1>1. CASE q.ready_processes > 0
    <2> DEFINE k1 == [q EXCEPT !.ready = removeProcQ(@), !.ready_processes = @ - 1]
    <2>1. k1.running = NULL
      BY DEF Record
    <2>2. r = [k1 EXCEPT !.running = headProcQ(q.ready),
                         !.cpu = LDST(k1.saved[headProcQ(q.ready)])]
      BY <1>1, <2>1 DEF schedule
    <2>3. r.cpu = LDST(k1.saved[headProcQ(q.ready)])
      BY <2>2 DEF Record
    <2> QED
      BY <2>3 DEF LDST
  <1>2. CASE ~(q.ready_processes > 0)
    BY <1>2 DEF schedule, Record
  <1> QED
    BY <1>1, <1>2

\* So does a system call.
LEMMA SyscallLeavesNobody ==
  ASSUME NEW q, NEW L, Good(q, L), q.cpu = "user", SyscallEnds(q),
         k'.cpu \in {"idle", "halt"}
  PROVE  k'.running = NULL
  <1>1. q \in Record /\ k' = IF q.running # NULL THEN q ELSE schedule(q, "none")
    BY GoodFacts DEF SyscallEnds
  <1>2. q.running = NULL /\ k' = schedule(q, "none")
    BY <1>1
  <1> QED
    BY <1>1, <1>2, ScheduleLeavesNobody

\* And an interrupt of a device.
LEMMA DeviceLeavesNobody ==
  ASSUME IInv, NEW d \in Device, DeviceInterrupt(d), k'.cpu \in {"idle", "halt"}
  PROVE  k'.running = NULL
  <1> DEFINE q == Verhogen(k, d)
  <1>1. d \in Key /\ d \in KernelSem /\ Good(k, Live) /\ k \in Record
    BY GoodFacts DEF IInv, Key, KernelSem
  <1>2. k.queue[d] # <<>>
    <2>1. CASE k.queue[d] = <<>>
      <3>1. k' = [k EXCEPT !.cpu = "panic"]
        BY <2>1 DEF DeviceInterrupt
      <3> QED
        BY <1>1, <3>1 DEF Record
    <2> QED
      BY <2>1
  <1>3. k' = IF q.running # NULL THEN [q EXCEPT !.cpu = LDST(OldArea)]
             ELSE schedule(q, "none")
    BY <1>2 DEF DeviceInterrupt
  <1>4. k.sem[d] < 0
    <2>1. Sound(k, Live \ {k.running})
      BY <1>1 DEF Good
    <2> QED
      BY <1>1, <1>2, <2>1, BelowZero
  <1>5. Good(q, Live)
    BY <1>1, <1>4, VerhogenGood
  <1> HIDE DEF q
  <1>6. q \in Record
    BY <1>5, GoodFacts
  <1>7. q.running = NULL
    <2>1. CASE q.running # NULL
      <3>1. k'.cpu = LDST(OldArea)
        BY <1>3, <1>6, <2>1 DEF Record
      <3> QED
        BY <3>1 DEF LDST
    <2> QED
      BY <2>1
  <1> QED
    BY <1>3, <1>6, <1>7, ScheduleLeavesNobody

\* SYS2 and SYS3.
LEMMA CreateLeavesNobody ==
  ASSUME IInv, NEW n \in Prio, NEW m \in Masks, SysCreate(n, m),
         k'.cpu \in {"idle", "halt"}
  PROVE  k'.running = NULL
  <1> DEFINE p == Fam!allocPcb
             q == Created(k, p, n)
  <1>1. k.cpu = "user" /\ Fam!CreateProcess(k.running) /\ SyscallEnds(q)
    BY DEF SysCreate, UserRuns, Created
  <1>2. p \in Pcb \ Live
    BY <1>1, AllocatedFree
  <1>3. Good(k, Live)
    BY DEF IInv
  <1> HIDE DEF p
  <1>4. Good(q, Live \cup {p}) /\ q.cpu = "user"
    BY <1>1, <1>2, <1>3, CreateGood
  <1> HIDE DEF q
  <1> QED
    BY <1>1, <1>4, SyscallLeavesNobody

LEMMA TerminateLeavesNobody ==
  ASSUME IInv, NEW pid \in Pcb, Terminate(pid), k'.cpu \in {"idle", "halt"}
  PROVE  k'.running = NULL
  <1>1. k.cpu = "user" /\ Good(k, Live)
    BY DEF Terminate, UserRuns, IInv
  <1>2. ~(hung' \/ loop' # Fam!NoLoop)
    BY <1>1 DEF Terminate
  <1>3. SyscallEnds(Remove(k, pid)) /\ pid \in Live
    BY <1>2, TerminatedLive DEF Terminate
  <1>4. Good(Remove(k, pid), Live \ {pid}) /\ Remove(k, pid).cpu = "user"
    BY <1>1, <1>3, RemoveGood
  <1> QED
    BY <1>3, <1>4, SyscallLeavesNobody

LEMMA TerminateEndLeavesNobody ==
  ASSUME IInv, TerminateEnd, k'.cpu \in {"idle", "halt"}
  PROVE  k'.running = NULL
  <1>1. /\ SyscallEnds(Remove(k, loop.pid)) /\ loop # Fam!NoLoop /\ Good(k, Live)
    BY DEF TerminateEnd, Fam!TerminateEnd, IInv
  <1>2. loop.pid \in Live /\ k.cpu = "user"
    BY <1>1, SameNames, LiveFacts DEF IInv, FP!IInv, FP!LoopInv
  <1>3. Good(Remove(k, loop.pid), Live \ {loop.pid}) /\ Remove(k, loop.pid).cpu = "user"
    BY <1>1, <1>2, RemoveGood
  <1> QED
    BY <1>1, <1>3, SyscallLeavesNobody

\* Only an interrupt of the timer stops the processor while somebody runs.
LEMMA StopsAlone ==
  ASSUME IInv, [Next]_vars, k'.cpu \in {"idle", "halt"}, k'.cpu # k.cpu
  PROVE  k'.running = NULL \/ TimeSlice \/ ClockEnd
  <1>1. Good(k, Live)
    BY DEF IInv
  <1>2. ASSUME NEW key \in Key, UserRuns, SyscallEnds(Passeren(k, key))
        PROVE  k'.running = NULL
    <2>1. k.cpu = "user" /\ k.running # NULL
      BY <1>2, RunningLive DEF UserRuns
    <2>2. Good(Passeren(k, key), Live) /\ Passeren(k, key).cpu = "user"
      BY <1>1, <2>1, PasserenGood
    <2> QED
      BY <1>2, <2>2, SyscallLeavesNobody
  <1>3. ASSUME NEW s \in UserSem, SysVerhogen(s) PROVE k'.running = NULL
    <2>1. s \in Key /\ s \notin KernelSem /\ k.cpu = "user"
          /\ SyscallEnds(Verhogen(k, s))
      BY <1>3, KeyAssumption DEF Key, SysVerhogen, UserRuns
    <2>2. Good(Verhogen(k, s), Live) /\ Verhogen(k, s).cpu = "user"
      BY <1>1, <2>1, VerhogenGood
    <2> QED
      BY <2>1, <2>2, SyscallLeavesNobody
  <1>4. ASSUME NEW s \in UserSem, SysPasseren(s) PROVE k'.running = NULL
    BY <1>2, <1>4 DEF SysPasseren, Key
  <1>5. CASE SysWaitClock
    BY <1>2, <1>5 DEF SysWaitClock, Key, KernelSem
  <1>6. ASSUME NEW d \in Device, SysDoIO(d) PROVE k'.running = NULL
    BY <1>2, <1>6 DEF SysDoIO, Key, KernelSem
  <1>7. CASE SysSetTutor \/ CallerGoesOn \/ \E m \in Masks : PassUp(m)
    <2>1. SyscallEnds(k) /\ k.cpu = "user"
      BY <1>7 DEF SysSetTutor, CallerGoesOn, PassUp, UserRuns
    <2> QED
      BY <1>1, <2>1, SyscallLeavesNobody
  <1>8. CASE PseudoClock
    <2>1. k'.cpu \in {"idleclock", "clock"}
      BY <1>1, <1>8, GoodFacts DEF PseudoClock, Record
    <2> QED
      BY <2>1
  <1>9. CASE ClockWake
    <2>1. waitclockSem \in Key
      BY DEF Key, KernelSem
    <2>2. Verhogen(k, waitclockSem).cpu = k.cpu
      BY <1>1, <1>9, <2>1, VerhogenGood DEF ClockWake
    <2> QED
      BY <1>9, <2>2 DEF ClockWake
  <1>10. CASE AdoptNext \/ (\E d \in Device : DeviceDone(d)) \/ UNCHANGED vars
    BY <1>10 DEF AdoptNext, DeviceDone, vars
  <1>11. CASE Next
    BY <1>3, <1>4, <1>5, <1>6, <1>7, <1>8, <1>9, <1>10, <1>11, CreateLeavesNobody,
       TerminateLeavesNobody, TerminateEndLeavesNobody, DeviceLeavesNobody DEF Next
  <1> QED
    BY <1>10, <1>11

\* scheduler.c:28-43: the processor waits, or halts, for a reason.
THEOREM WaitsWithReason == Spec => WaitsOnlyIfItMust
  <1> DEFINE Reason == /\ \A p \in Live' : \/ k'.semkey[p] # NoKey
                                           \/ p = k'.running /\ (TimeSlice \/ ClockEnd)
                       /\ k'.cpu = "idle" <=> \E p \in Live' : k'.semkey[p] # NoKey
  <1>1. ASSUME IInv, IInv', OnePlace', [Next]_vars,
               k'.cpu \in {"idle", "halt"}, k'.cpu # k.cpu
        PROVE  Reason
    <2>1. Waits(k', Live')
      BY <1>1 DEF IInv
    <2>2. k'.ready = <<>>
      BY <1>1, <2>1 DEF Waits
    <2>3. ASSUME NEW p \in Live' PROVE k'.semkey[p] # NoKey \/ p = k'.running
      BY <1>1, <2>2, <2>3 DEF OnePlace, Elems
    <2>4. ASSUME NEW p \in Live', p = k'.running PROVE TimeSlice \/ ClockEnd
      <3>1. NULL \notin Live'
        BY LiveFacts, PcbFacts
      <3> QED
        BY <1>1, <2>4, <3>1, StopsAlone
    <2>5. k'.cpu = "idle" <=> \E p \in Live' : k'.semkey[p] # NoKey
      BY <1>1, <2>1 DEF Waits
    <2> QED
      BY <2>3, <2>4, <2>5
  <1>2. IInv /\ IInv' /\ OnePlace' /\ [Next]_vars
        => [k'.cpu \in {"idle", "halt"} /\ k'.cpu # k.cpu => Reason]_vars
    BY <1>1
  <1> QED
    BY <1>2, Inductive, EachInOnePlace, PTL DEF Spec, WaitsOnlyIfItMust

\* interrupts.c:59-64: after the loop of a tick nobody waits for the clock.
THEOREM ATickWakesAll == Spec => TickWakesAll
  <1>1. ASSUME IInv, ClockEnd PROVE k'.queue[waitclockSem] = <<>>
    <2>1. waitclockSem \in Key /\ waitclockSem \in KernelSem
      BY DEF Key, KernelSem
    <2>2. Good(k, Live) /\ Sound(k, Live \ {k.running})
      BY <1>1 DEF IInv, Good
    <2>3. k.queue[waitclockSem] = <<>>
      BY <1>1, <2>1, <2>2, BelowZero DEF ClockEnd
    <2>4. k' = schedule(k, OldArea)
      BY <1>1 DEF ClockEnd, TimerEnds
    <2> QED
      BY <2>2, <2>3, <2>4, ScheduleGood
  <1>2. IInv => [ClockEnd => k'.queue[waitclockSem] = <<>>]_vars
    BY <1>1
  <1> QED
    BY <1>2, Inductive, PTL DEF TickWakesAll

----------------------------------------------------------------------------
(***************************************************************************)
(* How long a ready process can be passed over.                            *)
(*                                                                         *)
(* Who has aged above all original priorities is never overtaken again, so *)
(* each slice that raises it by one also brings it one place nearer to the *)
(* head: priority and position do not grow together.  Ranked states that   *)
(* sum, and every operation on the ready queue keeps it.                   *)
(***************************************************************************)

\* The priorities processes are created with.
Original == Prio \cup {0}

\* At position i of the ready queue a process has at most an original priority,
\* or no more above one than there are places behind it.
Allowed(m, i) == \E n \in Original : m <= n \/ m + i <= n + MaxProc - 1

\* d is 1 from the aging to the dispatch at the end of a slice, else 0.
Ranked(q, d) ==
  /\ \A p \in Pcb : q.original[p] \in Original
  /\ \A p \in Pcb : q.semkey[p] # NoKey => q.prio[p] \in Original
  /\ \A i \in 1..Len(q.ready) : Allowed(q.prio[q.ready[i]], i - d)

\* Priorities are numbers.
LEMMA OriginalInt == Original \subseteq Int /\ MaxProc \in Int
  BY PrioAssumption, FamilyAssumption DEF Original

\* Nearer to the head a process may have more.
LEMMA AllowedNearer ==
  ASSUME NEW m \in Int, NEW i \in Int, NEW j \in Int, j <= i, Allowed(m, i)
  PROVE  Allowed(m, j)
  <1>1. PICK n \in Original : m <= n \/ m + i <= n + MaxProc - 1
    BY DEF Allowed
  <1>2. m <= n \/ m + j <= n + MaxProc - 1
    BY <1>1, OriginalInt
  <1> QED
    BY <1>2 DEF Allowed

\* A process that comes into the queue goes behind all that are above it, whose
\* places stay, and the others it overtakes are below its original priority.
LEMMA InsertRanked ==
  ASSUME NEW q, NEW W, Placed(q, W), NEW p \in Pcb \ W, q.semkey[p] = NoKey,
         q.running = p \/ q.prio[p] \in Original, Ranked(q, 0),
         NEW old, NEW r, r = insertProcqReady(q, old, p)
  PROVE  Ranked(r, 0)
  <1>1. /\ q \in Record /\ W \subseteq Pcb /\ q.ready \in Seq(Pcb) /\ q.prio \in [Pcb -> Int]
        /\ Row(q.ready, q.prio, At(q, W, NoKey))
        /\ \A x \in Pcb : Beyond < q.prio[x] /\ Beyond < q.original[x]
    BY DEF Placed, Record
  <1>2. /\ r.prio \in [Pcb -> Int]
        /\ \A x \in Pcb : r.prio[x] = IF x = p /\ q.running = p THEN q.original[p]
                                      ELSE q.prio[x]
        /\ r.ready = insertProcQ(q.ready, p, r.prio, Beyond)
        /\ r.semkey = q.semkey /\ r.original = q.original
    BY <1>1, InsertReadyFields
  <1>3. \A x \in Pcb : x # p => r.prio[x] = q.prio[x]
    BY <1>2
  <1>4. r.prio[p] \in Original
    BY <1>2 DEF Ranked
  <1>5. /\ Beyond \in Int /\ Beyond # r.prio[p]
    <2>1. Beyond < r.prio[p] /\ Beyond \in Int /\ r.prio[p] \in Int
      BY <1>1, <1>2, PrioAssumption
    <2> QED
      BY <2>1
  <1>6. Sorted(q.ready, r.prio) /\ \A j \in 1..Len(q.ready) : q.ready[j] \in Pcb /\ q.ready[j] # p
    <2>1. \A x \in At(q, W, NoKey) : r.prio[x] = q.prio[x]
      BY <1>1, <1>3 DEF At
    <2>2. Row(q.ready, r.prio, At(q, W, NoKey))
      BY <1>1, <1>2, <2>1, RowKeep
    <2>3. \A j \in 1..Len(q.ready) : q.ready[j] \in At(q, W, NoKey)
      BY <1>1 DEF Row, Elems
    <2> QED
      BY <1>1, <2>2, <2>3 DEF Row, At
  <1>7. PICK i \in 1..(Len(q.ready) + 1) :
          /\ insertProcQ(q.ready, p, r.prio, Beyond) = Link(q.ready, i, p)
          /\ \A j \in 1..Len(q.ready) : /\ j < i => r.prio[q.ready[j]] >= r.prio[p]
                                        /\ j >= i => r.prio[q.ready[j]] < r.prio[p]
    BY <1>1, <1>2, <1>5, <1>6, InsertPosition
  <1>8. /\ Len(r.ready) = Len(q.ready) + 1
        /\ \A j \in 1..(Len(q.ready) + 1) :
             r.ready[j] = IF j < i THEN q.ready[j] ELSE IF j = i THEN p ELSE q.ready[j - 1]
    <2>1. r.ready = Link(q.ready, i, p)
      BY <1>2, <1>7
    <2>2. Len(Link(q.ready, i, p)) = Len(q.ready) + 1
      BY <1>1, LinkFacts
    <2> QED
      BY <2>1, <2>2 DEF Link
  <1>9. Len(q.ready) \in Nat
    BY <1>1
  <1>10. ASSUME NEW j \in 1..Len(r.ready) PROVE Allowed(r.prio[r.ready[j]], j - 0)
    <2>1. CASE j < i
      <3>1. j \in 1..Len(q.ready) /\ r.ready[j] = q.ready[j]
        BY <1>8, <1>9, <2>1
      <3>2. r.prio[r.ready[j]] = q.prio[q.ready[j]]
        BY <1>3, <1>6, <3>1
      <3> QED
        BY <3>1, <3>2 DEF Ranked
    <2>2. CASE j >= i
      <3>1. r.ready[j] \in Pcb /\ r.prio[r.ready[j]] <= r.prio[p]
        <4>1. CASE j = i
          BY <1>2, <1>8, <4>1
        <4>2. CASE j > i
          <5>1. /\ j - 1 \in 1..Len(q.ready) /\ j - 1 >= i
                /\ r.ready[j] = q.ready[j - 1]
            BY <1>8, <1>9, <4>2
          <5>2. q.ready[j - 1] \in Pcb /\ r.prio[q.ready[j - 1]] < r.prio[p]
            BY <1>6, <1>7, <5>1
          <5> QED
            BY <1>2, <5>1, <5>2
        <4> QED
          BY <1>8, <1>9, <2>2, <4>1, <4>2
      <3> QED
        BY <1>4, <3>1 DEF Allowed
    <2> QED
      BY <1>8, <1>9, <2>1, <2>2
  <1>11. \A x \in Pcb : r.semkey[x] # NoKey => r.prio[x] \in Original
    BY <1>2, <1>3 DEF Ranked
  <1> QED
    BY <1>2, <1>10, <1>11 DEF Ranked

\* Whoever leaves the ready queue, nobody is further from its head.
LEMMA UnlinkRanked ==
  ASSUME NEW q \in Record, NEW d \in {0, 1}, Ranked(q, d),
         NEW j \in 1..Len(q.ready), d = 1 => j = 1,
         NEW r, r.ready = Unlink(q.ready, j),
         r.prio = q.prio, r.semkey = q.semkey, r.original = q.original
  PROVE  Ranked(r, 0)
  <1>1. /\ q.ready \in Seq(Pcb) /\ q.prio \in [Pcb -> Int] /\ Len(q.ready) \in Nat
    BY DEF Record
  <1>2. Len(r.ready) = Len(q.ready) - 1
    BY <1>1, UnlinkFacts
  <1>3. ASSUME NEW i \in 1..Len(r.ready) PROVE Allowed(r.prio[r.ready[i]], i - 0)
    <2> DEFINE s == IF i < j THEN i ELSE i + 1
    <2>1. s \in 1..Len(q.ready) /\ r.ready[i] = q.ready[s]
      BY <1>1, <1>2 DEF Unlink
    <2>2. i <= s - d /\ s - d \in Int /\ i - 0 = i
      BY <1>1, <1>2
    <2> HIDE DEF s
    <2>3. Allowed(q.prio[q.ready[s]], s - d) /\ q.prio[q.ready[s]] \in Int
      BY <1>1, <2>1 DEF Ranked
    <2>4. Allowed(q.prio[q.ready[s]], i)
      BY <2>2, <2>3, AllowedNearer
    <2> QED
      BY <2>1, <2>2, <2>4
  <1> QED
    BY <1>3 DEF Ranked

\* What neither the ready queue nor priorities depend on may change.
LEMMA SameRanked ==
  ASSUME NEW q, NEW d, Ranked(q, d), NEW r, r.ready = q.ready, r.prio = q.prio,
         r.semkey = q.semkey, r.original = q.original
  PROVE  Ranked(r, d)
  BY DEF Ranked

\* schedule: the head leaves the queue, and the running process comes into it.
LEMMA ScheduleRanked ==
  ASSUME NEW q, NEW L, Good(q, L), NEW d \in {0, 1}, Ranked(q, d),
         NEW old, NEW r, r = schedule(q, old)
  PROVE  Ranked(r, 0)
  <1> DEFINE u == q.running
             W == L \ {u}
  <1>1. /\ q \in Record /\ Placed(q, W)
        /\ u # NULL => u \in Pcb \ W /\ q.semkey[u] = NoKey
    BY GoodFacts
  <1>2. q.ready \in Seq(Pcb) /\ q.ready_processes = Len(q.ready) /\ Len(q.ready) \in Nat
    BY <1>1 DEF Placed, Record
  <1>3. CASE q.ready_processes > 0
    <2> DEFINE p  == headProcQ(q.ready)
               k1 == [q EXCEPT !.ready = removeProcQ(@), !.ready_processes = @ - 1]
               k2 == IF k1.running = NULL THEN k1
                     ELSE insertProcqReady(k1, old, k1.running)
    <2>1. q.ready # <<>>
      BY <1>2, <1>3
    <2>2. Placed(k1, W \ {p})
      BY <1>1, <2>1, RemoveReadyPlaced
    <2>3. r = [k2 EXCEPT !.running = p, !.cpu = LDST(k2.saved[p])]
      BY <1>3 DEF schedule
    <2>4. /\ k1.ready = removeProcQ(q.ready) /\ k1.prio = q.prio
          /\ k1.semkey = q.semkey /\ k1.original = q.original /\ k1.running = u
      BY <1>1 DEF Record
    <2> HIDE DEF k1, p, u
    <2>5. Ranked(k1, 0)
      BY <1>1, <1>2, <2>1, <2>4, RemoveUnlinks, UnlinkRanked
    <2>6. Ranked(k2, 0) /\ k2 \in Record
      <3>1. CASE u = NULL
        <4>1. k2 = k1
          BY <2>4, <3>1
        <4> QED
          BY <2>2, <2>5, <4>1 DEF Placed
      <3>2. CASE u # NULL
        <4>1. k2 = insertProcqReady(k1, old, u)
          BY <2>4, <3>2
        <4>2. u \in Pcb \ (W \ {p}) /\ k1.semkey[u] = NoKey /\ k1.running = u
          BY <1>1, <2>4, <3>2
        <4> HIDE DEF k2
        <4>3. Ranked(k2, 0)
          BY <2>2, <2>5, <4>1, <4>2, InsertRanked
        <4>4. Placed(k2, (W \ {p}) \cup {u})
          BY <2>2, <4>1, <4>2, InsertReadyPlaced
        <4> QED
          BY <4>3, <4>4 DEF Placed
      <3> QED
        BY <3>1, <3>2
    <2> HIDE DEF k2
    <2>7. r.ready = k2.ready /\ r.prio = k2.prio /\ r.semkey = k2.semkey
          /\ r.original = k2.original
      BY <2>3, <2>6 DEF Record
    <2> QED
      BY <2>6, <2>7, SameRanked
  <1>4. CASE ~(q.ready_processes > 0)
    <2> DEFINE c == IF q.blocked_processes > 0 THEN "idle" ELSE "halt"
    <2>1. r = [q EXCEPT !.cpu = c]
      BY <1>4 DEF schedule
    <2> HIDE DEF c
    <2>2. r.ready = q.ready /\ r.prio = q.prio /\ r.semkey = q.semkey
          /\ r.original = q.original
      BY <1>1, <2>1 DEF Record
    <2>3. 1..Len(r.ready) = {}
      BY <1>2, <1>4, <2>2
    <2> QED
      BY <2>2, <2>3 DEF Ranked
  <1> QED
    BY <1>3, <1>4

\* SYS2: the new process comes with the priority it is given.
LEMMA CreateRanked ==
  ASSUME NEW q, NEW L, Good(q, L), NEW p \in Pcb \ L, NEW n \in Prio, Ranked(q, 0),
         NEW r, r = Created(q, p, n)
  PROVE  Ranked(r, 0)
  <1> DEFINE W  == L \ {q.running}
             pr == [q.prio EXCEPT ![p] = n]
             og == [q.original EXCEPT ![p] = n]
             sk == [q.semkey EXCEPT ![p] = NoKey]
             sv == [q.saved EXCEPT ![p] = "user"]
             q1 == [q EXCEPT !.prio = pr, !.original = og, !.semkey = sk, !.saved = sv]
  <1>1. /\ q \in Record /\ L \subseteq Pcb /\ Placed(q, W)
        /\ \A x \in Pcb : Beyond < q.prio[x] /\ Beyond < q.original[x]
    BY GoodFacts
  <1>2. n \in Int /\ Beyond < n /\ n \in Original
    BY PrioAssumption DEF Original
  <1>3. /\ pr \in [Pcb -> Int] /\ og \in [Pcb -> Int]
        /\ sk \in [Pcb -> Key \cup {NoKey}] /\ sv \in [Pcb -> Context]
        /\ sk[p] = NoKey /\ pr[p] = n /\ og[p] = n
        /\ \A x \in Pcb : x # p => pr[x] = q.prio[x] /\ sk[x] = q.semkey[x]
                                   /\ og[x] = q.original[x]
    BY <1>1, <1>2 DEF Record, Context
  <1>4. \A x \in Pcb : Beyond < pr[x] /\ Beyond < og[x]
    BY <1>1, <1>2, <1>3
  <1>5. r = insertProcqReady(q1, "none", p)
    BY DEF Created
  <1> HIDE DEF pr, og, sk, sv
  <1>6. /\ q1 \in Record
        /\ q1.ready = q.ready /\ q1.ready_processes = q.ready_processes
        /\ q1.queue = q.queue /\ q1.prio = pr /\ q1.semkey = sk /\ q1.original = og
        /\ q1.running = q.running
    BY <1>1, <1>3 DEF Record
  <1> HIDE DEF q1
  <1>7. Placed(q1, W)
    <2>1. \A x \in W : q1.prio[x] = q.prio[x] /\ q1.semkey[x] = q.semkey[x]
      BY <1>1, <1>3, <1>6
    <2>2. \A x \in Pcb : Beyond < q1.prio[x] /\ Beyond < q1.original[x]
      BY <1>4, <1>6
    <2> HIDE DEF W
    <2> QED
      BY <1>1, <1>6, <2>1, <2>2, SamePlaced
  <1>8. Ranked(q1, 0)
    <2>1. \A i \in 1..Len(q.ready) : q.ready[i] \in Pcb /\ q.ready[i] # p
      <3>1. q.ready \in Seq(Pcb) /\ Elems(q.ready) = At(q, W, NoKey)
        BY <1>1 DEF Placed, Row, Record
      <3> QED
        BY <3>1 DEF Elems, At
    <2>2. \A i \in 1..Len(q.ready) : pr[q.ready[i]] = q.prio[q.ready[i]]
      BY <1>3, <2>1
    <2> QED
      BY <1>2, <1>3, <1>6, <2>2 DEF Ranked
  <1>9. p \in Pcb \ W /\ q1.semkey[p] = NoKey /\ q1.prio[p] \in Original
    BY <1>2, <1>3, <1>6
  <1> HIDE DEF W
  <1> QED
    BY <1>5, <1>7, <1>8, <1>9, InsertRanked

\* passeren: a process that blocks has its original priority again.
LEMMA PasserenRanked ==
  ASSUME NEW q \in Record, Ranked(q, 0), NEW key \in Key,
         NEW r, r = Passeren(q, key)
  PROVE  Ranked(r, 0)
  <1> DEFINE s  == [q.sem EXCEPT ![key] = @ - 1]
             k1 == [q EXCEPT !.sem = s]
             p  == q.running
  <1>1. /\ k1.ready = q.ready /\ k1.prio = q.prio /\ k1.semkey = q.semkey
        /\ k1.original = q.original /\ k1.queue = q.queue /\ k1.running = p
    BY DEF Record
  <1>2. r = k1 \/ /\ p # NULL
                  /\ r.ready = q.ready /\ r.original = q.original
                  /\ r.prio = [q.prio EXCEPT ![p] = q.original[p]]
                  /\ r.semkey = [q.semkey EXCEPT ![p] = key]
    BY DEF Passeren, insertBlocked, Record
  <1>3. CASE r = k1
    BY <1>1, <1>3, SameRanked
  <1>4. CASE r # k1
    <2>1. /\ p \in Pcb /\ q.ready \in Seq(Pcb)
          /\ q.prio \in [Pcb -> Int] /\ q.semkey \in [Pcb -> Key \cup {NoKey}]
      BY <1>2, <1>4 DEF Record
    <2>2. /\ \A x \in Pcb : x # p => r.prio[x] = q.prio[x] /\ r.semkey[x] = q.semkey[x]
          /\ r.prio[p] = q.original[p] /\ r.original = q.original /\ r.ready = q.ready
      BY <1>2, <1>4, <2>1
    <2> HIDE DEF p, k1
    <2>3. r.prio[p] \in Original /\ r.prio[p] <= r.prio[p]
      <3>1. \A x \in Pcb : q.original[x] \in Original
        BY DEF Ranked
      <3>2. r.prio[p] \in Original
        BY <2>1, <2>2, <3>1
      <3>3. r.prio[p] \in Int
        BY <3>2, OriginalInt
      <3>4. r.prio[p] <= r.prio[p]
        BY <3>3
      <3> QED
        BY <3>2, <3>4
    <2>4. ASSUME NEW i \in 1..Len(r.ready) PROVE Allowed(r.prio[r.ready[i]], i - 0)
      <3>1. i \in 1..Len(q.ready) /\ r.ready[i] = q.ready[i] /\ q.ready[i] \in Pcb
        BY <2>1, <2>2
      <3>2. CASE q.ready[i] = p
        BY <2>3, <3>1, <3>2 DEF Allowed
      <3>3. CASE q.ready[i] # p
        BY <2>2, <3>1, <3>3 DEF Ranked
      <3> QED
        BY <3>2, <3>3
    <2> QED
      BY <2>1, <2>2, <2>3, <2>4 DEF Ranked
  <1> QED
    BY <1>3, <1>4

\* verhogen: who is woken has its original priority, as it had while it waited.
LEMMA VerhogenRanked ==
  ASSUME NEW q, NEW W, Placed(q, W), Ranked(q, 0), NEW key \in Key,
         NEW r, r = Verhogen(q, key)
  PROVE  Ranked(r, 0)
  <1> DEFINE s  == [q.sem EXCEPT ![key] = @ + 1]
             k1 == [q EXCEPT !.sem = s]
             p  == headProcQ(k1.queue[key])
             k2 == removeBlocked(k1, key)
             k3 == insertProcqReady(k2, "none", p)
  <1>1. q \in Record /\ W \subseteq Pcb
    BY DEF Placed
  <1>2. s \in [Key -> Int]
    BY <1>1 DEF Record
  <1> HIDE DEF s
  <1>3. /\ k1 \in Record /\ k1.ready = q.ready /\ k1.queue = q.queue
        /\ k1.ready_processes = q.ready_processes /\ k1.prio = q.prio
        /\ k1.semkey = q.semkey /\ k1.original = q.original
    BY <1>1, <1>2 DEF Record
  <1>4. r = IF k1.sem[key] > 0 \/ k1.queue[key] = <<>> THEN k1
            ELSE [k3 EXCEPT !.blocked_processes = @ - 1]
    BY DEF Verhogen, s
  <1>5. Placed(k1, W)
    <2>1. \A x \in Pcb : Beyond < k1.prio[x] /\ Beyond < k1.original[x]
      BY <1>3 DEF Placed
    <2> HIDE DEF k1
    <2> QED
      BY <1>3, <2>1, SamePlaced
  <1> HIDE DEF k1
  <1>6. Ranked(k1, 0)
    BY <1>3, SameRanked
  <1>7. CASE k1.sem[key] > 0 \/ k1.queue[key] = <<>>
    BY <1>4, <1>6, <1>7
  <1>8. CASE ~(k1.sem[key] > 0 \/ k1.queue[key] = <<>>)
    <2>1. p \in Pcb /\ k1.semkey[p] = key /\ Left(k2, k1, W, p, key)
      BY <1>1, <1>5, <1>8, RemoveBlockedPlaced
    <2>2. /\ k2.ready = k1.ready /\ k2.prio = k1.prio /\ k2.original = k1.original
      BY <1>3 DEF removeBlocked, Record
    <2> HIDE DEF p, k2
    <2>3. /\ Placed(k2, W \ {p}) /\ k2.semkey[p] = NoKey
          /\ \A x \in Pcb : x # p => k2.semkey[x] = k1.semkey[x]
      BY <2>1 DEF Left
    <2>4. k2.prio[p] \in Original
      BY <1>6, <2>1, <2>2, KeyAssumption DEF Ranked
    <2>5. Ranked(k2, 0)
      BY <1>6, <2>2, <2>3 DEF Ranked
    <2>6. Ranked(k3, 0) /\ k3 \in Record
      <3>1. p \in Pcb \ (W \ {p})
        BY <2>1
      <3>2. Placed(k3, (W \ {p}) \cup {p})
        BY <2>3, <3>1, InsertReadyPlaced
      <3> QED
        BY <2>3, <2>4, <2>5, <3>1, <3>2, InsertRanked DEF Placed
    <2> HIDE DEF k3
    <2>7. r.ready = k3.ready /\ r.prio = k3.prio /\ r.semkey = k3.semkey
          /\ r.original = k3.original
      BY <1>4, <1>8, <2>6 DEF Record
    <2> QED
      BY <2>6, <2>7, SameRanked
  <1> QED
    BY <1>7, <1>8

\* SYS3 takes its victim from a queue of a semaphore, from the ready queue, or
\* from the processor.
LEMMA RemoveRanked ==
  ASSUME NEW q, NEW L, Good(q, L), NEW pid \in L, Ranked(q, 0), NEW r, r = Remove(q, pid)
  PROVE  Ranked(r, 0)
  <1>1. /\ q \in Record /\ pid \in Pcb /\ q.ready \in Seq(Pcb)
        /\ q.semkey \in [Pcb -> Key \cup {NoKey}]
    <2>1. q \in Record /\ pid \in Pcb
      BY GoodFacts
    <2> QED
      BY <2>1 DEF Record
  <1>2. CASE q.semkey[pid] # NoKey
    <2>1. /\ r.ready = q.ready /\ r.prio = q.prio /\ r.original = q.original
          /\ r.semkey = [q.semkey EXCEPT ![pid] = NoKey]
      BY <1>1, <1>2 DEF Remove, outBlocked, Record
    <2>2. \A x \in Pcb : r.semkey[x] # NoKey => q.semkey[x] # NoKey
      BY <1>1, <2>1
    <2> QED
      BY <2>1, <2>2 DEF Ranked
  <1>3. CASE q.semkey[pid] = NoKey /\ pid # q.running
    <2>1. /\ r.ready = outProcQ(q.ready, pid) /\ r.prio = q.prio
          /\ r.original = q.original /\ r.semkey = q.semkey
      BY <1>1, <1>3 DEF Remove, Record
    <2>2. CASE pid \in Elems(q.ready)
      <3>1. PICK j \in 1..Len(q.ready) : r.ready = Unlink(q.ready, j)
        BY <1>1, <2>1, <2>2, OutUnlinks
      <3>2. 0 \in {0, 1} /\ ~(0 = 1)
        OBVIOUS
      <3> QED
        BY <1>1, <2>1, <3>1, <3>2, UnlinkRanked
    <2>3. CASE pid \notin Elems(q.ready)
      BY <2>1, <2>3, SameRanked DEF outProcQ
    <2> QED
      BY <2>2, <2>3
  <1>4. CASE q.semkey[pid] = NoKey /\ pid = q.running
    <2>1. r.ready = q.ready /\ r.prio = q.prio /\ r.original = q.original
          /\ r.semkey = q.semkey
      BY <1>1, <1>4 DEF Remove, Record
    <2> QED
      BY <2>1, SameRanked
  <1> QED
    BY <1>2, <1>3, <1>4

\* While somebody runs, not all PCBs are in the ready queue.
LEMMA ReadyLength ==
  ASSUME NEW q, NEW L, Good(q, L), q.running # NULL
  PROVE  Len(q.ready) <= MaxProc - 1
  <1> DEFINE u == q.running
             T == Pcb \ {u}
  <1>1. /\ Placed(q, L \ {u}) /\ u \in Pcb /\ L \subseteq Pcb
        /\ q.ready \in Seq(Pcb)
    <2>1. /\ Placed(q, L \ {u}) /\ u \in Pcb /\ L \subseteq Pcb /\ q \in Record
      BY GoodFacts
    <2> QED
      BY <2>1 DEF Record
  <1>2. Row(q.ready, q.prio, At(q, L \ {u}, NoKey))
    BY <1>1 DEF Placed
  <1>3. q.ready \in Injection(1..Len(q.ready), T)
    <2>1. \A i \in 1..Len(q.ready) : q.ready[i] \in T
      BY <1>1, <1>2 DEF Row, Elems, At
    <2>2. \A i, j \in 1..Len(q.ready) : q.ready[i] = q.ready[j] => i = j
      BY <1>1, <1>2 DEF Row, Injective
    <2>3. q.ready \in [1..Len(q.ready) -> T]
      BY <1>1, <2>1
    <2> QED
      BY <2>2, <2>3 DEF Injection, IsInjective
  <1>4. Pcb = 1..MaxProc /\ MaxProc \in Nat /\ 1 \in Int
    BY FamilyAssumption DEF Pcb, Fam!Pcb
  <1>5. IsFiniteSet(T) /\ Cardinality(T) = MaxProc - 1
    <2>1. IsFiniteSet(Pcb) /\ Cardinality(Pcb) = MaxProc
      BY <1>4, FS_Interval
    <2> QED
      BY <1>1, <2>1, FS_RemoveElement
  <1>6. Cardinality(1..Len(q.ready)) = Len(q.ready)
    BY <1>1, FS_Interval
  <1> HIDE DEF T
  <1> QED
    BY <1>3, <1>5, <1>6, FS_Injection

\* The end of a slice, before the dispatch: all have risen by one, and no more
\* than MaxProc - 1 are waiting.
LEMMA AgeRanked ==
  ASSUME NEW q, NEW L, Good(q, L), Ranked(q, 0), q.running # NULL \/ q.ready = <<>>,
         NEW r, r = [q EXCEPT !.prio = [p \in Pcb |-> IF p \in Elems(q.ready) THEN @[p] + 1
                                                      ELSE @[p]]]
  PROVE  Ranked(r, 1)
  <1> DEFINE W  == L \ {q.running}
  <1>1. /\ q \in Record /\ Placed(q, W) /\ q.ready \in Seq(Pcb) /\ q.prio \in [Pcb -> Int]
        /\ Len(q.ready) \in Nat
    <2>1. q \in Record /\ Placed(q, W)
      BY GoodFacts
    <2> QED
      BY <2>1 DEF Record
  <1>2. Elems(q.ready) = At(q, W, NoKey)
    BY <1>1 DEF Placed, Row
  <1>3. /\ r.ready = q.ready /\ r.semkey = q.semkey /\ r.original = q.original
        /\ \A p \in Pcb : r.prio[p] = IF p \in Elems(q.ready) THEN q.prio[p] + 1 ELSE q.prio[p]
    BY <1>1 DEF Record
  <1>4. \A p \in Pcb : r.semkey[p] # NoKey => r.prio[p] \in Original
    BY <1>2, <1>3 DEF Ranked, At
  <1>5. ASSUME NEW i \in 1..Len(r.ready) PROVE Allowed(r.prio[r.ready[i]], i - 1)
    <2> DEFINE p == q.ready[i]
    <2>1. i \in 1..Len(q.ready) /\ p \in Pcb /\ p \in Elems(q.ready) /\ r.ready[i] = p
      BY <1>1, <1>3 DEF Elems
    <2>2. r.prio[p] = q.prio[p] + 1 /\ q.prio[p] \in Int
      BY <1>1, <1>3, <2>1
    <2>3. Len(q.ready) <= MaxProc - 1
      BY <1>1, <2>1, ReadyLength
    <2>4. Allowed(q.prio[p], i - 0)
      BY <2>1 DEF Ranked
    <2> HIDE DEF p
    <2>5. PICK n \in Original : q.prio[p] <= n \/ q.prio[p] + (i - 0) <= n + MaxProc - 1
      BY <2>4 DEF Allowed
    <2>6. r.prio[p] + (i - 1) <= n + MaxProc - 1
      BY <1>1, <2>1, <2>2, <2>3, <2>5, OriginalInt
    <2> QED
      BY <2>1, <2>6 DEF Allowed
  <1> QED
    BY <1>3, <1>4, <1>5 DEF Ranked

----------------------------------------------------------------------------
\* The end of a system call keeps the sum.
LEMMA EndsRanked ==
  ASSUME NEW q, NEW L, Good(q, L), Ranked(q, 0), SyscallEnds(q)
  PROVE  Ranked(k', 0)
  <1>1. k' = IF q.running # NULL THEN q ELSE schedule(q, "none")
    BY DEF SyscallEnds
  <1>2. CASE q.running # NULL
    BY <1>1, <1>2
  <1>3. CASE q.running = NULL
    <2>1. k' = schedule(q, "none") /\ 0 \in {0, 1}
      BY <1>1, <1>3
    <2> QED
      BY <2>1, ScheduleRanked
  <1> QED
    BY <1>2, <1>3

\* So does an interrupt of the timer: after aging only the dispatch brings the sum back.
LEMMA TimerRanked ==
  ASSUME NEW q, NEW L, Good(q, L), NEW d \in {0, 1}, Ranked(q, d), TimerEnds(q)
  PROVE  Ranked(k', 0)
  <1>1. k' = schedule(q, OldArea)
    BY DEF TimerEnds
  <1> QED
    BY <1>1, ScheduleRanked

\* SYS2 takes a PCB that is not in use.
LEMMA SysCreateRanked ==
  ASSUME IInv, Ranked(k, 0), NEW n \in Prio, NEW m \in Masks, SysCreate(n, m)
  PROVE  Ranked(k', 0)
  <1> DEFINE p == Fam!allocPcb
             q == Created(k, p, n)
  <1>1. k.cpu = "user" /\ Fam!CreateProcess(k.running) /\ SyscallEnds(q)
    BY DEF SysCreate, UserRuns, Created
  <1>2. p \in Pcb \ Live
    BY <1>1, AllocatedFree
  <1> HIDE DEF p
  <1>3. Good(k, Live) /\ Ranked(q, 0)
    BY <1>2, CreateRanked DEF IInv
  <1>4. Good(q, Live \cup {p})
    BY <1>2, <1>3, CreateGood
  <1> HIDE DEF q
  <1> QED
    BY <1>1, <1>3, <1>4, EndsRanked

\* SYS3 ends a process that is in use.
LEMMA RemoveEnds ==
  ASSUME IInv, Ranked(k, 0), NEW pid \in Live, SyscallEnds(Remove(k, pid))
  PROVE  Ranked(k', 0)
  <1>1. Good(k, Live)
    BY DEF IInv
  <1>2. Good(Remove(k, pid), Live \ {pid}) /\ Ranked(Remove(k, pid), 0)
    BY <1>1, RemoveGood, RemoveRanked
  <1> QED
    BY <1>2, EndsRanked

\* SYS3 without a loop over children.
LEMMA TerminateRanked ==
  ASSUME IInv, Ranked(k, 0), NEW pid \in Pcb, Terminate(pid)
  PROVE  Ranked(k', 0)
  <1>1. CASE hung' \/ loop' # Fam!NoLoop
    BY <1>1 DEF Terminate
  <1>2. CASE ~(hung' \/ loop' # Fam!NoLoop)
    <2>1. SyscallEnds(Remove(k, pid))
      BY <1>2 DEF Terminate
    <2>2. pid \in Live
      BY <1>2, TerminatedLive
    <2> QED
      BY <2>1, <2>2, RemoveEnds
  <1> QED
    BY <1>1, <1>2

\* SYS5, SYS6 and SYS7.
LEMMA PasserenEnds ==
  ASSUME IInv, Ranked(k, 0), UserRuns, NEW key \in Key, SyscallEnds(Passeren(k, key))
  PROVE  Ranked(k', 0)
  <1>1. k.running # NULL /\ Good(k, Live) /\ k \in Record
    BY RunningLive, GoodFacts DEF UserRuns, IInv
  <1>2. Good(Passeren(k, key), Live) /\ Ranked(Passeren(k, key), 0)
    BY <1>1, PasserenGood, PasserenRanked
  <1> QED
    BY <1>2, EndsRanked

\* Verhogen may be called on any semaphore.
LEMMA VerhogenKeeps ==
  ASSUME IInv, Ranked(k, 0), NEW key \in Key
  PROVE  Ranked(Verhogen(k, key), 0)
  <1>1. Placed(k, Live \ {k.running})
    BY GoodFacts DEF IInv
  <1> QED
    BY <1>1, VerhogenRanked

\* interrupts.c:49-56: the slice ends.
LEMMA TimeSliceRanked == ASSUME IInv, Ranked(k, 0), TimeSlice PROVE Ranked(k', 0)
  <1> DEFINE q == [k EXCEPT !.prio = [p \in Pcb |-> IF p \in Elems(k.ready) THEN @[p] + 1
                                                    ELSE @[p]]]
  <1>1. TimerTaken /\ TimerEnds(q) /\ Good(k, Live) /\ 1 \in {0, 1}
    BY DEF TimeSlice, IInv
  <1>2. k.running # NULL \/ k.ready = <<>>
    BY <1>1, RunningLive DEF TimerTaken, Enabled, UserRuns, IInv, Waits
  <1>3. Good(q, Live)
    BY <1>1, AgeGood
  <1>4. Ranked(q, 1)
    BY <1>1, <1>2, AgeRanked
  <1> HIDE DEF q
  <1> QED
    BY <1>1, <1>3, <1>4, TimerRanked

\* A device wakes its waiter, or finds none.
LEMMA DeviceRanked ==
  ASSUME IInv, Ranked(k, 0), NEW d \in Device, DeviceInterrupt(d)
  PROVE  Ranked(k', 0)
  <1>1. d \in Key /\ d \in KernelSem /\ k \in Record /\ Good(k, Live)
    BY GoodFacts DEF Key, KernelSem, IInv
  <1>2. CASE k.queue[d] = <<>>
    <2>1. k' = [k EXCEPT !.cpu = "panic"]
      BY <1>2 DEF DeviceInterrupt
    <2>2. k'.ready = k.ready /\ k'.prio = k.prio /\ k'.semkey = k.semkey
          /\ k'.original = k.original
      BY <1>1, <2>1 DEF Record
    <2> QED
      BY <2>2, SameRanked
  <1>3. CASE k.queue[d] # <<>>
    <2> DEFINE q == Verhogen(k, d)
    <2>1. k' = IF q.running # NULL THEN [q EXCEPT !.cpu = LDST(OldArea)]
               ELSE schedule(q, "none")
      BY <1>3 DEF DeviceInterrupt
    <2>2. k.sem[d] < 0
      <3>1. Sound(k, Live \ {k.running})
        BY <1>1, GoodFacts
      <3> QED
        BY <1>1, <1>3, <3>1, BelowZero
    <2>3. Good(q, Live) /\ Ranked(q, 0)
      BY <1>1, <2>2, VerhogenGood, VerhogenKeeps
    <2> HIDE DEF q
    <2>4. CASE q.running # NULL
      <3>1. q \in Record /\ k' = [q EXCEPT !.cpu = LDST(OldArea)]
        BY <2>1, <2>3, <2>4, GoodFacts
      <3>2. k'.ready = q.ready /\ k'.prio = q.prio /\ k'.semkey = q.semkey
            /\ k'.original = q.original
        BY <3>1 DEF Record
      <3> QED
        BY <2>3, <3>2, SameRanked
    <2>5. CASE q.running = NULL
      <3>1. k' = schedule(q, "none") /\ 0 \in {0, 1}
        BY <2>1, <2>5
      <3> QED
        BY <2>3, <3>1, ScheduleRanked
    <2> QED
      BY <2>4, <2>5
  <1> QED
    BY <1>2, <1>3

\* Every step keeps the sum of priority and position below its bound.
LEMMA NextRanked == ASSUME IInv, Ranked(k, 0), [Next]_vars PROVE Ranked(k', 0)
  <1>0. Good(k, Live) /\ k \in Record /\ 0 \in {0, 1}
    BY GoodFacts DEF IInv
  <1>1. ASSUME NEW n \in Prio, NEW m \in Masks, SysCreate(n, m) PROVE Ranked(k', 0)
    BY <1>1, SysCreateRanked
  <1>2. ASSUME NEW pid \in Pcb, Terminate(pid) PROVE Ranked(k', 0)
    BY <1>2, TerminateRanked
  <1>3. CASE TerminateEnd
    <2>1. loop.pid \in Live
      BY <1>3, SameNames, LiveFacts
         DEF IInv, FP!IInv, FP!LoopInv, TerminateEnd, Fam!TerminateEnd
    <2> QED
      BY <1>3, <2>1, RemoveEnds DEF TerminateEnd
  <1>4. ASSUME NEW s \in UserSem, SysVerhogen(s) PROVE Ranked(k', 0)
    <2>1. s \in Key /\ s \notin KernelSem /\ SyscallEnds(Verhogen(k, s))
      BY <1>4, KeyAssumption DEF Key, SysVerhogen
    <2>2. Good(Verhogen(k, s), Live) /\ Ranked(Verhogen(k, s), 0)
      BY <1>0, <2>1, VerhogenGood, VerhogenKeeps
    <2> QED
      BY <2>1, <2>2, EndsRanked
  <1>5. ASSUME NEW s \in UserSem, SysPasseren(s) PROVE Ranked(k', 0)
    <2>1. s \in Key
      BY DEF Key
    <2> QED
      BY <1>5, <2>1, PasserenEnds DEF SysPasseren
  <1>6. CASE SysWaitClock
    <2>1. waitclockSem \in Key
      BY DEF Key, KernelSem
    <2> QED
      BY <1>6, <2>1, PasserenEnds DEF SysWaitClock
  <1>7. ASSUME NEW d \in Device, SysDoIO(d) PROVE Ranked(k', 0)
    <2>1. d \in Key
      BY DEF Key, KernelSem
    <2> QED
      BY <1>7, <2>1, PasserenEnds DEF SysDoIO
  <1>8. ASSUME NEW d \in Device, DeviceInterrupt(d) PROVE Ranked(k', 0)
    BY <1>8, DeviceRanked
  <1>9. ASSUME SyscallEnds(k) PROVE Ranked(k', 0)
    BY <1>0, <1>9, EndsRanked
  <1>10. CASE SysSetTutor \/ CallerGoesOn \/ \E m \in Masks : PassUp(m)
    BY <1>9, <1>10 DEF SysSetTutor, CallerGoesOn, PassUp
  <1>11. CASE TimeSlice
    BY <1>11, TimeSliceRanked
  <1>12. CASE PseudoClock
    <2> DEFINE c == IF k.cpu = "idle" THEN "idleclock" ELSE "clock"
    <2>1. k' = [k EXCEPT !.cpu = c]
      BY <1>12 DEF PseudoClock
    <2> HIDE DEF c
    <2>2. k'.ready = k.ready /\ k'.prio = k.prio /\ k'.semkey = k.semkey
          /\ k'.original = k.original
      BY <1>0, <2>1 DEF Record
    <2> QED
      BY <2>2, SameRanked
  <1>13. CASE ClockWake
    <2>1. waitclockSem \in Key /\ k' = Verhogen(k, waitclockSem)
      BY <1>13 DEF Key, KernelSem, ClockWake
    <2> QED
      BY <2>1, VerhogenKeeps
  <1>14. CASE ClockEnd
    BY <1>0, <1>14, TimerRanked DEF ClockEnd
  <1>15. ASSUME k' = k PROVE Ranked(k', 0)
    BY <1>15
  <1>16. CASE AdoptNext \/ (\E d \in Device : DeviceDone(d)) \/ UNCHANGED vars
    BY <1>15, <1>16 DEF AdoptNext, DeviceDone, vars
  <1> QED
    BY <1>1, <1>2, <1>3, <1>4, <1>5, <1>6, <1>7, <1>8, <1>10, <1>11, <1>12, <1>13, <1>14,
       <1>16 DEF Next

----------------------------------------------------------------------------
\* interrupts.c:49-56: a ready process ages to no more than MaxProc - 2 above some
\* original priority before it is served, so no more slices than that end after
\* it has passed all original priorities.  (A single process is not passed over.)
THEOREM NobodyStarves == ASSUME MaxProc # 1 PROVE Spec => []ServedSoon
  <1>1. Init => Ranked(k, 0)
    <2> SUFFICES ASSUME Init PROVE Ranked(k, 0)
      OBVIOUS
    <2>1. /\ k.ready = <<>> /\ k.original = [p \in Pcb |-> 0]
          /\ k.semkey = [p \in Pcb |-> NoKey]
      BY DEF Init
    <2>2. 0 \in Original /\ 1..Len(k.ready) = {}
      BY <2>1 DEF Original
    <2> QED
      BY <2>1, <2>2 DEF Ranked
  <1>2. IInv /\ Ranked(k, 0) /\ [Next]_vars => Ranked(k, 0)'
    BY NextRanked
  <1>3. IInv /\ Ranked(k, 0) => ServedSoon
    <2> SUFFICES ASSUME IInv, Ranked(k, 0) PROVE ServedSoon
      OBVIOUS
    <2>1. k \in Record /\ DOMAIN k.ready = 1..Len(k.ready)
      <3>1. k \in Record
        BY GoodFacts DEF IInv
      <3> QED
        BY <3>1 DEF Record
    <2> SUFFICES ASSUME NEW i \in 1..Len(k.ready)
                 PROVE  \E n \in Original : k.prio[k.ready[i]] <= n + MaxProc - 2
      BY <2>1 DEF ServedSoon, Elems, Original
    <2> DEFINE m == k.prio[k.ready[i]]
    <2>2. m \in Int /\ i \in Int /\ i >= 1
      BY <2>1 DEF Record
    <2>3. Allowed(m, i - 0)
      BY DEF Ranked
    <2> HIDE DEF m
    <2>4. PICK n \in Original : m <= n \/ m + (i - 0) <= n + MaxProc - 1
      BY <2>3 DEF Allowed
    <2>5. n \in Int /\ MaxProc \in Int /\ MaxProc >= 2
      BY OriginalInt, FamilyAssumption
    <2>6. m <= n + MaxProc - 2
      BY <2>2, <2>4, <2>5
    <2> QED
      BY <2>6 DEF m
  <1> QED
    BY <1>1, <1>2, <1>3, Inductive, PTL DEF Spec

----------------------------------------------------------------------------
(***************************************************************************)
(* What the nucleus does to the queues of the semaphores is what           *)
(* BlockedQueues does.  That a process is put into such a queue only when  *)
(* it is in none rests on Unkeyed for a PCB that SYS2 takes, and on IInv   *)
(* for one that runs.                                                      *)
(***************************************************************************)

\* Only a PCB in use has a key.
Unkeyed(q, L) == \A p \in Pcb \ L : q.semkey[p] = NoKey

\* From q to r nothing happens to those that wait.
Kept(q, r) ==
  /\ r.queue = q.queue /\ r.semkey = q.semkey /\ r.prio \in [Pcb -> Int]
  /\ \A p \in Pcb : q.semkey[p] # NoKey => r.prio[p] = q.prio[p]

\* p begins to wait for key, maybe with another priority.
Suspended(q, r, key, p) ==
  /\ q.semkey[p] = NoKey
  /\ r.prio \in [Pcb -> Int] /\ \A x \in Pcb \ {p} : r.prio[x] = q.prio[x]
  /\ r.semkey = [q.semkey EXCEPT ![p] = key]
  /\ r.queue = [q.queue EXCEPT ![key] = insertProcQ(q.queue[key], p, r.prio, Beyond)]

\* The first one that waits for key is woken.
Woken(q, r, key) ==
  /\ q.queue[key] # <<>> /\ r.prio = q.prio
  /\ r.semkey = [q.semkey EXCEPT ![headProcQ(q.queue[key])] = NoKey]
  /\ r.queue = [q.queue EXCEPT ![key] = removeProcQ(q.queue[key])]

\* p is killed while it waits.
Killed(q, r, p) ==
  /\ q.semkey[p] # NoKey /\ r.prio = q.prio
  /\ r.semkey = [q.semkey EXCEPT ![p] = NoKey]
  /\ r.queue = [q.queue EXCEPT ![q.semkey[p]] = outProcQ(q.queue[q.semkey[p]], p)]

\* What one action may do to the queues: nothing, or one of these to one PCB of L.
QueueStep(q, r, L) ==
  \/ Kept(q, r)
  \/ \E key \in Key, p \in L : Suspended(q, r, key, p)
  \/ \E key \in Key : Woken(q, r, key)
  \/ \E p \in L : Killed(q, r, p)

\* The queue operators of the two modules are the same.
LEMMA SameQueueOperators ==
  /\ \A q, p, prio, b : Queues!insertProcQ(q, p, prio, b) = insertProcQ(q, p, prio, b)
  /\ \A q : Queues!headProcQ(q) = headProcQ(q) /\ Queues!removeProcQ(q) = removeProcQ(q)
  /\ \A q, p : Queues!outProcQ(q, p) = outProcQ(q, p)
  <1>1. \A q, p, prio, b : Queues!insertProcQ(q, p, prio, b) = insertProcQ(q, p, prio, b)
    BY DEF Queues!insertProcQ, insertProcQ, Queues!BreakAt, BreakAt,
           Queues!NextPrio, NextPrio, Queues!Link, Link
  <1>2. \A q, p : Queues!outProcQ(q, p) = outProcQ(q, p)
    BY DEF Queues!outProcQ, outProcQ, Queues!Elems, Elems, Queues!Unlink, Unlink
  <1> QED
    BY <1>1, <1>2 DEF Queues!headProcQ, headProcQ, Queues!removeProcQ, removeProcQ

\* Such a step is one of BlockedQueues.
LEMMA QueueStepIsNext ==
  ASSUME NEW L \in SUBSET Pcb, QueueStep(k, k', L)
  PROVE  Queues!Next
  <1>1. CASE Kept(k, k')
    <2>1. Queues!ChangePriorities
      BY <1>1 DEF Kept, Queues!ChangePriorities
    <2> QED
      BY <2>1 DEF Queues!Next
  <1>2. ASSUME NEW key \in Key, NEW p \in L, Suspended(k, k', key, p) PROVE Queues!Next
    <2>1. Queues!InsertBlocked(key, p)
      BY <1>2, SameQueueOperators DEF Suspended, Queues!InsertBlocked
    <2> QED
      BY <2>1 DEF Queues!Next
  <1>3. ASSUME NEW key \in Key, Woken(k, k', key) PROVE Queues!Next
    <2>1. Queues!RemoveBlocked(key)
      BY <1>3, SameQueueOperators DEF Woken, Queues!RemoveBlocked
    <2> QED
      BY <2>1 DEF Queues!Next
  <1>4. ASSUME NEW p \in L, Killed(k, k', p) PROVE Queues!Next
    <2>1. Queues!OutBlocked(p)
      BY <1>4, SameQueueOperators DEF Killed, Queues!OutBlocked
    <2> QED
      BY <2>1 DEF Queues!Next
  <1> QED
    BY <1>1, <1>2, <1>3, <1>4 DEF QueueStep

\* What follows a step and leaves these fields alone is part of it.
LEMMA SameQueueStep ==
  ASSUME NEW q, NEW r, NEW s, NEW L, QueueStep(q, r, L),
         s.queue = r.queue, s.semkey = r.semkey, s.prio = r.prio
  PROVE  QueueStep(q, s, L)
  <1>1. Kept(q, r) => Kept(q, s)
    BY DEF Kept
  <1>2. \A key \in Key, p \in L : Suspended(q, r, key, p) => Suspended(q, s, key, p)
    BY DEF Suspended
  <1>3. \A key \in Key : Woken(q, r, key) => Woken(q, s, key)
    BY DEF Woken
  <1>4. \A p \in L : Killed(q, r, p) => Killed(q, s, p)
    BY DEF Killed
  <1> QED
    BY <1>1, <1>2, <1>3, <1>4 DEF QueueStep

\* schedule changes the priority of the running process at most.
LEMMA ScheduleKeeps ==
  ASSUME NEW q, NEW L, Good(q, L), NEW old, NEW r, r = schedule(q, old)
  PROVE  /\ Kept(q, r)
         /\ q.running = NULL => r.prio = q.prio
  <1> DEFINE u == q.running
             W == L \ {u}
  <1>1. /\ q \in Record /\ Placed(q, W)
        /\ u # NULL => u \in Pcb \ W /\ q.semkey[u] = NoKey
    BY GoodFacts
  <1>2. q.ready \in Seq(Pcb) /\ q.ready_processes = Len(q.ready) /\ Len(q.ready) \in Nat
        /\ q.prio \in [Pcb -> Int]
    BY <1>1 DEF Placed, Record
  <1>3. CASE q.ready_processes > 0
    <2> DEFINE p  == headProcQ(q.ready)
               k1 == [q EXCEPT !.ready = removeProcQ(@), !.ready_processes = @ - 1]
               k2 == IF k1.running = NULL THEN k1
                     ELSE insertProcqReady(k1, old, k1.running)
    <2>1. q.ready # <<>>
      BY <1>2, <1>3
    <2>2. Placed(k1, W \ {p})
      BY <1>1, <2>1, RemoveReadyPlaced
    <2>3. r = [k2 EXCEPT !.running = p, !.cpu = LDST(k2.saved[p])]
      BY <1>3 DEF schedule
    <2>4. /\ k1.prio = q.prio /\ k1.queue = q.queue
          /\ k1.semkey = q.semkey /\ k1.running = u
      BY <1>1 DEF Record
    <2> HIDE DEF k1, p, u
    <2>5. /\ k2 \in Record /\ k2.queue = q.queue /\ k2.semkey = q.semkey
          /\ \A x \in Pcb : x # u => k2.prio[x] = q.prio[x]
          /\ u = NULL => k2.prio = q.prio
      <3>1. CASE u = NULL
        <4>1. k2 = k1
          BY <2>4, <3>1
        <4> QED
          BY <2>2, <2>4, <4>1 DEF Placed
      <3>2. CASE u # NULL
        <4>1. k2 = insertProcqReady(k1, old, u)
          BY <2>4, <3>2
        <4>2. u \in Pcb \ (W \ {p}) /\ k1.semkey[u] = NoKey /\ k1 \in Record
          BY <1>1, <2>2, <2>4, <3>2 DEF Placed
        <4> HIDE DEF k2
        <4>3. Placed(k2, (W \ {p}) \cup {u})
          BY <2>2, <4>1, <4>2, InsertReadyPlaced
        <4>4. /\ k2.queue = k1.queue /\ k2.semkey = k1.semkey
              /\ \A x \in Pcb : k2.prio[x] = IF x = u /\ k1.running = u THEN k1.original[u]
                                             ELSE k1.prio[x]
          BY <4>1, <4>2, InsertReadyFields
        <4> QED
          BY <2>4, <3>2, <4>3, <4>4 DEF Placed
      <3> QED
        BY <3>1, <3>2
    <2> HIDE DEF k2
    <2>6. r.queue = k2.queue /\ r.prio = k2.prio /\ r.semkey = k2.semkey
          /\ k2.prio \in [Pcb -> Int]
      BY <2>3, <2>5 DEF Record
    <2>7. \A x \in Pcb : q.semkey[x] # NoKey => x # u
      BY <1>1, PcbFacts
    <2> QED
      BY <2>5, <2>6, <2>7 DEF Kept, u
  <1>4. CASE ~(q.ready_processes > 0)
    <2> DEFINE c == IF q.blocked_processes > 0 THEN "idle" ELSE "halt"
    <2>1. r = [q EXCEPT !.cpu = c]
      BY <1>4 DEF schedule
    <2> HIDE DEF c
    <2>2. r.queue = q.queue /\ r.prio = q.prio /\ r.semkey = q.semkey
      BY <1>1, <2>1 DEF Record
    <2> QED
      BY <1>2, <2>2 DEF Kept
  <1> QED
    BY <1>3, <1>4

\* So the end of a system call adds nothing.
LEMMA EndsQueueStep ==
  ASSUME NEW q, NEW L, Good(q, L), NEW M, QueueStep(k, q, M), SyscallEnds(q)
  PROVE  QueueStep(k, k', M) /\ k'.semkey = q.semkey
  <1>1. k' = IF q.running # NULL THEN q ELSE schedule(q, "none")
    BY DEF SyscallEnds
  <1>2. CASE q.running # NULL
    BY <1>1, <1>2
  <1>3. CASE q.running = NULL
    <2>1. k'.queue = q.queue /\ k'.semkey = q.semkey /\ k'.prio = q.prio
      BY <1>1, <1>3, ScheduleKeeps DEF Kept
    <2> QED
      BY <2>1, SameQueueStep
  <1> QED
    BY <1>2, <1>3

\* Nothing follows from nothing, and after nothing.
LEMMA KeptSelf == ASSUME NEW q \in Record PROVE Kept(q, q)
  BY DEF Kept, Record

\* Two steps that touch nobody who waits are one.
LEMMA KeptThen ==
  ASSUME NEW q, NEW r, NEW s, Kept(q, r), Kept(r, s)
  PROVE  Kept(q, s)
  BY DEF Kept

\* SYS5, SYS6 and SYS7.
LEMMA PasserenStep ==
  ASSUME NEW q, NEW L, Good(q, L), NEW key \in Key, NEW r, r = Passeren(q, key)
  PROVE  QueueStep(q, r, L)
  <1> DEFINE s  == [q.sem EXCEPT ![key] = @ - 1]
             p  == q.running
             pr == [q.prio EXCEPT ![p] = q.original[p]]
  <1>1. /\ q \in Record
        /\ p # NULL => p \in L /\ p \in Pcb /\ q.semkey[p] = NoKey
    BY GoodFacts
  <1>2. q.prio \in [Pcb -> Int] /\ q.original \in [Pcb -> Int]
    BY <1>1 DEF Record
  <1>3. \/ r.queue = q.queue /\ r.semkey = q.semkey /\ r.prio = q.prio
        \/ /\ p # NULL /\ r.prio = pr
           /\ r.semkey = [q.semkey EXCEPT ![p] = key]
           /\ r.queue = [q.queue EXCEPT ![key] = insertProcQ(q.queue[key], p, pr, Beyond)]
    BY <1>1 DEF Passeren, insertBlocked, Record
  <1>4. CASE r.queue = q.queue /\ r.semkey = q.semkey /\ r.prio = q.prio
    BY <1>2, <1>4 DEF QueueStep, Kept
  <1>5. CASE /\ p # NULL /\ r.prio = pr
             /\ r.semkey = [q.semkey EXCEPT ![p] = key]
             /\ r.queue = [q.queue EXCEPT ![key] = insertProcQ(q.queue[key], p, pr, Beyond)]
    <2>1. p \in L /\ p \in Pcb /\ q.semkey[p] = NoKey
      BY <1>1, <1>2, <1>5
    <2>2. pr \in [Pcb -> Int] /\ \A x \in Pcb \ {p} : pr[x] = q.prio[x]
      BY <1>2, <2>1
    <2>3. Suspended(q, r, key, p)
      BY <1>5, <2>1, <2>2 DEF Suspended
    <2> QED
      BY <2>1, <2>3 DEF QueueStep
  <1> QED
    BY <1>3, <1>4, <1>5

\* SYS4, the tick and the devices: who is woken does not run.
LEMMA VerhogenStep ==
  ASSUME NEW q, NEW L, Good(q, L), NEW key \in Key, NEW r, r = Verhogen(q, key)
  PROVE  QueueStep(q, r, L)
  <1> DEFINE s  == [q.sem EXCEPT ![key] = @ + 1]
             W  == L \ {q.running}
             k1 == [q EXCEPT !.sem = s]
             p  == headProcQ(k1.queue[key])
             k2 == removeBlocked(k1, key)
             k3 == insertProcqReady(k2, "none", p)
  <1>1. q \in Record /\ Placed(q, W) /\ W \subseteq Pcb
    BY GoodFacts
  <1>2. s \in [Key -> Int] /\ q.prio \in [Pcb -> Int]
    BY <1>1 DEF Record
  <1> HIDE DEF s
  <1>3. /\ k1 \in Record /\ k1.ready = q.ready /\ k1.queue = q.queue
        /\ k1.ready_processes = q.ready_processes /\ k1.prio = q.prio
        /\ k1.semkey = q.semkey /\ k1.original = q.original /\ k1.running = q.running
    BY <1>1, <1>2 DEF Record
  <1>4. r = IF k1.sem[key] > 0 \/ k1.queue[key] = <<>> THEN k1
            ELSE [k3 EXCEPT !.blocked_processes = @ - 1]
    BY DEF Verhogen, s
  <1>5. Placed(k1, W)
    <2>1. \A x \in Pcb : Beyond < k1.prio[x] /\ Beyond < k1.original[x]
      BY <1>1, <1>3 DEF Placed
    <2> HIDE DEF k1
    <2> QED
      BY <1>1, <1>3, <2>1, SamePlaced
  <1> HIDE DEF k1
  <1>6. CASE k1.sem[key] > 0 \/ k1.queue[key] = <<>>
    <2>1. Kept(q, r)
      BY <1>2, <1>3, <1>4, <1>6 DEF Kept
    <2> QED
      BY <2>1 DEF QueueStep
  <1>7. CASE ~(k1.sem[key] > 0 \/ k1.queue[key] = <<>>)
    <2>1. p \in Pcb /\ k1.semkey[p] = key /\ Left(k2, k1, W, p, key) /\ p \in W
      BY <1>1, <1>5, <1>7, RemoveBlockedPlaced
    <2>2. /\ k2.prio = k1.prio
          /\ k2.semkey = [k1.semkey EXCEPT ![p] = NoKey]
          /\ k2.queue = [k1.queue EXCEPT ![key] = removeProcQ(k1.queue[key])]
      BY <1>3 DEF removeBlocked, Record
    <2>3. p = headProcQ(q.queue[key]) /\ q.queue[key] # <<>>
      BY <1>3, <1>7
    <2> HIDE DEF p, k2
    <2>4. /\ Placed(k2, W \ {p}) /\ k2.semkey[p] = NoKey /\ k2.running = k1.running
          /\ k2 \in Record
      BY <2>1 DEF Left, Placed
    <2>5. p \in Pcb \ (W \ {p})
      BY <2>1
    <2>6. Placed(k3, (W \ {p}) \cup {p})
      BY <2>4, <2>5, InsertReadyPlaced
    <2>7. /\ k3.queue = k2.queue /\ k3.semkey = k2.semkey
          /\ \A x \in Pcb : k3.prio[x] = IF x = p /\ k2.running = p THEN k2.original[p]
                                         ELSE k2.prio[x]
      BY <2>4, <2>5, InsertReadyFields
    <2> HIDE DEF k3
    <2>8. k3 \in Record /\ k3.prio \in [Pcb -> Int]
      BY <2>6 DEF Placed, Record
    <2>9. k2.running # p
      BY <1>3, <2>1, <2>4
    <2>10. k3.prio = q.prio
      BY <1>2, <1>3, <2>2, <2>7, <2>8, <2>9
    <2>11. r.queue = k3.queue /\ r.prio = k3.prio /\ r.semkey = k3.semkey
      BY <1>4, <1>7, <2>8 DEF Record
    <2>12. Woken(q, r, key)
      BY <1>3, <2>2, <2>3, <2>7, <2>10, <2>11 DEF Woken
    <2> QED
      BY <2>11, <2>12 DEF QueueStep
  <1> QED
    BY <1>6, <1>7

\* SYS3: its victim has no key any more.
LEMMA RemoveStep ==
  ASSUME NEW q, NEW L, Good(q, L), NEW pid \in L, NEW r, r = Remove(q, pid)
  PROVE  QueueStep(q, r, L) /\ r.semkey[pid] = NoKey
  <1>1. /\ q \in Record /\ pid \in Pcb /\ q.prio \in [Pcb -> Int]
        /\ q.semkey \in [Pcb -> Key \cup {NoKey}]
    <2>1. q \in Record /\ pid \in Pcb
      BY GoodFacts
    <2> QED
      BY <2>1 DEF Record
  <1>2. CASE q.semkey[pid] # NoKey
    <2>1. /\ r.prio = q.prio
          /\ r.semkey = [q.semkey EXCEPT ![pid] = NoKey]
          /\ r.queue = [q.queue EXCEPT ![q.semkey[pid]] = outProcQ(q.queue[q.semkey[pid]], pid)]
      BY <1>1, <1>2 DEF Remove, outBlocked, Record
    <2>2. Killed(q, r, pid)
      BY <1>2, <2>1 DEF Killed
    <2> QED
      BY <1>1, <2>1, <2>2 DEF QueueStep
  <1>3. CASE q.semkey[pid] = NoKey
    <2>1. r.queue = q.queue /\ r.prio = q.prio /\ r.semkey = q.semkey
      BY <1>1, <1>3 DEF Remove, Record
    <2> QED
      BY <1>1, <1>3, <2>1 DEF QueueStep, Kept
  <1> QED
    BY <1>2, <1>3

\* SYS2: the PCB it takes was in no queue, and is not the running one.
LEMMA CreateStep ==
  ASSUME NEW q, NEW L, Good(q, L), Unkeyed(q, L), q.running # NULL,
         NEW p \in Pcb \ L, NEW n \in Prio, NEW r, r = Created(q, p, n)
  PROVE  Kept(q, r)
  <1> DEFINE pr == [q.prio EXCEPT ![p] = n]
             og == [q.original EXCEPT ![p] = n]
             sk == [q.semkey EXCEPT ![p] = NoKey]
             sv == [q.saved EXCEPT ![p] = "user"]
             k1 == [q EXCEPT !.prio = pr, !.original = og, !.semkey = sk, !.saved = sv]
  <1>0. q \in Record /\ q.running \in L
    BY GoodFacts
  <1>1. q \in Record /\ q.running # p /\ q.semkey[p] = NoKey /\ n \in Int
    BY <1>0, PrioAssumption DEF Unkeyed
  <1>2. /\ pr \in [Pcb -> Int] /\ og \in [Pcb -> Int] /\ sk = q.semkey
        /\ sk \in [Pcb -> Key \cup {NoKey}] /\ sv \in [Pcb -> Context]
        /\ \A x \in Pcb : x # p => pr[x] = q.prio[x]
    BY <1>1 DEF Record, Context
  <1> HIDE DEF pr, og, sk, sv
  <1>3. /\ k1 \in Record /\ k1.queue = q.queue /\ k1.semkey = q.semkey
        /\ k1.prio = pr /\ k1.running = q.running
    BY <1>1, <1>2 DEF Record
  <1>4. r = insertProcqReady(k1, "none", p)
    BY DEF Created, pr, og, sk, sv
  <1> HIDE DEF k1
  <1>5. /\ r.queue = k1.queue /\ r.semkey = k1.semkey /\ r.prio \in [Pcb -> Int]
        /\ \A x \in Pcb : r.prio[x] = IF x = p /\ k1.running = p THEN k1.original[p]
                                      ELSE k1.prio[x]
    BY <1>3, <1>4, InsertReadyFields
  <1>6. \A x \in Pcb : q.semkey[x] # NoKey => r.prio[x] = q.prio[x]
    BY <1>1, <1>2, <1>3, <1>5
  <1> QED
    BY <1>3, <1>5, <1>6 DEF Kept

\* Aging leaves those that wait for a semaphore alone.
LEMMA AgeKeeps ==
  ASSUME NEW q, NEW L, Good(q, L),
         NEW r, r = [q EXCEPT !.prio = [p \in Pcb |-> IF p \in Elems(q.ready) THEN @[p] + 1
                                                      ELSE @[p]]]
  PROVE  Kept(q, r)
  <1>0. q \in Record /\ Placed(q, L \ {q.running})
    BY GoodFacts
  <1>1. Placed(q, L \ {q.running}) /\ q.prio \in [Pcb -> Int]
    BY <1>0 DEF Record
  <1>2. Elems(q.ready) = At(q, L \ {q.running}, NoKey)
    BY <1>1 DEF Placed, Row
  <1>3. /\ r.queue = q.queue /\ r.semkey = q.semkey
        /\ r.prio = [p \in Pcb |-> IF p \in Elems(q.ready) THEN q.prio[p] + 1 ELSE q.prio[p]]
    BY <1>0 DEF Record
  <1> QED
    BY <1>1, <1>2, <1>3 DEF Kept, At

----------------------------------------------------------------------------
\* A step of the nucleus, as far as it matters here.
NextStep == QueueStep(k, k', Live) /\ Unkeyed(k', Live')

\* Nobody gets a key that is not in use.
LEMMA StepUnkeyed ==
  ASSUME NEW q \in Record, NEW r, NEW L \in SUBSET Pcb, QueueStep(q, r, L), Unkeyed(q, L)
  PROVE  Unkeyed(r, L)
  <1>1. q.semkey \in [Pcb -> Key \cup {NoKey}]
    BY DEF Record
  <1>2. CASE Kept(q, r)
    BY <1>2 DEF Kept, Unkeyed
  <1>3. ASSUME NEW key \in Key, NEW p \in L, Suspended(q, r, key, p) PROVE Unkeyed(r, L)
    BY <1>1, <1>3 DEF Suspended, Unkeyed
  <1>4. ASSUME NEW key \in Key, Woken(q, r, key) PROVE Unkeyed(r, L)
    BY <1>1, <1>4 DEF Woken, Unkeyed
  <1>5. ASSUME NEW p \in L, Killed(q, r, p) PROVE Unkeyed(r, L)
    BY <1>1, <1>5 DEF Killed, Unkeyed
  <1> QED
    BY <1>2, <1>3, <1>4, <1>5 DEF QueueStep

\* A step that neither creates nor ends a process keeps Unkeyed.
LEMMA SameLiveStep ==
  ASSUME IInv, Unkeyed(k, Live), QueueStep(k, k', Live), Live' = Live
  PROVE  NextStep
  <1>1. k \in Record /\ Live \in SUBSET Pcb
    BY GoodFacts DEF IInv
  <1> QED
    BY <1>1, StepUnkeyed DEF NextStep

\* A system call that ends nobody.
LEMMA CallStep ==
  ASSUME IInv, Unkeyed(k, Live), Live' = Live,
         NEW q, Good(q, Live), QueueStep(k, q, Live), SyscallEnds(q)
  PROVE  NextStep
  <1>1. QueueStep(k, k', Live)
    BY EndsQueueStep
  <1> QED
    BY <1>1, SameLiveStep

\* Nothing happened to the queues yet.
LEMMA StepNone == IInv => QueueStep(k, k, Live)
  BY GoodFacts, KeptSelf DEF IInv, QueueStep

\* SYS2: the new process is in no queue, the caller goes on or is preempted.
LEMMA CreateNext ==
  ASSUME IInv, Unkeyed(k, Live), NEW n \in Prio, NEW m \in Masks, SysCreate(n, m)
  PROVE  NextStep
  <1> DEFINE p == Fam!allocPcb
             q == Created(k, p, n)
  <1>1. k.cpu = "user" /\ Fam!CreateProcess(k.running) /\ SyscallEnds(q)
    BY DEF SysCreate, UserRuns, Created
  <1>2. p \in Pcb \ Live /\ Live' = Live \cup {p}
    BY <1>1, AllocatedFree
  <1> HIDE DEF p
  <1>3. Good(k, Live) /\ k.running # NULL
    BY <1>1, RunningLive DEF IInv
  <1>4. Good(q, Live \cup {p})
    BY <1>2, <1>3, CreateGood
  <1>5. Kept(k, q)
    BY <1>2, <1>3, CreateStep
  <1> HIDE DEF q
  <1>6. QueueStep(k, q, Live)
    BY <1>5 DEF QueueStep
  <1>7. QueueStep(k, k', Live) /\ k'.semkey = q.semkey
    BY <1>1, <1>4, <1>6, EndsQueueStep
  <1>8. Unkeyed(k', Live')
    BY <1>2, <1>5, <1>7 DEF Kept, Unkeyed
  <1> QED
    BY <1>7, <1>8 DEF NextStep

\* The end of a process.
LEMMA EndStep ==
  ASSUME IInv, Unkeyed(k, Live), NEW pid \in Live, free' = Append(free, pid),
         SyscallEnds(Remove(k, pid))
  PROVE  NextStep
  <1>1. Live' = Live \ {pid} /\ Good(k, Live) /\ k \in Record /\ Live \in SUBSET Pcb
    BY BuryLive, GoodFacts DEF IInv
  <1>2. Good(Remove(k, pid), Live \ {pid})
    BY <1>1, RemoveGood
  <1>3. QueueStep(k, Remove(k, pid), Live) /\ Remove(k, pid).semkey[pid] = NoKey
    BY <1>1, RemoveStep
  <1>4. QueueStep(k, k', Live) /\ k'.semkey = Remove(k, pid).semkey
    BY <1>2, <1>3, EndsQueueStep
  <1>5. Unkeyed(k', Live)
    BY <1>1, <1>4, StepUnkeyed
  <1> QED
    BY <1>1, <1>3, <1>4, <1>5 DEF NextStep, Unkeyed

\* SYS3: killed at once, or after the loop over its tutored processes, or never.
LEMMA TerminateNext ==
  ASSUME IInv, Unkeyed(k, Live), NEW pid \in Pcb, Terminate(pid)
  PROVE  NextStep
  <1>1. CASE hung' \/ loop' # Fam!NoLoop
    <2>1. /\ k' = k /\ loop = Fam!NoLoop /\ ~hung
          /\ Fam!TerminateProcess(k.running, pid) /\ k.cpu = "user"
      BY <1>1 DEF Terminate, UserRuns, Fam!Ready
    <2>2. FP!TerminateProcess(k.running, pid) /\ pid \in FP!Pcb /\ FP!NULL \notin FP!Pcb
      BY <2>1, RunningLive, SameTerminate, LiveFacts, PcbFacts
    <2>3. free' = free
      BY <1>1, <2>1, <2>2, SameNames DEF FP!TerminateProcess, FP!Hang
    <2>4. Live' = Live
      BY <2>3 DEF Live, Fam!Live, Fam!Free
    <2> QED
      BY <2>1, <2>4, StepNone, SameLiveStep
  <1>2. CASE ~(hung' \/ loop' # Fam!NoLoop)
    <2>1. SyscallEnds(Remove(k, pid))
      BY <1>2 DEF Terminate
    <2>2. pid \in Live /\ free' = Append(free, pid)
      BY <1>2, TerminatedLive
    <2> QED
      BY <2>1, <2>2, EndStep
  <1> QED
    BY <1>1, <1>2

\* SYS3: the loop over the tutored processes is over.
LEMMA TerminateEndNext ==
  ASSUME IInv, Unkeyed(k, Live), TerminateEnd
  PROVE  NextStep
  <1>1. /\ loop # Fam!NoLoop /\ free' = Append(free, loop.pid)
        /\ SyscallEnds(Remove(k, loop.pid))
    BY DEF TerminateEnd, Fam!TerminateEnd, Fam!Bury
  <1>2. loop.pid \in Live
    BY <1>1, SameNames, LiveFacts DEF IInv, FP!IInv, FP!LoopInv
  <1> QED
    BY <1>1, <1>2, EndStep

\* SYS5, SYS6 and SYS7 as actions.
LEMMA PasserenNext ==
  ASSUME IInv, Unkeyed(k, Live), UserRuns, UNCHANGED family, NEW key \in Key,
         SyscallEnds(Passeren(k, key))
  PROVE  NextStep
  <1>1. Live' = Live /\ Good(k, Live) /\ k.running # NULL
    BY SameFamily, RunningLive DEF UserRuns, IInv
  <1>2. Good(Passeren(k, key), Live) /\ QueueStep(k, Passeren(k, key), Live)
    BY <1>1, PasserenGood, PasserenStep
  <1> QED
    BY <1>1, <1>2, CallStep

\* An interrupt of the timer, after aging or without it.
LEMMA TimerNext ==
  ASSUME IInv, Unkeyed(k, Live), UNCHANGED family, NEW q, Good(q, Live), Kept(k, q),
         TimerEnds(q)
  PROVE  NextStep
  <1>1. Live' = Live /\ k' = schedule(q, OldArea)
    BY SameFamily DEF TimerEnds
  <1>2. Kept(k, k')
    BY <1>1, ScheduleKeeps, KeptThen
  <1> QED
    BY <1>1, <1>2, SameLiveStep DEF QueueStep

\* The end of a slice ages the ready processes.
LEMMA TimeSliceNext == ASSUME IInv, Unkeyed(k, Live), TimeSlice PROVE NextStep
  <1> DEFINE q == [k EXCEPT !.prio = [p \in Pcb |-> IF p \in Elems(k.ready) THEN @[p] + 1
                                                    ELSE @[p]]]
  <1>1. TimerEnds(q) /\ UNCHANGED family /\ Good(k, Live)
    BY DEF TimeSlice, IInv
  <1>2. Good(q, Live) /\ Kept(k, q)
    BY <1>1, AgeGood, AgeKeeps
  <1> HIDE DEF q
  <1> QED
    BY <1>1, <1>2, TimerNext

\* A device interrupt wakes one process or panics.
LEMMA DeviceNext ==
  ASSUME IInv, Unkeyed(k, Live), NEW d \in Device, DeviceInterrupt(d)
  PROVE  NextStep
  <1>1. d \in Key /\ d \in KernelSem /\ k \in Record /\ Good(k, Live) /\ Live' = Live
    BY GoodFacts, SameFamily DEF Key, KernelSem, IInv, DeviceInterrupt
  <1>2. CASE k.queue[d] = <<>>
    <2>1. k' = [k EXCEPT !.cpu = "panic"]
      BY <1>2 DEF DeviceInterrupt
    <2>2. k'.queue = k.queue /\ k'.prio = k.prio /\ k'.semkey = k.semkey
      BY <1>1, <2>1 DEF Record
    <2> QED
      BY <1>1, <2>2, StepNone, SameQueueStep, SameLiveStep
  <1>3. CASE k.queue[d] # <<>>
    <2> DEFINE q == Verhogen(k, d)
    <2>1. k' = IF q.running # NULL THEN [q EXCEPT !.cpu = LDST(OldArea)]
               ELSE schedule(q, "none")
      BY <1>3 DEF DeviceInterrupt
    <2>2. k.sem[d] < 0
      <3>1. Sound(k, Live \ {k.running})
        BY <1>1, GoodFacts
      <3> QED
        BY <1>1, <1>3, <3>1, BelowZero
    <2>3. Good(q, Live) /\ QueueStep(k, q, Live)
      BY <1>1, <2>2, VerhogenGood, VerhogenStep
    <2> HIDE DEF q
    <2>4. k'.queue = q.queue /\ k'.prio = q.prio /\ k'.semkey = q.semkey
      <3>1. CASE q.running # NULL
        <4>1. q \in Record /\ k' = [q EXCEPT !.cpu = LDST(OldArea)]
          BY <2>1, <2>3, <3>1, GoodFacts
        <4> QED
          BY <4>1 DEF Record
      <3>2. CASE q.running = NULL
        BY <2>1, <2>3, <3>2, ScheduleKeeps DEF Kept
      <3> QED
        BY <3>1, <3>2
    <2> QED
      BY <1>1, <2>3, <2>4, SameQueueStep, SameLiveStep
  <1> QED
    BY <1>2, <1>3

\* Every action of the nucleus.
LEMMA NextQueues == ASSUME IInv, Unkeyed(k, Live), [Next]_vars PROVE NextStep
  <1>0. Good(k, Live) /\ k \in Record /\ (UNCHANGED family => Live' = Live)
    BY GoodFacts, SameFamily DEF IInv
  <1>1. ASSUME NEW n \in Prio, NEW m \in Masks, SysCreate(n, m) PROVE NextStep
    BY <1>1, CreateNext
  <1>2. ASSUME NEW pid \in Pcb, Terminate(pid) PROVE NextStep
    BY <1>2, TerminateNext
  <1>3. CASE TerminateEnd
    BY <1>3, TerminateEndNext
  <1>4. ASSUME NEW s \in UserSem, SysVerhogen(s) PROVE NextStep
    <2>1. /\ s \in Key /\ s \notin KernelSem /\ SyscallEnds(Verhogen(k, s))
          /\ UNCHANGED family
      BY <1>4, KeyAssumption DEF Key, SysVerhogen
    <2>2. Good(Verhogen(k, s), Live) /\ QueueStep(k, Verhogen(k, s), Live)
      BY <1>0, <2>1, VerhogenGood, VerhogenStep
    <2> QED
      BY <1>0, <2>1, <2>2, CallStep
  <1>5. ASSUME NEW s \in UserSem, SysPasseren(s) PROVE NextStep
    <2>1. s \in Key
      BY DEF Key
    <2> QED
      BY <1>5, <2>1, PasserenNext DEF SysPasseren
  <1>6. CASE SysWaitClock
    <2>1. waitclockSem \in Key
      BY DEF Key, KernelSem
    <2> QED
      BY <1>6, <2>1, PasserenNext DEF SysWaitClock
  <1>7. ASSUME NEW d \in Device, SysDoIO(d) PROVE NextStep
    <2>1. d \in Key
      BY DEF Key, KernelSem
    <2> QED
      BY <1>7, <2>1, PasserenNext DEF SysDoIO
  <1>8. ASSUME NEW d \in Device, DeviceInterrupt(d) PROVE NextStep
    BY <1>8, DeviceNext
  <1>9. ASSUME SyscallEnds(k), Live' = Live PROVE NextStep
    BY <1>0, <1>9, StepNone, CallStep
  <1>10. CASE CallerGoesOn \/ \E m \in Masks : PassUp(m)
    BY <1>0, <1>9, <1>10 DEF CallerGoesOn, PassUp
  <1>11. CASE SysSetTutor
    <2>1. SyscallEnds(k) /\ free' = free
      BY <1>11 DEF SysSetTutor, Fam!Set_Tutor
    <2>2. Live' = Live
      BY <2>1 DEF Live, Fam!Live, Fam!Free
    <2> QED
      BY <1>9, <2>1, <2>2
  <1>12. CASE TimeSlice
    BY <1>12, TimeSliceNext
  <1>13. CASE PseudoClock
    <2> DEFINE c == IF k.cpu = "idle" THEN "idleclock" ELSE "clock"
    <2>1. k' = [k EXCEPT !.cpu = c] /\ Live' = Live
      BY <1>0, <1>13 DEF PseudoClock
    <2> HIDE DEF c
    <2>2. k'.queue = k.queue /\ k'.prio = k.prio /\ k'.semkey = k.semkey
      BY <1>0, <2>1 DEF Record
    <2> QED
      BY <2>1, <2>2, StepNone, SameQueueStep, SameLiveStep
  <1>14. CASE ClockWake
    <2>1. waitclockSem \in Key /\ k' = Verhogen(k, waitclockSem) /\ Live' = Live
      BY <1>0, <1>14 DEF Key, KernelSem, ClockWake
    <2>2. QueueStep(k, k', Live)
      BY <1>0, <2>1, VerhogenStep
    <2> QED
      BY <2>1, <2>2, SameLiveStep
  <1>15. CASE ClockEnd
    BY <1>0, <1>15, KeptSelf, TimerNext DEF ClockEnd
  <1>16. ASSUME k' = k, Live' = Live PROVE NextStep
    BY <1>16, StepNone, SameLiveStep
  <1>17. CASE AdoptNext
    <2>1. k' = k /\ free' = free
      BY <1>17 DEF AdoptNext, Fam!AdoptNext
    <2>2. Live' = Live
      BY <2>1 DEF Live, Fam!Live, Fam!Free
    <2> QED
      BY <1>16, <2>1, <2>2
  <1>18. CASE (\E d \in Device : DeviceDone(d)) \/ UNCHANGED vars
    BY <1>0, <1>16, <1>18 DEF DeviceDone, vars
  <1> QED
    BY <1>1, <1>2, <1>3, <1>4, <1>5, <1>6, <1>7, <1>8, <1>10, <1>11, <1>12, <1>13, <1>14,
       <1>15, <1>17, <1>18 DEF Next

\* asl.c, handler.c: to the queues of the semaphores every action is a step of
\* BlockedQueues, or none: the nucleus asks nothing of the ASL that it does not
\* promise, and reprioritises nobody that waits.
THEOREM NucleusKeepsQueues == Spec => QueuesSpec
  <1>1. Init => Unkeyed(k, Live) /\ Queues!Init
    <2> SUFFICES ASSUME Init PROVE Unkeyed(k, Live) /\ Queues!Init
      OBVIOUS
    <2>1. /\ k.queue = [key \in Key |-> <<>>] /\ k.semkey = [p \in Pcb |-> NoKey]
          /\ k.prio = [p \in Pcb |-> 0]
      BY DEF Init
    <2> QED
      BY <2>1 DEF Unkeyed, Queues!Init
  <1>2. IInv /\ Unkeyed(k, Live) /\ [Next]_vars => Unkeyed(k, Live)'
    BY NextQueues DEF NextStep, Unkeyed
  <1>3. IInv /\ Unkeyed(k, Live) /\ [Next]_vars => [Queues!Next]_(Queues!vars)
    <2> SUFFICES ASSUME IInv, Unkeyed(k, Live), [Next]_vars PROVE Queues!Next
      OBVIOUS
    <2>1. Live \in SUBSET Pcb /\ QueueStep(k, k', Live)
      BY NextQueues, GoodFacts DEF NextStep, IInv
    <2> QED
      BY <2>1, QueueStepIsNext
  <1> QED
    BY <1>1, <1>2, <1>3, Inductive, PTL DEF Spec, QueuesSpec, Queues!Spec
=============================================================================
