---------------------------- MODULE BlockedQueues ----------------------------
(***************************************************************************)
(* What the rest of the nucleus takes src/src/asl.c to be: a queue of PCBs *)
(* per semaphore key, always with room for one more, and p_semkey saying   *)
(* which queue a PCB is in.                                                *)
(***************************************************************************)
EXTENDS ProcQ

CONSTANTS Pcb, Key, NoKey, Prio, Beyond

VARIABLES queue, p_semkey, priority
vars == <<queue, p_semkey, priority>>

Init ==
  /\ queue = [key \in Key |-> <<>>]
  /\ p_semkey = [p \in Pcb |-> NoKey]
  /\ priority \in [Pcb -> Prio]

\* Passeren: p, which ran until now, waits for key, with any priority.
InsertBlocked(key, p) ==
  /\ p_semkey[p] = NoKey
  /\ priority' \in [Pcb -> Prio]
  /\ \A r \in Pcb \ {p} : priority'[r] = priority[r]
  /\ p_semkey' = [p_semkey EXCEPT ![p] = key]
  /\ queue' = [queue EXCEPT ![key] = insertProcQ(@, p, priority', Beyond)]

\* Verhogen: the first of those who wait for key, if there is one, goes on.
RemoveBlocked(key) ==
  /\ queue[key] # <<>>
  /\ p_semkey' = [p_semkey EXCEPT ![headProcQ(queue[key])] = NoKey]
  /\ queue' = [queue EXCEPT ![key] = removeProcQ(@)]
  /\ UNCHANGED priority

\* TerminateProcess: p ends while it waits.
OutBlocked(p) ==
  /\ p_semkey[p] # NoKey
  /\ queue' = [queue EXCEPT ![p_semkey[p]] = outProcQ(@, p)]
  /\ p_semkey' = [p_semkey EXCEPT ![p] = NoKey]
  /\ UNCHANGED priority

\* Aging, SYS2, insertProcqReady: who waits keeps its priority meanwhile.
ChangePriorities ==
  /\ priority' \in [Pcb -> Prio]
  /\ \A p \in Pcb : p_semkey[p] # NoKey => priority'[p] = priority[p]
  /\ UNCHANGED <<queue, p_semkey>>

Next ==
  \/ \E key \in Key, p \in Pcb : InsertBlocked(key, p)
  \/ \E key \in Key : RemoveBlocked(key)
  \/ \E p \in Pcb : OutBlocked(p)
  \/ ChangePriorities

Spec == Init /\ [][Next]_vars
=============================================================================
