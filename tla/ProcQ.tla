------------------------------- MODULE ProcQ -------------------------------
(***************************************************************************)
(* The process queues of src/src/pcb.c: a ring of p_next fields with a     *)
(* sentinel, here the sequence of the PCBs in it, head first.  prio is the *)
(* priority field of every PCB.                                            *)
(*                                                                         *)
(* insertProcQ looks one element ahead, and behind the last element there  *)
(* is no PCB but the sentinel: the comparison at line 125 then reads       *)
(* memory past the list head as if it were a priority.  What it finds      *)
(* there depends on the build, so it is an argument, beyond.               *)
(***************************************************************************)
EXTENDS Integers, Sequences

Elems(q) == {q[i] : i \in DOMAIN q}

\* What line 125 compares with p's priority: iterator->next's.
NextPrio(q, prio, beyond, i) == IF i < Len(q) THEN prio[q[i + 1]] ELSE beyond

\* Variants of BreakAt: without the look at the next element (126), and without
\* the last branch (134-138).
BreakAtFirstEqual(q, p, prio, beyond) == {i \in DOMAIN q : prio[q[i]] <= prio[p]}
BreakAtNoEnd(q, p, prio, beyond) ==
  {i \in DOMAIN q :
     \/ prio[q[i]] < prio[p]
     \/ prio[q[i]] = prio[p] /\ NextPrio(q, prio, beyond, i) # prio[p]}

\* The positions at which an iteration of the loop (114-140) links p and breaks.
BreakAt(q, p, prio, beyond) ==
  {i \in DOMAIN q :
     \/ prio[q[i]] < prio[p]
     \/ prio[q[i]] = prio[p] /\ NextPrio(q, prio, beyond, i) # prio[p]
     \/ prio[q[i]] > prio[p] /\ i = Len(q)}

\* p between position i-1 and position i.
Link(q, i, p) ==
  [j \in 1..(Len(q) + 1) |-> IF j < i THEN q[j] ELSE IF j = i THEN p ELSE q[j - 1]]

\* Before the first PCB of lower priority, else behind the one it breaks at.
\* If the loop runs to its end p is linked nowhere.
insertProcQ(q, p, prio, beyond) ==
  LET breaks == BreakAt(q, p, prio, beyond) IN
  IF q = <<>> THEN <<p>>
  ELSE IF breaks = {} THEN q
  ELSE LET i == CHOOSE b \in breaks : \A c \in breaks : b <= c
       IN Link(q, IF prio[q[i]] < prio[p] THEN i ELSE i + 1, p)

headProcQ(q) == Head(q)
removeProcQ(q) == Tail(q)

\* q without the element at position i.
Unlink(q, i) == [j \in 1..(Len(q) - 1) |-> IF j < i THEN q[j] ELSE q[j + 1]]

outProcQ(q, p) ==
  IF p \notin Elems(q) THEN q
  ELSE Unlink(q, CHOOSE i \in DOMAIN q :
                   q[i] = p /\ \A j \in DOMAIN q : q[j] = p => i <= j)
============================================================================
