------------------------------- MODULE Family -------------------------------
(***************************************************************************)
(* The life of the process tree: CreateProcess, TerminateProcess and       *)
(* Set_Tutor of src/src/handler.c with the PCB allocator, and with the     *)
(* queues, semaphores and scheduling left out (Kernel.tla has them).  Any  *)
(* live process may be the running one, and the pid it passes to SYS3 may  *)
(* be any PCB, also one it got from SYS2 and that was freed or reused      *)
(* since.                                                                  *)
(*                                                                         *)
(* The kernel runs with interrupts off: nothing happens between the steps  *)
(* of one TerminateProcess.  Its loop at line 393 changes the ring it      *)
(* walks, so whether it ends is a question; each round is a step.          *)
(***************************************************************************)
EXTENDS PcbTree, Sequences, FiniteSets

CONSTANT MaxCreate          \* bound: calls of SYS2 in one behaviour
ASSUME MaxCreateAssumption == MaxCreate \in Nat

VARIABLES
  tree,     \* p_parent, p_child and p_sib of every PCB
  tutors,   \* the PCBs whose tutor flag is set
  free,     \* the PCB free list, pcbfree_h first
  loop,     \* the locals of the adoption loop, NoLoop outside of it
  hung,     \* a walk towards the root never ends: the kernel hangs
  created   \* calls of SYS2 so far, to bound the runs

vars == <<tree, tutors, free, loop, hung, created>>

NoLoop == [pid |-> NULL, tutor |-> NULL, first |-> NULL, iter |-> NULL]

Free == {free[i] : i \in DOMAIN free}
Live == Pcb \ Free

\* allocPcb takes the element before pcbfree_h, freePcb adds there.
allocPcb == free[Len(free)]

----------------------------------------------------------------------------
\* initPcbs, and the first process, which main creates with no parent.
Init ==
  /\ tree = EmptyTree
  /\ tutors = {}
  /\ free = [i \in 1..(MaxProc - 1) |-> i]
  /\ loop = NoLoop
  /\ hung = FALSE
  /\ created = 0

Ready == ~hung /\ loop = NoLoop

CreateProcess(running) ==
  /\ Ready
  /\ free # <<>>
  /\ tree' = insertChild([tree EXCEPT !.parent[allocPcb] = NULL], running, allocPcb)
  /\ tutors' = tutors \ {allocPcb}
  /\ free' = SubSeq(free, 1, Len(free) - 1)
  /\ created < MaxCreate
  /\ created' = created + 1
  /\ UNCHANGED <<loop, hung>>

Set_Tutor(running) ==
  /\ Ready
  /\ tutors' = tutors \cup {running}
  /\ UNCHANGED <<tree, free, loop, hung, created>>

\* Variant of Bury: it is the parent that is freed.
BuryParent(t, pid) ==
  /\ tree' = outChild(t, pid)
  /\ free' = Append(free, t.parent[pid])

\* Lines 414-416, t being the tree after the adoption.
Bury(t, pid) ==
  /\ tree' = outChild(t, pid)
  /\ free' = Append(free, pid)

\* A walk that finds neither its goal nor a root: no statement after it runs.
Hang ==
  /\ hung' = TRUE
  /\ UNCHANGED <<tree, tutors, free, loop, created>>

TerminateProcess(running, pid) ==
  /\ Ready
  /\ \/ /\ pid # running /\ ~DescendantEnds(tree, pid, running)
        /\ Hang
     \/ /\ pid = running \/ Descendant(tree, pid, running)
        /\ \/ /\ emptyChild(tree, pid)
              /\ Bury(ReadyChild(tree, pid), pid)
              /\ UNCHANGED <<tutors, loop, hung, created>>
           \/ /\ ~emptyChild(tree, pid)
              /\ ~AdopterFound(tree, tutors, pid)
              /\ Hang
           \/ /\ ~emptyChild(tree, pid)
              /\ AdopterFound(tree, tutors, pid)
              /\ LET a == Adopter(tree, tutors, pid)
                     f == firstChild(tree, pid)
                     t == Adopt(tree, a, f)
                 IN /\ tree' = t
                    /\ loop' = [pid |-> pid, tutor |-> a, first |-> f,
                                iter |-> t.sib.next[f]]
              /\ UNCHANGED <<tutors, free, hung, created>>

\* One round of list_for_each (lines 393-396).
AdoptNext ==
  /\ loop # NoLoop
  /\ loop.iter # loop.first
  /\ tree' = Adopt(tree, loop.tutor, loop.iter)
  /\ loop' = [loop EXCEPT !.iter = tree'.sib.next[loop.iter]]
  /\ UNCHANGED <<tutors, free, hung, created>>

\* The loop is over: the rest of TerminateProcess.
TerminateEnd ==
  /\ loop # NoLoop
  /\ loop.iter = loop.first
  /\ Bury(tree, loop.pid)
  /\ loop' = NoLoop
  /\ UNCHANGED <<tutors, hung, created>>

Next ==
  \/ \E running \in Live :
       \/ CreateProcess(running)
       \/ Set_Tutor(running)
       \/ \E pid \in Pcb : TerminateProcess(running, pid)
  \/ AdoptNext
  \/ TerminateEnd

Spec == Init /\ [][Next]_vars

----------------------------------------------------------------------------
\* Every variable keeps its type: the tree fields are NULL or PCBs, the free
\* list holds PCBs (pcb.c).
TypeOK ==
  /\ tree \in Trees
  /\ tutors \subseteq Pcb
  /\ free \in Seq(Pcb)
  /\ loop \in [pid : Ptr, tutor : Ptr, first : Ptr, iter : Ptr]
  /\ hung \in BOOLEAN
  /\ created \in Nat

\* freePcb never gets a PCB that is already free, whatever stale pid SYS3 is
\* called with and however damaged the tree is: the Descendant test of
\* TerminateProcess is enough to keep the free list sound.
NoDoubleFree == \A i, j \in DOMAIN free : i # j => free[i] # free[j]

\* A free PCB has no parent.  Descendant relies on it: a pid whose p_parent is
\* NULL is refused unless it is the running process.
FreeHasNoParent == \A p \in Free : tree.parent[p] = NULL

\* The p_sib pointers of the processes that have a parent form rings, each of
\* children of one parent.  outChild and insertChild rely on it: they unlink
\* and link without looking at the neighbours.
SibRings ==
  \A p \in Pcb : tree.parent[p] # NULL =>
    LET n == tree.sib.next[p]
        v == tree.sib.prev[p]
    IN /\ n # NULL /\ v # NULL
       /\ tree.sib.prev[n] = p /\ tree.sib.next[v] = p
       /\ tree.parent[n] = tree.parent[p] /\ tree.parent[v] = tree.parent[p]

\* No p_child pointer the list macros follow is NULL: a p_child field either was
\* never used or points both ways to fields in use, and the one of a parent's
\* firstborn is in use (outChild takes it out with list_del).
ChildLinked ==
  \A p \in Pcb :
    /\ tree.child.next[p] = NULL <=> tree.child.prev[p] = NULL
    /\ \A q \in {tree.child.next[p], tree.child.prev[p]} :
         q # NULL => tree.child.next[q] # NULL

\* The PCBs the kernel reaches as children of p: the firstborn and its p_sib ring.
Children(t, p) ==
  IF emptyChild(t, p) THEN {}
  ELSE {q \in Pcb : \A S \in SUBSET Pcb :
          (firstChild(t, p) \in S /\ \A r \in S : t.sib.next[r] \in S) => q \in S}

\* Whoever the kernel reaches as a child of p has p as its parent, so
\* TerminateProcess never moves another process's children.
ChildrenAreMine ==
  \A p \in Pcb : \A c \in Children(tree, p) : tree.parent[c] = p

\* Following p_parent from p ends.
Acyclic == \A p \in Pcb : WalkEnds(tree, p, {})

\* The adoption loop at handler.c:393 walks the very ring it appends to; it
\* ends all the same, as long as the p_parent pointers have no cycle.
AdoptionEnds == []Acyclic => ((loop # NoLoop) ~> (loop = NoLoop))

----------------------------------------------------------------------------
(* What comments of the code say, and the code does not do. *)

\* handler.c:263: SYS3 returns 0 if it succeeds, -1 for an error.
SYS3Returns == ~hung

\* pcb.c:191-193: a process has no children if p_child is empty or the next one's
\* p_parent is another.  So who is taken for childless is nobody's parent.
EmptyHasNoChildren ==
  loop = NoLoop =>
    \A p, q \in Live : emptyChild(tree, p) => tree.parent[q] # p

\* handler.c:388-391: all siblings of the firstborn of pid become children of the
\* tutor.  So when the loop is over nobody is a child of pid, unless pid is the top
\* of the tree and adopts its own children.
SiblingsAdopted ==
  loop.pid # loop.tutor /\ loop.iter = loop.first =>
    \A q \in Live : tree.parent[q] # loop.pid
=============================================================================
