------------------------------ MODULE Firstborn -----------------------------
(***************************************************************************)
(* Which child of a process its exit has adopted.  TerminateProcess finds  *)
(* the children by the firstborn at p_child.next.  A process stays the     *)
(* firstborn of its parent while nobody's exit touches the two rings of    *)
(* p_child it is linked in, the parent's and its own; what an exit leaves  *)
(* behind it (PromoteSibling, the adoption's insertChild) may overwrite a  *)
(* p_child, and children are lost.  eldest keeps book of the firstborns no *)
(* exit has made one, and so the property says which are safe.             *)
(***************************************************************************)
EXTENDS Family

VARIABLE eldest     \* history: the firstborns that nobody's exit has made one

HasChild(p) == \E c \in Live : tree.parent[c] = p

\* The first process is nobody's child, and nothing happened to its p_child.
FirstbornInit == Init /\ eldest = {MaxProc}

\* The first child; whoever still has the reused PCB for a parent is no child of
\* the new process.
Create(running) ==
  /\ CreateProcess(running)
  /\ eldest' = {c \in eldest : tree.parent[c] # allocPcb}
               \cup {c \in {allocPcb} : ~HasChild(running)}

\* Whose p_child an exit of pid may write to: its own children's, those of its
\* siblings, and those of the adopter's children.
Touched(pid) ==
  {pid, tree.parent[pid], IF emptyChild(tree, pid) THEN NULL ELSE Adopter(tree, tutors, pid)}

Terminate(running, pid) ==
  /\ TerminateProcess(running, pid)
  /\ eldest' = IF hung' THEN eldest
               ELSE {c \in eldest \ {pid} : tree.parent[c] \notin Touched(pid)}

FirstbornNext ==
  \/ \E running \in Live :
       \/ Create(running)
       \/ Set_Tutor(running) /\ UNCHANGED eldest
       \/ \E pid \in Pcb : Terminate(running, pid)
  \/ (AdoptNext \/ TerminateEnd) /\ UNCHANGED eldest

\* The processor keeps executing the handler it is in.
FirstbornSpec ==
  /\ FirstbornInit
  /\ [][FirstbornNext]_<<vars, eldest>>
  /\ WF_vars(AdoptNext) /\ WF_vars(TerminateEnd)

----------------------------------------------------------------------------
\* The kernel finds the firstborn of a process: where both a process and its
\* first child are what no exit has made them, the child is the one at
\* p_child.next and has not been overwritten by promotions and adoptions all
\* around, by reused PCBs or by damage elsewhere (handler.c:374-377, pcb.c:181-268).
EldestIsFirst ==
  loop = NoLoop =>
    \A p, c \in eldest \cap Live :
      tree.parent[c] = p => ~emptyChild(tree, p) /\ firstChild(tree, p) = c

\* And that one is all an exit hands over: it is adopted before the loop begins,
\* and the loop then goes round the adopter's children, also if stale pointers or
\* a cycle have led to the adopter, and takes nobody from another process
\* (handler.c:386-396).
EldestAdopted ==
  /\ EldestIsFirst
  /\ loop # NoLoop =>
       tree.parent[loop.first] = loop.tutor /\ tree.parent[loop.iter] = loop.tutor
=============================================================================
