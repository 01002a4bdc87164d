------------------------------ MODULE Workload ------------------------------
(***************************************************************************)
(* The phase 2 test, src/src/p2test.c, on a nucleus that keeps its         *)
(* promises: eighteen programs and more that start, block, kill and        *)
(* outlive one another.                                                    *)
(*                                                                         *)
(* A program is the sequence of the system calls and traps its function    *)
(* makes, with the checks that print an error or panic; what it prints is  *)
(* left out: print only takes a lock and gives it back, and nobody is      *)
(* killed in it.  Any process that is ready may go on (slices and the      *)
(* terminal decide who does), and a V wakes any of the waiters.            *)
(***************************************************************************)
EXTENDS Integers, Sequences, FiniteSets

CONSTANTS
  MaxProc, \* entries of pcbFree_table; 20 in the code
  Rounds,  \* bound: how often test() creates p8root; 4 in the code
  Apart    \* bound: the last steps of a process come before the others go on, those
           \* of p2 to p7 before p1's rounds and the exit of who has left the mutex
           \* of its round at once; FALSE in the code

ASSUME MaxProcAssumption == MaxProc \in Nat \ {0}
ASSUME RoundsAssumption == Rounds \in Nat \ {0}
ASSUME ApartAssumption == Apart \in BOOLEAN

----------------------------------------------------------------------------
(* The programs.  An instruction is an operation and its arguments. *)

\* The family of p8root lives in every round, the others once, in round 0.
P8Roles == {"p8root", "child1", "intermediate", "child2", "curiousleaf", "leaf1", "leaf2",
            "leaf3"}
Proc == {<<r, 0>> : r \in {"p1", "p2", "p3", "p4", "p4b", "p5", "p6", "p7"}}
        \cup (P8Roles \X (1..Rounds))
First == <<"p1", 0>>
NULL == <<"none", 0>>

\* One semaphore stands for the twenty-one of the array s.
Semaphore == {"s", "testsem", "startp2", "endp2", "endp3", "blkp4", "synp4", "endp4", "endp5",
              "endp8", "endcreate", "blkp8"}
InitialValue == [s \in Semaphore |-> IF s \in {"blkp4", "blkp8"} THEN 1 ELSE 0]

\* What test() does before the rounds.
Before ==
  << <<"V", "testsem">>, <<"Check", "testsem", 1>>,
     <<"Create", "p2">>, <<"V", "startp2">>, <<"P", "endp2">>, <<"CheckSynch">>,
     <<"Create", "p3">>, <<"P", "endp3">>,
     <<"Create", "p4">>, <<"Create", "p5">>, <<"Create", "p6">>, <<"Create", "p7">>,
     <<"P", "endp5">>, <<"P", "blkp4">> >>

\* The rounds, and what comes behind them.
Later(i) ==
  IF i = 15 + 2 * Rounds THEN <<"Trap", "PGMTRAP">>
  ELSE IF i = 16 + 2 * Rounds THEN <<"Error">>
  ELSE IF i % 2 = 1 THEN <<"Create", "p8root", (i - 13) \div 2>>
  ELSE <<"P", "endp8">>

Test == [i \in 1..16 + 2 * Rounds |-> IF i <= 14 THEN Before[i] ELSE Later(i)]

P2 == << <<"P", "startp2">>, <<"V", "s">>, <<"P", "s">>, <<"Check", "s", 0>>,
         <<"CheckTimes">>, <<"Synch">>, <<"V", "endp2">>, <<"Terminate">> >>

P3 == << <<"Delay">>, <<"Delay">>, <<"CheckTimes">>, <<"V", "endp3">>, <<"Terminate">> >>

P4 == << <<"CheckPid", "p4">>, <<"V", "synp4">>, <<"P", "blkp4">>, <<"P", "synp4">>, <<"Create", "p4b">>,
         <<"P", "synp4">>, <<"Kill", "p4b">>, <<"V", "endp4">>, <<"Terminate">> >>

\* The second incarnation of p4 is killed before its P returns.
P4b == << <<"CheckParent", "p4">>, <<"V", "synp4">>, <<"P", "blkp4">>, <<"Error">> >>

\* p5, p5a and p5b, which p5prog, p5mm and p5sys go on with.  p5mm means to turn
\* user mode on but clears bits that are 0 in kernel mode.
P5 == << <<"SpecPassup", "PGMTRAP">>, <<"SpecPassup", "TLB">>, <<"SpecPassup", "SYSBK">>,
         <<"Trap", "PGMTRAP">>, <<"Trap", "TLB">>, <<"Trap", "SYSBK">>,
         <<"P", "endp4">>, <<"Delay">>, <<"V", "blkp4">>, <<"V", "endp5">>,
         <<"SpecPassupFails", "PGMTRAP">>, <<"Terminate">> >>

P6 == << <<"Trap", "SYSBK">>, <<"Error">> >>
P7 == << <<"Trap", "PGMTRAP">>, <<"Error">> >>

\* NOLEAVES counts the curious one too.
P8root == << <<"P", "blkp8">>, <<"Create", "child1">>, <<"Create", "child2">>,
             <<"P", "endcreate">>, <<"P", "endcreate">>, <<"P", "endcreate">>,
             <<"P", "endcreate">>, <<"V", "blkp8">>, <<"V", "endp8">>, <<"Terminate">> >>

PassOn == << <<"P", "blkp8">>, <<"V", "blkp8">>, <<"Terminate">> >>

Child1 == << <<"SetTutor">>, <<"Create", "intermediate">> >> \o PassOn
Intermediate == << <<"Create", "curiousleaf">>, <<"Create", "leaf1">>, <<"WaitClock">>,
                   <<"WaitClock">>, <<"Terminate">> >>
Child2 == << <<"Create", "leaf2">>, <<"Create", "leaf3">> >> \o PassOn

P8leaf == << <<"V", "endcreate">> >> \o PassOn
Curiousleaf == << <<"KillParentFails">>, <<"AwaitAdoption">>, <<"V", "endcreate">> >> \o PassOn

Code ==
  [p1 |-> Test, p2 |-> P2, p3 |-> P3, p4 |-> P4, p4b |-> P4b, p5 |-> P5, p6 |-> P6, p7 |-> P7,
   p8root |-> P8root, child1 |-> Child1, intermediate |-> Intermediate, child2 |-> Child2,
   curiousleaf |-> Curiousleaf, leaf1 |-> P8leaf, leaf2 |-> P8leaf, leaf3 |-> P8leaf]

----------------------------------------------------------------------------
VARIABLES
  pc,         \* per process: its next instruction; 0 before its life, Ended after it
  wait,       \* what it waits for: a semaphore, the clock or nothing
  sem,        \* values of the semaphores
  parent,     \* p_parent
  eldest,     \* firstborns that nobody's exit has made one
  tutor,      \* the processes whose tutor flag is set
  handlers,   \* types of traps p5 has handlers for
  pids,       \* the pids test and p8root keep: p4pid, childpid, intermediatepid
  p1p2synch,
  refused,    \* history: a SYS2 found no free PCB
  failed      \* a check has failed: an error was printed, or somebody panicked

vars == <<pc, wait, sem, parent, eldest, tutor, handlers, pids, p1p2synch, refused, failed>>

\* Behind every program.
Ended == Len(Test) + 1

Alive(p) == pc[p] \in 1..Ended - 1
Ready(p) == Alive(p) /\ wait[p] = "nothing"
Instruction(p) == Code[p[1]][pc[p]]
Does(p, op) == Ready(p) /\ Instruction(p)[1] = op
Argument(p) == Instruction(p)[2]
GoOn(p) == pc' = [pc EXCEPT ![p] = @ + 1]
Report(error) == failed' = (failed \/ error)

\* Whom p means by a role: somebody of its own round, or of the round it names.
Named(p) ==
  LET role == Argument(p)
  IN  <<role, IF Len(Instruction(p)) = 3 THEN Instruction(p)[3]
              ELSE IF role \in P8Roles THEN p[2] ELSE 0>>

Init ==
  /\ pc = [p \in Proc |-> IF p = First THEN 1 ELSE 0]
  /\ wait = [p \in Proc |-> "nothing"]
  /\ sem = InitialValue
  /\ parent = [p \in Proc |-> NULL]
  /\ eldest = {First} /\ tutor = {} /\ handlers = {}
  /\ pids = [r \in {"p4", "child1", "intermediate"} |-> NULL]
  /\ p1p2synch = FALSE /\ refused = FALSE /\ failed = FALSE

----------------------------------------------------------------------------
(* System calls. *)

family == <<parent, eldest, tutor, pids, refused>>

P(p) ==
  /\ Does(p, "P") /\ GoOn(p)
  /\ sem' = [sem EXCEPT ![Argument(p)] = @ - 1]
  /\ wait' = IF sem[Argument(p)] < 1 THEN [wait EXCEPT ![p] = Argument(p)] ELSE wait
  /\ UNCHANGED <<family, handlers, p1p2synch, failed>>

Waiting(s) == {p \in Proc : wait[p] = s}
WakeOne(s) == \E p \in Waiting(s) : wait' = [wait EXCEPT ![p] = "nothing"]

Wake(s) == IF sem[s] < 0 /\ Waiting(s) # {} THEN WakeOne(s) ELSE UNCHANGED wait

V(p) ==
  /\ Does(p, "V") /\ GoOn(p)
  /\ Wake(Argument(p))
  /\ sem' = [sem EXCEPT ![Argument(p)] = @ + 1]
  /\ UNCHANGED <<family, handlers, p1p2synch, failed>>

WaitClock(p) ==
  /\ Does(p, "WaitClock") /\ GoOn(p)
  /\ wait' = [wait EXCEPT ![p] = "clock"]
  /\ UNCHANGED <<sem, family, handlers, p1p2synch, failed>>

\* The loops around SYS6: until half a clock interval has gone by in one.
Delay(p) ==
  /\ Does(p, "Delay")
  /\ wait' = [wait EXCEPT ![p] = "clock"]
  /\ GoOn(p) \/ UNCHANGED pc
  /\ UNCHANGED <<sem, family, handlers, p1p2synch, failed>>

\* Apart, p1 begins the rounds when p2 to p7 have ended, which is all they had left
\* to do.
MayBegin(role) ==
  Apart /\ role = "p8root" => \A p \in Proc : Alive(p) => p[1] \in P8Roles \cup {"p1"}

Children(q) == {c \in Proc : Alive(c) /\ parent[c] = q}

\* The dead whose freed PCB a pointer of somebody still names.
Stale == {q \in Proc : /\ pc[q] = Ended
                       /\ q \in {pids["child1"], pids["intermediate"]} \cup {parent[c] : c \in Proc}}

\* SYS2 with a free PCB.  A process stands for its PCB: a pointer that names the
\* one it takes over names the child from now on.
Born(p, child) ==
  \E old \in Stale \cup {child} :
    LET Renamed(q) == IF q = old THEN child ELSE q
    IN  /\ pc' = [pc EXCEPT ![p] = @ + 1, ![child] = 1]
        /\ parent' = [c \in Proc |-> IF c = child THEN p ELSE Renamed(parent[c])]
        /\ eldest' = {c \in eldest : parent[c] # old}
                     \cup {c \in {child} : Children(p) = {}}
        /\ tutor' = tutor \ {old}
        /\ pids' = [r \in DOMAIN pids |-> IF r = child[1] THEN child ELSE Renamed(pids[r])]
        /\ UNCHANGED <<refused, failed>>

\* SYS2 without one.  Only test() looks at its answer (295-298).
Refuse(p, child) ==
  /\ GoOn(p) /\ refused' = TRUE /\ Report(child[1] = "p8root")
  /\ UNCHANGED <<parent, eldest, tutor, pids>>

Create(p) ==
  /\ Does(p, "Create")
  /\ MayBegin(Named(p)[1])
  /\ IF Cardinality({q \in Proc : Alive(q)}) < MaxProc THEN Born(p, Named(p))
     ELSE Refuse(p, Named(p))
  /\ UNCHANGED <<wait, sem, handlers, p1p2synch>>

SetTutor(p) ==
  /\ Does(p, "SetTutor") /\ GoOn(p)
  /\ tutor' = tutor \cup {p}
  /\ UNCHANGED <<wait, sem, parent, eldest, handlers, pids, p1p2synch, refused, failed>>

\* Variant: a handler takes the place of the one for another type.
SpecPassupReplaces(p) ==
  /\ Does(p, "SpecPassup") /\ GoOn(p)
  /\ handlers' = {Argument(p)}
  /\ UNCHANGED <<wait, sem, family, p1p2synch, failed>>

SpecPassup(p) ==
  /\ Does(p, "SpecPassup") /\ GoOn(p)
  /\ handlers' = handlers \cup {Argument(p)}
  /\ UNCHANGED <<wait, sem, family, p1p2synch, failed>>

----------------------------------------------------------------------------
(* The end of a process. *)

\* p's parent, its parent and so on.  A line that goes on behind that is left open.
Up(p) == IF p = NULL THEN NULL ELSE parent[p]
Line(p) == << Up(p), Up(Up(p)), Up(Up(Up(p))), Up(Up(Up(Up(p)))) >>
Longer(p) == Up(Line(p)[4]) # NULL

\* Variant: the top of the tree adopts.
AdoptersTop(q) == {First}

\* Who may adopt: the nearest ancestor with the tutor flag, or the top of the tree.
Adopters(q) ==
  LET up == Line(q)
      ancestors == {i \in 1..4 : up[i] # NULL}
      tutors == {i \in ancestors : up[i] \in tutor}
  IN  IF tutors # {} THEN {up[CHOOSE i \in tutors : \A j \in tutors : i <= j]}
      ELSE IF Longer(q) THEN Proc
      ELSE IF ancestors = {} THEN {q}
      ELSE {up[CHOOSE i \in ancestors : \A j \in ancestors : j <= i]}

\* Who may be adopted when q ends.  The code has the firstborn adopted and no
\* other child; Firstborn.tla shows that it is the one in eldest, and that of a
\* process that is not in eldest itself, the firstborn may have been lost.
Heirs(q) ==
  LET first == Children(q) \cap eldest
  IN  IF q \in eldest /\ first # {} THEN first ELSE Children(q) \cup {NULL}

\* Variant: the semaphore of the victim is not given back (line 401).
GiveBackNot(q) == UNCHANGED sem

GiveBack(q) == sem' = IF wait[q] \in Semaphore THEN [sem EXCEPT ![wait[q]] = @ + 1] ELSE sem

\* The other children keep q's PCB as their parent.
End(q) ==
  /\ \E heir \in Heirs(q), adopter \in Adopters(q) :
       /\ parent' = [c \in Proc |-> IF c = q THEN NULL
                                    ELSE IF c = heir THEN adopter ELSE parent[c]]
       /\ eldest' = {c \in eldest \ {q} : parent[c] \notin {q, parent[q], adopter}}
  /\ wait' = [wait EXCEPT ![q] = "nothing"]
  /\ GiveBack(q)

Terminate(p) ==
  /\ Does(p, "Terminate")
  /\ pc' = [pc EXCEPT ![p] = Ended]
  /\ End(p)
  /\ UNCHANGED <<tutor, handlers, pids, p1p2synch, refused, failed>>

Descends(q, p) == (\E i \in 1..4 : Line(q)[i] = p) \/ Longer(q)
NoDescendant(q, p) == \A i \in 1..4 : Line(q)[i] # p

\* SYS3 with a pid.
KillAs(p, q, expected) ==
  \/ /\ Descends(q, p)
     /\ pc' = [pc EXCEPT ![p] = @ + 1, ![q] = Ended] /\ End(q) /\ Report(~expected)
  \/ /\ NoDescendant(q, p)
     /\ GoOn(p) /\ Report(expected) /\ UNCHANGED <<wait, sem, parent, eldest>>

Kill(p) ==
  /\ Does(p, "Kill")
  /\ KillAs(p, Named(p), TRUE)
  /\ UNCHANGED <<tutor, handlers, pids, p1p2synch, refused>>

KillParentFails(p) ==
  /\ Does(p, "KillParentFails")
  /\ KillAs(p, parent[p], FALSE)
  /\ UNCHANGED <<tutor, handlers, pids, p1p2synch, refused>>

\* A trap goes to the handler, which has p go on behind it, or ends p.  Only p5
\* has handlers.
Trap(p) ==
  /\ Does(p, "Trap")
  /\ IF p[1] = "p5" /\ Argument(p) \in handlers
     THEN GoOn(p) /\ UNCHANGED <<wait, sem, parent, eldest>>
     ELSE pc' = [pc EXCEPT ![p] = Ended] /\ End(p)
  /\ UNCHANGED <<tutor, handlers, pids, p1p2synch, refused, failed>>

----------------------------------------------------------------------------
(* What the programs check. *)

Check(p) == Does(p, "Check") /\ GoOn(p) /\ Report(sem[Argument(p)] # Instruction(p)[3])
CheckSynch(p) == Does(p, "CheckSynch") /\ GoOn(p) /\ Report(~p1p2synch)
CheckPid(p) == Does(p, "CheckPid") /\ GoOn(p) /\ Report(pids[Argument(p)] # p)
CheckParent(p) == Does(p, "CheckParent") /\ GoOn(p) /\ Report(parent[p] # pids[Argument(p)])
SpecPassupFails(p) == Does(p, "SpecPassupFails") /\ GoOn(p) /\ Report(Argument(p) \notin handlers)

\* What p2 and p3 print about SYS1's times depends on the speed of the machine,
\* and they go on whatever it is.
CheckTimes(p) == Does(p, "CheckTimes") /\ GoOn(p) /\ UNCHANGED failed

Checks(p) ==
  /\ Check(p) \/ CheckSynch(p) \/ CheckPid(p) \/ CheckParent(p) \/ SpecPassupFails(p)
     \/ CheckTimes(p)
  /\ UNCHANGED <<wait, sem, family, handlers, p1p2synch>>

Synch(p) ==
  /\ Does(p, "Synch") /\ GoOn(p) /\ p1p2synch' = TRUE
  /\ UNCHANGED <<wait, sem, family, handlers, failed>>

\* The loop of curiousleaf.
AwaitAdoption(p) ==
  /\ Does(p, "AwaitAdoption")
  /\ IF parent[p] = pids["child1"] THEN GoOn(p) /\ UNCHANGED wait
     ELSE wait' = [wait EXCEPT ![p] = "clock"] /\ UNCHANGED pc
  /\ Report(parent[p] \notin {pids["child1"], pids["intermediate"]})
  /\ UNCHANGED <<sem, family, handlers, p1p2synch>>

----------------------------------------------------------------------------
\* The pseudo-clock wakes everybody who waits for it.
Tick ==
  /\ \E p \in Proc : wait[p] = "clock"
  /\ wait' = [p \in Proc |-> IF wait[p] = "clock" THEN "nothing" ELSE wait[p]]
  /\ UNCHANGED <<pc, sem, family, handlers, p1p2synch, failed>>

\* Nobody can go on, and no tick will change that.
Idle == \A p \in Proc : ~Ready(p) /\ wait[p] # "clock"

Stopped == Idle /\ UNCHANGED vars

\* Apart, who has left the mutex of p8root's family, and so has only to end.
HasLeft(p) == p[1] \in P8Roles \ {"intermediate"} /\ Does(p, "Terminate")
MayStep(p) == Apart /\ ~HasLeft(p) => \A q \in Proc : ~HasLeft(q)

Step(p) ==
  /\ Ready(p) /\ MayStep(p)
  /\ \/ P(p) \/ V(p) \/ WaitClock(p) \/ Delay(p)
     \/ Create(p) \/ SetTutor(p) \/ SpecPassup(p)
     \/ Terminate(p) \/ Kill(p) \/ KillParentFails(p) \/ Trap(p)
     \/ Checks(p) \/ Synch(p) \/ AwaitAdoption(p)

Next == (\E p \in Proc : Step(p)) \/ Tick \/ Stopped

Spec == Init /\ [][Next]_vars

\* Somebody can get to another instruction, not only go round the loop of
\* AwaitAdoption.
CanGoOn ==
  \E p \in Proc : /\ Ready(p) /\ ~Does(p, "Error")
                  /\ Does(p, "AwaitAdoption") => parent[p] = pids["child1"]
                  /\ Does(p, "Create") => MayBegin(Named(p)[1])

\* Aging brings every ready process to the processor, so that one that can go on
\* does; a process in the loop of Delay or AwaitAdoption can go on now and then
\* only, after a tick, hence strong fairness of the steps that change pc, with
\* their ENABLED spelled out: of the waits of a Delay one takes half an interval at
\* last.  The interval timer brings the ticks.
FairSpec == Spec /\ ([]<>CanGoOn => []<><<TRUE>>_pc) /\ WF_vars(Tick)

----------------------------------------------------------------------------
\* p2test.c's messages "error: ..." and its PANICs, but for those about measured
\* times (358-364, 408); some of them stand where a program must never get (309,
\* 635, 646).  Unless the PCBs run out, no check of the test fails, whatever the
\* order in which slices and waking let the processes go on, whoever is adopted
\* by whom, and whichever freed PCB a new process gets.
NoError == ~refused => ~failed /\ \A p \in Proc : ~Does(p, "Error")

\* p2test.c:149-311: when nothing can happen any more, and the PCBs have not run
\* out, everybody has ended, p1 with "TTFN" too, and every semaphore has its last
\* value: nobody waits for ever, whoever was killed, adopted, forgotten by the
\* adoption or outlived its family.
EndsClean ==
  ~refused /\ Idle =>
    /\ \A p \in Proc : pc[p] = Ended
    /\ sem = [InitialValue EXCEPT !["testsem"] = 1, !["blkp4"] = 0]

\* p2test.c:305: p1 gets to its "TTFN", and everybody it has created ends.
Finishes == <>(\A p \in Proc : pc[p] = Ended)
=============================================================================
