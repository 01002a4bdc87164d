------------------------------- MODULE PassUp -------------------------------
(***************************************************************************)
(* Traps that are passed up to handlers of the process itself (SYS9, and   *)
(* SYS_handler, programtrap_handler, tlb_handler and specifiedHandler in   *)
(* src/src/handler.c).                                                     *)
(*                                                                         *)
(* A processor state is a mode and a place: the program it is in (the      *)
(* process's own code, or its handler for a type of trap) and an           *)
(* instruction of that program.  A handler may change the mode it returns  *)
(* to, so areas keep places only; the cause register is left out.          *)
(* Processes use areas of their own, one per type: what tells SYS9's       *)
(* arguments apart is whether they are NULL.                               *)
(***************************************************************************)
EXTENDS Integers

CONSTANTS
  Proc,   \* PCBs
  First,  \* the process main creates
  NULL,   \* no process
  Type,   \* the types of traps: SYSBK, PGMTRAP and perhaps TLB
  MaxPc   \* bound: the last instruction of a program

ASSUME PassUpAssumption ==
  /\ First \in Proc /\ NULL \notin Proc /\ MaxPc \in Nat
  /\ {"SYSBK", "PGMTRAP"} \subseteq Type /\ "code" \notin Type

VARIABLES
  new, old,  \* per PCB: the types whose new and old area are not NULL
  area,      \* per PCB and type: the place in the old area
  at, user,  \* per PCB: the processor's place and mode, or those in p_s
  running,   \* running_process
  ready,     \* who else may run
  asked,     \* history: types the process asked SYS9 for, with success
  done       \* history: the last instruction of its code that was passed up

pointers == <<new, old>>
history == <<asked, done>>
state == <<at, user>>
vars == <<pointers, area, state, running, ready, history>>

Program == {"code"} \cup Type
Place == [in : Program, pc : 0..MaxPc + 1]
Start(program) == [in |-> program, pc |-> 0]

Live == ready \cup ({running} \ {NULL})

----------------------------------------------------------------------------
Init ==
  /\ new = [p \in Proc |-> {}] /\ old = [p \in Proc |-> {}]
  /\ area = [p \in Proc |-> [t \in Type |-> Start("code")]]
  /\ at = [p \in Proc |-> Start("code")] /\ user = [p \in Proc |-> FALSE]
  /\ running = First /\ ready = {}
  /\ asked = [p \in Proc |-> {}] /\ done = [p \in Proc |-> -1]

AtWork == running # NULL /\ at[running].pc <= MaxPc
InKernelMode == AtWork /\ ~user[running]

\* The process goes on behind its instruction.
GoOn == at' = [at EXCEPT ![running].pc = @ + 1] /\ UNCHANGED user

\* An instruction that is no trap, or a system call that only answers.
Step == AtWork /\ GoOn /\ UNCHANGED <<pointers, area, running, ready, history>>

\* A slice ends: schedule saves one state and loads another.
Switch(p) ==
  /\ running # NULL /\ p \in ready
  /\ running' = p
  /\ ready' = (ready \ {p}) \cup {running}
  /\ UNCHANGED <<pointers, area, state, history>>

\* A process's life begins: nothing asked yet, and areas of its own.
Begin(p, mode) ==
  /\ p \notin Live
  /\ at' = [at EXCEPT ![running].pc = @ + 1, ![p] = Start("code")]
  /\ user' = [user EXCEPT ![p] = mode]
  /\ ready' = ready \cup {p}
  /\ UNCHANGED <<area, running, history>>

\* Variant: allocPcb leaves the six pointers as they are.
CreateKeepsHandlers(p, mode) == InKernelMode /\ Begin(p, mode) /\ UNCHANGED pointers

\* SYS2, with allocPcb.
Create(p, mode) ==
  /\ InKernelMode /\ Begin(p, mode)
  /\ new' = [new EXCEPT ![p] = {}]
  /\ old' = [old EXCEPT ![p] = {}]

\* The flags say which of the arguments are not NULL.
Set(t, o, n) ==
  /\ old' = IF o THEN [old EXCEPT ![running] = @ \cup {t}] ELSE old
  /\ new' = IF n THEN [new EXCEPT ![running] = @ \cup {t}] ELSE new
  /\ asked' = [asked EXCEPT ![running] = @ \cup {t}]

\* Variant: the test is for either pointer.
SpecPassupEither(t, o, n) ==
  /\ InKernelMode /\ GoOn
  /\ IF t \notin old[running] \/ t \notin new[running] THEN Set(t, o, n)
     ELSE UNCHANGED <<pointers, asked>>
  /\ UNCHANGED <<area, running, ready, done>>

\* SYS9.
Spec_Passup(t, o, n) ==
  /\ InKernelMode /\ GoOn
  /\ IF t \notin old[running] /\ t \notin new[running] THEN Set(t, o, n)
     ELSE UNCHANGED <<pointers, asked>>
  /\ UNCHANGED <<area, running, ready, done>>

\* The areas and what has been asked end with the process; its PCB keeps its
\* pointers and p_s.
EndOf(p) ==
  /\ area' = [area EXCEPT ![p] = [t \in Type |-> Start("code")]]
  /\ asked' = [asked EXCEPT ![p] = {}] /\ done' = [done EXCEPT ![p] = -1]
  /\ UNCHANGED pointers

\* SYS3, or a trap nobody handles: another process runs, if there is one.
EndRunning ==
  /\ EndOf(running) /\ UNCHANGED state
  /\ IF ready = {} THEN running' = NULL /\ UNCHANGED ready
     ELSE \E p \in ready : running' = p /\ ready' = ready \ {p}

Terminate == InKernelMode /\ EndRunning

\* SYS3 of another process, in a handler of its own or not.
Kill(p) ==
  /\ InKernelMode /\ GoOn
  /\ p \in ready
  /\ EndOf(p)
  /\ ready' = ready \ {p}
  /\ UNCHANGED running

----------------------------------------------------------------------------
\* Variant: without the step over the instruction (line 170).
SavedAsItIs(t, s) == s

\* The state the handler finds: a system call or breakpoint is stepped over.
Saved(t, s) == IF t = "SYSBK" THEN [s EXCEPT !.pc = @ + 1] ELSE s

\* specifiedHandler, of the process p stopped at s.  The mode of its handler is
\* the one in the new area.
specifiedHandler(t, p, s) ==
  /\ area' = [area EXCEPT ![p][t] = Saved(t, s)]
  /\ at' = [at EXCEPT ![p] = Start(t)]
  /\ \E mode \in BOOLEAN : user' = [user EXCEPT ![p] = mode]
  /\ done' = IF t = "SYSBK" /\ s.in = "code" THEN [done EXCEPT ![p] = s.pc] ELSE done
  /\ UNCHANGED <<pointers, running, ready, asked>>

\* Lines 108-113, 659-662, 667-670.
PassUp(t) ==
  /\ AtWork
  /\ IF t \in new[running] /\ t \in old[running]
     THEN specifiedHandler(t, running, at[running])
     ELSE EndRunning

\* A breakpoint, or a system call above 10 in either mode.
SysBk == PassUp("SYSBK")

\* A system call of the nucleus in user mode: lines 94-98.
UserSyscall == AtWork /\ user[running] /\ PassUp("PGMTRAP")

\* programtrap_handler and tlb_handler.
Trap(t) == PassUp(t)

\* A handler ends by loading its old area, perhaps in another mode (p5prog).
HandlerReturns(mode) ==
  /\ InKernelMode /\ at[running].in \in Type
  /\ at' = [at EXCEPT ![running] = area[running][at[running].in]]
  /\ user' = [user EXCEPT ![running] = mode]
  /\ UNCHANGED <<pointers, area, running, ready, history>>

Next ==
  \/ Step
  \/ \E p \in Proc : \/ Switch(p) \/ Kill(p)
                     \/ \E mode \in BOOLEAN : Create(p, mode)
  \/ \E t \in Type, o \in BOOLEAN, n \in BOOLEAN : Spec_Passup(t, o, n)
  \/ Terminate
  \/ SysBk
  \/ UserSyscall
  \/ \E t \in Type \ {"SYSBK"} : Trap(t)
  \/ \E mode \in BOOLEAN : HandlerReturns(mode)

Spec == Init /\ [][Next]_vars

----------------------------------------------------------------------------
\* Every variable keeps its type.
TypeOK ==
  /\ new \in [Proc -> SUBSET Type] /\ old \in [Proc -> SUBSET Type]
  /\ area \in [Proc -> [Type -> Place]]
  /\ at \in [Proc -> Place] /\ user \in [Proc -> BOOLEAN]
  /\ running \in Proc \cup {NULL} /\ ready \in SUBSET Proc
  /\ asked \in [Proc -> SUBSET Type] /\ done \in [Proc -> -1..MaxPc]

\* pcb.c:58-60: a process has only handlers it asked for itself, and runs only
\* in those, whatever the former owner of its PCB had set.
OwnHandlersOnly ==
  \A p \in Live : /\ new[p] \cup old[p] \subseteq asked[p]
                  /\ at[p].in \in {"code"} \cup asked[p]

\* handler.c:169-170: a breakpoint or system call above 10 of its code that a process
\* has had passed up is over: the process comes back behind it, through any traps
\* inside the handlers and any switches.  Only those are stepped over: what traps
\* otherwise, or calls the nucleus in user mode, is executed again unless its
\* handler changes its area.
PassedUpOnce ==
  \A p \in Live : at[p].in = "code" => at[p].pc > done[p]

\* handler.c:598-599: a type is registered once in a process's life; no second
\* SYS9 adds to or replaces what the first has set.
RegisteredOnce ==
  [][\A p \in Live \cap Live', t \in Type :
       t \in old[p] \cup new[p]
         => (t \in old'[p] <=> t \in old[p]) /\ (t \in new'[p] <=> t \in new[p])]_vars
=============================================================================
