---------------------------- MODULE PassUpProofs ----------------------------
(***************************************************************************)
(* For any number of processes, types of traps and instructions: handlers  *)
(* are a process's own, set once, and what they have handled is over.      *)
(***************************************************************************)
EXTENDS PassUp, TLAPS

\* The processor is given to a process that is not in the ready queue.
RunningApart == running \notin ready

\* A PCB that is not in use has left nothing but its pointers and p_s.
EndForgets ==
  \A p \in Proc \ Live : /\ asked[p] = {} /\ done[p] = -1
                         /\ area[p] = [t \in Type |-> Start("code")]

\* No area of p holds a place in a handler p did not ask for.
Own(p) ==
  /\ new[p] \cup old[p] \subseteq asked[p]
  /\ at[p].in \in {"code"} \cup asked[p]
  /\ \A t \in Type : area[p][t].in \in {"code"} \cup asked[p]

\* S has the program at place, and with every handler the program that the handler
\* returns to; who returns to the code comes behind the instruction d.
ReturnsBehind(S, place, areas, d) ==
  /\ place.in \in S
  /\ place.in = "code" => place.pc > d
  /\ \A t \in S \cap Type : /\ areas[t].in \in S
                            /\ areas[t].in = "code" => areas[t].pc > d

\* The handlers p is in, some stopped by traps of others, return behind what has
\* been handled; areas of other handlers may hold old places.
Returns(p) == \E S \in SUBSET Program : ReturnsBehind(S, at[p], area[p], done[p])

LivesOn == \A p \in Live : Own(p) /\ Returns(p)

IInv == TypeOK /\ RunningApart /\ EndForgets /\ LivesOn

LEMMA InitInv == Init => IInv
  <1> SUFFICES ASSUME Init PROVE IInv
    OBVIOUS
  <1> USE PassUpAssumption DEF Init
  <1>1. Live = {First}
    BY DEF Live
  <1>2. Start("code") \in Place
    BY DEF Start, Place, Program
  <1>3. TypeOK
    BY <1>2 DEF TypeOK
  <1>4. RunningApart /\ EndForgets
    BY DEF RunningApart, EndForgets
  <1>5. Own(First)
    BY DEF Own, Start
  <1>6. ReturnsBehind({"code"}, at[First], area[First], done[First])
    BY DEF ReturnsBehind, Start
  <1>7. Returns(First)
    BY <1>6 DEF Returns, Program
  <1> QED
    BY <1>1, <1>3, <1>4, <1>5, <1>7 DEF IInv, LivesOn

----------------------------------------------------------------------------
(* What a step may do to one process. *)

\* Whose data a step leaves alone goes on as before.
LEMMA Untouched ==
  ASSUME NEW p, Own(p), Returns(p), UNCHANGED <<new[p], old[p], area[p], at[p], asked[p], done[p]>>
  PROVE  Own(p)' /\ Returns(p)'
  BY DEF Own, Returns, ReturnsBehind, Program

\* The next instruction, perhaps with a type asked for.
LEMMA NextInstruction ==
  ASSUME NEW p \in Proc, TypeOK, Own(p), Returns(p),
         at'[p] = [at[p] EXCEPT !.pc = @ + 1],
         asked[p] \subseteq asked'[p], new'[p] \cup old'[p] \subseteq asked'[p],
         UNCHANGED <<area[p], done[p]>>
  PROVE  Own(p)' /\ Returns(p)'
  <1>1. at[p] \in Place /\ done[p] \in Int
    BY DEF TypeOK
  <1>2. at'[p].in = at[p].in /\ at'[p].pc = at[p].pc + 1 /\ at[p].pc \in Int
    BY <1>1 DEF Place
  <1>3. Own(p)'
    BY <1>2 DEF Own
  <1>4. PICK S \in SUBSET Program : ReturnsBehind(S, at[p], area[p], done[p])
    BY DEF Returns
  <1>5. ReturnsBehind(S, at'[p], area'[p], done'[p])
    BY <1>1, <1>2, <1>4 DEF ReturnsBehind
  <1> QED
    BY <1>3, <1>4, <1>5 DEF Returns, Program

\* A trap: the handler of type t begins, and will return behind the trap.
LEMMA HandlerBegins ==
  ASSUME NEW p \in Proc, NEW t \in Type, TypeOK, Own(p), Returns(p),
         t \in new[p], at[p].pc <= MaxPc,
         area'[p] = [area[p] EXCEPT ![t] = Saved(t, at[p])],
         at'[p] = Start(t),
         done'[p] = IF t = "SYSBK" /\ at[p].in = "code" THEN at[p].pc ELSE done[p],
         UNCHANGED <<new[p], old[p], asked[p]>>
  PROVE  Own(p)' /\ Returns(p)'
  <1> USE PassUpAssumption
  <1>1. /\ at[p] \in Place /\ at[p].pc \in Int /\ done[p] \in Int
        /\ area[p] \in [Type -> Place] /\ at[p].in \in Program
    BY DEF TypeOK, Place
  <1>2. /\ Saved(t, at[p]).in = at[p].in
        /\ Saved(t, at[p]).pc = IF t = "SYSBK" THEN at[p].pc + 1 ELSE at[p].pc
    BY <1>1 DEF Saved, Place
  <1>3. /\ area'[p][t] = Saved(t, at[p])
        /\ \A u \in Type : u # t => area'[p][u] = area[p][u]
        /\ at'[p].in = t /\ t # "code"
    BY <1>1 DEF Start
  <1>4. Own(p)'
    BY <1>2, <1>3 DEF Own
  <1>5. PICK S \in SUBSET Program : ReturnsBehind(S, at[p], area[p], done[p])
    BY DEF Returns
  <1>6. CASE at[p].in = "code"
    <2>1. Saved(t, at[p]).pc > done'[p]
      BY <1>1, <1>2, <1>5, <1>6 DEF ReturnsBehind
    <2>2. ReturnsBehind({"code", t}, at'[p], area'[p], done'[p])
      BY <1>2, <1>3, <1>6, <2>1 DEF ReturnsBehind
    <2> QED
      BY <1>4, <2>2 DEF Returns, Program
  <1>7. CASE at[p].in # "code"
    <2>1. ReturnsBehind(S \cup {t}, at'[p], area'[p], done'[p])
      BY <1>1, <1>2, <1>3, <1>5, <1>7 DEF ReturnsBehind
    <2>2. S \cup {t} \in SUBSET Program
      BY DEF Program
    <2> QED
      BY <1>4, <2>1, <2>2 DEF Returns, Program
  <1> QED
    BY <1>6, <1>7

\* A handler returns to the place in its area.
LEMMA HandlerEnds ==
  ASSUME NEW p \in Proc, TypeOK, Own(p), Returns(p), at[p].in \in Type,
         at'[p] = area[p][at[p].in],
         UNCHANGED <<new[p], old[p], area[p], asked[p], done[p]>>
  PROVE  Own(p)' /\ Returns(p)'
  <1>1. Own(p)'
    BY DEF Own
  <1>2. PICK S \in SUBSET Program : ReturnsBehind(S, at[p], area[p], done[p])
    BY DEF Returns
  <1>3. ReturnsBehind(S, at'[p], area'[p], done'[p])
    BY <1>2 DEF ReturnsBehind
  <1> QED
    BY <1>1, <1>2, <1>3 DEF Returns, Program

----------------------------------------------------------------------------
(* One step of the system. *)

\* A step that changes one process's data, lives, dies or is born as it may.
LEMMA RunningSteps ==
  ASSUME IInv, running # NULL, TypeOK', UNCHANGED <<running, ready>>,
         Own(running)' /\ Returns(running)',
         \A p \in Proc \ {running} :
           UNCHANGED <<new[p], old[p], area[p], at[p], asked[p], done[p]>>
  PROVE  IInv'
  <1>1. running \in Proc /\ Live' = Live /\ running \in Live /\ Live \subseteq Proc
    BY DEF IInv, TypeOK, Live
  <1>2. RunningApart' /\ EndForgets'
    BY <1>1 DEF IInv, RunningApart, EndForgets
  <1>3. ASSUME NEW p \in Live PROVE Own(p)' /\ Returns(p)'
    <2>1. CASE p = running
      BY <2>1
    <2>2. CASE p # running
      BY <1>1, <2>2, Untouched DEF IInv, LivesOn
    <2> QED
      BY <2>1, <2>2
  <1> QED
    BY <1>1, <1>2, <1>3 DEF IInv, LivesOn

LEMMA StepInv == ASSUME IInv, Step PROVE IInv'
  <1>1. running \in Proc /\ at[running] \in Place /\ at[running].pc <= MaxPc /\ running \in Live
    BY DEF IInv, TypeOK, Step, AtWork, Live
  <1>2. [at[running] EXCEPT !.pc = @ + 1] \in Place
    BY <1>1, PassUpAssumption DEF Place
  <1>3. TypeOK'
    BY <1>1, <1>2 DEF IInv, TypeOK, Step, GoOn, pointers, history
  <1>4. Own(running)' /\ Returns(running)'
    <2>1. at'[running] = [at[running] EXCEPT !.pc = @ + 1]
      BY <1>1 DEF IInv, TypeOK, Step, GoOn
    <2> QED
      BY <1>1, <2>1, NextInstruction DEF IInv, LivesOn, Own, Step, pointers, history
  <1> QED
    BY <1>1, <1>3, <1>4, RunningSteps DEF IInv, TypeOK, Step, AtWork, GoOn, pointers, history

LEMMA SwitchInv == ASSUME IInv, NEW p \in Proc, Switch(p) PROVE IInv'
  <1>1. running \in Proc /\ p \in ready /\ NULL \notin Proc /\ NULL \notin ready /\ p # running
    BY PassUpAssumption DEF IInv, TypeOK, Switch, RunningApart
  <1>2. Live' = Live /\ Live \subseteq Proc
    BY <1>1 DEF IInv, TypeOK, Switch, Live
  <1>3. TypeOK' /\ RunningApart'
    BY <1>1 DEF IInv, TypeOK, RunningApart, Switch, pointers, state, history
  <1>4. EndForgets'
    BY <1>2 DEF IInv, EndForgets, Switch, history
  <1>5. LivesOn'
    BY <1>2, Untouched DEF IInv, LivesOn, Switch, pointers, state, history
  <1> QED
    BY <1>3, <1>4, <1>5 DEF IInv

LEMMA CreateInv == ASSUME IInv, NEW p \in Proc, NEW mode \in BOOLEAN, Create(p, mode) PROVE IInv'
  <1> USE DEF Create, Begin
  <1>1. /\ running \in Proc /\ at[running] \in Place /\ at[running].pc <= MaxPc
        /\ running \in Live /\ p # running /\ p \notin ready
    BY DEF IInv, TypeOK, InKernelMode, AtWork, Live
  <1>2. [at[running] EXCEPT !.pc = @ + 1] \in Place /\ Start("code") \in Place
    BY <1>1, PassUpAssumption DEF Place, Start, Program
  <1>3. TypeOK'
    BY <1>1, <1>2 DEF IInv, TypeOK, history
  <1>4. Live' = Live \cup {p} /\ Live' \subseteq Proc
    BY <1>1 DEF IInv, TypeOK, Live
  <1>5. RunningApart'
    BY <1>1 DEF IInv, RunningApart
  <1>6. EndForgets'
    BY <1>4 DEF IInv, EndForgets, history
  <1>7. ASSUME NEW q \in Live' PROVE Own(q)' /\ Returns(q)'
    <2>1. CASE q = running
      <3>1. at'[running] = [at[running] EXCEPT !.pc = @ + 1]
        BY <1>1 DEF IInv, TypeOK
      <3>2. new'[running] = new[running] /\ old'[running] = old[running]
        BY <1>1 DEF IInv, TypeOK
      <3> QED
        BY <1>1, <2>1, <3>1, <3>2, NextInstruction DEF IInv, LivesOn, Own, history
    <2>2. CASE q = p
      <3>1. /\ new'[p] = {} /\ old'[p] = {} /\ at'[p] = Start("code")
            /\ area'[p] = [t \in Type |-> Start("code")] /\ done'[p] = -1
        BY <1>1 DEF IInv, TypeOK, EndForgets, history
      <3>2. Own(p)'
        BY <3>1 DEF Own, Start
      <3>3. ReturnsBehind({"code"}, at'[p], area'[p], done'[p])
        BY <3>1, PassUpAssumption DEF ReturnsBehind, Start
      <3> QED
        BY <2>2, <3>2, <3>3 DEF Returns, Program
    <2>3. CASE q \notin {running, p}
      <3>1. q \in Live /\ q \in Proc
        BY <1>4, <2>3
      <3>2. UNCHANGED <<new[q], old[q], area[q], at[q], asked[q], done[q]>>
        BY <1>1, <2>3, <3>1 DEF IInv, TypeOK, history
      <3> QED
        BY <3>1, <3>2, Untouched DEF IInv, LivesOn
    <2> QED
      BY <2>1, <2>2, <2>3
  <1> QED
    BY <1>3, <1>5, <1>6, <1>7 DEF IInv, LivesOn

LEMMA SpecPassupInv ==
  ASSUME IInv, NEW t \in Type, NEW o \in BOOLEAN, NEW n \in BOOLEAN, Spec_Passup(t, o, n)
  PROVE  IInv'
  <1> USE DEF Spec_Passup
  <1>1. running \in Proc /\ at[running] \in Place /\ at[running].pc <= MaxPc /\ running \in Live
    BY DEF IInv, TypeOK, InKernelMode, AtWork, Live
  <1>2. [at[running] EXCEPT !.pc = @ + 1] \in Place
    BY <1>1, PassUpAssumption DEF Place
  <1>3. /\ new' \in [Proc -> SUBSET Type] /\ old' \in [Proc -> SUBSET Type]
        /\ asked' \in [Proc -> SUBSET Type]
        /\ \A p \in Proc \ {running} : UNCHANGED <<new[p], old[p], asked[p]>>
        /\ asked[running] \subseteq asked'[running]
        /\ new'[running] \cup old'[running] \subseteq asked'[running]
    <2>1. CASE t \notin old[running] /\ t \notin new[running]
      <3>1. Set(t, o, n)
        BY <2>1
      <3>2. new[running] \cup old[running] \subseteq asked[running]
        BY <1>1 DEF IInv, LivesOn, Own
      <3>3. /\ new'[running] \subseteq new[running] \cup {t}
            /\ old'[running] \subseteq old[running] \cup {t}
            /\ asked'[running] = asked[running] \cup {t}
        BY <1>1, <3>1 DEF IInv, TypeOK, Set
      <3>4. \A p \in Proc \ {running} : UNCHANGED <<new[p], old[p], asked[p]>>
        BY <1>1, <3>1 DEF IInv, TypeOK, Set
      <3>5. /\ new' \in [Proc -> SUBSET Type] /\ old' \in [Proc -> SUBSET Type]
            /\ asked' \in [Proc -> SUBSET Type]
        BY <1>1, <3>1 DEF IInv, TypeOK, Set
      <3> QED
        BY <3>2, <3>3, <3>4, <3>5
    <2>2. CASE ~(t \notin old[running] /\ t \notin new[running])
      BY <1>1, <2>2 DEF IInv, TypeOK, pointers, LivesOn, Own
    <2> QED
      BY <2>1, <2>2
  <1>4. TypeOK'
    BY <1>1, <1>2, <1>3 DEF IInv, TypeOK, GoOn
  <1>5. Own(running)' /\ Returns(running)'
    <2>1. at'[running] = [at[running] EXCEPT !.pc = @ + 1]
      BY <1>1 DEF IInv, TypeOK, GoOn
    <2> QED
      BY <1>1, <1>3, <2>1, NextInstruction DEF IInv, LivesOn
  <1> QED
    BY <1>1, <1>3, <1>4, <1>5, RunningSteps DEF IInv, TypeOK, InKernelMode, AtWork, GoOn

LEMMA EndInv == ASSUME IInv, AtWork, EndRunning PROVE IInv'
  <1> USE DEF EndRunning, EndOf
  <1>1. /\ running \in Proc /\ running \notin ready /\ ready \subseteq Proc
        /\ NULL \notin Proc /\ Start("code") \in Place
    BY PassUpAssumption DEF IInv, TypeOK, AtWork, RunningApart, Start, Place, Program
  <1>2. Live = ready \cup {running}
    BY <1>1 DEF Live, AtWork
  <1>3. Live' = ready /\ RunningApart' /\ running' \in Proc \cup {NULL} /\ ready' \in SUBSET Proc
    <2>1. CASE ready = {}
      BY <1>1, <2>1 DEF Live, RunningApart
    <2>2. CASE ready # {}
      <3>1. PICK p \in ready : running' = p /\ ready' = ready \ {p}
        BY <2>2
      <3> QED
        BY <1>1, <3>1 DEF Live, RunningApart
    <2> QED
      BY <2>1, <2>2
  <1>4. TypeOK'
    BY <1>1, <1>3, PassUpAssumption DEF IInv, TypeOK, pointers, state
  <1>5. EndForgets'
    BY <1>1, <1>2, <1>3 DEF IInv, TypeOK, EndForgets
  <1>6. ASSUME NEW p \in ready PROVE Own(p)' /\ Returns(p)'
    <2>1. UNCHANGED <<new[p], old[p], area[p], at[p], asked[p], done[p]>>
      BY <1>1 DEF IInv, TypeOK, pointers, state
    <2> QED
      BY <1>2, <2>1, Untouched DEF IInv, LivesOn
  <1> QED
    BY <1>3, <1>4, <1>5, <1>6 DEF IInv, LivesOn

LEMMA KillInv == ASSUME IInv, NEW p \in Proc, Kill(p) PROVE IInv'
  <1> USE DEF Kill, EndOf
  <1>1. /\ running \in Proc /\ at[running] \in Place /\ at[running].pc <= MaxPc
        /\ running \in Live /\ p # running /\ p \in ready /\ Start("code") \in Place
    BY PassUpAssumption
       DEF IInv, TypeOK, InKernelMode, AtWork, Live, RunningApart, Start, Place, Program
  <1>2. [at[running] EXCEPT !.pc = @ + 1] \in Place
    BY <1>1, PassUpAssumption DEF Place
  <1>3. TypeOK'
    BY <1>1, <1>2, PassUpAssumption DEF IInv, TypeOK, GoOn, pointers
  <1>4. Live' = Live \ {p} /\ Live \subseteq Proc
    BY <1>1 DEF IInv, TypeOK, Live
  <1>5. RunningApart'
    BY <1>1 DEF IInv, RunningApart
  <1>6. EndForgets'
    BY <1>1, <1>4 DEF IInv, TypeOK, EndForgets
  <1>7. ASSUME NEW q \in Live' PROVE Own(q)' /\ Returns(q)'
    <2>1. q \in Live /\ q \in Proc /\ q # p
      BY <1>4
    <2>2. UNCHANGED <<new[q], old[q], area[q], asked[q], done[q]>>
      BY <2>1 DEF IInv, TypeOK, pointers
    <2>3. CASE q = running
      <3>1. at'[running] = [at[running] EXCEPT !.pc = @ + 1]
        BY <1>1 DEF IInv, TypeOK, GoOn
      <3> QED
        BY <1>1, <2>1, <2>2, <2>3, <3>1, NextInstruction DEF IInv, LivesOn, Own
    <2>4. CASE q # running
      <3>1. at'[q] = at[q]
        BY <1>1, <2>1, <2>4 DEF IInv, TypeOK, GoOn
      <3> QED
        BY <2>1, <2>2, <3>1, Untouched DEF IInv, LivesOn
    <2> QED
      BY <2>3, <2>4
  <1> QED
    BY <1>3, <1>5, <1>6, <1>7 DEF IInv, LivesOn

LEMMA PassUpInv == ASSUME IInv, NEW t \in Type, PassUp(t) PROVE IInv'
  <1>1. CASE ~(t \in new[running] /\ t \in old[running])
    BY <1>1, EndInv DEF PassUp
  <1>2. CASE t \in new[running] /\ t \in old[running]
    <2>1. specifiedHandler(t, running, at[running]) /\ AtWork
      BY <1>2 DEF PassUp
    <2>2. /\ running \in Proc /\ at[running] \in Place /\ at[running].pc <= MaxPc
          /\ running \in Live /\ area[running] \in [Type -> Place]
      BY <2>1 DEF IInv, TypeOK, AtWork, Live
    <2>3. Saved(t, at[running]) \in Place /\ Start(t) \in Place
      BY <2>2, PassUpAssumption DEF Place, Saved, Start, Program
    <2>4. at[running].pc \in -1..MaxPc
      BY <2>2, PassUpAssumption DEF Place
    <2>5. TypeOK'
      BY <2>1, <2>2, <2>3, <2>4 DEF IInv, TypeOK, specifiedHandler, pointers
    <2>6. Own(running)' /\ Returns(running)'
      <3>1. /\ area'[running] = [area[running] EXCEPT ![t] = Saved(t, at[running])]
            /\ at'[running] = Start(t)
        BY <2>1, <2>2 DEF IInv, TypeOK, specifiedHandler
      <3>2. done'[running] = IF t = "SYSBK" /\ at[running].in = "code" THEN at[running].pc
                             ELSE done[running]
        BY <2>1, <2>2 DEF IInv, TypeOK, specifiedHandler
      <3> QED
        BY <1>2, <2>1, <2>2, <3>1, <3>2, HandlerBegins DEF IInv, LivesOn, specifiedHandler, pointers
    <2> QED
      BY <2>1, <2>2, <2>5, <2>6, RunningSteps
      DEF IInv, TypeOK, AtWork, specifiedHandler, pointers
  <1> QED
    BY <1>1, <1>2

LEMMA HandlerReturnsInv == ASSUME IInv, NEW mode \in BOOLEAN, HandlerReturns(mode) PROVE IInv'
  <1> USE DEF HandlerReturns
  <1>1. running \in Proc /\ at[running].in \in Type /\ running \in Live /\ running # NULL
    BY DEF IInv, TypeOK, InKernelMode, AtWork, Live
  <1>2. area[running][at[running].in] \in Place
    BY <1>1 DEF IInv, TypeOK
  <1>3. TypeOK'
    BY <1>1, <1>2 DEF IInv, TypeOK, pointers, history
  <1>4. Own(running)' /\ Returns(running)'
    <2>1. at'[running] = area[running][at[running].in]
      BY <1>1 DEF IInv, TypeOK
    <2> QED
      BY <1>1, <2>1, HandlerEnds DEF IInv, LivesOn, pointers, history
  <1> QED
    BY <1>1, <1>3, <1>4, RunningSteps DEF IInv, TypeOK, pointers, history

\* Every step keeps the invariant.
LEMMA NextInv == ASSUME IInv, [Next]_vars PROVE IInv'
  <1>1. CASE Step
    BY <1>1, StepInv
  <1>2. CASE \E p \in Proc : Switch(p) \/ Kill(p) \/ \E mode \in BOOLEAN : Create(p, mode)
    BY <1>2, SwitchInv, KillInv, CreateInv
  <1>3. CASE \E t \in Type, o \in BOOLEAN, n \in BOOLEAN : Spec_Passup(t, o, n)
    BY <1>3, SpecPassupInv
  <1>4. CASE Terminate
    BY <1>4, EndInv DEF Terminate, InKernelMode
  <1>5. CASE SysBk \/ UserSyscall \/ \E t \in Type \ {"SYSBK"} : Trap(t)
    BY <1>5, PassUpInv, PassUpAssumption DEF SysBk, UserSyscall, Trap
  <1>6. CASE \E mode \in BOOLEAN : HandlerReturns(mode)
    BY <1>6, HandlerReturnsInv
  <1>7. CASE UNCHANGED vars
    <2>1. Live' = Live
      BY <1>7 DEF vars, Live
    <2> QED
      BY <1>7, <2>1, Untouched
      DEF vars, pointers, state, history, IInv, TypeOK, RunningApart, EndForgets, LivesOn
  <1> QED
    BY <1>1, <1>2, <1>3, <1>4, <1>5, <1>6, <1>7 DEF Next

THEOREM Invariance == Spec => []IInv
  <1>1. Init => IInv
    BY InitInv
  <1>2. IInv /\ [Next]_vars => IInv'
    BY NextInv
  <1> QED
    BY <1>1, <1>2, PTL DEF Spec

\* handler.c, pcb.c: every variable keeps its type.
THEOREM TypeCorrect == Spec => []TypeOK
  <1>1. IInv => TypeOK
    BY DEF IInv
  <1> QED
    BY <1>1, Invariance, PTL

\* pcb.c:58-60: a process has and runs only in handlers it asked for itself.
THEOREM HandlersAreOwn == Spec => []OwnHandlersOnly
  <1>1. IInv => OwnHandlersOnly
    BY DEF IInv, LivesOn, Own, OwnHandlersOnly
  <1> QED
    BY <1>1, Invariance, PTL

\* handler.c:169-170: no breakpoint or system call above 10 in the code of a process
\* is passed up twice.
THEOREM NothingTwice == Spec => []PassedUpOnce
  <1>1. IInv => PassedUpOnce
    BY DEF IInv, LivesOn, Returns, ReturnsBehind, PassedUpOnce
  <1> QED
    BY <1>1, Invariance, PTL

\* handler.c:598-599: what SYS9 has set for a type stays in a process's life.
THEOREM SetOnce == Spec => RegisteredOnce
  <1> DEFINE Kept == \A p \in Live \cap Live', t \in Type :
                       t \in old[p] \cup new[p]
                         => (t \in old'[p] <=> t \in old[p]) /\ (t \in new'[p] <=> t \in new[p])
  <1>1. ASSUME IInv, Next PROVE Kept
    <2>1. CASE UNCHANGED pointers
      BY <2>1 DEF pointers
    <2>2. ASSUME NEW p \in Proc, NEW mode \in BOOLEAN, Create(p, mode) PROVE Kept
      <3>1. p \notin Live
        BY <2>2 DEF Create, Begin
      <3>2. \A q \in Proc \ {p} : new'[q] = new[q] /\ old'[q] = old[q]
        BY <1>1, <2>2 DEF Create, IInv, TypeOK
      <3>3. Live \subseteq Proc
        BY <1>1 DEF IInv, TypeOK, Live
      <3> QED
        BY <3>1, <3>2, <3>3
    <2>3. ASSUME NEW t \in Type, NEW o \in BOOLEAN, NEW n \in BOOLEAN, Spec_Passup(t, o, n)
          PROVE  Kept
      <3>1. CASE t \notin old[running] /\ t \notin new[running]
        <4>1. Set(t, o, n)
          BY <2>3, <3>1 DEF Spec_Passup
        <4>2. ASSUME NEW p \in Live, NEW u \in Type, p # running \/ u # t
              PROVE  (u \in old'[p] <=> u \in old[p]) /\ (u \in new'[p] <=> u \in new[p])
          <5>1. p \in Proc
            BY <1>1 DEF IInv, TypeOK, Live
          <5> QED
            BY <1>1, <4>1, <4>2, <5>1 DEF Set, IInv, TypeOK
        <4> QED
          BY <3>1, <4>2
      <3>2. CASE ~(t \notin old[running] /\ t \notin new[running])
        BY <2>1, <2>3, <3>2 DEF Spec_Passup
      <3> QED
        BY <3>1, <3>2
    <2>4. CASE Step \/ (\E p \in Proc : Switch(p) \/ Kill(p)) \/ Terminate
               \/ (\E mode \in BOOLEAN : HandlerReturns(mode))
      BY <2>1, <2>4 DEF Step, Switch, Kill, Terminate, EndRunning, EndOf, HandlerReturns
    <2>5. CASE SysBk \/ UserSyscall \/ \E t \in Type \ {"SYSBK"} : Trap(t)
      BY <2>1, <2>5
      DEF SysBk, UserSyscall, Trap, PassUp, specifiedHandler, EndRunning, EndOf
    <2> QED
      BY <1>1, <2>2, <2>3, <2>4, <2>5 DEF Next
  <1>2. IInv /\ [Next]_vars => [Kept]_vars
    BY <1>1
  <1> QED
    BY <1>2, Invariance, PTL DEF Spec, RegisteredOnce
=============================================================================
