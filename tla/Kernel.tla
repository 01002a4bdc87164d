------------------------------- MODULE Kernel -------------------------------
(***************************************************************************)
(* The nucleus: SYS_handler, interrupt_handler and schedule with the       *)
(* queues, counters and semaphores they share (src/src/handler.c,          *)
(* interrupts.c, scheduler.c, globals.c; asl.c as one queue per key).  The *)
(* process tree and the PCB allocator are Family's.                        *)
(*                                                                         *)
(* There is one processor, and it handles exceptions with interrupts off:  *)
(* an exception is one step, up to the LDST, WAIT, HALT or PANIC that ends *)
(* it.  Two loops are a step per round: the adoption loop (Family) and the *)
(* one that wakes all processes waiting for the clock.                     *)
(*                                                                         *)
(* The variables of the C files are the fields of k, and the operators     *)
(* that take and return a k are the C functions of the same name.          *)
(***************************************************************************)
EXTENDS ProcQ, FiniteSets

CONSTANTS
  MaxProc,       \* PCBs
  UserSem,       \* semaphores of the processes
  NumDevice,     \* devices; their semaphores are their numbers
  waitclockSem,  \* the semaphore of SYS6
  NoKey,         \* p_semkey = NULL
  Prio,          \* priorities passed to SYS2
  Beyond,        \* the word insertProcQ reads past a sentinel (see ReadyQueue)
  Masks,         \* interrupts a process has enabled: subsets of {"timer", "device"}
  SemInit,       \* initial values of the processes' semaphores
  MaxCreate,     \* bound: calls of SYS2
  MaxPrio,       \* bound: no slice ends with a priority this high in the queue
  MaxSem         \* bound: value of a semaphore

\* Devices in the order interrupt_handler looks for them: line, then number,
\* then the receiver of a terminal before its transmitter.
Device == 1..NumDevice
KernelSem == Device \cup {waitclockSem}
Key == UserSem \cup KernelSem

VARIABLES
  tree, tutors, free, loop, hung, created,  \* see Family
  k,           \* queues, counters, semaphores and what the processor does
  mask,        \* per PCB: the interrupts its status word enables
  timer_cause, \* what the next interrupt of the local timer stands for
  dev          \* the devices

family == <<tree, tutors, free, loop, hung, created>>
vars == <<family, k, mask, timer_cause, dev>>

Fam == INSTANCE Family

Pcb == Fam!Pcb
NULL == Fam!NULL
Live == Fam!Live

ASSUME FamilyAssumption == MaxProc \in Nat \ {0} /\ MaxCreate \in Nat
ASSUME KeyAssumption ==
  /\ NumDevice \in Nat
  /\ UserSem \cap KernelSem = {} /\ waitclockSem \notin Device /\ NoKey \notin Key
ASSUME PrioAssumption == Prio \subseteq Int /\ Beyond \in Int /\ \A n \in Prio \cup {0} : Beyond < n
ASSUME MaskAssumption == Masks \subseteq SUBSET {"timer", "device"}
\* A semaphore counts from zero or more: nobody waits for it yet.
ASSUME SemAssumption == SemInit \subseteq Nat
ASSUME BoundAssumption == MaxPrio \in Int /\ MaxSem \in Int

----------------------------------------------------------------------------
(* scheduler.c *)

\* What a state_t pointer leads to: nothing, a process, or the nucleus itself
\* (interrupted in WAIT).
Context == {"user", "kernel"}

\* LDST: the processor goes on with a saved state.  One that was saved in WAIT
\* belongs to a stack that has been overwritten since.
LDST(context) == IF context = "user" THEN "user" ELSE "wild"

\* Variant: the priority is restored only when the PCB is in the queue already.
RestorePrioLate(k0, old, p) ==
  LET k1 == [k0 EXCEPT !.ready = insertProcQ(@, p, k0.prio, Beyond),
                       !.ready_processes = @ + 1]
  IN IF k0.running # p THEN k1
     ELSE [k1 EXCEPT !.prio[p] = k0.original[p],
                     !.saved[p] = IF old \in Context THEN old ELSE @]

insertProcqReady(k0, old, p) ==
  LET k1 == IF k0.running # p THEN k0
            ELSE [k0 EXCEPT !.prio[p] = k0.original[p],
                            !.saved[p] = IF old \in Context THEN old ELSE @]
  IN [k1 EXCEPT !.ready = insertProcQ(@, p, k1.prio, Beyond),
                !.ready_processes = @ + 1]

schedule(k0, old) ==
  IF k0.ready_processes > 0
  THEN LET p  == headProcQ(k0.ready)
           k1 == [k0 EXCEPT !.ready = removeProcQ(@), !.ready_processes = @ - 1]
           k2 == IF k1.running = NULL THEN k1
                 ELSE insertProcqReady(k1, old, k1.running)
       IN [k2 EXCEPT !.running = p, !.cpu = LDST(k2.saved[p])]
  ELSE [k0 EXCEPT !.cpu = IF k0.blocked_processes > 0 THEN "idle" ELSE "halt"]

\* Which of the two comes first depends on the time of day.
set_timer == timer_cause' \in {"TIMESLICE", "PSEUDOCLOCK"}

\* schedule sets the timer when it dispatches.
TimerAfter(k1) == IF k1.cpu \in {"user", "wild"} THEN set_timer ELSE UNCHANGED timer_cause

----------------------------------------------------------------------------
(* The semaphores: handler.c and asl.c *)

\* Variant: p_semkey gets the value of the semaphore for its address.
KeepsValue(k0, key, p) ==
  [k0 EXCEPT !.semkey[p] = k0.sem[key], !.queue[key] = insertProcQ(@, p, k0.prio, Beyond)]

insertBlocked(k0, key, p) ==
  [k0 EXCEPT !.semkey[p] = key, !.queue[key] = insertProcQ(@, p, k0.prio, Beyond)]

removeBlocked(k0, key) ==
  [k0 EXCEPT !.semkey[headProcQ(k0.queue[key])] = NoKey, !.queue[key] = removeProcQ(@)]

outBlocked(k0, p) ==
  [k0 EXCEPT !.semkey[p] = NoKey, !.queue[k0.semkey[p]] = outProcQ(@, p)]

\* Variant: a V that wakes somebody does not count.
VerhogenOnlyWakes(k0, key) ==
  IF k0.sem[key] >= 0 THEN [k0 EXCEPT !.sem[key] = @ + 1]
  ELSE IF k0.queue[key] = <<>> THEN k0
  ELSE [insertProcqReady(removeBlocked(k0, key), "none", headProcQ(k0.queue[key]))
          EXCEPT !.blocked_processes = @ - 1]

Verhogen(k0, key) ==
  LET k1 == [k0 EXCEPT !.sem[key] = @ + 1]
  IN IF k1.sem[key] > 0 \/ k1.queue[key] = <<>> THEN k1
     ELSE [insertProcqReady(removeBlocked(k1, key), "none", headProcQ(k1.queue[key]))
             EXCEPT !.blocked_processes = @ - 1]

\* A variant of Passeren: insertBlocked (line 494) before the priority is restored (487).
PasserenRestoresLate(k0, key) ==
  LET k1 == [k0 EXCEPT !.sem[key] = @ - 1]
      p  == k0.running
  IN IF k1.sem[key] >= 0 \/ p = NULL THEN k1
     ELSE [insertBlocked([k1 EXCEPT !.blocked_processes = @ + 1], key, p)
             EXCEPT !.prio[p] = k1.original[p], !.running = NULL, !.saved[p] = "user"]

Passeren(k0, key) ==
  LET k1 == [k0 EXCEPT !.sem[key] = @ - 1]
      p  == k0.running
  IN IF k1.sem[key] >= 0 \/ p = NULL THEN k1
     ELSE insertBlocked([k1 EXCEPT !.blocked_processes = @ + 1,
                                   !.prio[p] = k1.original[p],
                                   !.running = NULL,
                                   !.saved[p] = "user"], key, p)

\* Variants of Remove: without the V for a killed waiter (line 401), without the
\* decrement of blocked_processes (404), without leaving the ready queue (407),
\* and without giving up the processor (418-420).
RemoveKeepsSem(k0, pid) ==
  LET k1 == IF k0.semkey[pid] # NoKey
            THEN [outBlocked(k0, pid) EXCEPT !.blocked_processes = @ - 1]
            ELSE IF pid # k0.running
            THEN [k0 EXCEPT !.ready = outProcQ(@, pid), !.ready_processes = @ - 1]
            ELSE k0
  IN IF pid = k0.running THEN [k1 EXCEPT !.running = NULL] ELSE k1

RemoveKeepsCount(k0, pid) ==
  LET k1 == IF k0.semkey[pid] # NoKey
            THEN outBlocked([k0 EXCEPT !.sem[k0.semkey[pid]] = @ + 1], pid)
            ELSE IF pid # k0.running
            THEN [k0 EXCEPT !.ready = outProcQ(@, pid), !.ready_processes = @ - 1]
            ELSE k0
  IN IF pid = k0.running THEN [k1 EXCEPT !.running = NULL] ELSE k1

RemoveKeepsReady(k0, pid) ==
  LET k1 == IF k0.semkey[pid] # NoKey
            THEN [outBlocked([k0 EXCEPT !.sem[k0.semkey[pid]] = @ + 1], pid)
                    EXCEPT !.blocked_processes = @ - 1]
            ELSE k0
  IN IF pid = k0.running THEN [k1 EXCEPT !.running = NULL] ELSE k1

RemoveKeepsRunning(k0, pid) ==
  IF k0.semkey[pid] # NoKey
  THEN [outBlocked([k0 EXCEPT !.sem[k0.semkey[pid]] = @ + 1], pid)
          EXCEPT !.blocked_processes = @ - 1]
  ELSE IF pid # k0.running
  THEN [k0 EXCEPT !.ready = outProcQ(@, pid), !.ready_processes = @ - 1]
  ELSE k0

\* TerminateProcess, lines 399-411 and 418-420: pid leaves wherever it is.
Remove(k0, pid) ==
  LET k1 == IF k0.semkey[pid] # NoKey
            THEN [outBlocked([k0 EXCEPT !.sem[k0.semkey[pid]] = @ + 1], pid)
                    EXCEPT !.blocked_processes = @ - 1]
            ELSE IF pid # k0.running
            THEN [k0 EXCEPT !.ready = outProcQ(@, pid), !.ready_processes = @ - 1]
            ELSE k0
  IN IF pid = k0.running THEN [k1 EXCEPT !.running = NULL] ELSE k1

----------------------------------------------------------------------------
\* The end of main: the first process runs, with the local timer masked.
Init ==
  /\ Fam!Init
  /\ k \in [ready : {<<>>}, ready_processes : {0}, running : {MaxProc},
            queue : {[key \in Key |-> <<>>]}, blocked_processes : {0},
            semkey : {[p \in Pcb |-> NoKey]},
            sem : {s \in [Key -> SemInit \cup {0}] : /\ \A u \in UserSem : s[u] \in SemInit
                                                     /\ \A i \in KernelSem : s[i] = 0},
            prio : {[p \in Pcb |-> 0]}, original : {[p \in Pcb |-> 0]},
            saved : {[p \in Pcb |-> "user"]},
            cpu : {"user"}]
  /\ mask = [p \in Pcb |-> {"device"}]
  /\ timer_cause \in {"TIMESLICE", "PSEUDOCLOCK"}
  /\ dev = [d \in Device |-> "idle"]

----------------------------------------------------------------------------
(* SYS_handler.  A system call ends at line 127 with the caller going on, or *)
(* at line 134 with the scheduler.                                           *)

UserRuns == k.cpu = "user" /\ Fam!Ready

SyscallEnds(k1) ==
  /\ k' = IF k1.running # NULL THEN k1 ELSE schedule(k1, "none")
  /\ TimerAfter(k')

SysCreate(n, m) ==
  LET p == Fam!allocPcb IN
  /\ UserRuns
  /\ Fam!CreateProcess(k.running)
  /\ SyscallEnds(insertProcqReady([k EXCEPT !.prio[p] = n, !.original[p] = n,
                                            !.semkey[p] = NoKey, !.saved[p] = "user"],
                                  "none", p))
  /\ mask' = [mask EXCEPT ![p] = m]
  /\ UNCHANGED dev

\* SYS3, and the end of a process by a trap it has no handler for (pid =
\* running).  With children to adopt the rest follows in TerminateEnd.
Terminate(pid) ==
  /\ UserRuns
  /\ Fam!TerminateProcess(k.running, pid)
  /\ IF hung' \/ loop' # Fam!NoLoop THEN UNCHANGED <<k, timer_cause>>
     ELSE SyscallEnds(Remove(k, pid))
  /\ UNCHANGED <<mask, dev>>

AdoptNext ==
  /\ Fam!AdoptNext
  /\ UNCHANGED <<k, mask, timer_cause, dev>>

TerminateEnd ==
  /\ Fam!TerminateEnd
  /\ SyscallEnds(Remove(k, loop.pid))
  /\ UNCHANGED <<mask, dev>>

SysVerhogen(s) ==
  /\ UserRuns
  /\ k.sem[s] < MaxSem
  /\ SyscallEnds(Verhogen(k, s))
  /\ UNCHANGED <<family, mask, dev>>

SysPasseren(s) ==
  /\ UserRuns
  /\ SyscallEnds(Passeren(k, s))
  /\ UNCHANGED <<family, mask, dev>>

SysWaitClock ==
  /\ UserRuns
  /\ SyscallEnds(Passeren(k, waitclockSem))
  /\ UNCHANGED <<family, mask, dev>>

\* Variant of Command: the command that acknowledges an interrupt starts nothing.
CommandAcknowledges(d) ==
  dev' = [dev EXCEPT ![d] = IF @ = "done" THEN "idle" ELSE "busy"]

\* A device at work ignores a command; one that waits for its acknowledgement
\* takes the command for it, and its interrupt is gone.  Either way it is busy.
Command(d) ==
  dev' = [dev EXCEPT ![d] = "busy"]

SysDoIO(d) ==
  /\ UserRuns
  /\ Command(d)
  /\ SyscallEnds(Passeren(k, d))
  /\ UNCHANGED <<family, mask>>

SysSetTutor ==
  /\ UserRuns
  /\ Fam!Set_Tutor(k.running)
  /\ SyscallEnds(k)
  /\ UNCHANGED <<mask, dev>>

\* Calls that only answer the caller: SYS1, SYS9, SYS10, SYS2 without a free
\* PCB, SYS3 for a process that is no descendant.
CallerGoesOn ==
  /\ UserRuns
  /\ SyscallEnds(k)
  /\ UNCHANGED <<family, mask, dev>>

\* An exception passed up to a handler of the process (specifiedHandler), which
\* runs with a status word of its own.
PassUp(m) ==
  /\ UserRuns
  /\ SyscallEnds(k)
  /\ mask' = [mask EXCEPT ![k.running] = m]
  /\ UNCHANGED <<family, dev>>

----------------------------------------------------------------------------
(* interrupt_handler *)

Enabled(line) == \/ UserRuns /\ line \in mask[k.running]
                 \/ k.cpu = "idle"

Pending == {d \in Device : dev[d] = "done"}

\* The handler asks first whether the timer's interrupt is pending, masked or not:
\* an interrupt of a device may bring it too (line 48).
TimerTaken == Enabled("timer") \/ (Enabled("device") /\ Pending # {})

\* What INTERRUPT_OLDAREA holds: the process, or the nucleus in WAIT.
OldArea == IF k.cpu \in {"idle", "idleclock"} THEN "kernel" ELSE "user"

\* Lines 65-69.
TimerEnds(k1) ==
  /\ k' = schedule(k1, OldArea)
  /\ IF k1.ready_processes = 0 /\ k1.blocked_processes > 0 THEN set_timer
     ELSE TimerAfter(k')

TimeSlice ==
  /\ TimerTaken
  /\ timer_cause = "TIMESLICE"
  /\ \A p \in Elems(k.ready) : k.prio[p] < MaxPrio
  /\ TimerEnds([k EXCEPT !.prio = [p \in Pcb |-> IF p \in Elems(k.ready) THEN @[p] + 1
                                                 ELSE @[p]]])
  /\ UNCHANGED <<family, mask, dev>>

PseudoClock ==
  /\ TimerTaken
  /\ timer_cause = "PSEUDOCLOCK"
  /\ k' = [k EXCEPT !.cpu = IF @ = "idle" THEN "idleclock" ELSE "clock"]
  /\ UNCHANGED <<family, mask, timer_cause, dev>>

\* One round of the loop at line 59.
InClockLoop == k.cpu \in {"clock", "idleclock"}

\* Variants of the loop: it goes on at zero; it is an if.
ClockWakeAtZero ==
  /\ InClockLoop
  /\ k.sem[waitclockSem] <= 0
  /\ k' = Verhogen(k, waitclockSem)
  /\ UNCHANGED <<family, mask, timer_cause, dev>>

ClockEndAnyTime ==
  /\ InClockLoop
  /\ TimerEnds(k)
  /\ UNCHANGED <<family, mask, dev>>

ClockWake ==
  /\ InClockLoop
  /\ k.sem[waitclockSem] < 0
  /\ k' = Verhogen(k, waitclockSem)
  /\ UNCHANGED <<family, mask, timer_cause, dev>>

ClockEnd ==
  /\ InClockLoop
  /\ k.sem[waitclockSem] >= 0
  /\ TimerEnds(k)
  /\ UNCHANGED <<family, mask, dev>>

\* The hardware: a command is done, and its interrupt is pending.
DeviceDone(d) ==
  /\ dev[d] = "busy"
  /\ dev' = [dev EXCEPT ![d] = "done"]
  /\ UNCHANGED <<family, k, mask, timer_cause>>

\* Lines 71-157, for the first device with an interrupt.
DeviceInterrupt(d) ==
  /\ Enabled("device")
  /\ d \in Pending
  /\ \A e \in Pending : d <= e
  /\ IF k.queue[d] = <<>>
     THEN /\ k' = [k EXCEPT !.cpu = "panic"]
          /\ UNCHANGED <<timer_cause, dev>>
     ELSE LET k1 == Verhogen(k, d) IN
          /\ k' = IF k1.running # NULL THEN [k1 EXCEPT !.cpu = LDST(OldArea)]
                  ELSE schedule(k1, "none")
          /\ TimerAfter(k')
          /\ dev' = [dev EXCEPT ![d] = "idle"]
  /\ UNCHANGED <<family, mask>>

Next ==
  \/ \E n \in Prio, m \in Masks : SysCreate(n, m)
  \/ \E pid \in Pcb : Terminate(pid)
  \/ AdoptNext
  \/ TerminateEnd
  \/ \E s \in UserSem : SysVerhogen(s) \/ SysPasseren(s)
  \/ SysWaitClock
  \/ \E d \in Device : SysDoIO(d) \/ DeviceDone(d) \/ DeviceInterrupt(d)
  \/ SysSetTutor
  \/ CallerGoesOn
  \/ \E m \in Masks : PassUp(m)
  \/ TimeSlice
  \/ PseudoClock
  \/ ClockWake
  \/ ClockEnd

Spec == Init /\ [][Next]_vars

\* The processor keeps executing the handler it is in.
FairSpec == Spec /\ WF_vars(ClockWake) /\ WF_vars(ClockEnd)
                 /\ WF_vars(AdoptNext) /\ WF_vars(TerminateEnd)

----------------------------------------------------------------------------
CpuState == {"user", "idle", "clock", "idleclock", "halt", "panic", "wild"}
DevState == {"idle", "busy", "done"}

\* Every variable keeps its type (globals.c, types_rikaya.h).
TypeOK ==
  /\ k \in [ready : Seq(Pcb), ready_processes : Int, running : Pcb \cup {NULL},
            queue : [Key -> Seq(Pcb)], blocked_processes : Int,
            semkey : [Pcb -> Key \cup {NoKey}], sem : [Key -> Int],
            prio : [Pcb -> Int], original : [Pcb -> Int],
            saved : [Pcb -> Context], cpu : CpuState]
  /\ mask \in [Pcb -> SUBSET {"timer", "device"}]
  /\ timer_cause \in {"TIMESLICE", "PSEUDOCLOCK"}
  /\ dev \in [Device -> DevState]

NoRepeats(q) == \A i, j \in DOMAIN q : i # j => q[i] # q[j]

\* A PCB in use is in exactly one place: it runs, or it is once in the ready
\* queue, or once in the queue of the semaphore its p_semkey names.  A PCB on
\* the free list is nowhere.
OnePlace ==
  LET running == {k.running} \ {NULL}
      ready   == Elems(k.ready)
      blocked == {p \in Live : k.semkey[p] # NoKey}
  IN /\ NoRepeats(k.ready)
     /\ \A key \in Key : /\ NoRepeats(k.queue[key])
                         /\ Elems(k.queue[key]) = {p \in Live : k.semkey[p] = key}
     /\ Live = running \cup ready \cup blocked
     /\ running \cap ready = {} /\ blocked \cap (running \cup ready) = {}

\* ready_processes and blocked_processes count what schedule and the timer
\* handler take them to count (scheduler.c:14 and 28, interrupts.c:65).
CountersCount ==
  /\ k.ready_processes = Len(k.ready)
  /\ k.blocked_processes = Cardinality({p \in Live : k.semkey[p] # NoKey})

\* A semaphore below zero has as many waiters as it says, one at zero or above
\* has none: no V, kill or tick loses a wake-up or makes one twice.
SemCountsWaiters ==
  \A key \in Key : Len(k.queue[key]) = IF k.sem[key] < 0 THEN -k.sem[key] ELSE 0

\* Each queue is in order of priority, so that its head is the one to serve.
QueuesSorted ==
  LET Sorted(q) == \A i, j \in DOMAIN q : i < j => k.prio[q[i]] >= k.prio[q[j]]
  IN Sorted(k.ready) /\ \A key \in Key : Sorted(k.queue[key])

\* interrupts.c:49-56: a ready process is not passed over for ever by slices.  Each
\* slice that ends while it waits raises its priority by one; it never gets further
\* than the number of the other waiting processes above the highest priority of
\* all, for who comes into the queue then comes behind it, whatever is created,
\* woken or killed in between.  This says nothing of a running process whose slice
\* does not end (Clock's KeepsProcessorByCalls does).
ServedSoon ==
  \A p \in Elems(k.ready) : \E n \in Prio \cup {0} : k.prio[p] <= n + MaxProc - 2

\* SYS6 and SYS7 always suspend the caller: the semaphores of the clock and of
\* the devices are never positive, also after waiters were killed.
KernelSemsBlock == \A key \in KernelSem : k.sem[key] <= 0

\* scheduler.c:28-43: schedule waits or stops only when everybody is blocked, but
\* for the process that an interrupt of the timer takes the processor from with no
\* other ready (StopsWithNobodyRunning below): no call, kill or device interrupt
\* leaves somebody behind who could run.  And it waits just when there is somebody
\* to wait for.
WaitsOnlyIfItMust ==
  [][k'.cpu \in {"idle", "halt"} /\ k'.cpu # k.cpu =>
       /\ \A p \in Live' : \/ k'.semkey[p] # NoKey
                           \/ p = k'.running /\ (TimeSlice \/ ClockEnd)
       /\ k'.cpu = "idle" <=> \E p \in Live' : k'.semkey[p] # NoKey]_vars

\* handler.c:505-507: a tick of the pseudo-clock wakes everybody who waits for it.
TickWakesAll == [][ClockEnd => k'.queue[waitclockSem] = <<>>]_vars

\* Somebody waits for a device that does nothing.
LeftWaiting(d) == k.queue[d] # <<>> /\ dev[d] = "idle"

\* interrupts.c:117-141: the command of a second caller of SYS7 is lost in one way only
\* that leaves him waiting (WaiterHasCommand below): the command before it completes,
\* wakes one of those who wait for the device, and leaves all the others.  Neither a
\* kill of a waiter, nor a call before the interrupt is acknowledged, leaves anybody so.
LostOnlyBehindAnother ==
  [][\A d \in Device : LeftWaiting(d)' /\ ~LeftWaiting(d) =>
       Len(k.queue[d]) > 1 /\ dev[d] = "done" /\ Len(k'.queue[d]) = Len(k.queue[d]) - 1]_vars

\* interrupts.c:59: the loop that wakes them ends.
TickEnds == InClockLoop ~> ~InClockLoop

\* The nucleus creates and ends processes as Family says.
FamilySpec == Fam!Spec

\* asl.c: it blocks and wakes processes as BlockedQueues allows.  Only a process that
\* waits nowhere is inserted, and nothing changes the priority of one that waits.
Queues == INSTANCE BlockedQueues WITH
  queue <- k.queue, p_semkey <- k.semkey, priority <- k.prio, Prio <- Int
QueuesSpec == Queues!Spec

----------------------------------------------------------------------------
(* What comments of the code say, and the code does not do. *)

\* scheduler.c:5-6: schedule puts the process it takes the processor from into
\* the ready queue; so it waits (29-34), or halts, only when nobody is running.
StopsWithNobodyRunning == k.cpu \in {"idle", "halt"} => k.running = NULL

\* handler.c:515-520: SYS7 starts the operation and suspends its caller until the
\* command is finished.  So whoever waits for a device has a command there that is
\* under way or done.
WaiterHasCommand == \A d \in Device : k.queue[d] # <<>> => dev[d] # "idle"
=============================================================================
