------------------------------- MODULE Clock -------------------------------
(***************************************************************************)
(* The local timer, the time of day it is set from, and the processes that *)
(* wait for a tick of the pseudo-clock (set_timer in src/src/scheduler.c   *)
(* and its callers in handler.c and interrupts.c).                         *)
(*                                                                         *)
(* Handlers take time here: an exception is a step that enters the handler *)
(* and does its work, and one that ends it, and time passes in between     *)
(* with interrupts off.  The queues are the places where processes are;    *)
(* Kernel has their order.                                                 *)
(***************************************************************************)
EXTENDS Integers

CONSTANTS
  Proc,                \* PCBs
  First,               \* the process main creates
  TimerMasked,         \* processes that run with the timer's interrupt masked
  TIME_SCALE,          \* ticks of the time of day in a microsecond
  SCHED_TIME_SLICE,    \* microseconds
  SCHED_PSEUDO_CLOCK,  \* microseconds
  LO                   \* values of the low word of the time of day

Period == SCHED_PSEUDO_CLOCK * TIME_SCALE

ASSUME ProcAssumption == First \in Proc /\ TimerMasked \subseteq Proc
ASSUME TimeAssumption ==
  /\ TIME_SCALE \in Nat \ {0}
  /\ SCHED_TIME_SLICE \in Nat \ {0} /\ SCHED_PSEUDO_CLOCK \in Nat
  /\ SCHED_TIME_SLICE < SCHED_PSEUDO_CLOCK
\* The low word wraps early in a period, as 2^32 does with 100000 microseconds:
\* nothing is near a tick then.
ASSUME WrapAssumption ==
  /\ LO \in Nat /\ Period < LO
  /\ TIME_SCALE <= LO % Period
  /\ LO % Period < Period - SCHED_TIME_SLICE * TIME_SCALE

VARIABLES
  lo,           \* low word of the time of day
  timer,        \* ticks until the timer's interrupt; 0: it is pending
  timer_cause,  \* what that interrupt stands for
  where,        \* where each PCB is
  stuck,        \* processes the processor waited with: their state is lost
  cpu,          \* what the processor does
  due           \* history: waiting processes that have seen a tick go by

vars == <<lo, timer, timer_cause, where, stuck, cpu, due>>

Place == {"unused", "ready", "running", "clock", "blocked"}
CpuState == {"user", "sys", "tick", "device", "idle", "halt", "wild"}

Now(place) == {p \in Proc : where[p] = place}
Runs(p) == where[p] = "running"
BlockedProcesses == Now("clock") \cup Now("blocked")

----------------------------------------------------------------------------
(* The time of day. *)

\* Ticks of the time of day until the pseudo-clock ticks: at the multiples of
\* its period, which start again when the low word does.
UntilTick(t) ==
  LET next == (t \div Period + 1) * Period
  IN IF next < LO THEN next - t ELSE LO - t + Period

\* Microseconds left, as set_timer computes them.
pseudoclock_remainingTime ==
  SCHED_PSEUDO_CLOCK - ((lo \div TIME_SCALE) % SCHED_PSEUDO_CLOCK)

\* Variant: the comparison is the wrong way round.
SetTimerReversed ==
  IF pseudoclock_remainingTime >= SCHED_TIME_SLICE
  THEN /\ timer_cause' = "PSEUDOCLOCK"
       /\ timer' = pseudoclock_remainingTime * TIME_SCALE
  ELSE /\ timer_cause' = "TIMESLICE"
       /\ timer' = SCHED_TIME_SLICE * TIME_SCALE

\* Variant: sets the cause only when it is a tick.
SetTimerKeepsCause ==
  IF pseudoclock_remainingTime <= SCHED_TIME_SLICE
  THEN /\ timer_cause' = "PSEUDOCLOCK"
       /\ timer' = pseudoclock_remainingTime * TIME_SCALE
  ELSE /\ timer_cause' = timer_cause
       /\ timer' = SCHED_TIME_SLICE * TIME_SCALE

set_timer ==
  IF pseudoclock_remainingTime <= SCHED_TIME_SLICE
  THEN /\ timer_cause' = "PSEUDOCLOCK"
       /\ timer' = pseudoclock_remainingTime * TIME_SCALE
  ELSE /\ timer_cause' = "TIMESLICE"
       /\ timer' = SCHED_TIME_SLICE * TIME_SCALE

\* Interrupts are on in a process and in WAIT.
TimerEnabled == cpu = "idle" \/ (cpu = "user" /\ \A p \in Now("running") : p \notin TimerMasked)

\* A tick passes; an enabled interrupt is taken before the next.
Elapse ==
  /\ cpu \notin {"halt", "wild"}
  /\ TimerEnabled => timer > 0
  /\ lo' = (lo + 1) % LO
  /\ timer' = IF timer > 0 THEN timer - 1 ELSE 0
  /\ due' = IF UntilTick(lo) = 1 THEN due \cup Now("clock") ELSE due
  /\ UNCHANGED <<timer_cause, where, stuck, cpu>>

----------------------------------------------------------------------------
(* schedule, and the ways out of a handler. *)

\* LDST of p's state.  The one of a process that was running when the processor
\* waited is the nucleus's, and its stack has been overwritten since.
Resume(p) == cpu' = IF p \in stuck THEN "wild" ELSE "user"

\* Lines 14-25: whoever has the processor goes into the ready queue.
Dispatch ==
  /\ \E p \in Now("ready") :
       /\ where' = [q \in Proc |-> IF q = p THEN "running" ELSE IF Runs(q) THEN "ready" ELSE where[q]]
       /\ Resume(p)
  /\ set_timer
  /\ UNCHANGED stuck

\* Lines 27-43: whoever has the processor is forgotten.
WaitOrHalt ==
  /\ Now("ready") = {}
  /\ cpu' = IF BlockedProcesses # {} THEN "idle" ELSE "halt"
  /\ stuck' = stuck \cup Now("running")
  /\ UNCHANGED where

schedule == Dispatch \/ (WaitOrHalt /\ UNCHANGED <<timer, timer_cause>>)

\* The process goes on with the state in the old area.
GoOn ==
  /\ \E p \in Now("running") : Resume(p)
  /\ set_timer
  /\ UNCHANGED <<where, stuck>>

----------------------------------------------------------------------------
Init ==
  /\ lo \in 0..LO - 1
  /\ where = [p \in Proc |-> IF p = First THEN "running" ELSE "unused"]
  /\ stuck = {} /\ cpu = "user" /\ due = {}
  /\ IF pseudoclock_remainingTime <= SCHED_TIME_SLICE
     THEN timer_cause = "PSEUDOCLOCK" /\ timer = pseudoclock_remainingTime * TIME_SCALE
     ELSE timer_cause = "TIMESLICE" /\ timer = SCHED_TIME_SLICE * TIME_SCALE

\* A process makes a system call or a trap; p is what it moves, if anything.
Exception(p, place) ==
  /\ cpu = "user"
  /\ TimerEnabled => timer > 0
  /\ cpu' = "sys"
  /\ where' = [where EXCEPT ![p] = place]
  /\ UNCHANGED <<lo, timer, timer_cause>>

\* SYS6.  One called in the very microsecond of a tick counts as called before.
WaitClock(p) ==
  /\ Runs(p) /\ Exception(p, "clock")
  /\ due' = IF (lo \div TIME_SCALE) % SCHED_PSEUDO_CLOCK = 0 THEN due \cup {p} ELSE due \ {p}
  /\ UNCHANGED stuck

\* SYS5 and SYS7 that suspend the caller.
Block(p) ==
  /\ Runs(p) /\ Exception(p, "blocked")
  /\ UNCHANGED <<stuck, due>>

\* SYS2.
Create(p) ==
  /\ where[p] = "unused" /\ Exception(p, "ready")
  /\ stuck' = stuck \ {p}
  /\ UNCHANGED due

\* SYS4 that wakes somebody.
Wake(p) ==
  /\ where[p] = "blocked" /\ Exception(p, "ready")
  /\ UNCHANGED <<stuck, due>>

\* SYS3, and a trap without a handler: p, the caller or another, ends.
Terminate(p) ==
  /\ where[p] # "unused" /\ Exception(p, "unused")
  /\ UNCHANGED <<stuck, due>>

\* Every other system call, and every trap that is passed up.
Answer(p) ==
  /\ Runs(p) /\ Exception(p, "running")
  /\ UNCHANGED <<stuck, due>>

\* handler.c:117-135 and 172-175.
SysEnd ==
  /\ cpu = "sys"
  /\ IF Now("running") # {} THEN GoOn ELSE schedule
  /\ UNCHANGED <<lo, due>>

----------------------------------------------------------------------------
(* interrupt_handler *)

\* Lines 48-64.
TimerBranch ==
  /\ cpu \in {"user", "idle"} /\ timer = 0
  /\ cpu' = "tick"
  /\ where' = IF timer_cause = "TIMESLICE" THEN where
              ELSE [p \in Proc |-> IF where[p] = "clock" THEN "ready" ELSE where[p]]
  /\ UNCHANGED <<lo, timer, timer_cause, stuck, due>>

TimerInterrupt == TimerEnabled /\ TimerBranch

\* Line 48 asks whether the timer's interrupt is pending, not whether it is masked:
\* a device that interrupts a process with the timer masked brings it too.
DeviceBringsTimer == ~TimerEnabled /\ Now("blocked") # {} /\ TimerBranch

\* Variants: the timer is not set for the processor's wait (65-67); the process
\* goes on where it was interrupted.
TimerEndNotSet ==
  /\ cpu = "tick"
  /\ schedule
  /\ UNCHANGED <<lo, due>>

TimerEndGoesOn ==
  /\ cpu = "tick"
  /\ IF Now("running") # {} THEN GoOn
     ELSE IF Now("ready") = {} /\ BlockedProcesses # {}
     THEN WaitOrHalt /\ set_timer
     ELSE schedule
  /\ UNCHANGED <<lo, due>>

\* Lines 65-69.
TimerEnd ==
  /\ cpu = "tick"
  /\ IF Now("ready") = {} /\ BlockedProcesses # {}
     THEN WaitOrHalt /\ set_timer
     ELSE schedule
  /\ UNCHANGED <<lo, due>>

\* Lines 71-147; a pending timer comes first (line 48).
DeviceInterrupt(p) ==
  /\ cpu \in {"user", "idle"}
  /\ timer > 0
  /\ where[p] = "blocked"
  /\ where' = [where EXCEPT ![p] = "ready"]
  /\ cpu' = "device"
  /\ UNCHANGED <<lo, timer, timer_cause, stuck, due>>

\* Lines 149-157.
DeviceEnd ==
  /\ cpu = "device"
  /\ IF Now("running") # {} THEN GoOn ELSE schedule
  /\ UNCHANGED <<lo, due>>

Next ==
  \/ Elapse
  \/ \E p \in Proc : \/ WaitClock(p) \/ Block(p) \/ Create(p) \/ Wake(p)
                     \/ Terminate(p) \/ Answer(p) \/ DeviceInterrupt(p)
  \/ SysEnd
  \/ TimerInterrupt
  \/ DeviceBringsTimer
  \/ TimerEnd
  \/ DeviceEnd

Spec == Init /\ [][Next]_vars

\* Time passes, handlers end, and the processor takes an enabled interrupt.
FairSpec == /\ Spec
            /\ WF_vars(Elapse) /\ WF_vars(SysEnd) /\ WF_vars(TimerInterrupt)
            /\ WF_vars(TimerEnd) /\ WF_vars(DeviceEnd)

----------------------------------------------------------------------------
\* Every variable keeps its type; the timer is set to a slice at most, which is
\* why pseudoclock_remainingTime <= SCHED_TIME_SLICE is tested.
ClockTypeOK ==
  /\ lo \in 0..LO - 1
  /\ timer \in 0..SCHED_TIME_SLICE * TIME_SCALE
  /\ timer_cause \in {"TIMESLICE", "PSEUDOCLOCK"}
  /\ where \in [Proc -> Place] /\ stuck \subseteq Proc
  /\ cpu \in CpuState /\ due \subseteq Proc

\* A slice ends before the next tick, so that the timer can be set for it; the
\* interrupt of a tick comes in the microsecond of the tick (scheduler.c:102-110).
\* This holds at every moment, however long handlers take.
TimerGuardsTick ==
  IF timer_cause = "TIMESLICE" THEN timer < UntilTick(lo)
  ELSE \/ timer - UntilTick(lo) \in 0..TIME_SCALE - 1
       \/ timer = 0
       \/ (lo % Period) + timer < TIME_SCALE

\* handler.c:502-504: who calls SYS6 sleeps until the next tick; nobody is woken
\* by the one before.  A process that runs with the timer masked is not safe: a
\* tick it has not seen is still pending when it calls.
NoEarlyTick ==
  [][TimerBranch /\ timer_cause = "PSEUDOCLOCK" => Now("clock") \subseteq due \cup TimerMasked]_vars

\* The tick passes with the timer's interrupt off.
TickPassesUnseen == Elapse /\ UntilTick(lo) = 1 /\ ~TimerEnabled

\* handler.c:505-507: who waits for the clock is woken, if ticks do not for ever
\* fall into handlers: the tick that falls into one is lost when the handler
\* sets the timer anew, and everybody sleeps on.
SleepersWake ==
  (<>[][~TickPassesUnseen]_vars /\ [](cpu # "wild"))
     => \A p \in Proc : where[p] = "clock" ~> where[p] # "clock"

\* The timer ends the slice of a process that computes while others are ready
\* (scheduler.c:5-6).  Only a process whose slice is begun anew, by its own calls
\* and traps or by devices, can keep the processor (handler.c:125, 174,
\* interrupts.c:151).
KeepsProcessorByCalls ==
  \A p \in Proc \ TimerMasked :
    <>[](Runs(p) /\ Now("ready") # {} /\ cpu # "wild") => []<>(cpu \in {"sys", "device"})
=============================================================================
