------------------------------ MODULE CpuTimes ------------------------------
(***************************************************************************)
(* What processes are charged: user_time, kernel_time and wallclock_time   *)
(* with the two time stamps they are computed from (update_usertime and    *)
(* update_kerneltime in src/src/scheduler.c, setHILOtime in globals.c, and *)
(* the handlers that call them).                                           *)
(*                                                                         *)
(* A handler is entered in one step, which charges user time, and left in  *)
(* another, which charges kernel time; time passes in between.  used and   *)
(* asked are history: what the times ought to add up to.                   *)
(*                                                                         *)
(* cpu_t is unsigned.  The fields hold the integers that the C values are  *)
(* congruent to modulo 2^64.                                               *)
(***************************************************************************)
EXTENDS Integers

CONSTANTS
  Proc,    \* PCBs
  First,   \* the process main creates
  NULL,    \* no process
  LO,      \* values of the low word of the time of day
  MaxNow,  \* bound: the time of day
  MaxTorn  \* bound: torn readings of the time of day in the life of a PCB

ASSUME CpuAssumption == First \in Proc /\ NULL \notin Proc /\ LO \in Nat \ {0} /\ MaxNow \in Nat /\ MaxTorn \in Nat

VARIABLES
  now,       \* time of day
  user_time, kernel_time, wallclock_time, last_scheduled, start_kernel,
  where,     \* where each PCB is
  cpu,       \* what the processor does
  charged,   \* whom the handler charges kernel time when it is left
  entered,   \* the handler has just been entered: it takes a tick at least
  used,      \* history: time on the processor, with the handling of the own calls
  asked,     \* history: time from SYS7 to the end of the device's interrupt
  torn,      \* history: times the low word wrapped while it was read for a PCB
  stuck      \* processes the processor waited with (see kernel_stops)

times == <<user_time, kernel_time, wallclock_time, last_scheduled, start_kernel>>
history == <<used, asked, torn>>
vars == <<now, times, where, cpu, charged, entered, history, stuck>>

\* "blocked" is on a semaphore or waiting for the clock.
Place == {"unused", "ready", "running", "device", "blocked"}
CpuState == {"user", "sys", "trap", "tick", "device", "idle", "halt", "wild"}

At(place) == {p \in Proc : where[p] = place}
Runs(p) == where[p] = "running"
running_process == IF At("running") = {} THEN NULL ELSE CHOOSE p \in Proc : Runs(p)

----------------------------------------------------------------------------
(* Time. *)

\* setHILOtime for p: it reads the high word before the low one, which may wrap
\* in between.
TimeRead(p) ==
  {now} \cup (IF p \in Proc /\ now > 0 /\ now % LO = 0 /\ torn[p] < MaxTorn THEN {now - LO} ELSE {})

\* One reading for p, or two, for p and q.
Tears(p, t) == torn' = [x \in Proc |-> IF x = p /\ t # now THEN torn[x] + 1 ELSE torn[x]]

TearsBoth(p, t, q, l) ==
  torn' = [x \in Proc |-> torn[x] + (IF x = p /\ t # now THEN 1 ELSE 0)
                                 + (IF x = q /\ l # now THEN 1 ELSE 0)]

\* Whose time passes: the running process's, except in a device's interrupt.
OnProcessor == IF cpu = "device" THEN {} ELSE IF cpu \in {"sys", "trap"} THEN {charged} ELSE At("running")

\* Who waits for a command: from the call until the interrupt has been handled.
AskedDevice == At("device") \cup (IF cpu = "device" THEN {charged} ELSE {})

Elapse ==
  /\ cpu \notin {"halt", "wild"} /\ now < MaxNow
  /\ now' = now + 1 /\ entered' = FALSE
  /\ used' = [p \in Proc |-> IF p \in OnProcessor THEN used[p] + 1 ELSE used[p]]
  /\ asked' = [p \in Proc |-> IF p \in AskedDevice THEN asked[p] + 1 ELSE asked[p]]
  /\ UNCHANGED <<times, where, cpu, charged, torn, stuck>>

----------------------------------------------------------------------------
(* Into a handler. *)

\* Variant: without update_usertime.
StartKernelOnly(p) ==
  \E t \in TimeRead(p) :
    /\ start_kernel' = [start_kernel EXCEPT ![p] = t]
    /\ UNCHANGED user_time
    /\ Tears(p, t)

\* handler.c:31-34, interrupts.c:39-42.
StartKernel(p) ==
  \E t \in TimeRead(p) :
    /\ start_kernel' = [start_kernel EXCEPT ![p] = t]
    /\ user_time' = [user_time EXCEPT ![p] = @ + (t - last_scheduled[p])]
    /\ Tears(p, t)

\* The caller makes a system call that moves p, if anybody, to a place.
Syscall(p, place) ==
  /\ cpu = "user" /\ cpu' = "sys" /\ entered' = TRUE
  /\ charged' = running_process
  /\ StartKernel(running_process)
  /\ where' = [where EXCEPT ![p] = place]
  /\ UNCHANGED <<now, kernel_time, wallclock_time, last_scheduled, used, asked, stuck>>

Suspend(p) == Runs(p) /\ \E place \in {"device", "blocked"} : Syscall(p, place)
Wake(p) == where[p] = "blocked" /\ Syscall(p, "ready")
Terminate(p) == where[p] # "unused" /\ Syscall(p, "unused")
Answer(p) == Runs(p) /\ Syscall(p, "running")

\* SYS2 (handler.c:331-333, pcb.c:55-56).
Create(p) ==
  /\ where[p] = "unused" /\ cpu = "user" /\ cpu' = "sys" /\ entered' = TRUE
  /\ charged' = running_process
  /\ where' = [where EXCEPT ![p] = "ready"]
  /\ \E t \in TimeRead(running_process), c \in TimeRead(p) :
       /\ start_kernel' = [start_kernel EXCEPT ![running_process] = t, ![p] = 0]
       /\ user_time' = [user_time EXCEPT ![running_process] = @ + (t - last_scheduled[running_process]),
                                         ![p] = 0]
       /\ wallclock_time' = [wallclock_time EXCEPT ![p] = c]
       /\ torn' = [x \in Proc |-> IF x = p THEN (IF c = now THEN 0 ELSE 1)
                                 ELSE IF x = running_process /\ t # now THEN torn[x] + 1 ELSE torn[x]]
  /\ kernel_time' = [kernel_time EXCEPT ![p] = 0]
  /\ last_scheduled' = [last_scheduled EXCEPT ![p] = 0]
  /\ used' = [used EXCEPT ![p] = 0] /\ asked' = [asked EXCEPT ![p] = 0]
  /\ stuck' = stuck \ {p}
  /\ UNCHANGED now

\* programtrap_handler and tlb_handler do not set start_kernel: user_time goes
\* back to the last exception, and kernel_time will be charged from there.
Trap ==
  /\ cpu = "user" /\ cpu' = "trap" /\ entered' = TRUE
  /\ charged' = running_process
  /\ user_time' = [user_time EXCEPT ![running_process] =
                     @ + (start_kernel[running_process] - last_scheduled[running_process])]
  /\ UNCHANGED <<now, kernel_time, wallclock_time, last_scheduled, start_kernel, where, history, stuck>>

\* Lines 36-42, before it is known what the interrupt is.
InterruptStart ==
  /\ cpu \in {"user", "idle"} /\ entered' = TRUE
  /\ IF running_process # NULL THEN StartKernel(running_process)
     ELSE UNCHANGED <<start_kernel, user_time, torn>>
  /\ UNCHANGED <<now, kernel_time, wallclock_time, last_scheduled, used, asked, stuck>>

TimerInterrupt ==
  /\ InterruptStart
  /\ cpu' = "tick"
  /\ charged' = running_process
  /\ \E tick \in BOOLEAN :
       where' = IF tick THEN [p \in Proc |-> IF where[p] = "blocked" THEN "ready" ELSE where[p]]
                ELSE where

DeviceInterrupt(p) ==
  /\ InterruptStart
  /\ where[p] = "device"
  /\ cpu' = "device"
  /\ charged' = p
  /\ where' = [where EXCEPT ![p] = "ready"]

----------------------------------------------------------------------------
(* Out of a handler. *)

\* Line 62, for the process the handler charges.
KernelCharge(t) ==
  kernel_time' = IF charged = NULL THEN kernel_time
                 ELSE [kernel_time EXCEPT ![charged] = @ + (t - start_kernel[charged])]

\* Variant: without it.
SetLastScheduledNot(p, l) == UNCHANGED last_scheduled

\* scheduler.c:24, handler.c:126 and 173, interrupts.c:152.
SetLastScheduled(p, l) ==
  last_scheduled' = IF p = NULL THEN last_scheduled ELSE [last_scheduled EXCEPT ![p] = l]

\* The charge is read as t, and p, if anybody, goes on at a time read as l.
Leave(p, t, l) ==
  /\ ~entered /\ UNCHANGED entered
  /\ KernelCharge(t)
  /\ SetLastScheduled(p, l)
  /\ TearsBoth(charged, t, p, l)
  /\ charged' = NULL
  /\ UNCHANGED <<now, user_time, wallclock_time, start_kernel, used, asked>>

\* LDST of p's state: see Clock.
Resume(p) == cpu' = IF p \in stuck THEN "wild" ELSE "user"

\* Lines 14-25 of scheduler.c.
Dispatch(t) ==
  \E p \in At("ready") : \E l \in TimeRead(p) :
    /\ where' = [q \in Proc |-> IF q = p THEN "running" ELSE IF Runs(q) THEN "ready" ELSE where[q]]
    /\ Resume(p)
    /\ Leave(p, t, l)
    /\ UNCHANGED stuck

\* Lines 27-43 of scheduler.c.
WaitOrHalt(t) ==
  /\ At("ready") = {}
  /\ cpu' = IF At("device") \cup At("blocked") # {} THEN "idle" ELSE "halt"
  /\ stuck' = stuck \cup At("running")
  /\ Leave(NULL, t, now)
  /\ UNCHANGED where

schedule(t) == Dispatch(t) \/ WaitOrHalt(t)

\* The running process goes on.
GoOn(t) ==
  \E l \in TimeRead(running_process) :
    /\ Resume(running_process)
    /\ Leave(running_process, t, l)
    /\ UNCHANGED <<where, stuck>>

\* handler.c:116-135 and 172-175; a trap may also end the process (659-661).
SysEnd ==
  /\ cpu = "sys"
  /\ \E t \in TimeRead(charged) : IF running_process # NULL THEN GoOn(t) ELSE schedule(t)

TrapEnd == cpu = "trap" /\ \E t \in TimeRead(charged) : GoOn(t)

TrapKills ==
  /\ cpu = "trap" /\ UNCHANGED entered
  /\ cpu' = "sys" /\ charged' = NULL
  /\ where' = [where EXCEPT ![charged] = "unused"]
  /\ UNCHANGED <<now, times, history, stuck>>

\* interrupts.c:68-69.
TimerEnd == cpu = "tick" /\ \E t \in TimeRead(charged) : schedule(t)

\* interrupts.c:147-157.
DeviceEnd ==
  /\ cpu = "device"
  /\ \E t \in TimeRead(charged) : IF running_process # NULL THEN GoOn(t) ELSE schedule(t)

----------------------------------------------------------------------------
Init ==
  /\ now = 0
  /\ user_time = [p \in Proc |-> 0] /\ kernel_time = [p \in Proc |-> 0]
  /\ wallclock_time = [p \in Proc |-> 0]
  /\ last_scheduled = [p \in Proc |-> 0] /\ start_kernel = [p \in Proc |-> 0]
  /\ where = [p \in Proc |-> IF p = First THEN "running" ELSE "unused"]
  /\ cpu = "user" /\ charged = NULL /\ entered = FALSE
  /\ used = [p \in Proc |-> 0] /\ asked = [p \in Proc |-> 0]
  /\ torn = [p \in Proc |-> 0] /\ stuck = {}

Next ==
  \/ Elapse
  \/ \E p \in Proc : Suspend(p) \/ Wake(p) \/ Terminate(p) \/ Answer(p) \/ Create(p) \/ DeviceInterrupt(p)
  \/ Trap \/ TimerInterrupt
  \/ SysEnd \/ TrapEnd \/ TrapKills \/ TimerEnd \/ DeviceEnd

Spec == Init /\ [][Next]_vars

----------------------------------------------------------------------------
\* Every variable keeps its type.
TypeOK ==
  /\ now \in Nat
  /\ user_time \in [Proc -> Int] /\ kernel_time \in [Proc -> Int]
  /\ wallclock_time \in [Proc -> Int]
  /\ last_scheduled \in [Proc -> Int] /\ start_kernel \in [Proc -> Int]
  /\ where \in [Proc -> Place] /\ cpu \in CpuState
  /\ charged \in Proc \cup {NULL} /\ entered \in BOOLEAN
  /\ used \in [Proc -> Nat] /\ asked \in [Proc -> Nat]
  /\ torn \in [Proc -> Nat] /\ stuck \subseteq Proc

Live == {p \in Proc : where[p] # "unused"}

\* Time on the processor that is charged when the slice or the handler ends.
PendingUse(p) ==
  CASE cpu = "user" /\ Runs(p) -> now - last_scheduled[p]
    [] cpu \in {"sys", "trap", "tick"} /\ p = charged -> now - start_kernel[p]
    [] OTHER -> 0

\* Time of a device that is charged when its interrupt has been handled.
PendingDevice(p) == IF p \in AskedDevice THEN now - start_kernel[p] ELSE 0

Error(p) ==
  user_time[p] + kernel_time[p] + PendingUse(p) + PendingDevice(p) - used[p] - asked[p]

\* handler.c:268-273: what a process is charged is its time on the processor, in
\* user mode and in the nucleus on its behalf, neither less nor twice; and, as the
\* code has it, all the time of its device operations on top.  Traps, which do
\* not set start_kernel, only move time from the one sum to the other.  A time
\* stamp read while the low word wraps costs whole multiples of 2^32 (globals.c:70).
ChargedExactly ==
  \A p \in Live \ stuck : /\ torn[p] = 0 => Error(p) = 0
                          /\ Error(p) % LO = 0

\* p2test.c:359-360: a process has no more CPU time than wall-clock time, apart from
\* what its device operations took.
WithinWallclock ==
  \A p \in Live \ stuck :
    torn[p] = 0 => user_time[p] + kernel_time[p] <= now - wallclock_time[p] + asked[p]

----------------------------------------------------------------------------
(* What comments of the code say, and the code does not do. *)

\* handler.c:268-273: SYS1 reports the time the process has used as user apart from
\* that of its calls and interrupts.  So user_time is never below zero, and never
\* above what the process has had of the processor.
UserTimeIsUsed == \A p \in Live \ stuck : torn[p] = 0 => user_time[p] \in 0..used[p]
=============================================================================
