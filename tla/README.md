# RIKAYA in TLA+

RIKAYA is a nucleus for the uMPS2 machine emulator: some 1600 lines of C that
give processes a tree, a priority scheduler with aging, semaphores, blocking
device I/O and a pseudo-clock. This directory holds TLA+ models of it, the TLC
configurations that check them, and proofs checked by TLAPS. Paths below are
relative to the repository (`src/handler.c` is `src/src/handler.c` in
`PROJECT.json`).

One processor runs everything. A process runs with interrupts on; the nucleus
runs with interrupts off, on a stack that starts afresh at each exception. So
in most modules one exception is one atomic step, from the ROM's jump into a handler to the
`LDST`, `WAIT`, `HALT` or `PANIC` that ends it, and what interleaves is: system
calls and traps of the running process, the expiry of the local timer, and the
completion of device commands, delivered when the running process has that
interrupt enabled or the processor waits. Where the time a handler takes matters
(`Clock`, `CpuTimes`) an exception is two steps, into the handler and out of it, with
time passing in between.

## 1. Inventory

| Component | State | Operations | Interacts with | What is hard about it |
|---|---|---|---|---|
| List macros, `header/listx.h` | `next`/`prev` fields inside other structs | `INIT_LIST_HEAD`, `list_add`, `list_add_tail`, `list_del`, `list_empty`, `list_for_each` | everything | they follow whatever pointers they find; removal while iterating |
| PCB queues, `src/pcb.c` | ring of `p_next` with a sentinel | `insertProcQ`, `removeProcQ`, `outProcQ`, `headProcQ` | ready queue, semaphores | the look one element ahead at line 126 reads past the sentinel |
| PCB allocation, `src/pcb.c` | `pcbfree_h` | `initPcbs`, `allocPcb`, `freePcb` | SYS2, SYS3 | tree links are not reset; pids are addresses, so they are reused |
| Process tree, `src/pcb.c` | `p_parent`, `p_child`, `p_sib` | `insertChild`, `outChild`, `emptyChild`; walks in `handler.c` | SYS2, SYS3, SYS10 | one field is both a list head and a link; adoption changes the ring it walks; cycles |
| Active semaphore list, `src/asl.c` | descriptor table, rings at `semd_h` and `semdFree_h` | `insertBlocked`, `removeBlocked`, `outBlocked`, `headBlocked` | P, V, SYS3 | rings without sentinel; running out of descriptors |
| System calls, `src/handler.c` | the semaphores themselves, counters | SYS1 to SYS10 | all of the above | a killed waiter; a second command to a busy device; stale pids |
| Scheduler, `src/scheduler.c` | `ready_queue`, `running_process`, `ready_processes`, `blocked_processes`, `timer_cause` | `schedule`, `insertProcqReady`, `set_timer` | called at the end of every handler | four cases of running/ready/blocked, not all thought of |
| Interrupts, `src/interrupts.c` | device registers, pending lines | slice and aging, tick, device | V, `schedule` | an interrupt in `WAIT`; an interrupt with no waiter |
| Timer, `src/scheduler.c` | the local timer, `timer_cause`, the time of day | `set_timer` | end of every handler | each call of a process sets it anew; it is off in handlers; the low word wraps |
| Pass-up, `src/handler.c` | six area pointers per PCB | SYS9, `specifiedHandler` | traps | another status word; handlers that trap; reused PCBs; registration by halves |
| CPU times, `src/scheduler.c`, `src/globals.c` | five `cpu_t` per PCB | `update_usertime`, `update_kerneltime`, SYS1 | every handler | stale start times, a clock read in two halves |
| Boot, `src/main.c`, `src/globals.c` | - | `main`, `init_Kernel_Vars`, `init_first_process` | - | the first process masks the timer (line 27 overwrites line 26) |
| Test workload, `src/p2test.c` | its semaphores, pids and flags | `test`, `p2` to `p7`, the family of `p8root` | system calls and traps only | kills of waiters, adoption seen by a child, four rounds over reused PCBs |
| Not part of the nucleus | `src/utils.c` (debugging), machine headers | | | |

What makes each component correct:

- a queue keeps everybody who was put in and serves by priority, then by arrival;
- a PCB in use is in one place (running, ready, or blocked on one semaphore), a
  free one nowhere; the counters count; a semaphore's value says how many wait;
- whoever is killed leaves all of these consistent, wherever it was;
- the ASL is one queue per semaphore and never runs out of descriptors;
- the tree's rings stay closed, nobody is freed twice, children of a dead process
  go to its tutor or the top of the tree, and SYS3 returns;
- the processor waits or halts only when it must; a tick wakes all who wait, and no
  process keeps the processor from the others without calling the nucleus;
- a process is charged its time, once; its traps go to handlers of its own, and it
  comes back behind the instruction that trapped.

## 2. Modules

```
ListX      list macros                     ProcQ  process queues
  |  \                                       |  \        \
PcbTree  \                                   |   \    ReadyQueue
  |        Asl ------(extends)-------------- |    \
Family      \---(implements) BlockedQueues --+     |
  | \--- Firstborn              |            |     |
  |                        (implements)      |     |
  \-(instance, implements)------+------------- Kernel

Clock      CpuTimes      PassUp      Workload      (each on its own)
               |
           CpuSplit
```

`Kernel` is the composition: the tree, the allocator, queues, semaphores, scheduler
and interrupts with every order of events, but no time, no registers and no memory
of the processes. The four modules of the last line each add one of these, and
reduce the queues to the set of processes in each place: whatever `Kernel` lets
happen to a process (created, suspended, woken, killed, interrupted) is an action
there too. `Workload` is a client that runs on what `Kernel` promises.

| Module | Models | Correspondence |
|---|---|---|
| `ListX` | `header/listx.h` | a kind of `struct list_head` field is a record of two functions, `next` and `prev`; the macros return the changed record |
| `ProcQ` | queues of `pcb.c` | a queue is the sequence of its PCBs; `insertProcQ` is the loop at 114-140: the first position at which an iteration breaks, or nobody linked; what line 126 reads behind the last element is the argument `beyond` |
| `ReadyQueue` | one queue in use | insertion, removal of the head or of any PCB, aging of all; `arrival` is a history variable |
| `PcbTree` | tree of `pcb.c`, walks of `handler.c` | all pointers, stale ones too; a walk along `p_parent` is the set it visits, and whether it ends is an operator of its own |
| `Family` | SYS2, SYS3, SYS8, `allocPcb`, `freePcb` | any live process may call; any PCB may be the pid; one step per round of the adoption loop; `hung` is a walk that never ends |
| `Firstborn` | `Family` and whom an exit finds as the firstborn | `eldest` is history: the firstborns that no exit has made one; it is what `Workload` knows of the `p_child` rings |
| `BlockedQueues` | what the nucleus takes the ASL to be | one queue per semaphore; `Asl` implements it, and so does `Kernel` with its own queues: one is what `asl.c` does, the other what the nucleus asks of it |
| `Asl` | `asl.c` | descriptors in two rings of `s_next`, `semd_h`, `semdFree_h` |
| `Kernel` | `handler.c`, `interrupts.c`, `scheduler.c`, `globals.c` | the C variables are the fields of `k`; operators named like C functions take and return a `k`; one action per system call, trap and interrupt; the tree is an instance of `Family`, the ASL one queue per key |
| `Clock` | `set_timer`, its callers, SYS6 | `lo` is the low word of the time of day, `timer` the local timer's register; `where` a set per place; `due` is history: who has slept through a tick |
| `CpuTimes` | `update_usertime`, `update_kerneltime`, `setHILOtime`, their callers, SYS2's reset | the five fields of a PCB; `used`, `asked` and `torn` are history: the time that really passed on the processor and at devices, and readings of the time of day torn by a wrap |
| `CpuSplit` | `CpuTimes` and how the sums are split | `inuser` and `trapped` are history: the time outside of handlers, and who has had a trap |
| `PassUp` | SYS9, `specifiedHandler`, `SYS_handler`'s and the trap handlers' ways into it | a processor state is a program, an instruction in it and a mode; `new` and `old` are the types whose pointers are set |
| `Workload` | `p2test.c` | a program is the sequence of the calls, traps and checks of its function; `s[]` is one semaphore, the loops around SYS6 are `Delay`; each check that prints an error or panics is an instruction, `failed` says that one did; a process stands for its PCB, and `parent` and `pids` may name a dead one, whose PCB the next SYS2 may take; a SYS2 with `MaxProc` processes alive is refused |
| `KernelProofs`, `SchedulerProofs`, `ProcQProofs`, `AslProofs`, `FamilyProofs`, `PassUpProofs`, `CpuTimesProofs`, `WorkloadProofs` | - | theorems, section 5 |
| `MCReadyQueue`, `MCAsl`, `MCKernel` | - | constants for TLC |

Some definitions have a variant beside them (`RemoveKeepsSem` beside `Remove`):
the same code with one slip in it. `PROJECT.json` pairs every checked property
with a variant that violates it, so that no property holds for every program.
No specification uses a variant.

`k.cpu` says what the processor does: `user`; `idle` (in `WAIT`); `clock` and
`idleclock` (in the loop of the tick, entered from a process or from `WAIT`);
`halt`; `panic`; `wild`. The last is an `LDST` of the nucleus's own context, saved
when it was interrupted in `WAIT`: the handler that ran since has overwritten that
stack, so nothing can be said of what follows. It is reached only after the
fault of `kernel_stops`.

Abstractions of `Kernel`, all on the side of more behaviours:

- whether a process has a handler for a trap is a free choice (`PassUp`, or
  `Terminate` of the caller), and the status word its handler runs with is any;
- an interrupt may be late by any number of steps, and a slice may end at any time;
- `set_timer` chooses `timer_cause` freely: the time of day is `Clock`'s;
- a command to a device that is busy is ignored by it; one to a device whose
  interrupt is pending acknowledges that interrupt (uMPS2's rule for its registers).

And on the side of fewer: the word past a sentinel is no priority (`Beyond`;
`ready_queue_sentinel` shows what happens otherwise; behind a descriptor's queue it is a
link of the ninth descriptor after it, an address or 0, or lies past the table), a process passes the pids of
PCBs and its own semaphores to the calls, and the two panics for hardware that
misbehaves (interval timer, terminal error status) do not occur.

## 3. Runs

| Run | Question | Bounds | Size |
|---|---|---|---|
| `ready_queue` | Does a queue keep order and membership? | 4 PCBs, 2 priorities, aging up to 4, 6 insertions; symmetric PCBs | 48 thousand states |
| `asl` | Do the rings implement one queue per key, with a descriptor for all? | 4 PCBs of one priority, 4 descriptors, 4 keys; symmetric PCBs and keys | 4 thousand |
| `family` | Do tree and free list stay sound; whom does an exit find as the firstborn, and whom does it hand over; does adoption end? | 4 PCBs, 4 creations | 110 thousand |
| `kernel_sched` | Placement, counters, waiters, order, and by how many slices a ready process is passed over, and does the processor wait only when it must, with a semaphore, slices, aging, the clock and kills; are the queues `BlockedQueues`'? | 3 PCBs, 2 creations, 2 priorities, aging up to 6, 1 semaphore up to 1 | 460 thousand |
| `kernel_io` | With device interrupts: does who calls SYS6 or SYS7 always wait; when is a waiter left with an idle device; does the tick end; is the tree `Family`'s? | 3 PCBs, 2 creations, 2 devices | 304 thousand |
| `clock` | Does the timer guard the tick; who is woken, and when; can a process keep the processor? | 3 PCBs, one with the timer masked; slice 2, tick 5, a low word of 11 values | 178 thousand |
| `cpu_times` | What are processes charged, and as user or as kernel time? | 2 PCBs, 6 units of time, a low word of 3 values, one torn reading per life | 2.8 million |
| `pass_up` | Whose handler runs, and where does the process come back? | 2 PCBs, 2 types of traps, programs of 2 instructions | 1.1 million |
| `workload` | Does the phase 2 test pass in every order, does it come to its end, and what does it leave? | 20 PCBs, one round of `p8root`, last steps of processes taken at once | 373 thousand |

Why the bounds are enough for what is asked.

- Queue insertion distinguishes an empty queue, lower, equal and higher neighbours,
  and a last element: four PCBs with two initial priorities and aging give all of
  these with a PCB on both sides.
- Three active descriptors are a head, a middle and a last one; four PCBs on four
  keys use up the free list, and on fewer keys share queues.
- Four PCBs and four creations give a parent of three children, a grandchild, and a
  PCB used again, which is enough for the cycle of `family_hangs`.
- In `Kernel` three processes are a killer, a victim and a bystander; two creations
  after the first process also reuse a PCB. A slice bound of 6 lies above every
  priority `ServedSoon` allows, so the bound of that property is reached and not cut.
- `Clock` keeps the relations of the real numbers and not the numbers: the slice is
  shorter than the tick, the tick does not divide the low word, and the low word
  wraps early in a period, as 2^32 modulo 100000 = 67296 has it (`WrapAssumption`).
  A slice then ends before, at and after the point where the tick is nearer.
- In `cpu_times` six units of time with a wrap every three hold two wraps, and a
  slice, a handler and a wait between them; the proof has no bound (section 5).
- In `pass_up` two instructions are one that traps and one behind it, in the code
  and in each handler; two types let one handler trap into the other. TLB traps are
  a third type that behaves as PGMTRAP does.
- `workload`: `p8root` is created four times by the code; one round goes through
  every program. `Apart` takes the last steps of processes at once: `p1` begins the
  round when `p2` to `p7` have ended, and who has left the mutex of the round ends
  before others go on. In between, the eight processes of the round interleave freely: who
  is created when, whose PCB is taken again, who is adopted before whom, and
  who gets the mutex after whom. The theorems have neither bound: they hold for any number
  of rounds and for `Apart = FALSE`. With one
  round there are 16 processes, and 20 PCBs are never used up (`PcbsSuffice`);
  with the code's four rounds, in an order where old families linger, they may be, which
  is why `NoError` and `EndsClean` have the condition `~refused`: see section 5.

Bounds are guards named in the modules (`MaxCreate`, `MaxPrio`, `MaxSem`,
`MaxArrival`, `MaxNow`, `MaxTorn`, `MaxPc`, `Rounds`, `Apart`). Deadlock is not checked where the
bounds, `HALT`, `PANIC`, the end of a program or a hang really stop the system;
`asl` and `workload` check it.

Three runs show where the code does not do what a comment in it says
(`findings` in `PROJECT.json` quotes the lines):

| Run | What TLC shows |
|---|---|
| `ready_queue_sentinel` | with 0 behind the sentinel (the semaphore `terms[3][0]` follows `ready_queue` at that offset), inserting a PCB of priority 0 behind another loses it |
| `family_hangs` | through a reused PCB the parent pointers form a cycle on which SYS3 loops with interrupts off |
| `kernel_stops` | the timer interrupts a process while no other is ready: the nucleus halts, or waits, with that process still `running_process` and in no queue |

Four more comments are stated as properties beside these, without a run of their
own; TLC refutes each when it is the invariant of the configuration named here:

- `SiblingsAdopted` (`handler.c:389-390`; module `Family`, `FamilyHangs.cfg`): the adoption
  loop walks the ring of the tutor's children, into which the firstborn has just been moved;
  a sibling of the firstborn is not in it and keeps the PCB of the process that ends,
  then freed, as its parent. This is the cause of `family_hangs`;
- `EmptyHasNoChildren` (`pcb.c:190-192`; module `Family`, `FamilyHangs.cfg`): the exit of a
  firstborn overwrites the next sibling's `p_child`; that sibling's child is its child by
  `p_parent`, and `emptyChild` says it has none;
- `WaiterHasCommand` (`handler.c:519-520`; module `MCKernel`, `KernelIO.cfg`): of two SYS7 on
  one device the second command is ignored by the busy device; when the first is done
  the second caller waits on with the device idle;
- `UserTimeIsUsed` (`handler.c:271-273`; module `CpuSplit`, `CpuTimes.cfg`):
  `programtrap_handler` and `tlb_handler` do not set `start_kernel`: a trap takes `user_time`
  back, below zero at first, and the same amount goes to `kernel_time`.

What is left of the four promises is checked: the firstborn whose rings no exit has
touched is found and adopted, and the loop moves nobody else's children
(`EldestAdopted`); a waiter is left with an idle device in this one way only
(`LostOnlyBehindAnother`); `user_time` is right for who has not trapped
(`UserTimeExact`).

The models show more of this kind, which the checked properties work around and say
so where they do:

- a tick that falls into a handler is lost, for the handler sets the timer anew from
  a time of day that is past the tick: everybody on the clock sleeps on until
  the next (`SleepersWake` asks that this does not go on for ever);
- the first process runs with the timer masked (`main.c:27` overwrites line 26): a
  tick it has not seen is pending when it calls SYS6, and wakes it at once
  (`NoEarlyTick` excepts it);
- a device's waiter is charged its whole wait as kernel time, for its
  `start_kernel` is that of its SYS7 (`asked` in `ChargedExactly`);
- `handler.c:95` writes `EXC_RESERVEDINSTR` into the cause without the shift its readers
  undo; `p5mm` clears bits that are 0 in kernel mode, so that the test never
  reaches the user-mode branch of `SYS_handler`;
- a pending timer interrupt is handled though it is masked, when a device interrupts
  the process: line 48 of `interrupts.c` tests the cause and not the mask
  (`TimerTaken` in `Kernel`, `DeviceBringsTimer` in `Clock`);
- a process that makes calls for ever keeps the processor: each sets the timer anew,
  no slice ends and nobody ages (`KeepsProcessorByCalls` allows it).

The test run logged in `term0.umps` passes all the same; the workload run, and
`WorkloadProofs` without its bounds, say it does in every order, orphans, lost
children and reused PCBs included, as long as no SYS2 is refused, the nucleus keeps
what the other runs check and the remaining faults above do not strike.

### Properties

`Kernel`: `OnePlace` (a PCB is in exactly one place), `CountersCount`,
`SemCountsWaiters` (value and queue length agree for every semaphore, also after a
waiter was killed), `QueuesSorted`, `KernelSemsBlock` (clock and device semaphores
are never positive, so SYS6 and SYS7 always block), `WaitsOnlyIfItMust` (action
property: the processor comes to wait or halt only with everybody blocked, but for the
process the timer interrupts in `kernel_stops`, and waits just when somebody is
blocked), `ServedSoon`
(the highest priority a waiting process can age to before it is served, which
bounds the slices it is passed over), `TickWakesAll` (action property), `TickEnds`
(liveness), `LostOnlyBehindAnother` (action property), `FamilySpec` and `QueuesSpec`
(refinement).
`Family`: `NoDoubleFree`, `FreeHasNoParent`, `SibRings`, `AdoptionEnds`
(`ChildLinked`, that no followed `p_child` is NULL, and `ChildrenAreMine`, that who is
reached as a child is one, are theorems only); `Firstborn`: `EldestAdopted`. `Asl`: `ActiveHasWaiters`, `RingsClosed`,
`NeverFails`, `BlockedIsQueued`, `ImplementsQueues`. `ReadyQueue`: `ServiceOrder`,
`NothingLost`.
`Clock`: `TimerGuardsTick` (no slice reaches past a tick; the tick's interrupt comes
in its microsecond), `NoEarlyTick`, `SleepersWake` and `KeepsProcessorByCalls`
(liveness: a process that keeps others waiting for ever makes calls or is
interrupted by devices for ever). `CpuTimes`: `ChargedExactly` (and `WithinWallclock` as
a theorem); `CpuSplit`: `UserTimeExact`.
`PassUp`: `OwnHandlersOnly`, `PassedUpOnce`, `RegisteredOnce`. `Workload`: `NoError`,
`EndsClean`, `Finishes` (liveness).

## 4. Fairness

In `Kernel` and `Firstborn` only loops inside the nucleus get it: weak fairness of
`AdoptNext` and `TerminateEnd` (the adoption loop) and of `ClockWake` and `ClockEnd`
(the loop of the tick). The nucleus runs with interrupts off, so the processor does
execute the next instruction of the loop it is in. Nothing is assumed of processes,
devices or the timer. `AdoptionEnds` is stated for behaviours in which the parent
pointers never form a cycle, since `family_hangs` shows that they may.

In `Clock` it is weak fairness of time (`Elapse`), of the ends of handlers (`SysEnd`,
`TimerEnd`, `DeviceEnd`: they have no loops that wait) and of `TimerInterrupt` (the
processor takes an interrupt that is pending and enabled). Processes and devices
are under no obligation.

In `Workload` the tick is weakly fair (the interval the clock keeps), and if time and
again somebody can get to another instruction (`CanGoOn`), time and again somebody
does: strong fairness of the steps that change `pc`, with their ENABLED spelled out.
Strong, because a process in the loop of `Delay` or `AwaitAdoption` is ready only
between a tick and its next SYS6; `Delay` is left when one sleep took half an
interval, which a fresh call of SYS6 right after a tick does. It asks for some
process and not for each, and so rests on no more than that the processor does not
go round these two loops for ever while there is something else to do: the programs
are finite but for them, and slices bring the others to the processor (`ServedSoon`
bounds those a process is passed over).

## 5. Proofs

Each theorem holds for every value of the constants that satisfies the named
assumptions of the module; TLC evaluates those in the runs.

- `KernelProofs`: `EachInOnePlace`, `CountersAreRight`, `NoWakeUpLost`, `HeadsAreNext`,
  `KernelSemaphoresBlock`, `WaitsWithReason`, `ATickWakesAll`, `KernelType` and
  `NucleusKeepsFamily`: all of `Kernel`'s safety properties but `ServedSoon`, and its
  refinement of `Family`, for any number of PCBs, devices, semaphores and priorities.
  They assume at least one PCB (`FamilyAssumption`), that semaphores differ from each
  other and from NULL (`KeyAssumption`), that the word behind a sentinel is below every
  priority (`PrioAssumption`: without it `ready_queue_sentinel` strikes), that status
  words enable only the two lines modelled (`MaskAssumption`), and that the processes'
  semaphores start at zero or more (`SemAssumption`).
  None of the properties is inductive alone: a queue loses nobody only if its PCBs
  are in no other, a V finds the waiter it counts on only if value and queue agree, and
  a kill undoes the right P only if `p_semkey` names the queue the victim is in. Nor
  do they hold inside a handler, where a PCB is in no queue for a while. So the argument
  runs in three layers about the nucleus data and a set of PCBs that ought to be in
  queues. `Placed`: each is in the queue its `p_semkey` names, once, in order of
  priority. `Sound`: and the counters and the semaphores agree with that. `Good`: that
  holds of all PCBs in use but the running one. There is one lemma per operator of
  `Kernel` and layer (`VerhogenSound`, `ScheduleGood`, ...), resting on what `ProcQProofs`
  says of one queue (`RowInsert`, `RowRemove`, `RowOut`). `IInv` joins `Good`, `Waits` (the
  processor waits with reason), that the adoption loop runs only within a call of a
  process, and `FamilyProofs`' invariant, which says that SYS3's victim is in use and
  SYS2's PCB is not. It does not mention the faults of section 3: it holds after them.
- `KernelProofs`, second part: `NobodyStarves`, the bound of `ServedSoon`, from the same assumptions
  and for more than one PCB (one alone is not passed over). The bound on priorities is not
  inductive: the last slice a process waits could raise it past it. `Ranked` adds its
  position i in the queue: a process has at most an original priority m, or its
  priority plus i is at most m + MaxProc - 1. Who is above all original priorities is
  never overtaken, so the slice that raises it also brings it one place on; a
  process that is overtaken is below the original priority of who comes in. `Ranked` rests
  on `IInv` for the order of the queue, and for its length while somebody
  runs.
- `KernelProofs`, last part: `NucleusKeepsQueues`, under the assumptions of the first. Whatever
  an action of `Kernel` does, to the queues of the semaphores it is one step of
  `BlockedQueues` (`QueueStep`), or none. With `ImplementsBlockedQueues` below this closes the
  gap between the two models of the ASL: the nucleus inserts a PCB only when no queue
  holds it, which `insertBlocked` does not check, and leaves the priority of a PCB
  alone while it waits, without which the queue would lose its order. Beside
  `IInv` it needs `Unkeyed`: a PCB that is not in use has no `p_semkey`, so a killed
  waiter has left its queue when SYS2 takes its PCB again. `Asl` gives a PCB its
  priority when it inserts it, for it does not look at it before.
- `SchedulerProofs`, first part: `QueueLosesNobody`, `QueueServesInOrder` and `QueueType`. The first
  two assume `SentinelSafe`: no priority that can be reached is found past the sentinel.
  `NothingLost` and `ServiceOrder` are not inductive alone. `QueueInv` adds that who waits
  arrived before the clock's value (so a new PCB is behind its equals) and that
  aging keeps priorities off the word past the sentinel. `ProcQProofs` has the facts
  about `insertProcQ` this rests on: it breaks somewhere, at the right place, and
  the result holds the old elements and the new one.
- `SchedulerProofs`, second part: `TimerNeverMissesItsTick` and `WokenByTheNextTick` (and `ClockType`), for any
  processes, any slice shorter than the period, any TIME_SCALE (`TimeAssumption`), and
  any length of the low word that wraps neither within TIME_SCALE nor within a slice of
  a tick (`WrapAssumption`: 2^32 modulo the period of 100000 microseconds is 67296, a slice
  is 4000). `ClockInv` is the type
  invariant, `TimerGuardsTick`, `OneRunning` and `TickAhead`: a timer that stands for a tick
  already past finds only waiters that have slept through one, or that run with the
  timer masked. `NoEarlyTick` needs it because the interrupt may be taken long after
  the tick, and who calls meanwhile must have had the timer set anew. The arithmetic is in lemmas
  about time: when the tick comes, from quotient and remainder (`UntilFacts`), and that what
  `set_timer` computes in microseconds meets it within TIME_SCALE.
- `AslProofs`: `AslType`, `DescriptorsInOneRing`, `RingsStayClosed`, `AlwaysAFreeDescriptor`,
  `BlockedAreFound` and `ImplementsBlockedQueues`, for any numbers of PCBs and semaphores
  and any number of descriptors not below that of the PCBs (`AslAssumption`, which
  `initASL`'s loop up to MAXPROC fulfils), if the word behind a sentinel is no
  priority (`PrioAssumption`). `IInv` says that the used descriptors, those with a waiter,
  and the unused ones form a ring each, entered at `semd_h` and `semdFree_h` (`TwoRings`), and
  that each key with waiters has one used descriptor, whose queue holds just them
  (`OneQueuePerKey`). The properties are not inductive without it: `RingsClosed` speaks of
  what the loops reach, and to know what they reach after a `list_add` or `list_del` one
  must know that nothing else hangs in the ring; and a V that empties the wrong queue
  would break a ring only later. `Ring` therefore says that a set of descriptors is linked in both
  directions and has no smaller part closed under `next`; there is a lemma for each macro
  (`RingInit`, `RingAdd`, `RingDel`) and for what leaves a ring alone (`RingElsewhere`).
  That a descriptor is free for whoever blocks follows from counting (`RoomLeft`): used
  descriptors have distinct waiters, and the caller is none of them.
  The refinement maps the table to one queue per key, that of the descriptor `getSemd`
  finds; `EnqueueQueue` and `DequeueQueue` say what an operation does to it.
- `FamilyProofs`: `FamilyType`, `NeverFreedTwice`, `FreeIsOrphan`,
  `SiblingsStayLinked`, `ChildListsStayLinked`, `ReachesOwnChildren`, for any number of
  PCBs. `IInv` is the type invariant, `Linked` (the p_child pointers in use form no dangling link),
  `SibRings`, `FreeHasNoParent`, `NoDoubleFree` and `LoopInv`, what the adoption
  loop's locals hold between two rounds. `LoopInv` is needed because a round
  calls `outChild` on a PCB it remembers; `FreeHasNoParent` because it is what makes
  the `Descendant` test refuse a freed pid; `SibRings` and `Linked` because `list_del`
  follows neighbours' pointers. The argument does not need the tree to be a tree:
  it holds after the faults of section 3 too. Its first part has one lemma per
  tree operation (`OutChildSound`, `InsertChildSound`, `AdoptSound`).
- `CpuTimesProofs`: `Charges` and `CpuWithinWallclock`, for any number of processes
  and without a bound on time or torn readings. `IInv` is the type invariant,
  `OneRunning`, `CpuShape` (whom the handler charges, and where that process is),
  `Stamps` (no time stamp lies in the future, and nobody was longer on the processor
  than it lives) and `AllExact`, which states the error of the sums for every live
  process whatever the processor does. `AllExact` must speak of
  the time that is still to be charged, `PendingUse` and `PendingDevice`: the sums alone
  are wrong at every moment but the ends of handlers. `WithinWallclock` follows
  from `AllExact` and `Stamps`.
- `PassUpProofs`: `HandlersAreOwn`, `NothingTwice` and `SetOnce`, for any processes,
  types and programs. `NothingTwice` is about system calls and breakpoints, which the
  SYSBK handler gets with the program counter stepped on (`handler.c:169-170`); traps, and
  the nucleus's calls made in user mode, come back to the instruction that trapped, as in
  the code. `IInv` adds that the running process is not in the queue, that a
  dead process's areas and history are forgotten, and `LivesOn`: a live process is in,
  and has in its areas, only its code and handlers it has asked for, and the
  handlers it is in, with those their areas lead back to, all come out behind the
  last instruction that was passed up. Areas of other handlers may hold old places,
  so the invariant says that there is such a set of handlers.

- `WorkloadProofs`: `PcbsSuffice`, `TestReportsNoError`, `TestEndsClean` and the
  invariant itself, `Invariance`, for any number of rounds and of PCBs and whether or not
  `p1` waits for the others before the rounds (`RoundsAssumption`, `MaxProcAssumption`,
  `ApartAssumption`). The last two properties hold until a SYS2 is refused (`refused`), and
  `PcbsSuffice` says that none is with a PCB for each of the 8 + 8 * `Rounds` processes: one
  round for the 20 PCBs of the code. With its four rounds the condition is real. A round
  lets `p1` go on when the leaves have reported, not when they have ended, so in some
  order of the steps three families and more are alive at once, and the PCBs run out.
  `p1` then panics (`p2test.c:295-298`); the other callers do not look at the answer of
  SYS2, and whoever counts on the child waits for ever. A round that overlaps the one
  before it is also where an exit can lose `curiousleaf` (`Heirs` leaves that open): no
  check of the test notices, but it then waits for its adoption tick after tick, so
  `Finishes` is a property of the run's one round.
  The program is fixed,
  so its text is turned into facts first: who does a P or a V, creates somebody, or
  ends, and at which instruction (`PAt`, `VAt`, `CreateAt`, `EndAt`; `Places`). With them every
  step is one of seven forms (`AnyForm`: `PStep`, `VStep`, `CreateStep`, `QuietStep`,
  `EndStep`, `KillStep`, and `Still` for ticks and loops), and each part of `IInv` has a lemma
  that no form disturbs it (`ValuesKept`, `MutexKept`, ...).
  `NoError` and `EndsClean` speak of the moment of a check or of the end, so all
  of `IInv` is strengthening. A check of a semaphore needs its value: `Values` gives it
  from who is past which P and V, and `RoundValues` for the two semaphores that every
  round uses again, which is right only since rounds follow one another
  (`InOrder`). The checks of parents need `Families`: while `p8root` is in its mutex the
  pids name the processes of this round; `child1` is a tutor before it has a grandchild,
  and so adopts `curiousleaf`, if anybody does, and not the top of the tree; and the PCB
  of `intermediate` is taken again by nobody but `child2` and its leaves, none of which has
  `curiousleaf` above it (`ShortLines`), so that no walk towards the root is long and its
  SYS3 is refused. `P4Facts` says that `p4b` is a child of `p4` while it lives, that its
  PCB is its own until then, and that the message behind its P is never reached since
  `p4` kills it there first. Those behind the traps of `p1`, `p6` and `p7` are not reached
  since they have no handler (`InCode`).
  `Counted` (a semaphore below zero counts its waiters) and `WaitsFor` (each is behind its P) say
  that a V wakes somebody it should, and that a kill gives the right semaphore back.
  `EndsClean` is then an argument about a state in which nobody can go on: whoever
  lives waits for a semaphore below zero (`Stuck`); the leaves have reported
  (`LeavesReport`), so the holder of the mutex has not stopped inside (`MutexIsFreed`) and
  the families have ended; the rest follows in the order of `p1`'s program (`FirstEnds`,
  `EverybodyEnds`), and the last values from `Values` and `Mutex`. None of it speaks of the
  parents of processes but those whose parent is checked: who adopts the others, or that
  nobody does, makes no difference to the test, which is why the invariant has no tree.

Every safety property the passing runs check is a theorem but three. `EldestAdopted`
would need an invariant of the overlapping `p_child` rings, `LostOnlyBehindAnother` one that
ties the devices to their queues, and `UserTimeExact` one that tells user from kernel time in
every place of a handler. Their runs are all there is for them. Liveness (`AdoptionEnds`,
`TickEnds`, `SleepersWake`, `KeepsProcessorByCalls`, `Finishes`) is model-checked only: it rests
on fairness and ENABLED, which are out of the prover's reach.

## 6. Not modelled, and the plan

Not modelled: the values calls answer (but those of SYS1), registers and the cause,
what `p2` and `p3` print about measured times (`CheckTimes`; what SYS1 answers is
`CpuTimes`'), ROM areas at boot, the interval timer, terminal error status, what the test prints,
functions without callers (`removeChild`, `outChildBlocked`, `itoa`), and the machine's
headers, which are declarations.

Order of the work, all done: `ProcQ`, `ReadyQueue` and their proofs; `ListX`, `PcbTree`,
`Family` and theirs; `Kernel` over both with `Asl` and `BlockedQueues`; `Clock`; `CpuTimes`
and `PassUp` with proofs; `Workload`; the proofs of `Kernel`, of `Asl` with its refinement,
of `Clock`, of `Kernel`'s use of `BlockedQueues`, and of `Workload`.

`Firstborn` and `CpuSplit` came last, with the orphans and lost children of `Workload` and with
the split of the charges. What is left to TLC are the three safety properties and the
liveness properties named at the end of section 5.
