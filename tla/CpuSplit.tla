------------------------------ MODULE CpuSplit ------------------------------
(***************************************************************************)
(* How the time of a process is split into user_time and kernel_time.      *)
(* CpuTimes' sums are right whatever a trap does; of the two parts this is *)
(* true only of processes that have not trapped.                           *)
(***************************************************************************)
EXTENDS CpuTimes

VARIABLES
  inuser,    \* history: time on the processor outside of handlers
  trapped    \* history: the processes that have had a program or TLB trap

SplitInit == Init /\ inuser = [p \in Proc |-> 0] /\ trapped = {}

Pass ==
  /\ Elapse
  /\ inuser' = [p \in Proc |-> IF cpu = "user" /\ Runs(p) THEN inuser[p] + 1 ELSE inuser[p]]
  /\ UNCHANGED trapped

Begin(p) ==
  /\ Create(p)
  /\ inuser' = [inuser EXCEPT ![p] = 0]
  /\ trapped' = trapped \ {p}

Trapped == Trap /\ trapped' = trapped \cup {running_process} /\ UNCHANGED inuser

SplitNext ==
  \/ Pass
  \/ Trapped
  \/ \E p \in Proc :
       \/ Begin(p)
       \/ (Suspend(p) \/ Wake(p) \/ Terminate(p) \/ Answer(p) \/ DeviceInterrupt(p))
          /\ UNCHANGED <<inuser, trapped>>
  \/ (TimerInterrupt \/ SysEnd \/ TrapEnd \/ TrapKills \/ TimerEnd \/ DeviceEnd)
     /\ UNCHANGED <<inuser, trapped>>

SplitSpec == SplitInit /\ [][SplitNext]_<<vars, inuser, trapped>>

----------------------------------------------------------------------------
\* handler.c:271-273: user_time is what a process has had of the processor outside
\* of handlers, and so, by ChargedExactly, kernel_time is the rest and the time of
\* its devices; whoever else's calls, ticks and device interrupts came in between.
\* Of a process that has trapped this is not true (UserTimeIsUsed).
UserTimeExact ==
  \A p \in Live \ (stuck \cup trapped) :
    torn[p] = 0 =>
      user_time[p] = inuser[p] - IF cpu = "user" /\ Runs(p) THEN now - last_scheduled[p] ELSE 0
=============================================================================
