--------------------------- MODULE CpuTimesProofs ---------------------------
(***************************************************************************)
(* Proofs about CpuTimes: a process whose time stamps were never torn is   *)
(* charged exactly its time, and every other one is off by whole multiples *)
(* of what a low word counts.                                              *)
(***************************************************************************)
EXTENDS CpuTimes, TLAPS

\* One process at most has the processor.
OneRunning == \A p, q \in Proc : Runs(p) /\ Runs(q) => p = q

\* Whom the handler charges, and who has the processor then.
CpuShape ==
  /\ cpu = "user" => \E p \in Proc : Runs(p)
  /\ cpu = "idle" => \A p \in Proc : Runs(p) => p \in stuck
  /\ cpu = "sys" => \A p \in Proc : Runs(p) => p = charged
  /\ cpu = "trap" => charged \in Proc /\ Runs(charged)
  /\ cpu = "tick" => \A p \in Proc : Runs(p) <=> p = charged
  /\ cpu = "device" => charged \in Proc /\ where[charged] = "ready"

\* Time stamps are not of the future, nor is a process older than its life.
Stamps ==
  \A p \in Proc : /\ start_kernel[p] <= now /\ last_scheduled[p] <= now
                  /\ used[p] <= now - wallclock_time[p]

IsMultiple(e) == \E m \in Int : e = LO * m

\* ChargedExactly for p, without a remainder.
Exact(p) == (torn[p] = 0 => Error(p) = 0) /\ IsMultiple(Error(p))
AllExact == \A p \in Proc : where[p] # "unused" /\ p \notin stuck => Exact(p)

IInv == TypeOK /\ OneRunning /\ CpuShape /\ Stamps /\ AllExact

----------------------------------------------------------------------------
(* Arithmetic. *)

\* What is pending before a charge of cc is dd + vv; what is after it uu + vv.
LEMMA ChargeMoves ==
  ASSUME NEW ut \in Int, NEW kt \in Int, NEW pu \in Int, NEW pd \in Int,
         NEW us \in Int, NEW as \in Int, NEW cc \in Int, NEW dd \in Int,
         NEW vv \in Int, NEW uu \in Int, pu + pd = dd + vv
  PROVE  ut + (kt + cc) + uu + vv - us - as = (ut + kt + pu + pd - us - as) + (cc - dd) + uu
  OBVIOUS

LEMMA MultipleHasNoRest ==
  ASSUME NEW e \in Int, IsMultiple(e)
  PROVE  e % LO = 0
<1>1. LO \in Nat \ {0}
  BY CpuAssumption
<1>2. PICK m \in Int : e = LO * m
  BY DEF IsMultiple
<1>3. ASSUME NEW n \in Nat \ {0} PROVE \A q \in Int : (n * q) % n = 0
  BY <1>3, SMT
<1> QED
  BY <1>1, <1>2, <1>3

LEMMA NextMultiple ==
  ASSUME NEW e \in Int, IsMultiple(e)
  PROVE  IsMultiple(e + LO) /\ IsMultiple(e - LO)
<1>1. LO \in Nat
  BY CpuAssumption
<1>2. PICK m \in Int : e = LO * m
  BY DEF IsMultiple
<1>3. ASSUME NEW n \in Nat, NEW k \in Int PROVE n * k + n = n * (k + 1) /\ n * k - n = n * (k - 1)
  BY <1>3, SMT
<1>4. /\ e + LO = LO * (m + 1) /\ m + 1 \in Int
      /\ e - LO = LO * (m - 1) /\ m - 1 \in Int
  BY <1>1, <1>2, <1>3
<1> QED
  BY <1>4 DEF IsMultiple

LEMMA ZeroIsMultiple == IsMultiple(0)
<1>1. LO \in Nat /\ 0 \in Int
  BY CpuAssumption
<1>2. ASSUME NEW n \in Nat PROVE 0 = n * 0
  BY <1>2, SMT
<1> QED
  BY <1>1, <1>2 DEF IsMultiple

----------------------------------------------------------------------------
(* One process. *)

\* What a step does to the account of x: nothing, or a torn time stamp.
Drifts(x) ==
  /\ where[x] # "unused" /\ x \notin stuck
  /\ torn'[x] >= torn[x]
  /\ \/ Error(x)' = Error(x)
     \/ torn'[x] # 0 /\ Error(x)' \in {Error(x) + LO, Error(x) - LO}

LEMMA ErrorIsInt == ASSUME TypeOK, NEW x \in Proc PROVE Error(x) \in Int
<1>1. PendingUse(x) \in Int
  BY DEF TypeOK, PendingUse
<1>2. PendingDevice(x) \in Int
  BY DEF TypeOK, PendingDevice
<1> QED
  BY <1>1, <1>2 DEF TypeOK, Error

\* Steps that only make accounts drift, or begin them at nothing, keep them exact.
LEMMA DriftKeepsExact ==
  ASSUME TypeOK, AllExact, TypeOK',
         \A x \in Proc : where'[x] # "unused" /\ x \notin stuck' => Drifts(x) \/ Error(x)' = 0
  PROVE  AllExact'
<1> SUFFICES ASSUME NEW x \in Proc, where'[x] # "unused", x \notin stuck'
             PROVE  Exact(x)'
  BY DEF AllExact
<1>1. CASE Error(x)' = 0
  BY <1>1, ZeroIsMultiple DEF Exact, IsMultiple
<1>2. CASE Drifts(x)
  <2>1. Exact(x) /\ Error(x) \in Int /\ torn[x] \in Nat /\ torn'[x] \in Nat
    BY <1>2, ErrorIsInt DEF AllExact, Drifts, TypeOK
  <2>2. torn'[x] = 0 => torn[x] = 0 /\ Error(x)' = Error(x)
    BY <1>2, <2>1 DEF Drifts
  <2>3. IsMultiple(Error(x)')
    BY <1>2, <2>1, NextMultiple DEF Drifts, Exact
  <2> QED
    BY <2>1, <2>2, <2>3 DEF Exact, IsMultiple
<1> QED
  BY <1>1, <1>2

LEMMA RunningProcess ==
  ASSUME OneRunning
  PROVE  /\ \A p \in Proc : Runs(p) => running_process = p
         /\ (\A p \in Proc : ~Runs(p)) => running_process = NULL
         /\ running_process # NULL => running_process \in Proc /\ Runs(running_process)
         /\ running_process \in Proc \cup {NULL}
BY CpuAssumption DEF running_process, At, OneRunning, Runs

LEMMA ReadTime ==
  ASSUME TypeOK, NEW p, NEW t \in TimeRead(p)
  PROVE  /\ t \in Int /\ t <= now
         /\ t = now \/ (t = now - LO /\ t # now)
BY CpuAssumption DEF TimeRead, TypeOK

----------------------------------------------------------------------------
(* Out of a handler. *)

LEMMA LeaveTypes ==
  ASSUME TypeOK, NEW p \in Proc \cup {NULL},
         NEW t \in TimeRead(charged), NEW l \in TimeRead(p), Leave(p, t, l),
         where' \in [Proc -> Place], cpu' \in CpuState, stuck' \subseteq Proc
  PROVE  TypeOK'
<1>1. t \in Int /\ l \in Int
  BY ReadTime
<1>2. kernel_time' \in [Proc -> Int]
  BY <1>1 DEF TypeOK, Leave, KernelCharge
<1>3. last_scheduled' \in [Proc -> Int]
  BY <1>1 DEF TypeOK, Leave, SetLastScheduled
<1>4. torn' \in [Proc -> Nat]
  BY DEF TypeOK, Leave, TearsBoth
<1> QED
  BY <1>2, <1>3, <1>4 DEF TypeOK, Leave

LEMMA LeaveStamps ==
  ASSUME TypeOK, Stamps, NEW p \in Proc \cup {NULL},
         NEW t \in TimeRead(charged), NEW l \in TimeRead(p), Leave(p, t, l)
  PROVE  Stamps'
<1>1. l \in Int /\ l <= now
  BY ReadTime
<1>2. ASSUME NEW x \in Proc PROVE last_scheduled'[x] <= now
  BY <1>1 DEF TypeOK, Stamps, Leave, SetLastScheduled
<1> QED
  BY <1>2 DEF TypeOK, Stamps, Leave

\* The account of x when a handler is left and p, if anybody, goes on.
LEMMA LeaveDrifts ==
  ASSUME TypeOK, CpuShape, NEW p \in Proc \cup {NULL}, NEW x \in Proc,
         NEW t \in TimeRead(charged), NEW l \in TimeRead(p), Leave(p, t, l),
         cpu \in {"sys", "trap", "tick", "device"},
         cpu' \in {"user", "wild", "idle", "halt"},
         cpu' = "user" /\ where'[x] = "running" <=> x = p,
         where'[x] = "device" <=> where[x] = "device",
         where[x] # "unused", x \notin stuck
  PROVE  Drifts(x)
<1> DEFINE a == IF x = charged /\ t # now THEN 1 ELSE 0
           b == IF x = p /\ l # now THEN 1 ELSE 0
<1>1. /\ t \in Int /\ (t = now \/ (t = now - LO /\ t # now))
      /\ l \in Int /\ (l = now \/ (l = now - LO /\ l # now))
      /\ LO \in Nat \ {0}
  BY ReadTime, CpuAssumption
<1>2. torn[x] \in Nat /\ torn'[x] = torn[x] + a + b
  BY DEF TypeOK, Leave, TearsBoth
<1>3. kernel_time'[x] = kernel_time[x] + IF x = charged THEN t - start_kernel[x] ELSE 0
  <2>1. CASE x = charged
    BY <2>1, CpuAssumption DEF TypeOK, Leave, KernelCharge
  <2>2. CASE x # charged
    <3>1. kernel_time[x] \in Int /\ kernel_time'[x] = kernel_time[x]
      BY <2>2 DEF TypeOK, Leave, KernelCharge
    <3> QED
      BY <2>2, <3>1
  <2> QED
    BY <2>1, <2>2
<1>4. x = p => last_scheduled'[x] = l
  BY CpuAssumption DEF TypeOK, Leave, SetLastScheduled
<1>5. PendingUse(x) + PendingDevice(x)
        = (IF x = charged THEN now - start_kernel[x] ELSE 0)
            + (IF where[x] = "device" THEN now - start_kernel[x] ELSE 0)
  <2>1. CASE cpu = "device"
    BY <2>1 DEF PendingUse, PendingDevice, AskedDevice, At, CpuShape, TypeOK
  <2>2. CASE cpu # "device"
    BY <2>2 DEF PendingUse, PendingDevice, AskedDevice, At, TypeOK
  <2> QED
    BY <2>1, <2>2
<1>6. PendingUse(x)' = IF x = p THEN now - l ELSE 0
  BY <1>4 DEF PendingUse, Leave, Runs
<1>7. PendingDevice(x)' = IF where[x] = "device" THEN now - start_kernel[x] ELSE 0
  BY DEF PendingDevice, AskedDevice, At, Leave
<1>8. /\ user_time[x] \in Int /\ kernel_time[x] \in Int /\ used[x] \in Int /\ asked[x] \in Int
      /\ start_kernel[x] \in Int /\ now \in Int
      /\ PendingUse(x) \in Int /\ PendingDevice(x) \in Int
  BY DEF TypeOK, PendingUse, PendingDevice
<1>9. Error(x)' = Error(x) + (IF x = charged THEN t - now ELSE 0) + (IF x = p THEN now - l ELSE 0)
  <2>1. Error(x)' = user_time[x] + kernel_time'[x] + PendingUse(x)' + PendingDevice(x)' - used[x] - asked[x]
    BY DEF Error, Leave
  <2>2. Error(x) = user_time[x] + kernel_time[x] + PendingUse(x) + PendingDevice(x) - used[x] - asked[x]
    BY DEF Error
  <2> DEFINE c == IF x = charged THEN t - start_kernel[x] ELSE 0
             d == IF x = charged THEN now - start_kernel[x] ELSE 0
             v == IF where[x] = "device" THEN now - start_kernel[x] ELSE 0
             u == IF x = p THEN now - l ELSE 0
             w == IF x = charged THEN t - now ELSE 0
  <2>3. /\ c \in Int /\ d \in Int /\ v \in Int /\ u \in Int /\ w \in Int
        /\ c - d = w
    BY <1>1, <1>8
  <2>4. /\ kernel_time'[x] = kernel_time[x] + c
        /\ PendingUse(x) + PendingDevice(x) = d + v
        /\ PendingUse(x)' = u /\ PendingDevice(x)' = v
    BY <1>3, <1>5, <1>6, <1>7
  <2> HIDE DEF c, d, v, u, w
  <2>5. Error(x)' = Error(x) + w + u
    <3>2. user_time[x] + (kernel_time[x] + c) + u + v - used[x] - asked[x]
            = (user_time[x] + kernel_time[x] + PendingUse(x) + PendingDevice(x) - used[x] - asked[x]) + (c - d) + u
      BY ChargeMoves, <2>3, <2>4, <1>8
    <3> QED
      BY <3>2, <2>1, <2>2, <2>3, <2>4
  <2> QED
    BY <2>5 DEF w, u
<1>10. Error(x) \in Int
  BY ErrorIsInt
<1>11. a \in 0..1 /\ b \in 0..1
  OBVIOUS
<1>12. torn'[x] >= torn[x] /\ (a = 1 \/ b = 1 => torn'[x] # 0)
  <2> HIDE DEF a, b
  <2> QED
    BY <1>2, <1>11
<1>13. Error(x)' = Error(x) - (IF a = 1 THEN LO ELSE 0) + (IF b = 1 THEN LO ELSE 0)
  BY <1>1, <1>8, <1>9, <1>10
<1>14. Error(x)' = Error(x) \/ (torn'[x] # 0 /\ Error(x)' \in {Error(x) + LO, Error(x) - LO})
  BY <1>1, <1>10, <1>12, <1>13
<1> QED
  BY <1>12, <1>14 DEF Drifts

LEMMA GoOnStep ==
  ASSUME IInv, cpu \in {"sys", "trap", "tick", "device"}, running_process # NULL,
         NEW t \in TimeRead(charged), GoOn(t)
  PROVE  IInv'
<1> DEFINE p == running_process
<1>1. p \in Proc /\ Runs(p)
  BY RunningProcess DEF IInv
<1>2. PICK l \in TimeRead(p) : Resume(p) /\ Leave(p, t, l) /\ UNCHANGED <<where, stuck>>
  BY DEF GoOn
<1>3. cpu' \in {"user", "wild"} /\ (p \notin stuck => cpu' = "user")
  BY <1>2 DEF Resume
<1> HIDE DEF p
<1>4. TypeOK'
  BY <1>1, <1>2, <1>3, LeaveTypes DEF IInv, TypeOK, CpuState
<1>5. OneRunning'
  BY <1>2 DEF IInv, OneRunning, Runs
<1>6. CpuShape'
  BY <1>1, <1>2, <1>3 DEF CpuShape, Runs
<1>7. Stamps'
  BY <1>1, <1>2, LeaveStamps DEF IInv
<1>8. ASSUME NEW x \in Proc, where'[x] # "unused", x \notin stuck' PROVE Drifts(x)
  <2>1. cpu' = "user" /\ where'[x] = "running" <=> x = p
    BY <1>1, <1>2, <1>3, <1>8 DEF IInv, OneRunning, Runs
  <2> QED
    BY <1>1, <1>2, <1>3, <1>8, <2>1, LeaveDrifts DEF IInv
<1>9. AllExact'
  BY <1>4, <1>8, DriftKeepsExact DEF IInv
<1> QED
  BY <1>4, <1>5, <1>6, <1>7, <1>9 DEF IInv

LEMMA DispatchStep ==
  ASSUME IInv, cpu \in {"sys", "trap", "tick", "device"},
         NEW t \in TimeRead(charged), Dispatch(t)
  PROVE  IInv'
<1>0. PICK p \in At("ready") : \E l \in TimeRead(p) :
        /\ where' = [q \in Proc |-> IF q = p THEN "running" ELSE IF Runs(q) THEN "ready" ELSE where[q]]
        /\ Resume(p) /\ Leave(p, t, l) /\ UNCHANGED stuck
  BY DEF Dispatch
<1>1. PICK l \in TimeRead(p) :
        /\ where' = [q \in Proc |-> IF q = p THEN "running" ELSE IF Runs(q) THEN "ready" ELSE where[q]]
        /\ Resume(p) /\ Leave(p, t, l) /\ UNCHANGED stuck
  BY <1>0
<1>2. p \in Proc /\ where[p] = "ready"
  BY DEF At
<1>3. cpu' \in {"user", "wild"} /\ (p \notin stuck => cpu' = "user")
  BY <1>1 DEF Resume
<1>4. TypeOK'
  <2>1. where' \in [Proc -> Place]
    BY <1>1 DEF IInv, TypeOK, Place
  <2> QED
    BY <1>1, <1>2, <1>3, <2>1, LeaveTypes DEF IInv, TypeOK, CpuState
<1>5. \A x \in Proc : Runs(x)' <=> x = p
  BY <1>1, <1>2 DEF Runs
<1>6. OneRunning'
  BY <1>5 DEF OneRunning
<1>7. CpuShape'
  BY <1>2, <1>3, <1>5 DEF CpuShape
<1>8. Stamps'
  BY <1>1, <1>2, LeaveStamps DEF IInv
<1>9. ASSUME NEW x \in Proc, where'[x] # "unused", x \notin stuck' PROVE Drifts(x)
  <2>1. cpu' = "user" /\ where'[x] = "running" <=> x = p
    BY <1>1, <1>3, <1>5, <1>9 DEF Runs
  <2>2. where[x] # "unused" /\ (where'[x] = "device" <=> where[x] = "device")
    BY <1>1, <1>2, <1>9 DEF Runs
  <2> QED
    BY <1>1, <1>2, <1>3, <1>9, <2>1, <2>2, LeaveDrifts DEF IInv
<1>10. AllExact'
  BY <1>4, <1>9, DriftKeepsExact DEF IInv
<1> QED
  BY <1>4, <1>6, <1>7, <1>8, <1>10 DEF IInv

LEMMA WaitStep ==
  ASSUME IInv, cpu \in {"sys", "trap", "tick", "device"},
         NEW t \in TimeRead(charged), WaitOrHalt(t)
  PROVE  IInv'
<1>1. /\ Leave(NULL, t, now) /\ UNCHANGED where
      /\ cpu' \in {"idle", "halt"} /\ stuck' = stuck \cup At("running")
  BY DEF WaitOrHalt
<1>2. now \in TimeRead(NULL)
  BY DEF TimeRead
<1>3. TypeOK'
  BY <1>1, <1>2, LeaveTypes DEF IInv, TypeOK, CpuState, At
<1>4. OneRunning'
  BY <1>1 DEF IInv, OneRunning, Runs
<1>5. CpuShape'
  BY <1>1 DEF CpuShape, Runs, At
<1>6. Stamps'
  BY <1>1, <1>2, LeaveStamps DEF IInv
<1>7. ASSUME NEW x \in Proc, where'[x] # "unused", x \notin stuck' PROVE Drifts(x)
  <2>1. x # NULL
    BY CpuAssumption
  <2> QED
    BY <1>1, <1>2, <1>7, <2>1, LeaveDrifts DEF IInv
<1>8. AllExact'
  BY <1>3, <1>7, DriftKeepsExact DEF IInv
<1> QED
  BY <1>3, <1>4, <1>5, <1>6, <1>8 DEF IInv

----------------------------------------------------------------------------
(* Time, and into a handler. *)

LEMMA ElapseStep == ASSUME IInv, Elapse PROVE IInv'
<1>1. TypeOK'
  <2>1. used' \in [Proc -> Nat] /\ asked' \in [Proc -> Nat]
    BY DEF IInv, TypeOK, Elapse
  <2>2. now' \in Nat
    BY DEF IInv, TypeOK, Elapse
  <2>4. entered' \in BOOLEAN
    BY Zenon DEF Elapse
  <2>3. UNCHANGED <<user_time, kernel_time, wallclock_time, last_scheduled, start_kernel, where, cpu, charged, torn, stuck>>
    BY DEF Elapse, times
  <2> QED
    BY <2>1, <2>2, <2>3, <2>4 DEF IInv, TypeOK
<1>2. OneRunning' /\ CpuShape'
  BY DEF IInv, OneRunning, CpuShape, Runs, Elapse, times
<1>3. Stamps'
  BY DEF IInv, TypeOK, Stamps, Elapse, times
<1>4. ASSUME NEW x \in Proc, where'[x] # "unused", x \notin stuck' PROVE Drifts(x)
  <2> DEFINE u == IF x \in OnProcessor THEN 1 ELSE 0
             v == IF x \in AskedDevice THEN 1 ELSE 0
  <2>1. where[x] # "unused" /\ x \notin stuck
    BY <1>4 DEF Elapse
  <2>2. used'[x] = used[x] + u /\ asked'[x] = asked[x] + v
    BY DEF Elapse, times, IInv, TypeOK
  <2>3. PendingDevice(x)' = PendingDevice(x) + v /\ PendingDevice(x) \in Int
    BY DEF PendingDevice, AskedDevice, At, Elapse, times, IInv, TypeOK
  <2>4. cpu \in CpuState /\ cpu \notin {"halt", "wild"}
    BY DEF Elapse, times, IInv, TypeOK
  <2>5. u = IF \/ cpu = "user" /\ Runs(x)
               \/ cpu \in {"sys", "trap", "tick"} /\ x = charged THEN 1 ELSE 0
    <3>1. CASE cpu \in {"sys", "trap", "device"}
      BY <3>1 DEF OnProcessor
    <3>2. CASE cpu \in {"user", "idle", "tick"}
      <4>1. x \in OnProcessor <=> Runs(x)
        BY <3>2 DEF OnProcessor, At, Runs
      <4> QED
        BY <2>1, <3>2, <4>1 DEF IInv, CpuShape
    <3> QED
      BY <2>4, <3>1, <3>2 DEF CpuState
  <2>6. PendingUse(x)' = PendingUse(x) + u /\ PendingUse(x) \in Int
    <3> HIDE DEF u
    <3> QED
      BY <2>5 DEF PendingUse, Elapse, times, IInv, TypeOK, Runs
  <2>7. u \in Int /\ v \in Int
    OBVIOUS
  <2> HIDE DEF u, v
  <2>8. Error(x)' = Error(x)
    <3>1. Error(x)' = user_time[x] + kernel_time[x] + PendingUse(x)' + PendingDevice(x)' - used'[x] - asked'[x]
      BY DEF Error, Elapse, times
    <3>2. Error(x) = user_time[x] + kernel_time[x] + PendingUse(x) + PendingDevice(x) - used[x] - asked[x]
      BY DEF Error
    <3>3. user_time[x] \in Int /\ kernel_time[x] \in Int /\ used[x] \in Int /\ asked[x] \in Int
      BY DEF IInv, TypeOK
    <3> QED
      BY <2>2, <2>3, <2>6, <2>7, <3>1, <3>2, <3>3
  <2>9. torn'[x] >= torn[x]
    BY DEF Elapse, times, IInv, TypeOK
  <2> QED
    BY <2>1, <2>8, <2>9 DEF Drifts
<1>5. AllExact'
  BY <1>1, <1>4, DriftKeepsExact DEF IInv
<1> QED
  BY <1>1, <1>2, <1>3, <1>5 DEF IInv

\* What StartKernel leaves of the types, the stamps and the account of r.
LEMMA StartKernelStep ==
  ASSUME TypeOK, Stamps, NEW r \in Proc, StartKernel(r)
  PROVE  /\ start_kernel' \in [Proc -> Int] /\ user_time' \in [Proc -> Int] /\ torn' \in [Proc -> Nat]
         /\ \A x \in Proc : /\ start_kernel'[x] <= now
                            /\ x # r => /\ start_kernel'[x] = start_kernel[x]
                                        /\ user_time'[x] = user_time[x]
                                        /\ torn'[x] = torn[x]
         /\ user_time'[r] - start_kernel'[r] = user_time[r] - last_scheduled[r]
         /\ torn'[r] >= torn[r]
         /\ \/ start_kernel'[r] = now
            \/ start_kernel'[r] = now - LO /\ torn'[r] # 0
<1>1. PICK t \in TimeRead(r) :
        /\ start_kernel' = [start_kernel EXCEPT ![r] = t]
        /\ user_time' = [user_time EXCEPT ![r] = @ + (t - last_scheduled[r])]
        /\ Tears(r, t)
  BY DEF StartKernel
<1>2. t \in Int /\ t <= now /\ (t = now \/ (t = now - LO /\ t # now))
  BY <1>1, ReadTime
<1>3. torn' \in [Proc -> Nat] /\ \A x \in Proc : torn'[x] = IF x = r /\ t # now THEN torn[x] + 1 ELSE torn[x]
  BY <1>1 DEF Tears, TypeOK
<1>4. torn'[r] >= torn[r] /\ (t # now => torn'[r] # 0)
  BY <1>3 DEF TypeOK
<1>5. user_time'[r] = user_time[r] + (t - last_scheduled[r]) /\ start_kernel'[r] = t
  BY <1>1 DEF TypeOK
<1>6. user_time'[r] - start_kernel'[r] = user_time[r] - last_scheduled[r]
  BY <1>2, <1>5 DEF TypeOK
<1>7. start_kernel' \in [Proc -> Int] /\ user_time' \in [Proc -> Int]
  BY <1>1, <1>2 DEF TypeOK
<1>8. \A x \in Proc : start_kernel'[x] <= now
  BY <1>1, <1>2 DEF TypeOK, Stamps
<1>9. \A x \in Proc : x # r => /\ start_kernel'[x] = start_kernel[x]
                               /\ user_time'[x] = user_time[x]
                               /\ torn'[x] = torn[x]
  BY <1>1, <1>3 DEF TypeOK
<1> QED
  BY <1>2, <1>3, <1>4, <1>5, <1>6, <1>7, <1>8, <1>9

\* The account of the process that is interrupted or calls.
LEMMA OwnEntry ==
  ASSUME TypeOK, Stamps, NEW r \in Proc, Runs(r), r \notin stuck, cpu = "user", StartKernel(r),
         UNCHANGED <<now, kernel_time, used, asked>>,
         \/ PendingUse(r)' + PendingDevice(r)' = 0
         \/ PendingUse(r)' + PendingDevice(r)' = now - start_kernel'[r]
         \/ PendingUse(r)' + PendingDevice(r)' = (now - start_kernel'[r]) + (now - start_kernel'[r]),
         PendingUse(r)' \in Int, PendingDevice(r)' \in Int
  PROVE  Drifts(r)
<1> DEFINE k == now - start_kernel'[r]
           g == PendingUse(r)' + PendingDevice(r)'
<1>1. /\ start_kernel'[r] \in Int /\ user_time'[r] \in Int
      /\ user_time'[r] - start_kernel'[r] = user_time[r] - last_scheduled[r]
      /\ torn'[r] >= torn[r]
      /\ (start_kernel'[r] = now \/ (start_kernel'[r] = now - LO /\ torn'[r] # 0))
  BY StartKernelStep
<1>2. PendingUse(r) = now - last_scheduled[r] /\ PendingDevice(r) = 0
  BY DEF PendingUse, PendingDevice, AskedDevice, At, Runs
<1>3. /\ user_time[r] \in Int /\ kernel_time[r] \in Int /\ used[r] \in Int /\ asked[r] \in Int
      /\ last_scheduled[r] \in Int /\ now \in Int /\ LO \in Int
  BY CpuAssumption DEF TypeOK
<1>4. Error(r)' = user_time'[r] + kernel_time[r] + PendingUse(r)' + PendingDevice(r)' - used[r] - asked[r]
  BY DEF Error
<1>5. Error(r) = user_time[r] + kernel_time[r] + (now - last_scheduled[r]) + 0 - used[r] - asked[r]
  BY <1>2 DEF Error
<1>6. Error(r)' = Error(r) - k + g /\ k \in Int /\ g \in Int /\ Error(r) \in Int
  BY <1>1, <1>3, <1>4, <1>5
<1>7. k = 0 \/ (k = LO /\ torn'[r] # 0)
  BY <1>1, <1>3
<1>8. g \in {0, k, k + k}
  OBVIOUS
<1> HIDE DEF k, g
<1>9. Error(r)' = Error(r) \/ (torn'[r] # 0 /\ Error(r)' \in {Error(r) + LO, Error(r) - LO})
  BY <1>3, <1>6, <1>7, <1>8
<1>10. where[r] # "unused"
  BY DEF Runs
<1> QED
  BY <1>1, <1>9, <1>10 DEF Drifts

\* The account of a process that the step leaves alone.
LEMMA SameAccount ==
  ASSUME TypeOK, NEW x \in Proc, where[x] # "unused", x \notin stuck,
         user_time'[x] = user_time[x], kernel_time'[x] = kernel_time[x],
         used'[x] = used[x], asked'[x] = asked[x], torn'[x] = torn[x],
         PendingUse(x)' = PendingUse(x), PendingDevice(x)' = PendingDevice(x)
  PROVE  Drifts(x)
<1>1. Error(x)' = Error(x)
  BY DEF Error
<1>2. torn'[x] >= torn[x]
  BY DEF TypeOK
<1> QED
  BY <1>1, <1>2 DEF Drifts

LEMMA SyscallStep ==
  ASSUME IInv, NEW p \in Proc, NEW place \in Place, Syscall(p, place),
         place = "running" \/ place = "device" => Runs(p),
         where[p] # "unused", place # "unused" => where[p] # "device"
  PROVE  IInv'
<1> DEFINE r == running_process
<1>1. r \in Proc /\ Runs(r) /\ cpu = "user" /\ \A x \in Proc : Runs(x) => x = r
  BY RunningProcess DEF IInv, CpuShape, Syscall, OneRunning
<1>2. /\ cpu' = "sys" /\ entered' = TRUE /\ charged' = r /\ StartKernel(r)
      /\ where' = [where EXCEPT ![p] = place]
      /\ UNCHANGED <<now, kernel_time, wallclock_time, last_scheduled, used, asked, stuck>>
  BY DEF Syscall
<1> HIDE DEF r
<1>3. /\ start_kernel' \in [Proc -> Int] /\ user_time' \in [Proc -> Int] /\ torn' \in [Proc -> Nat]
      /\ \A x \in Proc : /\ start_kernel'[x] <= now
                         /\ x # r => /\ start_kernel'[x] = start_kernel[x]
                                     /\ user_time'[x] = user_time[x]
                                     /\ torn'[x] = torn[x]
  BY <1>1, <1>2, StartKernelStep DEF IInv
<1>4. TypeOK'
  <2>1. entered' \in BOOLEAN
    BY Zenon, <1>2
  <2> QED
    BY <1>1, <1>2, <1>3, <2>1 DEF IInv, TypeOK, CpuState
<1>5. \A x \in Proc : Runs(x)' => x = r
  BY <1>1, <1>2 DEF IInv, TypeOK, Runs
<1>6. OneRunning' /\ CpuShape'
  BY <1>2, <1>5 DEF OneRunning, CpuShape
<1>7. Stamps'
  BY <1>2, <1>3 DEF IInv, Stamps
<1>8. ASSUME NEW x \in Proc, where'[x] # "unused", x \notin stuck' PROVE Drifts(x)
  <2>1. where[x] # "unused" /\ x \notin stuck
    BY <1>1, <1>2, <1>8 DEF IInv, TypeOK, Runs
  <2>2. CASE x = r
    <3>1. /\ PendingUse(x)' = now - start_kernel'[x]
          /\ PendingDevice(x)' = IF where'[x] = "device" THEN now - start_kernel'[x] ELSE 0
      BY <1>2, <2>2 DEF PendingUse, PendingDevice, AskedDevice, At
    <3>2. now - start_kernel'[x] \in Int
      BY <1>3 DEF IInv, TypeOK
    <3> QED
      BY <1>1, <1>2, <2>1, <2>2, <3>1, <3>2, OwnEntry DEF IInv
  <2>3. CASE x # r
    <3>1. PendingUse(x)' = PendingUse(x)
      BY <1>1, <1>2, <2>3 DEF PendingUse
    <3>2. where'[x] = "device" <=> where[x] = "device"
      <4>1. CASE x = p
        BY <1>1, <1>2, <1>8, <2>1, <2>3, <4>1 DEF IInv, TypeOK
      <4>2. CASE x # p
        BY <1>2, <4>2 DEF IInv, TypeOK
      <4> QED
        BY <4>1, <4>2
    <3>3. PendingDevice(x)' = PendingDevice(x)
      BY <1>1, <1>2, <1>3, <2>3, <3>2 DEF PendingDevice, AskedDevice, At
    <3> QED
      BY <1>2, <1>3, <2>1, <2>3, <3>1, <3>3, SameAccount DEF IInv
  <2> QED
    BY <2>2, <2>3
<1>9. AllExact'
  BY <1>4, <1>8, DriftKeepsExact DEF IInv
<1> QED
  BY <1>4, <1>6, <1>7, <1>9 DEF IInv

LEMMA CreateStep == ASSUME IInv, NEW p \in Proc, Create(p) PROVE IInv'
<1> DEFINE r == running_process
<1>1. r \in Proc /\ Runs(r) /\ cpu = "user" /\ \A x \in Proc : Runs(x) => x = r
  BY RunningProcess DEF IInv, CpuShape, Create, OneRunning
<1>2. /\ where[p] = "unused" /\ where' = [where EXCEPT ![p] = "ready"]
      /\ cpu' = "sys" /\ entered' = TRUE /\ charged' = r
      /\ kernel_time' = [kernel_time EXCEPT ![p] = 0]
      /\ last_scheduled' = [last_scheduled EXCEPT ![p] = 0]
      /\ used' = [used EXCEPT ![p] = 0] /\ asked' = [asked EXCEPT ![p] = 0]
      /\ stuck' = stuck \ {p} /\ UNCHANGED now
  BY DEF Create
<1>3. PICK t \in TimeRead(r) : \E c \in TimeRead(p) :
       /\ start_kernel' = [start_kernel EXCEPT ![r] = t, ![p] = 0]
       /\ user_time' = [user_time EXCEPT ![r] = @ + (t - last_scheduled[r]), ![p] = 0]
       /\ wallclock_time' = [wallclock_time EXCEPT ![p] = c]
       /\ torn' = [x \in Proc |-> IF x = p THEN (IF c = now THEN 0 ELSE 1)
                                 ELSE IF x = r /\ t # now THEN torn[x] + 1 ELSE torn[x]]
  BY DEF Create
<1>4. PICK c \in TimeRead(p) :
       /\ start_kernel' = [start_kernel EXCEPT ![r] = t, ![p] = 0]
       /\ user_time' = [user_time EXCEPT ![r] = @ + (t - last_scheduled[r]), ![p] = 0]
       /\ wallclock_time' = [wallclock_time EXCEPT ![p] = c]
       /\ torn' = [x \in Proc |-> IF x = p THEN (IF c = now THEN 0 ELSE 1)
                                 ELSE IF x = r /\ t # now THEN torn[x] + 1 ELSE torn[x]]
  BY <1>3
<1> HIDE DEF r
<1>5. /\ t \in Int /\ t <= now /\ (t = now \/ (t = now - LO /\ t # now))
      /\ c \in Int /\ c <= now /\ p # r
  BY <1>1, <1>2, ReadTime DEF IInv, Runs
<1>6. TypeOK'
  <2>1. entered' \in BOOLEAN
    BY Zenon, <1>2
  <2>2. user_time' \in [Proc -> Int] /\ start_kernel' \in [Proc -> Int]
    BY <1>4, <1>5 DEF IInv, TypeOK
  <2>3. torn' \in [Proc -> Nat] /\ wallclock_time' \in [Proc -> Int]
    BY <1>4, <1>5 DEF IInv, TypeOK
  <2>4. where' \in [Proc -> Place] /\ cpu' \in CpuState /\ charged' \in Proc \cup {NULL}
    BY <1>1, <1>2 DEF IInv, TypeOK, Place, CpuState
  <2>5. /\ kernel_time' \in [Proc -> Int] /\ last_scheduled' \in [Proc -> Int]
        /\ used' \in [Proc -> Nat] /\ asked' \in [Proc -> Nat] /\ stuck' \subseteq Proc /\ now' \in Nat
    BY <1>2 DEF IInv, TypeOK
  <2> QED
    BY <2>1, <2>2, <2>3, <2>4, <2>5 DEF TypeOK
<1>7. \A x \in Proc : Runs(x)' => x = r
  BY <1>1, <1>2 DEF IInv, TypeOK, Runs
<1>8. OneRunning' /\ CpuShape'
  BY <1>2, <1>7 DEF OneRunning, CpuShape
<1>9. Stamps'
  <2> SUFFICES ASSUME NEW x \in Proc
               PROVE  /\ start_kernel'[x] <= now /\ last_scheduled'[x] <= now
                      /\ used'[x] <= now - wallclock_time'[x]
    BY <1>2 DEF Stamps
  <2>1. CASE x = p
    <3>1. start_kernel'[x] = 0 /\ last_scheduled'[x] = 0 /\ used'[x] = 0 /\ wallclock_time'[x] = c
      BY <1>1, <1>2, <1>4, <1>5, <2>1 DEF IInv, TypeOK
    <3> QED
      BY <1>5, <3>1 DEF IInv, TypeOK
  <2>2. CASE x # p
    <3>1. /\ last_scheduled'[x] = last_scheduled[x] /\ used'[x] = used[x]
          /\ wallclock_time'[x] = wallclock_time[x]
          /\ (start_kernel'[x] = t \/ start_kernel'[x] = start_kernel[x])
      BY <1>1, <1>2, <1>4, <1>5, <2>2 DEF IInv, TypeOK
    <3> QED
      BY <1>5, <3>1 DEF IInv, Stamps
  <2> QED
    BY <2>1, <2>2
<1>10. ASSUME NEW x \in Proc, where'[x] # "unused", x \notin stuck'
       PROVE  Drifts(x) \/ Error(x)' = 0
  <2>1. CASE x = p
    <3>1. /\ user_time'[x] = 0 /\ kernel_time'[x] = 0 /\ used'[x] = 0 /\ asked'[x] = 0
          /\ where'[x] = "ready"
      BY <1>1, <1>2, <1>4, <1>5, <2>1 DEF IInv, TypeOK
    <3>2. PendingUse(x)' = 0 /\ PendingDevice(x)' = 0
      BY <1>2, <1>5, <2>1, <3>1 DEF PendingUse, PendingDevice, AskedDevice, At
    <3> QED
      BY <3>1, <3>2 DEF Error
  <2>2. CASE x # p
    <3>1. where[x] # "unused" /\ x \notin stuck /\ where'[x] = where[x]
      BY <1>2, <1>10, <2>2 DEF IInv, TypeOK
    <3>2. UNCHANGED <<kernel_time[x], last_scheduled[x], used[x], asked[x]>>
      BY <1>2, <2>2 DEF IInv, TypeOK
    <3>3. CASE x = r
      <4>1. /\ user_time'[x] = user_time[x] + (t - last_scheduled[x]) /\ start_kernel'[x] = t
            /\ torn'[x] = IF t # now THEN torn[x] + 1 ELSE torn[x]
        BY <1>1, <1>4, <1>5, <2>2, <3>3 DEF IInv, TypeOK
      <4>2. PendingUse(x)' = now - t /\ PendingDevice(x)' = 0
        BY <1>1, <1>2, <3>1, <3>3, <4>1 DEF PendingUse, PendingDevice, AskedDevice, At, Runs
      <4>3. PendingUse(x) = now - last_scheduled[x] /\ PendingDevice(x) = 0
        BY <1>1, <3>3 DEF PendingUse, PendingDevice, AskedDevice, At, Runs
      <4>4. /\ user_time[x] \in Int /\ kernel_time[x] \in Int /\ used[x] \in Int /\ asked[x] \in Int
            /\ last_scheduled[x] \in Int /\ now \in Int /\ torn[x] \in Int
        BY DEF IInv, TypeOK
      <4>5. Error(x)' = user_time'[x] + kernel_time[x] + (now - t) + 0 - used[x] - asked[x]
        BY <3>2, <4>2 DEF Error
      <4>6. Error(x) = user_time[x] + kernel_time[x] + (now - last_scheduled[x]) + 0 - used[x] - asked[x]
        BY <4>3 DEF Error
      <4>7. Error(x)' = Error(x)
        BY <1>5, <4>1, <4>4, <4>5, <4>6
      <4> QED
        BY <3>1, <4>1, <4>4, <4>7 DEF Drifts
    <3>4. CASE x # r
      <4>1. user_time'[x] = user_time[x] /\ start_kernel'[x] = start_kernel[x] /\ torn'[x] = torn[x]
        BY <1>1, <1>4, <2>2, <3>4 DEF IInv, TypeOK
      <4>2. PendingUse(x)' = PendingUse(x)
        BY <1>1, <1>2, <3>4 DEF PendingUse
      <4>3. PendingDevice(x)' = PendingDevice(x)
        BY <1>1, <1>2, <3>1, <4>1 DEF PendingDevice, AskedDevice, At
      <4> QED
        BY <3>1, <3>2, <4>1, <4>2, <4>3, SameAccount DEF IInv
    <3> QED
      BY <3>3, <3>4
  <2> QED
    BY <2>1, <2>2
<1>11. AllExact'
  BY <1>6, <1>10, DriftKeepsExact DEF IInv
<1> QED
  BY <1>6, <1>8, <1>9, <1>11 DEF IInv

LEMMA TrapStep == ASSUME IInv, Trap PROVE IInv'
<1> DEFINE r == running_process
<1>1. r \in Proc /\ Runs(r) /\ cpu = "user" /\ \A x \in Proc : Runs(x) => x = r
  BY RunningProcess DEF IInv, CpuShape, Trap, OneRunning
<1>2. /\ cpu' = "trap" /\ entered' = TRUE /\ charged' = r
      /\ user_time' = [user_time EXCEPT ![r] = @ + (start_kernel[r] - last_scheduled[r])]
      /\ UNCHANGED <<now, kernel_time, wallclock_time, last_scheduled, start_kernel, where, used, asked, torn, stuck>>
  BY DEF Trap, history
<1> HIDE DEF r
<1>3. TypeOK'
  <2>1. entered' \in BOOLEAN
    BY Zenon, <1>2
  <2>2. user_time' \in [Proc -> Int]
    BY <1>1, <1>2 DEF IInv, TypeOK
  <2> QED
    BY <1>1, <1>2, <2>1, <2>2 DEF IInv, TypeOK, CpuState
<1>4. OneRunning' /\ CpuShape' /\ Stamps'
  BY <1>1, <1>2 DEF IInv, OneRunning, CpuShape, Stamps, Runs
<1>5. ASSUME NEW x \in Proc, where'[x] # "unused", x \notin stuck' PROVE Drifts(x)
  <2>1. where[x] # "unused" /\ x \notin stuck
    BY <1>2, <1>5
  <2>2. CASE x = r
    <3>1. user_time'[x] = user_time[x] + (start_kernel[x] - last_scheduled[x])
      BY <1>2, <2>2 DEF IInv, TypeOK
    <3>2. /\ PendingUse(x)' = now - start_kernel[x] /\ PendingDevice(x)' = 0
          /\ PendingUse(x) = now - last_scheduled[x] /\ PendingDevice(x) = 0
      BY <1>1, <1>2, <2>2 DEF PendingUse, PendingDevice, AskedDevice, At, Runs
    <3>3. /\ user_time[x] \in Int /\ kernel_time[x] \in Int /\ used[x] \in Int /\ asked[x] \in Int
          /\ last_scheduled[x] \in Int /\ start_kernel[x] \in Int /\ now \in Int /\ torn[x] \in Int
      BY DEF IInv, TypeOK
    <3>4. /\ Error(x)' = user_time'[x] + kernel_time[x] + (now - start_kernel[x]) + 0 - used[x] - asked[x]
          /\ Error(x) = user_time[x] + kernel_time[x] + (now - last_scheduled[x]) + 0 - used[x] - asked[x]
      BY <1>2, <3>2 DEF Error
    <3> QED
      BY <1>2, <2>1, <3>1, <3>3, <3>4 DEF Drifts
  <2>3. CASE x # r
    <3>1. PendingUse(x)' = PendingUse(x) /\ PendingDevice(x)' = PendingDevice(x)
      BY <1>1, <1>2, <2>3 DEF PendingUse, PendingDevice, AskedDevice, At
    <3>2. user_time'[x] = user_time[x]
      BY <1>2, <2>3 DEF IInv, TypeOK
    <3> QED
      BY <1>2, <2>1, <3>1, <3>2, SameAccount DEF IInv
  <2> QED
    BY <2>2, <2>3
<1>6. AllExact'
  BY <1>3, <1>5, DriftKeepsExact DEF IInv
<1> QED
  BY <1>3, <1>4, <1>6 DEF IInv

LEMMA TrapKillsStep == ASSUME IInv, TrapKills PROVE IInv'
<1>1. /\ cpu = "trap" /\ cpu' = "sys" /\ charged' = NULL /\ UNCHANGED entered
      /\ where' = [where EXCEPT ![charged] = "unused"]
      /\ UNCHANGED <<now, user_time, kernel_time, wallclock_time, last_scheduled, start_kernel, used, asked, torn, stuck>>
  BY DEF TrapKills, times, history
<1>2. charged \in Proc /\ \A x \in Proc : Runs(x) => x = charged
  BY <1>1 DEF IInv, CpuShape, OneRunning
<1>3. TypeOK'
  BY <1>1 DEF IInv, TypeOK, Place, CpuState
<1>4. \A x \in Proc : ~Runs(x)'
  BY <1>1, <1>2 DEF IInv, TypeOK, Runs
<1>5. OneRunning' /\ CpuShape' /\ Stamps'
  BY <1>1, <1>4 DEF IInv, OneRunning, CpuShape, Stamps
<1>6. ASSUME NEW x \in Proc, where'[x] # "unused", x \notin stuck' PROVE Drifts(x)
  <2>1. x # charged /\ x # NULL /\ where'[x] = where[x]
    BY <1>1, <1>2, <1>6, CpuAssumption DEF IInv, TypeOK
  <2>2. PendingUse(x)' = PendingUse(x) /\ PendingDevice(x)' = PendingDevice(x)
    BY <1>1, <2>1 DEF PendingUse, PendingDevice, AskedDevice, At
  <2> QED
    BY <1>1, <1>6, <2>1, <2>2, SameAccount DEF IInv
<1>7. AllExact'
  BY <1>3, <1>6, DriftKeepsExact DEF IInv
<1> QED
  BY <1>3, <1>5, <1>7 DEF IInv

\* Who is interrupted, and what InterruptStart does to everybody.
LEMMA InterruptStartStep ==
  ASSUME IInv, InterruptStart
  PROVE  /\ start_kernel' \in [Proc -> Int] /\ user_time' \in [Proc -> Int] /\ torn' \in [Proc -> Nat]
         /\ entered' \in BOOLEAN
         /\ UNCHANGED <<now, kernel_time, wallclock_time, last_scheduled, used, asked, stuck>>
         /\ running_process \in Proc \cup {NULL}
         /\ \A x \in Proc : Runs(x) <=> x = running_process
         /\ \A x \in Proc : Runs(x) /\ x \notin stuck => cpu = "user" /\ StartKernel(x)
         /\ \A x \in Proc : start_kernel'[x] <= now
         /\ \A x \in Proc : ~Runs(x) => /\ start_kernel'[x] = start_kernel[x]
                                        /\ user_time'[x] = user_time[x]
                                        /\ torn'[x] = torn[x]
<1>1. /\ cpu \in {"user", "idle"} /\ entered' = TRUE
      /\ IF running_process # NULL THEN StartKernel(running_process)
         ELSE UNCHANGED <<start_kernel, user_time, torn>>
      /\ UNCHANGED <<now, kernel_time, wallclock_time, last_scheduled, used, asked, stuck>>
  BY DEF InterruptStart
<1>2. entered' \in BOOLEAN
  BY Zenon, <1>1
<1>3. /\ running_process \in Proc \cup {NULL}
      /\ \A x \in Proc : Runs(x) <=> x = running_process
  BY RunningProcess, CpuAssumption DEF IInv
<1>4. \A x \in Proc : Runs(x) /\ x \notin stuck => cpu = "user" /\ StartKernel(x)
  BY <1>1, <1>3, CpuAssumption DEF IInv, CpuShape
<1>5. /\ start_kernel' \in [Proc -> Int] /\ user_time' \in [Proc -> Int] /\ torn' \in [Proc -> Nat]
      /\ \A x \in Proc : start_kernel'[x] <= now
      /\ \A x \in Proc : ~Runs(x) => /\ start_kernel'[x] = start_kernel[x]
                                     /\ user_time'[x] = user_time[x]
                                     /\ torn'[x] = torn[x]
  <2>1. CASE running_process = NULL
    BY <1>1, <2>1 DEF IInv, TypeOK, Stamps
  <2>2. CASE running_process # NULL
    <3> DEFINE r == running_process
    <3>1. r \in Proc /\ StartKernel(r) /\ \A x \in Proc : ~Runs(x) => x # r
      BY <1>1, <1>3, <2>2
    <3> HIDE DEF r
    <3> QED
      BY <3>1, StartKernelStep DEF IInv
  <2> QED
    BY <2>1, <2>2
<1> QED
  BY <1>1, <1>2, <1>3, <1>4, <1>5

LEMMA TimerInterruptStep == ASSUME IInv, TimerInterrupt PROVE IInv'
<1> DEFINE r == running_process
<1>1. /\ InterruptStart /\ cpu' = "tick" /\ charged' = r
      /\ \/ where' = [p \in Proc |-> IF where[p] = "blocked" THEN "ready" ELSE where[p]]
         \/ where' = where
  BY DEF TimerInterrupt
<1>2. /\ where' \in [Proc -> Place]
      /\ \A x \in Proc : /\ where'[x] = "running" <=> where[x] = "running"
                         /\ where'[x] = "device" <=> where[x] = "device"
                         /\ where'[x] = "unused" <=> where[x] = "unused"
  BY <1>1 DEF IInv, TypeOK, Place
<1>3. TypeOK'
  BY <1>1, <1>2, InterruptStartStep DEF IInv, TypeOK, CpuState
<1>4. OneRunning' /\ CpuShape'
  BY <1>1, <1>2, InterruptStartStep DEF IInv, OneRunning, CpuShape, Runs
<1>5. Stamps'
  BY <1>1, InterruptStartStep DEF IInv, Stamps
<1>6. ASSUME NEW x \in Proc, where'[x] # "unused", x \notin stuck' PROVE Drifts(x)
  <2>1. where[x] # "unused" /\ x \notin stuck
    BY <1>1, <1>2, <1>6, InterruptStartStep
  <2>2. CASE Runs(x)
    <3>1. cpu = "user" /\ StartKernel(x) /\ x = r
      BY <1>1, <2>1, <2>2, InterruptStartStep
    <3>2. PendingUse(x)' = now - start_kernel'[x] /\ PendingDevice(x)' = 0
      BY <1>1, <1>2, <2>2, <3>1, InterruptStartStep DEF PendingUse, PendingDevice, AskedDevice, At, Runs
    <3>3. now - start_kernel'[x] \in Int
      BY <1>1, InterruptStartStep DEF IInv, TypeOK
    <3> QED
      BY <1>1, <2>1, <2>2, <3>1, <3>2, <3>3, InterruptStartStep, OwnEntry DEF IInv
  <2>3. CASE ~Runs(x)
    <3>1. cpu \in {"user", "idle"} /\ x # r
      BY <1>1, <2>3, InterruptStartStep DEF InterruptStart
    <3>2. PendingUse(x)' = PendingUse(x)
      BY <1>1, <2>3, <3>1 DEF PendingUse
    <3>3. PendingDevice(x)' = PendingDevice(x)
      BY <1>1, <1>2, <2>3, <3>1, InterruptStartStep DEF PendingDevice, AskedDevice, At
    <3> QED
      BY <1>1, <2>1, <2>3, <3>2, <3>3, InterruptStartStep, SameAccount DEF IInv
  <2> QED
    BY <2>2, <2>3
<1>7. AllExact'
  BY <1>3, <1>6, DriftKeepsExact DEF IInv
<1> QED
  BY <1>3, <1>4, <1>5, <1>7 DEF IInv

LEMMA DeviceInterruptStep == ASSUME IInv, NEW p \in Proc, DeviceInterrupt(p) PROVE IInv'
<1>1. /\ InterruptStart /\ where[p] = "device" /\ cpu' = "device" /\ charged' = p
      /\ where' = [where EXCEPT ![p] = "ready"]
  BY DEF DeviceInterrupt
<1>2. /\ where' \in [Proc -> Place] /\ where'[p] = "ready" /\ ~Runs(p)
      /\ \A x \in Proc : x # p => where'[x] = where[x]
  BY <1>1 DEF IInv, TypeOK, Place, Runs
<1>3. TypeOK'
  BY <1>1, <1>2, InterruptStartStep DEF IInv, TypeOK, CpuState
<1>4. OneRunning' /\ CpuShape'
  BY <1>1, <1>2 DEF IInv, OneRunning, CpuShape, Runs
<1>5. Stamps'
  BY <1>1, InterruptStartStep DEF IInv, Stamps
<1>6. ASSUME NEW x \in Proc, where'[x] # "unused", x \notin stuck' PROVE Drifts(x)
  <2>1. where[x] # "unused" /\ x \notin stuck
    BY <1>1, <1>2, <1>6, InterruptStartStep
  <2>2. CASE Runs(x)
    <3>1. cpu = "user" /\ StartKernel(x) /\ x # p
      BY <1>1, <1>2, <2>1, <2>2, InterruptStartStep
    <3>2. PendingUse(x)' = 0 /\ PendingDevice(x)' = 0
      BY <1>1, <1>2, <2>2, <3>1 DEF PendingUse, PendingDevice, AskedDevice, At, Runs
    <3> QED
      BY <1>1, <2>1, <2>2, <3>1, <3>2, InterruptStartStep, OwnEntry DEF IInv
  <2>3. CASE ~Runs(x)
    <3>1. cpu \in {"user", "idle"}
      BY <1>1 DEF InterruptStart
    <3>2. PendingUse(x)' = PendingUse(x)
      BY <1>1, <2>3, <3>1 DEF PendingUse
    <3>3. PendingDevice(x)' = PendingDevice(x)
      BY <1>1, <1>2, <2>3, <3>1, InterruptStartStep DEF PendingDevice, AskedDevice, At
    <3> QED
      BY <1>1, <2>1, <2>3, <3>2, <3>3, InterruptStartStep, SameAccount DEF IInv
  <2> QED
    BY <2>2, <2>3
<1>7. AllExact'
  BY <1>3, <1>6, DriftKeepsExact DEF IInv
<1> QED
  BY <1>3, <1>4, <1>5, <1>7 DEF IInv

----------------------------------------------------------------------------
(* The theorems. *)

LEMMA InitHolds == Init => IInv
<1> SUFFICES ASSUME Init PROVE IInv
  OBVIOUS
<1>1. TypeOK
  <2>1. entered \in BOOLEAN
    BY Zenon DEF Init
  <2> QED
    BY <2>1, CpuAssumption DEF Init, TypeOK, Place, CpuState
<1>2. OneRunning /\ CpuShape
  BY CpuAssumption DEF Init, OneRunning, CpuShape, Runs
<1>3. Stamps
  <2> SUFFICES ASSUME Init, NEW p \in Proc
               PROVE  /\ start_kernel[p] <= now /\ last_scheduled[p] <= now
                      /\ used[p] <= now - wallclock_time[p]
    BY DEF Stamps
  <2>1. /\ now = 0 /\ start_kernel[p] = 0 /\ last_scheduled[p] = 0
        /\ used[p] = 0 /\ wallclock_time[p] = 0
    BY DEF Init
  <2> QED
    BY <2>1
<1>4. ASSUME NEW x \in Proc PROVE Error(x) = 0
  BY CpuAssumption DEF Init, Error, PendingUse, PendingDevice, AskedDevice, At, Runs
<1>5. AllExact
  BY <1>4, ZeroIsMultiple DEF AllExact, Exact
<1> QED
  BY <1>1, <1>2, <1>3, <1>5 DEF IInv

LEMMA StepHolds == IInv /\ [Next]_vars => IInv'
<1> SUFFICES ASSUME IInv, [Next]_vars PROVE IInv'
  OBVIOUS
<1>1. CASE Elapse
  BY <1>1, ElapseStep
<1>2. ASSUME NEW p \in Proc, Suspend(p) PROVE IInv'
  BY <1>2, SyscallStep DEF Suspend, Place, Runs
<1>3. ASSUME NEW p \in Proc, Wake(p) PROVE IInv'
  BY <1>3, SyscallStep DEF Wake, Place
<1>4. ASSUME NEW p \in Proc, Terminate(p) PROVE IInv'
  BY <1>4, SyscallStep DEF Terminate, Place
<1>5. ASSUME NEW p \in Proc, Answer(p) PROVE IInv'
  BY <1>5, SyscallStep DEF Answer, Place, Runs
<1>6. ASSUME NEW p \in Proc, Create(p) PROVE IInv'
  BY <1>6, CreateStep
<1>7. ASSUME NEW p \in Proc, DeviceInterrupt(p) PROVE IInv'
  BY <1>7, DeviceInterruptStep
<1>8. CASE Trap
  BY <1>8, TrapStep
<1>9. CASE TimerInterrupt
  BY <1>9, TimerInterruptStep
<1>10. CASE SysEnd
  BY <1>10, GoOnStep, DispatchStep, WaitStep DEF SysEnd, schedule
<1>11. CASE TrapEnd
  <2>1. running_process # NULL
    BY <1>11, RunningProcess, CpuAssumption DEF IInv, CpuShape, TrapEnd
  <2> QED
    BY <1>11, <2>1, GoOnStep DEF TrapEnd
<1>12. CASE TrapKills
  BY <1>12, TrapKillsStep
<1>13. CASE TimerEnd
  BY <1>13, DispatchStep, WaitStep DEF TimerEnd, schedule
<1>14. CASE DeviceEnd
  BY <1>14, GoOnStep, DispatchStep, WaitStep DEF DeviceEnd, schedule
<1>15. CASE UNCHANGED vars
  BY <1>15 DEF vars, times, history, IInv, TypeOK, OneRunning, CpuShape, Stamps, AllExact, Exact,
               IsMultiple, Error, PendingUse, PendingDevice, AskedDevice, At, Runs
<1> QED
  BY <1>1, <1>2, <1>3, <1>4, <1>5, <1>6, <1>7, <1>8, <1>9, <1>10, <1>11, <1>12, <1>13, <1>14, <1>15 DEF Next

\* The inductive invariant: accounts are exact but for torn readings, the handler
\* charges the process whose time it takes, and no stamp is of the future.
THEOREM Invariance == Spec => []IInv
BY InitHolds, StepHolds, PTL DEF Spec

\* Every variable keeps its type.
THEOREM TypeCorrect == Spec => []TypeOK
<1>1. IInv => TypeOK
  BY DEF IInv
<1> QED
  BY <1>1, Invariance, PTL

\* scheduler.c:48-64: however handlers, slices, traps and device operations
\* follow one another, a process is charged its time, neither less nor twice.
THEOREM Charges == Spec => []ChargedExactly
<1>1. ASSUME IInv PROVE ChargedExactly
  BY <1>1, ErrorIsInt, MultipleHasNoRest DEF IInv, AllExact, Exact, ChargedExactly, Live
<1> QED
  BY <1>1, Invariance, PTL

\* p2test.c:359-360: no more CPU time than wall-clock time but for the devices'.
THEOREM CpuWithinWallclock == Spec => []WithinWallclock
<1>1. ASSUME IInv PROVE WithinWallclock
  <2> SUFFICES ASSUME NEW p \in Live \ stuck, torn[p] = 0
               PROVE  user_time[p] + kernel_time[p] <= now - wallclock_time[p] + asked[p]
    BY DEF WithinWallclock
  <2>1. p \in Proc /\ Error(p) = 0
    BY <1>1 DEF IInv, AllExact, Exact, Live
  <2>2. /\ PendingUse(p) \in Int /\ PendingUse(p) >= 0
        /\ PendingDevice(p) \in Int /\ PendingDevice(p) >= 0
    BY <1>1, <2>1 DEF IInv, TypeOK, Stamps, PendingUse, PendingDevice
  <2>3. /\ user_time[p] \in Int /\ kernel_time[p] \in Int /\ used[p] \in Int /\ asked[p] \in Int
        /\ now \in Int /\ wallclock_time[p] \in Int /\ used[p] <= now - wallclock_time[p]
    BY <1>1, <2>1 DEF IInv, TypeOK, Stamps
  <2>4. user_time[p] + kernel_time[p] + PendingUse(p) + PendingDevice(p) - used[p] - asked[p] = 0
    BY <2>1 DEF Error
  <2> QED
    BY <2>2, <2>3, <2>4
<1> QED
  BY <1>1, Invariance, PTL
=============================================================================
