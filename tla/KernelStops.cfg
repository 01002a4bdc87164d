SPECIFICATION Spec
CONSTANTS
  s1 = s1  clock = clock  none = none
  MaxProc = 3
  UserSem = {s1}
  NumDevice = 1
  waitclockSem = clock
  NoKey = none
  Prio <- OnePriority
  Beyond <- NoPriority
  Masks <- AllInterrupts
  SemInit <- Sync
  MaxCreate = 2
  MaxPrio = 1
  MaxSem = 1
INVARIANT StopsWithNobodyRunning

CHECK_DEADLOCK FALSE
