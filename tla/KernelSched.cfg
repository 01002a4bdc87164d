SPECIFICATION Spec
CONSTANTS
  s1 = s1  clock = clock  none = none
  MaxProc = 3
  UserSem = {s1}
  NumDevice = 0
  waitclockSem = clock
  NoKey = none
  Prio <- TwoPriorities
  Beyond <- NoPriority
  Masks <- AllInterrupts
  SemInit <- Sync
  MaxCreate = 2
  MaxPrio = 6
  MaxSem = 1
INVARIANTS TypeOK OnePlace CountersCount SemCountsWaiters QueuesSorted
           ServedSoon
PROPERTIES WaitsOnlyIfItMust TickWakesAll QueuesSpec
CHECK_DEADLOCK FALSE
