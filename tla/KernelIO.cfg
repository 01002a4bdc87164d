SPECIFICATION FairSpec
CONSTANTS
  s1 = s1  clock = clock  none = none
  MaxProc = 3
  UserSem = {}
  NumDevice = 2
  waitclockSem = clock
  NoKey = none
  Prio <- OnePriority
  Beyond <- NoPriority
  Masks <- AllInterrupts
  SemInit <- Sync
  MaxCreate = 2
  MaxPrio = 1
  MaxSem = 1
INVARIANT KernelSemsBlock
PROPERTIES LostOnlyBehindAnother TickEnds FamilySpec
CHECK_DEADLOCK FALSE
