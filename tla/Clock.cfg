SPECIFICATION FairSpec
CONSTANTS
  Proc = {p1, p2, p3}
  First = p1
  TimerMasked = {p1}
  TIME_SCALE = 1
  SCHED_TIME_SLICE = 2
  SCHED_PSEUDO_CLOCK = 5
  LO = 11
INVARIANT TimerGuardsTick
PROPERTIES NoEarlyTick SleepersWake KeepsProcessorByCalls
CHECK_DEADLOCK FALSE
