SPECIFICATION QueueSpec
CONSTANTS
  p1 = p1  p2 = p2  p3 = p3  p4 = p4
  Pcb <- MCPcb
  Prio <- FirstPrio
  Beyond <- DevSemaphore
  MaxPrio = 4
  MaxArrival = 6
INVARIANT NothingLost
CHECK_DEADLOCK FALSE
