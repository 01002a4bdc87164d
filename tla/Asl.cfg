SPECIFICATION Spec
CONSTANTS
  p1 = p1  p2 = p2  p3 = p3  p4 = p4
  k1 = k1  k2 = k2  k3 = k3  k4 = k4  none = none
  Pcb <- MCPcb
  MaxSemd = 4
  Key <- MCKey
  NoKey = none
  Prio <- OnePriority
  Beyond <- NoPriority
SYMMETRY MCSymmetry
INVARIANTS TypeOK ActiveHasWaiters RingsClosed NeverFails BlockedIsQueued
PROPERTY ImplementsQueues
