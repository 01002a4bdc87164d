SPECIFICATION QueueSpec
CONSTANTS
  p1 = p1  p2 = p2  p3 = p3  p4 = p4
  Pcb <- MCPcb
  Prio <- MCPrio
  Beyond <- NoPriority
  MaxPrio = 4
  MaxArrival = 6
SYMMETRY PcbSymmetry
INVARIANTS TypeOK ServiceOrder NothingLost
CHECK_DEADLOCK FALSE
