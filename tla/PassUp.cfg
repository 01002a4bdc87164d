SPECIFICATION Spec
CONSTANTS
  Proc = {p1, p2}
  First = p1
  NULL = none
  Type = {"SYSBK", "PGMTRAP"}
  MaxPc = 1
INVARIANTS OwnHandlersOnly PassedUpOnce
PROPERTY RegisteredOnce
CHECK_DEADLOCK FALSE
