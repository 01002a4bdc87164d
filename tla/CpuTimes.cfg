SPECIFICATION SplitSpec
CONSTANTS
  Proc = {p1, p2}
  First = p1
  NULL = none
  LO = 3
  MaxNow = 6
  MaxTorn = 1
INVARIANTS ChargedExactly UserTimeExact
CHECK_DEADLOCK FALSE
