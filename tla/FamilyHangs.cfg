SPECIFICATION Spec
CONSTANTS
  MaxProc = 4
  MaxCreate = 4
INVARIANT SYS3Returns
CHECK_DEADLOCK FALSE
