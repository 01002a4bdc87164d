SPECIFICATION FairSpec
CONSTANTS
  MaxProc = 20
  Rounds = 1
  Apart = TRUE
INVARIANTS NoError EndsClean
PROPERTY Finishes
