SPECIFICATION FirstbornSpec
CONSTANTS
  MaxProc = 4
  MaxCreate = 4
INVARIANTS TypeOK NoDoubleFree FreeHasNoParent SibRings EldestAdopted
PROPERTY AdoptionEnds
CHECK_DEADLOCK FALSE
