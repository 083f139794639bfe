SPECIFICATION FairSpec
CONSTANTS
  MaxLines = 3
  MaxInFlight = 2
INVARIANTS TypeOK NoGap TailComplete ShownOnce
PROPERTY TailEnds
CHECK_DEADLOCK FALSE
