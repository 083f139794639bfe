SPECIFICATION FairSpec
CONSTANTS
  MaxJobs = 4
  MaxTurns = 3
INVARIANT OwnJobTaken
PROPERTY CommandReturns
CHECK_DEADLOCK FALSE
