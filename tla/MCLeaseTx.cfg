SPECIFICATION FairSpec
CONSTANTS
  Workers = {server, cli1, cli2}
  MaxJobs = 3
  MaxDisturbances = 1
INVARIANTS TypeOK OneRunner
PROPERTIES ImplementsBoard EveryJobLeased
CHECK_DEADLOCK FALSE
