SPECIFICATION Spec
CONSTANTS
  Workspaces = {ws1, ws2}
  Workers = {server}
  Ports = {1, 2}
  Inputs <- OneOfEach
  Requests <- StopResumeDelete
  MaxJobs = 3
  MaxLate = 0
  MaxFaults = 1
  NoWorkspace = none
SYMMETRY Symmetry
INVARIANTS TypeOK RunningIsReal RunningHasLease DeletedHoldsNothing
PROPERTIES DeletionLasts ImplementsPorts
CHECK_DEADLOCK FALSE
