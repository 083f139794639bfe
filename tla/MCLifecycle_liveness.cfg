SPECIFICATION FairSpec
CONSTANTS
  Workspaces = {ws1}
  Workers = {server}
  Ports = {1, 2}
  Inputs <- AutoPort
  Requests <- StopDeleteRemove
  MaxJobs = 3
  MaxLate = 0
  MaxFaults = 1
  NoWorkspace = none
PROPERTIES JobsEnd DeletesGetThrough
CHECK_DEADLOCK FALSE
