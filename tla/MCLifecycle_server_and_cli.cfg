SPECIFICATION Spec
CONSTANTS
  Workspaces = {ws1}
  Workers = {server, cli}
  Ports = {1, 2}
  Inputs <- AutoPort
  Requests <- StopResumeDelete
  MaxJobs = 3
  MaxLate = 1
  MaxFaults = 1
  NoWorkspace = none
SYMMETRY Symmetry
INVARIANTS RunningJobHeld NoStranded EarlyCancelHonoured ProvisionHasImage NoPortLeak RunningIsServed
PROPERTIES ImplementsBoard
CHECK_DEADLOCK FALSE
