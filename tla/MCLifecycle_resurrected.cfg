SPECIFICATION Spec
CONSTANTS
  Workspaces = {ws1}
  Workers = {server}
  Ports = {1}
  Inputs <- AutoPort
  Requests <- DeleteOnly
  MaxJobs = 3
  MaxLate = 0
  MaxFaults = 0
  NoWorkspace = none
SYMMETRY Symmetry
PROPERTIES NoResurrection
CHECK_DEADLOCK FALSE
