SPECIFICATION FairSpec
CONSTANTS
  Workspaces = {ws1, ws2}
  Callers = {server, cli}
  Ports = {1, 2}
  PortRange = {1, 2}
  NoWorkspace = none
  MaxDisturbances = 1
INVARIANTS TypeOK WriteIsSafe
PROPERTIES ImplementsTable CallsReturn
CHECK_DEADLOCK FALSE
