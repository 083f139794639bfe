SPECIFICATION Spec
CONSTANTS
  Configs <- MCConfigs
  Values <- MCValues
  MaxEdits = 3
INVARIANTS AcceptedCanRun NewFormAccepted
PROPERTY RefusalKeepsRequest
CHECK_DEADLOCK FALSE
