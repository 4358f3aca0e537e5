SPECIFICATION Spec
CONSTANTS
  c1 = c1
  c2 = c2
  Connections <- MCConnections
INVARIANT SettingsExist
CHECK_DEADLOCK FALSE
