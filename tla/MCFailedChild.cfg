CONSTANTS
  a = a
  b = b
  NoFile = NoFile
  NoStart = NoStart
  Starts <- MCStarts
  Daemons <- MCDaemons
  Ports <- MCPorts
  Dropped = {"outside", "group", "root"}
SPECIFICATION Spec
INVARIANT FailureIsPassedOn
CHECK_DEADLOCK FALSE
