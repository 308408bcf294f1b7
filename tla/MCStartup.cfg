CONSTANTS
  a = a
  b = b
  NoFile = NoFile
  NoStart = NoStart
  Starts <- MCStarts
  Daemons <- MCDaemons
  Ports <- MCPorts
  Dropped = {"outside", "group", "root"}
SPECIFICATION Spec
INVARIANTS PidfileNamesHolder StaleFileExplained PrivilegesInOrder
INVARIANTS PidfileRemovable ParentIsInformed
PROPERTY ParentReturns
CHECK_DEADLOCK FALSE
