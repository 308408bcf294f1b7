SPECIFICATION Spec
CONSTANTS
  Conns = {c1, c2, c3}
  Fds = {f1, f2, f3}
  NoFd = NoFd
  Sockin = Sockin
  max_connections = 1
  timeout_secs = 2
  MaxParts = 0
  FileTableFull = FALSE
SYMMETRY Interchangeable
INVARIANTS
  FdOwnership
  SelectWatchesAll
  DeafHasConnection
  NoneOverstays
