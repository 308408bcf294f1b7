SPECIFICATION Spec
CONSTANTS
  Conns = {c1, c2}
  Fds = {f1, f2}
  NoFd = NoFd
  Sockin = Sockin
  max_connections = 1
  timeout_secs = 2
  MaxParts = 1
  FileTableFull = FALSE
INVARIANT
  LogIsOpen
