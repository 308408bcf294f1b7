SPECIFICATION FairSpec
CONSTANTS
  Conns = {c1, c2}
  Fds = {f1, f2}
  NoFd = NoFd
  Sockin = Sockin
  max_connections = 1
  timeout_secs = 1
  MaxParts = 1
  FileTableFull = FALSE
PROPERTIES
  SilentIsClosed
  RequestsAreReceived
  AcceptingResumes
  StopsWithConnections
