SPECIFICATION Spec
CONSTANTS
  OffMax <- MCOffMax
  MAX_REQUEST_LENGTH = 4
  RecvBuf = 3
  ClientMax = 4
  HeaderLength = 2
  PageLength = 2
  FileSizes = {1, 3}
  Requests <- MCFramedRequests
  want_keepalive = TRUE
  auth_key = TRUE
  forward_to_https = TRUE
  timeout_secs = 2
INVARIANTS
  NoLeak
  KeepAliveFramed
  KeepAliveHonoured
PROPERTY
  ImplementsExchange
