SPECIFICATION FairSpec
CONSTANTS
  Conns = {c1}
  NoConn = NoConn
  Fds = {f1}
  NoFd = NoFd
  NLoops = 1
PROPERTIES GoneIsClosed StopReturns
CHECK_DEADLOCK FALSE
