SPECIFICATION TimerSpec
CONSTANTS
  Conns = {c1}
  NoConn = NoConn
  Fds = {f1}
  NoFd = NoFd
  NLoops = 1
PROPERTY SilentIsTimedOut
CHECK_DEADLOCK FALSE
