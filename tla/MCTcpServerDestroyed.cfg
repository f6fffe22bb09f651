SPECIFICATION Spec
CONSTANTS
  Conns = {c1}
  NoConn = NoConn
  Fds = {f1}
  NoFd = NoFd
  NLoops = 1
INVARIANT DestructorAssertion
CHECK_DEADLOCK FALSE
