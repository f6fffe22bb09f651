SPECIFICATION Spec
CONSTANTS
  Conns = {c1, c2}
  NoConn = NoConn
  Fds = {f1, f2}
  NoFd = NoFd
  NLoops = 1
SYMMETRY Symmetry
INVARIANTS TypeOK OpenIsFiled ClosedBeforeDestroyed FiledUnderItsHandle NotDeaf
CHECK_DEADLOCK FALSE
