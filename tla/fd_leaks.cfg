SPECIFICATION Spec
CONSTANTS
  Conns = {c1, c2, c3}
  MaxFd = 3
  NoConn = NoConn
SYMMETRY Symmetry
INVARIANTS TypeOK NothingLeaks
CHECK_DEADLOCK FALSE
