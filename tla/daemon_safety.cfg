SPECIFICATION Spec
CONSTANTS
  Conns = {c1, c2}
  NoConn = NoConn
  Names = {n1}
  Values = {v1, v2}
  NoValue = NoValue
  Torn = Torn
  MaxRq = 2
  MaxConnexions = 0
  SockTout = 0
  LockTout = 0
  SndBuf = 1
  Requests <- AllOperations
  BackendMayFail = FALSE
  Prompt = FALSE
SYMMETRY Symmetry
INVARIANTS TypeOK LoadIsCounted LockMatchesHandler
PROPERTIES StoreSpec
CHECK_DEADLOCK FALSE
