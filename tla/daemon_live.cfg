SPECIFICATION FairSpec
CONSTANTS
  Conns = {c1, c2}
  NoConn = NoConn
  Names = {n1}
  Values = {v1}
  NoValue = NoValue
  Torn = Torn
  MaxRq = 1
  MaxConnexions = 1
  SockTout = 1
  LockTout = 2
  SndBuf = 0
  Requests <- WritesAndJunk
  BackendMayFail = TRUE
  Prompt = FALSE
PROPERTIES HandlerEnds
CHECK_DEADLOCK FALSE
