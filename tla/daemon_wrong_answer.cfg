SPECIFICATION Spec
CONSTANTS
  Conns = {c1, c2}
  NoConn = NoConn
  Names = {n1}
  Values = {v1}
  NoValue = NoValue
  Torn = Torn
  MaxRq = 2
  MaxConnexions = 1
  SockTout = 1
  LockTout = 2
  SndBuf = 2
  Requests <- ReadWrite
  BackendMayFail = FALSE
  Prompt = TRUE
INVARIANTS AnswerIsMine
CHECK_DEADLOCK FALSE
