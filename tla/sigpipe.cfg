SPECIFICATION FairSpec
CONSTANTS
  Sigs = {s1, s2, s3}
  NoSig = NoSig
  PipeCap = 1
  MaxRaises = 5
INVARIANTS TypeOK WakesForSignals NoAssertion
PROPERTIES CaughtIsReported
CHECK_DEADLOCK FALSE
