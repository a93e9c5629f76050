SPECIFICATION Spec

CONSTANTS
  Regions <- MCRegions
  StackOf <- MCStackOf
  Writers = {w1}
  Callers = {c1, c2}
  Dumper = dumper
  Monitor = monitor
  ArenaPage = 1
  NoPage = nopage
  Nobody = nobody
  MinSizes = {1, 3}
  IncludeReadonly = TRUE
  MaxTracked = 5
  MaxWrites = 1
  MaxTriggers = 2
  MaxFailures = 1

CHECK_DEADLOCK FALSE
INVARIANTS TypeOK ImageIsFrozen AnswerIsOwn 
