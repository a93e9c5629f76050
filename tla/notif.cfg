SPECIFICATION FairSpec

CONSTANTS
  Handlers = {h1, h2}
  Nobody = Nobody
  Clients = {c1}
  Names = {n1, n2}
  n1 = n1
  n2 = n2
  c1 = c1
  Spelling <- Spellings
  LayerSpelling <- LayerLikeName
  Interest <- OneInterest
  Garbage = Garbage
  AnyPattern = {}
  PipeCap = 40
  MaxChanges = 4
  MaxTermChanges = 2

CHECK_DEADLOCK FALSE
INVARIANTS TypeOK NothingLostBeforeFull NothingLostInStep DispatchedInOrder
PROPERTIES ChangesAreDispatched
