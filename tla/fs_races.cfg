SPECIFICATION Spec
CONSTANTS
  Procs = {p1, p2}
  Names <- TwoNames
  Values <- Contents
  Size <- Sizes
  Lists <- SingleEntries
  MaxOps = 4
  MaxCrashes = 1
  DiskMayFill = TRUE
SYMMETRY Symmetry
INVARIANTS TypeOK AbortsInRacesOnly
PROPERTIES FindsWhatWasSet OneWriterNoMixture
CHECK_DEADLOCK FALSE
