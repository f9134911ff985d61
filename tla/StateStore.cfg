SPECIFICATION StoreSpec
CONSTANTS
  Writer = { p1, p2 }
  StaleAge = 1
  MaxTries = 3
  MaxUpdates = 2
  MaxCrashes = 1
  Stalls = FALSE
INVARIANT NoLostUpdate
PROPERTIES IsAtomic
SYMMETRY Symmetry
CHECK_DEADLOCK FALSE
