\* One route, and crashes inside the append of an observation.
SPECIFICATION TornSpec
CONSTANTS
  r1 = r1
  w1 = w1
  w2 = w2
  Registry <- MCRegistry
  Watches <- MCNoWatches
  Outcomes <- MCOutcomes
  DefaultRatio <- MCDefaultRatio
  WatchRatio <- MCWatchRatio
  Faults = {"crash"}
  RING = 5
  COMPACT_AT = 6
  MaxStored = 0
  MaxCrashes = 0
INVARIANTS
  NoRepeatedAlert
