\* A watch deleted while its check is awaited.
SPECIFICATION Spec
CONSTANTS
  r1 = r1
  w1 = w1
  w2 = w2
  Registry <- MCRegistry
  Watches <- MCWatches
  Outcomes <- MCOutcomes
  DefaultRatio <- MCDefaultRatio
  WatchRatio <- MCWatchRatio
  Faults = {}
INVARIANTS
  NoGhostRow
