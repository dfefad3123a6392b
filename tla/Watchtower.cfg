\* Requests, ticks and restarts at every point where they can come, no fault;
\* and one route's file, whose process may die inside a write.
SPECIFICATION DiskSpec
CONSTANTS
  r1 = r1
  w1 = w1
  w2 = w2
  Registry <- MCRegistry
  Watches <- MCWatches
  Outcomes <- MCAllOutcomes
  DefaultRatio <- MCDefaultRatio
  WatchRatio <- MCWatchRatio
  Faults = {}
  RING = 5
  COMPACT_AT = 6
  MaxStored = 14
  MaxCrashes = 2
INVARIANTS
  AlertsTellStatus
  BoardIsStore
  FailingMatchesStore
  RestartKeepsHistory
PROPERTIES
  WatchAppears
  ImplementsAlertLedger
