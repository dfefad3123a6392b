\* Every fault at once: crashes, torn files, failed appends, an unreadable registry.
SPECIFICATION Spec
CONSTANTS
  r1 = r1
  w1 = w1
  w2 = w2
  Registry <- MCNoRegistry
  Watches <- MCTwoWatches
  Outcomes <- MCOutcomes
  DefaultRatio <- MCDefaultRatio
  WatchRatio <- MCWatchRatio
  Faults = {"crash", "torn", "appendFails", "sweepThrows"}
INVARIANTS
  NoRepeatedAlert
  AckedWatchesMonitored
PROPERTIES
  DeletedStaysDeleted
\* A torn watches.json keeps the process from coming up until someone repairs it.
CHECK_DEADLOCK FALSE
