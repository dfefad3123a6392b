\* The map ends: the last state of every behaviour has no successor.
SPECIFICATION FairSpec
CONSTANTS
  N = 4
  Limit = 3
  NaN = nan
  Retries = 2
  Replies = {"ok", "transient", "fatal"}
CHECK_DEADLOCK FALSE
INVARIANTS ResolvedInOrder OneCallerPerItem FailureReachesCaller
PROPERTY Settles
