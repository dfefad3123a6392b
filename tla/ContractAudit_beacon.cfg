\* Tokens behind a beacon proxy.
SPECIFICATION Spec
CONSTANTS
  MinDelay = 2
  Plans <- MCBeaconPlans
  Faults <- MCFaults
  MaxFaulty = 1
INVARIANT
  ProxiesAreFollowed
CHECK_DEADLOCK FALSE
