\* Every command on one contract or two, up to two failed reads in one check of one of them.
SPECIFICATION Spec
CONSTANTS
  MinDelay = 2
  Plans <- MCPlans
  Faults <- MCFaults
  MaxFaulty = 1
INVARIANTS
  SingleKeyNeverPasses
  CriticalIsReal
  FindingFailsTheBuild
\* the command ends
CHECK_DEADLOCK FALSE
