\* Five blocks, three timestamps and one reorganisation; two legs, six
\* instants and three units; three accounts and three grants or revokes.
SPECIFICATION AlignedSpec
CONSTANTS
  MaxBlock = 4
  MaxTime = 2
  Reorgs = 1
  Legs = {l1, l2}
  MaxInstant = 5
  MaxUnits = 3
  LockLag = 0
  MintLag = 2
  Unbacked = TRUE
  Accounts = {a1, a2, a3}
  MaxMembers = 3
  MaxRoleMoves = 3
SYMMETRY Alike
INVARIANTS
  HighestAtOrBefore
  NoFalseBreach
  NoMissedBreach
  HoldersInFull
PROPERTIES
  ProbesHalve
\* time stops at MaxInstant
CHECK_DEADLOCK FALSE
