\* One address read by read, thirteen accounts and two changes; or two
\* addresses, two processes and three commands over one file.
SPECIFICATION AuthoritySpec
CONSTANTS
  o1 = o1
  o2 = o2
  m1 = m1
  m2 = m2
  Modules <- MCModules
  Accounts <- MCAccounts
  PageSize = 1
  MaxPages = 3
  MaxChanges = 2
  ReadsFail = TRUE
  Addresses = {a1, a2}
  States = {s1, s2}
  Processes = {p1, p2}
  MaxCommands = 3
  MaxDrift = 2
SYMMETRY FileSymmetry
INVARIANTS
  QuietCheckIsExact
  NoPhantomAuthority
  AlertsTellStatus
  CleanCheckVouchesForAll
\* the commands are bounded
CHECK_DEADLOCK FALSE
