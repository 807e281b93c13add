SPECIFICATION FairSpec
CONSTANTS
  Procs = {p1, p2}
  Names = {n1}
  Passwords = {w1, w2}
  Secrets = {s1}
  Values = {v1}
  NoValue = NoValue
  NoProc = NoProc
  MaxOps = 3
  MaxCrashes = 1
  CorruptWrites = TRUE
INVARIANT LockIsWithItsUser
PROPERTIES
  MigrationKeepsSecrets
  OperationsReturn
CHECK_DEADLOCK FALSE
