SPECIFICATION Spec
CONSTANTS
  Procs = {p1, p2}
  Names = {n1, n2}
  Passwords = {w1, w2}
  Secrets = {s1}
  Values = {v1}
  NoValue = NoValue
  NoProc = NoProc
  MaxOps = 4
  MaxCrashes = 1
  CorruptWrites = FALSE
SYMMETRY Symmetry
INVARIANTS
  TypeOK
  HandleStaysValid
  PasswordOpensPayload
  V1NeverLost
PROPERTY ImplementsVaultSpec
CHECK_DEADLOCK FALSE
