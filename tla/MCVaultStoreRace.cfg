SPECIFICATION Spec
CONSTANTS
  Procs = {p1, p2}
  Names = {n1}
  Passwords = {w1}
  Secrets = {s1}
  Values = {v1}
  NoValue = NoValue
  NoProc = NoProc
  MaxOps = 2
  MaxCrashes = 0
  CorruptWrites = FALSE
INVARIANT UnlockMeetsNoCorruptFile
CHECK_DEADLOCK FALSE
