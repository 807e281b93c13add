SPECIFICATION Spec
CONSTANTS
  s1 = s1
  s2 = s2
  bare = bare
  quoted = quoted
  long = long
  Procs = {p1, p2}
  Names = {n1}
  Passwords = {w1}
  Secrets = {s1, s2}
  Values = {bare, quoted, long}
  NoValue = NoValue
  Trimmed <- MCTrimmed
  More <- MCMore
  Garbage <- MCGarbage
  Texts <- MCTexts
  MaxCommands = 2
SYMMETRY Symmetry
INVARIANT BackupRestores
CHECK_DEADLOCK FALSE
