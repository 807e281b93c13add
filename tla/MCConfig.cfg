SPECIFICATION Spec
CONSTANTS
  anywhere = anywhere
  lib = lib
  node = node
  s1 = s1
  set1 = set1
  set2 = set2
  Procs = {p1, p2}
  Settings = {set1, set2}
  Secrets = {s1}
  Star = Star
  Dirs = {anywhere, lib}
  Files = {node}
  Bare = Bare
  Patterns = {anywhere}
  Empty = Empty
  Drafts <- MCDrafts
  Default <- MCDefault
  Installed <- MCInstalled
  MaxCommands = 3
SYMMETRY Symmetry
INVARIANTS
  ConfigTypeOK
  BackupHoldsWhatIsReplaced
  MigrationKeepsTheRest
  WildcardIsOptedIn
  ValidatedRulesGrant
CHECK_DEADLOCK FALSE
