SPECIFICATION Spec
CONSTANTS
  node = node
  mevault = mevault
  s1 = s1
  Pids = {i0, i1, i2, i3}
  Server = i0
  NoPid = NoPid
  Exes = {mevault, node, agent}
  Mevault = mevault
  Denied = {agent}
  Signed = {mevault, node}
  Unknown = Unknown
  Secrets = {s1}
  Star = Star
  ListName = ListName
  AllowRules <- MCRules
  RequireIdentity = TRUE
  RequireSignature = TRUE
  RequireParent = TRUE
  Granted = {s1}
  Levels = 3
  MaxBirths = 4
SYMMETRY Symmetry
INVARIANTS
  IdentityTypeOK
  RecycledIsDetected
  GrantIsTheChilds
  DecisionIsOfTheLine
CHECK_DEADLOCK FALSE
