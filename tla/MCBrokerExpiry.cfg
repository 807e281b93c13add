SPECIFICATION FairSpec
CONSTANTS
  c1 = c1
  c2 = c2
  s1 = s1
  s2 = s2
  main1 = main1
  Ids = {i1}
  NoSession = NoSession
  Never = Never
  Lifetime = 1
  MaxTime = 0
  Command = "unlock"
  Main = main1
  Clients = {c1, c2}
  Holders <- MCHolders
  Child = c1
  Admins = {a1}
  Secrets = {s1, s2}
  All = All
  Malformed = Malformed
  Rules <- MCRules
  Listers = {c2}
  GrantSecrets = {s1}
  MaxRequests = 1
PROPERTY ExpiredKeyIsDropped
CHECK_DEADLOCK FALSE
