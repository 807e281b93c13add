SPECIFICATION FairSession
CONSTANTS
  Ids = {i1, i2, i3}
  Holders = {h1, h2}
  NoSession = NoSession
  Never = Never
  Lifetime = 1
  MaxTime = 2
INVARIANT SessionTypeOK
PROPERTIES
  LiveSessionStays
  ExpiredKeyIsDropped
CHECK_DEADLOCK FALSE
