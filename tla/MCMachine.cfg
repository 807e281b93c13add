SPECIFICATION Spec
CONSTANTS
  c1 = c1
  r1 = r1
  Unlockers = {u1}
  Runners = {r1}
  Children = {c1}
  LaunchedBy <- MCLaunchedBy
  Callers = {x1}
  Former = Former
  None = None
INVARIANTS
  MachineTypeOK
  OneServesEachPipe
  FileNamesNoneThatEnded
  NoConnectionForgotten
PROPERTIES
  GrantsStayHome
  CallsReturn
CHECK_DEADLOCK FALSE
