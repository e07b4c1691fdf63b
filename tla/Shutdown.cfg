SPECIFICATION FairSpec
CONSTANTS
  c1 = c1  c2 = c2
  AlwaysOn = {443}
  OnDemand = {8080}
  Bind = 0
  Clients = {c1, c2}
  MaxGen = 2
INVARIANTS TypeOK NoForgottenSocket
PROPERTIES DrainedBeforeExit ShutdownEnds AppliesReturn
CHECK_DEADLOCK FALSE
