SPECIFICATION Spec
CONSTANTS
  c1 = c1  c2 = c2
  AlwaysOn = {443}
  OnDemand = {8080}
  Bind = 0
  Clients = {c1, c2}
  MaxGen = 2
INVARIANTS StopsAccepting
CHECK_DEADLOCK FALSE
