SPECIFICATION Spec
CONSTANTS
  a = a  b = b  u = u  v = v
  Hosts = {a, b}
  Mappings <- MCMappings
  OnDemandPorts = {8080, 9443}
  Upstreams = {u, v}
  HTTPSPort = 443
  HTTPPort = 80
  MgmtBind = FALSE
  MgmtBindPort = 0
  InitialStates <- MCEmpty
  CertSets = {{a, b}}
  LoadableSets = {{u, v}}
  Contended = {}
INVARIANTS ConsistentAfterEveryChange
CHECK_DEADLOCK TRUE
