SPECIFICATION Spec
CONSTANTS
  a = a  b = b  u = u  v = v
  Hosts = {a, b}
  Mappings <- MCMappings
  OnDemandPorts = {8080, 9443}
  Upstreams = {u, v}
  HTTPSPort = 443
  HTTPPort = 80
  MgmtBind = TRUE
  MgmtBindPort = 9000
  InitialStates <- MCInitialStates
  CertSets = {{a, b}, {a}}
  LoadableSets = {{u, v}, {u}}
  Contended = {8080}
INVARIANTS TypeOK ServedOrReported ListenersNeeded NoProxyLoop HealthFollowsSnapshot
PROPERTIES RoutesFollowListeners
CHECK_DEADLOCK TRUE
