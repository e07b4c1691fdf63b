SPECIFICATION Spec
CONSTANTS
  a = a  b = b  mgmt = mgmt  c = c
  loop = loop  lan = lan  dead = dead  meta = meta
  rsa = rsa  ecdsa = ecdsa
  noname = noname  noroute = noroute
  Clients = {c}
  Hosts = {a, b, mgmt}
  MgmtHost = mgmt
  Spellings <- MCSpellings
  HTTPSPort = 443
  HTTPPort = 80
  States <- MCStates
  BindPorts = {9000}
  KeyTypes = {rsa, ecdsa}
  CertLists <- MCCertLists
  Offers <- MCOffers
  Allowed = {"box"}
  Resolutions <- MCResolutions
  Local = {loop}
  LinkLocal = {meta}
  Alive = {loop, lan, meta}
  NoName = noname
  NoRoute = noroute
  MaxApplies = 2
INVARIANTS TypeOK OnlyValidatedAddresses NoSelfConnection ClientsTrustTheirHost BlameIsDeserved
CHECK_DEADLOCK TRUE
