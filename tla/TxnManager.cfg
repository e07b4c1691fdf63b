SPECIFICATION Spec
CONSTANTS
  i1 = i1  i2 = i2  i3 = i3  c1 = c1  c2 = c2
  bad = bad  noalloc = noalloc  nostate = nostate
  Spellings <- MCSpellings
  Names <- MCNames
  Canon <- MCCanon
  BadHost = bad
  Labels = {"l"}
  Owners = {"ops"}
  AllocIds = {i1, i2, i3}
  NoAlloc = noalloc
  PoolStart = 9001
  PoolEnd = 9002
  HTTPSPort = 443
  HTTPPort = 80
  MgmtBindPort = 0
  MgmtHost = "mgmt"
  Texts <- MCTexts
  AllowedHosts = {"localhost", "box"}
  Requests <- MCRequests
  Callers = {c1, c2}
  InitialFiles <- MCInitialFiles
  CertSets = {{"a", "b"}, {"b"}}
  CASets = {{"corp"}, {}}
  NoState = nostate
  MaxEvents = 0
SYMMETRY Sym
INVARIANTS TypeOK PublishedSound RemovalsPass ResendHarmless
CHECK_DEADLOCK TRUE
