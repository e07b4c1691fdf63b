SPECIFICATION Spec
CONSTANTS
  d1 = d1  d2 = d2  i1 = i1  i2 = i2  i3 = i3  bad = bad  noalloc = noalloc
  Instances = {d1, d2}
  ConfigFiles <- MCConfigFiles
  InitialFiles <- MCInitialFiles
  Spellings = {"a"}
  Names = {"a"}
  Canon <- MCCanon
  BadHost = bad
  Labels = {"l"}
  Owners = {"ops"}
  AllocIds = {i1, i2, i3}
  NoAlloc = noalloc
  MgmtHost = bad
  Texts <- MCTexts
  AllowedHosts = {"localhost", "box"}
  Requests <- MCRequests
SYMMETRY Sym
INVARIANTS TypeOK FileLoads
PROPERTIES   GrantsFit
CHECK_DEADLOCK TRUE
