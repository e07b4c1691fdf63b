SPECIFICATION FairSpec
CONSTANTS
  i1 = i1  i2 = i2  none = none
  Ids = {i1, i2}
  Threshold = 2
  None = none
INVARIANTS TypeOK NoGhost
PROPERTIES FlipsOnlyOnAgreement UpIsReported
CHECK_DEADLOCK TRUE
