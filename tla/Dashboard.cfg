SPECIFICATION FairSpec
CONSTANTS
  f1 = f1  f2 = f2  lbs = lbs  ports = ports  t1 = t1  t2 = t2  notoken = notoken
  Flows = {f1, f2}
  Parts = {lbs, ports}
  Tokens = {t1, t2}
  FirstToken = t1
  NoToken = notoken
  Limit = 1
  MaxVersion = 1
  MaxRestarts = 1
INVARIANTS TypeOK OnePoll FailuresBounded
PROPERTIES StalePollingEnds PageCatchesUp
CHECK_DEADLOCK TRUE
