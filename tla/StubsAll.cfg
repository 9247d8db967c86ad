SPECIFICATION FairSpec
CONSTANTS
  t1 = t1
  t2 = t2
  Threads = {t1, t2}
  NoThread = NoThread
  Calls <- AllCalls
  Ready = {t2}
  MaxCalls = 1
INVARIANTS TypeOK PointersValid NothingLeaks
PROPERTY OthersComplete
