CONSTANTS
  t1 = t1
  t2 = t2
  t3 = t3
  va = va
  vb = vb
  vc = vc
  vd = vd
  ve = ve
  None = None
  Threads = {t1, t2, t3}
  Ids <- AllIds
  Key1 <- MCKey1
  Key2 <- MCKey2
  Feed <- MixedFeed
SPECIFICATION FairSpec
INVARIANTS
  MapAccessExclusive
  OnlyOwnRecords
  NoSampleLost
  RatioDoesNotWrap
PROPERTIES
  EntriesNeverChange
  ReportIsWritten
  CacheIsAStore
CHECK_DEADLOCK FALSE
