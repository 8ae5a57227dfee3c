CONSTANTS
  t1 = t1
  t2 = t2
  t3 = t3
  va = va
  vb = vb
  vc = vc
  vd = vd
  ve = ve
  None = None
  Threads = {t1}
  Ids <- AllIds
  Key1 <- MCKey1
  Key2 <- MCKey2
  Feed <- SecondKeyFeed
SPECIFICATION Spec
INVARIANT AddedToCache
CHECK_DEADLOCK FALSE
