SPECIFICATION MCSpec
CONSTANTS
  SourceIds = {s1, s2}
  Timestamps = {1, 2}
  Storages = {t1, t2, t3, t4}
  Nil = Nil
  Putters = {p1, p2}
  Readers = {}
  maxPerSource = 3
  maxTimestampFudge = 1
  PrunePercentages = {67}
  MIN_INT64 = 9
  MaxPuts = 5
SYMMETRY Symmetry
INVARIANTS
  TypeOK
  CountCoversStored
  IngressAccounted
  HeapEntriesLive
  MetaDescribesTree
PROPERTIES
  ImplementsCache
  OldestFirst
