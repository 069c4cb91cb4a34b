SPECIFICATION FairSpec
CONSTANTS
  SourceIds = {s1, s2}
  Timestamps = {1}
  Storages = {t1, t2}
  Nil = Nil
  Putters = {p1, p2}
  Readers = {r1}
  maxPerSource = 2
  maxTimestampFudge = 1
  PrunePercentages = {50, 100}
  MIN_INT64 = 9
  MaxPuts = 2
PROPERTIES
  TruncationEnds
  PutReturns
  MetaReturns
