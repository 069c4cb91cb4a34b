SPECIFICATION Spec
CONSTANTS
  SourceIds = {s1, s2}
  Timestamps = {1, 2}
  Storages = {t1, t2, t3}
  Nil = Nil
  Putters = {p1}
  Readers = {r1}
  maxPerSource = 5
  maxTimestampFudge = 5
  PrunePercentages = {50}
  MIN_INT64 = 99
  MaxPuts = 3
INVARIANT NeverPanics
