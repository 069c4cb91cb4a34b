SPECIFICATION Spec
CONSTANTS
  Timestamps = {1, 2, 3}
  Kinds = {"log", "counter"}
  maxPerSource = 5
  maxTimestampFudge = 3
  Limits = {1, 2, 3}
  MaxPuts = 6
INVARIANTS
  TypeOK
  GetSound
  GetComplete
  DescKeepsGroups
  AscSplitsBehindFirst
PROPERTY ImplementsCache
