SPECIFICATION Spec
CONSTANTS
  Timestamps = {1, 2, 3}
  Kinds = {"log", "counter"}
  maxPerSource = 4
  maxTimestampFudge = 2
  Limits = {1, 2, 3}
  MaxPuts = 4
INVARIANT AscKeepsGroups
