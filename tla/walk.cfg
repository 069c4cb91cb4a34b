SPECIFICATION WalkSpec
CONSTANTS
  Timestamps = {1, 2, 3}
  Kinds = {"log"}
  maxPerSource = 3
  maxTimestampFudge = 2
  Limits = {1, 2}
  MaxPuts = 4
  Walks <- MCWalks
  NoEnd = NoEnd
  delay = 2
  maxCount = 2
  MaxLatency = 1
  MaxNow = 5
  MaxErrors = 1
  Windows = 1
  interval = 1
CHECK_DEADLOCK FALSE
INVARIANT WalkTypeOK
INVARIANT NothingPassedOver
PROPERTY EachVisitedOnce
PROPERTY WalkReturns
