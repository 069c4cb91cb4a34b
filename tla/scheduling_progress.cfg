SPECIFICATION MCSpec
CONSTANTS
  maxHash = 7
  count = 3
  Nodes = {n1, n2}
  Schedulers = {c1}
  replicationFactor = 1
  MaxCrashes = 1
  MaxTimeouts = 1
  MaxElections = 0
  MaxFaults = 2
INVARIANT PublishedComplete
PROPERTY Converges
