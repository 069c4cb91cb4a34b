SPECIFICATION Spec
CONSTANTS
  maxHash = 1
  count = 1
  Nodes = {n1, n2}
  Schedulers = {c1, c2}
  replicationFactor = 1
  MaxCrashes = 1
  MaxTimeouts = 1
  MaxElections = 1
  MaxFaults = 2
INVARIANT TypeOK
PROPERTY NeverOverAssigned
