SPECIFICATION EgressSpec
CONSTANTS
  Nodes = {n1, n2}
  Sources = {s1}
  Calls = {c1, c2}
  None = None
  metaCacheDuration = 1
  MaxLatency = 1
  MaxChanges = 2
  MaxFaults = 1
INVARIANTS TypeOK MetaFresh OneHop
SYMMETRY Symmetry
