SPECIFICATION Spec
CONSTANTS
  A = A
  B = B
  s = s
  t = t
  Nothing = Nothing
  Streamed = {1, 2}
  Envelopes = {1, 2, 3}
  Sources = {s, t}
  SourceOf <- MCSourceOf
  Nodes = {A, B}
  Entry = A
  Routes <- MCRoutes
  Writers = {w1, w2}
  Callers <- MCCallers
  NoCaller = NoCaller
  Handlers = {1, 2}
  StreamBufferSize = 1
  BATCH_CHANNEL_SIZE = 2
  ChannelSize = 1
  PeerBufferSize = 2
  PeerBatchSize = 2
  Syslog = Syslog
  Messages = {1}
  ParseError <- MCParseError
  Elements <- MCElements
  NewRoutes = {{A}}
  MaxFaults = 1
INVARIANT TypeOK
 
INVARIANT StoredWhereRouted
 
PROPERTY DeliveredUnlessMishap
