SPECIFICATION QuerySpec
CONSTANTS
  Requests = {r1, r2}
  MaxFetches = 3
  KeyOrder <- MCKeyOrder
  interval = 2
  LookbackDelta = 4
  Digits = {"1"}
  Others = {"."}
  Stores <- MCStores
  Asks <- MCAsks
  Unparsable <- MCUnparsable
  Authorized <- MCAuthorized
  Instant = 8
  Instants <- MCInstants
  MaxFaults = 1
INVARIANTS QueryTypeOK AnswersRight FetchesBounded
