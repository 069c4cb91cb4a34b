SPECIFICATION Spec
CONSTANTS
  k1 = k1
  key1 = key1
  key2 = key2
  u = u
  app = app
  name = name
  Kids = {k1}
  Keys = {key1, key2}
  NoKey = NoKey
  Malformed = Malformed
  Refreshers = {r1, r2, b1}
  MinimumRefreshInterval = 2
  UAATimeout = 1
  Users = {u}
  Apps = {app}
  ServiceInstances = {}
  AppNames = {name}
  Names <- MCNames
  Callers = {r1, r2}
  MAX_RETRIES = 1
  CacheExpirationInterval = 2
  CAPITimeout = 1
  NoEntry = NoEntry
  Requests = {r1, r2}
  Background = {b1}
  Tokens <- MCTokens
  Asks <- MCAsks
  MaxFaults = 1
INVARIANT TypeOK
 
PROPERTY SteadyKeysStay
PROPERTY EventuallyServed
PROPERTY ExpiredEntriesLeave
