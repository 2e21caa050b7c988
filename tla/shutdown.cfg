\* Two requests of one or two keys, one slot in the cache, and a shutdown that
\* may come at any time.
SPECIFICATION ShutdownSpec
CONSTANTS
  Requests = {r1, r2}
  Providers = {googleai}
  ApiKeys = {k1, k2}
  NoRequest = NoRequest
  TTL = 1
  MaxSize = 1
  MaxTime = 2
  JanitorLag = 0
INVARIANTS OnlyLateRequestsRefused UncountedNeverServed
PROPERTIES TornOnlyByPressure GetReturns ShutdownCompletes
