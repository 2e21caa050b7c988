\* Three calls of up to three keys, one slot, a TTL of one tick and a clock of
\* three: shared builds, eviction, expiry, sweeps and Close in any order.
SPECIFICATION Spec
CONSTANTS
  Requests = {r1, r2, r3}
  Providers = {googleai}
  ApiKeys = {k1, k2, k3}
  NoRequest = NoRequest
  TTL = 1
  MaxSize = 1
  MaxTime = 3
  JanitorLag = 0
SYMMETRY CacheSymmetry
INVARIANTS
  TypeOK CredentialIsolation SingleFlight FailureNotCached MapWithinPeak
  LiveInstanceOwned CloseReleasesAll IdleCredentialReleased
PROPERTIES EntriesLeaveForCause
