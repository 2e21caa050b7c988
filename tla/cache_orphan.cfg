\* A build that outlives the TTL while a second call looks the key up.
SPECIFICATION Spec
CONSTANTS
  Requests = {r1, r2, r3}
  Providers = {googleai}
  ApiKeys = {k1, k2}
  NoRequest = NoRequest
  TTL = 1
  MaxSize = 0
  MaxTime = 3
  JanitorLag = 0
SYMMETRY CacheSymmetry
INVARIANTS NoBuildOrphaned
