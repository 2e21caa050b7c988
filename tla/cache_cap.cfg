\* Two concurrent builds in a cache of size one.
SPECIFICATION Spec
CONSTANTS
  Requests = {r1, r2, r3}
  Providers = {googleai}
  ApiKeys = {k1, k2}
  NoRequest = NoRequest
  TTL = 0
  MaxSize = 1
  MaxTime = 0
  JanitorLag = 0
SYMMETRY CacheSymmetry
INVARIANTS CapHoldsWhenIdle
