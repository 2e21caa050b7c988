\* A call held up between its reading of the clock and the lock.
SPECIFICATION Spec
CONSTANTS
  Calls = {c1, c2, c3, c4}
  Keys = {a, b}
  Limit = 1
  Window = 2
  MaxBuckets = 1
  MaxTime = 5
SYMMETRY CallSymmetry
INVARIANTS DeniedMustWait
