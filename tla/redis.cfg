\* Two calls of one key from proxies whose clocks are off by one unit, one
\* retry each, over two windows, and one loss of the server's data.
SPECIFICATION Spec
CONSTANTS
  Calls = {c1, c2}
  Keys = {a}
  Limit = 1
  Window = 2
  Skew = 1
  MaxRetries = 1
  MaxTime = 4
  MaxResets = 1
SYMMETRY CallSymmetry
INVARIANTS SharedBudget RetryAfterSound
PROPERTIES ImplementsBudget
