\* A retried stream outlives the timeout: no backoff, no build and no write takes
\* time, so what is left is the second deadline.
SPECIFICATION FairSpec
CONSTANTS
  MaxAttempts = 3
  GenerateTimeout = 2
  BaseBackoffs = {0}
  BackoffCap = 3
  WordBits = 4
  InitTime = 0
  MaxChunks = 2
  MaxStall = 0
INVARIANTS StreamBoundedByTimeout
