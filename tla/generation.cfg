\* Both endpoints, four attempts, two deltas each, no backoff or one that is capped
\* at the second attempt and overflows its word at the third, a client that may
\* stop reading for a while.
SPECIFICATION ReadingSpec
CONSTANTS
  MaxAttempts = 4
  GenerateTimeout = 2
  BaseBackoffs = {0, 2}
  BackoffCap = 3
  WordBits = 4
  InitTime = 3
  MaxChunks = 2
  MaxStall = 1
INVARIANTS TypeOK OneAttemptOnTheWire ResponseWellFormed DoneMeansComplete AnsweredUnlessPanicked ElapsedBounded
PROPERTIES EventuallyDone
