CONSTANTS
  Interval = 1
  BackoffStart = 4
  BackoffMax = 6
  N = 3
  MaxWorkers = 2
  MaxAttempts = 2
  RetryUnit = 1
  RetryMax = 2
  Timeout = 1
  Jitter = 1
SPECIFICATION FairSpec
INVARIANTS
  TypeOK
  SlotsSpaced
  PauseInForce
  WaitBounded
PROPERTIES
  NoSlotInsidePause
  OnlyFreshAnswersCount
  Terminates
\* The model stops when every ticker has its verdict.
CHECK_DEADLOCK FALSE
