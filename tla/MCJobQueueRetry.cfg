SPECIFICATION FairSpec
CONSTANTS
  MaxAttempts = 3
  Imported = 2
  FaultSets <- MCDelayedRetry
CHECK_DEADLOCK FALSE
PROPERTY FailuresRetried
