SPECIFICATION FairSpec
CONSTANTS
  MaxAttempts = 3
  Imported = 2
  FaultSets <- MCFaultSets
CHECK_DEADLOCK FALSE
INVARIANTS
  JobInv CompletedHasDocuments NoAttemptRefused DocumentHasObject StagedForRetry
PROPERTY EveryJobEnds
