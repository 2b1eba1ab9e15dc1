SPECIFICATION Spec
CONSTANTS
  MaxAttempts = 3
  Imported = 2
  FaultSets <- MCStartFails
CHECK_DEADLOCK FALSE
INVARIANT DeadLetterRecorded
