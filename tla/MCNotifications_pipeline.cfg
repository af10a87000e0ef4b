CONSTANTS
  n1 = n1
  n2 = n2
  h1 = h1
  Notification <- MCNotification
  Batches <- MCBatches
  Handler <- MCHandler
  MaxAttempts = 2
  MaxStalls = 1
  MaxRetries = 1
  MaxStops = 2
SPECIFICATION Spec
INVARIANT TypeOK
INVARIANT CopiesBounded
INVARIANT RecordedBeforeQueued
PROPERTY EveryJobEnds
PROPERTY KeepsPromise
CHECK_DEADLOCK FALSE
