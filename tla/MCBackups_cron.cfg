CONSTANTS
  b1 = b1
  b2 = b2
  h2 = h2
  h1 = h1
  Cron = Cron
  None = None
  Backup <- MCBackup
  Handler <- MCHandler
  MaxStops = 1
SYMMETRY Symmetry
SPECIFICATION Spec
INVARIANT TypeOK
INVARIANT YoungIsKept
INVARIANT FilesHaveRows
INVARIANT InProgressIsWorkedOn
PROPERTY StatusIsFinal
CHECK_DEADLOCK FALSE
