CONSTANTS
  b1 = b1
  b2 = b2
  h2 = h2
  h1 = h1
  Cron = Cron
  None = None
  Backup <- MCBackup
  Handler <- MCHandler
  MaxStops = 1
SYMMETRY Symmetry
SPECIFICATION Spec
INVARIANT CompletedIsWhole
CHECK_DEADLOCK FALSE
