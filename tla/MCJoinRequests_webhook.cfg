CONSTANTS
  n = n
  s = s
  i1 = i1
  i2 = i2
  User <- MCUser
  h1 = h1
  h2 = h2
  Handler <- MCHandler
  GrantableRoles = {"SUPER_ADMIN", "EMPLOYEE"}
  Seed <- TwoSuperAdmins
  Identity <- MCIdentity
  Initial = n
  LeftoverButtons = {s}
  QueueTakesBigInt = TRUE
  MaxRequests = 2
SPECIFICATION Spec
PROPERTY ChecksHoldAtWrite
CHECK_DEADLOCK FALSE
