CONSTANTS
  n = n
  s = s
  i1 = i1
  i2 = i2
  User <- MCUser
  h1 = h1
  h2 = h2
  Handler = {h1}
  GrantableRoles = {"SUPER_ADMIN", "EMPLOYEE"}
  Seed <- AtMostOneAccount
  Identity = {i1}
  Initial = n
  LeftoverButtons = {s}
  QueueTakesBigInt = TRUE
  MaxRequests = 2
SPECIFICATION Spec
INVARIANT TypeOK
INVARIANT ConfirmationUsedOnce
INVARIANT IdentityUnique
PROPERTY KeepsAdmission
CHECK_DEADLOCK FALSE
