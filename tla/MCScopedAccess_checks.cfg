CONSTANTS
  s1 = s1
  s2 = s2
  s3 = s3
  h1 = h1
  h2 = h2
  Section <- MCSection
  Module = {}
  Operator = {"o"}
  Handler <- MCHandler
  Admin = {"a"}
  MaxRows = 1
SYMMETRY Symmetry
SPECIFICATION EditorSpec
INVARIANT ScopedTypeOK
INVARIANT MenuAgreesWithCheck
INVARIANT AuthorizedIsReachable
PROPERTY NoStaleGrant
PROPERTY ScopeIsInherited
CHECK_DEADLOCK FALSE
