CONSTANTS
  s1 = s1
  s2 = s2
  s3 = s3
  h1 = h1
  h2 = h2
  Section <- MCSection
  Module = {"m"}
  Operator = {"o"}
  Handler <- MCHandler
SYMMETRY Symmetry
SPECIFICATION Spec
INVARIANT TypeOK
INVARIANT TwoLevels
PROPERTY KeepsCatalogue
CHECK_DEADLOCK FALSE
