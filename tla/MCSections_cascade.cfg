CONSTANTS
  s1 = s1
  s2 = s2
  s3 = s3
  h1 = h1
  h2 = h2
  Section <- MCSection
  Module = {"m"}
  Operator = {"o"}
  Handler = {h1}
SPECIFICATION Spec
PROPERTY DeletionCascades
CHECK_DEADLOCK FALSE
