CONSTANTS
  t1 = t1
  t2 = t2
  t3 = t3
  h1 = h1
  Type <- MCType
  Defaults <- MCDefaults
  Language <- MCLanguage
  Handler <- MCHandler
  MaxTrail = 3
SPECIFICATION Spec
INVARIANT ButtonsDoWhatTheySay
