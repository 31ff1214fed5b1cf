CONSTANTS
  s1 = s1
  l1 = l1
  ShortData <- MCShortData
  LongData <- MCLongData
  MaxData = 2
  ModLens <- MCModLens
  MinKeySize = 1024
  MaxKeySize = 4096
  ProviderMayFail = TRUE
  NoOp = NoOp
  NoOut = NoOut
SPECIFICATION Spec
PROPERTIES
  LifecycleRefinement
