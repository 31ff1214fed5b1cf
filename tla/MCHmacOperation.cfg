CONSTANTS
  SHA1 = SHA1
  SHA256 = SHA256
  d1 = d1
  d2 = d2
  Hashes <- MCHashes
  HashLen <- MCHashLen
  Data <- MCData
  MaxData = 2
  ProviderMayFail = TRUE
  NoOp = NoOp
  NoOut = NoOut
SPECIFICATION Spec
INVARIANTS
  TypeOK
  FinalizedOnlyAfterUse
  SignatureBindsMessage
  VerifyVerdictCorrect
PROPERTIES
  LifecycleRefinement
