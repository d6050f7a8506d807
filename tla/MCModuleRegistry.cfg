SPECIFICATION MCSpec
CONSTANTS
  Names <- MCNames
  Paths <- MCPaths
  Digests <- MCDigests
  Functions <- MCFunctions
  Documents <- MCDocuments
INVARIANTS
  RegistryTypeOK
  SingleGeneration
  PartialLoadIsPrefix
  SummariesAgree
  BlocksHoldTheFile
PROPERTY
  TrustComesFromManifest
