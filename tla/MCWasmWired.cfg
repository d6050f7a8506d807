SPECIFICATION WiredSpec
CONSTANTS
  Names <- MCNames
  Paths <- MCPaths
  Digests <- MCDigests
  Functions <- MCFunctions
  Documents <- PolicyDocuments
  EmptyName = 0
  EmptyFunction = ""
  RegexNames <- MCRegexNames
  WatPaths <- MCWatPaths
  Blobs <- MCBlobs
  Sha256 <- MCSha256
  WordSize = 2
  MaxMemory = 1
  PayloadSizes = {1}
  MaxInput = 1
  MaxOutput = 1
  MaxFuel = 1
  None = None
INVARIANT
  VerifiedExecution
