SPECIFICATION Spec
CONSTANTS
  Names <- MemoryNames
  Paths <- MemoryPaths
  Digests <- MCDigests
  Functions <- MemoryFunctions
  Documents <- MemoryDocuments
  EmptyName = 0
  EmptyFunction = ""
  RegexNames <- MemoryNames
  WatPaths <- MemoryPaths
  Blobs <- MCBlobs
  Sha256 <- MCSha256
  WordSize = 4
  MaxMemory = 3
  PayloadSizes = {1, 2, 3}
  MaxInput = 2
  MaxOutput = 2
  MaxFuel = 2
  None = None
INVARIANTS
  HostAccessInBounds
  ResourcesReleased
PROPERTIES
  FreedExactlyOnce
  ImplementsContract
  ExecuteReturns
