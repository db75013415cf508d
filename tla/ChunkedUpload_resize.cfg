\* The second call uses larger chunks than the first.
SPECIFICATION Spec
CONSTANTS
  L = 2
  ConcurrencyOpt = 1
  DefaultConcurrency = 4
  ChunkSizeOpts = {1, 2}
  DefaultChunkSize = 2
  MaxAttempts = 2
  BodyMayFail = FALSE
INVARIANT SuccessMeansStored
