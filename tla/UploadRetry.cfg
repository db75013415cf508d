\* A failed call is repeated with the same chunk size; requests of the first
\* call may be executed during or after the second.
SPECIFICATION Spec
CONSTANTS
  L = 3
  ConcurrencyOpt = 2
  DefaultConcurrency = 4
  ChunkSizeOpts = {0}
  DefaultChunkSize = 1
  MaxAttempts = 2
  BodyMayFail = FALSE
INVARIANTS
  SuccessMeansStored
  RetryInv
PROPERTY Promise
