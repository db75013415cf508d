\* One call: four payload units, chunks of one unit (the default for 0) or of
\* three, two workers (the default for 0); the body, any PUT, the finalize and
\* the ctx may fail.
SPECIFICATION FairSpec
CONSTANTS
  L = 4
  ConcurrencyOpt = 0
  DefaultConcurrency = 2
  ChunkSizeOpts = {0, 3}
  DefaultChunkSize = 1
  MaxAttempts = 1
  BodyMayFail = TRUE
INVARIANTS
  FinalizeOnlyComplete
  RootCause
  NoGoroutineOutlives
  IInv
PROPERTY UploadReturns
