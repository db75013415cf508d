\* Two runs over a file that others write once, with sizes on both sides of the
\* serial threshold; hashing may take longer than the timeout.
SPECIFICATION FairSpec
CONSTANTS
  Unset = Unset
  DefaultDuration = 518400
  FlagSets <- MCFlagSets
  Products <- MCProducts
  Sizes = {0, 2, 3}
  Threshold = 2
  MinPiece = 1
  Deadline = 2
  HashTime = 3
  MaxRuns = 2
  MaxWrites = 1
INVARIANTS
  IInv
  CommitmentKept
  ReturnsInTime
  BuilderNeverRefuses
  BuildersRight
PROPERTIES
  Promise
  CommandEnds
