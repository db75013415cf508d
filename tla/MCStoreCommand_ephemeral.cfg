\* The instance of MCStoreCommand.cfg; one of its flag sets has no wallet.
SPECIFICATION Spec
CONSTANTS
  Unset = Unset
  DefaultDuration = 518400
  FlagSets <- MCFlagSets
  Products <- MCProducts
  Sizes = {0, 2, 3}
  Threshold = 2
  MinPiece = 1
  Deadline = 2
  HashTime = 3
  MaxRuns = 2
  MaxWrites = 1
INVARIANT ClientIsStable
