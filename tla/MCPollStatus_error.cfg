\* Every request gets through within a quarter of a minute and the clocks agree.
SPECIFICATION Spec
CONSTANTS
  States <- MCStates
  UntilOpts = {0, 1, 4}
  EveryOpts = {0, 1}
  DefaultEvery = 2
  RequestTimeout = 2
  Minute = 4
  Minutes = 2
  Skew = 0
  Faulty = FALSE
  Delay = 1
  Signers <- OnlyOurs
  Policies <- OnlyEveryone
INVARIANT EndsAsDocumented
