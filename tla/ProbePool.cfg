\* Four miners, no concurrency configured and two slots by default, any mix of
\* probe results.
SPECIFICATION FairSpec
CONSTANTS
  N = 4
  ConcurrencyOpt = 0
  DefaultConcurrency = 2
  ProbeOutcomes = {"mk20", "plain", "nil"}
INVARIANTS
  IInv
  InFlightCapped
  AllCollected
PROPERTY PoolEnds
