\* Up to three addresses; a silent server takes two units, any other at most one.
SPECIFICATION Spec
CONSTANTS
  h1 = h1
  h2 = h2
  odd = odd
  Addrs <- MCAddrs
  MaxAddrs = 3
  BadHosts = {odd}
  Timeout = 2
  Delay = 1
INVARIANTS
  IInv
  CandidatesRight
  FirstWorkingWins
  FoundIfThere
  LatencyIsItsOwn
  ReturnsInTime
