\* No limit, a limit shorter and one longer than a request; two pauses, one of
\* them the default.  The SP's clock is ahead by a quarter of a minute.
SPECIFICATION FairSpec
CONSTANTS
  States <- MCStates
  UntilOpts = {0, 1, 4}
  EveryOpts = {0, 1}
  DefaultEvery = 2
  RequestTimeout = 2
  Minute = 4
  Minutes = 2
  Skew = 1
  Faulty = TRUE
  Delay = 1
  Signers <- MCSigners
  Policies <- MCPolicies
INVARIANTS
  IInv
  ReturnsInTime
  EndBeatsDeadline
  AuthIsRight
PROPERTIES
  PollsArePaced
  EndIsNoticed
