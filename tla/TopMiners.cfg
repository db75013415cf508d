\* Rankings of 0 to 4 miners that may change between two requests, pages of at
\* most two, 1 to 5 miners wanted, pages past the end that are empty or fail.
SPECIFICATION Spec
CONSTANTS
  Miners = {m1, m2, m3, m4}
  TopOpts = {0, 1, 2, 3, 5}
  DefaultTop = 4
  PageCap = 2
  PastEnd = {"empty", "500"}
INVARIANTS
  IInv
  ResultIsTop
  AtMostTop
  RequestsBounded
