\* Up to four miners in pages of two, one more wanted than there are.
SPECIFICATION Spec
CONSTANTS
  Miners = {m1, m2, m3, m4}
  TopOpts = {5}
  DefaultTop = 4
  PageCap = 2
  PastEnd = {"empty", "500"}
INVARIANT NeverPastEnd
