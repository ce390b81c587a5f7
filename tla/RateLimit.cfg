SPECIFICATION Spec
CONSTANTS
  Checks = {c1, c2, c3}
  Keys = {k1}
  NoKey = NoKey
  Limit = 1
  WindowSeconds = 3
  FailClosed = TRUE
  Skew = 1
  MaxDial = 1
  MinClock = 2
  MaxClock = 8
SYMMETRY CheckSymmetry
INVARIANTS TypeOK LimitHolds RefusalIsEarned TwiceTheLimit
