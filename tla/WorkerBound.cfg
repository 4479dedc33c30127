SPECIFICATION Spec
CONSTANTS
  w1 = w1
  w2 = w2
  w3 = w3
  Workers <- MCThreeWorkers
  NumFiles = 5
  MayFail = {}
  Rivalry = FALSE
  MayDie = FALSE
INVARIANT FilesBounded
CHECK_DEADLOCK FALSE
