SPECIFICATION Spec
CONSTANTS
  NIfaces = 2
  NAddrs = 2
  Workers = {w1, w2}
  StaleCount = 3
INVARIANT
  CleanFailure
