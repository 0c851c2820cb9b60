SPECIFICATION Spec
CONSTANTS
  Spaces = {n1, n2}
  Vscs = {v1}
  Pvs = {p1, p2}
  MaxKills = 1
INVARIANT
  CleanupComplete
