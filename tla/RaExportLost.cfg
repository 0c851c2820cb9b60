SPECIFICATION Spec
CONSTANTS
  s1 = s1
  s2 = s2
  c1 = c1
  c2 = c2
  Subnets = {s1, s2}
  Foreign = {}
  Cudns = {c1}
  CudnOf <- Shared
  PodsOf <- OnePod
  Workers = {w1, w2}
  RouteCap = 2
  MaxAdds = 1
SYMMETRY WorkerSymmetry
INVARIANT
  PingsKept
