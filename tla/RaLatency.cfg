SPECIFICATION RaSpec
CONSTANTS
  s1 = s1
  c1 = c1
  Subnets = {s1}
  Foreign = {}
  Cudns = {c1}
  CudnOf <- Single
  PodsOf <- TwoPods
  Workers = {w1, w2}
  RouteCap = 2
  MaxAdds = 1
  NIfaces = 1
  NAddrs = 1
  ImportWorkers = {i1}
  StaleCount = 3
PROPERTIES
  RoutesVerified
  WorkersReturn
  StopReturns
