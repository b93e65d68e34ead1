SPECIFICATION Spec
CONSTANTS
  A = A  B = B  C = C  p1 = p1  p2 = p2  sa = sa  sb = sb  sc = sc  w1 = w1  w2 = w2
  Policies = {p1, p2}
  Networks <- ABC
  Subnets = {sa, sb, sc}
  Workers = {w1, w2}
  Blank = Blank  Absent = Absent  NoWorker = NoWorker
  TextMatch <- Plain
  Annotations <- Parsed
  PolicyValues <- Disjoint
  NetworkValues <- OneSubnet
  PolicyVerbs = {"ADD"}
  NetworkVerbs = {"ADD"}
  MaxEvents = 5
  MaxStops = 1
INVARIANT Enforced
SYMMETRY WorkerSymmetry
CHECK_DEADLOCK FALSE
