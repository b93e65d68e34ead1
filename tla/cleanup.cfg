SPECIFICATION Spec
CONSTANTS
  A = A  B = B  C = C  p1 = p1  p2 = p2  sa = sa  sb = sb  sc = sc  w1 = w1  w2 = w2
  Policies = {p1, p2}
  Networks = {A, B}
  Subnets = {sa, sb}
  Workers = {w1, w2}
  Blank = Blank  Absent = Absent  NoWorker = NoWorker
  TextMatch <- Plain
  Annotations <- Parsed
  PolicyValues <- Overlapping
  NetworkValues <- OneSubnet
  PolicyVerbs = {"ADD", "DELETE"}
  NetworkVerbs = {"ADD", "DELETE"}
  MaxEvents = 5
  MaxStops = 0
INVARIANT PolicyRemovalKeepsOthers
INVARIANT NothingLeftBehind
SYMMETRY WorkerSymmetry
CHECK_DEADLOCK FALSE
