SPECIFICATION Spec
CONSTANTS
  A = A  B = B  C = C  p1 = p1  p2 = p2  sa = sa  sb = sb  sc = sc  w1 = w1  w2 = w2
  Policies = {p1, p2}
  Networks = {A, B}
  Subnets = {sa, sb}
  Workers = {w1, w2}
  Blank = Blank  Absent = Absent  NoWorker = NoWorker
  TextMatch <- Plain
  Annotations <- Parsed
  PolicyValues <- OnlyP1
  NetworkValues <- OneSubnet
  PolicyVerbs = {"ADD"}
  NetworkVerbs = {"ADD", "DELETE"}
  MaxEvents = 4
  MaxStops = 0
INVARIANT SelectedIsFiltered
SYMMETRY WorkerSymmetry
CHECK_DEADLOCK FALSE
