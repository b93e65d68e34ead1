SPECIFICATION Spec
CONSTANTS
  A = A  B = B  C = C  p1 = p1  p2 = p2  sa = sa  sb = sb  sc = sc  w1 = w1  w2 = w2
  Policies = {p1, p2}
  Networks = {A, B}
  Subnets = {sa, sb, sc}
  Workers = {w1, w2}
  Blank = Blank  Absent = Absent  NoWorker = NoWorker
  TextMatch <- Prefixed
  Annotations <- Parsed
  PolicyValues <- OnlyP1
  NetworkValues <- Moving
  PolicyVerbs = {"ADD", "UPDATE", "DELETE"}
  NetworkVerbs = {"ADD", "UPDATE", "DELETE"}
  MaxEvents = 4
  MaxStops = 1
INVARIANT KeysHandledOnce
INVARIANT NoDuplicateRules
INVARIANT RejectIsLast
INVARIANT NumberedDeletesAreExact
INVARIANT LinksArePaired
PROPERTY KeysAreHandled
SYMMETRY WorkerSymmetry
CHECK_DEADLOCK FALSE
