SPECIFICATION FairSpec
CONSTANTS
  A = A  B = B  C = C  p1 = p1  p2 = p2  sa = sa  sb = sb  sc = sc  w1 = w1  w2 = w2
  Policies = {p1, p2}
  Networks = {A, B}
  Subnets = {sa, sb}
  Workers = {w1, w2}
  Blank = Blank  Absent = Absent  NoWorker = NoWorker
  TextMatch <- Plain
  Annotations <- Parsed
  PolicyValues <- Shared
  NetworkValues <- OneSubnet
  PolicyVerbs = {"ADD", "UPDATE", "DELETE"}
  NetworkVerbs = {"ADD", "UPDATE", "DELETE"}
  MaxEvents = 3
  MaxStops = 1
INVARIANT TypeOK
INVARIANT LinkedIsClosed
PROPERTY Settles
CHECK_DEADLOCK FALSE
