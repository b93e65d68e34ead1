SPECIFICATION FairSpec
CONSTANTS
  policies = policies  networks = networks  p1 = p1  p2 = p2  n1 = n1
  Kinds = {policies, networks}
  Objects <- ThreeObjects
  Workers = {"w1", "w2"}
  MaxSignals = 3
  NoKey = NoKey
INVARIANT TypeOK
INVARIANT HandlersAreInformed
INVARIANT SuccessIsEarned
PROPERTY EveryObjectIsHandled
PROPERTY SignalEndsProcess
CHECK_DEADLOCK FALSE
