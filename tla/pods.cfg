SPECIFICATION FairSpec
CONSTANTS
  x = x  y = y  weave = weave  flannel = flannel  bridge = bridge  ghost = ghost
  net1 = net1  net2 = net2  net3 = net3  OtherIf = OtherIf  Blank = Blank  Absent = Absent
  Pods = {x}
  Names = {weave, flannel, bridge, ghost}
  DefaultPlugin = weave
  SmartNames = {weave, flannel}
  ShortNames = {TRUE, FALSE}
  Binaries = {weave, flannel, bridge}
  Supported = {bridge}
  Files = {1, 2, 3}
  ConfLists = {}
  FileMatches <- Matches
  DefaultFile <- BridgeFile
  InitialFiles = {1, 2, 3}
  Networks = {net1, net2, net3}
  Logical <- NetworkObjects
  PodValues <- Various
  MaxEdits = 0
  MaxFailures = 4
  MaxUnread = 0
  MaxAdds = 3
  MaxKills = 2
INVARIANT NoLeak
INVARIANT AttachedAsAsked
INVARIANT AddressesRecorded
INVARIANT InterfacesDiffer
PROPERTY PodsAreAttached
PROPERTY TornDown
CHECK_DEADLOCK FALSE
