SPECIFICATION Spec
CONSTANTS
  x = x  y = y  weave = weave  flannel = flannel  bridge = bridge  ghost = ghost
  net1 = net1  net2 = net2  net3 = net3  OtherIf = OtherIf  Blank = Blank  Absent = Absent
  Pods = {x, y}
  Names = {weave, flannel, bridge, ghost}
  DefaultPlugin = weave
  SmartNames = {weave, flannel}
  ShortNames = {FALSE}
  Binaries = {weave, flannel, bridge}
  Supported = {bridge}
  Files = {1, 2, 3}
  ConfLists = {}
  FileMatches <- Matches
  DefaultFile <- BridgeFile
  InitialFiles = {2, 3}
  Networks = {net1, net2, net3}
  Logical <- NetworkObjects
  PodValues <- Placing
  MaxEdits = 1
  MaxFailures = 1
  MaxUnread = 1
  MaxAdds = 2
  MaxKills = 1
INVARIANT TypeOK
INVARIANT AddIsComplete
CHECK_DEADLOCK FALSE
