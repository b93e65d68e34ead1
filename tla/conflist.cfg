SPECIFICATION Spec
CONSTANTS
  x = x  y = y  weave = weave  flannel = flannel  bridge = bridge  ghost = ghost
  net1 = net1  net2 = net2  net3 = net3  OtherIf = OtherIf  Blank = Blank  Absent = Absent
  Pods = {x}
  Names = {weave, flannel, bridge, ghost}
  DefaultPlugin = weave
  SmartNames = {weave, flannel}
  ShortNames = {FALSE}
  Binaries = {weave, flannel, bridge}
  Supported = {bridge}
  Files = {1, 2, 3}
  ConfLists = {3}
  FileMatches <- Matches
  DefaultFile <- BridgeFile
  InitialFiles = {1, 2, 3}
  Networks = {net1, net2, net3}
  Logical <- NetworkObjects
  PodValues <- Weaves
  MaxEdits = 0
  MaxFailures = 0
  MaxUnread = 0
  MaxAdds = 1
  MaxKills = 0
INVARIANT NoLeak
CHECK_DEADLOCK FALSE
