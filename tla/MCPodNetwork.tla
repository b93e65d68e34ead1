----------------------------- MODULE MCPodNetwork -----------------------------
(***************************************************************************)
(* Instances of the CNI plugin for TLC.                                    *)
(***************************************************************************)
EXTENDS PodNetwork, TLC

CONSTANTS x, y, weave, flannel, bridge, ghost, net1, net2, net3

PodRecord(cni, networks, multi, other) ==
  [cni |-> cni, networks |-> networks, multi |-> multi, other |-> other,
   chosen |-> FALSE]

Unset == [ips |-> {}, entry |-> 0, kind |-> "prefs"]
NoMap == [ips |-> {}, entry |-> 0, kind |-> "nomap"]
Net(n, ifname) == [net |-> n, ifname |-> ifname]

Plain     == PodRecord(<< >>, << >>, NoPrefs, FALSE)
Smart     == PodRecord(<< >>, << >>, NoPrefs, TRUE)
Both      == PodRecord(<<weave, flannel>>, << >>, Unset, FALSE)
Broken    == PodRecord(<<weave>>, << >>, NoMap, FALSE)
Unknown   == PodRecord(<<ghost, weave>>, << >>, NoPrefs, FALSE)
Bridged   == PodRecord(<<bridge>>, << >>, NoPrefs, FALSE)
Placed    == PodRecord(<<bridge, weave>>, << >>, Unset, FALSE)
ByNetwork == PodRecord(<< >>, <<Net(net1, Blank), Net(net1, 4), Net(net2, Blank)>>, NoPrefs, FALSE)
Clashing  == PodRecord(<< >>, <<Net(net1, Blank), Net(net2, 0)>>, NoPrefs, FALSE)
Dedicated == PodRecord(<< >>, <<Net(net2, Blank)>>, NoPrefs, FALSE)
Lost      == PodRecord(<< >>, <<Net(net1, Blank), Net(net3, Blank)>>, NoPrefs, FALSE)

\* A shared physical network under net1, a dedicated one under net2, no net3.
NetworkObjects ==
  (net1 :> [plugin |-> weave, physical |-> "shared"]
   @@ net2 :> [plugin |-> bridge, physical |-> flannel]
   @@ net3 :> Absent)

\* File 1 is 10-bridge.conf, 2 is 10-flannel.conf, 3 is 10-weave.conf.
Matches == {<<1, bridge>>, <<2, flannel>>, <<3, weave>>}
BridgeFile == (bridge :> 1)

Various == (x :> {Plain, Smart, Both, ByNetwork, Clashing, Unknown, Broken, Lost} @@ y :> {Both})
Placing == (x :> {Placed} @@ y :> {Bridged, Dedicated})
Weaves  == (x :> {PodRecord(<<weave>>, << >>, NoPrefs, FALSE)} @@ y :> {Bridged})
===============================================================================
