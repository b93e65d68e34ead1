----------------------------- MODULE PodNetwork ------------------------------
(***************************************************************************)
(* The CNI-Genie plugin of one node.  For every pod the kubelet runs the   *)
(* genie binary with ADD and DEL; an invocation reads the pod's            *)
(* annotations from the API server, works out the list of network          *)
(* solutions, and delegates to the plugin of each, found through the files *)
(* of /etc/cni/net.d.  Invocations for different pods run side by side and *)
(* share that directory; nothing but the pod's annotations and the         *)
(* plugins' own leases is left when one ends.                              *)
(***************************************************************************)
EXTENDS Naturals, Sequences, FiniteSets

CONSTANTS
  Pods,
  Names,          \* names of network solutions, as in the "cni" annotation
  Blank,          \* the empty string
  Absent,         \* no such object
  DefaultPlugin,  \* default_plugin of the genie configuration, or "weave"
  SmartNames,     \* what computeNetworkUsage may answer
  ShortNames,     \* whether the node may have an interface with a short name,
                  \* on which computeNetworkUsage panics: a set of Booleans
  Binaries,       \* names for which /opt/cni/bin holds a binary
  Supported,      \* names createConfIfBinaryExists has a default for
  Files,          \* conf files 1..n of /etc/cni/net.d, in sorted order
  ConfLists,      \* ... of which these end in .conflist
  FileMatches,    \* pairs <<file, name>>: the file's path contains the name
  DefaultFile,    \* DefaultFile[name]: "10-name.conf"
  InitialFiles,   \* files that hold a valid configuration from the start
  Networks,       \* names of LogicalNetwork objects
  Logical,        \* Logical[n]: a LogicalNetwork, or Absent
  OtherIf,        \* an interface name that does not contain "eth"
  PodValues,      \* PodValues[p]: how pod p may be annotated by its user
  MaxEdits,       \* bound on later changes of pods by users
  MaxFailures,    \* bound on calls that fail
  MaxUnread,      \* bound on reads that fail unnoticed
  MaxAdds,        \* bound on ADD invocations per pod
  MaxKills        \* bound on genie processes killed

(***************************************************************************)
(* Interface eth<k> is the number k.  An annotated pod has a list of names *)
(* ("cni"), a list of logical networks with optional interface names       *)
(* ("networks"), multi-ip-preferences, and possibly other annotations.     *)
(* The field chosen is no annotation: it tells a "cni" that genie wrote    *)
(* from one the user wrote, and no step depends on it.                     *)
(***************************************************************************)
Interfaces == Nat \cup {OtherIf}

\* "multi-ip-preferences": none, without an "ips" map, or a count and the
\* interfaces an address is recorded for.
NoPrefs == [ips |-> {}, entry |-> 0, kind |-> "none"]
Prefs   == [ips : SUBSET Nat, entry : Nat, kind : {"none", "nomap", "prefs"}]

NetworkEntries == [net : Networks, ifname : Interfaces \cup {Blank}]

PodRecords ==
  [cni : Seq(Names), networks : Seq(NetworkEntries), multi : Prefs, other : BOOLEAN,
   chosen : BOOLEAN]

\* A LogicalNetwork: its plugin, and its PhysicalNetwork: "none" when the field
\* is empty, "missing" when it cannot be read, "shared", or the plugin of a
\* dedicated one.
LogicalRecords == [plugin : Names, physical : {"none", "missing", "shared"} \cup Names]

ASSUME PodNetworkAssumption ==
  /\ Blank \notin Names \cup Interfaces /\ Absent \notin Names \cup PodRecords
  /\ DefaultPlugin \in Names /\ SmartNames \subseteq Names /\ ShortNames \subseteq BOOLEAN
  /\ Binaries \subseteq Names /\ Supported \subseteq Names
  /\ Files \subseteq Nat \ {0} /\ ConfLists \subseteq Files /\ InitialFiles \subseteq Files
  /\ FileMatches \subseteq Files \X Names
  /\ DefaultFile \in [Supported -> Files \ ConfLists]
  /\ \A n \in Supported : <<DefaultFile[n], n>> \in FileMatches
  /\ \A n \in Networks : Logical[n] = Absent \/ Logical[n] \in LogicalRecords
  /\ \A p \in Pods : PodValues[p] \subseteq {r \in PodRecords : ~r.chosen}
  /\ {MaxEdits, MaxFailures, MaxUnread, MaxAdds, MaxKills} \subseteq Nat

\* utils.PluginInfo; ifname is Blank when none is given.
Info(plugin, ifname) == [plugin |-> plugin, ifname |-> ifname]
Infos == [plugin : Names, ifname : Interfaces \cup {Blank}]

\* What an invocation of genie for a pod works with.
Invocations ==
  [cmd : {"ADD", "DEL"}, nets : Seq(NetworkEntries), infos : Seq(Infos), i : Nat, multi : Prefs,
   file : Files \cup {0}, result : BOOLEAN, err : BOOLEAN, choice : Names \cup {Blank}]

Invocation(cmd) ==
  [cmd |-> cmd, nets |-> << >>, infos |-> << >>, i |-> 1, multi |-> NoPrefs, file |-> 0,
   result |-> FALSE, err |-> FALSE, choice |-> Blank]

VARIABLES
  pod,      \* pod[p]: the annotations of pod p at the API server, or Absent
  confdir,  \* confdir[f]: "absent", "partial" or "valid"
  leases,   \* what plugins hold: [pod, file, ifname]
  sandbox,  \* kubelet's view of p: "clean", "running" or "dirty"
  pc,       \* where the genie process of p is; "none" when there is none
  inv,      \* its local variables
  short,    \* whether the node has an interface with a short name
  adds, edits, failures, unread, kills   \* bounds

faults == <<failures, unread, short>>
vars == <<pod, confdir, leases, sandbox, pc, inv, adds, edits, faults, kills>>

Labels == {"none", "start", "parse", "networks", "smart", "patch", "prefs", "next", "conf", "place",
           "write", "plugin", "record"}

TypeOK ==
  /\ \A p \in Pods : pod[p] = Absent \/ pod[p] \in PodRecords
  /\ confdir \in [Files -> {"absent", "partial", "valid"}]
  /\ leases \subseteq [pod : Pods, file : Files, ifname : Interfaces]
  /\ sandbox \in [Pods -> {"clean", "running", "dirty"}]
  /\ pc \in [Pods -> Labels]
  /\ inv \in [Pods -> Invocations]
  /\ adds \in [Pods -> Nat] /\ {edits, failures, unread, kills} \subseteq Nat
  /\ short \in BOOLEAN

Init ==
  /\ pod \in [Pods -> UNION {PodValues[p] : p \in Pods}]
  /\ \A p \in Pods : pod[p] \in PodValues[p]
  /\ confdir = [f \in Files |-> IF f \in InitialFiles THEN "valid" ELSE "absent"]
  /\ leases = {}
  /\ sandbox = [p \in Pods |-> "clean"]
  /\ pc = [p \in Pods |-> "none"]
  /\ inv = [p \in Pods |-> Invocation("DEL")]
  /\ short \in ShortNames
  /\ adds = [p \in Pods |-> 0] /\ edits = 0 /\ failures = 0 /\ unread = 0 /\ kills = 0
-----------------------------------------------------------------------------
(***************************************************************************)
(* The kubelet (external): at most one invocation per pod; a failed ADD or *)
(* DEL is followed by DEL; after a successful DEL the pod may be set up    *)
(* again.  Users edit and delete pods.                                     *)
(***************************************************************************)
Invoke(p, cmd) ==
  /\ pc[p] = "none"
  /\ pc' = [pc EXCEPT ![p] = "start"]
  /\ inv' = [inv EXCEPT ![p] = Invocation(cmd)]
  /\ sandbox' = [sandbox EXCEPT ![p] = "dirty"]
  /\ UNCHANGED <<pod, confdir, leases, edits, faults, kills>>

KubeletAdd(p) ==
  /\ sandbox[p] = "clean" /\ adds[p] < MaxAdds
  /\ Invoke(p, "ADD")
  /\ adds' = [adds EXCEPT ![p] = adds[p] + 1]

KubeletDel(p) ==
  /\ sandbox[p] # "clean"
  /\ Invoke(p, "DEL")
  /\ UNCHANGED adds

UserEdit(p) ==
  /\ edits < MaxEdits /\ edits' = edits + 1
  /\ pod[p] # Absent
  /\ \E r \in (PodValues[p] \cup {Absent}) \ {pod[p]} :
       pod' = [pod EXCEPT ![p] = IF r = Absent THEN Absent
                                 ELSE [r EXCEPT !.multi = pod[p].multi]]
  /\ UNCHANGED <<confdir, leases, sandbox, pc, inv, adds, faults, kills>>

Kill(p) ==
  /\ kills < MaxKills /\ kills' = kills + 1
  /\ pc[p] # "none"
  /\ pc' = [pc EXCEPT ![p] = "none"]
  /\ UNCHANGED <<pod, confdir, leases, sandbox, inv, adds, edits, faults>>
-----------------------------------------------------------------------------
(***************************************************************************)
(* One step of p's process, and its end.                                   *)
(***************************************************************************)
Goto(p, to, v) ==
  /\ pc' = [pc EXCEPT ![p] = to]
  /\ inv' = [inv EXCEPT ![p] = v]
  /\ UNCHANGED <<sandbox, adds, edits, kills>>

Exit(p, view) ==
  /\ pc' = [pc EXCEPT ![p] = "none"]
  /\ sandbox' = [sandbox EXCEPT ![p] = view]
  /\ UNCHANGED <<inv, adds, edits, kills>>

\* cmdAdd and cmdDel report a failure, or the process panics.
Fail(p) == Exit(p, "dirty") /\ UNCHANGED <<pod, confdir, leases, faults>>

CallFails == failures < MaxFailures /\ failures' = failures + 1 /\ UNCHANGED <<unread, short>>

\* ... or does so unnoticed: the code goes on as if the answer had been empty.
ReadUnnoticed == unread < MaxUnread /\ unread' = unread + 1 /\ UNCHANGED <<failures, short>>

\* len(annot) == 0
Bare(r) == r.cni = << >> /\ r.networks = << >> /\ r.multi = NoPrefs /\ ~r.other

\* loadArgs, getIdentifiers and GetKubeClient, each of which may fail
GetKubeClient(p) ==
  /\ pc[p] = "start"
  /\ \/ Goto(p, "parse", inv[p]) /\ UNCHANGED faults
     \/ CallFails /\ Exit(p, "dirty")
  /\ UNCHANGED <<pod, confdir, leases>>

AfterParse(cmd) == IF cmd = "ADD" THEN "prefs" ELSE "next"

\* parseCNIAnnotations on the annotations as they are now: no annotation at
\* all, a list of solutions, or neither.
ParsePodAnnotationsForCNI(p) ==
  /\ pc[p] = "parse"
  /\ LET r == pod[p]
         v == inv[p]
     IN
     \/ /\ r = Absent
        /\ Fail(p)
     \/ /\ r # Absent
        /\ IF Bare(r)
           THEN Goto(p, AfterParse(v.cmd), [v EXCEPT !.infos = <<Info(DefaultPlugin, Blank)>>])
           ELSE IF r.cni # << >>
           THEN Goto(p, AfterParse(v.cmd),
                     [v EXCEPT !.infos = [k \in DOMAIN r.cni |-> Info(r.cni[k], Blank)]])
           ELSE Goto(p, "networks", [v EXCEPT !.nets = r.networks])
        /\ UNCHANGED <<pod, confdir, leases, faults>>
     \/ /\ CallFails
        /\ Exit(p, "dirty")
        /\ UNCHANGED <<pod, confdir, leases>>

(***************************************************************************)
(* GetPluginInfoFromNwAnnot.  An entry without a colon gets eth0, eth1 and *)
(* so on, counting such entries only.  The plugin of a dedicated physical  *)
(* network takes precedence; a physical network that cannot be read, for   *)
(* good or this time (missed), is passed over.                             *)
(***************************************************************************)
\* Variation: the counter starts anew with every entry.
AutoFirst(ns, k) == 0

AutoBefore(ns, k) == Cardinality({j \in 1..(k - 1) : ns[j].ifname = Blank})

GetPluginInfoFromPhysicalNw(l) == IF l.physical \in Names THEN l.physical ELSE l.plugin

NetworksReadable(ns) ==
  \A k \in DOMAIN ns : /\ Logical[ns[k].net] # Absent
                       /\ Logical[ns[k].net].physical # "none"

GetPluginInfoFromNwAnnot(ns, missed) ==
  [k \in DOMAIN ns |->
     LET l == Logical[ns[k].net] IN
     Info(IF k \in missed THEN l.plugin ELSE GetPluginInfoFromPhysicalNw(l),
          IF ns[k].ifname = Blank THEN AutoBefore(ns, k) ELSE ns[k].ifname)]

\* The annotations are read again to see whether there are networks; those
\* used are the ones read before.  No networks, or a read that fails, leads on
\* to cAdvisor.
ParsePodAnnotationsForNetworks(p) ==
  /\ pc[p] = "networks"
  /\ LET v == inv[p]
         given == pod[p] # Absent /\ pod[p].networks # << >>
         resolved(missed) ==
           Goto(p, AfterParse(v.cmd), [v EXCEPT !.infos = GetPluginInfoFromNwAnnot(v.nets, missed)])
     IN
     \/ /\ ~given
        /\ Goto(p, "smart", v)
        /\ UNCHANGED faults
     \/ /\ given
        /\ IF v.nets # << >> /\ NetworksReadable(v.nets) THEN resolved({}) ELSE Exit(p, "dirty")
        /\ UNCHANGED faults
     \/ /\ given /\ CallFails
        /\ Exit(p, "dirty")
     \/ /\ given /\ ReadUnnoticed
        /\ \/ Goto(p, "smart", v)
           \/ NetworksReadable(v.nets) /\ \E k \in DOMAIN v.nets : resolved({k})
  /\ UNCHANGED <<pod, confdir, leases>>

\* GetCNSOrderByNetworkBandwith: what cAdvisor's numbers amount to is open here.
\* Where an interface has a short name every choice ends in a panic.
ChooseNetwork(p) ==
  /\ pc[p] = "smart"
  /\ \/ /\ ~short
        /\ \E c \in SmartNames : Goto(p, "patch", [inv[p] EXCEPT !.choice = c])
        /\ UNCHANGED faults
     \/ /\ short
        /\ Exit(p, "dirty")
        /\ UNCHANGED faults
     \/ CallFails /\ Exit(p, "dirty")
  /\ UNCHANGED <<pod, confdir, leases>>

\* The choice is written to the pod before it is used, by DEL too.
PatchChoice(p) ==
  /\ pc[p] = "patch"
  /\ LET v == inv[p] IN
     \/ /\ pod[p] # Absent
        /\ pod' = [pod EXCEPT ![p] = [pod[p] EXCEPT !.cni = <<v.choice>>, !.chosen = TRUE]]
        /\ Goto(p, AfterParse(v.cmd), [v EXCEPT !.infos = <<Info(v.choice, Blank)>>])
        /\ UNCHANGED faults
     \/ /\ pod[p] = Absent
        /\ Exit(p, "dirty")
        /\ UNCHANGED <<pod, faults>>
     \/ /\ CallFails
        /\ Exit(p, "dirty")
        /\ UNCHANGED pod
  /\ UNCHANGED <<confdir, leases>>

\* A failed read counts as "no preferences".
ParsePodAnnotationsForMultiIPPrefs(p) ==
  /\ pc[p] = "prefs"
  /\ \/ /\ Goto(p, "next", [inv[p] EXCEPT !.multi =
                              IF pod[p] = Absent THEN NoPrefs ELSE pod[p].multi])
        /\ UNCHANGED faults
     \/ ReadUnnoticed /\ Goto(p, "next", inv[p])
  /\ UNCHANGED <<pod, confdir, leases>>
-----------------------------------------------------------------------------
(***************************************************************************)
(* The loop over the plugins, in AddPodNetwork and in DeletePodNetwork.    *)
(***************************************************************************)
Current(v) == v.infos[v.i]

\* Variation: interfaces counted from the index before.
IfNameBefore(v) == IF Current(v).ifname = Blank THEN v.i - 2 ELSE Current(v).ifname

IfName(v) == IF Current(v).ifname = Blank THEN v.i - 1 ELSE Current(v).ifname

\* Variation: the error of the last plugin is the one that counts.
AdvanceLastError(v, failed) == [v EXCEPT !.i = v.i + 1, !.err = failed, !.file = 0]

Advance(v, failed) == [v EXCEPT !.i = v.i + 1, !.err = v.err \/ failed, !.file = 0]

\* Variation: DEL succeeds whatever its plugins say.
NextPluginForgiving(p) ==
  /\ pc[p] = "next"
  /\ LET v == inv[p] IN
     IF v.i <= Len(v.infos) THEN Goto(p, "conf", v)
     ELSE Exit(p, IF v.cmd = "DEL" THEN "clean" ELSE IF v.err THEN "dirty" ELSE "running")
  /\ UNCHANGED <<pod, confdir, leases, faults>>

NextPlugin(p) ==
  /\ pc[p] = "next"
  /\ LET v == inv[p] IN
     IF v.i <= Len(v.infos) THEN Goto(p, "conf", v)
     ELSE Exit(p, IF v.err THEN "dirty"
                  ELSE IF v.cmd = "ADD" THEN "running" ELSE "clean")
  /\ UNCHANGED <<pod, confdir, leases, faults>>

\* Variation: any file that parses will do.
FirstConfAny(fs, name) ==
  LET good == {f \in fs : confdir[f] = "valid"}
  IN  IF good = {} THEN 0 ELSE CHOOSE f \in good : \A g \in good : f <= g

\* The first file among fs that matches the name and parses; 0 if none does.
FirstConf(fs, name) ==
  LET good == {f \in fs : confdir[f] = "valid" /\ <<f, name>> \in FileMatches}
  IN  IF good = {} THEN 0 ELSE CHOOSE f \in good : \A g \in good : f <= g

\* addNetwork, up to the call of the plugin or the default configuration
AddFindConf(p) ==
  /\ pc[p] = "conf" /\ inv[p].cmd = "ADD"
  /\ LET v == inv[p]
         name == Current(v).plugin
         f == FirstConf(Files, name)
     IN  IF f # 0 THEN Goto(p, "plugin", [v EXCEPT !.file = f])
         ELSE IF name \in Binaries \cap Supported THEN Goto(p, "place", v)
         ELSE Goto(p, "record", [v EXCEPT !.result = FALSE, !.err = TRUE])
  /\ UNCHANGED <<pod, confdir, leases, faults>>

\* ioutil.WriteFile truncates the file first ...
PlaceConfFile(p) ==
  /\ pc[p] = "place"
  /\ LET v == inv[p]
         f == DefaultFile[Current(v).plugin]
     IN
     \/ /\ confdir' = [confdir EXCEPT ![f] = "partial"]
        /\ Goto(p, "write", [v EXCEPT !.file = f])
        /\ UNCHANGED faults
     \/ /\ CallFails
        /\ Goto(p, "record", [v EXCEPT !.result = FALSE, !.err = TRUE])
        /\ UNCHANGED confdir
  /\ UNCHANGED <<pod, leases>>

\* ... and writes it afterwards.
WriteConfFile(p) ==
  /\ pc[p] = "write"
  /\ confdir' = [confdir EXCEPT ![inv[p].file] = "valid"]
  /\ Goto(p, "plugin", inv[p])
  /\ UNCHANGED <<pod, leases, faults>>

Lease(p) == [pod |-> p, file |-> inv[p].file, ifname |-> IfName(inv[p])]

\* AddNetworkList; a plugin that fails may or may not have taken an address.
PluginAdd(p) ==
  /\ pc[p] = "plugin" /\ inv[p].cmd = "ADD"
  /\ \/ /\ leases' = leases \cup {Lease(p)}
        /\ Goto(p, "record", [inv[p] EXCEPT !.result = TRUE])
        /\ UNCHANGED faults
     \/ /\ CallFails
        /\ leases' \in {leases, leases \cup {Lease(p)}}
        /\ Goto(p, "record", [inv[p] EXCEPT !.result = FALSE, !.err = TRUE])
  /\ UNCHANGED <<pod, confdir>>

\* Variation: the map of addresses starts anew with every interface.
RecordOnly(multi, k) == [multi EXCEPT !.entry = multi.entry + 1, !.ips = {k}]

RecordAddress(multi, k) ==
  [multi EXCEPT !.entry = multi.entry + 1, !.ips = multi.ips \cup {k}]

\* UpdatePodDefinition.  It panics without a result, without an "ips" map, and
\* on an interface name without "eth".
UpdatePodDefinition(p) ==
  /\ pc[p] = "record"
  /\ LET v == inv[p]
         new == RecordAddress(v.multi, IfName(v))
         done(w, failed) == Goto(p, "next", Advance(w, failed))
     IN
     \/ /\ v.multi.kind = "none"
        /\ done(v, FALSE)
        /\ UNCHANGED <<pod, faults>>
     \/ /\ v.multi.kind # "none"
        /\ IF ~v.result \/ v.multi.kind = "nomap" \/ IfName(v) = OtherIf
           THEN Exit(p, "dirty") /\ UNCHANGED pod
           ELSE IF pod[p] = Absent
           THEN done(v, TRUE) /\ UNCHANGED pod
           ELSE /\ pod' = [pod EXCEPT ![p] = [pod[p] EXCEPT !.multi = new]]
                /\ done([v EXCEPT !.multi = new], FALSE)
        /\ UNCHANGED faults
     \/ /\ v.multi.kind = "prefs" /\ v.result /\ IfName(v) # OtherIf
        /\ CallFails
        /\ done(v, TRUE)
        /\ UNCHANGED pod
  /\ UNCHANGED <<confdir, leases>>

\* Variation: nothing to release is an error.
DelFindConfStrict(p) ==
  /\ pc[p] = "conf" /\ inv[p].cmd = "DEL"
  /\ LET v == inv[p]
         f == FirstConf(Files \ ConfLists, Current(v).plugin)
     IN  IF f = 0 THEN Goto(p, "next", Advance(v, TRUE))
         ELSE Goto(p, "plugin", [v EXCEPT !.file = f])
  /\ UNCHANGED <<pod, confdir, leases, faults>>

\* deleteNetwork lists .conf files only; no match is no error.
DelFindConf(p) ==
  /\ pc[p] = "conf" /\ inv[p].cmd = "DEL"
  /\ LET v == inv[p]
         fs == Files \ ConfLists
         f == FirstConf(fs, Current(v).plugin)
     IN  IF \A g \in fs : confdir[g] = "absent" THEN Goto(p, "next", Advance(v, TRUE))
         ELSE IF f = 0 THEN Goto(p, "next", Advance(v, FALSE))
         ELSE Goto(p, "plugin", [v EXCEPT !.file = f])
  /\ UNCHANGED <<pod, confdir, leases, faults>>

\* DelNetworkList
PluginDel(p) ==
  /\ pc[p] = "plugin" /\ inv[p].cmd = "DEL"
  /\ \/ /\ leases' = leases \ {Lease(p)}
        /\ Goto(p, "next", Advance(inv[p], FALSE))
        /\ UNCHANGED faults
     \/ /\ CallFails
        /\ Goto(p, "next", Advance(inv[p], TRUE))
        /\ UNCHANGED leases
  /\ UNCHANGED <<pod, confdir>>

Genie(p) ==
  \/ GetKubeClient(p) \/ ParsePodAnnotationsForCNI(p) \/ ParsePodAnnotationsForNetworks(p)
  \/ ChooseNetwork(p) \/ PatchChoice(p)
  \/ ParsePodAnnotationsForMultiIPPrefs(p) \/ NextPlugin(p)
  \/ AddFindConf(p) \/ PlaceConfFile(p) \/ WriteConfFile(p) \/ PluginAdd(p)
  \/ UpdatePodDefinition(p) \/ DelFindConf(p) \/ PluginDel(p)

Next ==
  \E p \in Pods : KubeletAdd(p) \/ KubeletDel(p) \/ UserEdit(p) \/ Kill(p) \/ Genie(p)

Spec == Init /\ [][Next]_vars

(***************************************************************************)
(* A genie process runs on unless it is killed; the kubelet calls DEL for  *)
(* a sandbox that is not set up until it succeeds.                         *)
(***************************************************************************)
FairSpec ==
  /\ Spec
  /\ \A p \in Pods : WF_vars(Genie(p)) /\ WF_vars(sandbox[p] = "dirty" /\ KubeletDel(p))
-----------------------------------------------------------------------------
Held(p) == {l \in leases : l.pod = p}

\* DeletePodNetwork, "for every CNS types ... releases an IP from it's IPAM":
\* when DEL has succeeded no plugin holds anything for the pod.
NoLeak == \A p \in Pods : sandbox[p] = "clean" => Held(p) = {}

\* Every plugin of the list has given p an address, on its interface.
Attached(p, infos) ==
  \A k \in DOMAIN infos :
    \E l \in Held(p) : /\ <<l.file, infos[k].plugin>> \in FileMatches
                       /\ l.ifname = IfName([infos |-> infos, i |-> k])

\* AddPodNetwork, the error kept across the loop: a pod reported as set up has
\* an address from every network that this ADD resolved, whatever failed, was
\* edited or was not read meanwhile.
AddIsComplete ==
  \A p \in Pods : sandbox[p] = "running" /\ pc[p] = "none" => Attached(p, inv[p].infos)

\* The user asks for networks; a list of solutions of their own goes first.
ByNetworks(r) == r.networks # << >> /\ (r.cni = << >> \/ r.chosen)

\* What the user asks for: networks, the default, a list of solutions, or
\* whatever genie chose.
Asked(r) ==
  IF ByNetworks(r) THEN GetPluginInfoFromNwAnnot(r.networks, {})
  ELSE IF Bare(r) THEN <<Info(DefaultPlugin, Blank)>>
  ELSE [k \in DOMAIN r.cni |-> Info(r.cni[k], Blank)]

\* AddPodNetwork, "For every CNS types, it talks to corresponding CNS object and
\* fetches an IP from it's IPAM": a pod reported as set up has an address from
\* every network its user asks for, and each of these networks exists, unless
\* the user has changed that since.
AttachedAsAsked ==
  \A p \in Pods : sandbox[p] = "running" /\ pc[p] = "none" /\ pod[p] # Absent =>
    /\ ByNetworks(pod[p]) => NetworksReadable(pod[p].networks)
    /\ Attached(p, Asked(pod[p]))

HasPrefs(p) == pod[p] # Absent /\ pod[p].multi.kind = "prefs"

\* UpdatePodDefinition, "updates pod definition with annotation containing multi
\* ips from different configured networking solutions": a pod that is set up
\* and has multi-ip-preferences finds every interface it was given there.
AddressesRecorded ==
  \A p \in Pods : sandbox[p] = "running" /\ pc[p] = "none" /\ HasPrefs(p) =>
    {l.ifname : l \in Held(p)} \subseteq pod[p].multi.ips

\* MultiIPPreferences, "the number of ip addresses": the count of a pod that is
\* set up is the number of addresses recorded for it.  It does not hold of an
\* ADD that is repeated.
EntryCounts ==
  \A p \in Pods : sandbox[p] = "running" /\ pc[p] = "none" /\ HasPrefs(p) =>
    pod[p].multi.entry = Cardinality(pod[p].multi.ips)

\* GetPluginInfoFromNwAnnot, the loop over usedIntfMap: a pod never has two
\* addresses on one interface, through whatever failures and retries, unless
\* its user names for one network the interface another gets by itself.
InterfacesDiffer ==
  \A p \in Pods : \A l, o \in Held(p) :
    l # o /\ l.ifname = o.ifname =>
      LET ns == pod[p].networks IN
      \E j, k \in DOMAIN ns :
        ns[j].ifname = Blank /\ AutoBefore(ns, j) = l.ifname /\ ns[k].ifname = l.ifname

Attachment == INSTANCE PodAttachment WITH
  view <- sandbox,
  busy <- [p \in Pods |-> IF pc[p] = "none" THEN "no" ELSE inv[p].cmd],
  held <- [p \in Pods |-> Held(p)]

(***************************************************************************)
(* The genie processes implement PodAttachment: whatever fails or is       *)
(* killed, addresses are taken by ADD and given back by DEL alone, one by  *)
(* one, and what cmdAdd and cmdDel report to the kubelet is true of them.  *)
(***************************************************************************)
PodsAreAttached == Attachment!Spec

\* No plugin can ever be worked out: a logical network is missing or has no
\* physical one, or a choice is needed on a node where choosing panics.
Unresolvable(r) ==
  /\ ~Bare(r) /\ r.cni = << >>
  /\ IF r.networks = << >> THEN short ELSE ~NetworksReadable(r.networks)

\* A sandbox whose setup failed is torn down in the end, unless its pod is gone,
\* or cannot be resolved and then holds no address.
TornDown ==
  \A p \in Pods : sandbox[p] = "dirty" ~>
    \/ sandbox[p] # "dirty"
    \/ pod[p] = Absent
    \/ Unresolvable(pod[p]) /\ Held(p) = {}
=============================================================================
