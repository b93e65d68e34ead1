-------------------------- MODULE PodNetworkProofs ---------------------------
(***************************************************************************)
(* What the genie plugin promises the kubelet: that a pod reported as set  *)
(* up has every address its ADD resolved, whatever else happens on the     *)
(* node; and, on a node where nobody interferes, that it has and records   *)
(* every address it asks for and that a pod torn down holds nothing.  For  *)
(* all pods, annotations, configuration files and networks, and with any   *)
(* number of failures, retries and kills.                                  *)
(***************************************************************************)
EXTENDS PodNetwork, FiniteSetTheorems, TLAPS

\* Labels of the loop over the plugins, between two turns and within one.
Working == {"conf", "place", "write", "plugin", "record"}
Looping == Working \cup {"next"}

\* The interface of the k-th plugin.
IfAt(infos, k) == IF infos[k].ifname = Blank THEN k - 1 ELSE infos[k].ifname

\* Among the leases ls one gives pod p what the k-th plugin stands for.
Given(p, infos, k, ls) ==
  \E l \in ls : /\ l.pod = p
                /\ <<l.file, infos[k].plugin>> \in FileMatches
                /\ l.ifname = IfAt(infos, k)

Complete(p, infos, ls) == \A k \in DOMAIN infos : Given(p, infos, k, ls)

\* The process of pod p, at label l with local variables v, can go on from there.
Ready(p, l, v, ls) ==
  /\ v \in Invocations /\ v.i >= 1
  /\ l \notin Looping => v.i = 1
  /\ l \in Working => v.i <= Len(v.infos)
  /\ l \in {"prefs", "place", "write", "record"} => v.cmd = "ADD"
  /\ l = "place" => v.infos[v.i].plugin \in Supported
  /\ l \in {"write", "plugin"} => /\ v.file \in Files
                                  /\ <<v.file, v.infos[v.i].plugin>> \in FileMatches
  /\ l = "patch" => v.choice \in Names
  /\ v.cmd = "ADD" /\ v.err = FALSE =>
       \A k \in DOMAIN v.infos : k < v.i => Given(p, v.infos, k, ls)
  /\ l = "record" => v.err = TRUE \/ Given(p, v.infos, v.i, ls)

(***************************************************************************)
(* The inductive invariant.  While a process runs for a pod its sandbox is *)
(* not reported as set up; what was taken so far, error or not, is known   *)
(* from the turn its loop is at.                                           *)
(***************************************************************************)
PInv ==
  /\ TypeOK
  /\ pod \in [Pods -> PodRecords \cup {Absent}]
  /\ \A p \in Pods : pc[p] # "none" => /\ sandbox[p] = "dirty"
                                       /\ Ready(p, pc[p], inv[p], leases)
  /\ \A p \in Pods : sandbox[p] = "running" => Complete(p, inv[p].infos, leases)
-----------------------------------------------------------------------------
\* A set of numbers that is not empty has a least one.
LEMMA Least ==
  ASSUME NEW S \in SUBSET Nat, S # {}
  PROVE  \E x \in S : \A y \in S : x <= y
<1> DEFINE R == OpToRel(<, Nat)
<1>1. IsWellFoundedOn(R, Nat)  BY NatLessThanWellFounded
<1>2. PICK x \in S : \A y \in S : ~(<<y, x>> \in R)
  <2> HIDE DEF R
  <2> QED  BY <1>1, WFMin
<1>3. \A y \in S : ~(y < x)  BY <1>2 DEF OpToRel
<1> QED  BY <1>3

\* The file looked up for a name is one of those looked at, is valid and
\* matches the name; there is none only if no file is and does.
LEMMA FirstConfFound ==
  ASSUME NEW fs \in SUBSET Files, NEW n
  PROVE  LET f == FirstConf(fs, n) IN
         /\ f # 0 => f \in fs /\ confdir[f] = "valid" /\ <<f, n>> \in FileMatches
         /\ f = 0 => \A g \in fs : ~(confdir[g] = "valid" /\ <<g, n>> \in FileMatches)
<1> DEFINE good == {f \in fs : confdir[f] = "valid" /\ <<f, n>> \in FileMatches}
<1>1. good \subseteq Nat /\ 0 \notin good  BY PodNetworkAssumption
<1>2. FirstConf(fs, n) = IF good = {} THEN 0 ELSE CHOOSE f \in good : \A g \in good : f <= g
  BY DEF FirstConf
<1>3. CASE good = {}  BY <1>2, <1>3
<1>4. CASE good # {}
  <2>1. \E x \in good : \A y \in good : x <= y
    <3> HIDE DEF good
    <3> QED  BY <1>1, <1>4, Least
  <2>2. FirstConf(fs, n) \in good
    <3> HIDE DEF good
    <3> QED  BY <1>2, <1>4, <2>1
  <2> QED  BY <1>1, <2>2
<1> QED  BY <1>3, <1>4

\* The interface of a plugin is an interface.
LEMMA IfTypes ==
  ASSUME NEW v \in Invocations, NEW k \in DOMAIN v.infos
  PROVE  /\ IfAt(v.infos, k) \in Interfaces
         /\ IfName([v EXCEPT !.i = k]) = IfAt(v.infos, k)
         /\ k = v.i => IfName(v) = IfAt(v.infos, k) /\ Current(v) = v.infos[k]
         /\ v.infos[k].plugin \in Names
<1>1. v.infos \in Seq(Infos)  BY DEF Invocations
<1>2. v.infos[k] \in Infos /\ k \in Nat /\ k - 1 \in Nat  BY <1>1
<1>3. IfAt(v.infos, k) \in Interfaces /\ v.infos[k].plugin \in Names
  BY <1>2 DEF IfAt, Interfaces, Infos
<1>4. [v EXCEPT !.i = k].i = k /\ [v EXCEPT !.i = k].infos = v.infos  BY DEF Invocations
<1>5. IfName([v EXCEPT !.i = k]) = IfAt(v.infos, k)  BY <1>4 DEF IfName, IfAt, Current
<1> QED  BY <1>3, <1>5 DEF IfName, IfAt, Current

\* The plugins worked out from a pod's networks.
LEMMA NetworkInfos ==
  ASSUME NEW ns \in Seq(NetworkEntries), NetworksReadable(ns), NEW missed
  PROVE  /\ GetPluginInfoFromNwAnnot(ns, missed) \in Seq(Infos)
         /\ DOMAIN GetPluginInfoFromNwAnnot(ns, missed) = DOMAIN ns
<1> DEFINE Name(k) == IF k \in missed THEN Logical[ns[k].net].plugin
                      ELSE GetPluginInfoFromPhysicalNw(Logical[ns[k].net])
           If(k) == IF ns[k].ifname = Blank THEN AutoBefore(ns, k) ELSE ns[k].ifname
<1>0. \A k \in DOMAIN ns : ns[k] \in NetworkEntries  OBVIOUS
<1>1. ASSUME NEW k \in DOMAIN ns PROVE Name(k) \in Names
  <2>1. ns[k].net \in Networks  BY <1>0 DEF NetworkEntries
  <2>2. Logical[ns[k].net] \in LogicalRecords
    BY <2>1, PodNetworkAssumption DEF NetworksReadable
  <2> QED  BY <2>2 DEF LogicalRecords, GetPluginInfoFromPhysicalNw
<1>2. ASSUME NEW k \in DOMAIN ns PROVE If(k) \in Interfaces \cup {Blank}
  <2>1. ns[k].ifname \in Interfaces \cup {Blank}  BY <1>0 DEF NetworkEntries
  <2>2. AutoBefore(ns, k) \in Nat
    <3>1. 1 \in Int /\ k - 1 \in Int  OBVIOUS
    <3>2. IsFiniteSet(1..(k - 1))  BY <3>1, FS_Interval
    <3>3. IsFiniteSet({j \in 1..(k - 1) : ns[j].ifname = Blank})  BY <3>2, FS_Subset
    <3> QED  BY <3>3, FS_CardinalityType DEF AutoBefore
  <2> QED  BY <2>1, <2>2 DEF Interfaces
<1>3. GetPluginInfoFromNwAnnot(ns, missed) = [k \in DOMAIN ns |-> Info(Name(k), If(k))]
  BY DEF GetPluginInfoFromNwAnnot
<1> HIDE DEF Name, If
<1>4. \A k \in DOMAIN ns : Info(Name(k), If(k)) \in Infos  BY <1>1, <1>2 DEF Info, Infos
<1>5. DOMAIN ns = 1..Len(ns) /\ Len(ns) \in Nat  OBVIOUS
<1>6. [k \in DOMAIN ns |-> Info(Name(k), If(k))] \in Seq(Infos)  BY <1>4, <1>5
<1> QED  BY <1>3, <1>6

-----------------------------------------------------------------------------
\* The pod keeps what it has when the leases of other pods change.
LEMMA ReadyKeeps ==
  ASSUME NEW p, NEW l, NEW v, NEW ls, NEW ms, \A o \in ls : o.pod = p => o \in ms
  PROVE  /\ \A infos : \A k : Given(p, infos, k, ls) => Given(p, infos, k, ms)
         /\ \A infos : Complete(p, infos, ls) => Complete(p, infos, ms)
         /\ Ready(p, l, v, ls) => Ready(p, l, v, ms)
<1>1. \A infos : \A k : Given(p, infos, k, ls) => Given(p, infos, k, ms)  BY DEF Given
<1>2. \A infos : Complete(p, infos, ls) => Complete(p, infos, ms)  BY <1>1 DEF Complete
<1> QED  BY <1>1, <1>2 DEF Ready

\* The leases of other pods are among ms as they are among ls.
OthersKeep(p, ls, ms) == \A o \in ls : o.pod # p => o \in ms

\* A step of the process of pod p.
LEMMA GotoInv ==
  ASSUME PInv, NEW p \in Pods, pc[p] # "none", NEW to \in Labels \ {"none"}, NEW v,
         Goto(p, to, v), Ready(p, to, v, leases'),
         pod' \in [Pods -> PodRecords \cup {Absent}],
         confdir' \in [Files -> {"absent", "partial", "valid"}],
         leases' \subseteq [pod : Pods, file : Files, ifname : Interfaces],
         OthersKeep(p, leases, leases'), failures' \in Nat, unread' \in Nat, short' \in BOOLEAN
  PROVE  PInv'
<1>1. /\ pc' = [pc EXCEPT ![p] = to] /\ inv' = [inv EXCEPT ![p] = v]
      /\ sandbox' = sandbox /\ adds' = adds /\ edits' = edits /\ kills' = kills
  BY DEF Goto
<1>2. v \in Invocations  BY DEF Ready
<1>3. TypeOK  BY DEF PInv
<1>4. TypeOK'
  <2>1. pc' \in [Pods -> Labels] /\ inv' \in [Pods -> Invocations]  BY <1>1, <1>2, <1>3 DEF TypeOK
  <2>2. \A q \in Pods : pod'[q] = Absent \/ pod'[q] \in PodRecords  OBVIOUS
  <2> QED  BY <1>1, <1>3, <2>1, <2>2 DEF TypeOK
<1>5. /\ pc'[p] = to /\ inv'[p] = v
      /\ \A q \in Pods : q # p => pc'[q] = pc[q] /\ inv'[q] = inv[q]
  BY <1>1, <1>3 DEF TypeOK
<1>6. sandbox[p] = "dirty"  BY DEF PInv
<1>7. ASSUME NEW q \in Pods, q # p
      PROVE  /\ pc'[q] # "none" => sandbox'[q] = "dirty" /\ Ready(q, pc'[q], inv'[q], leases')
             /\ sandbox'[q] = "running" => Complete(q, inv'[q].infos, leases')
  <2>1. \A o \in leases : o.pod = q => o \in leases'  BY <1>7 DEF OthersKeep
  <2> QED  BY <1>1, <1>5, <1>7, <2>1, ReadyKeeps DEF PInv
<1>8. /\ pc'[p] # "none" => sandbox'[p] = "dirty" /\ Ready(p, pc'[p], inv'[p], leases')
      /\ sandbox'[p] = "running" => Complete(p, inv'[p].infos, leases')
  BY <1>1, <1>5, <1>6
<1> QED  BY <1>4, <1>7, <1>8 DEF PInv

\* The end of the process of pod p.
LEMMA ExitInv ==
  ASSUME PInv, NEW p \in Pods, pc[p] # "none", NEW view \in {"clean", "running", "dirty"},
         Exit(p, view), UNCHANGED <<pod, confdir, leases>>,
         view = "running" => Complete(p, inv[p].infos, leases),
         failures' \in Nat, unread' \in Nat, short' \in BOOLEAN
  PROVE  PInv'
<1>1. /\ pc' = [pc EXCEPT ![p] = "none"] /\ sandbox' = [sandbox EXCEPT ![p] = view]
      /\ inv' = inv /\ adds' = adds /\ edits' = edits /\ kills' = kills
  BY DEF Exit
<1>2. TypeOK  BY DEF PInv
<1>3. TypeOK'
  <2>1. pc' \in [Pods -> Labels] /\ sandbox' \in [Pods -> {"clean", "running", "dirty"}]
    BY <1>1, <1>2 DEF TypeOK, Labels
  <2> QED  BY <1>1, <1>2, <2>1 DEF TypeOK
<1>4. /\ pc'[p] = "none" /\ sandbox'[p] = view
      /\ \A q \in Pods : q # p => pc'[q] = pc[q] /\ sandbox'[q] = sandbox[q]
  BY <1>1, <1>2 DEF TypeOK
<1>5. \A q \in Pods : pc'[q] # "none" => sandbox'[q] = "dirty" /\ Ready(q, pc'[q], inv'[q], leases')
  BY <1>1, <1>4 DEF PInv
<1>6. \A q \in Pods : sandbox'[q] = "running" => Complete(q, inv'[q].infos, leases')
  BY <1>1, <1>4 DEF PInv
<1>7. pod' \in [Pods -> PodRecords \cup {Absent}]  BY DEF PInv
<1> QED  BY <1>3, <1>5, <1>6, <1>7 DEF PInv

\* Calls that fail are counted.
LEMMA FaultTypes ==
  ASSUME TypeOK, CallFails \/ ReadUnnoticed \/ UNCHANGED faults
  PROVE  failures' \in Nat /\ unread' \in Nat /\ short' \in BOOLEAN
<1>1. failures \in Nat /\ unread \in Nat /\ short \in BOOLEAN  BY DEF TypeOK
<1> QED  BY <1>1 DEF CallFails, ReadUnnoticed, faults

\* A step that touches neither pod, file nor address.
LEMMA QuietGoto ==
  ASSUME PInv, NEW p \in Pods, pc[p] # "none", NEW to \in Labels \ {"none"}, NEW v,
         Goto(p, to, v), UNCHANGED <<pod, confdir, leases>>, Ready(p, to, v, leases),
         CallFails \/ ReadUnnoticed \/ UNCHANGED faults
  PROVE  PInv'
<1>1. TypeOK /\ pod \in [Pods -> PodRecords \cup {Absent}]  BY DEF PInv
<1>2. failures' \in Nat /\ unread' \in Nat /\ short' \in BOOLEAN  BY <1>1, FaultTypes
<1>3. /\ pod' \in [Pods -> PodRecords \cup {Absent}]
      /\ confdir' \in [Files -> {"absent", "partial", "valid"}]
      /\ leases' \subseteq [pod : Pods, file : Files, ifname : Interfaces]
  BY <1>1 DEF TypeOK
<1>4. Ready(p, to, v, leases')  OBVIOUS
<1>5. OthersKeep(p, leases, leases')  BY DEF OthersKeep
<1> QED  BY <1>2, <1>3, <1>4, <1>5, GotoInv

\* An end with an error that touches neither pod, file nor address.
LEMMA DirtyExit ==
  ASSUME PInv, NEW p \in Pods, pc[p] # "none", Exit(p, "dirty"),
         UNCHANGED <<pod, confdir, leases>>, CallFails \/ UNCHANGED faults
  PROVE  PInv'
<1>1. TypeOK  BY DEF PInv
<1>2. failures' \in Nat /\ unread' \in Nat /\ short' \in BOOLEAN  BY <1>1, FaultTypes
<1> QED  BY <1>2, ExitInv

\* Before the loop nothing has been taken yet.
LEMMA EarlyReady ==
  ASSUME NEW p, NEW ls, NEW v \in Invocations, v.i = 1, NEW to, to \notin Working,
         to = "prefs" => v.cmd = "ADD", to = "patch" => v.choice \in Names
  PROVE  Ready(p, to, v, ls)
<1>1. ~(1 < 1) /\ 1 >= 1  OBVIOUS
<1>2. v.infos \in Seq(Infos)  BY DEF Invocations
<1>3. \A k \in DOMAIN v.infos : ~(k < v.i)  BY <1>2
<1> QED  BY <1>1, <1>3 DEF Ready, Working

\* What a process at label l finds.
LEMMA Here ==
  ASSUME PInv, NEW p \in Pods, pc[p] # "none"
  PROVE  /\ TypeOK /\ inv[p] \in Invocations /\ Ready(p, pc[p], inv[p], leases)
         /\ sandbox[p] = "dirty" /\ pod[p] \in PodRecords \cup {Absent}
         /\ pc[p] \notin Looping => inv[p].i = 1
         /\ inv[p].infos \in Seq(Infos) /\ inv[p].i \in Nat /\ inv[p].i >= 1
         /\ inv[p].err \in BOOLEAN /\ inv[p].cmd \in {"ADD", "DEL"}
         /\ inv[p].nets \in Seq(NetworkEntries) /\ inv[p].multi \in Prefs
BY DEF PInv, Ready, Invocations

\* The kubelet, and kills.
LEMMA InvocationInv ==
  ASSUME PInv, NEW p \in Pods, KubeletAdd(p) \/ KubeletDel(p) \/ Kill(p)
  PROVE  PInv'
<1>1. TypeOK /\ pod \in [Pods -> PodRecords \cup {Absent}]  BY DEF PInv
<1>2. UNCHANGED <<pod, confdir, leases, faults, edits>>
  BY DEF KubeletAdd, KubeletDel, Kill, Invoke
<1>3. adds' \in [Pods -> Nat] /\ kills' \in Nat
  <2>1. adds \in [Pods -> Nat] /\ kills \in Nat  BY <1>1 DEF TypeOK
  <2> QED  BY <2>1 DEF KubeletAdd, KubeletDel, Kill, Invoke
<1>4. ASSUME NEW cmd \in {"ADD", "DEL"}, Invoke(p, cmd) PROVE PInv'
  <2> DEFINE v == Invocation(cmd)
  <2>1. v \in Invocations /\ v.i = 1
    <3>1. << >> \in Seq(NetworkEntries) /\ << >> \in Seq(Infos)  OBVIOUS
    <3>2. NoPrefs \in Prefs  BY DEF NoPrefs, Prefs
    <3> QED  BY <3>1, <3>2 DEF Invocation, Invocations
  <2>2. /\ pc' = [pc EXCEPT ![p] = "start"] /\ inv' = [inv EXCEPT ![p] = v]
        /\ sandbox' = [sandbox EXCEPT ![p] = "dirty"] /\ kills' = kills
    BY <1>4 DEF Invoke
  <2> HIDE DEF v
  <2>3. TypeOK'
    <3>1. /\ pc' \in [Pods -> Labels] /\ inv' \in [Pods -> Invocations]
          /\ sandbox' \in [Pods -> {"clean", "running", "dirty"}]
      BY <1>1, <2>1, <2>2 DEF TypeOK, Labels
    <3> QED  BY <1>1, <1>2, <1>3, <3>1 DEF TypeOK, faults
  <2>4. /\ pc'[p] = "start" /\ inv'[p] = v /\ sandbox'[p] = "dirty"
        /\ \A r \in Pods : r # p => /\ pc'[r] = pc[r] /\ inv'[r] = inv[r]
                                    /\ sandbox'[r] = sandbox[r]
    BY <1>1, <2>2 DEF TypeOK
  <2>5. Ready(p, "start", v, leases)  BY <2>1, EarlyReady DEF Working
  <2>6. \A r \in Pods : pc'[r] # "none" => sandbox'[r] = "dirty" /\ Ready(r, pc'[r], inv'[r], leases)
    BY <2>4, <2>5 DEF PInv
  <2>7. \A r \in Pods : sandbox'[r] = "running" => Complete(r, inv'[r].infos, leases)
    BY <2>4 DEF PInv
  <2> QED  BY <1>1, <1>2, <2>3, <2>6, <2>7 DEF PInv
<1>5. CASE Kill(p)
  <2>1. /\ pc' = [pc EXCEPT ![p] = "none"] /\ inv' = inv /\ sandbox' = sandbox
        /\ pc[p] # "none"
    BY <1>5 DEF Kill
  <2>2. TypeOK'
    <3>1. pc' \in [Pods -> Labels]  BY <1>1, <2>1 DEF TypeOK, Labels
    <3> QED  BY <1>1, <1>2, <1>3, <2>1, <3>1 DEF TypeOK, faults
  <2>3. pc'[p] = "none" /\ \A r \in Pods : r # p => pc'[r] = pc[r]  BY <1>1, <2>1 DEF TypeOK
  <2> QED  BY <1>1, <1>2, <2>1, <2>2, <2>3 DEF PInv
<1> QED  BY <1>4, <1>5 DEF KubeletAdd, KubeletDel

\* A user changes what the pod asks for, or deletes it.
LEMMA UserEditInv ==
  ASSUME PInv, NEW p \in Pods, UserEdit(p)
  PROVE  PInv'
<1>1. TypeOK /\ pod \in [Pods -> PodRecords \cup {Absent}]  BY DEF PInv
<1>2. UNCHANGED <<confdir, leases, sandbox, pc, inv, adds, faults, kills>> /\ edits' = edits + 1
  BY DEF UserEdit
<1>3. pod' \in [Pods -> PodRecords \cup {Absent}]
  <2>1. PICK r \in PodValues[p] \cup {Absent} :
          pod' = [pod EXCEPT ![p] = IF r = Absent THEN Absent
                                    ELSE [r EXCEPT !.multi = pod[p].multi]]
    BY DEF UserEdit
  <2>2. pod[p] \in PodRecords  BY <1>1 DEF UserEdit
  <2>3. r # Absent => [r EXCEPT !.multi = pod[p].multi] \in PodRecords
    <3> SUFFICES ASSUME r # Absent PROVE [r EXCEPT !.multi = pod[p].multi] \in PodRecords
      OBVIOUS
    <3>1. r \in PodRecords  BY PodNetworkAssumption
    <3>2. pod[p].multi \in Prefs  BY <2>2 DEF PodRecords
    <3> QED  BY <3>1, <3>2 DEF PodRecords
  <2> QED  BY <1>1, <2>1, <2>3
<1>4. TypeOK'
  <2>1. edits' \in Nat  BY <1>1, <1>2 DEF TypeOK
  <2>2. \A r \in Pods : pod'[r] = Absent \/ pod'[r] \in PodRecords  BY <1>3
  <2> QED  BY <1>1, <1>2, <2>1, <2>2 DEF TypeOK, faults
<1> QED  BY <1>2, <1>3, <1>4 DEF PInv
-----------------------------------------------------------------------------
\* The loop goes on to the next plugin.
LEMMA AdvanceReady ==
  ASSUME NEW p, NEW ls, NEW v \in Invocations, v.i >= 1, NEW failed \in BOOLEAN,
         v.cmd = "ADD" /\ v.err = FALSE /\ failed = FALSE =>
           \A k \in DOMAIN v.infos : k <= v.i => Given(p, v.infos, k, ls)
  PROVE  Ready(p, "next", Advance(v, failed), ls)
<1> DEFINE w == Advance(v, failed)
<1>1. /\ w.cmd = v.cmd /\ w.infos = v.infos /\ w.i = v.i + 1 /\ w.file = 0
      /\ w.err = (v.err \/ failed)
  BY DEF Advance, Invocations
<1>2. w \in Invocations
  <2>1. v.i + 1 \in Nat  BY DEF Invocations
  <2>2. (v.err \/ failed) \in BOOLEAN  OBVIOUS
  <2> QED  BY <2>1, <2>2 DEF Advance, Invocations
<1>3. v.i \in Nat /\ v.infos \in Seq(Infos) /\ v.err \in BOOLEAN  BY DEF Invocations
<1> HIDE DEF w
<1>4. w.i >= 1 /\ \A k \in DOMAIN w.infos : k < w.i => k <= v.i  BY <1>1, <1>3
<1>5. w.err = FALSE => v.err = FALSE /\ failed = FALSE  BY <1>1, <1>3
<1>6. w.cmd = "ADD" /\ w.err = FALSE =>
        \A k \in DOMAIN w.infos : k < w.i => Given(p, w.infos, k, ls)
  BY <1>1, <1>4, <1>5
<1>7. Ready(p, "next", w, ls)  BY <1>2, <1>4, <1>6 DEF Ready, Working, Looping
<1> QED  BY <1>7 DEF w

\* The steps before the loop.
LEMMA GetKubeClientInv ==
  ASSUME PInv, NEW p \in Pods, GetKubeClient(p)
  PROVE  PInv'
<1>1. pc[p] = "start" /\ UNCHANGED <<pod, confdir, leases>>  BY DEF GetKubeClient
<1>2. inv[p] \in Invocations /\ inv[p].i = 1  BY <1>1, Here DEF Looping, Working
<1>3. CASE Goto(p, "parse", inv[p]) /\ UNCHANGED faults
  <2>1. Ready(p, "parse", inv[p], leases)  BY <1>2, EarlyReady DEF Working
  <2> QED  BY <1>1, <1>3, <2>1, QuietGoto DEF Labels
<1>4. CASE CallFails /\ Exit(p, "dirty")  BY <1>1, <1>4, DirtyExit
<1> QED  BY <1>3, <1>4 DEF GetKubeClient

\* The list of plugins is worked out.
LEMMA InfosReady ==
  ASSUME NEW p, NEW ls, NEW v \in Invocations, v.i = 1, NEW infos \in Seq(Infos)
  PROVE  /\ Ready(p, AfterParse(v.cmd), [v EXCEPT !.infos = infos], ls)
         /\ AfterParse(v.cmd) \in Labels \ {"none"}
<1>1. [v EXCEPT !.infos = infos] \in Invocations /\ [v EXCEPT !.infos = infos].i = 1
      /\ [v EXCEPT !.infos = infos].cmd = v.cmd
  BY DEF Invocations
<1>2. /\ AfterParse(v.cmd) = "prefs" => v.cmd = "ADD"
      /\ AfterParse(v.cmd) \in {"prefs", "next"}
  BY DEF AfterParse
<1>3. Ready(p, AfterParse(v.cmd), [v EXCEPT !.infos = infos], ls)
  BY <1>1, <1>2, EarlyReady DEF Working
<1> QED  BY <1>2, <1>3 DEF Labels

\* The plugins named by the cni annotation.
LEMMA CNIInfos ==
  ASSUME NEW r \in PodRecords
  PROVE  [k \in DOMAIN r.cni |-> Info(r.cni[k], Blank)] \in Seq(Infos)
<1>1. r.cni \in Seq(Names)  BY DEF PodRecords
<1>2. \A k \in DOMAIN r.cni : Info(r.cni[k], Blank) \in Infos  BY <1>1 DEF Info, Infos
<1>3. DOMAIN r.cni = 1..Len(r.cni) /\ Len(r.cni) \in Nat  BY <1>1
<1> QED  BY <1>2, <1>3

\* A single plugin.
LEMMA OneInfo ==
  ASSUME NEW n \in Names
  PROVE  <<Info(n, Blank)>> \in Seq(Infos)
<1>1. Info(n, Blank) \in Infos  BY DEF Info, Infos
<1> QED  BY <1>1

\* ParsePodAnnotationsForCNI keeps PInv.
LEMMA ParsePodAnnotationsForCNIInv ==
  ASSUME PInv, NEW p \in Pods, ParsePodAnnotationsForCNI(p)
  PROVE  PInv'
<1> DEFINE r == pod[p]
           v == inv[p]
<1>1. pc[p] = "parse"  BY DEF ParsePodAnnotationsForCNI
<1>2. v \in Invocations /\ v.i = 1 /\ r \in PodRecords \cup {Absent}
  BY <1>1, Here DEF Looping, Working
<1>3. CASE Fail(p) \/ (CallFails /\ Exit(p, "dirty") /\ UNCHANGED <<pod, confdir, leases>>)
  BY <1>1, <1>3, DirtyExit DEF Fail
<1>4. ASSUME UNCHANGED <<pod, confdir, leases, faults>>, NEW infos \in Seq(Infos),
             Goto(p, AfterParse(v.cmd), [v EXCEPT !.infos = infos])
      PROVE  PInv'
  <2>1. /\ Ready(p, AfterParse(v.cmd), [v EXCEPT !.infos = infos], leases)
        /\ AfterParse(v.cmd) \in Labels \ {"none"}
    BY <1>2, InfosReady
  <2> QED  BY <1>1, <1>4, <2>1, QuietGoto
<1>5. ASSUME r # Absent, UNCHANGED <<pod, confdir, leases, faults>>,
             Goto(p, "networks", [v EXCEPT !.nets = r.networks])
      PROVE  PInv'
  <2> DEFINE w == [v EXCEPT !.nets = r.networks]
  <2>1. r.networks \in Seq(NetworkEntries)  BY <1>2, <1>5 DEF PodRecords
  <2>2. w \in Invocations /\ w.i = 1  BY <1>2, <2>1 DEF Invocations
  <2> HIDE DEF w
  <2>3. Ready(p, "networks", w, leases)  BY <2>2, EarlyReady DEF Working
  <2>4. Goto(p, "networks", w)  BY <1>5 DEF w
  <2> QED  BY <1>1, <1>5, <2>3, <2>4, QuietGoto DEF Labels
<1>6. DefaultPlugin \in Names  BY PodNetworkAssumption
<1>7. <<Info(DefaultPlugin, Blank)>> \in Seq(Infos)  BY <1>6, OneInfo
<1>8. r # Absent => [k \in DOMAIN r.cni |-> Info(r.cni[k], Blank)] \in Seq(Infos)
  BY <1>2, CNIInfos
<1> QED  BY <1>3, <1>4, <1>5, <1>7, <1>8 DEF ParsePodAnnotationsForCNI

\* ParsePodAnnotationsForNetworks keeps PInv.
LEMMA ParsePodAnnotationsForNetworksInv ==
  ASSUME PInv, NEW p \in Pods, ParsePodAnnotationsForNetworks(p)
  PROVE  PInv'
<1> DEFINE v == inv[p]
<1>1. pc[p] = "networks" /\ UNCHANGED <<pod, confdir, leases>>
  BY DEF ParsePodAnnotationsForNetworks
<1>2. v \in Invocations /\ v.i = 1 /\ v.nets \in Seq(NetworkEntries)
  BY <1>1, Here DEF Looping, Working
<1>3. CASE Exit(p, "dirty") /\ (CallFails \/ UNCHANGED faults)  BY <1>1, <1>3, DirtyExit
<1>4. CASE Goto(p, "smart", v) /\ (ReadUnnoticed \/ UNCHANGED faults)
  <2>1. Ready(p, "smart", v, leases)  BY <1>2, EarlyReady DEF Working
  <2> QED  BY <1>1, <1>4, <2>1, QuietGoto DEF Labels
<1>5. ASSUME NetworksReadable(v.nets), NEW missed, ReadUnnoticed \/ UNCHANGED faults,
             Goto(p, AfterParse(v.cmd),
                  [v EXCEPT !.infos = GetPluginInfoFromNwAnnot(v.nets, missed)])
      PROVE  PInv'
  <2>1. GetPluginInfoFromNwAnnot(v.nets, missed) \in Seq(Infos)  BY <1>2, <1>5, NetworkInfos
  <2>2. /\ Ready(p, AfterParse(v.cmd),
                 [v EXCEPT !.infos = GetPluginInfoFromNwAnnot(v.nets, missed)], leases)
        /\ AfterParse(v.cmd) \in Labels \ {"none"}
    BY <1>2, <2>1, InfosReady
  <2> QED  BY <1>1, <1>5, <2>2, QuietGoto
<1> QED  BY <1>3, <1>4, <1>5 DEF ParsePodAnnotationsForNetworks

\* ChooseNetwork keeps PInv.
LEMMA ChooseNetworkInv ==
  ASSUME PInv, NEW p \in Pods, ChooseNetwork(p)
  PROVE  PInv'
<1>1. pc[p] = "smart" /\ UNCHANGED <<pod, confdir, leases>>  BY DEF ChooseNetwork
<1>2. inv[p] \in Invocations /\ inv[p].i = 1  BY <1>1, Here DEF Looping, Working
<1>3. CASE Exit(p, "dirty") /\ (CallFails \/ UNCHANGED faults)  BY <1>1, <1>3, DirtyExit
<1>4. ASSUME NEW c \in SmartNames, Goto(p, "patch", [inv[p] EXCEPT !.choice = c]),
             UNCHANGED faults
      PROVE  PInv'
  <2> DEFINE w == [inv[p] EXCEPT !.choice = c]
  <2>1. c \in Names  BY PodNetworkAssumption
  <2>2. w \in Invocations /\ w.i = 1 /\ w.choice \in Names  BY <1>2, <2>1 DEF Invocations
  <2> HIDE DEF w
  <2>3. Ready(p, "patch", w, leases)  BY <2>2, EarlyReady DEF Working
  <2>4. Goto(p, "patch", w)  BY <1>4 DEF w
  <2> QED  BY <1>1, <1>4, <2>3, <2>4, QuietGoto DEF Labels
<1> QED  BY <1>3, <1>4 DEF ChooseNetwork

\* PatchChoice keeps PInv.
LEMMA PatchChoiceInv ==
  ASSUME PInv, NEW p \in Pods, PatchChoice(p)
  PROVE  PInv'
<1> DEFINE v == inv[p]
           infos == <<Info(v.choice, Blank)>>
           w == [v EXCEPT !.infos = infos]
<1>1. pc[p] = "patch" /\ UNCHANGED <<confdir, leases>>  BY DEF PatchChoice
<1>2. v \in Invocations /\ v.i = 1 /\ TypeOK  BY <1>1, Here DEF Looping, Working
<1>3. v.choice \in Names  BY <1>1, Here DEF Ready
<1>4. CASE Exit(p, "dirty") /\ UNCHANGED pod /\ (CallFails \/ UNCHANGED faults)
  BY <1>1, <1>4, DirtyExit
<1>5. CASE /\ pod[p] # Absent
           /\ pod' = [pod EXCEPT ![p] = [pod[p] EXCEPT !.cni = <<v.choice>>, !.chosen = TRUE]]
           /\ Goto(p, AfterParse(v.cmd), w)
           /\ UNCHANGED faults
  <2>1. infos \in Seq(Infos)  BY <1>3, OneInfo
  <2>2. Ready(p, AfterParse(v.cmd), w, leases') /\ AfterParse(v.cmd) \in Labels \ {"none"}
    <3> HIDE DEF infos
    <3> QED  BY <1>2, <2>1, InfosReady
  <2>3. pod' \in [Pods -> PodRecords \cup {Absent}]
    <3>1. pod[p] \in PodRecords /\ pod \in [Pods -> PodRecords \cup {Absent}]
      BY <1>5 DEF PInv
    <3>2. <<v.choice>> \in Seq(Names)  BY <1>3
    <3>3. [pod[p] EXCEPT !.cni = <<v.choice>>, !.chosen = TRUE] \in PodRecords
      BY <3>1, <3>2 DEF PodRecords
    <3> QED  BY <1>5, <3>1, <3>3
  <2>4. failures' \in Nat /\ unread' \in Nat /\ short' \in BOOLEAN  BY <1>2, <1>5, FaultTypes
  <2>5. /\ confdir' \in [Files -> {"absent", "partial", "valid"}]
        /\ leases' \subseteq [pod : Pods, file : Files, ifname : Interfaces]
    BY <1>1, <1>2 DEF TypeOK
  <2>6. OthersKeep(p, leases, leases')  BY <1>1 DEF OthersKeep
  <2>7. Goto(p, AfterParse(v.cmd), w)  BY <1>5
  <2> HIDE DEF w
  <2> QED  BY <1>1, <2>2, <2>3, <2>4, <2>5, <2>6, <2>7, GotoInv
<1> QED  BY <1>4, <1>5 DEF PatchChoice

\* ParsePodAnnotationsForMultiIPPrefs keeps PInv.
LEMMA ParsePodAnnotationsForMultiIPPrefsInv ==
  ASSUME PInv, NEW p \in Pods, ParsePodAnnotationsForMultiIPPrefs(p)
  PROVE  PInv'
<1>1. pc[p] = "prefs" /\ UNCHANGED <<pod, confdir, leases>>
  BY DEF ParsePodAnnotationsForMultiIPPrefs
<1>2. /\ inv[p] \in Invocations /\ inv[p].i = 1
      /\ pod[p] \in PodRecords \cup {Absent}
  BY <1>1, Here DEF Looping, Working
<1>3. ASSUME NEW m \in Prefs PROVE Ready(p, "next", [inv[p] EXCEPT !.multi = m], leases)
  <2>1. [inv[p] EXCEPT !.multi = m] \in Invocations /\ [inv[p] EXCEPT !.multi = m].i = 1
    BY <1>2, <1>3 DEF Invocations
  <2> QED  BY <2>1, EarlyReady DEF Working
<1>4. Ready(p, "next", inv[p], leases)  BY <1>2, EarlyReady DEF Working
<1>5. (IF pod[p] = Absent THEN NoPrefs ELSE pod[p].multi) \in Prefs
  <2>1. NoPrefs \in Prefs  BY DEF NoPrefs, Prefs
  <2>2. pod[p] # Absent => pod[p].multi \in Prefs  BY <1>2 DEF PodRecords
  <2> QED  BY <2>1, <2>2
<1>6. CASE ReadUnnoticed /\ Goto(p, "next", inv[p])  BY <1>1, <1>4, <1>6, QuietGoto DEF Labels
<1>7. CASE /\ Goto(p, "next", [inv[p] EXCEPT !.multi =
                                 IF pod[p] = Absent THEN NoPrefs ELSE pod[p].multi])
           /\ UNCHANGED faults
  <2> DEFINE m == IF pod[p] = Absent THEN NoPrefs ELSE pod[p].multi
  <2>1. m \in Prefs  BY <1>5
  <2>2. Goto(p, "next", [inv[p] EXCEPT !.multi = m])  BY <1>7
  <2> HIDE DEF m
  <2> QED  BY <1>1, <1>3, <1>7, <2>1, <2>2, QuietGoto DEF Labels
<1> QED  BY <1>6, <1>7 DEF ParsePodAnnotationsForMultiIPPrefs

\* The loop over the plugins.  At its end, without an error, every network
\* resolved has given an address.
LEMMA NextPluginInv ==
  ASSUME PInv, NEW p \in Pods, NextPlugin(p)
  PROVE  PInv'
<1> DEFINE v == inv[p]
<1>1. pc[p] = "next" /\ UNCHANGED <<pod, confdir, leases, faults>>  BY DEF NextPlugin
<1>2. /\ Ready(p, "next", v, leases) /\ v \in Invocations /\ TypeOK
      /\ v.infos \in Seq(Infos) /\ v.i \in Nat /\ v.err \in BOOLEAN
      /\ v.cmd \in {"ADD", "DEL"}
  BY <1>1, Here
<1>3. CASE v.i <= Len(v.infos)
  <2>1. Goto(p, "conf", v)  BY <1>3 DEF NextPlugin
  <2>2. Ready(p, "conf", v, leases)  BY <1>2, <1>3 DEF Ready, Looping, Working
  <2> QED  BY <1>1, <2>1, <2>2, QuietGoto DEF Labels
<1>4. CASE ~(v.i <= Len(v.infos))
  <2> DEFINE view == IF v.err THEN "dirty" ELSE IF v.cmd = "ADD" THEN "running" ELSE "clean"
  <2>1. Exit(p, view)  BY <1>4 DEF NextPlugin
  <2>2. view = "running" => v.cmd = "ADD" /\ v.err = FALSE  BY <1>2
  <2>3. view \in {"clean", "running", "dirty"}  OBVIOUS
  <2>4. \A k \in DOMAIN v.infos : k < v.i  BY <1>2, <1>4
  <2>5. view = "running" => Complete(p, v.infos, leases)
    BY <1>2, <2>2, <2>4 DEF Ready, Complete
  <2>6. failures' \in Nat /\ unread' \in Nat /\ short' \in BOOLEAN  BY <1>1, <1>2, FaultTypes
  <2> HIDE DEF view
  <2> QED  BY <1>1, <2>1, <2>3, <2>5, <2>6, ExitInv
<1> QED  BY <1>3, <1>4

\* What is known within a turn of the loop.
LEMMA Turn ==
  ASSUME PInv, NEW p \in Pods, pc[p] \in Working
  PROVE  /\ inv[p].i \in DOMAIN inv[p].infos
         /\ Current(inv[p]) = inv[p].infos[inv[p].i]
         /\ Current(inv[p]).plugin \in Names
         /\ IfName(inv[p]) = IfAt(inv[p].infos, inv[p].i)
         /\ IfName(inv[p]) \in Interfaces
<1>1. pc[p] # "none"  BY DEF Working
<1>2. /\ inv[p] \in Invocations /\ inv[p].infos \in Seq(Infos) /\ inv[p].i \in Nat
      /\ inv[p].i >= 1 /\ Ready(p, pc[p], inv[p], leases)
  BY <1>1, Here
<1>3. inv[p].i <= Len(inv[p].infos)  BY <1>2 DEF Ready
<1>4. inv[p].i \in DOMAIN inv[p].infos  BY <1>2, <1>3
<1> QED  BY <1>2, <1>4, IfTypes

\* Within a turn only the outcome, the file and the error change.
LEMMA WithinReady ==
  ASSUME NEW p, NEW ls, NEW l \in Working, NEW v, NEW to \in Working, NEW w \in Invocations,
         Ready(p, l, v, ls), NEW ms, \A o \in ls : o.pod = p => o \in ms,
         w.infos = v.infos, w.i = v.i, w.cmd = v.cmd, w.err = v.err \/ w.err = TRUE,
         to \in {"prefs", "place", "write", "record"} => v.cmd = "ADD",
         to = "place" => v.infos[v.i].plugin \in Supported,
         to \in {"write", "plugin"} => /\ w.file \in Files
                                       /\ <<w.file, v.infos[v.i].plugin>> \in FileMatches,
         to = "record" => w.err = TRUE \/ Given(p, v.infos, v.i, ms)
  PROVE  Ready(p, to, w, ms)
<1>1. \A k : Given(p, v.infos, k, ls) => Given(p, v.infos, k, ms)  BY ReadyKeeps
<1>2. to \in Looping /\ to # "patch"  BY DEF Looping, Working
<1> QED  BY <1>1, <1>2 DEF Ready

\* A turn that failed goes on to UpdatePodDefinition.
LEMMA FailReady ==
  ASSUME NEW p, NEW ls, NEW l \in Working, NEW v, NEW w \in Invocations,
         Ready(p, l, v, ls), v.cmd = "ADD",
         w.infos = v.infos, w.i = v.i, w.cmd = v.cmd, w.err = TRUE
  PROVE  Ready(p, "record", w, ls)
<1>1. "record" \in Looping /\ "record" \in Working  BY DEF Looping, Working
<1> QED  BY <1>1 DEF Ready

\* AddFindConf keeps PInv.
LEMMA AddFindConfInv ==
  ASSUME PInv, NEW p \in Pods, AddFindConf(p)
  PROVE  PInv'
<1> DEFINE v == inv[p]
           name == Current(v).plugin
           f == FirstConf(Files, name)
<1>1. pc[p] = "conf" /\ v.cmd = "ADD" /\ UNCHANGED <<pod, confdir, leases, faults>>
  BY DEF AddFindConf
<1>2. v \in Invocations /\ Ready(p, "conf", v, leases)  BY <1>1, Here
<1>3. name = v.infos[v.i].plugin  BY <1>1, Turn DEF Working
<1>4. f # 0 => f \in Files /\ <<f, name>> \in FileMatches  BY FirstConfFound
<1>5. \A o \in leases : o.pod = p => o \in leases  OBVIOUS
<1> HIDE DEF name, f
<1>6. CASE f # 0 /\ Goto(p, "plugin", [v EXCEPT !.file = f])
  <2> DEFINE w == [v EXCEPT !.file = f]
  <2>1. /\ w \in Invocations /\ w.infos = v.infos /\ w.i = v.i /\ w.cmd = v.cmd
        /\ w.err = v.err /\ w.file = f
    BY <1>2, <1>4, <1>6 DEF Invocations
  <2>2. Goto(p, "plugin", w)  BY <1>6
  <2> HIDE DEF w
  <2>3. Ready(p, "plugin", w, leases)
    BY <1>1, <1>2, <1>3, <1>4, <1>5, <1>6, <2>1, WithinReady DEF Working
  <2> QED  BY <1>1, <2>2, <2>3, QuietGoto DEF Labels
<1>7. CASE name \in Binaries \cap Supported /\ Goto(p, "place", v)
  <2>1. Ready(p, "place", v, leases)
    BY <1>1, <1>2, <1>3, <1>5, <1>7, WithinReady DEF Working
  <2> QED  BY <1>1, <1>7, <2>1, QuietGoto DEF Labels
<1>8. CASE Goto(p, "record", [v EXCEPT !.result = FALSE, !.err = TRUE])
  <2> DEFINE w == [v EXCEPT !.result = FALSE, !.err = TRUE]
  <2>1. /\ w \in Invocations /\ w.infos = v.infos /\ w.i = v.i /\ w.cmd = v.cmd
        /\ w.err = TRUE
    BY <1>2 DEF Invocations
  <2>2. Goto(p, "record", w)  BY <1>8
  <2> HIDE DEF w
  <2>3. Ready(p, "record", w, leases)
    BY <1>1, <1>2, <2>1, FailReady DEF Working
  <2> QED  BY <1>1, <2>2, <2>3, QuietGoto DEF Labels
<1> QED  BY <1>6, <1>7, <1>8 DEF AddFindConf, name, f

\* PlaceConfFile keeps PInv.
LEMMA PlaceConfFileInv ==
  ASSUME PInv, NEW p \in Pods, PlaceConfFile(p)
  PROVE  PInv'
<1> DEFINE v == inv[p]
           f == DefaultFile[Current(v).plugin]
<1>1. pc[p] = "place" /\ UNCHANGED <<pod, leases>>  BY DEF PlaceConfFile
<1>2. v \in Invocations /\ Ready(p, "place", v, leases) /\ TypeOK  BY <1>1, Here
<1>3. v.cmd = "ADD" /\ v.infos[v.i].plugin \in Supported  BY <1>2 DEF Ready
<1>4. Current(v).plugin = v.infos[v.i].plugin  BY <1>1, Turn DEF Working
<1>5. f \in Files /\ <<f, v.infos[v.i].plugin>> \in FileMatches
  BY <1>3, <1>4, PodNetworkAssumption
<1>6. \A o \in leases : o.pod = p => o \in leases  OBVIOUS
<1> HIDE DEF f
<1>7. CASE /\ confdir' = [confdir EXCEPT ![f] = "partial"]
           /\ Goto(p, "write", [v EXCEPT !.file = f])
           /\ UNCHANGED faults
  <2> DEFINE w == [v EXCEPT !.file = f]
  <2>1. /\ w \in Invocations /\ w.infos = v.infos /\ w.i = v.i /\ w.cmd = v.cmd
        /\ w.err = v.err /\ w.file = f
    BY <1>2, <1>5 DEF Invocations
  <2>2. Goto(p, "write", w)  BY <1>7
  <2> HIDE DEF w
  <2>3. Ready(p, "write", w, leases)
    BY <1>2, <1>3, <1>5, <1>6, <2>1, WithinReady DEF Working
  <2>4. /\ confdir' \in [Files -> {"absent", "partial", "valid"}]
        /\ leases' \subseteq [pod : Pods, file : Files, ifname : Interfaces]
        /\ failures' \in Nat /\ unread' \in Nat /\ short' \in BOOLEAN
    <3>1. failures' \in Nat /\ unread' \in Nat /\ short' \in BOOLEAN  BY <1>2, <1>7, FaultTypes
    <3> QED  BY <1>1, <1>2, <1>7, <3>1 DEF TypeOK
  <2>5. pod' \in [Pods -> PodRecords \cup {Absent}]  BY <1>1 DEF PInv
  <2>6. OthersKeep(p, leases, leases') /\ Ready(p, "write", w, leases')
    BY <1>1, <2>3 DEF OthersKeep
  <2> QED  BY <1>1, <2>2, <2>4, <2>5, <2>6, GotoInv DEF Labels
<1>8. CASE /\ CallFails
           /\ Goto(p, "record", [v EXCEPT !.result = FALSE, !.err = TRUE])
           /\ UNCHANGED confdir
  <2> DEFINE w == [v EXCEPT !.result = FALSE, !.err = TRUE]
  <2>1. /\ w \in Invocations /\ w.infos = v.infos /\ w.i = v.i /\ w.cmd = v.cmd
        /\ w.err = TRUE
    BY <1>2 DEF Invocations
  <2>2. Goto(p, "record", w)  BY <1>8
  <2> HIDE DEF w
  <2>3. Ready(p, "record", w, leases)
    BY <1>2, <1>3, <2>1, FailReady DEF Working
  <2> QED  BY <1>1, <1>8, <2>2, <2>3, QuietGoto DEF Labels
<1> QED  BY <1>7, <1>8 DEF PlaceConfFile, f

\* WriteConfFile keeps PInv.
LEMMA WriteConfFileInv ==
  ASSUME PInv, NEW p \in Pods, WriteConfFile(p)
  PROVE  PInv'
<1> DEFINE v == inv[p]
<1>1. /\ pc[p] = "write" /\ UNCHANGED <<pod, leases, faults>> /\ Goto(p, "plugin", v)
      /\ confdir' = [confdir EXCEPT ![v.file] = "valid"]
  BY DEF WriteConfFile
<1>2. v \in Invocations /\ Ready(p, "write", v, leases) /\ TypeOK  BY <1>1, Here
<1>3. \A o \in leases : o.pod = p => o \in leases  OBVIOUS
<1>4. v.cmd = "ADD" /\ v.file \in Files /\ <<v.file, v.infos[v.i].plugin>> \in FileMatches
  BY <1>2 DEF Ready
<1>5. Ready(p, "plugin", v, leases)  BY <1>2, <1>3, <1>4, WithinReady DEF Working
<1>6. /\ confdir' \in [Files -> {"absent", "partial", "valid"}]
      /\ leases' \subseteq [pod : Pods, file : Files, ifname : Interfaces]
      /\ failures' \in Nat /\ unread' \in Nat /\ short' \in BOOLEAN
  <2>1. failures' \in Nat /\ unread' \in Nat /\ short' \in BOOLEAN  BY <1>1, <1>2, FaultTypes
  <2> QED  BY <1>1, <1>2, <2>1 DEF TypeOK
<1>7. pod' \in [Pods -> PodRecords \cup {Absent}]  BY <1>1 DEF PInv
<1>8. OthersKeep(p, leases, leases') /\ Ready(p, "plugin", v, leases')
  BY <1>1, <1>5 DEF OthersKeep
<1> QED  BY <1>1, <1>6, <1>7, <1>8, GotoInv DEF Labels

\* A lease is one of the pod, for the file and the interface at hand.
LEMMA LeaseTypes ==
  ASSUME PInv, NEW p \in Pods, pc[p] = "plugin"
  PROVE  /\ Lease(p) \in [pod : Pods, file : Files, ifname : Interfaces]
         /\ Lease(p).pod = p
         /\ Given(p, inv[p].infos, inv[p].i, {Lease(p)})
<1>1. Ready(p, "plugin", inv[p], leases)  BY Here
<1>2. inv[p].file \in Files /\ <<inv[p].file, inv[p].infos[inv[p].i].plugin>> \in FileMatches
  BY <1>1 DEF Ready
<1>3. IfName(inv[p]) = IfAt(inv[p].infos, inv[p].i) /\ IfName(inv[p]) \in Interfaces
  BY Turn DEF Working
<1>4. /\ Lease(p) \in [pod : Pods, file : Files, ifname : Interfaces]
      /\ Lease(p).pod = p /\ Lease(p).file = inv[p].file /\ Lease(p).ifname = IfName(inv[p])
  BY <1>2, <1>3 DEF Lease
<1> QED  BY <1>2, <1>3, <1>4 DEF Given

\* PluginAdd keeps PInv.
LEMMA PluginAddInv ==
  ASSUME PInv, NEW p \in Pods, PluginAdd(p)
  PROVE  PInv'
<1> DEFINE v == inv[p]
<1>1. pc[p] = "plugin" /\ v.cmd = "ADD" /\ UNCHANGED <<pod, confdir>>  BY DEF PluginAdd
<1>2. v \in Invocations /\ Ready(p, "plugin", v, leases) /\ TypeOK  BY <1>1, Here
<1>3. /\ leases' \in {leases, leases \cup {Lease(p)}}
      /\ CallFails \/ UNCHANGED faults
  BY DEF PluginAdd
<1>4. /\ confdir' \in [Files -> {"absent", "partial", "valid"}]
      /\ leases' \subseteq [pod : Pods, file : Files, ifname : Interfaces]
      /\ failures' \in Nat /\ unread' \in Nat /\ short' \in BOOLEAN
  <2>1. failures' \in Nat /\ unread' \in Nat /\ short' \in BOOLEAN  BY <1>2, <1>3, FaultTypes
  <2>2. leases \subseteq [pod : Pods, file : Files, ifname : Interfaces]  BY <1>2 DEF TypeOK
  <2>3. leases' \subseteq [pod : Pods, file : Files, ifname : Interfaces]
    BY <1>1, <1>3, <2>2, LeaseTypes
  <2> QED  BY <1>1, <1>2, <2>1, <2>3 DEF TypeOK
<1>5. pod' \in [Pods -> PodRecords \cup {Absent}]  BY <1>1 DEF PInv
<1>6. OthersKeep(p, leases, leases') /\ \A o \in leases : o.pod = p => o \in leases'
  BY <1>3 DEF OthersKeep
<1>7. ASSUME NEW w \in Invocations, Goto(p, "record", w), w.infos = v.infos, w.i = v.i,
             w.cmd = v.cmd, w.err = v.err \/ w.err = TRUE,
             w.err = TRUE \/ Given(p, v.infos, v.i, leases')
      PROVE  PInv'
  <2>1. Ready(p, "record", w, leases')
    <3>1. "plugin" \in Working /\ "record" \in Working  BY DEF Working
    <3> HIDE DEF v
    <3> QED  BY <1>1, <1>2, <1>6, <1>7, <3>1, WithinReady
  <2> QED  BY <1>1, <1>4, <1>5, <1>6, <1>7, <2>1, GotoInv DEF Labels
<1>8. CASE /\ leases' = leases \cup {Lease(p)}
           /\ Goto(p, "record", [v EXCEPT !.result = TRUE])
  <2> DEFINE w == [v EXCEPT !.result = TRUE]
  <2>1. /\ w \in Invocations /\ w.infos = v.infos /\ w.i = v.i /\ w.cmd = v.cmd
        /\ w.err = v.err
    BY <1>2 DEF Invocations
  <2>2. Given(p, v.infos, v.i, {Lease(p)})  BY <1>1, LeaseTypes
  <2>3. Given(p, v.infos, v.i, leases')  BY <1>8, <2>2 DEF Given
  <2>4. Goto(p, "record", w)  BY <1>8
  <2> HIDE DEF w
  <2> QED  BY <1>7, <2>1, <2>3, <2>4
<1>9. CASE Goto(p, "record", [v EXCEPT !.result = FALSE, !.err = TRUE])
  <2> DEFINE w == [v EXCEPT !.result = FALSE, !.err = TRUE]
  <2>1. /\ w \in Invocations /\ w.infos = v.infos /\ w.i = v.i /\ w.cmd = v.cmd
        /\ w.err = TRUE
    BY <1>2 DEF Invocations
  <2>2. Goto(p, "record", w)  BY <1>9
  <2> HIDE DEF w
  <2> QED  BY <1>7, <2>1, <2>2
<1> QED  BY <1>8, <1>9 DEF PluginAdd

\* After a plugin of ADD the loop goes on, whatever was recorded.
LEMMA RecordedReady ==
  ASSUME NEW p, NEW ls, NEW v \in Invocations, Ready(p, "record", v, ls),
         NEW m \in Prefs, NEW failed \in BOOLEAN
  PROVE  Ready(p, "next", Advance([v EXCEPT !.multi = m], failed), ls)
<1> DEFINE w == [v EXCEPT !.multi = m]
<1>1. /\ w \in Invocations /\ w.infos = v.infos /\ w.i = v.i /\ w.cmd = v.cmd
      /\ w.err = v.err
  BY DEF Invocations
<1>2. v.i \in Nat /\ v.i >= 1 /\ v.infos \in Seq(Infos) /\ v.err \in BOOLEAN
  BY DEF Invocations, Ready
<1>3. \A k \in DOMAIN v.infos : k <= v.i => k < v.i \/ k = v.i  BY <1>2
<1>4. v.cmd = "ADD" /\ v.err = FALSE =>
        \A k \in DOMAIN v.infos : k <= v.i => Given(p, v.infos, k, ls)
  BY <1>3 DEF Ready
<1> HIDE DEF w
<1>5. w.i >= 1  BY <1>1, <1>2
<1>6. w.cmd = "ADD" /\ w.err = FALSE /\ failed = FALSE =>
        \A k \in DOMAIN w.infos : k <= w.i => Given(p, w.infos, k, ls)
  BY <1>1, <1>4
<1>7. Ready(p, "next", Advance(w, failed), ls)  BY <1>1, <1>5, <1>6, AdvanceReady
<1> QED  BY <1>7 DEF w

\* An address is recorded under the number of its interface.
LEMMA RecordTypes ==
  ASSUME NEW m \in Prefs, NEW k \in Interfaces, k # OtherIf
  PROVE  RecordAddress(m, k) \in Prefs
<1>1. k \in Nat  BY DEF Interfaces
<1>2. m.entry + 1 \in Nat /\ m.ips \cup {k} \in SUBSET Nat  BY <1>1 DEF Prefs
<1> QED  BY <1>2 DEF RecordAddress, Prefs

\* UpdatePodDefinition keeps PInv.
LEMMA UpdatePodDefinitionInv ==
  ASSUME PInv, NEW p \in Pods, UpdatePodDefinition(p)
  PROVE  PInv'
<1> DEFINE v == inv[p]
           new == RecordAddress(v.multi, IfName(v))
           w == [v EXCEPT !.multi = new]
<1>1. pc[p] = "record" /\ UNCHANGED <<confdir, leases>>  BY DEF UpdatePodDefinition
<1>2. v \in Invocations /\ Ready(p, "record", v, leases) /\ TypeOK /\ v.multi \in Prefs
  BY <1>1, Here
<1>3. ASSUME NEW failed \in BOOLEAN PROVE Ready(p, "next", Advance(v, failed), leases)
  <2>1. [v EXCEPT !.multi = v.multi] = v  BY <1>2 DEF Invocations
  <2>2. Ready(p, "next", Advance([v EXCEPT !.multi = v.multi], failed), leases)
    BY <1>2, <1>3, RecordedReady
  <2> QED  BY <2>1, <2>2
<1>4. CASE Exit(p, "dirty") /\ UNCHANGED pod /\ UNCHANGED faults  BY <1>1, <1>4, DirtyExit
<1>5. ASSUME NEW failed \in BOOLEAN, Goto(p, "next", Advance(v, failed)), UNCHANGED pod,
             CallFails \/ UNCHANGED faults
      PROVE  PInv'
  BY <1>1, <1>3, <1>5, QuietGoto DEF Labels
<1>6. CASE /\ IfName(v) # OtherIf /\ pod[p] # Absent /\ UNCHANGED faults
           /\ pod' = [pod EXCEPT ![p] = [pod[p] EXCEPT !.multi = new]]
           /\ Goto(p, "next", Advance(w, FALSE))
  <2>1. IfName(v) \in Interfaces  BY <1>1, Turn DEF Working
  <2>2. new \in Prefs  BY <1>2, <1>6, <2>1, RecordTypes
  <2>3. pod' \in [Pods -> PodRecords \cup {Absent}]
    <3>1. pod[p] \in PodRecords /\ pod \in [Pods -> PodRecords \cup {Absent}]
      BY <1>6 DEF PInv
    <3> HIDE DEF new
    <3>2. [pod[p] EXCEPT !.multi = new] \in PodRecords  BY <2>2, <3>1 DEF PodRecords
    <3> QED  BY <1>6, <3>1, <3>2
  <2>4. failures' \in Nat /\ unread' \in Nat /\ short' \in BOOLEAN  BY <1>2, <1>6, FaultTypes
  <2>5. /\ confdir' \in [Files -> {"absent", "partial", "valid"}]
        /\ leases' \subseteq [pod : Pods, file : Files, ifname : Interfaces]
    BY <1>1, <1>2 DEF TypeOK
  <2>6. OthersKeep(p, leases, leases')  BY <1>1 DEF OthersKeep
  <2>7. Ready(p, "next", Advance(w, FALSE), leases')
    <3> HIDE DEF new
    <3> QED  BY <1>1, <1>2, <2>2, RecordedReady
  <2>8. Goto(p, "next", Advance(w, FALSE))  BY <1>6
  <2> HIDE DEF w
  <2> QED  BY <1>1, <2>3, <2>4, <2>5, <2>6, <2>7, <2>8, GotoInv DEF Labels
<1> QED  BY <1>4, <1>5, <1>6 DEF UpdatePodDefinition

\* A turn of DEL leaves nothing to show.
LEMMA DelReady ==
  ASSUME NEW p, NEW ls, NEW v \in Invocations, v.i >= 1, v.cmd = "DEL", NEW failed \in BOOLEAN
  PROVE  Ready(p, "next", Advance(v, failed), ls)
<1>1. v.cmd # "ADD"  OBVIOUS
<1> QED  BY <1>1, AdvanceReady

\* DelFindConf keeps PInv.
LEMMA DelFindConfInv ==
  ASSUME PInv, NEW p \in Pods, DelFindConf(p)
  PROVE  PInv'
<1> DEFINE v == inv[p]
           name == Current(v).plugin
           f == FirstConf(Files \ ConfLists, name)
<1>1. pc[p] = "conf" /\ v.cmd = "DEL" /\ UNCHANGED <<pod, confdir, leases, faults>>
  BY DEF DelFindConf
<1>2. v \in Invocations /\ Ready(p, "conf", v, leases) /\ v.i >= 1  BY <1>1, Here
<1>3. name = v.infos[v.i].plugin  BY <1>1, Turn DEF Working
<1>4. Files \ ConfLists \in SUBSET Files  OBVIOUS
<1>5. f # 0 => f \in Files /\ <<f, name>> \in FileMatches  BY <1>4, FirstConfFound
<1>6. \A o \in leases : o.pod = p => o \in leases  OBVIOUS
<1> HIDE DEF name, f
<1>7. ASSUME NEW failed \in BOOLEAN, Goto(p, "next", Advance(v, failed)) PROVE PInv'
  <2>1. Ready(p, "next", Advance(v, failed), leases)  BY <1>1, <1>2, DelReady
  <2> QED  BY <1>1, <1>7, <2>1, QuietGoto DEF Labels
<1>8. CASE f # 0 /\ Goto(p, "plugin", [v EXCEPT !.file = f])
  <2> DEFINE w == [v EXCEPT !.file = f]
  <2>1. /\ w \in Invocations /\ w.infos = v.infos /\ w.i = v.i /\ w.cmd = v.cmd
        /\ w.err = v.err /\ w.file = f
    BY <1>2, <1>5, <1>8 DEF Invocations
  <2>2. Goto(p, "plugin", w)  BY <1>8
  <2> HIDE DEF w
  <2>3. Ready(p, "plugin", w, leases)
    BY <1>1, <1>2, <1>3, <1>5, <1>6, <1>8, <2>1, WithinReady DEF Working
  <2> QED  BY <1>1, <2>2, <2>3, QuietGoto DEF Labels
<1> QED  BY <1>7, <1>8 DEF DelFindConf, name, f

\* PluginDel keeps PInv.
LEMMA PluginDelInv ==
  ASSUME PInv, NEW p \in Pods, PluginDel(p)
  PROVE  PInv'
<1> DEFINE v == inv[p]
<1>1. pc[p] = "plugin" /\ v.cmd = "DEL" /\ UNCHANGED <<pod, confdir>>  BY DEF PluginDel
<1>2. v \in Invocations /\ v.i >= 1 /\ TypeOK  BY <1>1, Here
<1>3. /\ leases' \in {leases, leases \ {Lease(p)}}
      /\ CallFails \/ UNCHANGED faults
  BY DEF PluginDel
<1>4. /\ confdir' \in [Files -> {"absent", "partial", "valid"}]
      /\ leases' \subseteq [pod : Pods, file : Files, ifname : Interfaces]
      /\ failures' \in Nat /\ unread' \in Nat /\ short' \in BOOLEAN
  <2>1. failures' \in Nat /\ unread' \in Nat /\ short' \in BOOLEAN  BY <1>2, <1>3, FaultTypes
  <2>2. leases \subseteq [pod : Pods, file : Files, ifname : Interfaces]  BY <1>2 DEF TypeOK
  <2>3. leases' \subseteq [pod : Pods, file : Files, ifname : Interfaces]  BY <1>3, <2>2
  <2> QED  BY <1>1, <1>2, <2>1, <2>3 DEF TypeOK
<1>5. pod' \in [Pods -> PodRecords \cup {Absent}]  BY <1>1 DEF PInv
<1>6. OthersKeep(p, leases, leases')
  <2>1. Lease(p).pod = p  BY <1>1, LeaseTypes
  <2> QED  BY <1>3, <2>1 DEF OthersKeep
<1>7. ASSUME NEW failed \in BOOLEAN, Goto(p, "next", Advance(v, failed)) PROVE PInv'
  <2>1. Ready(p, "next", Advance(v, failed), leases')  BY <1>1, <1>2, DelReady
  <2> QED  BY <1>1, <1>4, <1>5, <1>6, <1>7, <2>1, GotoInv DEF Labels
<1> QED  BY <1>7 DEF PluginDel

-----------------------------------------------------------------------------
\* Nothing is attached at the start.
LEMMA InitPInv == Init => PInv
<1> SUFFICES ASSUME Init PROVE PInv  OBVIOUS
<1>1. /\ pod \in [Pods -> UNION {PodValues[p] : p \in Pods}]
      /\ \A p \in Pods : pod[p] \in PodRecords
  BY PodNetworkAssumption DEF Init
<1>2. pod \in [Pods -> PodRecords \cup {Absent}]  BY <1>1
<1>3. Invocation("DEL") \in Invocations
  <2>1. << >> \in Seq(NetworkEntries) /\ << >> \in Seq(Infos)  OBVIOUS
  <2>2. NoPrefs \in Prefs  BY DEF NoPrefs, Prefs
  <2> QED  BY <2>1, <2>2 DEF Invocation, Invocations
<1>4. TypeOK
  <2>1. inv \in [Pods -> Invocations]  BY <1>3 DEF Init
  <2>2. /\ confdir \in [Files -> {"absent", "partial", "valid"}] /\ leases = {}
        /\ sandbox \in [Pods -> {"clean", "running", "dirty"}]
        /\ pc \in [Pods -> Labels] /\ adds \in [Pods -> Nat]
        /\ {edits, failures, unread, kills} \subseteq Nat
    BY DEF Init, Labels
  <2>3. short \in BOOLEAN  BY PodNetworkAssumption DEF Init
  <2> QED  BY <1>1, <2>1, <2>2, <2>3 DEF TypeOK
<1>5. \A p \in Pods : pc[p] = "none" /\ sandbox[p] = "clean"  BY DEF Init
<1> QED  BY <1>2, <1>4, <1>5 DEF PInv

\* Every step keeps PInv.
LEMMA NextPInv == PInv /\ [Next]_vars => PInv'
<1> SUFFICES ASSUME PInv, [Next]_vars PROVE PInv'  OBVIOUS
<1>1. CASE UNCHANGED vars  BY <1>1 DEF PInv, TypeOK, vars, faults
<1>2. CASE Next
  <2>1. PICK p \in Pods : KubeletAdd(p) \/ KubeletDel(p) \/ UserEdit(p) \/ Kill(p) \/ Genie(p)
    BY <1>2 DEF Next
  <2>2. CASE KubeletAdd(p) \/ KubeletDel(p) \/ Kill(p)  BY <2>2, InvocationInv
  <2>3. CASE UserEdit(p)  BY <2>3, UserEditInv
  <2>4. CASE Genie(p)
    BY <2>4, GetKubeClientInv, ParsePodAnnotationsForCNIInv, ParsePodAnnotationsForNetworksInv,
       ChooseNetworkInv, PatchChoiceInv, ParsePodAnnotationsForMultiIPPrefsInv, NextPluginInv,
       AddFindConfInv, PlaceConfFileInv, WriteConfFileInv, PluginAddInv,
       UpdatePodDefinitionInv, DelFindConfInv, PluginDelInv
       DEF Genie
  <2> QED  BY <2>1, <2>2, <2>3, <2>4
<1> QED  BY <1>1, <1>2

\* The inductive invariant holds throughout.
THEOREM PodInvariance == Spec => []PInv
<1>1. Init => PInv  BY InitPInv
<1>2. PInv /\ [Next]_vars => PInv'  BY NextPInv
<1> QED  BY <1>1, <1>2, PTL DEF Spec

\* Annotations, leases and the local variables of cmdAdd and cmdDel keep their
\* types; in particular the loops of AddPodNetwork and DeletePodNetwork never
\* run over the end of their list, and an interface that is recorded in
\* multi-ip-preferences has a number.
THEOREM PodTypeCorrect == Spec => []TypeOK
<1>1. PInv => TypeOK  BY DEF PInv
<1> QED  BY <1>1, PodInvariance, PTL

\* The leases that complete a list attach its pod.
LEMMA CompleteAttached ==
  ASSUME NEW p, NEW infos, Complete(p, infos, leases)
  PROVE  Attached(p, infos)
<1> SUFFICES ASSUME NEW k \in DOMAIN infos
             PROVE  \E l \in Held(p) : /\ <<l.file, infos[k].plugin>> \in FileMatches
                                       /\ l.ifname = IfName([infos |-> infos, i |-> k])
  BY DEF Attached
<1>1. IfName([infos |-> infos, i |-> k]) = IfAt(infos, k)  BY DEF IfName, Current, IfAt
<1>2. Given(p, infos, k, leases)  BY DEF Complete
<1> QED  BY <1>1, <1>2 DEF Given, Held

\* AddPodNetwork: whatever fails or is killed, whoever edits the pod and whatever
\* happens to the configuration files in the meantime, a pod that cmdAdd reports
\* as set up has an address from every network this ADD resolved, each on its
\* interface.
THEOREM AddComplete == Spec => []AddIsComplete
<1>1. PInv => AddIsComplete
  <2> SUFFICES ASSUME PInv, NEW p \in Pods, sandbox[p] = "running"
               PROVE  Attached(p, inv[p].infos)
    BY DEF AddIsComplete
  <2>1. Complete(p, inv[p].infos, leases)  BY DEF PInv
  <2> QED  BY <2>1, CompleteAttached
<1> QED  BY <1>1, PodInvariance, PTL
-----------------------------------------------------------------------------
(***************************************************************************)
(* A node where nobody interferes: users leave the annotations of their    *)
(* pods alone, a read that fails is noticed, every solution that genie     *)
(* could place a file for has one from the start, and a name's first file  *)
(* is one that DEL looks at as well.  Without any one of these an address  *)
(* can be left behind for good.                                            *)
(***************************************************************************)
ConfOf(n) ==
  LET good == {f \in InitialFiles : <<f, n>> \in FileMatches}
  IN  IF good = {} THEN 0 ELSE CHOOSE f \in good : \A g \in good : f <= g

Undisturbed ==
  /\ MaxEdits = 0 /\ MaxUnread = 0
  /\ \A n \in Binaries \cap Supported : ConfOf(n) # 0
  /\ \A n \in Names : ConfOf(n) \notin ConfLists

\* What an invocation works out from the annotations r, if it can.
Plan(r) ==
  IF Bare(r) THEN <<Info(DefaultPlugin, Blank)>>
  ELSE IF r.cni # << >> THEN [k \in DOMAIN r.cni |-> Info(r.cni[k], Blank)]
  ELSE GetPluginInfoFromNwAnnot(r.networks, {})

Planned(r) ==
  Bare(r) \/ r.cni # << >> \/ (r.networks # << >> /\ NetworksReadable(r.networks))

PlanLease(p, infos, k) ==
  [pod |-> p, file |-> ConfOf(infos[k].plugin), ifname |-> IfAt(infos, k)]

\* The leases ls hold nothing for pod p.
Free(p, ls) == \A o \in ls : o.pod # p

\* What they hold for it, the annotations r ask for.
AsPlanned(p, r, ls) ==
  \A o \in ls : o.pod = p =>
    Planned(r) /\ \E k \in DOMAIN Plan(r) : o = PlanLease(p, Plan(r), k)

\* The process of pod p, whose annotations are r, follows the plan.
Follows(p, l, v, r, ls) ==
  /\ l \notin {"place", "write"}
  /\ v.multi.kind # "none" => v.multi = r.multi
  /\ v.cmd = "ADD" /\ l \in Looping => v.multi = r.multi
  /\ l = "networks" => /\ r # Absent /\ ~Bare(r) /\ r.cni = << >>
                       /\ v.nets = r.networks
  /\ l \in {"smart", "patch"} => ~Planned(r) /\ r.networks = << >>
  /\ l \in Looping \cup {"prefs"} => Planned(r) /\ v.infos = Plan(r)
  /\ l = "plugin" => v.file = ConfOf(v.infos[v.i].plugin)
  /\ v.cmd = "ADD" /\ l \notin Looping => Free(p, ls)
  /\ v.cmd = "DEL" /\ v.err = FALSE =>
       \A k \in DOMAIN v.infos : k < v.i => PlanLease(p, v.infos, k) \notin ls
  /\ v.cmd = "ADD" /\ v.err = FALSE /\ v.multi.kind = "prefs" =>
       \A o \in ls : o.pod = p =>
         \/ o.ifname \in v.multi.ips
         \/ l = "record" /\ o.ifname = IfAt(v.infos, v.i)

\* Pod p with annotations r and sandbox s, its process at label l with local
\* variables v.
Served(p, r, s, l, v, ls) ==
  /\ r \in PodRecords
  /\ \E q \in PodValues[p] : r.networks = q.networks
  /\ r.chosen => r.networks = << >>
  /\ AsPlanned(p, r, ls)
  /\ s = "clean" => Free(p, ls)
  /\ s = "running" => Planned(r) /\ v.infos = Plan(r)
  /\ s = "running" /\ r.multi.kind = "prefs" =>
       \A o \in ls : o.pod = p => o.ifname \in r.multi.ips
  /\ l # "none" => Follows(p, l, v, r, ls)

(***************************************************************************)
(* The invariant of such a node: the files stay as they are, every pod     *)
(* holds at most what its annotations ask for, a DEL that met no error has *)
(* given back what its loop has passed, and an ADD works with the          *)
(* preferences as they are and recorded what it took.                      *)
(***************************************************************************)
RInv ==
  /\ confdir = [f \in Files |-> IF f \in InitialFiles THEN "valid" ELSE "absent"]
  /\ \A p \in Pods : Served(p, pod[p], sandbox[p], pc[p], inv[p], leases)

\* A name's file, if it has one, is a first one among those that match.
LEMMA ConfOfLeast ==
  ASSUME NEW n
  PROVE  LET good == {f \in InitialFiles : <<f, n>> \in FileMatches} IN
         /\ good = {} => ConfOf(n) = 0
         /\ good # {} => ConfOf(n) \in good /\ \A g \in good : ConfOf(n) <= g
<1> DEFINE good == {f \in InitialFiles : <<f, n>> \in FileMatches}
<1>1. good \subseteq Nat  BY PodNetworkAssumption
<1>2. ConfOf(n) = IF good = {} THEN 0 ELSE CHOOSE f \in good : \A g \in good : f <= g
  BY DEF ConfOf
<1>3. CASE good = {}  BY <1>2, <1>3
<1>4. CASE good # {}
  <2> HIDE DEF good
  <2>1. \E f \in good : \A g \in good : f <= g  BY <1>1, <1>4, Least
  <2>2. ConfOf(n) \in good /\ \A g \in good : ConfOf(n) <= g  BY <1>2, <1>4, <2>1
  <2> QED  BY <1>4, <2>2 DEF good
<1> QED  BY <1>3, <1>4

\* As long as the files stay as they are ADD and DEL find the same one.
LEMMA SameConf ==
  ASSUME Undisturbed, NEW n \in Names,
         confdir = [f \in Files |-> IF f \in InitialFiles THEN "valid" ELSE "absent"]
  PROVE  /\ FirstConf(Files, n) = ConfOf(n)
         /\ FirstConf(Files \ ConfLists, n) = ConfOf(n)
<1> DEFINE good == {f \in InitialFiles : <<f, n>> \in FileMatches}
           seen == {f \in Files \ ConfLists : confdir[f] = "valid" /\ <<f, n>> \in FileMatches}
<1>1. InitialFiles \subseteq Files /\ Files \subseteq Nat \ {0}  BY PodNetworkAssumption
<1>2. {f \in Files : confdir[f] = "valid" /\ <<f, n>> \in FileMatches} = good  BY <1>1
<1>3. FirstConf(Files, n) = ConfOf(n)
  <2> DEFINE all == {f \in Files : confdir[f] = "valid" /\ <<f, n>> \in FileMatches}
  <2>1. FirstConf(Files, n) = IF all = {} THEN 0 ELSE CHOOSE f \in all : \A g \in all : f <= g
    BY DEF FirstConf
  <2>2. ConfOf(n) = IF good = {} THEN 0 ELSE CHOOSE f \in good : \A g \in good : f <= g
    BY DEF ConfOf
  <2>3. all = good  BY <1>2
  <2> HIDE DEF all, good
  <2> QED  BY <2>1, <2>2, <2>3
<1>4. seen = good \ ConfLists /\ good \subseteq Nat  BY <1>1
<1>5. /\ FirstConf(Files \ ConfLists, n)
           = IF seen = {} THEN 0 ELSE CHOOSE f \in seen : \A g \in seen : f <= g
  BY DEF FirstConf
<1>6. /\ good = {} => ConfOf(n) = 0
      /\ good # {} => ConfOf(n) \in good /\ \A g \in good : ConfOf(n) <= g
  BY ConfOfLeast
<1>7. ConfOf(n) \notin ConfLists  BY DEF Undisturbed
<1> HIDE DEF good, seen
<1>8. CASE good = {}
  <2>1. seen = {}  BY <1>4, <1>8
  <2> QED  BY <1>3, <1>5, <1>6, <1>8, <2>1
<1>9. CASE good # {}
  <2>1. ConfOf(n) \in seen /\ \A g \in seen : ConfOf(n) <= g  BY <1>4, <1>6, <1>7, <1>9
  <2>2. \A f \in seen : (\A g \in seen : f <= g) => f = ConfOf(n)
    <3> SUFFICES ASSUME NEW f \in seen, \A g \in seen : f <= g PROVE f = ConfOf(n)
      OBVIOUS
    <3>1. f \in Nat /\ ConfOf(n) \in Nat  BY <1>4, <2>1
    <3>2. f <= ConfOf(n) /\ ConfOf(n) <= f  BY <2>1
    <3> QED  BY <3>1, <3>2
  <2>3. seen # {}  BY <2>1
  <2>4. (CHOOSE f \in seen : \A g \in seen : f <= g) = ConfOf(n)  BY <2>1, <2>2
  <2> QED  BY <1>3, <1>5, <2>3, <2>4
<1> QED  BY <1>8, <1>9

\* A sequence that is not empty has an index.
LEMMA NonEmpty ==
  ASSUME NEW S, NEW s \in Seq(S), s # << >>
  PROVE  DOMAIN s # {}
<1>1. Len(s) \in Nat /\ Len(s) # 0  OBVIOUS
<1> QED  BY <1>1

\* A plan is a list of plugins, and never an empty one.
LEMMA PlanTypes ==
  ASSUME NEW r \in PodRecords, Planned(r)
  PROVE  Plan(r) \in Seq(Infos) /\ Plan(r) # << >>
<1>1. CASE Bare(r)
  <2>1. <<Info(DefaultPlugin, Blank)>> \in Seq(Infos)  BY PodNetworkAssumption, OneInfo
  <2>2. Plan(r) = <<Info(DefaultPlugin, Blank)>>  BY <1>1 DEF Plan
  <2> QED  BY <2>1, <2>2
<1>2. CASE ~Bare(r) /\ r.cni # << >>
  <2> DEFINE infos == [k \in DOMAIN r.cni |-> Info(r.cni[k], Blank)]
  <2>1. infos \in Seq(Infos)  BY CNIInfos
  <2>2. r.cni \in Seq(Names) /\ DOMAIN infos = DOMAIN r.cni  BY DEF PodRecords
  <2>3. DOMAIN r.cni # {}  BY <1>2, <2>2, NonEmpty
  <2>4. infos # << >>
    <3> HIDE DEF infos
    <3> QED  BY <2>1, <2>2, <2>3
  <2> QED  BY <1>2, <2>1, <2>4 DEF Plan
<1>3. CASE ~Bare(r) /\ r.cni = << >>
  <2>1. r.networks # << >> /\ NetworksReadable(r.networks)  BY <1>3 DEF Planned
  <2>2. r.networks \in Seq(NetworkEntries)  BY DEF PodRecords
  <2>3. Plan(r) = GetPluginInfoFromNwAnnot(r.networks, {})  BY <1>3 DEF Plan
  <2>4. Plan(r) \in Seq(Infos) /\ DOMAIN Plan(r) = DOMAIN r.networks
    BY <2>1, <2>2, <2>3, NetworkInfos
  <2>5. DOMAIN r.networks # {}  BY <2>1, <2>2, NonEmpty
  <2> QED  BY <2>4, <2>5
<1> QED  BY <1>1, <1>2, <1>3

\* Addresses recorded do not change the plan.
LEMMA PlanKept ==
  ASSUME NEW r \in PodRecords, NEW m \in Prefs, r.multi.kind # "none", m.kind # "none"
  PROVE  LET s == [r EXCEPT !.multi = m] IN
         Plan(s) = Plan(r) /\ (Planned(s) <=> Planned(r)) /\ s.multi = m
<1> DEFINE s == [r EXCEPT !.multi = m]
<1>1. s.cni = r.cni /\ s.networks = r.networks /\ s.multi = m /\ s.other = r.other
  BY DEF PodRecords
<1>2. ~Bare(s) /\ ~Bare(r)  BY <1>1 DEF Bare, NoPrefs
<1> HIDE DEF s
<1>3. Plan(s) = Plan(r) /\ (Planned(s) <=> Planned(r)) /\ s.multi = m
  BY <1>1, <1>2 DEF Plan, Planned
<1> QED  BY <1>3 DEF s

\* A pod is not concerned by the leases of others.
LEMMA ServedLocal ==
  ASSUME NEW p, NEW r, NEW s, NEW l, NEW v, NEW ls, NEW ms,
         \A o : o.pod = p => (o \in ls <=> o \in ms),
         Served(p, r, s, l, v, ls)
  PROVE  Served(p, r, s, l, v, ms)
<1>1. AsPlanned(p, r, ls) => AsPlanned(p, r, ms)  BY DEF AsPlanned
<1>2. Free(p, ls) => Free(p, ms)  BY DEF Free
<1>3. \A k : PlanLease(p, v.infos, k).pod = p  BY DEF PlanLease
<1>4. Follows(p, l, v, r, ls) => Follows(p, l, v, r, ms)  BY <1>2, <1>3 DEF Follows
<1> QED  BY <1>1, <1>2, <1>4 DEF Served

\* A step for pod p.
LEMMA StepServed ==
  ASSUME RInv, NEW p \in Pods, UNCHANGED confdir,
         \A q \in Pods : q # p => /\ pod'[q] = pod[q] /\ sandbox'[q] = sandbox[q]
                                  /\ pc'[q] = pc[q] /\ inv'[q] = inv[q],
         \A o : o.pod # p => (o \in leases <=> o \in leases'),
         Served(p, pod'[p], sandbox'[p], pc'[p], inv'[p], leases')
  PROVE  RInv'
<1>1. ASSUME NEW q \in Pods, q # p
      PROVE  Served(q, pod'[q], sandbox'[q], pc'[q], inv'[q], leases')
  <2>1. Served(q, pod[q], sandbox[q], pc[q], inv[q], leases)  BY DEF RInv
  <2>2. \A o : o.pod = q => (o \in leases <=> o \in leases')  BY <1>1
  <2>3. Served(q, pod[q], sandbox[q], pc[q], inv[q], leases')  BY <2>1, <2>2, ServedLocal
  <2> QED  BY <1>1, <2>3
<1> QED  BY <1>1 DEF RInv

\* What a process finds on such a node.
LEMMA HereServed ==
  ASSUME PInv, RInv, NEW p \in Pods, pc[p] # "none"
  PROVE  /\ Follows(p, pc[p], inv[p], pod[p], leases)
         /\ pod[p] \in PodRecords /\ AsPlanned(p, pod[p], leases)
         /\ Served(p, pod[p], "dirty", pc[p], inv[p], leases)
<1>1. sandbox[p] = "dirty"  BY Here
<1> QED  BY <1>1 DEF RInv, Served

\* The process of pod p goes on, and only that.
LEMMA QuietFollows ==
  ASSUME PInv, RInv, NEW p \in Pods, pc[p] # "none", NEW to, NEW v,
         Goto(p, to, v), UNCHANGED <<pod, confdir, leases>>, Follows(p, to, v, pod[p], leases)
  PROVE  RInv'
<1>1. Served(p, pod[p], "dirty", pc[p], inv[p], leases) /\ sandbox[p] = "dirty"
  BY HereServed, Here
<1>2. TypeOK  BY DEF PInv
<1>3. /\ pc' = [pc EXCEPT ![p] = to] /\ inv' = [inv EXCEPT ![p] = v] /\ sandbox' = sandbox
  BY DEF Goto
<1>4. /\ pc'[p] = to /\ inv'[p] = v
      /\ \A q \in Pods : q # p => pc'[q] = pc[q] /\ inv'[q] = inv[q]
  BY <1>2, <1>3 DEF TypeOK
<1>5. Served(p, pod[p], "dirty", to, v, leases)  BY <1>1 DEF Served
<1> QED  BY <1>1, <1>3, <1>4, <1>5, StepServed

\* The process of pod p ends.
LEMMA ExitServed ==
  ASSUME PInv, RInv, NEW p \in Pods, pc[p] # "none", NEW s,
         Exit(p, s), UNCHANGED <<pod, confdir, leases>>,
         s = "clean" => Free(p, leases),
         s = "running" => Planned(pod[p]) /\ inv[p].infos = Plan(pod[p]),
         s = "running" /\ pod[p].multi.kind = "prefs" =>
           \A o \in leases : o.pod = p => o.ifname \in pod[p].multi.ips
  PROVE  RInv'
<1>1. Served(p, pod[p], "dirty", pc[p], inv[p], leases)  BY HereServed
<1>2. TypeOK  BY DEF PInv
<1>3. pc' = [pc EXCEPT ![p] = "none"] /\ inv' = inv /\ sandbox' = [sandbox EXCEPT ![p] = s]
  BY DEF Exit
<1>4. /\ pc'[p] = "none" /\ sandbox'[p] = s
      /\ \A q \in Pods : q # p => pc'[q] = pc[q] /\ sandbox'[q] = sandbox[q]
  BY <1>2, <1>3 DEF TypeOK
<1>5. Served(p, pod[p], s, "none", inv[p], leases)  BY <1>1 DEF Served
<1> QED  BY <1>3, <1>4, <1>5, StepServed

\* An end with an error keeps RInv.
LEMMA DirtyServed ==
  ASSUME PInv, RInv, NEW p \in Pods, pc[p] # "none", Exit(p, "dirty"),
         UNCHANGED <<pod, confdir, leases>>
  PROVE  RInv'
BY ExitServed

\* Before the loop.
LEMMA EarlyFollows ==
  ASSUME NEW p, NEW ls, NEW r, NEW v \in Invocations, v.i = 1,
         NEW to, to \notin Working,
         v.cmd = "ADD" => Free(p, ls),
         v.multi.kind # "none" => v.multi = r.multi,
         v.cmd = "ADD" /\ to = "next" => v.multi = r.multi,
         to = "networks" => r # Absent /\ ~Bare(r) /\ r.cni = << >> /\ v.nets = r.networks,
         to \in {"smart", "patch"} => ~Planned(r) /\ r.networks = << >>,
         to \in {"next", "prefs"} => Planned(r) /\ v.infos = Plan(r)
  PROVE  Follows(p, to, v, r, ls)
<1>1. v.infos \in Seq(Infos)  BY DEF Invocations
<1>2. \A k \in DOMAIN v.infos : ~(k < v.i)  BY <1>1
<1>3. v.cmd = "ADD" => \A o \in ls : o.pod # p  BY DEF Free
<1>4. to \notin {"place", "write"} /\ to # "plugin"  BY DEF Working
<1>5. /\ to \in Looping \cup {"prefs"} => to \in {"next", "prefs"}
      /\ to \in Looping => to = "next"
  BY DEF Looping
<1> QED  BY <1>2, <1>3, <1>4, <1>5 DEF Follows

\* Parsing ends with the plan of the annotations.
LEMMA PlanFollows ==
  ASSUME NEW p, NEW ls, NEW r \in PodRecords, NEW v \in Invocations, v.i = 1,
         NEW l, l \notin Looping, Follows(p, l, v, r, ls), Planned(r)
  PROVE  Follows(p, AfterParse(v.cmd), [v EXCEPT !.infos = Plan(r)], r, ls)
<1> DEFINE w == [v EXCEPT !.infos = Plan(r)]
<1>1. /\ w.i = 1 /\ w.cmd = v.cmd /\ w.multi = v.multi /\ w.infos = Plan(r)
      /\ w.err = v.err /\ w.file = v.file
  BY DEF Invocations
<1>5. w \in Invocations
  <2>1. Plan(r) \in Seq(Infos)  BY PlanTypes
  <2> QED  BY <2>1 DEF Invocations
<1> HIDE DEF w
<1>2. v.cmd = "ADD" => Free(p, ls)  BY DEF Follows
<1>3. v.multi.kind # "none" => v.multi = r.multi  BY DEF Follows
<1>4. AfterParse(v.cmd) \in {"next", "prefs"} /\ (v.cmd = "ADD" => AfterParse(v.cmd) # "next")
  BY DEF AfterParse
<1>6. Follows(p, AfterParse(v.cmd), w, r, ls)
  BY <1>1, <1>2, <1>3, <1>4, <1>5, EarlyFollows DEF Working
<1> QED  BY <1>6 DEF w

\* The kubelet, and kills.
LEMMA InvocationServed ==
  ASSUME PInv, RInv, NEW p \in Pods, KubeletAdd(p) \/ KubeletDel(p) \/ Kill(p)
  PROVE  RInv'
<1>1. TypeOK /\ Served(p, pod[p], sandbox[p], pc[p], inv[p], leases)  BY DEF PInv, RInv
<1>2. UNCHANGED <<pod, confdir, leases>>  BY DEF KubeletAdd, KubeletDel, Kill, Invoke
<1>3. ASSUME NEW cmd \in {"ADD", "DEL"}, Invoke(p, cmd), cmd = "ADD" => sandbox[p] = "clean"
      PROVE  RInv'
  <2> DEFINE v == Invocation(cmd)
  <2>1. v \in Invocations /\ v.i = 1 /\ v.cmd = cmd /\ v.multi.kind = "none"
    <3>1. << >> \in Seq(NetworkEntries) /\ << >> \in Seq(Infos)  OBVIOUS
    <3>2. NoPrefs \in Prefs /\ NoPrefs.kind = "none"  BY DEF NoPrefs, Prefs
    <3> QED  BY <3>1, <3>2 DEF Invocation, Invocations
  <2>2. /\ pc' = [pc EXCEPT ![p] = "start"] /\ inv' = [inv EXCEPT ![p] = v]
        /\ sandbox' = [sandbox EXCEPT ![p] = "dirty"]
    BY <1>3 DEF Invoke
  <2> HIDE DEF v
  <2>3. /\ pc'[p] = "start" /\ inv'[p] = v /\ sandbox'[p] = "dirty"
        /\ \A q \in Pods : q # p => /\ pc'[q] = pc[q] /\ inv'[q] = inv[q]
                                    /\ sandbox'[q] = sandbox[q]
    BY <1>1, <2>2 DEF TypeOK
  <2>4. cmd = "ADD" => Free(p, leases)  BY <1>1, <1>3 DEF Served
  <2>5. Follows(p, "start", v, pod[p], leases)  BY <2>1, <2>4, EarlyFollows DEF Working
  <2>6. Served(p, pod[p], "dirty", "start", v, leases)  BY <1>1, <2>5 DEF Served
  <2> QED  BY <1>2, <2>3, <2>6, StepServed
<1>4. CASE Kill(p)
  <2>1. pc' = [pc EXCEPT ![p] = "none"] /\ inv' = inv /\ sandbox' = sandbox
    BY <1>4 DEF Kill
  <2>2. pc'[p] = "none" /\ \A q \in Pods : q # p => pc'[q] = pc[q]  BY <1>1, <2>1 DEF TypeOK
  <2>3. Served(p, pod[p], sandbox[p], "none", inv[p], leases)  BY <1>1 DEF Served
  <2> QED  BY <1>2, <2>1, <2>2, <2>3, StepServed
<1> QED  BY <1>3, <1>4 DEF KubeletAdd, KubeletDel

\* The steps before the loop.
LEMMA GetKubeClientServed ==
  ASSUME PInv, RInv, NEW p \in Pods, GetKubeClient(p)
  PROVE  RInv'
<1>1. pc[p] = "start" /\ UNCHANGED <<pod, confdir, leases>>  BY DEF GetKubeClient
<1>2. inv[p] \in Invocations /\ inv[p].i = 1  BY <1>1, Here DEF Looping, Working
<1>3. Follows(p, "start", inv[p], pod[p], leases)  BY <1>1, HereServed
<1>4. CASE Goto(p, "parse", inv[p])
  <2>1. inv[p].cmd = "ADD" => Free(p, leases)  BY <1>3 DEF Follows, Looping, Working
  <2>2. inv[p].multi.kind # "none" => inv[p].multi = pod[p].multi  BY <1>3 DEF Follows
  <2>3. Follows(p, "parse", inv[p], pod[p], leases)
    BY <1>2, <2>1, <2>2, EarlyFollows DEF Working
  <2> QED  BY <1>1, <1>4, <2>3, QuietFollows
<1>5. CASE Exit(p, "dirty")  BY <1>1, <1>5, DirtyServed
<1> QED  BY <1>4, <1>5 DEF GetKubeClient

\* ParsePodAnnotationsForCNI keeps RInv.
LEMMA ParsePodAnnotationsForCNIServed ==
  ASSUME PInv, RInv, NEW p \in Pods, ParsePodAnnotationsForCNI(p)
  PROVE  RInv'
<1> DEFINE r == pod[p]
           v == inv[p]
<1>1. pc[p] = "parse" /\ "parse" \notin Looping
  BY DEF ParsePodAnnotationsForCNI, Looping, Working
<1>2. v \in Invocations /\ v.i = 1  BY <1>1, Here
<1>3. r \in PodRecords /\ Follows(p, "parse", v, r, leases)  BY <1>1, HereServed
<1>4. CASE Fail(p) \/ (Exit(p, "dirty") /\ UNCHANGED <<pod, confdir, leases>>)
  BY <1>1, <1>4, DirtyServed DEF Fail
<1>5. ASSUME UNCHANGED <<pod, confdir, leases>>, Planned(r),
             Goto(p, AfterParse(v.cmd), [v EXCEPT !.infos = Plan(r)])
      PROVE  RInv'
  <2>1. Follows(p, AfterParse(v.cmd), [v EXCEPT !.infos = Plan(r)], r, leases)
    BY <1>1, <1>2, <1>3, <1>5, PlanFollows
  <2> QED  BY <1>1, <1>5, <2>1, QuietFollows
<1>6. ASSUME UNCHANGED <<pod, confdir, leases>>, r # Absent, ~Bare(r), r.cni = << >>,
             Goto(p, "networks", [v EXCEPT !.nets = r.networks])
      PROVE  RInv'
  <2> DEFINE w == [v EXCEPT !.nets = r.networks]
  <2>1. r.networks \in Seq(NetworkEntries)  BY <1>3 DEF PodRecords
  <2>2. /\ w \in Invocations /\ w.i = 1 /\ w.cmd = v.cmd /\ w.multi = v.multi
        /\ w.nets = r.networks
    BY <1>2, <2>1 DEF Invocations
  <2>3. Goto(p, "networks", w)  BY <1>6
  <2> HIDE DEF w
  <2>4. v.cmd = "ADD" => Free(p, leases)  BY <1>1, <1>3 DEF Follows
  <2>5. v.multi.kind # "none" => v.multi = r.multi  BY <1>3 DEF Follows
  <2>6. Follows(p, "networks", w, r, leases)
    BY <1>6, <2>2, <2>4, <2>5, EarlyFollows DEF Working
  <2> QED  BY <1>1, <1>6, <2>3, <2>6, QuietFollows
<1>7. Bare(r) => Planned(r) /\ Plan(r) = <<Info(DefaultPlugin, Blank)>>  BY DEF Planned, Plan
<1>8. ~Bare(r) /\ r.cni # << >> =>
        Planned(r) /\ Plan(r) = [k \in DOMAIN r.cni |-> Info(r.cni[k], Blank)]
  BY DEF Planned, Plan
<1> QED  BY <1>4, <1>5, <1>6, <1>7, <1>8 DEF ParsePodAnnotationsForCNI

\* ParsePodAnnotationsForNetworks keeps RInv.
LEMMA ParsePodAnnotationsForNetworksServed ==
  ASSUME Undisturbed, PInv, RInv, NEW p \in Pods, ParsePodAnnotationsForNetworks(p)
  PROVE  RInv'
<1> DEFINE r == pod[p]
           v == inv[p]
<1>1. /\ pc[p] = "networks" /\ "networks" \notin Looping
      /\ UNCHANGED <<pod, confdir, leases>>
  BY DEF ParsePodAnnotationsForNetworks, Looping, Working
<1>2. v \in Invocations /\ v.i = 1 /\ TypeOK  BY <1>1, Here
<1>3. r \in PodRecords /\ Follows(p, "networks", v, r, leases)  BY <1>1, HereServed
<1>4. r # Absent /\ ~Bare(r) /\ r.cni = << >> /\ v.nets = r.networks  BY <1>3 DEF Follows
<1>5. ~ReadUnnoticed
  <2>1. unread \in Nat /\ MaxUnread = 0  BY <1>2 DEF TypeOK, Undisturbed
  <2> QED  BY <2>1 DEF ReadUnnoticed
<1>6. CASE Exit(p, "dirty")  BY <1>1, <1>6, DirtyServed
<1>7. CASE r.networks = << >> /\ Goto(p, "smart", v)
  <2>1. ~Planned(r)  BY <1>4, <1>7 DEF Planned
  <2>2. v.cmd = "ADD" => Free(p, leases)  BY <1>1, <1>3 DEF Follows
  <2>3. v.multi.kind # "none" => v.multi = r.multi  BY <1>3 DEF Follows
  <2>4. Follows(p, "smart", v, r, leases)
    BY <1>2, <1>7, <2>1, <2>2, <2>3, EarlyFollows DEF Working
  <2> QED  BY <1>1, <1>7, <2>4, QuietFollows
<1>8. CASE /\ v.nets # << >> /\ NetworksReadable(v.nets)
           /\ Goto(p, AfterParse(v.cmd),
                   [v EXCEPT !.infos = GetPluginInfoFromNwAnnot(v.nets, {})])
  <2>1. Planned(r) /\ Plan(r) = GetPluginInfoFromNwAnnot(v.nets, {})
    BY <1>4, <1>8 DEF Planned, Plan
  <2>2. Follows(p, AfterParse(v.cmd), [v EXCEPT !.infos = Plan(r)], r, leases)
    BY <1>1, <1>2, <1>3, <2>1, PlanFollows
  <2> QED  BY <1>1, <1>8, <2>1, <2>2, QuietFollows
<1> QED  BY <1>4, <1>5, <1>6, <1>7, <1>8 DEF ParsePodAnnotationsForNetworks

\* ChooseNetwork keeps RInv.
LEMMA ChooseNetworkServed ==
  ASSUME PInv, RInv, NEW p \in Pods, ChooseNetwork(p)
  PROVE  RInv'
<1> DEFINE v == inv[p]
<1>1. pc[p] = "smart" /\ "smart" \notin Looping /\ UNCHANGED <<pod, confdir, leases>>
  BY DEF ChooseNetwork, Looping, Working
<1>2. v \in Invocations /\ v.i = 1  BY <1>1, Here
<1>3. Follows(p, "smart", v, pod[p], leases)  BY <1>1, HereServed
<1>4. CASE Exit(p, "dirty")  BY <1>1, <1>4, DirtyServed
<1>5. ASSUME NEW c \in SmartNames, Goto(p, "patch", [v EXCEPT !.choice = c]) PROVE RInv'
  <2> DEFINE w == [v EXCEPT !.choice = c]
  <2>1. c \in Names  BY PodNetworkAssumption
  <2>2. w \in Invocations /\ w.i = 1 /\ w.cmd = v.cmd /\ w.multi = v.multi
    BY <1>2, <2>1 DEF Invocations
  <2>3. Goto(p, "patch", w)  BY <1>5
  <2> HIDE DEF w
  <2>4. v.cmd = "ADD" => Free(p, leases)  BY <1>1, <1>3 DEF Follows
  <2>5. v.multi.kind # "none" => v.multi = pod[p].multi  BY <1>3 DEF Follows
  <2>6. ~Planned(pod[p]) /\ pod[p].networks = << >>  BY <1>3 DEF Follows
  <2>7. Follows(p, "patch", w, pod[p], leases)
    BY <2>2, <2>4, <2>5, <2>6, EarlyFollows DEF Working
  <2> QED  BY <1>1, <2>3, <2>7, QuietFollows
<1> QED  BY <1>4, <1>5 DEF ChooseNetwork

\* ParsePodAnnotationsForMultiIPPrefs keeps RInv.
LEMMA ParsePodAnnotationsForMultiIPPrefsServed ==
  ASSUME Undisturbed, PInv, RInv, NEW p \in Pods, ParsePodAnnotationsForMultiIPPrefs(p)
  PROVE  RInv'
<1> DEFINE v == inv[p]
           m == pod[p].multi
           w == [v EXCEPT !.multi = m]
<1>1. pc[p] = "prefs" /\ "prefs" \notin Looping /\ UNCHANGED <<pod, confdir, leases>>
  BY DEF ParsePodAnnotationsForMultiIPPrefs, Looping, Working
<1>2. v \in Invocations /\ v.i = 1 /\ TypeOK  BY <1>1, Here
<1>3. Follows(p, "prefs", v, pod[p], leases) /\ pod[p] \in PodRecords  BY <1>1, HereServed
<1>4. /\ v.cmd = "ADD" => Free(p, leases)
      /\ Planned(pod[p]) /\ v.infos = Plan(pod[p])
  BY <1>1, <1>3 DEF Follows
<1>5. ~ReadUnnoticed
  <2>1. unread \in Nat /\ MaxUnread = 0  BY <1>2 DEF TypeOK, Undisturbed
  <2> QED  BY <2>1 DEF ReadUnnoticed
<1>6. pod[p] # Absent  BY <1>3, PodNetworkAssumption
<1>7. Goto(p, "next", w)  BY <1>5, <1>6 DEF ParsePodAnnotationsForMultiIPPrefs
<1>8. m \in Prefs  BY <1>3 DEF PodRecords
<1> HIDE DEF m
<1>9. w \in Invocations /\ w.i = 1 /\ w.cmd = v.cmd /\ w.multi = m /\ w.infos = v.infos
  BY <1>2, <1>8 DEF Invocations
<1> HIDE DEF w
<1>10. Follows(p, "next", w, pod[p], leases)
  BY <1>4, <1>9, EarlyFollows DEF Working, m
<1> QED  BY <1>1, <1>7, <1>10, QuietFollows

\* The process of pod p goes on, and changes the pod or what it holds.
LEMMA GotoServed ==
  ASSUME PInv, RInv, NEW p \in Pods, pc[p] # "none", NEW to, NEW v, Goto(p, to, v),
         UNCHANGED confdir, NEW r \in PodRecords, pod' = [pod EXCEPT ![p] = r],
         \A o : o.pod # p => (o \in leases <=> o \in leases'),
         r.networks = pod[p].networks,
         r.chosen => r.networks = << >>,
         AsPlanned(p, r, leases'), Follows(p, to, v, r, leases')
  PROVE  RInv'
<1>1. Served(p, pod[p], "dirty", pc[p], inv[p], leases) /\ sandbox[p] = "dirty"
  BY HereServed, Here
<1>2. TypeOK /\ pod \in [Pods -> PodRecords \cup {Absent}]  BY DEF PInv
<1>3. /\ pc' = [pc EXCEPT ![p] = to] /\ inv' = [inv EXCEPT ![p] = v] /\ sandbox' = sandbox
  BY DEF Goto
<1>4. /\ pc'[p] = to /\ inv'[p] = v /\ pod'[p] = r
      /\ \A q \in Pods : q # p => pc'[q] = pc[q] /\ inv'[q] = inv[q] /\ pod'[q] = pod[q]
  BY <1>2, <1>3 DEF TypeOK
<1>5. \E q \in PodValues[p] : r.networks = q.networks  BY <1>1 DEF Served
<1>6. Served(p, r, "dirty", to, v, leases')  BY <1>5 DEF Served
<1> QED  BY <1>1, <1>3, <1>4, <1>6, StepServed

\* PatchChoice keeps RInv.
LEMMA PatchChoiceServed ==
  ASSUME PInv, RInv, NEW p \in Pods, PatchChoice(p)
  PROVE  RInv'
<1> DEFINE v == inv[p]
           c == v.choice
           r == [pod[p] EXCEPT !.cni = <<c>>, !.chosen = TRUE]
           w == [v EXCEPT !.infos = <<Info(c, Blank)>>]
<1>1. pc[p] = "patch" /\ "patch" \notin Looping /\ UNCHANGED <<confdir, leases>>
  BY DEF PatchChoice, Looping, Working
<1>2. v \in Invocations /\ v.i = 1  BY <1>1, Here
<1>3. c \in Names  BY <1>1, Here DEF Ready
<1>4. /\ Follows(p, "patch", v, pod[p], leases) /\ pod[p] \in PodRecords
      /\ AsPlanned(p, pod[p], leases) /\ Served(p, pod[p], "dirty", pc[p], v, leases)
  BY <1>1, HereServed
<1>5. CASE Exit(p, "dirty") /\ UNCHANGED pod  BY <1>1, <1>5, DirtyServed
<1>6. CASE pod' = [pod EXCEPT ![p] = r] /\ Goto(p, AfterParse(v.cmd), w)
  <2>1. /\ r \in PodRecords /\ r.cni = <<c>> /\ r.networks = pod[p].networks
        /\ r.multi = pod[p].multi
    <3>1. <<c>> \in Seq(Names)  BY <1>3
    <3> QED  BY <1>4, <3>1 DEF PodRecords
  <2>2. Free(p, leases)  BY <1>4 DEF Follows, AsPlanned, Free
  <2>3. Plan(r) = <<Info(c, Blank)>> /\ Planned(r)
    <3> HIDE DEF r, c
    <3>1. <<c>> # << >>  OBVIOUS
    <3>2. ~Bare(r)  BY <2>1, <3>1 DEF Bare
    <3>3. Plan(r) = [k \in DOMAIN <<c>> |-> Info(<<c>>[k], Blank)]  BY <2>1, <3>1, <3>2 DEF Plan
    <3>4. [k \in DOMAIN <<c>> |-> Info(<<c>>[k], Blank)] = <<Info(c, Blank)>>  OBVIOUS
    <3> QED  BY <2>1, <3>1, <3>3, <3>4 DEF Planned
  <2>4. AsPlanned(p, r, leases')  BY <1>1, <2>2 DEF AsPlanned, Free
  <2>5. r.networks = << >>  BY <1>4, <2>1 DEF Follows
  <2>6. /\ w.i = 1 /\ w.cmd = v.cmd /\ w.multi = v.multi /\ w.infos = <<Info(c, Blank)>>
        /\ w \in Invocations
    <3>1. <<Info(c, Blank)>> \in Seq(Infos)  BY <1>3, OneInfo
    <3> QED  BY <1>2, <3>1 DEF Invocations
  <2>7. v.multi.kind # "none" => v.multi = pod[p].multi  BY <1>4 DEF Follows
  <2>8. Goto(p, AfterParse(v.cmd), w) /\ pod' = [pod EXCEPT ![p] = r]  BY <1>6
  <2>9. /\ AfterParse(v.cmd) \in {"next", "prefs"}
        /\ v.cmd = "ADD" => AfterParse(v.cmd) # "next"
    BY DEF AfterParse
  <2> HIDE DEF w, r
  <2>10. Follows(p, AfterParse(v.cmd), w, r, leases')
    BY <1>1, <2>1, <2>2, <2>3, <2>6, <2>7, <2>9, EarlyFollows DEF Working
  <2> QED  BY <1>1, <2>1, <2>4, <2>5, <2>8, <2>10, GotoServed
<1> QED  BY <1>5, <1>6 DEF PatchChoice

\* The loop.  At its end, without an error, DEL has given back all there was.
LEMMA NextPluginServed ==
  ASSUME PInv, RInv, NEW p \in Pods, NextPlugin(p)
  PROVE  RInv'
<1> DEFINE v == inv[p]
           r == pod[p]
<1>1. pc[p] = "next" /\ UNCHANGED <<pod, confdir, leases>>  BY DEF NextPlugin
<1>2. /\ v \in Invocations /\ v.infos \in Seq(Infos) /\ v.i \in Nat /\ v.err \in BOOLEAN
      /\ v.cmd \in {"ADD", "DEL"}
  BY <1>1, Here
<1>3. Follows(p, "next", v, r, leases) /\ AsPlanned(p, r, leases)  BY <1>1, HereServed
<1>4. CASE v.i <= Len(v.infos)
  <2>1. Goto(p, "conf", v)  BY <1>4 DEF NextPlugin
  <2>2. Follows(p, "conf", v, r, leases)  BY <1>3 DEF Follows, Looping, Working
  <2> QED  BY <1>1, <2>1, <2>2, QuietFollows
<1>5. CASE ~(v.i <= Len(v.infos))
  <2> DEFINE view == IF v.err THEN "dirty" ELSE IF v.cmd = "ADD" THEN "running" ELSE "clean"
  <2>1. Exit(p, view)  BY <1>5 DEF NextPlugin
  <2>2. /\ view = "running" => v.cmd = "ADD" /\ v.err = FALSE
        /\ view = "clean" => v.cmd = "DEL" /\ v.err = FALSE
    BY <1>2
  <2>3. \A k \in DOMAIN v.infos : k < v.i  BY <1>2, <1>5
  <2> HIDE DEF view
  <2>4. view = "clean" => Free(p, leases)
    <3> SUFFICES ASSUME view = "clean" PROVE Free(p, leases)  OBVIOUS
    <3>1. v.infos = Plan(r)  BY <1>3 DEF Follows, Looping
    <3>2. \A k \in DOMAIN Plan(r) : PlanLease(p, Plan(r), k) \notin leases
      BY <1>3, <2>2, <2>3, <3>1 DEF Follows
    <3> QED  BY <1>3, <3>2 DEF AsPlanned, Free
  <2>5. view = "running" => Planned(r) /\ v.infos = Plan(r)  BY <1>3 DEF Follows, Looping
  <2>6. view = "running" /\ r.multi.kind = "prefs" =>
          \A o \in leases : o.pod = p => o.ifname \in r.multi.ips
    BY <1>3, <2>2 DEF Follows, Looping
  <2> QED  BY <1>1, <2>1, <2>4, <2>5, <2>6, ExitServed
<1> QED  BY <1>4, <1>5

\* Within a turn.
LEMMA WithinFollows ==
  ASSUME NEW p, NEW ls, NEW r, NEW v, NEW l \in {"conf", "plugin"}, NEW w,
         NEW to \in {"plugin", "record"}, Follows(p, l, v, r, ls),
         w.infos = v.infos, w.i = v.i, w.cmd = v.cmd, w.multi = v.multi,
         w.err = v.err \/ w.err = TRUE,
         to = "plugin" => w.file = ConfOf(v.infos[v.i].plugin)
  PROVE  Follows(p, to, w, r, ls)
<1>1. l \in Looping /\ to \in Looping  BY DEF Looping, Working
<1> QED  BY <1>1 DEF Follows

\* AddFindConf keeps RInv.
LEMMA AddFindConfServed ==
  ASSUME Undisturbed, PInv, RInv, NEW p \in Pods, AddFindConf(p)
  PROVE  RInv'
<1> DEFINE v == inv[p]
           name == Current(v).plugin
           f == FirstConf(Files, name)
<1>1. pc[p] = "conf" /\ UNCHANGED <<pod, confdir, leases>>  BY DEF AddFindConf
<1>2. v \in Invocations  BY <1>1, Here
<1>3. name = v.infos[v.i].plugin /\ name \in Names  BY <1>1, Turn DEF Working
<1>4. f = ConfOf(name)
  <2> HIDE DEF name
  <2> QED  BY <1>3, SameConf DEF RInv
<1>5. Follows(p, "conf", v, pod[p], leases)  BY <1>1, HereServed
<1>6. f = 0 => name \notin Binaries \cap Supported  BY <1>4 DEF Undisturbed
<1> HIDE DEF f, name
<1>7. CASE f # 0 /\ Goto(p, "plugin", [v EXCEPT !.file = f])
  <2> DEFINE w == [v EXCEPT !.file = f]
  <2>1. /\ w.infos = v.infos /\ w.i = v.i /\ w.cmd = v.cmd /\ w.multi = v.multi
        /\ w.err = v.err /\ w.file = f
    BY <1>2 DEF Invocations
  <2>2. Goto(p, "plugin", w)  BY <1>7
  <2> HIDE DEF w
  <2>3. Follows(p, "plugin", w, pod[p], leases)  BY <1>3, <1>4, <1>5, <2>1, WithinFollows
  <2> QED  BY <1>1, <2>2, <2>3, QuietFollows
<1>8. CASE Goto(p, "record", [v EXCEPT !.result = FALSE, !.err = TRUE])
  <2> DEFINE w == [v EXCEPT !.result = FALSE, !.err = TRUE]
  <2>1. /\ w.infos = v.infos /\ w.i = v.i /\ w.cmd = v.cmd /\ w.multi = v.multi
        /\ w.err = TRUE
    BY <1>2 DEF Invocations
  <2>2. Goto(p, "record", w)  BY <1>8
  <2> HIDE DEF w
  <2>3. Follows(p, "record", w, pod[p], leases)  BY <1>5, <2>1, WithinFollows
  <2> QED  BY <1>1, <2>2, <2>3, QuietFollows
<1> QED  BY <1>6, <1>7, <1>8 DEF AddFindConf, f, name

\* No file is ever placed.
LEMMA NoPlacing ==
  ASSUME PInv, RInv, NEW p \in Pods
  PROVE  ~PlaceConfFile(p) /\ ~WriteConfFile(p)
<1>1. pc[p] # "none" => pc[p] \notin {"place", "write"}  BY HereServed DEF Follows
<1> QED  BY <1>1 DEF PlaceConfFile, WriteConfFile

\* The lease a plugin is asked for is the one in the plan.
LEMMA LeasePlanned ==
  ASSUME PInv, RInv, NEW p \in Pods, pc[p] = "plugin"
  PROVE  /\ Lease(p) = PlanLease(p, inv[p].infos, inv[p].i)
         /\ Lease(p).pod = p /\ Lease(p).ifname = IfAt(inv[p].infos, inv[p].i)
         /\ inv[p].infos = Plan(pod[p]) /\ Planned(pod[p])
         /\ inv[p].i \in DOMAIN inv[p].infos
<1>1. Follows(p, "plugin", inv[p], pod[p], leases)  BY HereServed
<1>2. inv[p].file = ConfOf(inv[p].infos[inv[p].i].plugin)  BY <1>1 DEF Follows
<1>3. /\ IfName(inv[p]) = IfAt(inv[p].infos, inv[p].i)
      /\ inv[p].i \in DOMAIN inv[p].infos
  BY Turn DEF Working
<1>4. inv[p].infos = Plan(pod[p]) /\ Planned(pod[p])  BY <1>1 DEF Follows, Looping, Working
<1> QED  BY <1>2, <1>3, <1>4 DEF Lease, PlanLease

\* PluginAdd keeps RInv.
LEMMA PluginAddServed ==
  ASSUME PInv, RInv, NEW p \in Pods, PluginAdd(p)
  PROVE  RInv'
<1> DEFINE v == inv[p]
           r == pod[p]
<1>1. pc[p] = "plugin" /\ v.cmd = "ADD" /\ UNCHANGED <<pod, confdir>>  BY DEF PluginAdd
<1>2. v \in Invocations  BY <1>1, Here
<1>3. leases' \in {leases, leases \cup {Lease(p)}}  BY DEF PluginAdd
<1>4. /\ Lease(p) = PlanLease(p, v.infos, v.i) /\ Lease(p).pod = p
      /\ Lease(p).ifname = IfAt(v.infos, v.i)
      /\ v.infos = Plan(r) /\ Planned(r) /\ v.i \in DOMAIN v.infos
  BY <1>1, LeasePlanned
<1>5. /\ Follows(p, "plugin", v, r, leases) /\ r \in PodRecords /\ AsPlanned(p, r, leases)
      /\ Served(p, r, "dirty", pc[p], v, leases)
  BY <1>1, HereServed
<1>6. \A o : o.pod # p => (o \in leases <=> o \in leases')  BY <1>3, <1>4
<1>7. AsPlanned(p, r, leases')  BY <1>3, <1>4, <1>5 DEF AsPlanned
<1>8. pod' = [pod EXCEPT ![p] = r]  BY <1>1 DEF PInv
<1>9. ASSUME NEW w, Goto(p, "record", w), w.infos = v.infos, w.i = v.i,
             w.cmd = v.cmd, w.multi = v.multi, w.err = v.err \/ w.err = TRUE
      PROVE  RInv'
  <2>1. Follows(p, "record", w, r, leases)  BY <1>5, <1>9, WithinFollows
  <2>2. "record" \in Looping /\ w.cmd # "DEL"  BY <1>1, <1>9 DEF Looping, Working
  <2>3. \A o \in leases' : o \in leases \/ o.ifname = IfAt(w.infos, w.i)  BY <1>3, <1>4, <1>9
  <2>4. Follows(p, "record", w, r, leases')  BY <2>1, <2>2, <2>3 DEF Follows
  <2>5. r.chosen => r.networks = << >>  BY <1>5 DEF Served
  <2> QED  BY <1>1, <1>5, <1>6, <1>7, <1>8, <1>9, <2>4, <2>5, GotoServed
<1>10. CASE Goto(p, "record", [v EXCEPT !.result = TRUE])
  <2> DEFINE w == [v EXCEPT !.result = TRUE]
  <2>1. /\ w.infos = v.infos /\ w.i = v.i /\ w.cmd = v.cmd /\ w.multi = v.multi
        /\ w.err = v.err
    BY <1>2 DEF Invocations
  <2>2. Goto(p, "record", w)  BY <1>10
  <2> HIDE DEF w
  <2> QED  BY <1>9, <2>1, <2>2
<1>11. CASE Goto(p, "record", [v EXCEPT !.result = FALSE, !.err = TRUE])
  <2> DEFINE w == [v EXCEPT !.result = FALSE, !.err = TRUE]
  <2>1. /\ w.infos = v.infos /\ w.i = v.i /\ w.cmd = v.cmd /\ w.multi = v.multi
        /\ w.err = TRUE
    BY <1>2 DEF Invocations
  <2>2. Goto(p, "record", w)  BY <1>11
  <2> HIDE DEF w
  <2> QED  BY <1>9, <2>1, <2>2
<1> QED  BY <1>10, <1>11 DEF PluginAdd

\* The loop goes on to the next plugin.
LEMMA AdvanceFollows ==
  ASSUME NEW p, NEW ls, NEW r, NEW v \in Invocations, NEW failed \in BOOLEAN,
         Planned(r), v.infos = Plan(r), v.multi.kind # "none" => v.multi = r.multi,
         v.cmd = "ADD" => v.multi = r.multi,
         v.cmd = "DEL" /\ v.err = FALSE /\ failed = FALSE =>
           \A k \in DOMAIN v.infos : k <= v.i => PlanLease(p, v.infos, k) \notin ls,
         v.cmd = "ADD" /\ v.err = FALSE /\ failed = FALSE /\ v.multi.kind = "prefs" =>
           \A o \in ls : o.pod = p => o.ifname \in v.multi.ips
  PROVE  Follows(p, "next", Advance(v, failed), r, ls)
<1> DEFINE w == Advance(v, failed)
<1>1. /\ w.cmd = v.cmd /\ w.infos = v.infos /\ w.i = v.i + 1 /\ w.multi = v.multi
      /\ w.err = (v.err \/ failed)
  BY DEF Advance, Invocations
<1>2. v.i \in Nat /\ v.infos \in Seq(Infos) /\ v.err \in BOOLEAN  BY DEF Invocations
<1> HIDE DEF w
<1>3. \A k \in DOMAIN v.infos : k < w.i => k <= v.i  BY <1>1, <1>2
<1>4. w.err = FALSE => v.err = FALSE /\ failed = FALSE  BY <1>1, <1>2
<1>5. w.cmd = "DEL" /\ w.err = FALSE =>
        \A k \in DOMAIN w.infos : k < w.i => PlanLease(p, w.infos, k) \notin ls
  BY <1>1, <1>3, <1>4
<1>6. w.cmd = "ADD" /\ w.err = FALSE /\ w.multi.kind = "prefs" =>
        \A o \in ls : o.pod = p => o.ifname \in w.multi.ips
  BY <1>1, <1>4
<1>7. Follows(p, "next", w, r, ls)
  <2>1. "next" \in Looping  BY DEF Looping
  <2> QED  BY <1>1, <1>5, <1>6, <2>1 DEF Follows
<1> QED  BY <1>7 DEF w

\* UpdatePodDefinition keeps RInv.
LEMMA UpdatePodDefinitionServed ==
  ASSUME PInv, RInv, NEW p \in Pods, UpdatePodDefinition(p)
  PROVE  RInv'
<1> DEFINE v == inv[p]
           r == pod[p]
           new == RecordAddress(v.multi, IfName(v))
           s == [r EXCEPT !.multi = new]
           w == [v EXCEPT !.multi = new]
<1>1. pc[p] = "record" /\ UNCHANGED <<confdir, leases>>  BY DEF UpdatePodDefinition
<1>2. v \in Invocations /\ v.multi \in Prefs /\ Ready(p, "record", v, leases)
  BY <1>1, Here
<1>3. /\ Follows(p, "record", v, r, leases) /\ r \in PodRecords /\ AsPlanned(p, r, leases)
      /\ Served(p, r, "dirty", pc[p], v, leases)
  BY <1>1, HereServed
<1>4. /\ Planned(r) /\ v.infos = Plan(r) /\ v.multi = r.multi
      /\ v.cmd = "ADD"
  BY <1>2, <1>3 DEF Follows, Ready, Looping, Working
<1>5. CASE Exit(p, "dirty") /\ UNCHANGED pod  BY <1>1, <1>5, DirtyServed
<1>6. ASSUME NEW failed \in BOOLEAN, Goto(p, "next", Advance(v, failed)), UNCHANGED pod,
             failed = TRUE \/ v.multi.kind = "none"
      PROVE  RInv'
  <2>1. v.cmd # "DEL" /\ ~(failed = FALSE /\ v.multi.kind = "prefs")  BY <1>4, <1>6
  <2>2. Follows(p, "next", Advance(v, failed), r, leases)
    BY <1>2, <1>4, <2>1, AdvanceFollows
  <2> QED  BY <1>1, <1>6, <2>2, QuietFollows
<1>7. CASE /\ v.multi.kind # "none" /\ IfName(v) # OtherIf
           /\ pod' = [pod EXCEPT ![p] = s]
           /\ Goto(p, "next", Advance(w, FALSE))
  <2>1. IfName(v) \in Interfaces /\ IfName(v) = IfAt(v.infos, v.i)  BY <1>1, Turn DEF Working
  <2>2. new \in Prefs  BY <1>2, <1>7, <2>1, RecordTypes
  <2>3. new.kind = v.multi.kind /\ new.ips = v.multi.ips \cup {IfName(v)}
    BY <1>2 DEF RecordAddress, Prefs
  <2>5. pod' = [pod EXCEPT ![p] = s] /\ Goto(p, "next", Advance(w, FALSE))  BY <1>7
  <2> HIDE DEF new
  <2>6. s \in PodRecords /\ s.networks = r.networks /\ s.multi = new /\ s.chosen = r.chosen
    BY <1>3, <2>2 DEF PodRecords
  <2>7. Plan(s) = Plan(r) /\ (Planned(s) <=> Planned(r))
    BY <1>3, <1>4, <1>7, <2>2, <2>3, PlanKept
  <2>8. /\ w \in Invocations /\ w.infos = v.infos /\ w.i = v.i /\ w.cmd = v.cmd
        /\ w.err = v.err /\ w.multi = new
    BY <1>2, <2>2 DEF Invocations
  <2> HIDE DEF s, w
  <2>9. AsPlanned(p, s, leases')  BY <1>1, <1>3, <2>7 DEF AsPlanned
  <2>10. w.err = FALSE /\ new.kind = "prefs" =>
           \A o \in leases' : o.pod = p => o.ifname \in new.ips
    BY <1>1, <1>3, <1>4, <2>1, <2>3, <2>8 DEF Follows
  <2>11. w.cmd # "DEL"  BY <1>4, <2>8
  <2>12. Follows(p, "next", Advance(w, FALSE), s, leases')
    BY <1>4, <2>6, <2>7, <2>8, <2>10, <2>11, AdvanceFollows
  <2>13. s.chosen => s.networks = << >>  BY <1>3, <2>6 DEF Served
  <2> QED  BY <1>1, <2>5, <2>6, <2>9, <2>12, <2>13, GotoServed
<1> QED  BY <1>5, <1>6, <1>7 DEF UpdatePodDefinition

\* DelFindConf keeps RInv.
LEMMA DelFindConfServed ==
  ASSUME Undisturbed, PInv, RInv, NEW p \in Pods, DelFindConf(p)
  PROVE  RInv'
<1> DEFINE v == inv[p]
           name == Current(v).plugin
           f == FirstConf(Files \ ConfLists, name)
<1>1. pc[p] = "conf" /\ v.cmd = "DEL" /\ UNCHANGED <<pod, confdir, leases>>
  BY DEF DelFindConf
<1>2. v \in Invocations /\ TypeOK /\ v.infos \in Seq(Infos) /\ v.i \in Nat  BY <1>1, Here
<1>3. name = v.infos[v.i].plugin /\ name \in Names  BY <1>1, Turn DEF Working
<1>4. f = ConfOf(name)
  <2> HIDE DEF name
  <2> QED  BY <1>3, SameConf DEF RInv
<1>5. Follows(p, "conf", v, pod[p], leases)  BY <1>1, HereServed
<1>6. /\ Planned(pod[p]) /\ v.infos = Plan(pod[p])
      /\ v.multi.kind # "none" => v.multi = pod[p].multi
  BY <1>5 DEF Follows, Looping, Working
<1>7. v.cmd # "ADD"  BY <1>1
<1> HIDE DEF f, name
<1>8. CASE Goto(p, "next", Advance(v, TRUE))
  <2>1. Follows(p, "next", Advance(v, TRUE), pod[p], leases)
    BY <1>2, <1>6, <1>7, AdvanceFollows
  <2> QED  BY <1>1, <1>8, <2>1, QuietFollows
<1>9. CASE f = 0 /\ Goto(p, "next", Advance(v, FALSE))
  <2>1. PlanLease(p, v.infos, v.i) \notin leases
    <3>1. PlanLease(p, v.infos, v.i).file = 0  BY <1>3, <1>4, <1>9 DEF PlanLease
    <3>2. \A o \in leases : o.file \in Files  BY <1>2 DEF TypeOK
    <3>3. 0 \notin Files  BY PodNetworkAssumption
    <3> QED  BY <3>1, <3>2, <3>3
  <2>2. \A k \in DOMAIN v.infos : k <= v.i => k < v.i \/ k = v.i  BY <1>2
  <2>3. v.err = FALSE =>
          \A k \in DOMAIN v.infos : k <= v.i => PlanLease(p, v.infos, k) \notin leases
    BY <1>1, <1>5, <2>1, <2>2 DEF Follows
  <2>4. Follows(p, "next", Advance(v, FALSE), pod[p], leases)
    BY <1>2, <1>6, <1>7, <2>3, AdvanceFollows
  <2> QED  BY <1>1, <1>9, <2>4, QuietFollows
<1>10. CASE f # 0 /\ Goto(p, "plugin", [v EXCEPT !.file = f])
  <2> DEFINE w == [v EXCEPT !.file = f]
  <2>1. /\ w.infos = v.infos /\ w.i = v.i /\ w.cmd = v.cmd /\ w.multi = v.multi
        /\ w.err = v.err /\ w.file = f
    BY <1>2 DEF Invocations
  <2>2. Goto(p, "plugin", w)  BY <1>10
  <2> HIDE DEF w
  <2>3. Follows(p, "plugin", w, pod[p], leases)  BY <1>3, <1>4, <1>5, <2>1, WithinFollows
  <2> QED  BY <1>1, <2>2, <2>3, QuietFollows
<1> QED  BY <1>8, <1>9, <1>10 DEF DelFindConf, f, name

\* PluginDel keeps RInv.
LEMMA PluginDelServed ==
  ASSUME PInv, RInv, NEW p \in Pods, PluginDel(p)
  PROVE  RInv'
<1> DEFINE v == inv[p]
           r == pod[p]
<1>1. pc[p] = "plugin" /\ v.cmd = "DEL" /\ UNCHANGED <<pod, confdir>>  BY DEF PluginDel
<1>2. v \in Invocations /\ v.infos \in Seq(Infos) /\ v.i \in Nat  BY <1>1, Here
<1>3. /\ Lease(p) = PlanLease(p, v.infos, v.i) /\ Lease(p).pod = p
      /\ v.infos = Plan(r) /\ Planned(r)
  BY <1>1, LeasePlanned
<1>4. /\ Follows(p, "plugin", v, r, leases) /\ r \in PodRecords /\ AsPlanned(p, r, leases)
      /\ Served(p, r, "dirty", pc[p], v, leases)
  BY <1>1, HereServed
<1>5. v.cmd # "ADD" /\ (v.multi.kind # "none" => v.multi = r.multi)  BY <1>1, <1>4 DEF Follows
<1>6. CASE Goto(p, "next", Advance(v, TRUE)) /\ UNCHANGED leases
  <2>1. Follows(p, "next", Advance(v, TRUE), r, leases)
    BY <1>2, <1>3, <1>5, AdvanceFollows
  <2> QED  BY <1>1, <1>6, <2>1, QuietFollows
<1>7. CASE Goto(p, "next", Advance(v, FALSE)) /\ leases' = leases \ {Lease(p)}
  <2>1. \A o : o.pod # p => (o \in leases <=> o \in leases')  BY <1>3, <1>7
  <2>2. AsPlanned(p, r, leases')  BY <1>4, <1>7 DEF AsPlanned
  <2>3. \A k \in DOMAIN v.infos : k <= v.i => k < v.i \/ k = v.i  BY <1>2
  <2>4. v.err = FALSE =>
          \A k \in DOMAIN v.infos : k <= v.i => PlanLease(p, v.infos, k) \notin leases'
    BY <1>1, <1>3, <1>4, <1>7, <2>3 DEF Follows
  <2>5. Follows(p, "next", Advance(v, FALSE), r, leases')
    BY <1>2, <1>3, <1>5, <2>4, AdvanceFollows
  <2>6. r.chosen => r.networks = << >>  BY <1>4 DEF Served
  <2>7. pod' = [pod EXCEPT ![p] = r]  BY <1>1 DEF PInv
  <2> QED  BY <1>1, <1>4, <1>7, <2>1, <2>2, <2>5, <2>6, <2>7, GotoServed
<1> QED  BY <1>6, <1>7 DEF PluginDel

-----------------------------------------------------------------------------
\* Nothing is attached at the start.
LEMMA InitRInv == Init => RInv
<1> SUFFICES ASSUME Init, NEW p \in Pods
             PROVE  Served(p, pod[p], sandbox[p], pc[p], inv[p], leases)
  BY DEF Init, RInv
<1>1. pod[p] \in PodValues[p] /\ pod[p] \in PodRecords /\ ~pod[p].chosen
  BY PodNetworkAssumption DEF Init
<1>2. leases = {} /\ sandbox[p] = "clean" /\ pc[p] = "none"  BY DEF Init
<1>3. AsPlanned(p, pod[p], leases) /\ Free(p, leases)  BY <1>2 DEF AsPlanned, Free
<1> QED  BY <1>1, <1>2, <1>3 DEF Served

\* Undisturbed, every step keeps RInv.
LEMMA NextRInv ==
  ASSUME Undisturbed, PInv, RInv, [Next]_vars
  PROVE  RInv'
<1>1. CASE UNCHANGED vars  BY <1>1 DEF RInv, vars
<1>2. CASE Next
  <2>1. PICK p \in Pods : KubeletAdd(p) \/ KubeletDel(p) \/ UserEdit(p) \/ Kill(p) \/ Genie(p)
    BY <1>2 DEF Next
  <2>2. CASE KubeletAdd(p) \/ KubeletDel(p) \/ Kill(p)  BY <2>2, InvocationServed
  <2>3. ~UserEdit(p)
    <3>1. edits \in Nat /\ MaxEdits = 0  BY DEF PInv, TypeOK, Undisturbed
    <3> QED  BY <3>1 DEF UserEdit
  <2>4. CASE Genie(p)
    BY <2>4, GetKubeClientServed, ParsePodAnnotationsForCNIServed,
       ParsePodAnnotationsForNetworksServed, ChooseNetworkServed, PatchChoiceServed,
       ParsePodAnnotationsForMultiIPPrefsServed, NextPluginServed, AddFindConfServed, NoPlacing,
       PluginAddServed, UpdatePodDefinitionServed, DelFindConfServed, PluginDelServed
       DEF Genie
  <2> QED  BY <2>1, <2>2, <2>3, <2>4
<1> QED  BY <1>1, <1>2

\* The invariant of an undisturbed node holds throughout.
THEOREM UndisturbedInvariance ==
  ASSUME Undisturbed
  PROVE  Spec => [](PInv /\ RInv)
<1>1. Init => RInv  BY InitRInv
<1>2. PInv /\ RInv /\ [Next]_vars => RInv'  BY NextRInv
<1> QED  BY <1>1, <1>2, PodInvariance, PTL DEF Spec

\* DeletePodNetwork gives back everything: on a node where nobody interferes a
\* pod that was never set up, or whose last DEL succeeded, holds no address,
\* whatever plugins failed and processes were killed on the way.
THEOREM NothingLeaks ==
  ASSUME Undisturbed
  PROVE  Spec => []NoLeak
<1>1. RInv => NoLeak  BY DEF RInv, Served, Free, NoLeak, Held
<1> QED  BY <1>1, UndisturbedInvariance, PTL

\* UpdatePodDefinition: on such a node a pod that has multi-ip-preferences and is
\* reported as set up finds there every interface that it has an address on.
THEOREM AllRecorded ==
  ASSUME Undisturbed
  PROVE  Spec => []AddressesRecorded
<1>1. RInv => AddressesRecorded
  <2> SUFFICES ASSUME RInv, NEW p \in Pods, sandbox[p] = "running", HasPrefs(p)
               PROVE  {l.ifname : l \in Held(p)} \subseteq pod[p].multi.ips
    BY DEF AddressesRecorded
  <2>1. Served(p, pod[p], "running", pc[p], inv[p], leases)  BY DEF RInv
  <2>2. pod[p].multi.kind = "prefs"  BY DEF HasPrefs
  <2> QED  BY <2>1, <2>2 DEF Served, Held
<1> QED  BY <1>1, UndisturbedInvariance, PTL

\* AddPodNetwork: on such a node a pod reported as set up has an address from
\* every network its annotations ask for, each on its interface, and asks for
\* none that does not exist.
THEOREM AttachedToAllAsked ==
  ASSUME Undisturbed
  PROVE  Spec => []AttachedAsAsked
<1>1. PInv /\ RInv => AttachedAsAsked
  <2> SUFFICES ASSUME PInv, RInv, NEW p \in Pods, sandbox[p] = "running"
               PROVE  /\ ByNetworks(pod[p]) => NetworksReadable(pod[p].networks)
                      /\ Attached(p, Asked(pod[p]))
    BY DEF AttachedAsAsked
  <2> DEFINE r == pod[p]
  <2>1. inv[p].infos = Plan(r) /\ Planned(r) /\ (r.chosen => r.networks = << >>)
    BY DEF RInv, Served
  <2>2. ByNetworks(r) => r.cni = << >> /\ ~Bare(r)  BY <2>1 DEF ByNetworks, Bare
  <2>3. ByNetworks(r) => NetworksReadable(r.networks)  BY <2>1, <2>2 DEF Planned
  <2>4. ~ByNetworks(r) /\ ~Bare(r) => r.cni # << >>  BY <2>1 DEF Planned, ByNetworks
  <2>5. Asked(r) = Plan(r)  BY <2>2, <2>4 DEF Asked, Plan
  <2>6. Complete(p, inv[p].infos, leases)  BY DEF PInv
  <2> QED  BY <2>1, <2>3, <2>5, <2>6, CompleteAttached
<1> QED  BY <1>1, UndisturbedInvariance, PTL

-----------------------------------------------------------------------------
\* No user names one interface for two networks; genie would use it for both.
OncePerPod(ns) ==
  \A j, k \in DOMAIN ns : ns[j].ifname # Blank /\ ns[j].ifname = ns[k].ifname => j = k

NamedOnce == \A p \in Pods : \A r \in PodValues[p] : OncePerPod(r.networks)

\* The numbers given to networks without an interface increase.
LEMMA AutoIncreases ==
  ASSUME NEW ns, NEW j \in Nat, NEW k \in Nat, 1 <= j, j < k, ns[j].ifname = Blank
  PROVE  AutoBefore(ns, j) \in Nat /\ AutoBefore(ns, k) \in Nat
         /\ AutoBefore(ns, j) < AutoBefore(ns, k)
<1> DEFINE A == {i \in 1..(j - 1) : ns[i].ifname = Blank}
           B == {i \in 1..(k - 1) : ns[i].ifname = Blank}
<1>1. AutoBefore(ns, j) = Cardinality(A) /\ AutoBefore(ns, k) = Cardinality(B)
  BY DEF AutoBefore
<1>2. IsFiniteSet(1..(k - 1)) /\ B \subseteq 1..(k - 1)  BY FS_Interval
<1>3. IsFiniteSet(B)  BY <1>2, FS_Subset
<1>4. A \cup {j} \subseteq B /\ j \notin A /\ A \subseteq B  OBVIOUS
<1> HIDE DEF A, B
<1>5. IsFiniteSet(A)  BY <1>3, <1>4, FS_Subset
<1>6. Cardinality(A \cup {j}) = Cardinality(A) + 1  BY <1>4, <1>5, FS_AddElement
<1>7. Cardinality(A \cup {j}) <= Cardinality(B)  BY <1>3, <1>4, FS_Subset
<1>8. Cardinality(A) \in Nat /\ Cardinality(B) \in Nat  BY <1>3, <1>5, FS_CardinalityType
<1> QED  BY <1>1, <1>6, <1>7, <1>8

\* Two plugins of a plan share an interface only if one is named and the other
\* numbered.
Clash(ns, n) ==
  \E j, k \in DOMAIN ns :
    ns[j].ifname = Blank /\ AutoBefore(ns, j) = n /\ ns[k].ifname = n

\* Two plugins of a plan share an interface only where the networks clash.
LEMMA PlanInterfaces ==
  ASSUME NEW r \in PodRecords, Planned(r), OncePerPod(r.networks),
         NEW j \in DOMAIN Plan(r), NEW k \in DOMAIN Plan(r), j # k,
         IfAt(Plan(r), j) = IfAt(Plan(r), k)
  PROVE  Clash(r.networks, IfAt(Plan(r), j))
<1>1. Plan(r) \in Seq(Infos)  BY PlanTypes
<1>2. j \in Nat /\ k \in Nat /\ j >= 1 /\ k >= 1  BY <1>1
<1>3. CASE Bare(r) \/ r.cni # << >>
  <2>1. Plan(r)[j].ifname = Blank /\ Plan(r)[k].ifname = Blank
    <3>1. CASE Bare(r)
      <4>1. Plan(r) = <<Info(DefaultPlugin, Blank)>>  BY <3>1 DEF Plan
      <4> QED  BY <4>1 DEF Info
    <3>2. CASE ~Bare(r)
      <4>1. Plan(r) = [i \in DOMAIN r.cni |-> Info(r.cni[i], Blank)]  BY <1>3, <3>2 DEF Plan
      <4> QED  BY <4>1 DEF Info
    <3> QED  BY <3>1, <3>2
  <2>2. j - 1 = k - 1  BY <2>1 DEF IfAt
  <2> QED  BY <1>2, <2>2
<1>4. CASE ~Bare(r) /\ r.cni = << >>
  <2> DEFINE ns == r.networks
             If(i) == IF ns[i].ifname = Blank THEN AutoBefore(ns, i) ELSE ns[i].ifname
  <2>1. ns \in Seq(NetworkEntries) /\ NetworksReadable(ns)  BY <1>4 DEF PodRecords, Planned
  <2>2. Plan(r) = GetPluginInfoFromNwAnnot(ns, {}) /\ DOMAIN Plan(r) = DOMAIN ns
    BY <1>4, <2>1, NetworkInfos DEF Plan
  <2>3. \A i \in DOMAIN ns : Plan(r)[i].ifname = If(i)
    BY <2>2 DEF GetPluginInfoFromNwAnnot, Info
  <2>4. \A i \in DOMAIN ns : ns[i].ifname = Blank => AutoBefore(ns, i) \in Nat
    <3> SUFFICES ASSUME NEW i \in DOMAIN ns, ns[i].ifname = Blank
                 PROVE  AutoBefore(ns, i) \in Nat
      OBVIOUS
    <3>1. i \in Nat /\ 1 <= i /\ i + 1 \in Nat /\ i < i + 1  BY <2>1
    <3> HIDE DEF ns
    <3> QED  BY <3>1, AutoIncreases
  <2>5. \A i \in DOMAIN ns : If(i) # Blank
    <3>1. Blank \notin Nat  BY PodNetworkAssumption DEF Interfaces
    <3> QED  BY <2>4, <3>1
  <2>6. IfAt(Plan(r), j) = If(j) /\ IfAt(Plan(r), k) = If(k)  BY <2>2, <2>3, <2>5 DEF IfAt
  <2>7. ~(ns[j].ifname = Blank /\ ns[k].ifname = Blank)
    <3> SUFFICES ASSUME ns[j].ifname = Blank, ns[k].ifname = Blank PROVE FALSE  OBVIOUS
    <3>1. AutoBefore(ns, j) = AutoBefore(ns, k)  BY <2>6
    <3>2. j < k \/ k < j  BY <1>2
    <3> HIDE DEF ns
    <3>3. ASSUME j < k PROVE FALSE
      <4>1. AutoBefore(ns, j) \in Nat /\ AutoBefore(ns, j) < AutoBefore(ns, k)
        BY <1>2, <3>3, AutoIncreases
      <4> QED  BY <3>1, <4>1
    <3>4. ASSUME k < j PROVE FALSE
      <4>1. AutoBefore(ns, k) \in Nat /\ AutoBefore(ns, k) < AutoBefore(ns, j)
        BY <1>2, <3>4, AutoIncreases
      <4> QED  BY <3>1, <4>1
    <3> QED  BY <3>2, <3>3, <3>4
  <2>8. ~(ns[j].ifname # Blank /\ ns[k].ifname # Blank)  BY <2>2, <2>6 DEF OncePerPod
  <2> QED  BY <2>2, <2>6, <2>7, <2>8 DEF Clash
<1> QED  BY <1>3, <1>4

\* GetPluginInfoFromNwAnnot: on a node where nobody interferes, and where no user
\* names one interface for two networks, a pod never has two addresses on one
\* interface, except for a network that is numbered as another is named.
THEOREM OneAddressPerInterface ==
  ASSUME Undisturbed, NamedOnce
  PROVE  Spec => []InterfacesDiffer
<1>1. RInv => InterfacesDiffer
  <2> SUFFICES ASSUME RInv, NEW p \in Pods, NEW l \in Held(p), NEW o \in Held(p),
                      l # o, l.ifname = o.ifname
               PROVE  Clash(pod[p].networks, l.ifname)
    BY DEF InterfacesDiffer, Clash
  <2> DEFINE r == pod[p]
  <2>1. /\ r \in PodRecords /\ AsPlanned(p, r, leases)
        /\ \E q \in PodValues[p] : r.networks = q.networks
    BY DEF RInv, Served
  <2>2. OncePerPod(r.networks)  BY <2>1 DEF NamedOnce
  <2>3. l \in leases /\ l.pod = p /\ o \in leases /\ o.pod = p  BY DEF Held
  <2>4. Planned(r)  BY <2>1, <2>3 DEF AsPlanned
  <2>5. PICK j \in DOMAIN Plan(r) : l = PlanLease(p, Plan(r), j)  BY <2>1, <2>3 DEF AsPlanned
  <2>6. PICK k \in DOMAIN Plan(r) : o = PlanLease(p, Plan(r), k)  BY <2>1, <2>3 DEF AsPlanned
  <2>7. l.ifname = IfAt(Plan(r), j) /\ o.ifname = IfAt(Plan(r), k)  BY <2>5, <2>6 DEF PlanLease
  <2>8. j # k  BY <2>5, <2>6
  <2> HIDE DEF r
  <2>9. Clash(r.networks, IfAt(Plan(r), j))
    BY <2>1, <2>2, <2>4, <2>7, <2>8, PlanInterfaces
  <2> QED  BY <2>7, <2>9 DEF r
<1> QED  BY <1>1, UndisturbedInvariance, PTL

-----------------------------------------------------------------------------
(***************************************************************************)
(* The refinement of PodAttachment.                                        *)
(***************************************************************************)
Busy == [p \in Pods |-> IF pc[p] = "none" THEN "no" ELSE inv[p].cmd]
HeldBy == [p \in Pods |-> Held(p)]

\* The process of pod p goes on with its command.
Moves(p) ==
  /\ pc[p] # "none"
  /\ \E to \in Labels \ {"none"} : \E v : Goto(p, to, v) /\ v.cmd = inv[p].cmd

\* Going to another label is a move within the same invocation.
LEMMA MovesOn ==
  ASSUME NEW p, pc[p] # "none", NEW to \in Labels \ {"none"}, NEW v, Goto(p, to, v),
         v.cmd = inv[p].cmd
  PROVE  Moves(p)
BY DEF Moves

\* Nothing but the loop's end and the plugins changes what the kubelet sees.
LEMMA GenieMoves ==
  ASSUME PInv, NEW p \in Pods, Genie(p)
  PROVE  \/ Moves(p) /\ UNCHANGED leases
         \/ pc[p] # "none" /\ Exit(p, "dirty") /\ UNCHANGED leases
         \/ NextPlugin(p) \/ PluginAdd(p) \/ PluginDel(p)
<1>1. pc[p] # "none"
  BY DEF Genie, GetKubeClient, ParsePodAnnotationsForCNI, ParsePodAnnotationsForNetworks,
         ChooseNetwork, PatchChoice, ParsePodAnnotationsForMultiIPPrefs, NextPlugin,
         AddFindConf, PlaceConfFile, WriteConfFile, PluginAdd, UpdatePodDefinition,
         DelFindConf, PluginDel
<1> DEFINE v == inv[p]
<1>2. v \in Invocations  BY <1>1, Here
<1>3. /\ \A infos : [v EXCEPT !.infos = infos].cmd = v.cmd
      /\ \A nets : [v EXCEPT !.nets = nets].cmd = v.cmd
      /\ \A c : [v EXCEPT !.choice = c].cmd = v.cmd
      /\ \A f : [v EXCEPT !.file = f].cmd = v.cmd
      /\ \A m : [v EXCEPT !.multi = m].cmd = v.cmd
      /\ [v EXCEPT !.result = FALSE, !.err = TRUE].cmd = v.cmd
  BY <1>2 DEF Invocations
<1>4. /\ \A failed : Advance(v, failed).cmd = v.cmd
      /\ \A m : \A failed : Advance([v EXCEPT !.multi = m], failed).cmd = v.cmd
  BY <1>2 DEF Advance, Invocations
<1>5. AfterParse(v.cmd) \in Labels \ {"none"}  BY DEF AfterParse, Labels
<1> HIDE DEF v
<1>6. CASE GetKubeClient(p)
  BY <1>1, <1>6, MovesOn DEF GetKubeClient, Labels, v
<1>7. CASE ParsePodAnnotationsForCNI(p)
  <2>1. CASE Exit(p, "dirty") /\ UNCHANGED leases  BY <1>1, <2>1
  <2>2. CASE UNCHANGED leases /\ \E infos : Goto(p, AfterParse(v.cmd), [v EXCEPT !.infos = infos])
    BY <1>1, <1>3, <1>5, <2>2, MovesOn DEF v
  <2>3. CASE UNCHANGED leases /\ \E nets : Goto(p, "networks", [v EXCEPT !.nets = nets])
    BY <1>1, <1>3, <2>3, MovesOn DEF v, Labels
  <2> QED  BY <1>7, <2>1, <2>2, <2>3 DEF ParsePodAnnotationsForCNI, Fail, v
<1>8. CASE ParsePodAnnotationsForNetworks(p)
  <2>1. UNCHANGED leases  BY <1>8 DEF ParsePodAnnotationsForNetworks
  <2>2. CASE Exit(p, "dirty")  BY <1>1, <2>1, <2>2
  <2>3. CASE Goto(p, "smart", v)  BY <1>1, <2>1, <2>3, MovesOn DEF v, Labels
  <2>4. CASE \E infos : Goto(p, AfterParse(v.cmd), [v EXCEPT !.infos = infos])
    BY <1>1, <1>3, <1>5, <2>1, <2>4, MovesOn DEF v
  <2> QED  BY <1>8, <2>2, <2>3, <2>4 DEF ParsePodAnnotationsForNetworks, v
<1>9. CASE ChooseNetwork(p)
  BY <1>1, <1>3, <1>9, MovesOn DEF ChooseNetwork, Labels, v
<1>10. CASE PatchChoice(p)
  BY <1>1, <1>3, <1>5, <1>10, MovesOn DEF PatchChoice, v
<1>11. CASE ParsePodAnnotationsForMultiIPPrefs(p)
  BY <1>1, <1>3, <1>11, MovesOn DEF ParsePodAnnotationsForMultiIPPrefs, Labels, v
<1>12. CASE AddFindConf(p)
  BY <1>1, <1>3, <1>12, MovesOn DEF AddFindConf, Labels, v
<1>13. CASE PlaceConfFile(p)
  BY <1>1, <1>3, <1>13, MovesOn DEF PlaceConfFile, Labels, v
<1>14. CASE WriteConfFile(p)
  BY <1>1, <1>14, MovesOn DEF WriteConfFile, Labels, v
<1>15. CASE UpdatePodDefinition(p)
  <2>1. UNCHANGED leases  BY <1>15 DEF UpdatePodDefinition
  <2>2. CASE Exit(p, "dirty")  BY <1>1, <2>1, <2>2
  <2>3. CASE \E failed \in BOOLEAN : Goto(p, "next", Advance(v, failed))
    BY <1>1, <1>4, <2>1, <2>3, MovesOn DEF v, Labels
  <2>4. CASE \E m : Goto(p, "next", Advance([v EXCEPT !.multi = m], FALSE))
    BY <1>1, <1>4, <2>1, <2>4, MovesOn DEF v, Labels
  <2> QED  BY <1>15, <2>2, <2>3, <2>4 DEF UpdatePodDefinition, v
<1>16. CASE DelFindConf(p)
  BY <1>1, <1>3, <1>4, <1>16, MovesOn DEF DelFindConf, Labels, v
<1> QED  BY <1>6, <1>7, <1>8, <1>9, <1>10, <1>11, <1>12, <1>13, <1>14, <1>15, <1>16 DEF Genie

\* A move within an invocation is not seen by the kubelet.
LEMMA BusyMoves ==
  ASSUME PInv, NEW p \in Pods, Moves(p)
  PROVE  UNCHANGED <<sandbox, Busy>>
<1>1. TypeOK  BY DEF PInv
<1>2. PICK to \in Labels \ {"none"} : \E v : Goto(p, to, v) /\ v.cmd = inv[p].cmd  BY DEF Moves
<1>3. PICK v : Goto(p, to, v) /\ v.cmd = inv[p].cmd  BY <1>2
<1>4. pc' = [pc EXCEPT ![p] = to] /\ inv' = [inv EXCEPT ![p] = v] /\ sandbox' = sandbox
  BY <1>3 DEF Goto
<1>5. \A q \in Pods : (IF pc'[q] = "none" THEN "no" ELSE inv'[q].cmd)
                        = (IF pc[q] = "none" THEN "no" ELSE inv[q].cmd)
  <2>1. pc[p] # "none" /\ pc'[p] = to /\ inv'[p] = v  BY <1>1, <1>4 DEF Moves, TypeOK
  <2>2. \A q \in Pods : q # p => pc'[q] = pc[q] /\ inv'[q] = inv[q]  BY <1>1, <1>4 DEF TypeOK
  <2> QED  BY <1>3, <2>1, <2>2
<1> QED  BY <1>4, <1>5 DEF Busy

\* The process of pod p ends.
LEMMA BusyExits ==
  ASSUME PInv, NEW p \in Pods, pc[p] # "none", pc' = [pc EXCEPT ![p] = "none"], inv' = inv
  PROVE  Busy' = [Busy EXCEPT ![p] = "no"] /\ Busy[p] = inv[p].cmd /\ Busy[p] # "no"
<1>1. TypeOK /\ inv[p].cmd \in {"ADD", "DEL"}  BY Here
<1>2. \A q \in Pods : q # p => pc'[q] = pc[q]  BY <1>1 DEF TypeOK
<1>3. pc'[p] = "none"  BY <1>1 DEF TypeOK
<1>4. Busy' = [Busy EXCEPT ![p] = "no"]  BY <1>2, <1>3 DEF Busy
<1> QED  BY <1>1, <1>4 DEF Busy

\* While the leases stay, so do the addresses of the pods.
LEMMA HeldKept ==
  ASSUME UNCHANGED leases
  PROVE  UNCHANGED HeldBy
BY DEF HeldBy, Held

\* The actions of PodAttachment, in terms of what they are mapped to.
LEMMA Attaching ==
  ASSUME NEW p \in Pods
  PROVE  /\ \A cmd : /\ Busy[p] = "no" /\ (cmd = "ADD" => sandbox[p] = "clean")
                     /\ Busy' = [Busy EXCEPT ![p] = cmd]
                     /\ sandbox' = [sandbox EXCEPT ![p] = "dirty"] /\ UNCHANGED HeldBy
                     => Attachment!Begin(p, cmd)
         /\ /\ Busy[p] = "ADD" /\ UNCHANGED <<sandbox, Busy>>
            /\ \E a \in HeldBy'[p] : HeldBy' = [HeldBy EXCEPT ![p] = HeldBy[p] \cup {a}]
            => Attachment!Take(p)
         /\ /\ Busy[p] = "DEL" /\ UNCHANGED <<sandbox, Busy>>
            /\ \E a \in HeldBy[p] : HeldBy' = [HeldBy EXCEPT ![p] = HeldBy[p] \ {a}]
            => Attachment!GiveBack(p)
         /\ /\ \/ Busy[p] = "ADD" /\ HeldBy[p] # {} /\ sandbox' = [sandbox EXCEPT ![p] = "running"]
               \/ Busy[p] = "DEL" /\ HeldBy[p] = {} /\ sandbox' = [sandbox EXCEPT ![p] = "clean"]
            /\ Busy' = [Busy EXCEPT ![p] = "no"] /\ UNCHANGED HeldBy
            => Attachment!Succeed(p)
         /\ /\ Busy[p] # "no" /\ Busy' = [Busy EXCEPT ![p] = "no"]
            /\ UNCHANGED <<sandbox, HeldBy>>
            => Attachment!GiveUp(p)
BY DEF Busy, HeldBy, Attachment!Begin, Attachment!Take, Attachment!GiveBack,
       Attachment!Succeed, Attachment!GiveUp

\* A step of pod p is one of PodAttachment, or changes nothing that it speaks of.
Attaches(p) ==
  \/ UNCHANGED <<sandbox, Busy, HeldBy>>
  \/ Attachment!Begin(p, "ADD") \/ Attachment!Begin(p, "DEL") \/ Attachment!Take(p)
  \/ Attachment!GiveBack(p) \/ Attachment!Succeed(p) \/ Attachment!GiveUp(p)

\* The kubelet's calls, and the end of a process, as steps of PodAttachment.
LEMMA InvocationAttaches ==
  ASSUME PInv, NEW p \in Pods, KubeletAdd(p) \/ KubeletDel(p) \/ Kill(p)
  PROVE  Attaches(p)
<1>1. TypeOK  BY DEF PInv
<1>2. UNCHANGED HeldBy  BY HeldKept DEF KubeletAdd, KubeletDel, Kill, Invoke
<1>3. ASSUME NEW cmd \in {"ADD", "DEL"}, Invoke(p, cmd), cmd = "ADD" => sandbox[p] = "clean"
      PROVE  Attaches(p)
  <2>1. /\ pc[p] = "none" /\ pc' = [pc EXCEPT ![p] = "start"]
        /\ inv' = [inv EXCEPT ![p] = Invocation(cmd)]
        /\ sandbox' = [sandbox EXCEPT ![p] = "dirty"]
    BY <1>3 DEF Invoke
  <2>2. /\ pc'[p] = "start" /\ inv'[p].cmd = cmd
        /\ \A q \in Pods : q # p => pc'[q] = pc[q] /\ inv'[q] = inv[q]
    BY <1>1, <2>1 DEF TypeOK, Invocation
  <2>3. Busy' = [Busy EXCEPT ![p] = cmd] /\ Busy[p] = "no"
    <3>1. Busy[p] = "no"  BY <2>1 DEF Busy
    <3>2. Busy'[p] = cmd /\ \A q \in Pods : q # p => Busy'[q] = Busy[q]  BY <2>2 DEF Busy
    <3>3. Busy' = [q \in Pods |-> Busy'[q]] /\ Busy = [q \in Pods |-> Busy[q]]  BY DEF Busy
    <3> QED  BY <3>1, <3>2, <3>3
  <2>4. Attachment!Begin(p, cmd)  BY <1>2, <1>3, <2>1, <2>3, Attaching
  <2> QED  BY <1>3, <2>4 DEF Attaches
<1>4. CASE Kill(p)
  <2>1. /\ pc[p] # "none" /\ pc' = [pc EXCEPT ![p] = "none"] /\ inv' = inv
        /\ sandbox' = sandbox
    BY <1>4 DEF Kill
  <2>2. Busy' = [Busy EXCEPT ![p] = "no"] /\ Busy[p] # "no"  BY <2>1, BusyExits
  <2> QED  BY <1>2, <2>1, <2>2, Attaching DEF Attaches
<1> QED  BY <1>3, <1>4 DEF KubeletAdd, KubeletDel

\* An end with an error as a step of PodAttachment.
LEMMA ExitAttaches ==
  ASSUME PInv, NEW p \in Pods, pc[p] # "none", Exit(p, "dirty"), UNCHANGED leases
  PROVE  Attaches(p)
<1>1. sandbox[p] = "dirty" /\ TypeOK  BY Here
<1>2. /\ pc' = [pc EXCEPT ![p] = "none"] /\ inv' = inv
      /\ sandbox' = [sandbox EXCEPT ![p] = "dirty"]
  BY DEF Exit
<1>3. sandbox' = sandbox  BY <1>1, <1>2 DEF TypeOK
<1>4. Busy' = [Busy EXCEPT ![p] = "no"] /\ Busy[p] # "no"  BY <1>2, BusyExits
<1> QED  BY <1>3, <1>4, HeldKept, Attaching DEF Attaches

\* ADD succeeds with an address, since a plan is never empty; DEL with none.
LEMMA NextPluginAttaches ==
  ASSUME PInv, RInv, NEW p \in Pods, NextPlugin(p), RInv', PInv'
  PROVE  Attaches(p)
<1> DEFINE v == inv[p]
<1>1. pc[p] = "next" /\ UNCHANGED leases  BY DEF NextPlugin
<1>2. /\ v \in Invocations /\ v.infos \in Seq(Infos) /\ v.err \in BOOLEAN
      /\ v.cmd \in {"ADD", "DEL"} /\ TypeOK
  BY <1>1, Here
<1>3. CASE Goto(p, "conf", v)
  <2>1. Moves(p)  BY <1>1, <1>3, MovesOn DEF Labels
  <2> QED  BY <1>1, <2>1, BusyMoves, HeldKept DEF Attaches
<1>4. CASE Exit(p, "dirty")  BY <1>1, <1>4, ExitAttaches
<1>5. CASE v.cmd = "ADD" /\ Exit(p, "running")
  <2>1. /\ pc' = [pc EXCEPT ![p] = "none"] /\ inv' = inv
        /\ sandbox' = [sandbox EXCEPT ![p] = "running"]
    BY <1>5 DEF Exit
  <2>2. Busy' = [Busy EXCEPT ![p] = "no"] /\ Busy[p] = "ADD"  BY <1>1, <1>5, <2>1, BusyExits
  <2>3. sandbox'[p] = "running"  BY <1>2, <2>1 DEF TypeOK
  <2>4. Complete(p, v.infos, leases)  BY <1>1, <2>1, <2>3 DEF PInv
  <2>5. DOMAIN v.infos # {}
    <3>1. Follows(p, "next", v, pod[p], leases) /\ pod[p] \in PodRecords  BY <1>1, HereServed
    <3>2. Planned(pod[p]) /\ v.infos = Plan(pod[p])  BY <3>1 DEF Follows, Looping
    <3> QED  BY <1>2, <3>1, <3>2, PlanTypes, NonEmpty
  <2>6. HeldBy[p] # {}  BY <2>4, <2>5 DEF Complete, Given, HeldBy, Held
  <2> QED  BY <1>1, <2>1, <2>2, <2>6, HeldKept, Attaching DEF Attaches
<1>6. CASE v.cmd = "DEL" /\ Exit(p, "clean")
  <2>1. /\ pc' = [pc EXCEPT ![p] = "none"] /\ inv' = inv
        /\ sandbox' = [sandbox EXCEPT ![p] = "clean"]
    BY <1>6 DEF Exit
  <2>2. Busy' = [Busy EXCEPT ![p] = "no"] /\ Busy[p] = "DEL"  BY <1>1, <1>6, <2>1, BusyExits
  <2>3. sandbox'[p] = "clean"  BY <1>2, <2>1 DEF TypeOK
  <2>4. Free(p, leases)  BY <1>1, <2>3 DEF RInv, Served
  <2>5. HeldBy[p] = {}  BY <2>4 DEF Free, HeldBy, Held
  <2> QED  BY <1>1, <2>1, <2>2, <2>5, HeldKept, Attaching DEF Attaches
<1> QED  BY <1>2, <1>3, <1>4, <1>5, <1>6 DEF NextPlugin

\* A plugin's call as a step of PodAttachment.
LEMMA PluginAttaches ==
  ASSUME PInv, NEW p \in Pods, PluginAdd(p) \/ PluginDel(p)
  PROVE  Attaches(p)
<1> DEFINE v == inv[p]
<1>1. pc[p] = "plugin"  BY DEF PluginAdd, PluginDel
<1>2. v \in Invocations  BY <1>1, Here
<1>3. Lease(p).pod = p  BY <1>1, LeaseTypes
<1>4. Moves(p)
  <2>1. /\ [v EXCEPT !.result = TRUE].cmd = v.cmd
        /\ [v EXCEPT !.result = FALSE, !.err = TRUE].cmd = v.cmd
        /\ \A failed : Advance(v, failed).cmd = v.cmd
    BY <1>2 DEF Invocations, Advance
  <2> QED  BY <1>1, <2>1, MovesOn DEF PluginAdd, PluginDel, Labels
<1>5. UNCHANGED <<sandbox, Busy>>  BY <1>4, BusyMoves
<1>6. Busy[p] = v.cmd  BY <1>1 DEF Busy
<1>7. CASE leases' = leases  BY <1>5, <1>7, HeldKept DEF Attaches
<1>8. CASE v.cmd = "ADD" /\ leases' = leases \cup {Lease(p)}
  <2>1. HeldBy' = [HeldBy EXCEPT ![p] = HeldBy[p] \cup {Lease(p)}]
    BY <1>3, <1>8 DEF HeldBy, Held
  <2>2. Lease(p) \in HeldBy'[p]  BY <2>1 DEF HeldBy
  <2> QED  BY <1>5, <1>6, <1>8, <2>1, <2>2, Attaching DEF Attaches
<1>9. CASE v.cmd = "DEL" /\ leases' = leases \ {Lease(p)} /\ Lease(p) \in leases
  <2>1. HeldBy' = [HeldBy EXCEPT ![p] = HeldBy[p] \ {Lease(p)}]
    BY <1>3, <1>9 DEF HeldBy, Held
  <2>2. Lease(p) \in HeldBy[p]  BY <1>3, <1>9 DEF HeldBy, Held
  <2> QED  BY <1>5, <1>6, <1>9, <2>1, <2>2, Attaching DEF Attaches
<1>10. v.cmd = "DEL" /\ leases' = leases \ {Lease(p)} /\ Lease(p) \notin leases
         => leases' = leases
  OBVIOUS
<1> QED  BY <1>7, <1>8, <1>9, <1>10 DEF PluginAdd, PluginDel

\* Every step is one of PodAttachment or leaves its state alone.
LEMMA StepAttached ==
  ASSUME Undisturbed, PInv, RInv, PInv', RInv', [Next]_vars
  PROVE  [Attachment!Next]_(Attachment!vars)
<1>1. ASSUME UNCHANGED <<sandbox, Busy, HeldBy>> PROVE UNCHANGED Attachment!vars
  BY <1>1 DEF Attachment!vars, Busy, HeldBy
<1>2. CASE UNCHANGED vars
  <2>1. UNCHANGED <<sandbox, Busy, HeldBy>>  BY <1>2 DEF vars, Busy, HeldBy, Held
  <2> QED  BY <1>1, <2>1
<1>3. CASE Next
  <2>1. PICK p \in Pods : KubeletAdd(p) \/ KubeletDel(p) \/ UserEdit(p) \/ Kill(p) \/ Genie(p)
    BY <1>3 DEF Next
  <2>2. CASE KubeletAdd(p) \/ KubeletDel(p) \/ Kill(p)
    <3>1. Attaches(p)  BY <2>2, InvocationAttaches
    <3> QED  BY <1>1, <3>1 DEF Attaches, Attachment!Next
  <2>3. CASE UserEdit(p)
    <3>1. UNCHANGED <<sandbox, Busy, HeldBy>>  BY <2>3 DEF UserEdit, Busy, HeldBy, Held
    <3> QED  BY <1>1, <3>1
  <2>4. CASE Genie(p)
    <3>1. Attaches(p)
      <4>1. CASE Moves(p) /\ UNCHANGED leases  BY <4>1, BusyMoves, HeldKept DEF Attaches
      <4> QED  BY <2>4, <4>1, GenieMoves, ExitAttaches, NextPluginAttaches, PluginAttaches
    <3> QED  BY <1>1, <3>1 DEF Attaches, Attachment!Next
  <2> QED  BY <2>1, <2>2, <2>3, <2>4
<1> QED  BY <1>2, <1>3

\* Refinement.  On a node where nobody interferes cmdAdd and cmdDel implement
\* PodAttachment: addresses are taken by ADD and given back by DEL alone, one by
\* one, and what is reported to the kubelet is true of them.
THEOREM PodsImplementAttachment ==
  ASSUME Undisturbed
  PROVE  Spec => PodsAreAttached
<1>1. Init => Attachment!Init
  BY DEF Init, Attachment!Init, Held
<1>2. PInv /\ RInv /\ PInv' /\ RInv' /\ [Next]_vars => [Attachment!Next]_(Attachment!vars)
  BY StepAttached
<1> QED  BY <1>1, <1>2, UndisturbedInvariance, PTL DEF Spec, PodsAreAttached, Attachment!Spec
=============================================================================
