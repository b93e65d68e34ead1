----------------------- MODULE NetworkPolicyController -----------------------
(***************************************************************************)
(* The network policy controller of one node.  It watches NetworkPolicy    *)
(* and LogicalNetwork objects through informers, turns every change into a *)
(* key on a work queue, and a few workers drain the queue, one handler at  *)
(* a time behind a mutex, editing the node's iptables.                     *)
(*                                                                         *)
(* A handler is taken in steps: one lister read, one iptables helper or    *)
(* one loop iteration each, so that changes of the cluster and a stop of   *)
(* the controller can fall in between.                                     *)
(***************************************************************************)
EXTENDS Iptables, WorkQueue

CONSTANTS
  Annotations,    \* values of the genieNetworkPolicy annotation that parse
  Workers,        \* goroutines draining the queue (main starts two)
  PolicyValues,   \* PolicyValues[p]: annotations policy p may be given
  NetworkValues,  \* NetworkValues[n]: subnets network n may be given
  PolicyVerbs,    \* which of "ADD", "UPDATE", "DELETE" happen to policies
  NetworkVerbs,   \* ... and to networks
  MaxEvents,      \* bound on the changes made in the cluster
  MaxStops,       \* bound on the times the controller stops or crashes
  Absent,         \* the object does not exist
  NoWorker        \* the mutex is free

(***************************************************************************)
(* The genieNetworkPolicy annotation is a list of entries; the order plays *)
(* no role.  Blank stands for a missing, empty or unparsable annotation.   *)
(***************************************************************************)
Entries == [NetworkSelector : Networks \cup {Blank}, PeerNetworks : SUBSET Networks]

Verbs == {"ADD", "UPDATE", "DELETE"}

ASSUME ConstantsAssumption ==
  /\ IsFiniteSet(Policies) /\ IsFiniteSet(Networks)
  /\ Annotations \subseteq SUBSET Entries
  /\ PolicyValues \in [Policies -> SUBSET (Annotations \cup {Blank})]
  /\ NetworkValues \in [Networks -> SUBSET (Subnets \cup {Blank})]
  /\ PolicyVerbs \subseteq Verbs /\ NetworkVerbs \subseteq Verbs
  /\ MaxEvents \in Nat /\ MaxStops \in Nat
  /\ NoWorker \notin Workers
  /\ Absent \notin Annotations \cup Subnets \cup {Blank}

\* getLogicalNetworksFromAnnotation: the keys of the map and their peers
Selectors(a) == {e.NetworkSelector : e \in a} \ {Blank}
PeersOf(a, n) == UNION {e.PeerNetworks : e \in {x \in a : x.NetworkSelector = n}}

\* A key of the work queue: the JSON object {kind, name, action, args}.
PolicyItems  == [kind : {"networkpolicy"}, name : Policies, action : Verbs,
                 args : Annotations \cup {Blank}]
NetworkItems == [kind : {"logicalnetwork"}, name : Networks, action : Verbs,
                 args : Subnets \cup {Blank}]
Items == PolicyItems \cup NetworkItems

PolicyItem(p, action, args) ==
  [kind |-> "networkpolicy", name |-> p, action |-> action, args |-> args]
NetworkItem(n, action, args) ==
  [kind |-> "logicalnetwork", name |-> n, action |-> action, args |-> args]

\* One NetworkPolicyInfo; via = n when the policy selects n itself, else the
\* selector among whose peers n was found (Networks is nil in the code).
Infos == [policy : Policies, via : Networks, peers : SUBSET Networks]

\* The local variables of a handler, and the neutral values they start from.
Frames ==
  [item   : Items \cup {Blank},           \* the key being handled
   ann    : Annotations \cup {{}},        \* networks of populatePolicyChain
   nets   : SUBSET Networks,              \* selectors not handled yet
   cur    : Networks \cup {Blank},        \* network being handled
   peers  : SUBSET Networks,              \* its peers not handled yet
   subnet : Subnets \cup {Blank},         \* SubSubnet of the network read
   infos  : SUBSET Infos,                 \* policyInfo not handled yet
   policy : Policies \cup {Blank},        \* policy of the current info
   lpeers : SUBSET Networks,              \* its peers not handled yet
   lnChain : NetworkChains \cup {NoChain}, \* what AddNetworkChain returned
   snap   : Seq(Rules),                   \* rules as listed
   i      : Nat, pos : Nat, cnt : Nat]    \* the scan's counters

EmptyFrame ==
  [item |-> Blank, ann |-> {}, nets |-> {}, cur |-> Blank, peers |-> {},
   subnet |-> Blank, infos |-> {}, policy |-> Blank, lpeers |-> {},
   lnChain |-> NoChain, snap |-> << >>, i |-> 0, pos |-> 0, cnt |-> 0]

Handlers == {"policyAdd", "policyUpdate", "policyDelete",
             "networkAdd", "networkUpdate", "networkDelete"}
Labels == {"idle", "got", "returned", "unlocked"} \cup Handlers \cup
          {"populate", "peers", "networkList", "networkPolicies", "close", "linkTo",
           "linkFrom", "impose", "networkPeers", "unlink", "scanNetwork", "scanBase",
           "networkDrop", "scanPolicy"}

VARIABLES
  np,       \* np[p]: annotation of policy p in the cluster and the cache
  ln,       \* ln[n]: subnet of logical network n
  notes,    \* notes[kind]: notifications an informer has yet to deliver
  up,       \* the controller is running with synchronised caches
  q,        \* npcWorkqueue
  pc,       \* pc[w]: where worker w is
  frame,    \* frame[w]: its local variables
  mutex,    \* the worker inside syncHandler
  iptable,  \* the node's filter table
  events,   \* changes made so far
  stops     \* stops so far

vars == <<np, ln, notes, up, q, pc, frame, mutex, iptable, events, stops>>
clusterVars == <<np, ln, events, stops>>

Kinds == {"networkpolicy", "logicalnetwork"}

TypeOK ==
  /\ np \in [Policies -> Annotations \cup {Blank, Absent}]
  /\ ln \in [Networks -> Subnets \cup {Blank, Absent}]
  /\ notes \in [Kinds -> Seq(Items)]
  /\ up \in BOOLEAN
  /\ q \in Queues(Items)
  /\ pc \in [Workers -> Labels]
  /\ frame \in [Workers -> Frames]
  /\ mutex \in Workers \cup {NoWorker}
  /\ iptable \in Tables
  /\ events \in Nat /\ stops \in Nat

Init ==
  /\ np = [p \in Policies |-> Absent]
  /\ ln = [n \in Networks |-> Absent]
  /\ notes = [k \in Kinds |-> << >>]
  /\ up = FALSE
  /\ q = EmptyQueue
  /\ pc = [w \in Workers |-> "idle"]
  /\ frame = [w \in Workers |-> EmptyFrame]
  /\ mutex = NoWorker
  /\ iptable = FreshTable
  /\ events = 0 /\ stops = 0
-----------------------------------------------------------------------------
(***************************************************************************)
(* The cluster.  A change reaches the informer's cache at once and is      *)
(* queued for the event handler; with the controller down nobody is told.  *)
(***************************************************************************)
Change(item) ==
  /\ events < MaxEvents
  /\ events' = events + 1
  /\ notes' = IF up THEN [notes EXCEPT ![item.kind] = Append(notes[item.kind], item)]
              ELSE notes
  /\ UNCHANGED <<up, q, pc, frame, mutex, iptable, stops>>

CreatePolicy(p) ==
  /\ "ADD" \in PolicyVerbs /\ np[p] = Absent
  /\ \E a \in PolicyValues[p] : np' = [np EXCEPT ![p] = a]
  /\ Change(PolicyItem(p, "ADD", Blank))
  /\ UNCHANGED ln

\* updatePolicy ignores an update that keeps the annotation, unless there is none.
UpdatePolicy(p) ==
  /\ "UPDATE" \in PolicyVerbs /\ np[p] # Absent
  /\ \E a \in PolicyValues[p] :
       /\ a # np[p] \/ a = Blank
       /\ np' = [np EXCEPT ![p] = a]
  /\ Change(PolicyItem(p, "UPDATE", np[p]))
  /\ UNCHANGED ln

DeletePolicy(p) ==
  /\ "DELETE" \in PolicyVerbs /\ np[p] # Absent
  /\ np' = [np EXCEPT ![p] = Absent]
  /\ Change(PolicyItem(p, "DELETE", np[p]))
  /\ UNCHANGED ln

CreateNetwork(n) ==
  /\ "ADD" \in NetworkVerbs /\ ln[n] = Absent
  /\ \E s \in NetworkValues[n] : ln' = [ln EXCEPT ![n] = s]
  /\ Change(NetworkItem(n, "ADD", Blank))
  /\ UNCHANGED np

UpdateNetwork(n) ==
  /\ "UPDATE" \in NetworkVerbs /\ ln[n] # Absent
  /\ \E s \in NetworkValues[n] \ {ln[n]} : ln' = [ln EXCEPT ![n] = s]
  /\ Change(NetworkItem(n, "UPDATE", Blank))
  /\ UNCHANGED np

DeleteNetwork(n) ==
  /\ "DELETE" \in NetworkVerbs /\ ln[n] # Absent
  /\ ln' = [ln EXCEPT ![n] = Absent]
  /\ Change(NetworkItem(n, "DELETE", ln[n]))
  /\ UNCHANGED np
-----------------------------------------------------------------------------
(***************************************************************************)
(* The process: Run, the end of the process at any moment, the informers'  *)
(* event handlers, and the worker loop around syncHandler.                 *)
(***************************************************************************)
\* The ADD notifications of the initial list come in any order.
Existing(kind) ==
  IF kind = "networkpolicy"
  THEN {PolicyItem(p, "ADD", Blank) : p \in {x \in Policies : np[x] # Absent}}
  ELSE {NetworkItem(n, "ADD", Blank) : n \in {x \in Networks : ln[x] # Absent}}

Orders(S) ==
  {s \in [1..Cardinality(S) -> S] : \A j, k \in DOMAIN s : j # k => s[j] # s[k]}

Run ==
  /\ ~up
  /\ up' = TRUE
  /\ iptable' = CreateBaseChain(iptable)
  /\ \E ps \in Orders(Existing("networkpolicy")), ns \in Orders(Existing("logicalnetwork")) :
       notes' = [k \in Kinds |-> IF k = "networkpolicy" THEN ps ELSE ns]
  /\ UNCHANGED <<q, pc, frame, mutex, clusterVars>>

Stop ==
  /\ up /\ stops < MaxStops
  /\ stops' = stops + 1
  /\ up' = FALSE
  /\ notes' = [k \in Kinds |-> << >>]
  /\ q' = EmptyQueue
  /\ pc' = [w \in Workers |-> "idle"]
  /\ frame' = [w \in Workers |-> EmptyFrame]
  /\ mutex' = NoWorker
  /\ UNCHANGED <<np, ln, iptable, events>>

Notify(kind) ==
  /\ up /\ notes[kind] # << >>
  /\ notes' = [notes EXCEPT ![kind] = Tail(notes[kind])]
  /\ q' = QueueAdd(q, Head(notes[kind]))
  /\ UNCHANGED <<up, pc, frame, mutex, iptable, clusterVars>>

Get(w) ==
  /\ up /\ pc[w] = "idle" /\ q.queue # << >>
  /\ LET item == Head(q.queue) IN
       frame' = [frame EXCEPT ![w] =
         [EmptyFrame EXCEPT !.item = item,
                            !.cur = IF item.kind = "logicalnetwork" THEN item.name ELSE Blank]]
  /\ q' = QueueGet(q)
  /\ pc' = [pc EXCEPT ![w] = "got"]
  /\ UNCHANGED <<notes, up, mutex, iptable, clusterVars>>

HandlerOf(item) ==
  CASE item.kind = "networkpolicy"  /\ item.action = "ADD"    -> "policyAdd"
    [] item.kind = "networkpolicy"  /\ item.action = "UPDATE" -> "policyUpdate"
    [] item.kind = "networkpolicy"  /\ item.action = "DELETE" -> "policyDelete"
    [] item.kind = "logicalnetwork" /\ item.action = "ADD"    -> "networkAdd"
    [] item.kind = "logicalnetwork" /\ item.action = "UPDATE" -> "networkUpdate"
    [] item.kind = "logicalnetwork" /\ item.action = "DELETE" -> "networkDelete"

\* Variation: syncHandler without its mutex.
LockUnguarded(w) ==
  /\ pc[w] = "got"
  /\ mutex' = w
  /\ pc' = [pc EXCEPT ![w] = HandlerOf(frame[w].item)]
  /\ UNCHANGED <<notes, up, q, frame, iptable, clusterVars>>

Lock(w) ==
  /\ pc[w] = "got" /\ mutex = NoWorker
  /\ mutex' = w
  /\ pc' = [pc EXCEPT ![w] = HandlerOf(frame[w].item)]
  /\ UNCHANGED <<notes, up, q, frame, iptable, clusterVars>>

Unlock(w) ==
  /\ pc[w] = "returned"
  /\ mutex' = NoWorker
  /\ pc' = [pc EXCEPT ![w] = "unlocked"]
  /\ UNCHANGED <<notes, up, q, frame, iptable, clusterVars>>

Done(w) ==
  /\ pc[w] = "unlocked"
  /\ q' = QueueDone(q, frame[w].item)
  /\ pc' = [pc EXCEPT ![w] = "idle"]
  /\ frame' = [frame EXCEPT ![w] = EmptyFrame]
  /\ UNCHANGED <<notes, up, mutex, iptable, clusterVars>>
-----------------------------------------------------------------------------
(***************************************************************************)
(* The handlers.  Step(w, to, f, t) takes worker w to a label with local    *)
(* variables f and filter table t.                                         *)
(***************************************************************************)
Step(w, to, f, t) ==
  /\ pc' = [pc EXCEPT ![w] = to]
  /\ frame' = [frame EXCEPT ![w] = f]
  /\ iptable' = t
  /\ UNCHANGED <<notes, up, q, mutex, clusterVars>>

Parsable(a) == a \notin {Absent, Blank}

handleNetworkPolicyAdd(w) ==
  /\ pc[w] = "policyAdd"
  /\ LET f == frame[w]
         a == np[f.item.name]
     IN  IF Parsable(a)
         THEN Step(w, IF Selectors(a) = {} THEN "returned" ELSE "populate",
                   [f EXCEPT !.ann = a, !.nets = Selectors(a)],
                   AddPolicyChain(iptable, f.item.name))
         ELSE Step(w, "returned", f, iptable)

\* Without selectors the policy is removed from every chain the base refers to.
LinkedNetworks(t) ==
  {n \in Networks : \E r \in RuleSet(t, BaseChain) : r.target = NetworkChain(n)}

handleNetworkPolicyUpdate(w) ==
  /\ pc[w] = "policyUpdate"
  /\ LET f == frame[w]
         a == np[f.item.name]
         t == AddPolicyChain(iptable, f.item.name)
     IN  IF Parsable(a)
         THEN IF Selectors(a) # {}
              THEN Step(w, "populate",
                        [f EXCEPT !.ann = a, !.nets = Selectors(a)], t)
              ELSE Step(w, "unlink", [f EXCEPT !.nets = LinkedNetworks(t)], t)
         ELSE Step(w, "returned", f, iptable)

\* Variation: the annotation is looked up when the policy is already gone.
handleNetworkPolicyDeleteLookup(w) ==
  /\ pc[w] = "policyDelete"
  /\ LET f == frame[w]
         a == np[f.item.name]
     IN  IF Parsable(a)
         THEN Step(w, "unlink", [f EXCEPT !.nets = Selectors(a)], iptable)
         ELSE Step(w, "returned", f, iptable)

\* The annotation is the one the deleted object had, carried in the key.
handleNetworkPolicyDelete(w) ==
  /\ pc[w] = "policyDelete"
  /\ LET f == frame[w]
         a == f.item.args
     IN  IF Parsable(a)
         THEN Step(w, "unlink", [f EXCEPT !.nets = Selectors(a)], iptable)
         ELSE Step(w, "returned", f, iptable)

\* The outer loop of populatePolicyChain: one network selector.
populatePolicyChain(w) ==
  /\ pc[w] = "populate"
  /\ LET f == frame[w] IN
     \/ /\ f.nets = {}
        /\ Step(w, "returned", f, iptable)
     \/ \E n \in f.nets :
          LET g == [f EXCEPT !.nets = f.nets \ {n}, !.cur = n, !.peers = PeersOf(f.ann, n)]
              r == InsertRule(iptable, NetworkChain(n), Jump(PolicyChain(f.item.name)))
          IN  IF NetworkChain(n) \notin iptable.chains
              THEN Step(w, "networkAdd", g, iptable)
              ELSE Step(w, IF r.exit = 0 THEN "peers" ELSE "populate", g, r.tbl)

\* insertPeerRule for peer m as the lister knows it now
AcceptPeer(p, m) ==
  IF ln[m] = Absent THEN iptable ELSE insertPeerRule(iptable, p, ln[m])

\* Its inner loop: one peer of that selector.
populatePeers(w) ==
  /\ pc[w] = "peers"
  /\ LET f == frame[w] IN
     \/ /\ f.peers = {}
        /\ Step(w, "populate", f, iptable)
     \/ \E m \in f.peers :
          Step(w, "peers", [f EXCEPT !.peers = f.peers \ {m}],
               AcceptPeer(f.item.name, m))

\* handleLogicalNetworkAdd is also called by populatePolicyChain.
Nested(w) == frame[w].item.kind = "networkpolicy"

\* Variation: an error return that skips the unlock.
FailedLocked(w) == IF Nested(w) THEN "populate" ELSE "unlocked"

Failed(w) == IF Nested(w) THEN "populate" ELSE "returned"
Succeeded(w) == IF Nested(w) THEN "peers" ELSE "returned"

\* Variation: a network that is not found is used all the same.
handleLogicalNetworkAddUnchecked(w) ==
  /\ pc[w] = "networkAdd"
  /\ LET f == frame[w] IN
     Step(w, "networkList", [f EXCEPT !.subnet = ln[f.cur]], iptable)

handleLogicalNetworkAdd(w) ==
  /\ pc[w] = "networkAdd"
  /\ LET f == frame[w] IN
     IF ln[f.cur] = Absent
     THEN Step(w, Failed(w), f, iptable)
     ELSE Step(w, "networkList", [f EXCEPT !.subnet = ln[f.cur]], iptable)

\* Variation: policies that have n as a peer only are not listed.
ListSelectingPolicies(n) ==
  {[policy |-> p, via |-> n, peers |-> PeersOf(np[p], n)] :
     p \in {x \in Policies : Parsable(np[x]) /\ n \in Selectors(np[x])}}

\* Policies selecting n, and the occurrences of n as a peer in the others.
ListNetworkPolicies(n) ==
  UNION {LET a == np[p] IN
         IF n \in Selectors(a)
         THEN {[policy |-> p, via |-> n, peers |-> PeersOf(a, n)]}
         ELSE {[policy |-> p, via |-> s, peers |-> {}] :
                 s \in {x \in Selectors(a) : n \in PeersOf(a, x)}}
         : p \in {x \in Policies : Parsable(np[x])}}

listPoliciesForAdd(w) ==
  /\ pc[w] = "networkList"
  /\ LET f == frame[w] IN
     Step(w, "networkPolicies",
          [f EXCEPT !.infos = ListNetworkPolicies(f.cur)], iptable)

(***************************************************************************)
(* The loop over the policies listed.  For one that selects the network    *)
(* the chain is made anew, one command at a time: AddNetworkChain flushes   *)
(* it, ...                                                                 *)
(***************************************************************************)
handleLogicalNetworkAddPolicies(w) ==
  /\ pc[w] = "networkPolicies"
  /\ LET f == frame[w] IN
     \/ /\ f.infos = {}
        /\ Step(w, Succeeded(w), f, iptable)
     \/ \E info \in f.infos :
          IF info.via = f.cur
          THEN Step(w, "close",
                    [f EXCEPT !.infos = f.infos \ {info}, !.policy = info.policy,
                              !.lpeers = info.peers],
                    ClearChain(iptable, NetworkChain(f.cur)))
          ELSE Step(w, "networkPolicies",
                    [f EXCEPT !.infos = f.infos \ {info}],
                    insertPeerRule(iptable, info.policy, f.subnet))

\* Variation: the flushed chain is linked without its REJECT.
closeNetworkLate(w) ==
  /\ pc[w] = "close"
  /\ Step(w, "linkTo", frame[w], iptable)

\* ... ends it with a REJECT, ...
closeNetwork(w) ==
  /\ pc[w] = "close"
  /\ Step(w, "linkTo", frame[w],
          AppendUnique(iptable, NetworkChain(frame[w].cur), Jump(Reject)).tbl)

\* ... and links it from the base chain, for packets to the network and for
\* packets from it; a refusal returns the empty chain name.
linkNetwork(w) ==
  /\ pc[w] \in {"linkTo", "linkFrom"}
  /\ LET f == frame[w]
         dir == IF pc[w] = "linkTo" THEN "-d" ELSE "-s"
         r == AppendUnique(iptable, BaseChain, Link(f.cur, dir, f.subnet))
     IN  IF r.exit # 0
         THEN Step(w, "impose", [f EXCEPT !.lnChain = NoChain], r.tbl)
         ELSE Step(w, IF pc[w] = "linkTo" THEN "linkFrom" ELSE "impose",
                   [f EXCEPT !.lnChain = NetworkChain(f.cur)], r.tbl)

\* The jump to the policy goes to whatever chain was returned.
imposePolicy(w) ==
  /\ pc[w] = "impose"
  /\ LET f == frame[w]
         r == InsertRule(iptable, f.lnChain, Jump(PolicyChain(f.policy)))
     IN  IF r.exit = 0
         THEN Step(w, "networkPeers", f, r.tbl)
         ELSE Step(w, Failed(w), [f EXCEPT !.infos = {}], r.tbl)

handleLogicalNetworkAddPeers(w) ==
  /\ pc[w] = "networkPeers"
  /\ LET f == frame[w] IN
     \/ /\ f.lpeers = {}
        /\ Step(w, "networkPolicies", f, iptable)
     \/ \E m \in f.lpeers :
          Step(w, "networkPeers", [f EXCEPT !.lpeers = f.lpeers \ {m}],
               AcceptPeer(f.policy, m))

\* The first base rule of the chain is "deleted" as number i = 0: refused.
handleLogicalNetworkUpdate(w) ==
  /\ pc[w] = "networkUpdate"
  /\ LET f == frame[w] IN
     Step(w, "returned", f,
          IF ln[f.cur] # Absent /\ f.cur \in LinkedNetworks(iptable)
          THEN DeleteNth(iptable, BaseChain, 0).tbl
          ELSE iptable)

handleLogicalNetworkDelete(w) ==
  /\ pc[w] = "networkDelete"
  /\ LET f == frame[w] IN
     Step(w, "networkDrop",
          [f EXCEPT !.infos = ListNetworkPolicies(f.cur)], iptable)
-----------------------------------------------------------------------------
(***************************************************************************)
(* Removal.  The code lists a chain, walks the listing and deletes by rule *)
(* number.  Line 0 of a listing is the chain's own -N line.                *)
(***************************************************************************)
BaseScan(f) == [f EXCEPT !.snap = iptable.rules[BaseChain], !.i = 1, !.pos = 1, !.cnt = 0]

\* DeleteNetworkChainRule for one network of the policy, until none is left.
unlinkPolicy(w) ==
  /\ pc[w] = "unlink"
  /\ LET f == frame[w]
         p == f.item.name
     IN
     \/ /\ f.nets = {}
        /\ Step(w, "returned", f,
                IF f.item.action = "DELETE"
                THEN DeleteIptableChain(iptable, PolicyChain(p)).tbl ELSE iptable)
     \/ \E n \in f.nets :
          LET g == [f EXCEPT !.nets = f.nets \ {n}, !.cur = n] IN
          IF NetworkChain(n) \notin iptable.chains
          THEN Step(w, "unlink", g, iptable)
          ELSE Step(w, "scanNetwork",
                    [g EXCEPT !.snap = iptable.rules[NetworkChain(n)], !.i = 1, !.cnt = 0],
                    iptable)

\* Variation: the count is lost at the next rule.
CountLastPolicy(f, r) == IF r.target \in PolicyChains THEN 1 ELSE 0

\* cnt tells whether a jump to another policy was seen.
CountPolicy(f, r) == IF r.target \in PolicyChains THEN 1 ELSE f.cnt

scanNetworkChain(w) ==
  /\ pc[w] = "scanNetwork"
  /\ LET f == frame[w]
         p == f.item.name
         r == f.snap[f.i]
     IN
     \/ /\ f.i <= Len(f.snap)
        /\ IF r.target = PolicyChain(p)
           THEN Step(w, "scanNetwork", [f EXCEPT !.i = f.i + 1],
                     DeleteNth(iptable, NetworkChain(f.cur), f.i).tbl)
           ELSE Step(w, "scanNetwork",
                     [f EXCEPT !.i = f.i + 1,
                               !.cnt = CountPolicy(f, r)],
                     iptable)
     \/ /\ f.i > Len(f.snap)
        /\ IF f.cnt = 0
           THEN Step(w, "scanBase", BaseScan(f), iptable)
           ELSE Step(w, "unlink", f, iptable)

\* Variation: the loop ends after the first base rule.
OneLink == 1

\* How many base rules DeleteNetworkChain removes.
LinksOfChain == 2

\* DeleteNetworkChain: at most two base rules, then the chain itself.
scanBaseChain(w) ==
  /\ pc[w] = "scanBase"
  /\ LET f == frame[w]
         c == NetworkChain(f.cur)
         d == DeleteNth(iptable, BaseChain, f.pos)
         x == DeleteIptableChain(iptable, c)
         done == f.i > Len(f.snap) \/ f.cnt = LinksOfChain
     IN
     \/ /\ ~done
        /\ IF f.snap[f.i].target = c
           THEN Step(w, "scanBase",
                     [f EXCEPT !.i = f.i + 1, !.cnt = f.cnt + 1,
                               !.pos = IF d.exit = 0 THEN f.pos ELSE f.pos + 1], d.tbl)
           ELSE Step(w, "scanBase",
                     [f EXCEPT !.i = f.i + 1, !.pos = f.pos + 1], iptable)
     \/ /\ done
        /\ Step(w, IF Nested(w) THEN "unlink"
                ELSE IF x.exit = 0 THEN "networkDrop" ELSE "returned", f, x.tbl)

\* The loop of handleLogicalNetworkDelete: one policy.
dropNetwork(w) ==
  /\ pc[w] = "networkDrop"
  /\ LET f == frame[w] IN
     \/ /\ f.infos = {}
        /\ Step(w, "returned", f, iptable)
     \/ \E info \in f.infos :
          LET g == [f EXCEPT !.infos = f.infos \ {info}, !.policy = info.policy] IN
          IF info.via = f.cur
          THEN Step(w, "scanBase", BaseScan(g), iptable)
          ELSE IF PolicyChain(info.policy) \notin iptable.chains
          THEN Step(w, "networkDrop", g, iptable)
          ELSE Step(w, "scanPolicy",
                    [g EXCEPT !.snap = iptable.rules[PolicyChain(info.policy)],
                              !.i = 0, !.pos = 0, !.cnt = 0], iptable)

\* The scan of a policy chain starts at the -N line, which only "" matches.
scanPolicyChain(w) ==
  /\ pc[w] = "scanPolicy"
  /\ LET f == frame[w]
         subnet == f.item.args
         hit == IF f.i = 0 THEN subnet = Blank ELSE Mentions(f.snap[f.i], subnet)
         d == DeleteNth(iptable, PolicyChain(f.policy), f.pos)
         done == f.i > Len(f.snap) \/ f.cnt = 2
     IN
     \/ /\ ~done
        /\ IF hit
           THEN Step(w, "scanPolicy",
                     [f EXCEPT !.i = f.i + 1, !.cnt = f.cnt + 1,
                               !.pos = IF d.exit = 0 THEN f.pos ELSE f.pos + 1], d.tbl)
           ELSE Step(w, "scanPolicy",
                     [f EXCEPT !.i = f.i + 1, !.pos = f.pos + 1], iptable)
     \/ /\ done
        /\ Step(w, "networkDrop", f, iptable)
-----------------------------------------------------------------------------
Handler(w) ==
  \/ handleNetworkPolicyAdd(w) \/ handleNetworkPolicyUpdate(w)
  \/ handleNetworkPolicyDelete(w)
  \/ populatePolicyChain(w) \/ populatePeers(w)
  \/ handleLogicalNetworkAdd(w) \/ listPoliciesForAdd(w)
  \/ handleLogicalNetworkAddPolicies(w) \/ closeNetwork(w) \/ linkNetwork(w)
  \/ imposePolicy(w) \/ handleLogicalNetworkAddPeers(w)
  \/ handleLogicalNetworkUpdate(w) \/ handleLogicalNetworkDelete(w)
  \/ unlinkPolicy(w) \/ scanNetworkChain(w) \/ scanBaseChain(w)
  \/ dropNetwork(w) \/ scanPolicyChain(w)

Worker(w) == Get(w) \/ Lock(w) \/ Handler(w) \/ Unlock(w) \/ Done(w)

Cluster ==
  \/ \E p \in Policies : CreatePolicy(p) \/ UpdatePolicy(p) \/ DeletePolicy(p)
  \/ \E n \in Networks : CreateNetwork(n) \/ UpdateNetwork(n) \/ DeleteNetwork(n)

Next ==
  \/ Cluster \/ Run \/ Stop
  \/ \E k \in Kinds : Notify(k)
  \/ \E w \in Workers : Worker(w)

Spec == Init /\ [][Next]_vars

(***************************************************************************)
(* The scheduler runs every goroutine that can run: the informers' and the *)
(* workers'.  Nothing obliges the cluster to change, or the controller to  *)
(* stop or to be started.                                                  *)
(***************************************************************************)
FairSpec ==
  /\ Spec
  /\ \A k \in Kinds : WF_vars(Notify(k))
  /\ \A w \in Workers : WF_vars(Worker(w))
=============================================================================
