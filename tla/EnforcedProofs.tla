--------------------------- MODULE EnforcedProofs ---------------------------
(***************************************************************************)
(* That the network policy controller enforces the policies of a cluster   *)
(* in which objects are created and never changed or deleted, restarts of  *)
(* the controller included, provided that no network is selected twice.    *)
(***************************************************************************)
EXTENDS SettledProofs, WellFoundedInduction

\* Objects are only ever created.
OnlyCreated == PolicyVerbs \subseteq {"ADD"} /\ NetworkVerbs \subseteq {"ADD"}

\* Networks have subnets of their own; a network is selected by one policy at
\* most, and not if it is a peer; the selectors of a policy have the same peers.
Apart ==
  /\ \A m, n \in Networks : m # n => NetworkValues[m] \cap NetworkValues[n] \cap Subnets = {}
  /\ \A p, r \in Policies :
       \A a \in PolicyValues[p] \ {Blank}, b \in PolicyValues[r] \ {Blank} :
         p # r \/ a = b =>
           \A n \in Selectors(a), m \in Selectors(b) :
             /\ p # r => n # m
             /\ p = r => PeersOf(a, n) = PeersOf(a, m)
             /\ n \notin PeersOf(b, m)

\* Policy p, with the annotations a, selects network n.
Imposes(a, p, n) == Parsable(a[p]) /\ n \in Selectors(a[p])

PAdd(p) == PolicyItem(p, "ADD", Blank)
NAdd(n) == NetworkItem(n, "ADD", Blank)

HandlesPolicy(l, f, p) == l \in Adding /\ f.item.kind = "networkpolicy" /\ f.item.name = p

\* What the rules of a policy chain are there for.
PeerRule(r, p, a, s) ==
  /\ r.dir \in {"-s", "-d"} /\ Parsable(a[p])
  /\ \E n \in Selectors(a[p]) : \E m \in PeersOf(a[p], n) : r.net = s[m]

\* What every chain and rule is there for; this outlives the process.
Justified(t, a, s) ==
  /\ \A n \in Networks :
       \/ NetworkChain(n) \notin t.chains /\ Untargeted(t.rules[BaseChain], NetworkChain(n))
       \/ \E p \in Policies : Imposes(a, p, n)
  /\ \A n \in Networks, p \in Policies :
       Untargeted(t.rules[NetworkChain(n)], PolicyChain(p)) \/ Imposes(a, p, n)
  /\ \A p \in Policies : \A r \in RuleSet(t, PolicyChain(p)) : PeerRule(r, p, a, s)

\* What those of a handler that serves a policy say of it.
Serves(l, f, t, a) ==
  \A p \in Policies : HandlesPolicy(l, f, p) =>
    /\ f.ann = a[p] /\ Parsable(a[p]) /\ PolicyChain(p) \in t.chains
    /\ f.nets \subseteq Selectors(a[p])
    /\ l # "populate" => f.cur \in Selectors(a[p]) /\ f.peers \subseteq PeersOf(a[p], f.cur)
    /\ l = "networkAdd" => f.peers = PeersOf(a[p], f.cur)

\* What the local variables of a handler say of the objects and the table.
Knows(l, f, t, a, s) ==
  /\ l \in AtSubnet => f.subnet = s[f.cur]
  /\ l \in AtInfos => \A x \in f.infos :
       /\ Imposes(a, x.policy, x.via)
       /\ x.via = f.cur => x.peers = PeersOf(a[x.policy], f.cur)
       /\ x.via # f.cur => f.cur \in PeersOf(a[x.policy], x.via)
  /\ l \in AtChain \cup {"networkPeers"} =>
       Imposes(a, f.policy, f.cur) /\ f.lpeers \subseteq PeersOf(a[f.policy], f.cur)
  /\ l \in AtChain => NetworkChain(f.cur) \in t.chains
  /\ l = "impose" /\ s[f.cur] \in Subnets => f.lnChain = NetworkChain(f.cur)
  /\ Serves(l, f, t, a)

\* Network n is the one being handled, and its chain is yet to be made.
WillMake(l, f, n) ==
  /\ f.cur = n
  /\ l = "networkList" \/ (l = "networkPolicies" /\ \E x \in f.infos : x.via = n)

(***************************************************************************)
(* The link of a network, the jump to a policy and the rules for a peer:   *)
(* there already, or going to be when a key that is pending is handled; or *)
(* the worker that is at work is going to see to it.                       *)
(***************************************************************************)
LinkDone(t, s, P, n) ==
  \/ NetworkChain(n) \notin t.chains
  \/ In(t.rules[BaseChain], Link(n, "-s", s[n]))
  \/ NAdd(n) \in P
LinkTodo(l, f, n) == WillMake(l, f, n) \/ (l \in AtChain \ {"impose"} /\ f.cur = n)

JumpDone(t, P, p, n) ==
  \/ In(t.rules[NetworkChain(n)], Jump(PolicyChain(p)))
  \/ NAdd(n) \in P \/ PAdd(p) \in P
JumpTodo(l, f, p, n) ==
  \/ HandlesPolicy(l, f, p) /\ n \in f.nets
  \/ WillMake(l, f, n) \/ (l \in AtChain \cup {"networkAdd"} /\ f.cur = n)

PeerDone(t, s, P, p, n, m) ==
  \/ \A d \in {"-s", "-d"} : In(t.rules[PolicyChain(p)], Rule(d, s[m], Accept))
  \/ NAdd(m) \in P \/ NAdd(n) \in P \/ PAdd(p) \in P
PeerTodo(l, f, p, n, m) ==
  \/ /\ HandlesPolicy(l, f, p)
     /\ \/ n \in f.nets
        \/ l = "networkAdd" /\ f.cur = n
        \/ l \notin {"populate", "networkAdd"} /\ m \in f.peers
  \/ /\ f.cur = n
     /\ \/ l = "networkList"
        \/ l = "networkPolicies" /\ \E x \in f.infos : x.policy = p /\ x.via = n
        \/ l \in AtChain \cup {"networkPeers"} /\ f.policy = p /\ m \in f.lpeers
  \/ /\ f.cur = m
     /\ \/ l = "networkList"
        \/ l = "networkPolicies" /\ \E x \in f.infos : x.policy = p /\ x.via # m

\* All that the objects ask for is there or going to be.
Due(l, f, t, a, s, P) ==
  /\ \A p \in Policies : Parsable(a[p]) => PAdd(p) \in P \/ PolicyChain(p) \in t.chains
  /\ \A p \in Policies, n \in Networks : Imposes(a, p, n) /\ s[n] \in Subnets =>
       /\ LinkDone(t, s, P, n) \/ LinkTodo(l, f, n)
       /\ JumpDone(t, P, p, n) \/ JumpTodo(l, f, p, n)
       /\ \A m \in PeersOf(a[p], n) : s[m] \in Subnets =>
            PeerDone(t, s, P, p, n, m) \/ PeerTodo(l, f, p, n, m)

EInv ==
  /\ Justified(iptable, np, ln)
  /\ \A w \in Workers : pc[w] # "idle" /\ frame[w].item.kind = "logicalnetwork" =>
       frame[w].cur = frame[w].item.name
  /\ up = TRUE =>
       /\ \A w \in Workers : pc[w] \in Inside =>
            /\ Knows(pc[w], frame[w], iptable, np, ln)
            /\ Due(pc[w], frame[w], iptable, np, ln, Pending)
       /\ (\A w \in Workers : pc[w] \notin Inside) =>
            Due("idle", EmptyFrame, iptable, np, ln, Pending)
-----------------------------------------------------------------------------
\* What Apart says of the policies that exist.
LEMMA Selected ==
  ASSUME Apart, GInv, NEW p \in Policies, NEW r \in Policies, NEW n, NEW m,
         Imposes(np, p, n), Imposes(np, r, m)
  PROVE  /\ n = m => p = r
         /\ p = r => PeersOf(np[p], n) = PeersOf(np[p], m)
         /\ n \notin PeersOf(np[r], m)
<1>1. np[p] \in PolicyValues[p] \ {Blank} /\ np[r] \in PolicyValues[r] \ {Blank}
  BY DEF GInv, Imposes, Parsable
<1>2. p # r \/ np[p] = np[r]  OBVIOUS
<1>3. n \in Selectors(np[p]) /\ m \in Selectors(np[r])  BY DEF Imposes
<1> DEFINE a == np[p]  b == np[r]
<1> HIDE DEF a, b
<1>4. /\ p # r => n # m
      /\ p = r => PeersOf(a, n) = PeersOf(a, m)
      /\ n \notin PeersOf(b, m)
  BY <1>1, <1>2, <1>3 DEF Apart, a, b
<1> QED  BY <1>4 DEF a, b

\* What is selected or a peer is a network.
LEMMA ImposesTypes ==
  ASSUME TypeOK, NEW p \in Policies, NEW n, Imposes(np, p, n)
  PROVE  n \in Networks /\ PeersOf(np[p], n) \subseteq Networks
BY ListerTypes, AnnotationTypes DEF Imposes

\* Distinct networks that are connected have distinct subnets.
LEMMA SubnetsApart ==
  ASSUME Apart, ChainInv, NEW m \in Networks, NEW n \in Networks, ln[m] = ln[n],
         ln[n] \in Subnets
  PROVE  m = n
<1>1. Absent \notin Subnets  BY ConstantsAssumption
<1>2. ln[m] \in NetworkValues[m] /\ ln[n] \in NetworkValues[n]  BY <1>1 DEF ChainInv
<1> QED  BY <1>2 DEF Apart

\* Rules are only added, and no network chain.
Fuller(t, u) ==
  /\ t.chains \subseteq u.chains
  /\ \A n \in Networks : NetworkChain(n) \in u.chains => NetworkChain(n) \in t.chains
  /\ \A c \in Chains : \A x : In(t.rules[c], x) => In(u.rules[c], x)

\* An edit of one chain that keeps its rules.
LEMMA FullerEdit ==
  ASSUME NEW t, NEW u, NEW c, Elsewhere(t, u, c), u.chains = t.chains,
         \A x : In(t.rules[c], x) => In(u.rules[c], x)
  PROVE  Fuller(t, u)
BY DEF Fuller, Elsewhere

\* What is done stays done.
LEMMA DoneStays ==
  ASSUME NEW t, NEW u, Fuller(t, u), NEW P, NEW Q, NEW s,
         NEW p \in Policies, NEW n \in Networks, NEW m
  PROVE  /\ {NAdd(n)} \cap P \subseteq Q => (LinkDone(t, s, P, n) => LinkDone(u, s, Q, n))
         /\ {NAdd(n), PAdd(p)} \cap P \subseteq Q => (JumpDone(t, P, p, n) => JumpDone(u, Q, p, n))
         /\ {NAdd(m), NAdd(n), PAdd(p)} \cap P \subseteq Q =>
              (PeerDone(t, s, P, p, n, m) => PeerDone(u, s, Q, p, n, m))
<1>1. /\ BaseChain \in Chains /\ NetworkChain(n) \in Chains /\ PolicyChain(p) \in Chains
  BY ChainKinds
<1> QED  BY <1>1 DEF Fuller, LinkDone, JumpDone, PeerDone

\* The worker moves on, the table grows.
LEMMA DueFuller ==
  ASSUME NEW l, NEW f, NEW t, NEW a, NEW s, NEW P, Due(l, f, t, a, s, P),
         NEW to, NEW g, NEW u, NEW Q, Fuller(t, u), P \subseteq Q,
         \A p \in Policies, n \in Networks : Imposes(a, p, n) /\ s[n] \in Subnets =>
           /\ LinkTodo(l, f, n) => LinkDone(u, s, Q, n) \/ LinkTodo(to, g, n)
           /\ JumpTodo(l, f, p, n) => JumpDone(u, Q, p, n) \/ JumpTodo(to, g, p, n)
           /\ \A m \in PeersOf(a[p], n) : s[m] \in Subnets =>
                (PeerTodo(l, f, p, n, m) => PeerDone(u, s, Q, p, n, m) \/ PeerTodo(to, g, p, n, m))
  PROVE  Due(to, g, u, a, s, Q)
<1>1. \A p \in Policies : Parsable(a[p]) => PAdd(p) \in Q \/ PolicyChain(p) \in u.chains
  BY DEF Due, Fuller
<1>2. ASSUME NEW p \in Policies, NEW n \in Networks, Imposes(a, p, n), s[n] \in Subnets
      PROVE  /\ LinkDone(u, s, Q, n) \/ LinkTodo(to, g, n)
             /\ JumpDone(u, Q, p, n) \/ JumpTodo(to, g, p, n)
             /\ \A m \in PeersOf(a[p], n) : s[m] \in Subnets =>
                  PeerDone(u, s, Q, p, n, m) \/ PeerTodo(to, g, p, n, m)
  <2>1. LinkDone(t, s, P, n) => LinkDone(u, s, Q, n)  BY DoneStays
  <2>2. JumpDone(t, P, p, n) => JumpDone(u, Q, p, n)  BY DoneStays
  <2>3. \A m : PeerDone(t, s, P, p, n, m) => PeerDone(u, s, Q, p, n, m)  BY DoneStays
  <2> QED  BY <1>2, <2>1, <2>2, <2>3 DEF Due
<1> QED  BY <1>1, <1>2 DEF Due

\* A worker that is not setting anything up has nothing to see to.
LEMMA NothingTodo ==
  ASSUME NEW l, l \notin Adding, NEW f, NEW p, NEW n, NEW m
  PROVE  ~LinkTodo(l, f, n) /\ ~JumpTodo(l, f, p, n) /\ ~PeerTodo(l, f, p, n, m)
BY DEF LinkTodo, JumpTodo, PeerTodo, WillMake, HandlesPolicy, Adding, AtChain
-----------------------------------------------------------------------------
\* Justified, from one table to the next.
LEMMA JustEdit ==
  ASSUME NEW t, NEW u, NEW a, NEW s, Justified(t, a, s),
         \A n \in Networks : NetworkChain(n) \in u.chains =>
           NetworkChain(n) \in t.chains \/ \E p \in Policies : Imposes(a, p, n),
         \A n \in Networks : Untargeted(t.rules[BaseChain], NetworkChain(n)) =>
           Untargeted(u.rules[BaseChain], NetworkChain(n)) \/ \E p \in Policies : Imposes(a, p, n),
         \A n \in Networks, p \in Policies :
           Untargeted(t.rules[NetworkChain(n)], PolicyChain(p)) =>
             Untargeted(u.rules[NetworkChain(n)], PolicyChain(p)) \/ Imposes(a, p, n),
         \A p \in Policies : \A x : In(u.rules[PolicyChain(p)], x) =>
           In(t.rules[PolicyChain(p)], x) \/ PeerRule(x, p, a, s)
  PROVE  Justified(u, a, s)
<1>1. \A n \in Networks :
        \/ NetworkChain(n) \notin u.chains /\ Untargeted(u.rules[BaseChain], NetworkChain(n))
        \/ \E p \in Policies : Imposes(a, p, n)
  BY DEF Justified
<1>2. \A n \in Networks, p \in Policies :
        Untargeted(u.rules[NetworkChain(n)], PolicyChain(p)) \/ Imposes(a, p, n)
  BY DEF Justified
<1>3. \A p \in Policies : \A r \in RuleSet(u, PolicyChain(p)) : PeerRule(r, p, a, s)
  BY InRuleSet DEF Justified
<1> QED  BY <1>1, <1>2, <1>3 DEF Justified

\* An edit of a policy chain, of a network chain and of the base chain.
LEMMA JustPolicy ==
  ASSUME NEW t, NEW u, NEW a, NEW s, Justified(t, a, s), NEW p \in Policies,
         Elsewhere(t, u, PolicyChain(p)), u.chains \subseteq t.chains \cup {PolicyChain(p)},
         \A x : In(u.rules[PolicyChain(p)], x) =>
           In(t.rules[PolicyChain(p)], x) \/ PeerRule(x, p, a, s)
  PROVE  Justified(u, a, s)
<1>1. /\ u.rules[BaseChain] = t.rules[BaseChain]
      /\ \A n \in Networks : u.rules[NetworkChain(n)] = t.rules[NetworkChain(n)]
      /\ \A r \in Policies : r # p => u.rules[PolicyChain(r)] = t.rules[PolicyChain(r)]
  BY ChainKinds, ChainsApart DEF Elsewhere
<1>2. \A n \in Networks : NetworkChain(n) \in u.chains => NetworkChain(n) \in t.chains
  BY ChainsApart
<1>3. \A r \in Policies : \A x : In(u.rules[PolicyChain(r)], x) =>
        In(t.rules[PolicyChain(r)], x) \/ PeerRule(x, r, a, s)
  BY <1>1
<1> QED  BY <1>1, <1>2, <1>3, JustEdit

\* An edit of the chain of a network that the policy selects.
LEMMA JustNetwork ==
  ASSUME NEW t, NEW u, NEW a, NEW s, Justified(t, a, s), NEW p \in Policies, NEW n \in Networks,
         Imposes(a, p, n), NEW c \in {NetworkChain(n), NoChain}, Elsewhere(t, u, c),
         u.chains \subseteq t.chains \cup {NetworkChain(n)},
         \A x : In(u.rules[c], x) =>
           In(t.rules[c], x) \/ x = Jump(PolicyChain(p)) \/ x = Jump(Reject)
  PROVE  Justified(u, a, s)
<1>1. /\ u.rules[BaseChain] = t.rules[BaseChain]
      /\ \A r \in Policies : u.rules[PolicyChain(r)] = t.rules[PolicyChain(r)]
      /\ \A m \in Networks : m # n => u.rules[NetworkChain(m)] = t.rules[NetworkChain(m)]
      /\ c # NetworkChain(n) => u.rules[NetworkChain(n)] = t.rules[NetworkChain(n)]
  BY ChainKinds, ChainsApart DEF Elsewhere
<1>2. \A m \in Networks : NetworkChain(m) \in u.chains =>
        NetworkChain(m) \in t.chains \/ \E r \in Policies : Imposes(a, r, m)
  BY ChainsApart
<1>3. ASSUME NEW r \in Policies, Untargeted(t.rules[NetworkChain(n)], PolicyChain(r)),
             ~Untargeted(u.rules[NetworkChain(n)], PolicyChain(r))
      PROVE  Imposes(a, r, n)
  <2>1. c = NetworkChain(n)  BY <1>1, <1>3
  <2>2. PICK x : In(u.rules[c], x) /\ x.target = PolicyChain(r)
    BY <1>3, <2>1 DEF Untargeted, In
  <2>3. ~In(t.rules[c], x)  BY <1>3, <2>1, <2>2 DEF Untargeted, In
  <2>4. x.target = PolicyChain(p) \/ x.target = Reject  BY <2>2, <2>3, RuleTypes
  <2>5. r = p  BY <2>2, <2>4, ChainsApart
  <2> QED  BY <2>5
<1>4. \A m \in Networks, r \in Policies :
        Untargeted(t.rules[NetworkChain(m)], PolicyChain(r)) =>
          Untargeted(u.rules[NetworkChain(m)], PolicyChain(r)) \/ Imposes(a, r, m)
  BY <1>1, <1>3
<1> QED  BY <1>1, <1>2, <1>4, JustEdit

\* An edit of the base chain for a network that some policy selects.
LEMMA JustBase ==
  ASSUME NEW t, NEW u, NEW a, NEW s, Justified(t, a, s), NEW p \in Policies, NEW n \in Networks,
         Imposes(a, p, n), Elsewhere(t, u, BaseChain), u.chains = t.chains,
         \A x : In(u.rules[BaseChain], x) =>
           In(t.rules[BaseChain], x) \/ x.target = NetworkChain(n)
  PROVE  Justified(u, a, s)
<1>1. /\ \A r \in Policies : u.rules[PolicyChain(r)] = t.rules[PolicyChain(r)]
      /\ \A m \in Networks : u.rules[NetworkChain(m)] = t.rules[NetworkChain(m)]
  BY ChainKinds, ChainsApart DEF Elsewhere
<1>2. ASSUME NEW m \in Networks, Untargeted(t.rules[BaseChain], NetworkChain(m)), m # n
      PROVE  Untargeted(u.rules[BaseChain], NetworkChain(m))
  <2>1. NetworkChain(m) # NetworkChain(n)  BY <1>2, ChainsApart
  <2> QED  BY <1>2, <2>1 DEF Untargeted, In
<1> QED  BY <1>1, <1>2, JustEdit
-----------------------------------------------------------------------------
\* Where objects are only created, the handlers only set things up.
LEMMA OnlyAdding ==
  ASSUME IInv, ChainInv, GInv, OnlyCreated, NEW w \in Workers, pc[w] \in Inside
  PROVE  pc[w] \in {"policyAdd", "returned"} \cup Adding
<1>1. Suits(pc[w], frame[w]) /\ Happens(frame[w].item)  BY FoundG
<1>2. frame[w].item.action = "ADD"  BY <1>1 DEF Happens, OnlyCreated
<1> QED  BY <1>1, <1>2 DEF Suits, Inside, Handlers, Adding, Removing

\* What a worker inside syncHandler finds, and what it has to leave.
LEMMA FoundE ==
  ASSUME IInv, ChainInv, EInv, NEW w \in Workers, pc[w] \in Inside
  PROVE  /\ Justified(iptable, np, ln)
         /\ Knows(pc[w], frame[w], iptable, np, ln)
         /\ Due(pc[w], frame[w], iptable, np, ln, Pending)
         /\ frame[w].item.kind = "logicalnetwork" => frame[w].cur = frame[w].item.name
BY Found DEF EInv, Inside, Handlers

\* A step of a handler that leaves things as they have to be keeps EInv.
LEMMA StepE ==
  ASSUME IInv, ChainInv, EInv, NEW w \in Workers, pc[w] \in Inside, NEW to \in Inside,
         NEW f, NEW t, Step(w, to, f, t), f.item = frame[w].item,
         f.item.kind = "logicalnetwork" => f.cur = frame[w].cur,
         Justified(t, np, ln), Knows(to, f, t, np, ln), Due(to, f, t, np, ln, Pending')
  PROVE  EInv'
<1>1. up = TRUE /\ up' = up /\ iptable' = t /\ np' = np /\ ln' = ln
  BY Found DEF Step, clusterVars
<1>2. /\ pc'[w] = to /\ frame'[w] = f
      /\ \A v \in Workers : v # w => pc'[v] = pc[v] /\ frame'[v] = frame[v]
  BY DEF Step, IInv, TypeOK
<1>3. \A v \in Workers : pc'[v] \in Inside => v = w  BY <1>2, Alone
<1>4. pc[w] # "idle"  BY DEF Inside, Handlers
<1>5. \A v \in Workers : pc'[v] # "idle" /\ frame'[v].item.kind = "logicalnetwork" =>
        frame'[v].cur = frame'[v].item.name
  BY <1>2, <1>4 DEF EInv
<1> DEFINE Q == Pending'
<1> HIDE DEF Q
<1>6. Due(to, f, t, np, ln, Q)  BY DEF Q
<1>7. \A v \in Workers : pc'[v] \in Inside =>
        /\ Knows(pc'[v], frame'[v], iptable', np', ln')
        /\ Due(pc'[v], frame'[v], iptable', np', ln', Q)
  BY <1>1, <1>2, <1>3, <1>6
<1>8. Justified(iptable', np', ln')  BY <1>1
<1>9. pc'[w] \in Inside  BY <1>2
<1> QED  BY <1>1, <1>5, <1>7, <1>8, <1>9 DEF EInv, Q

\* The keys stay pending while a handler is at work, and but for its own when
\* it begins.
LEMMA StepKeys ==
  ASSUME IInv, ChainInv, EInv, NEW w \in Workers, NEW to, NEW f, NEW t, Step(w, to, f, t),
         pc[w] \in Inside
  PROVE  /\ pc[w] \in Adding /\ (pc[w] # "networkAdd" \/ frame[w].item.kind = "networkpolicy") =>
              Pending \subseteq Pending'
         /\ \A n \in Networks : NAdd(n) \in Pending =>
              NAdd(n) \in Pending' \/ (pc[w] # "policyAdd" /\ n = frame[w].item.name)
         /\ \A p \in Policies : PAdd(p) \in Pending =>
              PAdd(p) \in Pending' \/ (pc[w] # "networkAdd" /\ p = frame[w].item.name)
<1> DEFINE x == frame[w].item
<1>1. /\ Pending \ {x} \subseteq Pending'
      /\ pc[w] # HandlerOf(x) => Pending \subseteq Pending'
  BY StepPending
<1>2. x \in Items  BY DEF IInv, Fits, Inside, Handlers
<1>3. /\ HandlerOf(x) \in Handlers
      /\ x.kind = "networkpolicy" => HandlerOf(x) # "networkAdd"
      /\ HandlerOf(x) = "policyAdd" => x.kind = "networkpolicy"
      /\ HandlerOf(x) = "networkAdd" => x.kind = "logicalnetwork"
  BY <1>2, HandlerIs
<1>4. pc[w] \in Adding /\ pc[w] # "networkAdd" => pc[w] \notin Handlers  BY DEF Adding, Handlers
<1>5. /\ \A n \in Networks : NAdd(n).kind = "logicalnetwork" /\ NAdd(n).name = n
      /\ \A p \in Policies : PAdd(p).kind = "networkpolicy" /\ PAdd(p).name = p
  BY DEF NAdd, PAdd, NetworkItem, PolicyItem
<1>6. \A n \in Networks : NAdd(n) = x => x.kind = "logicalnetwork" /\ n = x.name  BY <1>5
<1>7. \A p \in Policies : PAdd(p) = x => x.kind = "networkpolicy" /\ p = x.name  BY <1>5
<1> HIDE DEF x
<1> DEFINE Q == Pending'
<1>8. /\ Pending \ {x} \subseteq Q
      /\ pc[w] # HandlerOf(x) => Pending \subseteq Q
  BY <1>1
<1> HIDE DEF Q
<1>9. pc[w] \in Adding /\ (pc[w] # "networkAdd" \/ x.kind = "networkpolicy") => Pending \subseteq Q
  BY <1>3, <1>4, <1>8
<1>10. ASSUME NEW n \in Networks, NAdd(n) \in Pending, NAdd(n) \notin Q
       PROVE  pc[w] # "policyAdd" /\ n = x.name
  <2>1. NAdd(n) = x /\ pc[w] = HandlerOf(x)  BY <1>8, <1>10
  <2>2. x.kind = "logicalnetwork" /\ n = x.name  BY <1>6, <2>1
  <2> QED  BY <1>3, <2>1, <2>2
<1>11. ASSUME NEW p \in Policies, PAdd(p) \in Pending, PAdd(p) \notin Q
       PROVE  pc[w] # "networkAdd" /\ p = x.name
  <2>1. PAdd(p) = x /\ pc[w] = HandlerOf(x)  BY <1>8, <1>11
  <2>2. x.kind = "networkpolicy" /\ p = x.name  BY <1>7, <2>1
  <2> QED  BY <1>3, <2>1, <2>2
<1> QED  BY <1>9, <1>10, <1>11 DEF Q, x

\* Accepting a peer: both rules are there if the policy has its chain.
LEMMA AcceptE ==
  ASSUME TypeOK, Sound(iptable), NEW p \in Policies, NEW s \in Subnets \cup {Blank}
  PROVE  LET u == insertPeerRule(iptable, p, s)
             c == PolicyChain(p)
         IN  /\ Elsewhere(iptable, u, c) /\ u.chains = iptable.chains /\ Fuller(iptable, u)
             /\ \A x : In(u.rules[c], x) =>
                  In(iptable.rules[c], x) \/ \E d \in {"-s", "-d"} : x = Rule(d, s, Accept)
             /\ c \in iptable.chains /\ s \in Subnets =>
                  \A d \in {"-s", "-d"} : In(u.rules[c], Rule(d, s, Accept))
<1> DEFINE u == insertPeerRule(iptable, p, s)
           c == PolicyChain(p)
<1>1. s \in Subnets => s # Blank  BY BlankAssumption
<1>2. Elsewhere(iptable, u, c)  BY PeerEffect
<1>3. /\ u.chains = iptable.chains
      /\ \A x : In(iptable.rules[c], x) => In(u.rules[c], x)
      /\ \A x : In(u.rules[c], x) =>
           In(iptable.rules[c], x) \/ \E d \in {"-s", "-d"} : x = Rule(d, s, Accept)
      /\ c \in iptable.chains /\ s # Blank =>
           \A d \in {"-s", "-d"} : In(u.rules[c], Rule(d, s, Accept))
  BY PeerMore
<1> HIDE DEF u, c
<1>4. Fuller(iptable, u)  BY <1>2, <1>3, FullerEdit
<1> QED  BY <1>1, <1>2, <1>3, <1>4 DEF u, c

\* The rules that a peer gets are justified.
LEMMA PeerJust ==
  ASSUME IInv, Justified(iptable, np, ln), NEW p \in Policies, NEW n, Imposes(np, p, n),
         NEW m \in PeersOf(np[p], n)
  PROVE  /\ \A s \in Subnets \cup {Blank} : s = ln[m] =>
              Justified(insertPeerRule(iptable, p, s), np, ln)
         /\ m \in Networks
         /\ Justified(AcceptPeer(p, m), np, ln) /\ Fuller(iptable, AcceptPeer(p, m))
         /\ AcceptPeer(p, m).chains = iptable.chains
         /\ PolicyChain(p) \in iptable.chains /\ ln[m] \in Subnets =>
              \A d \in {"-s", "-d"} :
                In(AcceptPeer(p, m).rules[PolicyChain(p)], Rule(d, ln[m], Accept))
<1>1. TypeOK /\ Sound(iptable) /\ m \in Networks  BY ImposesTypes DEF IInv
<1>2. ASSUME NEW s \in Subnets \cup {Blank}, s = ln[m]
      PROVE  Justified(insertPeerRule(iptable, p, s), np, ln)
  <2>1. \A d \in {"-s", "-d"} : PeerRule(Rule(d, s, Accept), p, np, ln)
    BY <1>2 DEF PeerRule, Imposes, Rule
  <2> QED  BY <1>1, <2>1, AcceptE, JustPolicy
<1>3. Absent \notin Subnets  BY ConstantsAssumption
<1>4. CASE ln[m] = Absent
  <2>1. AcceptPeer(p, m) = iptable  BY <1>4 DEF AcceptPeer
  <2>2. Fuller(iptable, iptable)  BY DEF Fuller
  <2> QED  BY <1>1, <1>2, <1>3, <1>4, <2>1, <2>2
<1>5. CASE ln[m] # Absent
  <2>1. AcceptPeer(p, m) = insertPeerRule(iptable, p, ln[m]) /\ ln[m] \in Subnets \cup {Blank}
    BY <1>1, <1>5, ListerTypes DEF AcceptPeer
  <2> QED  BY <1>1, <1>2, <2>1, AcceptE
<1> QED  BY <1>4, <1>5
-----------------------------------------------------------------------------
\* A step that only adds rules, of a handler that has begun.
LEMMA FullerE ==
  ASSUME IInv, ChainInv, EInv, NEW w \in Workers, pc[w] \in Inside, pc[w] \in Adding,
         pc[w] # "networkAdd" \/ frame[w].item.kind = "networkpolicy",
         NEW to \in Inside, NEW g, NEW t, Step(w, to, g, t), g.item = frame[w].item,
         g.item.kind = "logicalnetwork" => g.cur = frame[w].cur,
         Justified(t, np, ln), Knows(to, g, t, np, ln), Fuller(iptable, t),
         \A p \in Policies, n \in Networks : Imposes(np, p, n) /\ ln[n] \in Subnets =>
           /\ LinkTodo(pc[w], frame[w], n) => LinkDone(t, ln, Pending, n) \/ LinkTodo(to, g, n)
           /\ JumpTodo(pc[w], frame[w], p, n) =>
                JumpDone(t, Pending, p, n) \/ JumpTodo(to, g, p, n)
           /\ \A m \in PeersOf(np[p], n) : ln[m] \in Subnets =>
                (PeerTodo(pc[w], frame[w], p, n, m) =>
                   PeerDone(t, ln, Pending, p, n, m) \/ PeerTodo(to, g, p, n, m))
  PROVE  EInv'
<1>1. Due(pc[w], frame[w], iptable, np, ln, Pending)  BY FoundE
<1>2. Due(to, g, t, np, ln, Pending)  BY <1>1, DueFuller
<1>3. Pending \subseteq Pending'  BY StepKeys
<1> DEFINE Q == Pending'
<1> HIDE DEF Q
<1>4. Pending \subseteq Q /\ Fuller(t, t)  BY <1>3 DEF Q, Fuller
<1>5. Due(to, g, t, np, ln, Q)  BY <1>2, <1>4, DueFuller
<1> QED  BY <1>5, StepE DEF Q

\* Local variables at the labels of the handlers of policies.
LEMMA KnowsPolicy ==
  ASSUME NEW l \in {"returned", "populate", "peers", "networkAdd"},
         NEW f, NEW t, NEW a, NEW s,
         l # "returned" /\ f.item.kind = "networkpolicy" =>
           LET p == f.item.name IN
           /\ f.ann = a[p] /\ Parsable(a[p]) /\ PolicyChain(p) \in t.chains
           /\ f.nets \subseteq Selectors(a[p])
           /\ l # "populate" => f.cur \in Selectors(a[p]) /\ f.peers \subseteq PeersOf(a[p], f.cur)
           /\ l = "networkAdd" => f.peers = PeersOf(a[p], f.cur)
  PROVE  Knows(l, f, t, a, s)
<1>1. /\ l \notin AtSubnet /\ l \notin AtInfos /\ l \notin AtChain \cup {"networkPeers"}
      /\ l # "impose" /\ "returned" \notin Adding
  BY DEF AtSubnet, AtInfos, AtChain, Adding
<1> QED  BY <1>1 DEF Knows, Serves, HandlesPolicy

\* handleNetworkPolicyAdd flushes the chain of the policy; its networks are to do.
LEMMA PolicyAddE ==
  ASSUME IInv, ChainInv, GInv, EInv, NEW w \in Workers, handleNetworkPolicyAdd(w)
  PROVE  EInv'
<1> DEFINE f == frame[w]
           p == f.item.name
           a == np[p]
<1>1. pc[w] = "policyAdd" /\ pc[w] \in Inside /\ pc[w] \in AtPolicy /\ pc[w] \notin Adding
  BY DEF handleNetworkPolicyAdd, Inside, Handlers, AtPolicy, Adding
<1>2. /\ TypeOK /\ iptable \in Tables /\ f \in Frames /\ p \in Policies
      /\ f.item.kind = "networkpolicy"
  BY <1>1, FoundG, ItemKinds DEF Fits
<1>3. Justified(iptable, np, ln) /\ Due(pc[w], f, iptable, np, ln, Pending)  BY <1>1, FoundE
<1> DEFINE Q == Pending'
<1>4. ASSUME NEW to, NEW g, NEW t, Step(w, to, g, t)
      PROVE  /\ \A n \in Networks : NAdd(n) \in Pending => NAdd(n) \in Q
             /\ \A r \in Policies : r # p /\ PAdd(r) \in Pending => PAdd(r) \in Q
  BY <1>1, <1>4, StepKeys
<1> HIDE DEF Q
<1>5. /\ \A r \in Policies : Parsable(np[r]) => PAdd(r) \in Pending \/ PolicyChain(r) \in iptable.chains
      /\ \A r \in Policies, n \in Networks : Imposes(np, r, n) /\ ln[n] \in Subnets =>
           /\ LinkDone(iptable, ln, Pending, n)
           /\ JumpDone(iptable, Pending, r, n)
           /\ \A m \in PeersOf(np[r], n) : ln[m] \in Subnets =>
                PeerDone(iptable, ln, Pending, r, n, m)
  BY <1>1, <1>3, NothingTodo DEF Due
<1>6. CASE Step(w, "returned", f, iptable) /\ ~Parsable(a)
  <2>1. "returned" \in Inside /\ "policyAdd" # "networkAdd"  BY DEF Inside
  <2>2. Knows("returned", f, iptable, np, ln)  BY KnowsPolicy
  <2>3. Fuller(iptable, iptable)  BY DEF Fuller
  <2>4. \A r \in Policies : Parsable(np[r]) => r # p  BY <1>6
  <2>5. ASSUME NEW r \in Policies, NEW n \in Networks, Imposes(np, r, n), ln[n] \in Subnets
        PROVE  /\ LinkDone(iptable, ln, Q, n)
               /\ JumpDone(iptable, Q, r, n)
               /\ \A m \in PeersOf(np[r], n) : ln[m] \in Subnets =>
                    PeerDone(iptable, ln, Q, r, n, m)
    <3>1. r # p  BY <2>4, <2>5 DEF Imposes
    <3>2. PeersOf(np[r], n) \subseteq Networks  BY <1>2, <2>5, ImposesTypes
    <3>3. /\ NAdd(n) \in Pending => NAdd(n) \in Q
          /\ PAdd(r) \in Pending => PAdd(r) \in Q
          /\ \A m \in PeersOf(np[r], n) : NAdd(m) \in Pending => NAdd(m) \in Q
      BY <1>4, <1>6, <3>1, <3>2
    <3> QED  BY <1>5, <2>3, <2>5, <3>3, DoneStays
  <2>6. \A r \in Policies : Parsable(np[r]) => PAdd(r) \in Q \/ PolicyChain(r) \in iptable.chains
    BY <1>4, <1>5, <1>6, <2>4
  <2>7. Due("returned", f, iptable, np, ln, Q)  BY <2>5, <2>6 DEF Due
  <2> QED  BY <1>1, <1>3, <1>6, <2>1, <2>2, <2>7, StepE DEF Q
<1>7. ASSUME NEW to \in {"returned", "populate"}, Parsable(a),
             to = "returned" => Selectors(a) = {},
             Step(w, to, [f EXCEPT !.ann = a, !.nets = Selectors(a)], AddPolicyChain(iptable, p))
      PROVE  EInv'
  <2> DEFINE g == [f EXCEPT !.ann = a, !.nets = Selectors(a)]
             t == AddPolicyChain(iptable, p)
             c == PolicyChain(p)
  <2>1. to \in Inside /\ "populate" \in Adding  BY DEF Inside, Adding
  <2>2. g.item = f.item /\ g.cur = f.cur /\ g.ann = a /\ g.nets = Selectors(a)
    BY <1>2 DEF Frames
  <2>3. /\ Elsewhere(iptable, t, c) /\ t.chains = iptable.chains \cup {c} /\ t.rules[c] = << >>
    BY <1>2, ChainKinds, ClearEffect, ClearChainType DEF AddPolicyChain
  <2>4. Step(w, to, g, t)  BY <1>7
  <2> HIDE DEF g, t
  <2>5. Justified(t, np, ln)
    <3>1. \A x : In(t.rules[c], x) => In(iptable.rules[c], x) \/ PeerRule(x, p, np, ln)
      BY <2>3, EmptyIn
    <3> QED  BY <1>2, <1>3, <2>3, <3>1, JustPolicy
  <2>6. Knows(to, g, t, np, ln)  BY <1>7, <2>2, <2>3, KnowsPolicy
  <2>7. /\ t.rules[BaseChain] = iptable.rules[BaseChain]
        /\ \A n \in Networks : /\ t.rules[NetworkChain(n)] = iptable.rules[NetworkChain(n)]
                               /\ NetworkChain(n) \in t.chains => NetworkChain(n) \in iptable.chains
        /\ \A r \in Policies : r # p => t.rules[PolicyChain(r)] = iptable.rules[PolicyChain(r)]
    BY <1>2, <2>3, ChainKinds, ChainsApart DEF Elsewhere
  <2>8. ASSUME NEW r \in Policies, NEW n \in Networks, Imposes(np, r, n), ln[n] \in Subnets
        PROVE  /\ LinkDone(t, ln, Q, n)
               /\ JumpDone(t, Q, r, n) \/ JumpTodo(to, g, r, n)
               /\ \A m \in PeersOf(np[r], n) : ln[m] \in Subnets =>
                    PeerDone(t, ln, Q, r, n, m) \/ PeerTodo(to, g, r, n, m)
    <3>1. PeersOf(np[r], n) \subseteq Networks  BY <1>2, <2>8, ImposesTypes
    <3>2. /\ NAdd(n) \in Pending => NAdd(n) \in Q
          /\ r # p /\ PAdd(r) \in Pending => PAdd(r) \in Q
          /\ \A m \in PeersOf(np[r], n) : NAdd(m) \in Pending => NAdd(m) \in Q
      BY <1>4, <2>4, <3>1
    <3>3. LinkDone(t, ln, Q, n)  BY <1>5, <2>7, <2>8, <3>2 DEF LinkDone
    <3>4. CASE r = p
      <4>1. n \in Selectors(a)  BY <2>8, <3>4 DEF Imposes
      <4>2. to = "populate"  BY <1>7, <4>1
      <4>3. HandlesPolicy(to, g, p) /\ n \in g.nets
        BY <1>2, <2>1, <2>2, <4>1, <4>2 DEF HandlesPolicy
      <4> QED  BY <3>3, <3>4, <4>3 DEF JumpTodo, PeerTodo
    <3>5. CASE r # p
      <4>1. JumpDone(t, Q, r, n)  BY <1>5, <2>7, <2>8, <3>2, <3>5 DEF JumpDone
      <4>2. \A m \in PeersOf(np[r], n) : ln[m] \in Subnets => PeerDone(t, ln, Q, r, n, m)
        BY <1>5, <2>7, <2>8, <3>2, <3>5 DEF PeerDone
      <4> QED  BY <3>3, <4>1, <4>2
    <3> QED  BY <3>4, <3>5
  <2>9. \A r \in Policies : Parsable(np[r]) => PAdd(r) \in Q \/ PolicyChain(r) \in t.chains
    BY <1>4, <1>5, <2>3, <2>4
  <2>10. Due(to, g, t, np, ln, Q)  BY <2>8, <2>9 DEF Due
  <2> QED  BY <1>1, <2>1, <2>2, <2>4, <2>5, <2>6, <2>10, StepE DEF Q
<1> QED  BY <1>6, <1>7 DEF handleNetworkPolicyAdd

\* populatePolicyChain: a jump from the chain of the network, or the chain first.
LEMMA PopulateE ==
  ASSUME IInv, ChainInv, GInv, EInv, NEW w \in Workers, populatePolicyChain(w)
  PROVE  EInv'
<1> DEFINE f == frame[w]
           p == f.item.name
<1>1. /\ pc[w] = "populate" /\ pc[w] \in Inside /\ pc[w] \in AtPolicy /\ pc[w] \in Adding
      /\ {"returned", "networkAdd", "peers"} \subseteq Inside
      /\ {"networkAdd", "peers"} \subseteq Adding
  BY DEF populatePolicyChain, Inside, Handlers, AtPolicy, Adding
<1>2. /\ TypeOK /\ iptable \in Tables /\ f \in Frames /\ p \in Policies
      /\ f.item.kind = "networkpolicy" /\ f.nets \subseteq Networks
  BY <1>1, FoundG, ItemKinds DEF Fits, Frames
<1>3. /\ Justified(iptable, np, ln)
      /\ f.ann = np[p] /\ Parsable(np[p]) /\ PolicyChain(p) \in iptable.chains
      /\ f.nets \subseteq Selectors(np[p])
  BY <1>1, <1>2, FoundE DEF Knows, Serves, HandlesPolicy
<1>4. ASSUME NEW r \in Policies, NEW n, NEW m
      PROVE  /\ ~LinkTodo(pc[w], f, n)
             /\ JumpTodo(pc[w], f, r, n) => r = p /\ n \in f.nets
             /\ PeerTodo(pc[w], f, r, n, m) => r = p /\ n \in f.nets
  BY <1>1 DEF LinkTodo, JumpTodo, PeerTodo, WillMake, HandlesPolicy, AtChain
<1>5. Fuller(iptable, iptable)  BY DEF Fuller
<1>6. CASE f.nets = {} /\ Step(w, "returned", f, iptable)
  <2>1. Knows("returned", f, iptable, np, ln)  BY KnowsPolicy
  <2> QED  BY <1>1, <1>2, <1>3, <1>4, <1>5, <1>6, <2>1, FullerE
<1>7. ASSUME NEW n \in f.nets,
             LET g == [f EXCEPT !.nets = f.nets \ {n}, !.cur = n, !.peers = PeersOf(f.ann, n)]
                 r == InsertRule(iptable, NetworkChain(n), Jump(PolicyChain(p)))
             IN  IF NetworkChain(n) \notin iptable.chains
                 THEN Step(w, "networkAdd", g, iptable)
                 ELSE Step(w, IF r.exit = 0 THEN "peers" ELSE "populate", g, r.tbl)
      PROVE  EInv'
  <2> DEFINE g == [f EXCEPT !.nets = f.nets \ {n}, !.cur = n, !.peers = PeersOf(f.ann, n)]
             c == NetworkChain(n)
             j == Jump(PolicyChain(p))
             r == InsertRule(iptable, c, j)
             t == r.tbl
  <2>1. /\ g.item = f.item /\ g.nets = f.nets \ {n} /\ g.cur = n
        /\ g.peers = PeersOf(np[p], n) /\ g.ann = np[p]
    BY <1>2, <1>3 DEF Frames
  <2>2. n \in Networks /\ n \in Selectors(np[p]) /\ Imposes(np, p, n)
    BY <1>2, <1>3 DEF Imposes
  <2>3. c \in Chains /\ j \in Rules /\ j.target = PolicyChain(p) /\ j.dir = "any"
    BY <1>2, <2>2, ChainKinds, RuleTypes DEF Jump, Rule
  <2>4. Refusal(iptable, c, j) # 2  BY <1>3, <2>3 DEF Refusal
  <2>5. /\ r.exit = 0
        /\ c \in iptable.chains => In(t.rules[c], j)
        /\ Elsewhere(iptable, t, c) /\ t.chains = iptable.chains
        /\ \A x : In(iptable.rules[c], x) => In(t.rules[c], x)
        /\ \A x : In(t.rules[c], x) => In(iptable.rules[c], x) \/ x = j
    BY <1>2, <2>3, <2>4, InsertRuleMore, InsertRuleEffect
  <2>6. \/ c \notin iptable.chains /\ Step(w, "networkAdd", g, iptable)
        \/ c \in iptable.chains /\ Step(w, "peers", g, t)
    BY <1>7, <2>5
  <2> HIDE DEF g, r, t
  <2>7. \A k : k \in f.nets => k = n \/ k \in g.nets  BY <2>1
  <2>8. \A to \in Adding : HandlesPolicy(to, g, p)  BY <1>2, <2>1 DEF HandlesPolicy
  <2>9. CASE Step(w, "networkAdd", g, iptable)
    <3>1. Knows("networkAdd", g, iptable, np, ln)  BY <1>3, <2>1, <2>2, KnowsPolicy
    <3>2. ASSUME NEW k \in f.nets, NEW m
          PROVE  JumpTodo("networkAdd", g, p, k) /\ PeerTodo("networkAdd", g, p, k, m)
      BY <1>1, <2>1, <2>7, <2>8 DEF JumpTodo, PeerTodo
    <3> QED  BY <1>1, <1>2, <1>3, <1>4, <1>5, <2>1, <2>9, <3>1, <3>2, FullerE
  <2>10. CASE c \in iptable.chains /\ Step(w, "peers", g, t)
    <3>1. Knows("peers", g, t, np, ln)  BY <1>3, <2>1, <2>2, <2>5, KnowsPolicy
    <3>2. Fuller(iptable, t)  BY <2>5, FullerEdit
    <3>3. Justified(t, np, ln)  BY <1>2, <1>3, <2>2, <2>5, JustNetwork
    <3>4. \A k \in f.nets : JumpDone(t, Pending, p, k) \/ JumpTodo("peers", g, p, k)
      BY <1>1, <2>5, <2>7, <2>8, <2>10 DEF JumpDone, JumpTodo
    <3>5. \A k \in f.nets : \A m \in PeersOf(np[p], k) : PeerTodo("peers", g, p, k, m)
      BY <1>1, <2>1, <2>7, <2>8 DEF PeerTodo
    <3>6. \A o \in Policies, k \in Networks : Imposes(np, o, k) /\ ln[k] \in Subnets =>
           /\ LinkTodo(pc[w], f, k) => LinkDone(t, ln, Pending, k) \/ LinkTodo("peers", g, k)
           /\ JumpTodo(pc[w], f, o, k) =>
                JumpDone(t, Pending, o, k) \/ JumpTodo("peers", g, o, k)
           /\ \A m \in PeersOf(np[o], k) : ln[m] \in Subnets =>
                (PeerTodo(pc[w], f, o, k, m) =>
                   PeerDone(t, ln, Pending, o, k, m) \/ PeerTodo("peers", g, o, k, m))
      BY <1>4, <3>4, <3>5
    <3> QED  BY <1>1, <1>2, <2>1, <2>10, <3>1, <3>2, <3>3, <3>6, FullerE
  <2> QED  BY <2>6, <2>9, <2>10
<1> QED  BY <1>6, <1>7 DEF populatePolicyChain

\* Its peers.
LEMMA PeersE ==
  ASSUME IInv, ChainInv, GInv, EInv, NEW w \in Workers, populatePeers(w)
  PROVE  EInv'
<1> DEFINE f == frame[w]
           p == f.item.name
<1>1. /\ pc[w] = "peers" /\ pc[w] \in Inside /\ pc[w] \in AtPolicy /\ pc[w] \in Adding
      /\ "populate" \in Inside /\ "populate" \in Adding
  BY DEF populatePeers, Inside, AtPolicy, Adding
<1>2. /\ TypeOK /\ f \in Frames /\ p \in Policies /\ f.item.kind = "networkpolicy"
  BY <1>1, FoundG, ItemKinds DEF Fits
<1>3. /\ Justified(iptable, np, ln)
      /\ f.ann = np[p] /\ Parsable(np[p]) /\ PolicyChain(p) \in iptable.chains
      /\ f.nets \subseteq Selectors(np[p])
      /\ f.cur \in Selectors(np[p]) /\ f.peers \subseteq PeersOf(np[p], f.cur)
  BY <1>1, <1>2, FoundE DEF Knows, Serves, HandlesPolicy
<1>4. ASSUME NEW r \in Policies, NEW n, NEW m
      PROVE  /\ ~LinkTodo(pc[w], f, n)
             /\ JumpTodo(pc[w], f, r, n) => r = p /\ n \in f.nets
             /\ PeerTodo(pc[w], f, r, n, m) => r = p /\ (n \in f.nets \/ m \in f.peers)
  BY <1>1 DEF LinkTodo, JumpTodo, PeerTodo, WillMake, HandlesPolicy, AtChain
<1>5. ASSUME NEW to \in {"populate", "peers"}, NEW g, g.item = f.item, g.nets = f.nets,
             NEW n \in f.nets, NEW m
      PROVE  JumpTodo(to, g, p, n) /\ PeerTodo(to, g, p, n, m)
  BY <1>1, <1>2, <1>5 DEF JumpTodo, PeerTodo, HandlesPolicy
<1>6. CASE f.peers = {} /\ Step(w, "populate", f, iptable)
  <2>1. Knows("populate", f, iptable, np, ln)  BY <1>3, KnowsPolicy
  <2>2. Fuller(iptable, iptable)  BY DEF Fuller
  <2> QED  BY <1>1, <1>2, <1>3, <1>4, <1>5, <1>6, <2>1, <2>2, FullerE
<1>7. ASSUME NEW k \in f.peers,
             Step(w, "peers", [f EXCEPT !.peers = f.peers \ {k}], AcceptPeer(p, k))
      PROVE  EInv'
  <2> DEFINE g == [f EXCEPT !.peers = f.peers \ {k}]
             t == AcceptPeer(p, k)
  <2>1. /\ g.item = f.item /\ g.nets = f.nets /\ g.cur = f.cur /\ g.ann = f.ann
        /\ g.peers = f.peers \ {k}
    BY <1>2 DEF Frames
  <2>2. Imposes(np, p, f.cur) /\ k \in PeersOf(np[p], f.cur)  BY <1>3 DEF Imposes
  <2>3. /\ Justified(t, np, ln) /\ Fuller(iptable, t) /\ t.chains = iptable.chains
        /\ ln[k] \in Subnets =>
             \A d \in {"-s", "-d"} : In(t.rules[PolicyChain(p)], Rule(d, ln[k], Accept))
    BY <1>2, <1>3, <2>2, PeerJust
  <2>4. Step(w, "peers", g, t)  BY <1>7
  <2> HIDE DEF g, t
  <2>5. Knows("peers", g, t, np, ln)  BY <1>3, <2>1, <2>3, KnowsPolicy
  <2>6. ASSUME NEW n, NEW m \in f.peers, ln[m] \in Subnets
        PROVE  PeerDone(t, ln, Pending, p, n, m) \/ PeerTodo("peers", g, p, n, m)
    <3>1. CASE m = k  BY <2>3, <2>6, <3>1 DEF PeerDone
    <3>2. CASE m # k
      <4>1. m \in g.peers /\ HandlesPolicy("peers", g, p)
        BY <1>1, <1>2, <2>1, <3>2 DEF HandlesPolicy
      <4> QED  BY <4>1 DEF PeerTodo
    <3> QED  BY <3>1, <3>2
  <2>7. \A r \in Policies, n \in Networks : Imposes(np, r, n) /\ ln[n] \in Subnets =>
           /\ LinkTodo(pc[w], f, n) => LinkDone(t, ln, Pending, n) \/ LinkTodo("peers", g, n)
           /\ JumpTodo(pc[w], f, r, n) =>
                JumpDone(t, Pending, r, n) \/ JumpTodo("peers", g, r, n)
           /\ \A m \in PeersOf(np[r], n) : ln[m] \in Subnets =>
                (PeerTodo(pc[w], f, r, n, m) =>
                   PeerDone(t, ln, Pending, r, n, m) \/ PeerTodo("peers", g, r, n, m))
    BY <1>4, <1>5, <2>1, <2>6
  <2> QED  BY <1>1, <1>2, <2>1, <2>3, <2>4, <2>5, <2>7, FullerE
<1> QED  BY <1>6, <1>7 DEF populatePeers
-----------------------------------------------------------------------------
\* The same policy is served from the same local variables.
Carries(f, g) ==
  g.item = f.item /\ g.ann = f.ann /\ g.nets = f.nets /\ g.cur = f.cur /\ g.peers = f.peers

\* What is known of the policy that is served is carried along.
LEMMA ServesOn ==
  ASSUME NEW l, l \in Adding, l # "populate", NEW f, NEW t, NEW a, Serves(l, f, t, a),
         NEW to, to \in Adding \ {"networkAdd"} \/ to \notin Adding, NEW g, Carries(f, g),
         NEW u, t.chains \subseteq u.chains
  PROVE  Serves(to, g, u, a)
BY DEF Serves, HandlesPolicy, Carries

\* What is left to do for the policy that is served.
LEMMA TodoOn ==
  ASSUME NEW l, NEW f, NEW p, HandlesPolicy(l, f, p),
         NEW to, NEW g, Carries(f, g), to \in Adding
  PROVE  /\ \A n \in f.nets : JumpTodo(to, g, p, n) /\ \A m : PeerTodo(to, g, p, n, m)
         /\ to \notin {"populate", "networkAdd"} =>
              \A n : \A m \in f.peers : PeerTodo(to, g, p, n, m)
BY DEF HandlesPolicy, JumpTodo, PeerTodo, Carries

\* What ListNetworkPolicies tells of a network.
LEMMA Listed ==
  ASSUME TypeOK, NEW n \in Networks, NEW x \in ListNetworkPolicies(n)
  PROVE  /\ x.policy \in Policies /\ Imposes(np, x.policy, x.via)
         /\ x.via = n => x.peers = PeersOf(np[x.policy], n)
         /\ x.via # n => n \in PeersOf(np[x.policy], x.via)
<1>1. PICK p \in Policies : /\ Parsable(np[p])
                            /\ x \in IF n \in Selectors(np[p])
                                     THEN {[policy |-> p, via |-> n, peers |-> PeersOf(np[p], n)]}
                                     ELSE {[policy |-> p, via |-> s, peers |-> {}] :
                                             s \in {y \in Selectors(np[p]) : n \in PeersOf(np[p], y)}}
  BY DEF ListNetworkPolicies
<1>2. CASE n \in Selectors(np[p])
  <2>1. x = [policy |-> p, via |-> n, peers |-> PeersOf(np[p], n)]  BY <1>1, <1>2
  <2> QED  BY <1>1, <1>2, <2>1 DEF Imposes
<1>3. CASE n \notin Selectors(np[p])
  <2>1. PICK s \in Selectors(np[p]) :
          n \in PeersOf(np[p], s) /\ x = [policy |-> p, via |-> s, peers |-> {}]
    BY <1>1, <1>3
  <2> QED  BY <1>1, <1>3, <2>1 DEF Imposes
<1> QED  BY <1>2, <1>3

\* ListNetworkPolicies finds the policy that selects a network, and under a peer
\* the policies that have it.
LEMMA ListedAll ==
  ASSUME TypeOK, Apart, GInv, NEW p \in Policies, NEW n \in Networks, Imposes(np, p, n)
  PROVE  /\ \E x \in ListNetworkPolicies(n) : x.policy = p /\ x.via = n
         /\ \A m \in PeersOf(np[p], n) :
              \E x \in ListNetworkPolicies(m) : x.policy = p /\ x.via = n /\ x.via # m
<1>1. Parsable(np[p]) /\ n \in Selectors(np[p])  BY DEF Imposes
<1>2. [policy |-> p, via |-> n, peers |-> PeersOf(np[p], n)] \in ListNetworkPolicies(n)
  BY <1>1 DEF ListNetworkPolicies
<1>3. ASSUME NEW m \in PeersOf(np[p], n)
      PROVE  [policy |-> p, via |-> n, peers |-> {}] \in ListNetworkPolicies(m) /\ n # m
  <2>1. m \notin Selectors(np[p])
    <3>1. m \in Selectors(np[p]) => Imposes(np, p, m)  BY <1>1 DEF Imposes
    <3> QED  BY <3>1, Selected
  <2>2. n \in {y \in Selectors(np[p]) : m \in PeersOf(np[p], y)}  BY <1>1
  <2> QED  BY <1>1, <2>1, <2>2 DEF ListNetworkPolicies
<1> QED  BY <1>2, <1>3

\* handleLogicalNetworkAdd reads the network, or gives up if there is none.
LEMMA NetworkAddE ==
  ASSUME IInv, ChainInv, GInv, EInv, NEW w \in Workers, handleLogicalNetworkAdd(w)
  PROVE  EInv'
<1> DEFINE f == frame[w]
           c == f.cur
           l == pc[w]
<1>1. /\ l = "networkAdd" /\ l \in Inside /\ l \in AtNetwork /\ l \in Adding
      /\ {"returned", "populate", "networkList"} \subseteq Inside
      /\ {"populate", "networkList"} \subseteq Adding /\ "returned" \notin Adding
      /\ "networkList" \in AtSubnet /\ "networkList" \notin AtInfos
      /\ "networkList" \notin AtChain \cup {"networkPeers"}
  BY DEF handleLogicalNetworkAdd, Inside, Handlers, AtNetwork, Adding, AtSubnet, AtInfos, AtChain
<1>2. TypeOK /\ f \in Frames /\ c \in Networks  BY <1>1, FoundG DEF Fits
<1>3. /\ Justified(iptable, np, ln) /\ Due(l, f, iptable, np, ln, Pending)
      /\ Serves(l, f, iptable, np)
      /\ f.item.kind = "logicalnetwork" => c = f.item.name
  BY <1>1, FoundE DEF Knows
<1> DEFINE Q == Pending'
<1>4. ASSUME NEW to, NEW g, NEW t, Step(w, to, g, t)
      PROVE  /\ \A n \in Networks : n # c /\ NAdd(n) \in Pending => NAdd(n) \in Q
             /\ \A p \in Policies : PAdd(p) \in Pending => PAdd(p) \in Q
  <2>1. f.item.kind \in {"networkpolicy", "logicalnetwork"}
    BY <1>1, FoundG, ItemKinds DEF Fits, Inside, Handlers, Kinds
  <2>2. f.item.kind = "networkpolicy" => Pending \subseteq Q  BY <1>1, <1>4, StepKeys
  <2>3. /\ \A n \in Networks : NAdd(n) \in Pending => NAdd(n) \in Q \/ n = f.item.name
        /\ \A p \in Policies : PAdd(p) \in Pending => PAdd(p) \in Q
    BY <1>1, <1>4, StepKeys
  <2> QED  BY <1>3, <2>1, <2>2, <2>3
<1> HIDE DEF Q
<1>5. Fuller(iptable, iptable)  BY DEF Fuller
\* What does not hang on the network itself is done or to do as before.
<1>6. ASSUME NEW to \in {"returned", "populate", "networkList"}, NEW g, Step(w, to, g, iptable),
             NEW p \in Policies, NEW n \in Networks, Imposes(np, p, n), ln[n] \in Subnets,
             Carries(f, g), to = "returned" => f.item.kind = "logicalnetwork"
      PROVE  /\ n # c => LinkDone(iptable, ln, Q, n)
             /\ n # c => JumpDone(iptable, Q, p, n) \/ JumpTodo(to, g, p, n)
             /\ \A m \in PeersOf(np[p], n) : ln[m] \in Subnets /\ n # c /\ m # c =>
                  PeerDone(iptable, ln, Q, p, n, m) \/ PeerTodo(to, g, p, n, m)
  <2>1. PeersOf(np[p], n) \subseteq Networks  BY <1>2, <1>6, ImposesTypes
  <2>2. /\ n # c /\ NAdd(n) \in Pending => NAdd(n) \in Q
        /\ PAdd(p) \in Pending => PAdd(p) \in Q
        /\ \A m \in PeersOf(np[p], n) : m # c /\ NAdd(m) \in Pending => NAdd(m) \in Q
    BY <1>4, <1>6, <2>1
  <2>3. /\ LinkDone(iptable, ln, Pending, n) \/ LinkTodo(l, f, n)
        /\ JumpDone(iptable, Pending, p, n) \/ JumpTodo(l, f, p, n)
        /\ \A m \in PeersOf(np[p], n) : ln[m] \in Subnets =>
             PeerDone(iptable, ln, Pending, p, n, m) \/ PeerTodo(l, f, p, n, m)
    BY <1>3, <1>6 DEF Due
  <2>4. /\ ~LinkTodo(l, f, n)
        /\ JumpTodo(l, f, p, n) => n = c \/ (HandlesPolicy(l, f, p) /\ n \in f.nets)
        /\ \A m : PeerTodo(l, f, p, n, m) => n = c \/ (HandlesPolicy(l, f, p) /\ n \in f.nets)
    BY <1>1 DEF LinkTodo, JumpTodo, PeerTodo, WillMake, AtChain
  <2>5. HandlesPolicy(l, f, p) => to \in Adding  BY <1>1, <1>6 DEF HandlesPolicy
  <2>6. HandlesPolicy(l, f, p) /\ n \in f.nets =>
          JumpTodo(to, g, p, n) /\ \A m : PeerTodo(to, g, p, n, m)
    BY <1>6, <2>5, TodoOn
  <2>7. n # c => LinkDone(iptable, ln, Q, n)  BY <1>5, <2>2, <2>3, <2>4, DoneStays
  <2>8. n # c => JumpDone(iptable, Q, p, n) \/ JumpTodo(to, g, p, n)
    BY <1>5, <2>2, <2>3, <2>4, <2>6, DoneStays
  <2>9. ASSUME NEW m \in PeersOf(np[p], n), ln[m] \in Subnets, n # c, m # c
        PROVE  PeerDone(iptable, ln, Q, p, n, m) \/ PeerTodo(to, g, p, n, m)
    <3>1. {NAdd(m), NAdd(n), PAdd(p)} \cap Pending \subseteq Q  BY <2>2, <2>9
    <3>2. PeerDone(iptable, ln, Pending, p, n, m) => PeerDone(iptable, ln, Q, p, n, m)
      BY <1>5, <3>1, DoneStays
    <3> QED  BY <2>3, <2>4, <2>6, <2>9, <3>2
  <2> QED  BY <2>7, <2>8, <2>9
<1>7. ASSUME NEW to, NEW g, Step(w, to, g, iptable)
      PROVE  \A p \in Policies : Parsable(np[p]) => PAdd(p) \in Q \/ PolicyChain(p) \in iptable.chains
  BY <1>3, <1>4, <1>7 DEF Due
<1>8. CASE ln[c] = Absent /\ Step(w, Failed(w), f, iptable)
  <2> DEFINE to == Failed(w)
  <2>1. /\ to \in {"returned", "populate"}
        /\ to = "returned" <=> f.item.kind # "networkpolicy"
    BY DEF Failed, Nested
  <2>2. f.item.kind \in {"networkpolicy", "logicalnetwork"}
    BY <1>1, FoundG, ItemKinds DEF Fits, Inside, Handlers, Kinds
  <2> HIDE DEF to
  <2>3. Step(w, to, f, iptable) /\ Carries(f, f)  BY <1>8 DEF to, Carries
  <2>4. \A n : ln[n] \in Subnets => n # c  BY <1>8, ConstantsAssumption
  <2>5. Due(to, f, iptable, np, ln, Q)  BY <1>6, <1>7, <2>1, <2>2, <2>3, <2>4 DEF Due
  <2>6. Knows(to, f, iptable, np, ln)
    <3>1. to # "returned" => HandlesPolicy(l, f, f.item.name) /\ f.item.name \in Policies
      BY <1>1, <2>1, FoundG, ItemKinds DEF HandlesPolicy, Fits, Inside, Handlers
    <3> QED  BY <1>3, <2>1, <3>1, KnowsPolicy DEF Serves
  <2> QED  BY <1>1, <1>3, <2>1, <2>3, <2>5, <2>6, StepE DEF Q
<1>9. CASE ln[c] # Absent /\ Step(w, "networkList", [f EXCEPT !.subnet = ln[c]], iptable)
  <2> DEFINE g == [f EXCEPT !.subnet = ln[c]]
             to == "networkList"
  <2>1. Carries(f, g) /\ g.subnet = ln[c] /\ g.item = f.item /\ g.cur = c
    BY <1>2 DEF Frames, Carries
  <2>2. Step(w, to, g, iptable)  BY <1>9
  <2> HIDE DEF g
  <2>3. ASSUME NEW p \in Policies, NEW n \in Networks, Imposes(np, p, n), ln[n] \in Subnets
        PROVE  /\ LinkDone(iptable, ln, Q, n) \/ LinkTodo(to, g, n)
               /\ JumpDone(iptable, Q, p, n) \/ JumpTodo(to, g, p, n)
               /\ \A m \in PeersOf(np[p], n) : ln[m] \in Subnets =>
                    PeerDone(iptable, ln, Q, p, n, m) \/ PeerTodo(to, g, p, n, m)
    <3>1. /\ n = c => LinkTodo(to, g, n) /\ JumpTodo(to, g, p, n)
          /\ \A m : n = c \/ m = c => PeerTodo(to, g, p, n, m)
      BY <2>1 DEF LinkTodo, JumpTodo, PeerTodo, WillMake
    <3>2. /\ n # c => LinkDone(iptable, ln, Q, n)
          /\ n # c => JumpDone(iptable, Q, p, n) \/ JumpTodo(to, g, p, n)
          /\ \A m \in PeersOf(np[p], n) : ln[m] \in Subnets /\ n # c /\ m # c =>
               PeerDone(iptable, ln, Q, p, n, m) \/ PeerTodo(to, g, p, n, m)
      BY <1>6, <2>1, <2>2, <2>3
    <3> QED  BY <3>1, <3>2
  <2>4. Due(to, g, iptable, np, ln, Q)  BY <1>7, <2>2, <2>3 DEF Due
  <2>5. Knows(to, g, iptable, np, ln)
    <3>1. Serves(to, g, iptable, np)  BY <1>1, <1>3, <2>1, ServesOn
    <3> QED  BY <1>1, <2>1, <3>1 DEF Knows
  <2> QED  BY <1>1, <1>3, <2>1, <2>2, <2>4, <2>5, StepE DEF Q
<1> QED  BY <1>8, <1>9 DEF handleLogicalNetworkAdd

\* The policies that are listed are those to see to.
LEMMA ListE ==
  ASSUME IInv, ChainInv, GInv, EInv, Apart, NEW w \in Workers, listPoliciesForAdd(w)
  PROVE  EInv'
<1> DEFINE f == frame[w]
           c == f.cur
           l == pc[w]
           to == "networkPolicies"
           g == [f EXCEPT !.infos = ListNetworkPolicies(c)]
<1>1. /\ l = "networkList" /\ l \in Inside /\ l \in AtNetwork /\ l \in Adding /\ l \in AtSubnet
      /\ to \in Inside /\ to \in Adding /\ to \in AtSubnet /\ to \notin AtChain \cup {"networkPeers"}
  BY DEF listPoliciesForAdd, Inside, AtNetwork, Adding, AtSubnet, AtChain
<1>2. TypeOK /\ f \in Frames /\ c \in Networks  BY <1>1, FoundG DEF Fits
<1>3. /\ Justified(iptable, np, ln) /\ f.subnet = ln[c] /\ Serves(l, f, iptable, np)
  BY <1>1, FoundE DEF Knows
<1>4. /\ Carries(f, g) /\ g.subnet = f.subnet /\ g.infos = ListNetworkPolicies(c)
      /\ g.item = f.item /\ g.cur = c
  BY <1>2 DEF Frames, Carries
<1>5. Step(w, to, g, iptable)  BY DEF listPoliciesForAdd
<1> HIDE DEF g
<1>6. Knows(to, g, iptable, np, ln)
  <2>1. Serves(to, g, iptable, np)  BY <1>1, <1>3, <1>4, ServesOn
  <2>2. \A x \in g.infos : /\ Imposes(np, x.policy, x.via)
                           /\ x.via = c => x.peers = PeersOf(np[x.policy], c)
                           /\ x.via # c => c \in PeersOf(np[x.policy], x.via)
    BY <1>2, <1>4, Listed
  <2> QED  BY <1>1, <1>3, <1>4, <2>1, <2>2 DEF Knows
<1>7. Fuller(iptable, iptable)  BY DEF Fuller
<1>8. ASSUME NEW p \in Policies, NEW n \in Networks, Imposes(np, p, n)
      PROVE  /\ LinkTodo(l, f, n) => LinkTodo(to, g, n)
             /\ JumpTodo(l, f, p, n) => JumpTodo(to, g, p, n)
             /\ \A m \in PeersOf(np[p], n) : PeerTodo(l, f, p, n, m) => PeerTodo(to, g, p, n, m)
  <2>1. \E x \in ListNetworkPolicies(n) : x.policy = p /\ x.via = n  BY <1>2, <1>8, ListedAll
  <2>2. \A m \in PeersOf(np[p], n) :
          \E x \in ListNetworkPolicies(m) : x.policy = p /\ x.via = n /\ x.via # m
    BY <1>2, <1>8, ListedAll
  <2>3. c = n => WillMake(to, g, n)  BY <1>4, <2>1 DEF WillMake
  <2>4. /\ LinkTodo(l, f, n) => c = n
        /\ JumpTodo(l, f, p, n) => c = n \/ (HandlesPolicy(l, f, p) /\ n \in f.nets)
        /\ \A m : PeerTodo(l, f, p, n, m) =>
             c = n \/ c = m \/ (HandlesPolicy(l, f, p) /\ (n \in f.nets \/ m \in f.peers))
    BY <1>1 DEF LinkTodo, JumpTodo, PeerTodo, WillMake, AtChain
  <2>5. \A m \in PeersOf(np[p], n) : c = n \/ c = m => PeerTodo(to, g, p, n, m)
    <3>1. c = n => \E x \in g.infos : x.policy = p /\ x.via = n  BY <1>4, <2>1
    <3>2. \A m \in PeersOf(np[p], n) : c = m => \E x \in g.infos : x.policy = p /\ x.via # m
      BY <1>4, <2>2
    <3> QED  BY <1>4, <3>1, <3>2 DEF PeerTodo
  <2>6. HandlesPolicy(l, f, p) =>
          /\ n \in f.nets => JumpTodo(to, g, p, n) /\ \A m : PeerTodo(to, g, p, n, m)
          /\ \A m \in f.peers : PeerTodo(to, g, p, n, m)
    BY <1>1, <1>4, TodoOn
  <2>7. c = n => LinkTodo(to, g, n) /\ JumpTodo(to, g, p, n)  BY <2>3 DEF LinkTodo, JumpTodo
  <2> QED  BY <2>4, <2>5, <2>6, <2>7
<1> QED  BY <1>1, <1>3, <1>4, <1>5, <1>6, <1>7, <1>8, FullerE

\* One policy of those listed: the chain of the network is flushed, or the
\* network is accepted as a peer.
LEMMA NetworkLoopE ==
  ASSUME IInv, ChainInv, GInv, EInv, Apart, NEW w \in Workers,
         handleLogicalNetworkAddPolicies(w)
  PROVE  EInv'
<1> DEFINE f == frame[w]
           c == f.cur
           l == pc[w]
<1>1. /\ l = "networkPolicies" /\ l \in Inside /\ l \in AtNetwork /\ l \in Adding
      /\ l \in AtSubnet /\ l \in AtInfos /\ l \notin AtChain \cup {"networkPeers"}
      /\ {"returned", "peers", "close"} \subseteq Inside
      /\ {"peers", "close"} \subseteq Adding /\ "returned" \notin Adding
      /\ "close" \in AtSubnet /\ "close" \in AtInfos /\ "close" \in AtChain
      /\ l # "impose"
  BY DEF handleLogicalNetworkAddPolicies, Inside, AtNetwork, Adding, AtSubnet, AtInfos, AtChain
<1>2. /\ TypeOK /\ Sound(iptable) /\ iptable \in Tables /\ f \in Frames /\ c \in Networks
      /\ f.subnet \in Subnets \cup {Blank} /\ f.infos \subseteq Infos
      /\ f.item.kind \in {"networkpolicy", "logicalnetwork"}
  BY <1>1, FoundG, ItemKinds DEF Fits, Frames, Inside, Handlers, Kinds
<1>3. /\ Justified(iptable, np, ln) /\ Due(l, f, iptable, np, ln, Pending)
      /\ f.subnet = ln[c] /\ Serves(l, f, iptable, np)
      /\ \A x \in f.infos : /\ Imposes(np, x.policy, x.via)
                            /\ x.via = c => x.peers = PeersOf(np[x.policy], c)
                            /\ x.via # c => c \in PeersOf(np[x.policy], x.via)
  BY <1>1, FoundE DEF Knows
<1>4. \A x \in f.infos : x.policy \in Policies /\ x.via \in Networks  BY <1>2 DEF Infos
<1>5. ASSUME NEW p, NEW n
      PROVE  /\ LinkTodo(l, f, n) => c = n /\ \E x \in f.infos : x.via = n
             /\ JumpTodo(l, f, p, n) => \/ c = n /\ \E x \in f.infos : x.via = n
                                        \/ HandlesPolicy(l, f, p) /\ n \in f.nets
             /\ \A m : PeerTodo(l, f, p, n, m) =>
                  \/ c = n /\ \E x \in f.infos : x.policy = p /\ x.via = n
                  \/ c = m /\ \E x \in f.infos : x.policy = p /\ x.via # m
                  \/ HandlesPolicy(l, f, p) /\ (n \in f.nets \/ m \in f.peers)
  BY <1>1 DEF LinkTodo, JumpTodo, PeerTodo, WillMake, AtChain
<1>6. ASSUME NEW p, HandlesPolicy(l, f, p),
             NEW to \in {"peers", "close", "networkPolicies"}, NEW g, Carries(f, g)
      PROVE  /\ \A n \in f.nets : JumpTodo(to, g, p, n) /\ \A m : PeerTodo(to, g, p, n, m)
             /\ \A n : \A m \in f.peers : PeerTodo(to, g, p, n, m)
  BY <1>1, <1>6, TodoOn
<1>7. CASE f.infos = {} /\ Step(w, Succeeded(w), f, iptable)
  <2> DEFINE to == Succeeded(w)
  <2>1. /\ to \in {"returned", "peers"}
        /\ to = "returned" <=> f.item.kind # "networkpolicy"
    BY DEF Succeeded, Nested
  <2>2. Step(w, to, f, iptable) /\ Carries(f, f)  BY <1>7 DEF Carries
  <2> HIDE DEF to
  <2>3. Knows(to, f, iptable, np, ln)
    <3>1. to # "returned" => HandlesPolicy(l, f, f.item.name) /\ f.item.name \in Policies
      BY <1>1, <2>1, FoundG, ItemKinds DEF HandlesPolicy, Fits, Inside, Handlers
    <3> QED  BY <1>1, <1>3, <2>1, <3>1, KnowsPolicy DEF Serves
  <2>4. Fuller(iptable, iptable)  BY DEF Fuller
  <2>5. \A p : HandlesPolicy(l, f, p) => to = "peers"  BY <2>1 DEF HandlesPolicy
  <2>6. \A p \in Policies, n \in Networks :
          /\ ~LinkTodo(l, f, n)
          /\ JumpTodo(l, f, p, n) => JumpTodo(to, f, p, n)
          /\ \A m : PeerTodo(l, f, p, n, m) => PeerTodo(to, f, p, n, m)
    BY <1>5, <1>6, <1>7, <2>2, <2>5
  <2> QED  BY <1>1, <1>3, <2>1, <2>2, <2>3, <2>4, <2>6, FullerE
<1>8. ASSUME NEW info \in f.infos, info.via = c,
             Step(w, "close", [f EXCEPT !.infos = f.infos \ {info}, !.policy = info.policy,
                                        !.lpeers = info.peers],
                  ClearChain(iptable, NetworkChain(c)))
      PROVE  EInv'
  <2> DEFINE to == "close"
             g == [f EXCEPT !.infos = f.infos \ {info}, !.policy = info.policy,
                            !.lpeers = info.peers]
             t == ClearChain(iptable, NetworkChain(c))
             r == info.policy
             Q == Pending'
  <2>1. /\ Carries(f, g) /\ g.item = f.item /\ g.cur = c /\ g.subnet = f.subnet
        /\ g.infos \subseteq f.infos /\ g.policy = r /\ g.lpeers = info.peers
    BY <1>2 DEF Frames, Carries
  <2>2. r \in Policies /\ Imposes(np, r, c) /\ info.peers = PeersOf(np[r], c)
    BY <1>3, <1>4, <1>8
  <2>3. /\ Elsewhere(iptable, t, NetworkChain(c)) /\ t.rules[NetworkChain(c)] = << >>
        /\ t.chains = iptable.chains \cup {NetworkChain(c)}
    BY <1>2, ChainKinds, ClearEffect, ClearChainType
  <2>4. Step(w, to, g, t)  BY <1>8
  <2>5. Pending \subseteq Q  BY <1>1, <2>4, StepKeys
  <2> HIDE DEF g, t, Q
  <2>6. Justified(t, np, ln)
    <3>1. \A x : In(t.rules[NetworkChain(c)], x) =>
            \/ In(iptable.rules[NetworkChain(c)], x)
            \/ x = Jump(PolicyChain(r)) \/ x = Jump(Reject)
      BY <2>3, EmptyIn
    <3> QED  BY <1>2, <1>3, <2>2, <2>3, <3>1, JustNetwork
  <2>7. Knows(to, g, t, np, ln)
    <3>1. Serves(to, g, t, np)  BY <1>1, <1>3, <2>1, <2>3, ServesOn
    <3> QED  BY <1>1, <1>3, <2>1, <2>2, <2>3, <3>1 DEF Knows
  <2>8. /\ t.rules[BaseChain] = iptable.rules[BaseChain]
        /\ \A n \in Networks : n # c =>
             /\ t.rules[NetworkChain(n)] = iptable.rules[NetworkChain(n)]
             /\ NetworkChain(n) \in t.chains => NetworkChain(n) \in iptable.chains
        /\ \A p \in Policies : t.rules[PolicyChain(p)] = iptable.rules[PolicyChain(p)]
    BY <1>2, <2>3, ChainKinds, ChainsApart DEF Elsewhere
  <2>9. ASSUME NEW p \in Policies, NEW n \in Networks, Imposes(np, p, n), ln[n] \in Subnets
        PROVE  /\ LinkDone(t, ln, Q, n) \/ LinkTodo(to, g, n)
               /\ JumpDone(t, Q, p, n) \/ JumpTodo(to, g, p, n)
               /\ \A m \in PeersOf(np[p], n) : ln[m] \in Subnets =>
                    PeerDone(t, ln, Q, p, n, m) \/ PeerTodo(to, g, p, n, m)
    <3>1. /\ LinkDone(iptable, ln, Pending, n) \/ LinkTodo(l, f, n)
          /\ JumpDone(iptable, Pending, p, n) \/ JumpTodo(l, f, p, n)
          /\ \A m \in PeersOf(np[p], n) : ln[m] \in Subnets =>
               PeerDone(iptable, ln, Pending, p, n, m) \/ PeerTodo(l, f, p, n, m)
      BY <1>3, <2>9 DEF Due
    <3>2. n = c => p = r  BY <2>2, <2>9, Selected
    <3>3. c \notin PeersOf(np[p], n)  BY <2>2, <2>9, Selected
    <3>4. n = c => LinkTodo(to, g, n) /\ JumpTodo(to, g, p, n)
      BY <1>1, <2>1 DEF LinkTodo, JumpTodo
    <3>5. n # c => /\ LinkDone(iptable, ln, Pending, n) => LinkDone(t, ln, Q, n)
                   /\ JumpDone(iptable, Pending, p, n) => JumpDone(t, Q, p, n)
      BY <2>5, <2>8 DEF LinkDone, JumpDone
    <3>6. \A m : PeerDone(iptable, ln, Pending, p, n, m) => PeerDone(t, ln, Q, p, n, m)
      BY <2>5, <2>8 DEF PeerDone
    <3>7. n = c => \A m \in PeersOf(np[p], n) : PeerTodo(to, g, p, n, m)
      BY <1>1, <2>1, <2>2, <3>2 DEF PeerTodo
    <3>8. HandlesPolicy(l, f, p) =>
            /\ n \in f.nets => JumpTodo(to, g, p, n) /\ \A m : PeerTodo(to, g, p, n, m)
            /\ \A m \in f.peers : PeerTodo(to, g, p, n, m)
      BY <1>6, <2>1
    <3>9. /\ LinkDone(t, ln, Q, n) \/ LinkTodo(to, g, n)
          /\ JumpDone(t, Q, p, n) \/ JumpTodo(to, g, p, n)
      BY <1>5, <3>1, <3>4, <3>5, <3>8
    <3>10. \A m \in PeersOf(np[p], n) : ln[m] \in Subnets =>
             PeerDone(t, ln, Q, p, n, m) \/ PeerTodo(to, g, p, n, m)
      BY <1>5, <3>1, <3>3, <3>6, <3>7, <3>8
    <3> QED  BY <3>9, <3>10
  <2>10. \A p \in Policies : Parsable(np[p]) => PAdd(p) \in Q \/ PolicyChain(p) \in t.chains
    BY <1>3, <2>3, <2>5 DEF Due
  <2>11. Due(to, g, t, np, ln, Q)  BY <2>9, <2>10 DEF Due
  <2> QED  BY <1>1, <2>1, <2>4, <2>6, <2>7, <2>11, StepE DEF Q
<1>9. ASSUME NEW info \in f.infos, info.via # c,
             Step(w, "networkPolicies", [f EXCEPT !.infos = f.infos \ {info}],
                  insertPeerRule(iptable, info.policy, f.subnet))
      PROVE  EInv'
  <2> DEFINE g == [f EXCEPT !.infos = f.infos \ {info}]
             r == info.policy
             t == insertPeerRule(iptable, r, f.subnet)
  <2>1. /\ Carries(f, g) /\ g.item = f.item /\ g.cur = c /\ g.subnet = f.subnet
        /\ g.infos = f.infos \ {info}
    BY <1>2 DEF Frames, Carries
  <2>2. r \in Policies /\ Imposes(np, r, info.via) /\ c \in PeersOf(np[r], info.via)
    BY <1>3, <1>4, <1>9
  <2>3. Justified(t, np, ln)  BY <1>2, <1>3, <2>2, PeerJust
  <2>4. /\ t.chains = iptable.chains /\ Fuller(iptable, t)
        /\ PolicyChain(r) \in iptable.chains /\ ln[c] \in Subnets =>
             \A d \in {"-s", "-d"} : In(t.rules[PolicyChain(r)], Rule(d, ln[c], Accept))
    BY <1>2, <1>3, <2>2, AcceptE
  <2>5. Step(w, l, g, t)  BY <1>1, <1>9
  <2> HIDE DEF g, t
  <2>6. Knows(l, g, t, np, ln)
    <3>1. Serves(l, g, t, np)  BY <1>1, <1>3, <2>1, <2>4, ServesOn
    <3> QED  BY <1>1, <1>3, <2>1, <3>1 DEF Knows
  <2>7. ASSUME NEW p \in Policies, NEW n \in Networks, Imposes(np, p, n), ln[n] \in Subnets
        PROVE  /\ LinkTodo(l, f, n) => LinkTodo(l, g, n)
               /\ JumpTodo(l, f, p, n) => JumpTodo(l, g, p, n)
               /\ \A m \in PeersOf(np[p], n) : ln[m] \in Subnets =>
                    (PeerTodo(l, f, p, n, m) =>
                       PeerDone(t, ln, Pending, p, n, m) \/ PeerTodo(l, g, p, n, m))
    <3>1. c = n /\ (\E x \in f.infos : x.via = n) => WillMake(l, g, n)
      BY <1>1, <1>9, <2>1 DEF WillMake
    <3>2. WillMake(l, g, n) => LinkTodo(l, g, n) /\ JumpTodo(l, g, p, n)
      BY DEF LinkTodo, JumpTodo
    <3>3. HandlesPolicy(l, f, p) =>
            /\ n \in f.nets => JumpTodo(l, g, p, n) /\ \A m : PeerTodo(l, g, p, n, m)
            /\ \A m \in f.peers : PeerTodo(l, g, p, n, m)
      BY <1>1, <1>6, <2>1
    <3>4. ASSUME NEW m, c = n, \E x \in f.infos : x.policy = p /\ x.via = n
          PROVE  PeerTodo(l, g, p, n, m)
      <4>1. \E x \in g.infos : x.policy = p /\ x.via = n  BY <1>9, <2>1, <3>4
      <4> QED  BY <1>1, <2>1, <3>4, <4>1 DEF PeerTodo
    <3>5. ASSUME NEW m, c = m, ln[m] \in Subnets,
                 NEW x \in f.infos, x.policy = p, x.via # m
          PROVE  PeerDone(t, ln, Pending, p, n, m) \/ PeerTodo(l, g, p, n, m)
      <4>1. CASE x # info
        <5>1. x \in g.infos  BY <2>1, <4>1
        <5> QED  BY <1>1, <2>1, <3>5, <5>1 DEF PeerTodo
      <4>2. CASE x = info
        <5>1. p = r /\ Parsable(np[p])  BY <2>7, <3>5, <4>2 DEF Imposes
        <5>2. PAdd(p) \in Pending \/ PolicyChain(p) \in iptable.chains  BY <1>3, <5>1 DEF Due
        <5> QED  BY <2>4, <3>5, <5>1, <5>2 DEF PeerDone
      <4> QED  BY <4>1, <4>2
    <3>6. ASSUME NEW m \in PeersOf(np[p], n), ln[m] \in Subnets, PeerTodo(l, f, p, n, m)
          PROVE  PeerDone(t, ln, Pending, p, n, m) \/ PeerTodo(l, g, p, n, m)
      BY <1>5, <3>3, <3>4, <3>5, <3>6
    <3> QED  BY <1>5, <3>1, <3>2, <3>3, <3>6
  <2> QED  BY <1>1, <2>1, <2>3, <2>4, <2>5, <2>6, <2>7, FullerE
<1> QED  BY <1>7, <1>8, <1>9 DEF handleLogicalNetworkAddPolicies
-----------------------------------------------------------------------------
\* What the worker finds while it makes the chain of a network.
LEMMA AtChainE ==
  ASSUME IInv, ChainInv, GInv, EInv, NEW w \in Workers, pc[w] \in AtChain \cup {"networkPeers"}
  PROVE  LET f == frame[w]
             l == pc[w]
         IN
         /\ l \in Inside /\ l \in Adding /\ l \in AtSubnet /\ l \in AtInfos
         /\ TypeOK /\ Sound(iptable) /\ iptable \in Tables /\ f \in Frames
         /\ f.cur \in Networks /\ f.policy \in Policies
         /\ f.subnet \in Subnets \cup {Blank} /\ f.subnet = ln[f.cur]
         /\ f.item.kind \in {"networkpolicy", "logicalnetwork"}
         /\ Justified(iptable, np, ln) /\ Knows(l, f, iptable, np, ln)
         /\ Imposes(np, f.policy, f.cur) /\ f.lpeers \subseteq PeersOf(np[f.policy], f.cur)
         /\ \A p \in Policies : Parsable(np[p]) =>
              PAdd(p) \in Pending \/ PolicyChain(p) \in iptable.chains
<1> DEFINE f == frame[w]
           l == pc[w]
<1>1. /\ l \in Inside /\ l \in Adding /\ l \in AtSubnet /\ l \in AtInfos
      /\ l \in AtNetwork /\ l \in AtInfo /\ l # "idle"
  BY DEF AtChain, Inside, Adding, AtSubnet, AtInfos, AtNetwork, AtInfo
<1>2. /\ TypeOK /\ Sound(iptable) /\ iptable \in Tables /\ f \in Frames
      /\ f.cur \in Networks /\ f.policy \in Policies
      /\ f.subnet \in Subnets \cup {Blank}
      /\ f.item.kind \in {"networkpolicy", "logicalnetwork"}
  BY <1>1, FoundG, ItemKinds DEF Fits, Frames, Kinds
<1>3. /\ Justified(iptable, np, ln) /\ Knows(l, f, iptable, np, ln)
      /\ Due(l, f, iptable, np, ln, Pending)
  BY <1>1, FoundE
<1>4. /\ f.subnet = ln[f.cur]
      /\ Imposes(np, f.policy, f.cur) /\ f.lpeers \subseteq PeersOf(np[f.policy], f.cur)
  BY <1>1, <1>3 DEF Knows
<1>5. \A p \in Policies : Parsable(np[p]) =>
        PAdd(p) \in Pending \/ PolicyChain(p) \in iptable.chains
  BY <1>3 DEF Due
<1> QED  BY <1>1, <1>2, <1>3, <1>4, <1>5

\* What it knows at the next label.
LEMMA KnowsOn ==
  ASSUME NEW l \in AtChain \cup {"networkPeers"}, NEW f, NEW t, NEW a, NEW s,
         Knows(l, f, t, a, s), NEW to \in AtChain \cup {"networkPeers"}, NEW g, NEW u,
         to \in AtChain => l \in AtChain, Carries(f, g), g.subnet = f.subnet, g.infos = f.infos,
         g.policy = f.policy, g.lpeers \subseteq f.lpeers, t.chains \subseteq u.chains,
         to = "impose" /\ s[g.cur] \in Subnets => g.lnChain = NetworkChain(g.cur)
  PROVE  Knows(to, g, u, a, s)
<1>1. AtChain \cup {"networkPeers"} \subseteq AtSubnet /\ AtChain \cup {"networkPeers"} \subseteq AtInfos
      /\ AtChain \cup {"networkPeers"} \subseteq Adding \ {"networkAdd", "populate"}
  BY DEF AtChain, AtSubnet, AtInfos, Adding
<1>2. Serves(to, g, u, a)  BY <1>1, ServesOn DEF Knows
<1>3. g.cur = f.cur  BY DEF Carries
<1> QED  BY <1>1, <1>2, <1>3 DEF Knows

\* What it has to do at the labels where it makes the chain, and at the next.
LEMMA TodoChain ==
  ASSUME NEW l \in AtChain \cup {"networkPeers"}, NEW f, NEW p, NEW n, NEW m
  PROVE  /\ LinkTodo(l, f, n) => f.cur = n /\ l \in AtChain \ {"impose"}
         /\ JumpTodo(l, f, p, n) => \/ f.cur = n /\ l \in AtChain
                                    \/ HandlesPolicy(l, f, p) /\ n \in f.nets
         /\ PeerTodo(l, f, p, n, m) =>
              \/ f.cur = n /\ f.policy = p /\ m \in f.lpeers
              \/ HandlesPolicy(l, f, p) /\ (n \in f.nets \/ m \in f.peers)
BY DEF LinkTodo, JumpTodo, PeerTodo, WillMake, AtChain

\* While a chain is being made, what is left to do is carried along.
LEMMA TodoNext ==
  ASSUME NEW l \in AtChain \cup {"networkPeers"}, NEW f,
         NEW to \in AtChain \cup {"networkPeers", "networkPolicies"}, NEW g, Carries(f, g),
         NEW p, NEW n, NEW m
  PROVE  /\ f.cur = n /\ to \in AtChain \ {"impose"} => LinkTodo(to, g, n)
         /\ f.cur = n /\ to \in AtChain => JumpTodo(to, g, p, n)
         /\ HandlesPolicy(l, f, p) /\ n \in f.nets => JumpTodo(to, g, p, n)
         /\ HandlesPolicy(l, f, p) /\ (n \in f.nets \/ m \in f.peers) => PeerTodo(to, g, p, n, m)
         /\ f.cur = n /\ g.policy = p /\ m \in g.lpeers /\ to # "networkPolicies" =>
              PeerTodo(to, g, p, n, m)
<1>1. AtChain \cup {"networkPeers", "networkPolicies"} \subseteq Adding
      /\ to \notin {"populate", "networkAdd"}
  BY DEF AtChain, Adding
<1>2. HandlesPolicy(l, f, p) /\ n \in f.nets => JumpTodo(to, g, p, n)  BY <1>1, TodoOn
<1>3. HandlesPolicy(l, f, p) /\ (n \in f.nets \/ m \in f.peers) => PeerTodo(to, g, p, n, m)
  BY <1>1, TodoOn
<1>4. g.cur = f.cur  BY DEF Carries
<1>5. /\ f.cur = n /\ to \in AtChain \ {"impose"} => LinkTodo(to, g, n)
      /\ f.cur = n /\ to \in AtChain => JumpTodo(to, g, p, n)
  BY <1>4 DEF LinkTodo, JumpTodo
<1>6. f.cur = n /\ g.policy = p /\ m \in g.lpeers /\ to # "networkPolicies" =>
        PeerTodo(to, g, p, n, m)
  BY <1>4 DEF PeerTodo
<1> QED  BY <1>2, <1>3, <1>5, <1>6

\* The chain is closed.
LEMMA CloseE ==
  ASSUME IInv, ChainInv, GInv, EInv, NEW w \in Workers, closeNetwork(w)
  PROVE  EInv'
<1> DEFINE f == frame[w]
           l == pc[w]
           to == "linkTo"
           c == NetworkChain(f.cur)
           t == AppendUnique(iptable, c, Jump(Reject)).tbl
<1>1. /\ l = "close" /\ l \in AtChain /\ l \in AtChain \cup {"networkPeers"} /\ to \in AtChain
      /\ to \in AtChain \ {"impose"} /\ to \in Inside /\ to # "impose"
  BY DEF closeNetwork, AtChain, Inside
<1>2. /\ l \in Inside /\ l \in Adding /\ iptable \in Tables /\ f.cur \in Networks
      /\ f.policy \in Policies /\ Justified(iptable, np, ln) /\ Knows(l, f, iptable, np, ln)
      /\ Imposes(np, f.policy, f.cur)
  BY <1>1, AtChainE
<1>3. c \in Chains /\ Jump(Reject) \in Rules  BY <1>2, ChainKinds, RuleTypes
<1>4. /\ Elsewhere(iptable, t, c) /\ t.chains = iptable.chains
      /\ \A x : In(iptable.rules[c], x) => In(t.rules[c], x)
      /\ \A x : In(t.rules[c], x) => In(iptable.rules[c], x) \/ x = Jump(Reject)
  <2>1. Elsewhere(iptable, t, c)  BY <1>2, <1>3, AppendEffect
  <2>2. /\ t.chains = iptable.chains
        /\ \A x : In(iptable.rules[c], x) => In(t.rules[c], x)
        /\ \A x : In(t.rules[c], x) => In(iptable.rules[c], x) \/ x = Jump(Reject)
    BY <1>2, <1>3, AppendMore
  <2> QED  BY <2>1, <2>2
<1>5. Step(w, to, f, t)  BY DEF closeNetwork
<1> HIDE DEF t
<1>6. Fuller(iptable, t)  BY <1>4, FullerEdit
<1>7. Justified(t, np, ln)  BY <1>2, <1>4, JustNetwork
<1>8. Carries(f, f)  BY DEF Carries
<1>9. Knows(to, f, t, np, ln)  BY <1>1, <1>2, <1>4, <1>8, KnowsOn
<1>10. \A p, n : /\ LinkTodo(l, f, n) => LinkTodo(to, f, n)
                 /\ JumpTodo(l, f, p, n) => JumpTodo(to, f, p, n)
                 /\ \A m : PeerTodo(l, f, p, n, m) => PeerTodo(to, f, p, n, m)
  BY <1>1, <1>8, TodoChain, TodoNext
<1> QED  BY <1>1, <1>2, <1>5, <1>6, <1>7, <1>9, <1>10, FullerE

\* It is linked from the base chain, unless the network has no subnet.
LEMMA LinkE ==
  ASSUME IInv, ChainInv, GInv, EInv, NEW w \in Workers, linkNetwork(w)
  PROVE  EInv'
<1> DEFINE f == frame[w]
           l == pc[w]
           n0 == f.cur
           g == [f EXCEPT !.lnChain = NoChain]
           h == [f EXCEPT !.lnChain = NetworkChain(n0)]
<1>1. /\ l \in {"linkTo", "linkFrom"} /\ l \in AtChain /\ l \in AtChain \cup {"networkPeers"}
      /\ {"linkFrom", "impose"} \subseteq AtChain /\ {"linkFrom", "impose"} \subseteq Inside
      /\ "linkFrom" \in AtChain \ {"impose"}
  BY DEF linkNetwork, AtChain, Inside
<1>2. /\ l \in Inside /\ l \in Adding /\ iptable \in Tables /\ n0 \in Networks /\ f \in Frames
      /\ f.subnet \in Subnets \cup {Blank} /\ f.subnet = ln[n0]
      /\ f.policy \in Policies /\ Justified(iptable, np, ln) /\ Knows(l, f, iptable, np, ln)
      /\ Imposes(np, f.policy, n0)
  BY <1>1, AtChainE
<1>3. NetworkChain(n0) \in iptable.chains  BY <1>1, <1>2 DEF Knows
<1>4. BaseChain \in Chains /\ BaseChain \in iptable.chains  BY <1>2, Found, ChainKinds
<1>5. PICK dir \in {"-d", "-s"} :
        /\ l = "linkFrom" => dir = "-s"
        /\ LET r == AppendUnique(iptable, BaseChain, Link(n0, dir, f.subnet)) IN
           \/ r.exit # 0 /\ Step(w, "impose", g, r.tbl)
           \/ r.exit = 0 /\ l = "linkTo" /\ Step(w, "linkFrom", h, r.tbl)
           \/ r.exit = 0 /\ l = "linkFrom" /\ Step(w, "impose", h, r.tbl)
  <2>1. CASE l = "linkTo"  BY <2>1 DEF linkNetwork
  <2>2. CASE l = "linkFrom"  BY <2>2 DEF linkNetwork
  <2> QED  BY <1>1, <2>1, <2>2
<1> DEFINE x == Link(n0, dir, f.subnet)
           r == AppendUnique(iptable, BaseChain, x)
           t == r.tbl
<1>6. x \in Rules /\ x.target = NetworkChain(n0) /\ x.dir # "any" /\ x.net = f.subnet
  BY <1>2, ChainKinds, RuleTypes DEF Link, Rule
<1>7. l = "linkFrom" => x = Link(n0, "-s", ln[n0])  BY <1>2, <1>5
<1>8. \/ r.exit # 0 /\ Step(w, "impose", g, t)
      \/ r.exit = 0 /\ l = "linkTo" /\ Step(w, "linkFrom", h, t)
      \/ r.exit = 0 /\ l = "linkFrom" /\ Step(w, "impose", h, t)
  BY <1>5
<1>9. /\ Carries(f, g) /\ g.subnet = f.subnet /\ g.infos = f.infos /\ g.policy = f.policy
      /\ g.lpeers = f.lpeers /\ g.item = f.item /\ g.cur = f.cur
      /\ Carries(f, h) /\ h.subnet = f.subnet /\ h.infos = f.infos /\ h.policy = f.policy
      /\ h.lpeers = f.lpeers /\ h.item = f.item /\ h.cur = f.cur /\ h.lnChain = NetworkChain(n0)
  BY <1>2 DEF Frames, Carries
<1> HIDE DEF g, h, x
<1>10. /\ Elsewhere(iptable, t, BaseChain) /\ t.chains = iptable.chains
       /\ r.exit # 0 => f.subnet = Blank
       /\ \A y : In(iptable.rules[BaseChain], y) => In(t.rules[BaseChain], y)
       /\ \A y : In(t.rules[BaseChain], y) => In(iptable.rules[BaseChain], y) \/ y = x
       /\ r.exit = 0 => In(t.rules[BaseChain], x)
  <2>1. Refusal(iptable, BaseChain, x) # 0 => f.subnet = Blank  BY <1>3, <1>4, <1>6 DEF Refusal
  <2>2. Elsewhere(iptable, t, BaseChain)  BY <1>2, <1>4, <1>6, AppendEffect
  <2>3. /\ t.chains = iptable.chains /\ r.exit = Refusal(iptable, BaseChain, x)
        /\ \A y : In(iptable.rules[BaseChain], y) => In(t.rules[BaseChain], y)
        /\ \A y : In(t.rules[BaseChain], y) => In(iptable.rules[BaseChain], y) \/ y = x
        /\ r.exit = 0 => In(t.rules[BaseChain], x)
    BY <1>2, <1>4, <1>6, AppendMore
  <2> HIDE DEF r, t
  <2> QED  BY <2>1, <2>2, <2>3
<1> HIDE DEF r, t
<1>11. Fuller(iptable, t)  BY <1>10, FullerEdit
<1>12. Justified(t, np, ln)
  <2>1. \A y : In(t.rules[BaseChain], y) =>
          In(iptable.rules[BaseChain], y) \/ y.target = NetworkChain(n0)
    BY <1>6, <1>10
  <2> QED  BY <1>2, <1>10, <2>1, JustBase
<1>13. CASE r.exit # 0 /\ Step(w, "impose", g, t)
  <2>1. ln[n0] \notin Subnets  BY <1>2, <1>10, <1>13, BlankAssumption
  <2>2. Knows("impose", g, t, np, ln)  BY <1>1, <1>2, <1>9, <1>10, <2>1, KnowsOn
  <2>3. ASSUME NEW p, NEW n, NEW m, ln[n] \in Subnets
        PROVE  /\ ~LinkTodo(l, f, n)
               /\ JumpTodo(l, f, p, n) => JumpTodo("impose", g, p, n)
               /\ PeerTodo(l, f, p, n, m) => PeerTodo("impose", g, p, n, m)
    <3>1. /\ LinkTodo(l, f, n) => n0 = n
          /\ JumpTodo(l, f, p, n) => n0 = n \/ (HandlesPolicy(l, f, p) /\ n \in f.nets)
          /\ PeerTodo(l, f, p, n, m) =>
               \/ n0 = n /\ f.policy = p /\ m \in f.lpeers
               \/ HandlesPolicy(l, f, p) /\ (n \in f.nets \/ m \in f.peers)
      BY <1>1, TodoChain
    <3>2. /\ n0 = n /\ "impose" # "impose" => LinkTodo("impose", g, n)
          /\ n0 = n => JumpTodo("impose", g, p, n)
          /\ HandlesPolicy(l, f, p) /\ n \in f.nets => JumpTodo("impose", g, p, n)
          /\ HandlesPolicy(l, f, p) /\ (n \in f.nets \/ m \in f.peers) =>
               PeerTodo("impose", g, p, n, m)
          /\ n0 = n /\ f.policy = p /\ m \in f.lpeers => PeerTodo("impose", g, p, n, m)
      BY <1>1, <1>9, TodoNext
    <3> QED  BY <2>1, <2>3, <3>1, <3>2
  <2> QED  BY <1>1, <1>2, <1>9, <1>11, <1>12, <1>13, <2>2, <2>3, FullerE
<1>14. CASE l = "linkTo" /\ Step(w, "linkFrom", h, t)
  <2>1. Knows("linkFrom", h, t, np, ln)  BY <1>1, <1>2, <1>9, <1>10, KnowsOn
  <2>2. ASSUME NEW p, NEW n, NEW m
        PROVE  /\ LinkTodo(l, f, n) => LinkTodo("linkFrom", h, n)
               /\ JumpTodo(l, f, p, n) => JumpTodo("linkFrom", h, p, n)
               /\ PeerTodo(l, f, p, n, m) => PeerTodo("linkFrom", h, p, n, m)
    <3>1. /\ LinkTodo(l, f, n) => n0 = n
          /\ JumpTodo(l, f, p, n) => n0 = n \/ (HandlesPolicy(l, f, p) /\ n \in f.nets)
          /\ PeerTodo(l, f, p, n, m) =>
               \/ n0 = n /\ f.policy = p /\ m \in f.lpeers
               \/ HandlesPolicy(l, f, p) /\ (n \in f.nets \/ m \in f.peers)
      BY <1>1, TodoChain
    <3>2. /\ n0 = n /\ "linkFrom" # "impose" => LinkTodo("linkFrom", h, n)
          /\ n0 = n => JumpTodo("linkFrom", h, p, n)
          /\ HandlesPolicy(l, f, p) /\ n \in f.nets => JumpTodo("linkFrom", h, p, n)
          /\ HandlesPolicy(l, f, p) /\ (n \in f.nets \/ m \in f.peers) =>
               PeerTodo("linkFrom", h, p, n, m)
          /\ n0 = n /\ f.policy = p /\ m \in f.lpeers => PeerTodo("linkFrom", h, p, n, m)
      BY <1>1, <1>9, TodoNext
    <3> QED  BY <3>1, <3>2
  <2> QED  BY <1>1, <1>2, <1>9, <1>11, <1>12, <1>14, <2>1, <2>2, FullerE
<1>15. CASE r.exit = 0 /\ l = "linkFrom" /\ Step(w, "impose", h, t)
  <2>1. Knows("impose", h, t, np, ln)  BY <1>1, <1>2, <1>9, <1>10, KnowsOn
  <2>2. LinkDone(t, ln, Pending, n0)  BY <1>7, <1>10, <1>15 DEF LinkDone
  <2>3. ASSUME NEW p, NEW n, NEW m
        PROVE  /\ LinkTodo(l, f, n) => LinkDone(t, ln, Pending, n)
               /\ JumpTodo(l, f, p, n) => JumpTodo("impose", h, p, n)
               /\ PeerTodo(l, f, p, n, m) => PeerTodo("impose", h, p, n, m)
    <3>1. /\ LinkTodo(l, f, n) => n0 = n
          /\ JumpTodo(l, f, p, n) => n0 = n \/ (HandlesPolicy(l, f, p) /\ n \in f.nets)
          /\ PeerTodo(l, f, p, n, m) =>
               \/ n0 = n /\ f.policy = p /\ m \in f.lpeers
               \/ HandlesPolicy(l, f, p) /\ (n \in f.nets \/ m \in f.peers)
      BY <1>1, TodoChain
    <3>2. /\ n0 = n /\ "impose" # "impose" => LinkTodo("impose", h, n)
          /\ n0 = n => JumpTodo("impose", h, p, n)
          /\ HandlesPolicy(l, f, p) /\ n \in f.nets => JumpTodo("impose", h, p, n)
          /\ HandlesPolicy(l, f, p) /\ (n \in f.nets \/ m \in f.peers) =>
               PeerTodo("impose", h, p, n, m)
          /\ n0 = n /\ f.policy = p /\ m \in f.lpeers => PeerTodo("impose", h, p, n, m)
      BY <1>1, <1>9, TodoNext
    <3> QED  BY <2>2, <3>1, <3>2
  <2> QED  BY <1>1, <1>2, <1>9, <1>11, <1>12, <1>15, <2>1, <2>3, FullerE
<1> QED  BY <1>8, <1>13, <1>14, <1>15

\* The policy is imposed; if its chain is missing, its key is still pending.
LEMMA ImposeE ==
  ASSUME IInv, ChainInv, GInv, EInv, Apart, NEW w \in Workers, imposePolicy(w)
  PROVE  EInv'
<1> DEFINE f == frame[w]
           l == pc[w]
           n0 == f.cur
           p0 == f.policy
           c == f.lnChain
           j == Jump(PolicyChain(p0))
           r == InsertRule(iptable, c, j)
           t == r.tbl
           g == [f EXCEPT !.infos = {}]
<1>1. /\ l = "impose" /\ l \in AtChain /\ l \in AtChain \cup {"networkPeers"}
      /\ "networkPeers" \notin AtChain /\ {"networkPeers", "returned"} \subseteq Inside
  BY DEF imposePolicy, AtChain, Inside
<1>2. /\ l \in Inside /\ l \in Adding /\ iptable \in Tables /\ n0 \in Networks /\ f \in Frames
      /\ p0 \in Policies /\ Justified(iptable, np, ln) /\ Knows(l, f, iptable, np, ln)
      /\ Imposes(np, p0, n0) /\ f.item.kind \in {"networkpolicy", "logicalnetwork"}
      /\ \A p \in Policies : Parsable(np[p]) =>
           PAdd(p) \in Pending \/ PolicyChain(p) \in iptable.chains
  BY <1>1, AtChainE
<1>3. /\ NetworkChain(n0) \in iptable.chains /\ Serves(l, f, iptable, np)
      /\ ln[n0] \in Subnets => c = NetworkChain(n0)
  BY <1>1, <1>2 DEF Knows
<1>4. c \in {NetworkChain(n0), NoChain}  BY <1>1, <1>2, FoundG DEF Suits
<1>5. c \in Chains /\ j \in Rules /\ j.target = PolicyChain(p0) /\ j.dir = "any"
  BY <1>2, <1>4, ChainKinds, RuleTypes DEF Jump, Rule
<1>6. g.item = f.item /\ g.cur = f.cur /\ Carries(f, f)  BY <1>2 DEF Frames, Carries
<1>7. \/ r.exit = 0 /\ Step(w, "networkPeers", f, t)
      \/ r.exit # 0 /\ Step(w, Failed(w), g, t)
  BY DEF imposePolicy
<1>8. \A p \in Policies : Imposes(np, p, n0) => p = p0  BY <1>2, Selected
<1>9. /\ Elsewhere(iptable, t, c) /\ t.chains = iptable.chains
      /\ \A x : In(iptable.rules[c], x) => In(t.rules[c], x)
      /\ \A x : In(t.rules[c], x) => In(iptable.rules[c], x) \/ x = j
  BY <1>2, <1>5, InsertRuleEffect
<1>10. /\ r.exit = 0 <=> Refusal(iptable, c, j) # 2
       /\ c \in iptable.chains /\ Refusal(iptable, c, j) # 2 => In(t.rules[c], j)
  BY <1>2, <1>5, InsertRuleMore
<1>11. Refusal(iptable, c, j) = 2 => PolicyChain(p0) \notin iptable.chains
  BY <1>5 DEF Refusal
<1> HIDE DEF g, r, t, j, c
<1>12. Fuller(iptable, t)  BY <1>9, FullerEdit
<1>13. Justified(t, np, ln)  BY <1>2, <1>4, <1>9, JustNetwork DEF j
<1>14. CASE r.exit = 0 /\ Step(w, "networkPeers", f, t)
  <2>1. Knows("networkPeers", f, t, np, ln)  BY <1>1, <1>2, <1>6, <1>9, KnowsOn
  <2>2. ln[n0] \in Subnets => JumpDone(t, Pending, p0, n0)
    BY <1>3, <1>10, <1>14 DEF JumpDone, j
  <2>3. ASSUME NEW p \in Policies, NEW n \in Networks, Imposes(np, p, n), ln[n] \in Subnets, NEW m
        PROVE  /\ ~LinkTodo(l, f, n)
               /\ JumpTodo(l, f, p, n) => JumpDone(t, Pending, p, n) \/ JumpTodo("networkPeers", f, p, n)
               /\ PeerTodo(l, f, p, n, m) => PeerTodo("networkPeers", f, p, n, m)
    <3>1. /\ ~LinkTodo(l, f, n)
          /\ JumpTodo(l, f, p, n) => n0 = n \/ (HandlesPolicy(l, f, p) /\ n \in f.nets)
          /\ PeerTodo(l, f, p, n, m) =>
               \/ n0 = n /\ p0 = p /\ m \in f.lpeers
               \/ HandlesPolicy(l, f, p) /\ (n \in f.nets \/ m \in f.peers)
      BY <1>1, TodoChain
    <3>2. /\ HandlesPolicy(l, f, p) /\ n \in f.nets => JumpTodo("networkPeers", f, p, n)
          /\ HandlesPolicy(l, f, p) /\ (n \in f.nets \/ m \in f.peers) =>
               PeerTodo("networkPeers", f, p, n, m)
          /\ n0 = n /\ p0 = p /\ m \in f.lpeers => PeerTodo("networkPeers", f, p, n, m)
      BY <1>1, <1>6, TodoNext
    <3>3. n0 = n => JumpDone(t, Pending, p, n)  BY <1>8, <2>2, <2>3
    <3> QED  BY <3>1, <3>2, <3>3
  <2> QED  BY <1>1, <1>2, <1>12, <1>13, <1>14, <2>1, <2>3, FullerE
<1>15. CASE r.exit # 0 /\ Step(w, Failed(w), g, t)
  <2>1. PolicyChain(p0) \notin iptable.chains  BY <1>10, <1>11, <1>15
  <2>2. PAdd(p0) \in Pending  BY <1>2, <2>1 DEF Imposes
  <2>3. \A p \in Policies : ~HandlesPolicy(l, f, p)
    <3>1. \A p \in Policies : HandlesPolicy(l, f, p) =>
            PolicyChain(p) \in iptable.chains /\ Imposes(np, p, n0)
      BY <1>1, <1>3 DEF Serves, Imposes
    <3> QED  BY <1>8, <2>1, <3>1
  <2>4. f.item.kind # "networkpolicy"
    <3>1. f.item.kind = "networkpolicy" => f.item.name \in Policies
      BY <1>2, FoundG, ItemKinds DEF Fits, Inside, Handlers
    <3> QED  BY <1>2, <2>3, <3>1 DEF HandlesPolicy
  <2>5. Step(w, "returned", g, t)  BY <1>15, <2>4 DEF Failed, Nested
  <2>6. Knows("returned", g, t, np, ln)  BY KnowsPolicy
  <2>7. ASSUME NEW p \in Policies, NEW n \in Networks, Imposes(np, p, n), NEW m
        PROVE  /\ ~LinkTodo(l, f, n)
               /\ JumpTodo(l, f, p, n) => JumpDone(t, Pending, p, n)
               /\ PeerTodo(l, f, p, n, m) => PeerDone(t, ln, Pending, p, n, m)
    <3>1. /\ ~LinkTodo(l, f, n)
          /\ JumpTodo(l, f, p, n) => n0 = n
          /\ PeerTodo(l, f, p, n, m) => n0 = n
      BY <1>1, <2>3, TodoChain
    <3>2. n0 = n => JumpDone(t, Pending, p, n) /\ PeerDone(t, ln, Pending, p, n, m)
      BY <1>8, <2>2, <2>7 DEF JumpDone, PeerDone
    <3> QED  BY <3>1, <3>2
  <2> QED  BY <1>1, <1>2, <1>6, <1>12, <1>13, <2>5, <2>6, <2>7, FullerE
<1> QED  BY <1>7, <1>14, <1>15

\* The peers of the policy.
LEMMA NetworkPeersE ==
  ASSUME IInv, ChainInv, GInv, EInv, NEW w \in Workers, handleLogicalNetworkAddPeers(w)
  PROVE  EInv'
<1> DEFINE f == frame[w]
           l == pc[w]
           n0 == f.cur
           p0 == f.policy
<1>1. /\ l = "networkPeers" /\ l \in AtChain \cup {"networkPeers"} /\ l \notin AtChain
      /\ "networkPolicies" \in Inside /\ "networkPolicies" \in Adding
      /\ "networkPolicies" \in AtSubnet /\ "networkPolicies" \in AtInfos
      /\ "networkPolicies" \notin AtChain \cup {"networkPeers"}
  BY DEF handleLogicalNetworkAddPeers, AtChain, Inside, Adding, AtSubnet, AtInfos
<1>2. /\ l \in Inside /\ l \in Adding /\ l \in AtInfos /\ n0 \in Networks /\ f \in Frames
      /\ f.subnet = ln[n0] /\ p0 \in Policies
      /\ Justified(iptable, np, ln) /\ Knows(l, f, iptable, np, ln)
      /\ Imposes(np, p0, n0) /\ f.lpeers \subseteq PeersOf(np[p0], n0)
      /\ \A p \in Policies : Parsable(np[p]) =>
           PAdd(p) \in Pending \/ PolicyChain(p) \in iptable.chains
  BY <1>1, AtChainE
<1>3. ASSUME NEW p, NEW n, NEW m
      PROVE  /\ ~LinkTodo(l, f, n)
             /\ JumpTodo(l, f, p, n) => HandlesPolicy(l, f, p) /\ n \in f.nets
             /\ PeerTodo(l, f, p, n, m) =>
                  \/ n0 = n /\ p0 = p /\ m \in f.lpeers
                  \/ HandlesPolicy(l, f, p) /\ (n \in f.nets \/ m \in f.peers)
  BY <1>1, TodoChain
<1>4. ASSUME NEW to \in {"networkPeers", "networkPolicies"}, NEW g, Carries(f, g),
             NEW p, NEW n, NEW m
      PROVE  /\ HandlesPolicy(l, f, p) /\ n \in f.nets => JumpTodo(to, g, p, n)
             /\ HandlesPolicy(l, f, p) /\ (n \in f.nets \/ m \in f.peers) =>
                  PeerTodo(to, g, p, n, m)
             /\ n0 = n /\ g.policy = p /\ m \in g.lpeers /\ to # "networkPolicies" =>
                  PeerTodo(to, g, p, n, m)
  BY <1>1, <1>4, TodoNext
<1>5. CASE f.lpeers = {} /\ Step(w, "networkPolicies", f, iptable)
  <2>1. Fuller(iptable, iptable) /\ Carries(f, f)  BY DEF Fuller, Carries
  <2>2. Serves("networkPolicies", f, iptable, np)
    <3>1. Serves(l, f, iptable, np)  BY <1>2 DEF Knows
    <3> QED  BY <1>1, <1>2, <2>1, <3>1, ServesOn
  <2>3. Knows("networkPolicies", f, iptable, np, ln)  BY <1>1, <1>2, <2>2 DEF Knows
  <2>4. \A p, n : /\ ~LinkTodo(l, f, n)
                  /\ JumpTodo(l, f, p, n) => JumpTodo("networkPolicies", f, p, n)
                  /\ \A m : PeerTodo(l, f, p, n, m) => PeerTodo("networkPolicies", f, p, n, m)
    BY <1>3, <1>4, <1>5, <2>1
  <2> QED  BY <1>1, <1>2, <1>5, <2>1, <2>3, <2>4, FullerE
<1>6. ASSUME NEW k \in f.lpeers,
             Step(w, "networkPeers", [f EXCEPT !.lpeers = f.lpeers \ {k}], AcceptPeer(p0, k))
      PROVE  EInv'
  <2> DEFINE g == [f EXCEPT !.lpeers = f.lpeers \ {k}]
             t == AcceptPeer(p0, k)
  <2>1. /\ Carries(f, g) /\ g.subnet = f.subnet /\ g.infos = f.infos /\ g.policy = p0
        /\ g.lpeers = f.lpeers \ {k} /\ g.item = f.item /\ g.cur = n0
    BY <1>2 DEF Frames, Carries
  <2>2. k \in PeersOf(np[p0], n0)  BY <1>2
  <2>3. /\ Justified(t, np, ln) /\ Fuller(iptable, t) /\ t.chains = iptable.chains
        /\ PolicyChain(p0) \in iptable.chains /\ ln[k] \in Subnets =>
             \A d \in {"-s", "-d"} : In(t.rules[PolicyChain(p0)], Rule(d, ln[k], Accept))
    BY <1>2, <2>2, PeerJust
  <2>4. Step(w, l, g, t)  BY <1>1, <1>6
  <2> HIDE DEF g, t
  <2>5. Knows(l, g, t, np, ln)  BY <1>1, <1>2, <2>1, <2>3, KnowsOn
  <2>6. \A n : ln[k] \in Subnets => PeerDone(t, ln, Pending, p0, n, k)
    BY <1>2, <2>3 DEF PeerDone, Imposes
  <2>7. ASSUME NEW p, NEW n
        PROVE  ~LinkTodo(l, f, n) /\ (JumpTodo(l, f, p, n) => JumpTodo(l, g, p, n))
    <3>1. ~LinkTodo(l, f, n) /\ (JumpTodo(l, f, p, n) => HandlesPolicy(l, f, p) /\ n \in f.nets)
      BY <1>3
    <3>2. HandlesPolicy(l, f, p) /\ n \in f.nets => JumpTodo(l, g, p, n)
      BY <1>1, <1>4, <2>1
    <3> QED  BY <3>1, <3>2
  <2>8. ASSUME NEW p, NEW n, NEW m, ln[m] \in Subnets, PeerTodo(l, f, p, n, m)
        PROVE  PeerDone(t, ln, Pending, p, n, m) \/ PeerTodo(l, g, p, n, m)
    <3>1. CASE m = k /\ p0 = p  BY <2>6, <2>8, <3>1
    <3>2. CASE m # k /\ n0 = n /\ p0 = p /\ m \in f.lpeers
      <4>1. m \in g.lpeers  BY <2>1, <3>2
      <4> QED  BY <1>1, <1>4, <2>1, <3>2, <4>1
    <3>3. CASE HandlesPolicy(l, f, p) /\ (n \in f.nets \/ m \in f.peers)
      BY <1>1, <1>4, <2>1, <3>3
    <3> QED  BY <1>3, <2>8, <3>1, <3>2, <3>3
  <2> QED  BY <1>1, <1>2, <2>1, <2>3, <2>4, <2>5, <2>7, <2>8, FullerE
<1> QED  BY <1>5, <1>6 DEF handleLogicalNetworkAddPeers
-----------------------------------------------------------------------------
(***************************************************************************)
(* The cluster, the informers and the worker loop.                         *)
(***************************************************************************)
\* More keys do no harm; nor does moving between labels at which there is
\* nothing to see to.
LEMMA DueMore ==
  ASSUME NEW l, NEW f, NEW t, NEW a, NEW s, NEW P, Due(l, f, t, a, s, P), NEW Q, P \subseteq Q
  PROVE  /\ Due(l, f, t, a, s, Q)
         /\ l \notin Adding => \A to, g : Due(to, g, t, a, s, Q)
<1>1. Fuller(t, t)  BY DEF Fuller
<1>2. Due(l, f, t, a, s, Q)  BY <1>1, DueFuller
<1>3. ASSUME l \notin Adding, NEW to, NEW g PROVE Due(to, g, t, a, s, Q)
  <2>1. \A p, n, m : ~LinkTodo(l, f, n) /\ ~JumpTodo(l, f, p, n) /\ ~PeerTodo(l, f, p, n, m)
    BY <1>3, NothingTodo
  <2> QED  BY <1>1, <2>1, DueFuller
<1> QED  BY <1>2, <1>3

\* Steps outside syncHandler.
LEMMA QuietE ==
  ASSUME EInv, up' = up, iptable' = iptable, np' = np, ln' = ln, Pending \subseteq Pending',
         \A v \in Workers : \/ pc'[v] = pc[v] /\ frame'[v] = frame[v]
                            \/ /\ pc[v] \notin Inside /\ pc'[v] \notin Inside
                               /\ pc'[v] # "idle" /\ frame'[v].item.kind = "logicalnetwork" =>
                                    frame'[v].cur = frame'[v].item.name
  PROVE  EInv'
<1> DEFINE Q == Pending'
<1> HIDE DEF Q
<1>1. Pending \subseteq Q  BY DEF Q
<1>2. ASSUME up = TRUE, NEW v \in Workers, pc'[v] \in Inside
      PROVE  /\ Knows(pc'[v], frame'[v], iptable', np', ln')
             /\ Due(pc'[v], frame'[v], iptable', np', ln', Q)
  <2>1. /\ Knows(pc[v], frame[v], iptable, np, ln) /\ Due(pc[v], frame[v], iptable, np, ln, Pending)
        /\ pc'[v] = pc[v] /\ frame'[v] = frame[v]
    BY <1>2 DEF EInv
  <2>2. Due(pc[v], frame[v], iptable, np, ln, Q)  BY <1>1, <2>1, DueMore
  <2> QED  BY <2>1, <2>2
<1>3. ASSUME up = TRUE, \A v \in Workers : pc'[v] \notin Inside
      PROVE  Due("idle", EmptyFrame, iptable', np', ln', Q)
  <2>1. \A v \in Workers : pc[v] \notin Inside  BY <1>3
  <2>2. Due("idle", EmptyFrame, iptable, np, ln, Pending)  BY <1>3, <2>1 DEF EInv
  <2>3. Due("idle", EmptyFrame, iptable, np, ln, Q)  BY <1>1, <2>2, DueMore
  <2> QED  BY <2>3
<1>4. Justified(iptable', np', ln')  BY DEF EInv
<1>5. \A v \in Workers : pc'[v] # "idle" /\ frame'[v].item.kind = "logicalnetwork" =>
        frame'[v].cur = frame'[v].item.name
  BY DEF EInv
<1> QED  BY <1>2, <1>3, <1>4, <1>5 DEF EInv, Q

\* The informers and the worker loop.
LEMMA LoopE ==
  ASSUME IInv, ChainInv, GInv, EInv, OnlyCreated,
         \/ \E k \in Kinds : Notify(k)
         \/ \E w \in Workers : Get(w) \/ Lock(w) \/ Unlock(w) \/ Done(w)
  PROVE  EInv'
<1>1. Pending \subseteq Pending'  BY QuietPending
<1>2. np' = np /\ ln' = ln /\ up' = up /\ iptable' = iptable
  BY DEF Notify, Get, Lock, Unlock, Done, clusterVars
<1>3. pc \in [Workers -> Labels] /\ frame \in [Workers -> Frames]  BY DEF IInv, TypeOK
<1>4. {"idle", "got", "unlocked"} \cap Inside = {}  BY DEF Inside, Handlers
<1>5. ASSUME NEW k \in Kinds, Notify(k) PROVE EInv'
  <2>1. pc' = pc /\ frame' = frame  BY <1>5 DEF Notify
  <2> QED  BY <1>1, <1>2, <2>1, QuietE
<1>6. ASSUME NEW w \in Workers, Get(w) PROVE EInv'
  <2>1. /\ pc[w] = "idle" /\ pc'[w] = "got"
        /\ \A v \in Workers : v # w => pc'[v] = pc[v] /\ frame'[v] = frame[v]
    BY <1>3, <1>6 DEF Get
  <2>2. frame'[w].item.kind = "logicalnetwork" => frame'[w].cur = frame'[w].item.name
    BY <1>3, <1>6 DEF Get, EmptyFrame
  <2> QED  BY <1>1, <1>2, <1>4, <2>1, <2>2, QuietE
<1>7. ASSUME NEW w \in Workers, Done(w) PROVE EInv'
  <2>1. /\ pc[w] = "unlocked" /\ pc'[w] = "idle"
        /\ \A v \in Workers : v # w => pc'[v] = pc[v] /\ frame'[v] = frame[v]
    BY <1>3, <1>7 DEF Done
  <2> QED  BY <1>1, <1>2, <1>4, <2>1, QuietE
<1> DEFINE Q == Pending'
<1> HIDE DEF Q
<1>8. Pending \subseteq Q  BY <1>1 DEF Q
<1>9. Justified(iptable', np', ln')  BY <1>2 DEF EInv
<1>10. ASSUME NEW w \in Workers, Lock(w) PROVE EInv'
  <2> DEFINE f == frame[w]
             to == HandlerOf(f.item)
  <2>1. \A v \in Workers : pc[v] \notin Inside
    BY <1>10, ConstantsAssumption DEF Lock, IInv, Holds
  <2>2. /\ pc[w] = "got" /\ up = TRUE /\ frame' = frame
        /\ pc' = [pc EXCEPT ![w] = to] /\ f.item \in Items
    BY <1>10 DEF Lock, ChainInv, IInv, TypeOK, Fits
  <2>3. Due("idle", EmptyFrame, iptable, np, ln, Pending)  BY <2>1, <2>2 DEF EInv
  <2>4. to \in Handlers /\ (to = "networkAdd" => f.item.kind # "networkpolicy")
    BY <2>2, HandlerIs
  <2>5. "idle" \notin Adding  BY DEF Adding
  <2>6. to \in Inside /\ to \notin AtSubnet \cup AtInfos \cup AtChain \cup {"networkPeers"}
        /\ (to \in Adding => to = "networkAdd")
    BY <2>4 DEF Inside, Handlers, AtSubnet, AtInfos, AtChain, Adding
  <2> HIDE DEF to
  <2>7. Knows(to, f, iptable, np, ln)
    BY <2>4, <2>6 DEF Knows, Serves, HandlesPolicy, AtChain
  <2>8. Due(to, f, iptable, np, ln, Q)  BY <1>8, <2>3, <2>5, DueMore
  <2>9. \A v \in Workers : (pc'[v] \in Inside => v = w) /\ pc'[w] = to  BY <1>3, <2>1, <2>2
  <2>10. \A v \in Workers : pc'[v] # "idle" => pc[v] # "idle"  BY <1>3, <2>2
  <2>11. \A v \in Workers : pc'[v] # "idle" /\ frame'[v].item.kind = "logicalnetwork" =>
           frame'[v].cur = frame'[v].item.name
    BY <2>2, <2>10 DEF EInv
  <2> QED  BY <1>2, <1>9, <2>2, <2>6, <2>7, <2>8, <2>9, <2>11 DEF EInv, Q
<1>11. ASSUME NEW w \in Workers, Unlock(w) PROVE EInv'
  <2> DEFINE f == frame[w]
  <2>1. pc[w] = "returned" /\ pc[w] \in Inside /\ frame' = frame
        /\ pc' = [pc EXCEPT ![w] = "unlocked"] /\ up = TRUE
    BY <1>11 DEF Unlock, Inside, ChainInv, IInv, TypeOK
  <2>2. Due("returned", f, iptable, np, ln, Pending)  BY <2>1 DEF EInv
  <2>3. "returned" \notin Adding  BY DEF Adding
  <2>4. Due("idle", EmptyFrame, iptable, np, ln, Q)  BY <1>8, <2>2, <2>3, DueMore
  <2>5. \A v \in Workers : pc'[v] \notin Inside  BY <1>3, <1>4, <2>1, Alone
  <2>6. \A v \in Workers : pc'[v] # "idle" => pc[v] # "idle"  BY <1>3, <2>1
  <2>7. \A v \in Workers : pc'[v] # "idle" /\ frame'[v].item.kind = "logicalnetwork" =>
          frame'[v].cur = frame'[v].item.name
    BY <2>1, <2>6 DEF EInv
  <2> QED  BY <1>2, <1>9, <2>1, <2>4, <2>5, <2>7 DEF EInv, Q
<1> QED  BY <1>5, <1>6, <1>7, <1>10, <1>11
-----------------------------------------------------------------------------
\* Objects come into being, and stay as they are.
Appear(a, b, s, v) ==
  /\ \A p \in Policies : a[p] # Absent => b[p] = a[p]
  /\ \A n \in Networks : s[n] # Absent => v[n] = s[n]

\* A policy that selects a network goes on selecting it.
LEMMA AppearImposes ==
  ASSUME NEW a, NEW b, NEW s, NEW v, Appear(a, b, s, v), NEW p \in Policies
  PROVE  /\ Parsable(a[p]) => b[p] = a[p]
         /\ \A n : Imposes(a, p, n) => Imposes(b, p, n) /\ b[p] = a[p]
BY DEF Appear, Imposes, Parsable

\* What was there for a reason still is.
LEMMA JustAppear ==
  ASSUME TypeOK, Justified(iptable, np, ln), NEW b, NEW v, Appear(np, b, ln, v)
  PROVE  Justified(iptable, b, v)
<1>1. ASSUME NEW p \in Policies, NEW r \in RuleSet(iptable, PolicyChain(p))
      PROVE  PeerRule(r, p, b, v)
  <2>1. PeerRule(r, p, np, ln)  BY <1>1 DEF Justified
  <2>2. PICK n \in Selectors(np[p]) : \E m \in PeersOf(np[p], n) : r.net = ln[m]
    BY <2>1 DEF PeerRule
  <2>3. PICK m \in PeersOf(np[p], n) : r.net = ln[m]  BY <2>2
  <2>4. np[p] \in Annotations /\ b[p] = np[p]  BY <2>1, ListerTypes, AppearImposes DEF PeerRule
  <2>5. m \in Networks  BY <2>4, AnnotationTypes
  <2>6. r \in Rules
    <3>1. PolicyChain(p) \in Chains  BY ChainKinds
    <3>2. iptable.rules[PolicyChain(p)] \in Seq(Rules)  BY <3>1 DEF TypeOK, Tables
    <3> QED  BY <1>1, <3>2 DEF RuleSet
  <2>7. r.net # Absent  BY <2>6, ConstantsAssumption DEF Rules
  <2>8. v[m] = ln[m]  BY <2>3, <2>5, <2>7 DEF Appear
  <2> QED  BY <2>1, <2>2, <2>3, <2>4, <2>8 DEF PeerRule
<1>2. \A n \in Networks, p \in Policies : Imposes(np, p, n) => Imposes(b, p, n)
  BY AppearImposes
<1> QED  BY <1>1, <1>2 DEF Justified

\* What a handler knows stays true.
LEMMA KnowsAppear ==
  ASSUME TypeOK, NEW l, NEW f \in Frames, Fits(l, f), Knows(l, f, iptable, np, ln),
         NEW b, NEW v, Appear(np, b, ln, v)
  PROVE  Knows(l, f, iptable, b, v)
<1>1. l \in AtSubnet => v[f.cur] = ln[f.cur]
  <2> SUFFICES ASSUME l \in AtSubnet PROVE v[f.cur] = ln[f.cur]  OBVIOUS
  <2>1. f.cur \in Networks  BY DEF Fits, AtNetwork, AtSubnet
  <2>2. f.subnet = ln[f.cur]  BY DEF Knows
  <2>3. f.subnet # Absent  BY ConstantsAssumption DEF Frames
  <2> QED  BY <2>1, <2>2, <2>3 DEF Appear
<1>2. \A x \in f.infos : x.policy \in Policies  BY DEF Frames, Infos
<1>3. l \in AtChain \cup {"networkPeers"} => f.policy \in Policies
  BY DEF Fits, AtInfo, AtChain
<1>4. l = "impose" => l \in AtSubnet  BY DEF AtSubnet
<1>5. l \in AtInfos => \A x \in f.infos :
        /\ Imposes(b, x.policy, x.via)
        /\ x.via = f.cur => x.peers = PeersOf(b[x.policy], f.cur)
        /\ x.via # f.cur => f.cur \in PeersOf(b[x.policy], x.via)
  BY <1>2, AppearImposes DEF Knows
<1>6. l \in AtChain \cup {"networkPeers"} =>
        Imposes(b, f.policy, f.cur) /\ f.lpeers \subseteq PeersOf(b[f.policy], f.cur)
  BY <1>3, AppearImposes DEF Knows
<1>7. Serves(l, f, iptable, b)  BY AppearImposes DEF Knows, Serves
<1> QED  BY <1>1, <1>4, <1>5, <1>6, <1>7 DEF Knows

\* A new object is announced, and so what it asks for is going to be done.
LEMMA DueAppear ==
  ASSUME TypeOK, Justified(iptable, np, ln), NEW l, NEW f, NEW P, NEW Q, NEW b, NEW v,
         Appear(np, b, ln, v), P \subseteq Q,
         \A p \in Policies : b[p] # np[p] => PAdd(p) \in Q,
         \A n \in Networks : v[n] # ln[n] => NAdd(n) \in Q,
         b \in [Policies -> Annotations \cup {Blank, Absent}],
         Due(l, f, iptable, np, ln, P)
  PROVE  Due(l, f, iptable, b, v, Q)
<1>1. \A p \in Policies : Parsable(b[p]) => PAdd(p) \in Q \/ PolicyChain(p) \in iptable.chains
  BY DEF Due
<1>2. ASSUME NEW p \in Policies, NEW n \in Networks, Imposes(b, p, n), v[n] \in Subnets
      PROVE  /\ LinkDone(iptable, v, Q, n) \/ LinkTodo(l, f, n)
             /\ JumpDone(iptable, Q, p, n) \/ JumpTodo(l, f, p, n)
             /\ \A m \in PeersOf(b[p], n) : v[m] \in Subnets =>
                  PeerDone(iptable, v, Q, p, n, m) \/ PeerTodo(l, f, p, n, m)
  <2>1. CASE NAdd(n) \in Q  BY <2>1 DEF LinkDone, JumpDone, PeerDone
  <2>2. CASE v[n] = ln[n]
    <3>1. LinkDone(iptable, v, Q, n) \/ LinkTodo(l, f, n)
      <4>1. CASE NetworkChain(n) \notin iptable.chains  BY <4>1 DEF LinkDone
      <4>2. CASE NetworkChain(n) \in iptable.chains
        <5>1. PICK r \in Policies : Imposes(np, r, n)  BY <4>2 DEF Justified
        <5>2. LinkDone(iptable, ln, P, n) \/ LinkTodo(l, f, n)  BY <1>2, <2>2, <5>1 DEF Due
        <5> QED  BY <2>2, <5>2 DEF LinkDone
      <4> QED  BY <4>1, <4>2
    <3>2. CASE PAdd(p) \in Q  BY <3>1, <3>2 DEF JumpDone, PeerDone
    <3>3. CASE b[p] = np[p]
      <4>1. Imposes(np, p, n)  BY <1>2, <3>3 DEF Imposes
      <4>2. JumpDone(iptable, P, p, n) \/ JumpTodo(l, f, p, n)  BY <1>2, <2>2, <4>1 DEF Due
      <4>3. ASSUME NEW m \in PeersOf(b[p], n), v[m] \in Subnets
            PROVE  PeerDone(iptable, v, Q, p, n, m) \/ PeerTodo(l, f, p, n, m)
        <5>1. m \in Networks
          <6>1. b[p] \in Annotations  BY <1>2 DEF Imposes, Parsable
          <6> QED  BY <4>3, <6>1, AnnotationTypes
        <5>2. CASE NAdd(m) \in Q  BY <5>2 DEF PeerDone
        <5>3. CASE v[m] = ln[m]
          <6>1. PeerDone(iptable, ln, P, p, n, m) \/ PeerTodo(l, f, p, n, m)
            BY <1>2, <2>2, <3>3, <4>1, <4>3, <5>3 DEF Due
          <6> QED  BY <5>3, <6>1 DEF PeerDone
        <5> QED  BY <5>1, <5>2, <5>3
      <4>4. JumpDone(iptable, Q, p, n) \/ JumpTodo(l, f, p, n)  BY <4>2 DEF JumpDone
      <4> QED  BY <3>1, <4>3, <4>4
    <3> QED  BY <3>2, <3>3
  <2> QED  BY <2>1, <2>2
<1> QED  BY <1>1, <1>2 DEF Due

\* A policy or a network is created.
LEMMA ClusterE ==
  ASSUME IInv, ChainInv, GInv, EInv, OnlyCreated, Cluster
  PROVE  EInv'
<1>1. /\ up' = up /\ iptable' = iptable /\ pc' = pc /\ frame' = frame
  BY DEF Cluster, CreatePolicy, UpdatePolicy, DeletePolicy, CreateNetwork, UpdateNetwork,
         DeleteNetwork, Change
<1> DEFINE Q == Pending'
<1> HIDE DEF Q
<1>2. /\ np \in [Policies -> Annotations \cup {Blank, Absent}]
      /\ ln \in [Networks -> Subnets \cup {Blank, Absent}]
      /\ PolicyValues \in [Policies -> SUBSET (Annotations \cup {Blank})]
  BY ConstantsAssumption DEF IInv, TypeOK
<1> DEFINE Told ==
             /\ Appear(np, np', ln, ln') /\ Pending \subseteq Q
             /\ np' \in [Policies -> Annotations \cup {Blank, Absent}]
             /\ up = TRUE => /\ \A p \in Policies : np'[p] # np[p] => PAdd(p) \in Q
                             /\ \A n \in Networks : ln'[n] # ln[n] => NAdd(n) \in Q
<1>3. Told
  <2>1. ASSUME NEW p \in Policies, CreatePolicy(p) PROVE Told
    <3>1. Change(PAdd(p)) /\ ln' = ln /\ np[p] = Absent  BY <2>1 DEF CreatePolicy, PAdd
    <3>2. PICK a \in PolicyValues[p] : np' = [np EXCEPT ![p] = a]  BY <2>1 DEF CreatePolicy
    <3>3. PAdd(p) \in Items  BY DEF PAdd, PolicyItem, Items, PolicyItems, Verbs
    <3>4. Pending \subseteq Q /\ (up = TRUE => PAdd(p) \in Q)  BY <3>1, <3>3, ChangePending DEF Q
    <3>5. \A r \in Policies : r # p => np'[r] = np[r]  BY <1>2, <3>2
    <3>6. np' \in [Policies -> Annotations \cup {Blank, Absent}]  BY <1>2, <3>2
    <3> QED  BY <3>1, <3>4, <3>5, <3>6 DEF Appear
  <2>2. ASSUME NEW n \in Networks, CreateNetwork(n) PROVE Told
    <3>1. Change(NAdd(n)) /\ np' = np /\ ln[n] = Absent  BY <2>2 DEF CreateNetwork, NAdd
    <3>2. PICK s \in NetworkValues[n] : ln' = [ln EXCEPT ![n] = s]  BY <2>2 DEF CreateNetwork
    <3>3. NAdd(n) \in Items  BY DEF NAdd, NetworkItem, Items, NetworkItems, Verbs
    <3>4. Pending \subseteq Q /\ (up = TRUE => NAdd(n) \in Q)  BY <3>1, <3>3, ChangePending DEF Q
    <3>5. \A r \in Networks : r # n => ln'[r] = ln[r]  BY <1>2, <3>2
    <3> QED  BY <1>2, <3>1, <3>4, <3>5 DEF Appear
  <2>3. "UPDATE" \notin PolicyVerbs \cup NetworkVerbs /\ "DELETE" \notin PolicyVerbs \cup NetworkVerbs
    BY DEF OnlyCreated
  <2> QED  BY <2>1, <2>2, <2>3 DEF Cluster, UpdatePolicy, DeletePolicy, UpdateNetwork, DeleteNetwork
<1> DEFINE b == np'  v == ln'
<1> HIDE DEF b, v
<1>4. /\ Appear(np, b, ln, v) /\ b \in [Policies -> Annotations \cup {Blank, Absent}]
      /\ up = TRUE => /\ \A p \in Policies : b[p] # np[p] => PAdd(p) \in Q
                      /\ \A n \in Networks : v[n] # ln[n] => NAdd(n) \in Q
  BY <1>3 DEF b, v
<1>5. TypeOK /\ Justified(iptable, np, ln)  BY DEF IInv, EInv
<1>6. Justified(iptable, b, v)  BY <1>4, <1>5, JustAppear
<1>7. ASSUME up = TRUE, NEW l, NEW f, Due(l, f, iptable, np, ln, Pending)
      PROVE  Due(l, f, iptable, b, v, Q)
  BY <1>3, <1>4, <1>5, <1>7, DueAppear
<1>8. ASSUME up = TRUE, NEW w \in Workers, pc[w] \in Inside
      PROVE  Knows(pc[w], frame[w], iptable, b, v) /\ Due(pc[w], frame[w], iptable, b, v, Q)
  <2>1. /\ Knows(pc[w], frame[w], iptable, np, ln)
        /\ Due(pc[w], frame[w], iptable, np, ln, Pending)
    BY <1>8 DEF EInv
  <2>2. frame[w] \in Frames /\ Fits(pc[w], frame[w])  BY DEF IInv, TypeOK
  <2>3. Knows(pc[w], frame[w], iptable, b, v)  BY <1>4, <1>5, <2>1, <2>2, KnowsAppear
  <2> QED  BY <1>7, <1>8, <2>1, <2>3
<1>9. up = TRUE /\ (\A w \in Workers : pc[w] \notin Inside) =>
        Due("idle", EmptyFrame, iptable, b, v, Q)
  BY <1>7 DEF EInv
<1> QED  BY <1>1, <1>6, <1>8, <1>9 DEF EInv, Q, b, v
-----------------------------------------------------------------------------
\* The initial list of a kind holds every object of the kind.
LEMMA OrdersAll ==
  ASSUME NEW kind \in Kinds, NEW s \in Orders(Existing(kind))
  PROVE  Existing(kind) \subseteq Held(s)
<1> DEFINE S == Existing(kind)
           D == 1..Cardinality(S)
<1>1. IsFiniteSet(S)  BY ExistingFinite
<1>2. s \in [D -> S] /\ \A j, k \in DOMAIN s : j # k => s[j] # s[k]  BY DEF Orders
<1> HIDE DEF S
<1>3. Cardinality(S) \in Nat  BY <1>1, FS_CardinalityType
<1>4. Cardinality(D) = Cardinality(S)  BY <1>3, FS_Interval
<1> HIDE DEF D
<1>5. s \in Injection(D, S)  BY <1>2 DEF Injection, IsInjective
<1>6. s \in Surjection(D, S)  BY <1>1, <1>4, <1>5, FS_Injection
<1>7. \A x \in S : \E k \in DOMAIN s : s[k] = x  BY <1>2, <1>6 DEF Surjection
<1> QED  BY <1>7 DEF Held, S

\* The controller starts: every object that exists is announced.
LEMMA RunE ==
  ASSUME IInv, ChainInv, GInv, EInv, Run
  PROVE  EInv'
<1> DEFINE u == CreateBaseChain(iptable)
           Q == Pending'
<1>1. /\ up = FALSE /\ up' = TRUE /\ iptable' = u /\ pc' = pc /\ frame' = frame
      /\ np' = np /\ ln' = ln
  BY DEF Run, IInv, TypeOK, clusterVars
<1>2. iptable \in Tables /\ Orderly(iptable)  BY DEF IInv, TypeOK, GInv
<1>3. /\ u.chains = iptable.chains \cup {BaseChain} /\ u.rules[BaseChain] = << >>
      /\ \A c \in Chains \ {BaseChain, ForwardChain} : u.rules[c] = iptable.rules[c]
  BY <1>2, BaseTidy
<1> HIDE DEF u, Q
<1>4. /\ \A n \in Networks : /\ NetworkChain(n) \in u.chains => NetworkChain(n) \in iptable.chains
                             /\ u.rules[NetworkChain(n)] = iptable.rules[NetworkChain(n)]
      /\ \A p \in Policies : u.rules[PolicyChain(p)] = iptable.rules[PolicyChain(p)]
  BY <1>3, ChainKinds, ChainsApart
<1>5. \A c : Untargeted(<< >>, c)  BY DEF Untargeted
<1>6. Justified(iptable, np, ln)  BY DEF EInv
<1>7. Justified(u, np, ln)  BY <1>3, <1>4, <1>5, <1>6, JustEdit
<1>8. PICK ps \in Orders(Existing("networkpolicy")), ns \in Orders(Existing("logicalnetwork")) :
        notes' = [k \in Kinds |-> IF k = "networkpolicy" THEN ps ELSE ns]
  BY DEF Run
<1>9. /\ "networkpolicy" \in Kinds /\ "logicalnetwork" \in Kinds
      /\ notes'["networkpolicy"] = ps /\ notes'["logicalnetwork"] = ns
  BY <1>8 DEF Kinds
<1>10. \A p \in Policies : np[p] # Absent => PAdd(p) \in Q
  <2> SUFFICES ASSUME NEW p \in Policies, np[p] # Absent PROVE PAdd(p) \in Q  OBVIOUS
  <2>1. PAdd(p) \in Existing("networkpolicy")  BY DEF Existing, PAdd
  <2>2. PAdd(p) \in Held(ps)  BY <1>9, <2>1, OrdersAll
  <2>3. PAdd(p) \in Items /\ PAdd(p).kind = "networkpolicy"
    BY DEF PAdd, PolicyItem, Items, PolicyItems, Verbs
  <2> QED  BY <1>9, <2>2, <2>3 DEF Pending, Q
<1>11. \A n \in Networks : ln[n] # Absent => NAdd(n) \in Q
  <2> SUFFICES ASSUME NEW n \in Networks, ln[n] # Absent PROVE NAdd(n) \in Q  OBVIOUS
  <2>1. "logicalnetwork" # "networkpolicy"  OBVIOUS
  <2>2. NAdd(n) \in Existing("logicalnetwork")  BY <2>1 DEF Existing, NAdd
  <2>3. NAdd(n) \in Held(ns)  BY <1>9, <2>2, OrdersAll
  <2>4. NAdd(n) \in Items /\ NAdd(n).kind = "logicalnetwork"
    BY DEF NAdd, NetworkItem, Items, NetworkItems, Verbs
  <2> QED  BY <1>9, <2>3, <2>4 DEF Pending, Q
<1>12. Absent \notin Subnets  BY ConstantsAssumption
<1>13. Due("idle", EmptyFrame, u, np, ln, Q)
  BY <1>10, <1>11, <1>12 DEF Due, Imposes, Parsable, LinkDone, JumpDone, PeerDone
<1>14. \A v \in Workers : pc'[v] \notin Inside  BY <1>1 DEF ChainInv, Inside, Handlers
<1> QED  BY <1>1, <1>7, <1>13, <1>14 DEF EInv, Q

\* The end of the process leaves the table as it is.
LEMMA StopE ==
  ASSUME EInv, Stop
  PROVE  EInv'
<1>1. /\ up' = FALSE /\ iptable' = iptable /\ np' = np /\ ln' = ln
      /\ \A w \in Workers : pc'[w] = "idle"
  BY DEF Stop
<1> QED  BY <1>1 DEF EInv

\* On a node on which the controller never ran.
LEMMA InitE == Init => EInv
<1> SUFFICES ASSUME Init PROVE EInv  OBVIOUS
<1>1. /\ up = FALSE /\ \A w \in Workers : pc[w] = "idle"
      /\ \A c \in Chains : iptable.rules[c] = << >>
      /\ iptable.chains = {ForwardChain}
  BY DEF Init, FreshTable
<1>2. /\ iptable.rules[BaseChain] = << >>
      /\ \A n \in Networks : /\ iptable.rules[NetworkChain(n)] = << >>
                             /\ NetworkChain(n) \notin iptable.chains
      /\ \A p \in Policies : iptable.rules[PolicyChain(p)] = << >>
  BY <1>1, ChainKinds, ChainsApart
<1>3. (\A c : Untargeted(<< >>, c)) /\ (\A x : ~In(<< >>, x))  BY DEF Untargeted, In
<1>4. \A p \in Policies : RuleSet(iptable, PolicyChain(p)) = {}  BY <1>2, <1>3, InRuleSet
<1>5. Justified(iptable, np, ln)  BY <1>2, <1>3, <1>4 DEF Justified
<1> QED  BY <1>1, <1>5 DEF EInv

\* A step keeps EInv.
LEMMA NextE ==
  ASSUME OnlyCreated, Apart
  PROVE  IInv /\ ChainInv /\ GInv /\ EInv /\ [Next]_vars => EInv'
<1> SUFFICES ASSUME IInv, ChainInv, GInv, EInv, [Next]_vars PROVE EInv'
  OBVIOUS
<1>1. CASE UNCHANGED vars
  <2>1. Pending' = Pending  BY <1>1 DEF vars, Pending
  <2> QED  BY <1>1, <2>1, QuietE DEF vars
<1>2. CASE Cluster  BY <1>2, ClusterE
<1>3. CASE Run  BY <1>3, RunE
<1>4. CASE Stop  BY <1>4, StopE
<1>5. CASE \E k \in Kinds : Notify(k)  BY <1>5, LoopE
<1>6. ASSUME NEW w \in Workers, Handler(w) PROVE EInv'
  <2>1. pc[w] \in Inside => pc[w] \in {"policyAdd", "returned"} \cup Adding  BY OnlyAdding
  <2>2. pc[w] \notin {"policyUpdate", "policyDelete", "networkUpdate", "networkDelete",
                      "unlink", "scanNetwork", "scanBase", "networkDrop", "scanPolicy"}
    BY <2>1 DEF Inside, Handlers, Adding
  <2>3. ~(\/ handleNetworkPolicyUpdate(w) \/ handleNetworkPolicyDelete(w)
          \/ handleLogicalNetworkUpdate(w) \/ handleLogicalNetworkDelete(w)
          \/ unlinkPolicy(w) \/ scanNetworkChain(w) \/ scanBaseChain(w)
          \/ dropNetwork(w) \/ scanPolicyChain(w))
    BY <2>2 DEF handleNetworkPolicyUpdate, handleNetworkPolicyDelete,
                handleLogicalNetworkUpdate, handleLogicalNetworkDelete, unlinkPolicy,
                scanNetworkChain, scanBaseChain, dropNetwork, scanPolicyChain
  <2> QED  BY <1>6, <2>3, PolicyAddE, PopulateE, PeersE, NetworkAddE, ListE, NetworkLoopE,
              CloseE, LinkE, ImposeE, NetworkPeersE DEF Handler
<1>7. ASSUME NEW w \in Workers, Worker(w) PROVE EInv'  BY <1>6, <1>7, LoopE DEF Worker
<1> QED  BY <1>1, <1>2, <1>3, <1>4, <1>5, <1>7 DEF Next
-----------------------------------------------------------------------------
(***************************************************************************)
(* What becomes of a packet once everything is handled.                    *)
(***************************************************************************)
\* A set of rule numbers has a first one, and FirstVerdict finds it.
LEMMA Least ==
  ASSUME NEW S \in SUBSET Nat, S # {}
  PROVE  LET c == CHOOSE k \in S : \A j \in S : k <= j IN c \in S /\ \A j \in S : c <= j
<1> DEFINE R == OpToRel(<, Nat)
<1>1. IsWellFoundedOn(R, Nat)  BY NatLessThanWellFounded, Zenon
<1>2. \A x, y \in Nat : <<y, x>> \in R <=> y < x  BY DEF OpToRel
<1> HIDE DEF R
<1>3. PICK k \in S : \A j \in S : <<j, k>> \notin R  BY <1>1, WFMin
<1>4. \A j \in S : ~(j < k)  BY <1>2, <1>3
<1>5. \A j \in S : k <= j  BY <1>4
<1> QED  BY <1>5

\* A policy chain accepts what one of its rules applies to.
LEMMA PolicySays ==
  ASSUME NEW t, NEW c, NEW x, NEW y
  PROVE  PolicyVerdict(t, c, x, y) =
           IF \E k \in DOMAIN t.rules[c] : Applies(t.rules[c][k], x, y) THEN "accept" ELSE "return"
BY DEF PolicyVerdict, FirstVerdict

\* A network chain with jumps to one policy chain and a REJECT at its end
\* rejects what the policy chain does not accept.
LEMMA NetworkSays ==
  ASSUME NEW t, NEW c, NEW d, NEW x, NEW y, t.rules[c] \in Seq(Rules), d # Reject,
         In(t.rules[c], Jump(d)), In(t.rules[c], Jump(Reject)), RejectAtEnd(t.rules[c]),
         \A k \in DOMAIN t.rules[c] : t.rules[c][k] \in {Jump(d), Jump(Reject)}
  PROVE  NetworkVerdict(t, c, x, y) =
           IF PolicyVerdict(t, d, x, y) = "accept" THEN "accept" ELSE "reject"
<1> DEFINE s == t.rules[c]
           Of(r) == IF r.target = Reject THEN "reject" ELSE PolicyVerdict(t, r.target, x, y)
           H == {k \in DOMAIN s : Applies(s[k], x, y) /\ Of(s[k]) # "return"}
           h == CHOOSE k \in H : \A j \in H : k <= j
           v == PolicyVerdict(t, d, x, y)
<1>1. NetworkVerdict(t, c, x, y) = IF H = {} THEN "return" ELSE Of(s[h])
  BY DEF NetworkVerdict, FirstVerdict
<1>2. v \in {"accept", "return"}  BY PolicySays
<1>3. \A e : Applies(Jump(e), x, y) /\ Jump(e).target = e  BY DEF Applies, Jump, Rule
<1>4. Of(Jump(Reject)) = "reject" /\ Of(Jump(d)) = v  BY <1>3
<1>5. s \in Seq(Rules) /\ \A k \in DOMAIN s : s[k] \in {Jump(d), Jump(Reject)}  OBVIOUS
<1>6. PICK i \in DOMAIN s : s[i] = Jump(d)  BY DEF In
<1>7. PICK z \in DOMAIN s : s[z] = Jump(Reject)  BY DEF In
<1>8. \A k \in DOMAIN s : s[k] = Jump(Reject) => k = Len(s)
  BY <1>3 DEF RejectAtEnd, IsReject
<1>9. H \subseteq DOMAIN s /\ z \in H /\ (v = "accept" => i \in H)
  BY <1>3, <1>4, <1>6, <1>7
<1>10. \A k \in H : Of(s[k]) # "return"  OBVIOUS
<1> HIDE DEF H, Of, s
<1>11. H \in SUBSET Nat /\ H # {} /\ Len(s) \in Nat /\ DOMAIN s = 1..Len(s)  BY <1>5, <1>9
<1>12. h \in H /\ \A j \in H : h <= j  BY <1>11, Least
<1> HIDE DEF h, v
<1>13. s[h] \in {Jump(d), Jump(Reject)} /\ h \in DOMAIN s  BY <1>5, <1>9, <1>12
<1>14. CASE v = "accept"
  <2>1. i # Len(s)  BY <1>3, <1>6, <1>7, <1>8
  <2>2. h <= i /\ i < Len(s)  BY <1>9, <1>11, <1>12, <1>14, <2>1
  <2>3. h # Len(s)  BY <1>11, <1>13, <2>2
  <2>4. s[h] = Jump(d)  BY <1>8, <1>13, <2>3
  <2> QED  BY <1>1, <1>4, <1>11, <1>14, <2>4 DEF v
<1>15. CASE v = "return"
  <2>1. s[h] = Jump(Reject)  BY <1>4, <1>10, <1>12, <1>13, <1>15
  <2> QED  BY <1>1, <1>4, <1>11, <1>15, <2>1 DEF v
<1> QED  BY <1>2, <1>14, <1>15

\* When the base rules that apply agree, that is the verdict.
LEMMA BaseSays ==
  ASSUME NEW t, NEW x, NEW y, NEW want, want # "return", t.rules[BaseChain] \in Seq(Rules),
         In(t.rules[ForwardChain], Jump(BaseChain)),
         \E r \in RuleSet(t, BaseChain) : Applies(r, x, y),
         \A r \in RuleSet(t, BaseChain) : Applies(r, x, y) =>
           NetworkVerdict(t, r.target, x, y) = want
  PROVE  Verdict(t, x, y) = want
<1> DEFINE s == t.rules[BaseChain]
           H == {k \in DOMAIN s : Applies(s[k], x, y)
                                  /\ NetworkVerdict(t, s[k].target, x, y) # "return"}
           h == CHOOSE k \in H : \A j \in H : k <= j
<1>1. Jump(BaseChain) \in RuleSet(t, ForwardChain)  BY InRuleSet
<1>2. Verdict(t, x, y) = IF H = {} THEN "return" ELSE NetworkVerdict(t, s[h].target, x, y)
  BY <1>1 DEF Verdict, FirstVerdict
<1>3. \A k \in DOMAIN s : Applies(s[k], x, y) => NetworkVerdict(t, s[k].target, x, y) = want
  BY DEF RuleSet
<1>4. \E k \in DOMAIN s : Applies(s[k], x, y)  BY DEF RuleSet
<1>5. H # {} /\ H \subseteq DOMAIN s /\ \A k \in H : NetworkVerdict(t, s[k].target, x, y) = want
  BY <1>3, <1>4
<1>6. H \in SUBSET Nat  BY <1>5
<1> HIDE DEF H
<1>7. h \in H  BY <1>5, <1>6, Least
<1> QED  BY <1>2, <1>5, <1>7

\* When nothing is pending, everything the objects ask for is there.
LEMMA AtRest ==
  ASSUME IInv, ChainInv, GInv, EInv, FixedSubnets, Quiescent
  PROVE  /\ Justified(iptable, np, ln) /\ Calm(iptable)
         /\ In(iptable.rules[ForwardChain], Jump(BaseChain))
         /\ \A p \in Policies, n \in Networks : Imposes(np, p, n) /\ ln[n] \in Subnets =>
              /\ In(iptable.rules[NetworkChain(n)], Jump(PolicyChain(p)))
              /\ \A d \in {"-s", "-d"} : In(iptable.rules[BaseChain], Link(n, d, ln[n]))
              /\ \A m \in PeersOf(np[p], n) : ln[m] \in Subnets =>
                   \A d \in {"-s", "-d"} :
                     In(iptable.rules[PolicyChain(p)], Rule(d, ln[m], Accept))
<1>1. Pending = {}  BY NonePending
<1>2. up = TRUE /\ \A w \in Workers : pc[w] \notin Inside
  BY DEF Quiescent, IInv, TypeOK, Inside, Handlers
<1>3. Due("idle", EmptyFrame, iptable, np, ln, {})  BY <1>1, <1>2 DEF EInv
<1>4. \A p, n, m : /\ ~LinkTodo("idle", EmptyFrame, n) /\ ~JumpTodo("idle", EmptyFrame, p, n)
                   /\ ~PeerTodo("idle", EmptyFrame, p, n, m)
  <2>1. "idle" \notin Adding  BY DEF Adding
  <2> QED  BY <2>1, NothingTodo
<1>5. Justified(iptable, np, ln) /\ Calm(iptable) /\ Orderly(iptable)
      /\ In(iptable.rules[ForwardChain], Jump(BaseChain)) /\ iptable \in Tables
  BY <1>2 DEF EInv, ChainInv, GInv, IInv, TypeOK
<1>6. ASSUME NEW p \in Policies, NEW n \in Networks, Imposes(np, p, n), ln[n] \in Subnets
      PROVE  /\ In(iptable.rules[NetworkChain(n)], Jump(PolicyChain(p)))
             /\ \A d \in {"-s", "-d"} : In(iptable.rules[BaseChain], Link(n, d, ln[n]))
             /\ \A m \in PeersOf(np[p], n) : ln[m] \in Subnets =>
                  \A d \in {"-s", "-d"} :
                    In(iptable.rules[PolicyChain(p)], Rule(d, ln[m], Accept))
  <2>1. /\ LinkDone(iptable, ln, {}, n) /\ JumpDone(iptable, {}, p, n)
        /\ \A m \in PeersOf(np[p], n) : ln[m] \in Subnets => PeerDone(iptable, ln, {}, p, n, m)
    BY <1>3, <1>4, <1>6 DEF Due
  <2>2. In(iptable.rules[NetworkChain(n)], Jump(PolicyChain(p)))  BY <2>1 DEF JumpDone
  <2>3. NetworkChain(n) \in iptable.chains
    BY <1>5, <2>2, EmptyIn, ChainKinds DEF Orderly
  <2>4. In(iptable.rules[BaseChain], Link(n, "-s", ln[n]))  BY <2>1, <2>3 DEF LinkDone
  <2>5. iptable.rules[BaseChain] \in Seq(Rules)  BY <1>5, TableTypes, ChainKinds
  <2>6. In(iptable.rules[BaseChain], Link(n, "-d", ln[n]))
    BY <1>5, <1>6, <2>4, <2>5, Partner DEF Calm
  <2> QED  BY <2>1, <2>2, <2>4, <2>6 DEF PeerDone
<1> QED  BY <1>5, <1>6

\* A packet between a selected network and another one, either way, is
\* accepted by the chain of the first if the second is a peer, else rejected.
LEMMA SelectedSays ==
  ASSUME IInv, ChainInv, GInv, EInv, FixedSubnets, Apart, Quiescent,
         NEW p \in Policies, NEW n \in Networks, NEW m \in Networks,
         Imposes(np, p, n), n # m, ln[n] \in Subnets, ln[m] \in Subnets, NEW x, NEW y,
         \/ x = ln[n] /\ y = ln[m]
         \/ x = ln[m] /\ y = ln[n]
  PROVE  NetworkVerdict(iptable, NetworkChain(n), x, y) =
           IF m \in PeersOf(np[p], n) THEN "accept" ELSE "reject"
<1> DEFINE c == NetworkChain(n)
           d == PolicyChain(p)
           s == iptable.rules[c]
<1>1. /\ Justified(iptable, np, ln) /\ Calm(iptable) /\ In(s, Jump(d))
      /\ In(iptable.rules[BaseChain], Link(n, "-s", ln[n]))
      /\ m \in PeersOf(np[p], n) =>
           \A e \in {"-s", "-d"} : In(iptable.rules[d], Rule(e, ln[m], Accept))
  BY AtRest
<1>2. /\ iptable \in Tables /\ Sound(iptable) /\ Orderly(iptable) /\ PlainTable(iptable) /\ TypeOK
  BY DEF IInv, TypeOK, GInv, ChainInv
<1>3. c \in Chains /\ c \in NetworkChains /\ d \in Chains /\ d # Reject  BY ChainKinds
<1>4. s \in Seq(Rules) /\ RejectAtEnd(s)  BY <1>2, <1>3, TableTypes DEF Sound
<1>5. In(s, Jump(Reject))
  <2>1. ~Untargeted(iptable.rules[BaseChain], c)
    BY <1>1 DEF Untargeted, In, Link, Rule
  <2> QED  BY <1>1, <2>1 DEF Calm, ClosedIn
<1>6. \A k \in DOMAIN s : s[k] \in {Jump(d), Jump(Reject)}
  <2> SUFFICES ASSUME NEW k \in DOMAIN s PROVE s[k] \in {Jump(d), Jump(Reject)}  OBVIOUS
  <2>1. s[k] = Jump(s[k].target)  BY <1>2 DEF PlainTable, OnlyJumps
  <2>2. s[k] \in RuleSet(iptable, c)  BY DEF RuleSet
  <2>3. s[k].target \in PolicyChains \cup {Reject}
    BY <1>2, <1>3, <2>2 DEF Orderly, Belongs
  <2>4. ASSUME NEW r \in Policies, s[k].target = PolicyChain(r) PROVE r = p
    <3>1. Imposes(np, r, n)  BY <1>1, <2>4 DEF Justified, Untargeted
    <3> QED  BY <3>1, Selected
  <2> QED  BY <2>1, <2>3, <2>4 DEF PolicyChains
<1>7. NetworkVerdict(iptable, c, x, y) =
        IF PolicyVerdict(iptable, d, x, y) = "accept" THEN "accept" ELSE "reject"
  BY <1>1, <1>3, <1>4, <1>5, <1>6, NetworkSays
<1> HIDE DEF c, s
<1>8. ASSUME m \in PeersOf(np[p], n)
      PROVE  \E k \in DOMAIN iptable.rules[d] : Applies(iptable.rules[d][k], x, y)
  <2>1. PICK e \in {"-s", "-d"} : Applies(Rule(e, ln[m], Accept), x, y)
    <3>1. CASE x = ln[m]  BY <3>1 DEF Applies, Rule
    <3>2. CASE y = ln[m]  BY <3>2 DEF Applies, Rule
    <3> QED  BY <3>1, <3>2
  <2>2. In(iptable.rules[d], Rule(e, ln[m], Accept))  BY <1>1, <1>8
  <2> QED  BY <2>1, <2>2 DEF In
<1>9. ASSUME NEW k \in DOMAIN iptable.rules[d], Applies(iptable.rules[d][k], x, y)
      PROVE  m \in PeersOf(np[p], n)
  <2> DEFINE r == iptable.rules[d][k]
  <2>1. r \in RuleSet(iptable, d)  BY DEF RuleSet
  <2>2. PeerRule(r, p, np, ln)  BY <1>1, <2>1 DEF Justified
  <2>3. PICK a \in Selectors(np[p]) : \E b \in PeersOf(np[p], a) : r.net = ln[b]
    BY <2>2 DEF PeerRule
  <2>4. PICK b \in PeersOf(np[p], a) : r.net = ln[b]  BY <2>3
  <2>5. Imposes(np, p, a)  BY <2>2 DEF PeerRule, Imposes
  <2>6. b \in PeersOf(np[p], n) /\ b \in Networks  BY <1>2, <2>4, <2>5, Selected, ImposesTypes
  <2>7. b # n  BY <2>6, Selected
  <2>8. r.net \in {x, y}  BY <1>9, <2>2 DEF PeerRule, Applies
  <2>9. ln[b] = ln[n] \/ ln[b] = ln[m]  BY <2>4, <2>8
  <2>10. b = m  BY <2>6, <2>7, <2>9, SubnetsApart
  <2> QED  BY <2>6, <2>10
<1>10. PolicyVerdict(iptable, d, x, y) = IF m \in PeersOf(np[p], n) THEN "accept" ELSE "return"
  BY <1>8, <1>9, PolicySays
<1> QED  BY <1>7, <1>10 DEF c

\* The networks whose links apply to a packet between two networks.
LEMMA LinksApply ==
  ASSUME IInv, Calm(iptable), ChainInv, Apart,
         NEW n \in Networks, NEW m \in Networks, ln[n] \in Subnets, ln[m] \in Subnets,
         NEW x \in {ln[n], ln[m]}, NEW y \in {ln[n], ln[m]},
         NEW r \in RuleSet(iptable, BaseChain), Applies(r, x, y)
  PROVE  r.target \in {NetworkChain(n), NetworkChain(m)}
<1> DEFINE s == iptable.rules[BaseChain]
<1>1. s \in Seq(Rules) /\ Paired(s)
  BY TableTypes, ChainKinds DEF IInv, TypeOK, Calm
<1>2. PICK i \in DOMAIN s : s[i] = r  BY DEF RuleSet
<1>3. PICK k \in DOMAIN s : PairAt(s, k) /\ (i = 2 * k - 1 \/ i = 2 * k)  BY <1>1, Halves
<1>4. PICK o \in Networks, z \in Subnets :
        z \in NetworkValues[o] /\ (r = Link(o, "-d", z) \/ r = Link(o, "-s", z))
  BY <1>2, <1>3 DEF PairAt
<1>5. r.target = NetworkChain(o) /\ z \in {x, y}  BY <1>4 DEF Link, Rule, Applies
<1>6. ln[n] \in NetworkValues[n] /\ ln[m] \in NetworkValues[m]
  BY ConstantsAssumption DEF ChainInv
<1>7. o = n \/ o = m  BY <1>4, <1>5, <1>6 DEF Apart
<1> QED  BY <1>5, <1>7

\* The policies are enforced once everything is handled.
LEMMA EnforcedAtRest ==
  ASSUME IInv, ChainInv, GInv, EInv, FixedSubnets, Apart
  PROVE  Enforced
<1> SUFFICES ASSUME Quiescent, NEW n \in Connected, Selecting(n) # {}, NEW m \in Connected \ {n},
                    NEW x, NEW y,
                    \/ x = ln[n] /\ y = ln[m]
                    \/ x = ln[m] /\ y = ln[n]
             PROVE  Verdict(iptable, x, y) =
                      IF m \in PeersWanted(n) \/ n \in PeersWanted(m)
                      THEN "accept" ELSE "reject"
  BY DEF Enforced
<1> DEFINE want == IF m \in PeersWanted(n) \/ n \in PeersWanted(m) THEN "accept" ELSE "reject"
<1>1. n \in Networks /\ m \in Networks /\ n # m /\ ln[n] \in Subnets /\ ln[m] \in Subnets
  BY DEF Connected
<1>2. \A k : \A r \in Policies : r \in Selecting(k) <=> Imposes(np, r, k)
  BY DEF Selecting, Imposes
<1>3. PICK p \in Policies : Imposes(np, p, n)  BY <1>2 DEF Selecting
<1>4. /\ Justified(iptable, np, ln) /\ Calm(iptable)
      /\ In(iptable.rules[ForwardChain], Jump(BaseChain))
      /\ \A e \in {"-s", "-d"} : In(iptable.rules[BaseChain], Link(n, e, ln[n]))
  BY <1>1, <1>3, AtRest
<1>5. ASSUME NEW k, NEW r \in Policies, Imposes(np, r, k) PROVE PeersWanted(k) = PeersOf(np[r], k)
  <2>1. Selecting(k) = {r}
    <3>1. \A o \in Policies : Imposes(np, o, k) => o = r  BY <1>5, Selected
    <3>2. Selecting(k) \subseteq Policies  BY DEF Selecting
    <3> QED  BY <1>2, <1>5, <3>1, <3>2
  <2> QED  BY <2>1 DEF PeersWanted
<1>6. n \notin PeersWanted(m)
  <2> SUFFICES ASSUME n \in PeersWanted(m) PROVE FALSE  OBVIOUS
  <2>1. PICK r \in Policies : Imposes(np, r, m) /\ n \in PeersOf(np[r], m)
    BY <1>2 DEF PeersWanted, Selecting
  <2> QED  BY <1>3, <2>1, Selected
<1>7. NetworkVerdict(iptable, NetworkChain(n), x, y) = want
  <2>1. NetworkVerdict(iptable, NetworkChain(n), x, y) =
          IF m \in PeersOf(np[p], n) THEN "accept" ELSE "reject"
    BY <1>1, <1>3, SelectedSays
  <2>2. PeersWanted(n) = PeersOf(np[p], n)  BY <1>3, <1>5
  <2> QED  BY <1>6, <2>1, <2>2
<1>8. ~Untargeted(iptable.rules[BaseChain], NetworkChain(m)) =>
        NetworkVerdict(iptable, NetworkChain(m), x, y) = want
  <2> SUFFICES ASSUME ~Untargeted(iptable.rules[BaseChain], NetworkChain(m))
               PROVE  NetworkVerdict(iptable, NetworkChain(m), x, y) = want
    OBVIOUS
  <2>1. PICK r \in Policies : Imposes(np, r, m)  BY <1>1, <1>4 DEF Justified
  <2>2. m \notin PeersOf(np[p], n) /\ n \notin PeersOf(np[r], m)  BY <1>3, <2>1, Selected
  <2>3. NetworkVerdict(iptable, NetworkChain(m), x, y) =
          IF n \in PeersOf(np[r], m) THEN "accept" ELSE "reject"
    BY <1>1, <2>1, SelectedSays
  <2>4. PeersWanted(n) = PeersOf(np[p], n)  BY <1>3, <1>5
  <2> QED  BY <1>6, <2>2, <2>3, <2>4
<1> HIDE DEF want
<1>9. ASSUME NEW r \in RuleSet(iptable, BaseChain), Applies(r, x, y)
      PROVE  NetworkVerdict(iptable, r.target, x, y) = want
  <2>1. r.target \in {NetworkChain(n), NetworkChain(m)}  BY <1>1, <1>4, <1>9, LinksApply
  <2>2. ~Untargeted(iptable.rules[BaseChain], r.target)  BY <1>9 DEF Untargeted, RuleSet
  <2> QED  BY <1>7, <1>8, <2>1, <2>2
<1>10. \E r \in RuleSet(iptable, BaseChain) : Applies(r, x, y)
  <2>1. PICK e \in {"-s", "-d"} : Applies(Link(n, e, ln[n]), x, y)
    <3>1. CASE x = ln[n]  BY <3>1 DEF Applies, Link, Rule
    <3>2. CASE y = ln[n]  BY <3>2 DEF Applies, Link, Rule
    <3> QED  BY <3>1, <3>2
  <2> QED  BY <1>4, <2>1, InRuleSet
<1>11. want # "return"  BY DEF want
<1>12. iptable.rules[BaseChain] \in Seq(Rules)  BY TableTypes, ChainKinds DEF IInv, TypeOK
<1>13. Verdict(iptable, x, y) = want  BY <1>4, <1>9, <1>10, <1>11, <1>12, BaseSays
<1> QED  BY <1>13 DEF want

(***************************************************************************)
(* Where objects are created and never changed or deleted, and no network  *)
(* is selected by two policies or is both selected and a peer, the         *)
(* controller enforces the policies, whatever the order in which objects   *)
(* appear, the two informers deliver and the workers run, and wherever the *)
(* process ends and is started again: once everything is handled, a        *)
(* selected network exchanges packets with its peers and with no other     *)
(* network (handleNetworkPolicyAdd, populatePolicyChain,                   *)
(* handleLogicalNetworkAdd).                                               *)
(***************************************************************************)
THEOREM PoliciesEnforced ==
  ASSUME FixedSubnets, OnlyCreated, Apart
  PROVE  Spec => []Enforced
<1>1. Init => GInv /\ EInv  BY InitG, InitE
<1>2. IInv /\ ChainInv /\ GInv /\ EInv /\ [Next]_vars => GInv' /\ EInv'
  BY NextG, NextE
<1>3. IInv /\ ChainInv /\ GInv /\ EInv => Enforced  BY EnforcedAtRest
<1> QED  BY <1>1, <1>2, <1>3, ChainInvariance, PTL DEF Spec
=============================================================================
