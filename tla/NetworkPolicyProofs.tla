------------------------- MODULE NetworkPolicyProofs -------------------------
(***************************************************************************)
(* The network policy controller keeps its types, its queue, its mutex and *)
(* its rule tables in order, for every set of policies, networks, subnets, *)
(* annotations and workers, and with any number of restarts; and its queue,*)
(* workers and mutex implement KeyHandling.                                *)
(***************************************************************************)
EXTENDS NetworkPolicyProperties, WorkQueueProofs, FiniteSetTheorems

(***************************************************************************)
(* The filter table: what the iptables helpers preserve.                   *)
(***************************************************************************)
\* No chain of t holds a rule twice.
Distinct(s) == \A j, k \in DOMAIN s : j # k => s[j] # s[k]

IsReject(r) == r.target = Reject

\* A rule to REJECT is the last of s, and rejects every packet.
RejectAtEnd(s) ==
  \A k \in DOMAIN s : IsReject(s[k]) => k = Len(s) /\ s[k] = Jump(Reject)

\* The tables the helpers keep within: typed, without repeated rules, and
\* with nothing behind the REJECT of a network chain.
Sound(t) ==
  /\ t \in Tables
  /\ \A c \in Chains : Distinct(t.rules[c])
  /\ \A c \in NetworkChains : RejectAtEnd(t.rules[c])

\* The same table with the rules of chain c replaced.
WithRules(t, c, s) == [t EXCEPT !.rules = [t.rules EXCEPT ![c] = s]]
-----------------------------------------------------------------------------
\* The kinds of chains and the built-in targets are told apart by their kind.
LEMMA ChainKinds ==
  /\ \A p \in Policies : PolicyChain(p) \in Chains /\ PolicyChain(p) \notin NetworkChains
                         /\ PolicyChain(p) # Reject
  /\ \A n \in Networks : NetworkChain(n) \in NetworkChains /\ NetworkChain(n) \in Chains
                         /\ NetworkChain(n) # Reject
  /\ BaseChain \in Chains \ NetworkChains
  /\ ForwardChain \in Chains \ NetworkChains
  /\ NoChain \in Chains \ NetworkChains
  /\ Chains \subseteq Targets
  /\ Accept \in Targets /\ Reject \in Targets
BY DEF Chains, Targets, PolicyChains, NetworkChains, PolicyChain, NetworkChain,
       BaseChain, ForwardChain, NoChain, Accept, Reject, Chain

\* Rules to chains, and rules for a subnet, are rules.
LEMMA RuleTypes ==
  /\ \A c \in Targets : Jump(c) \in Rules
  /\ \A d \in {"-s", "-d"}, s \in Subnets \cup {Blank}, c \in Targets : Rule(d, s, c) \in Rules
  /\ \A d, s, c : Rule(d, s, c).target = c
  /\ \A c : Jump(c).target = c
BY DEF Jump, Rule, Rules

\* A table with the rules of one chain replaced by sound ones is sound.
LEMMA ReplaceRules ==
  ASSUME NEW t, Sound(t), NEW c \in Chains, NEW s \in Seq(Rules), Distinct(s),
         c \in NetworkChains => RejectAtEnd(s)
  PROVE  Sound(WithRules(t, c, s))
<1>1. t \in Tables  BY DEF Sound
<1>2. WithRules(t, c, s) \in Tables
  BY <1>1 DEF Tables, WithRules
<1>3. \A d \in Chains : WithRules(t, c, s).rules[d] = IF d = c THEN s ELSE t.rules[d]
  BY <1>1 DEF Tables, WithRules
<1>4. NetworkChains \subseteq Chains  BY DEF Chains
<1> QED  BY <1>2, <1>3, <1>4 DEF Sound

\* Adding a chain to, or removing one from, the chains that exist.
LEMMA ReplaceChains ==
  ASSUME NEW t, Sound(t), NEW C \in SUBSET Chains
  PROVE  Sound([t EXCEPT !.chains = C])
<1>1. /\ [t EXCEPT !.chains = C] \in Tables
      /\ [t EXCEPT !.chains = C].rules = t.rules
  BY DEF Tables, Sound
<1> QED  BY <1>1 DEF Sound

\* A node on which the controller never ran.
LEMMA FreshTableSound == Sound(FreshTable)
<1>1. FreshTable \in Tables  BY ChainKinds DEF FreshTable, Tables
<1>2. \A c \in Chains : FreshTable.rules[c] = << >>  BY DEF FreshTable
<1>3. NetworkChains \subseteq Chains  BY DEF Chains
<1> QED  BY <1>1, <1>2, <1>3 DEF Sound, Distinct, RejectAtEnd
-----------------------------------------------------------------------------
\* ClearChain leaves the chain empty and the others as they were.
LEMMA ClearChainSound ==
  ASSUME NEW t, Sound(t), NEW c \in Chains
  PROVE  /\ Sound(ClearChain(t, c))
         /\ ClearChain(t, c).rules[c] = << >>
         /\ ClearChain(t, c).chains = t.chains \cup {c}
<1> DEFINE u == ClearChain(t, c)
<1>1. t \in Tables  BY DEF Sound
<1>2. << >> \in Seq(Rules) /\ DOMAIN << >> = {}  OBVIOUS
<1>3. Distinct(<< >>) /\ RejectAtEnd(<< >>)  BY <1>2 DEF Distinct, RejectAtEnd
<1>4. /\ u \in Tables
      /\ u.chains = t.chains \cup {c}
      /\ \A d \in Chains : u.rules[d] = IF d = c THEN << >> ELSE t.rules[d]
  BY <1>1, <1>2 DEF ClearChain, Tables
<1>5. NetworkChains \subseteq Chains  BY DEF Chains
<1> HIDE DEF u
<1>6. Sound(u)  BY <1>3, <1>4, <1>5 DEF Sound
<1> QED  BY <1>4, <1>6 DEF u

\* A new rule that is no REJECT may go to the front of any chain.
LEMMA InsertSound ==
  ASSUME NEW t, Sound(t), NEW c \in Chains, NEW r \in Rules, r.target # Reject,
         r \notin RuleSet(t, c)
  PROVE  Sound(Insert(t, c, r).tbl)
<1>1. t \in Tables /\ t.rules[c] \in Seq(Rules)  BY DEF Sound, Tables
<1> DEFINE s == t.rules[c]
           u == <<r>> \o s
<1>2. /\ u \in Seq(Rules) /\ Len(u) = Len(s) + 1
      /\ u[1] = r
      /\ \A k \in DOMAIN u : k # 1 => k - 1 \in DOMAIN s /\ u[k] = s[k - 1]
  BY <1>1
<1>3. Distinct(s) /\ (c \in NetworkChains => RejectAtEnd(s))  BY DEF Sound
<1>4. \A k \in DOMAIN s : s[k] # r  BY DEF RuleSet
<1>5. Distinct(u)
  BY <1>1, <1>2, <1>3, <1>4 DEF Distinct
<1>6. c \in NetworkChains => RejectAtEnd(u)
  <2>1. ~IsReject(r)  BY DEF IsReject
  <2> QED  BY <1>1, <1>2, <1>3, <2>1 DEF RejectAtEnd
<1>7. Sound(WithRules(t, c, u))  BY <1>2, <1>5, <1>6, ReplaceRules
<1> QED  BY <1>7 DEF Insert, Result, WithRules

\* AppendUnique may add any rule to a chain that is no network's, and the
\* REJECT to one that is.
LEMMA AppendUniqueSound ==
  ASSUME NEW t, Sound(t), NEW c \in Chains, NEW r \in Rules,
         c \in NetworkChains => r = Jump(Reject)
  PROVE  Sound(AppendUnique(t, c, r).tbl)
<1>1. t \in Tables /\ t.rules[c] \in Seq(Rules)  BY DEF Sound, Tables
<1> DEFINE s == t.rules[c]
           u == Append(s, r)
<1>2. CASE Refusal(t, c, r) = 0 /\ r \notin RuleSet(t, c)
  <2>1. /\ u \in Seq(Rules) /\ Len(u) = Len(s) + 1
        /\ u[Len(u)] = r
        /\ \A k \in DOMAIN u : k # Len(u) => k \in DOMAIN s /\ u[k] = s[k]
    BY <1>1
  <2>2. Distinct(s)  BY DEF Sound
  <2>3. \A k \in DOMAIN s : s[k] # r  BY <1>2 DEF RuleSet
  <2>4. Distinct(u)  BY <1>1, <2>1, <2>2, <2>3 DEF Distinct
  <2>5. ASSUME c \in NetworkChains  PROVE RejectAtEnd(u)
    <3>1. RejectAtEnd(s) /\ r = Jump(Reject)  BY <2>5 DEF Sound
    <3>2. \A k \in DOMAIN s : ~IsReject(s[k])  BY <2>3, <3>1 DEF RejectAtEnd
    <3> QED  BY <2>1, <3>1, <3>2 DEF RejectAtEnd
  <2>6. Sound(WithRules(t, c, u))  BY <2>1, <2>4, <2>5, ReplaceRules
  <2> QED  BY <1>2, <2>6 DEF AppendUnique, Result, WithRules
<1>3. CASE ~(Refusal(t, c, r) = 0 /\ r \notin RuleSet(t, c))
  BY <1>3 DEF AppendUnique, Result
<1> QED  BY <1>2, <1>3

\* Removing the k-th rule keeps the others, in their order.
LEMMA WithoutNthRules ==
  ASSUME NEW s \in Seq(Rules), NEW k \in 1..Len(s)
  PROVE  /\ WithoutNth(s, k) \in Seq(Rules)
         /\ Distinct(s) => Distinct(WithoutNth(s, k))
         /\ RejectAtEnd(s) => RejectAtEnd(WithoutNth(s, k))
<1> DEFINE u == WithoutNth(s, k)
           N == Len(s) - 1
<1>1. N \in Nat /\ DOMAIN s = 1..(N + 1) /\ Len(s) = N + 1  OBVIOUS
<1>2. u \in Seq(Rules) /\ Len(u) = N /\ DOMAIN u = 1..N
  BY <1>1 DEF WithoutNth
<1>3. \A j \in 1..N : (j < k => u[j] = s[j]) /\ (j >= k => u[j] = s[j + 1])
  BY <1>1 DEF WithoutNth
<1>4. k \in 1..(N + 1)  BY <1>1
<1> HIDE DEF u, N
<1>5. \A i, j \in 1..N : i < j => \E a, b \in 1..(N + 1) : a # b /\ u[i] = s[a] /\ u[j] = s[b]
  <2> SUFFICES ASSUME NEW i \in 1..N, NEW j \in 1..N, i < j
               PROVE  \E a, b \in 1..(N + 1) : a # b /\ u[i] = s[a] /\ u[j] = s[b]
    OBVIOUS
  <2>1. CASE j < k  BY <1>1, <1>3, <1>4, <2>1
  <2>2. CASE i < k /\ j >= k  BY <1>1, <1>3, <1>4, <2>2
  <2>3. CASE i >= k  BY <1>1, <1>3, <1>4, <2>3
  <2> QED  BY <1>4, <1>1, <2>1, <2>2, <2>3
<1>6. \A j \in 1..N : \E a \in 1..(N + 1) : u[j] = s[a] /\ (a = N + 1 => j = N)
  <2> SUFFICES ASSUME NEW j \in 1..N
               PROVE  \E a \in 1..(N + 1) : u[j] = s[a] /\ (a = N + 1 => j = N)
    OBVIOUS
  <2>1. CASE j < k  BY <1>1, <1>3, <1>4, <2>1
  <2>2. CASE j >= k  BY <1>1, <1>3, <1>4, <2>2
  <2> QED  BY <1>1, <1>4, <2>1, <2>2
<1>7. Distinct(s) => Distinct(u)
  <2>1. \A i, j \in 1..N : i # j => i < j \/ j < i  BY <1>1
  <2> SUFFICES ASSUME Distinct(s), NEW i \in 1..N, NEW j \in 1..N, i < j
               PROVE  u[i] # u[j]
    BY <1>2, <2>1 DEF Distinct
  <2>2. PICK a \in 1..(N + 1), b \in 1..(N + 1) : a # b /\ u[i] = s[a] /\ u[j] = s[b]
    BY <1>5
  <2> QED  BY <1>1, <2>2, Zenon DEF Distinct
<1>8. ASSUME RejectAtEnd(s)  PROVE RejectAtEnd(u)
  <2> SUFFICES ASSUME NEW j \in 1..N, IsReject(u[j])
               PROVE  j = N /\ u[j] = Jump(Reject)
    BY <1>2, Zenon DEF RejectAtEnd
  <2>1. PICK a \in 1..(N + 1) : u[j] = s[a] /\ (a = N + 1 => j = N)  BY <1>6
  <2>2. a = Len(s) /\ s[a] = Jump(Reject)  BY <1>1, <1>8, <2>1, Zenon DEF RejectAtEnd
  <2> QED  BY <1>1, <2>1, <2>2
<1> QED  BY <1>2, <1>7, <1>8 DEF u

\* A rule may be deleted by any number, from any chain.
LEMMA DeleteNthSound ==
  ASSUME NEW t, Sound(t), NEW c \in Chains, NEW k \in Nat
  PROVE  Sound(DeleteNth(t, c, k).tbl)
<1>1. t \in Tables /\ t.rules[c] \in Seq(Rules)  BY DEF Sound, Tables
<1> DEFINE s == t.rules[c]
           u == WithoutNth(s, k)
<1>2. CASE k # 0 /\ c \in t.chains /\ k \in 1..Len(s)
  <2>1. Distinct(s) /\ (c \in NetworkChains => RejectAtEnd(s))  BY DEF Sound
  <2>2. u \in Seq(Rules) /\ Distinct(u) /\ (c \in NetworkChains => RejectAtEnd(u))
    BY <1>1, <1>2, <2>1, WithoutNthRules
  <2>3. Sound(WithRules(t, c, u))  BY <2>2, ReplaceRules
  <2> QED  BY <1>2, <2>3 DEF DeleteNth, Result, WithRules
<1>3. CASE ~(k # 0 /\ c \in t.chains /\ k \in 1..Len(s))
  BY <1>3 DEF DeleteNth, Result
<1> QED  BY <1>2, <1>3
-----------------------------------------------------------------------------
\* DeleteIptableChain, whether or not the chain can be removed.
LEMMA DeleteIptableChainSound ==
  ASSUME NEW t, Sound(t), NEW c \in Chains
  PROVE  Sound(DeleteIptableChain(t, c).tbl)
<1> DEFINE u == ClearChain(t, c)
<1>1. Sound(u)  BY ClearChainSound
<1>2. u.chains \ {c} \in SUBSET Chains  BY <1>1 DEF Sound, Tables
<1>3. Sound([u EXCEPT !.chains = u.chains \ {c}])  BY <1>1, <1>2, ReplaceChains
<1> QED  BY <1>1, <1>3 DEF DeleteIptableChain, DeleteChain, Result

\* InsertRule, whatever its outcome.
LEMMA InsertRuleSound ==
  ASSUME NEW t, Sound(t), NEW c \in Chains, NEW r \in Rules, r.target # Reject
  PROVE  Sound(InsertRule(t, c, r).tbl)
<1>1. CASE r \in RuleSet(t, c)  BY <1>1 DEF InsertRule, Result
<1>2. CASE r \notin RuleSet(t, c)
  <2>1. Sound(Insert(t, c, r).tbl)  BY <1>2, InsertSound
  <2> QED  BY <1>2, <2>1 DEF InsertRule, Result
<1> QED  BY <1>1, <1>2

\* CreateBaseChain, on a fresh node and after a restart.
LEMMA CreateBaseChainSound ==
  ASSUME NEW t, Sound(t)
  PROVE  Sound(CreateBaseChain(t))
<1> DEFINE u == ClearChain(t, BaseChain)
<1>1. Sound(u)  BY ClearChainSound, ChainKinds
<1>2. Jump(BaseChain) \in Rules /\ Jump(BaseChain).target # Reject
  BY ChainKinds, RuleTypes DEF BaseChain, Reject, Chain
<1>3. CASE Jump(BaseChain) \in RuleSet(u, ForwardChain)
  BY <1>1, <1>3 DEF CreateBaseChain
<1>4. CASE Jump(BaseChain) \notin RuleSet(u, ForwardChain)
  <2>1. Sound(Insert(u, ForwardChain, Jump(BaseChain)).tbl)
    BY <1>1, <1>2, <1>4, ChainKinds, InsertSound
  <2> QED  BY <1>4, <2>1 DEF CreateBaseChain
<1> QED  BY <1>3, <1>4

\* A link of the base chain, also with a subnet that iptables refuses.
LEMMA LinkSound ==
  ASSUME NEW t, Sound(t), NEW n \in Networks, NEW s \in Subnets \cup {Blank},
         NEW d \in {"-s", "-d"}
  PROVE  Sound(AppendUnique(t, BaseChain, Link(n, d, s)).tbl)
<1>1. BaseChain \in Chains /\ BaseChain \notin NetworkChains  BY ChainKinds
<1>2. Link(n, d, s) \in Rules  BY ChainKinds, RuleTypes DEF Link
<1> QED  BY <1>1, <1>2, AppendUniqueSound

\* insertPeerRule, also with a subnet that iptables refuses.
LEMMA insertPeerRuleSound ==
  ASSUME NEW t, Sound(t), NEW p \in Policies, NEW s \in Subnets \cup {Blank}
  PROVE  Sound(insertPeerRule(t, p, s))
<1> DEFINE from == AppendUnique(t, PolicyChain(p), Rule("-s", s, Accept))
<1>1. PolicyChain(p) \in Chains /\ PolicyChain(p) \notin NetworkChains
  BY ChainKinds
<1>2. Rule("-s", s, Accept) \in Rules /\ Rule("-d", s, Accept) \in Rules
  BY ChainKinds, RuleTypes
<1>3. Sound(from.tbl)  BY <1>1, <1>2, AppendUniqueSound
<1>4. Sound(AppendUnique(from.tbl, PolicyChain(p), Rule("-d", s, Accept)).tbl)
  BY <1>1, <1>2, <1>3, AppendUniqueSound
<1> QED  BY <1>3, <1>4 DEF insertPeerRule
-----------------------------------------------------------------------------
(***************************************************************************)
(* The controller.                                                         *)
(***************************************************************************)
\* Labels at which a worker handles a key of a policy, a network that is
\* set, and a policy of policyInfo.
AtPolicy  == {"policyAdd", "policyUpdate", "policyDelete", "populate", "peers",
              "unlink", "scanNetwork"}
AtNetwork == {"networkAdd", "networkUpdate", "networkDelete", "networkList",
              "networkPolicies", "close", "linkTo", "linkFrom", "impose",
              "networkPeers", "scanNetwork", "scanBase", "networkDrop", "scanPolicy"}
AtInfo    == {"close", "linkTo", "linkFrom", "impose", "networkPeers", "scanPolicy"}

\* The local variables f fit the label l.
Fits(l, f) ==
  /\ l # "idle" => f.item \in Items
  /\ l \in AtPolicy => f.item \in PolicyItems
  /\ l \in AtNetwork => f.cur \in Networks
  /\ l = "got" /\ f.item \in NetworkItems => f.cur \in Networks
  /\ l \in AtInfo => f.policy \in Policies

\* The worker inside syncHandler holds the mutex.
Holds(w) == pc[w] \in Inside => mutex = w

(***************************************************************************)
(* The inductive invariant.  TypeOK alone is not preserved: a handler uses *)
(* the key, the network and the policy in its frame as indices, and they   *)
(* are known to be there only from the label it is at.                     *)
(***************************************************************************)
IInv ==
  /\ TypeOK
  /\ Sound(iptable)
  /\ KeysHandledOnce
  /\ \A w \in Workers : Fits(pc[w], frame[w])
  /\ \A w \in Workers : Holds(w)

-----------------------------------------------------------------------------
\* A key is a policy's or a network's, and its kind tells which.
LEMMA ItemKinds ==
  /\ \A x \in Items : x.kind = "networkpolicy" => x \in PolicyItems
  /\ \A x \in Items : x.kind = "logicalnetwork" => x \in NetworkItems
  /\ \A x \in PolicyItems : /\ x.kind = "networkpolicy" /\ x.name \in Policies
                            /\ x.action \in Verbs /\ x.args \in Annotations \cup {Blank}
                            /\ x \in Items /\ x \notin NetworkItems
  /\ \A x \in NetworkItems : /\ x.kind = "logicalnetwork" /\ x.name \in Networks
                             /\ x.action \in Verbs /\ x.args \in Subnets \cup {Blank}
                             /\ x \in Items /\ x \notin PolicyItems
  /\ \A x \in Items : x.kind \in Kinds
<1>1. \A x \in PolicyItems : /\ x.kind = "networkpolicy" /\ x.name \in Policies
                             /\ x.action \in Verbs /\ x.args \in Annotations \cup {Blank}
  BY DEF PolicyItems
<1>2. \A x \in NetworkItems : /\ x.kind = "logicalnetwork" /\ x.name \in Networks
                              /\ x.action \in Verbs /\ x.args \in Subnets \cup {Blank}
  BY DEF NetworkItems
<1> QED  BY <1>1, <1>2 DEF Items, Kinds

\* The neutral local variables are local variables.
LEMMA EmptyFrameType == EmptyFrame \in Frames
<1>1. << >> \in Seq(Rules)  OBVIOUS
<1> QED  BY <1>1 DEF EmptyFrame, Frames

\* The invariant holds at the start.
LEMMA InitInv == Init => IInv
<1> SUFFICES ASSUME Init PROVE IInv  OBVIOUS
<1>1. Sound(iptable)  BY FreshTableSound DEF Init
<1>2. iptable \in Tables  BY <1>1 DEF Sound
<1>3. \A k \in Kinds : notes[k] = << >>  BY DEF Init
<1>4. << >> \in Seq(Items) /\ DOMAIN << >> = {}  OBVIOUS
<1>5. q \in Queues(Items) /\ QueueConsistent(q)
  BY <1>4 DEF Init, EmptyQueue, Queues, QueueConsistent
<1>6. frame \in [Workers -> Frames]  BY EmptyFrameType DEF Init
<1>7. TypeOK  BY <1>2, <1>3, <1>4, <1>5, <1>6 DEF Init, TypeOK, Labels
<1>8. KeysHandledOnce  BY <1>5 DEF Init, KeysHandledOnce
<1>9. \A w \in Workers : pc[w] = "idle"  BY DEF Init
<1>10. \A w \in Workers : Fits(pc[w], frame[w])
  BY <1>9 DEF Fits, AtPolicy, AtNetwork, AtInfo
<1>11. \A w \in Workers : Holds(w)  BY <1>9 DEF Holds, Inside, Handlers
<1> QED  BY <1>1, <1>7, <1>8, <1>10, <1>11 DEF IInv

\* A step inside syncHandler that keeps the key, fits the label it goes to
\* and leaves a sound table preserves the invariant.
LEMMA StepInv ==
  ASSUME IInv, NEW w \in Workers, pc[w] \in Inside,
         NEW to \in Inside, NEW f \in Frames, NEW t,
         f.item = frame[w].item, Fits(to, f), Sound(t),
         Step(w, to, f, t)
  PROVE  IInv'
<1>1. /\ pc' = [pc EXCEPT ![w] = to] /\ frame' = [frame EXCEPT ![w] = f] /\ iptable' = t
      /\ UNCHANGED <<notes, up, q, mutex, np, ln, events, stops>>
  BY DEF Step, clusterVars
<1>2. to \in Labels /\ to # "idle" /\ pc[w] # "idle"  BY DEF Inside, Labels, Handlers
<1>3. t \in Tables  BY DEF Sound
<1>4. TypeOK  BY DEF IInv
<1>5. TypeOK'  BY <1>1, <1>2, <1>3, <1>4 DEF TypeOK
<1>6. Sound(iptable')  BY <1>1
<1>7. \A v \in Workers : /\ pc'[v] = IF v = w THEN to ELSE pc[v]
                         /\ frame'[v] = IF v = w THEN f ELSE frame[v]
                         /\ frame'[v].item = frame[v].item
                         /\ pc'[v] = "idle" <=> pc[v] = "idle"
                         /\ pc'[v] \in Inside <=> pc[v] \in Inside
  BY <1>1, <1>2, <1>4 DEF TypeOK
<1>8. KeysHandledOnce'
  <2>1. KeysHandledOnce  BY DEF IInv
  <2>2. q' = q  BY <1>1
  <2>3. QueueConsistent(q')  BY <2>1, <2>2 DEF KeysHandledOnce
  <2>4. \A v \in Workers : pc'[v] # "idle" => frame'[v].item \in q'.processing
    BY <1>7, <2>1, <2>2 DEF KeysHandledOnce
  <2>5. \A v, u \in Workers :
          v # u /\ pc'[v] # "idle" /\ pc'[u] # "idle" => frame'[v].item # frame'[u].item
    BY <1>7, <2>1 DEF KeysHandledOnce
  <2> QED  BY <2>3, <2>4, <2>5 DEF KeysHandledOnce
<1>9. \A v \in Workers : Fits(pc'[v], frame'[v])
  BY <1>7 DEF IInv
<1>10. \A v \in Workers : Holds(v)'  BY <1>1, <1>7 DEF IInv, Holds
<1> QED  BY <1>5, <1>6, <1>8, <1>9, <1>10 DEF IInv
-----------------------------------------------------------------------------
\* A change of the cluster is announced and touches nothing else.
LEMMA ClusterInv ==
  ASSUME IInv, Cluster
  PROVE  IInv'
<1>1. /\ UNCHANGED <<up, q, pc, frame, mutex, iptable, stops>>
      /\ np' \in [Policies -> Annotations \cup {Blank, Absent}]
      /\ ln' \in [Networks -> Subnets \cup {Blank, Absent}]
      /\ notes' \in [Kinds -> Seq(Items)]
      /\ events' \in Nat
  <2>1. ASSUME NEW item \in Items, Change(item)
        PROVE  /\ UNCHANGED <<up, q, pc, frame, mutex, iptable, stops>>
               /\ notes' \in [Kinds -> Seq(Items)] /\ events' \in Nat
    <3>1. item.kind \in Kinds  BY ItemKinds
    <3>2. notes \in [Kinds -> Seq(Items)] /\ events \in Nat  BY DEF IInv, TypeOK
    <3>3. Append(notes[item.kind], item) \in Seq(Items)  BY <3>1, <3>2
    <3>4. [notes EXCEPT ![item.kind] = Append(notes[item.kind], item)] \in [Kinds -> Seq(Items)]
      BY <3>1, <3>2, <3>3
    <3> QED  BY <2>1, <3>2, <3>4 DEF Change
  <2>2. np \in [Policies -> Annotations \cup {Blank, Absent}]
        /\ ln \in [Networks -> Subnets \cup {Blank, Absent}]
    BY DEF IInv, TypeOK
  <2>3. \A p \in Policies, a \in Verbs, x \in Annotations \cup {Blank} :
          PolicyItem(p, a, x) \in Items
    BY DEF PolicyItem, PolicyItems, Items
  <2>4. \A n \in Networks, a \in Verbs, x \in Subnets \cup {Blank} :
          NetworkItem(n, a, x) \in Items
    BY DEF NetworkItem, NetworkItems, Items
  <2>5. {"ADD", "UPDATE", "DELETE"} = Verbs  BY DEF Verbs
  <2>6. ASSUME NEW p \in Policies, CreatePolicy(p) \/ UpdatePolicy(p) \/ DeletePolicy(p)
        PROVE  \E item \in Items :
                 /\ Change(item) /\ ln' = ln
                 /\ np' \in [Policies -> Annotations \cup {Blank, Absent}]
    <3>1. PolicyValues[p] \subseteq Annotations \cup {Blank}  BY ConstantsAssumption
    <3>2. CASE CreatePolicy(p)
      BY <2>2, <2>3, <2>5, <3>1, <3>2 DEF CreatePolicy
    <3>3. CASE UpdatePolicy(p)
      <4>1. np[p] \in Annotations \cup {Blank}  BY <2>2, <3>3 DEF UpdatePolicy
      <4> QED  BY <2>2, <2>3, <2>5, <3>1, <3>3, <4>1 DEF UpdatePolicy
    <3>4. CASE DeletePolicy(p)
      <4>1. np[p] \in Annotations \cup {Blank}  BY <2>2, <3>4 DEF DeletePolicy
      <4> QED  BY <2>2, <2>3, <2>5, <3>4, <4>1 DEF DeletePolicy
    <3> QED  BY <2>6, <3>2, <3>3, <3>4
  <2>7. ASSUME NEW n \in Networks, CreateNetwork(n) \/ UpdateNetwork(n) \/ DeleteNetwork(n)
        PROVE  \E item \in Items :
                 /\ Change(item) /\ np' = np
                 /\ ln' \in [Networks -> Subnets \cup {Blank, Absent}]
    <3>1. NetworkValues[n] \subseteq Subnets \cup {Blank}  BY ConstantsAssumption
    <3>2. CASE CreateNetwork(n)
      BY <2>2, <2>4, <2>5, <3>1, <3>2 DEF CreateNetwork
    <3>3. CASE UpdateNetwork(n)
      BY <2>2, <2>4, <2>5, <3>1, <3>3 DEF UpdateNetwork
    <3>4. CASE DeleteNetwork(n)
      <4>1. ln[n] \in Subnets \cup {Blank}  BY <2>2, <3>4 DEF DeleteNetwork
      <4> QED  BY <2>2, <2>4, <2>5, <3>4, <4>1 DEF DeleteNetwork
    <3> QED  BY <2>7, <3>2, <3>3, <3>4
  <2> QED  BY <2>1, <2>2, <2>6, <2>7 DEF Cluster
<1>2. TypeOK'  BY <1>1 DEF IInv, TypeOK
<1>3. KeysHandledOnce'  BY <1>1 DEF IInv, KeysHandledOnce
<1> QED  BY <1>1, <1>2, <1>3 DEF IInv, Holds

\* The objects of a kind that exist are finitely many.
LEMMA ExistingFinite ==
  ASSUME NEW kind \in Kinds
  PROVE  Existing(kind) \subseteq Items /\ IsFiniteSet(Existing(kind))
<1> DEFINE S == Existing(kind)
<1> SUFFICES S \subseteq Items /\ IsFiniteSet(S)  OBVIOUS
<1>1. CASE kind = "networkpolicy"
  <2> DEFINE P == {x \in Policies : np[x] # Absent}
             f == [p \in P |-> PolicyItem(p, "ADD", Blank)]
  <2>1. IsFiniteSet(P)  BY ConstantsAssumption, FS_Subset
  <2>2. S = {PolicyItem(p, "ADD", Blank) : p \in P}  BY <1>1 DEF Existing
  <2>3. f \in Surjection(P, S)  BY <2>2 DEF Surjection
  <2>4. S \subseteq Items  BY <2>2 DEF PolicyItem, PolicyItems, Items, Verbs
  <2> HIDE DEF P, S, f
  <2> QED  BY <2>1, <2>3, <2>4, FS_Surjection
<1>2. CASE kind = "logicalnetwork"
  <2> DEFINE N == {x \in Networks : ln[x] # Absent}
             f == [n \in N |-> NetworkItem(n, "ADD", Blank)]
  <2>1. IsFiniteSet(N)  BY ConstantsAssumption, FS_Subset
  <2>2. S = {NetworkItem(n, "ADD", Blank) : n \in N}  BY <1>2 DEF Existing
  <2>3. f \in Surjection(N, S)  BY <2>2 DEF Surjection
  <2>4. S \subseteq Items  BY <2>2 DEF NetworkItem, NetworkItems, Items, Verbs
  <2> HIDE DEF N, S, f
  <2> QED  BY <2>1, <2>3, <2>4, FS_Surjection
<1> QED  BY <1>1, <1>2 DEF Kinds

\* The initial list of a kind, in any order, is a sequence of keys.
LEMMA OrdersType ==
  ASSUME TypeOK, NEW kind \in Kinds, NEW s \in Orders(Existing(kind))
  PROVE  s \in Seq(Items)
<1> DEFINE S == Existing(kind)
<1>1. S \subseteq Items /\ IsFiniteSet(S)  BY ExistingFinite
<1> HIDE DEF S
<1>2. Cardinality(S) \in Nat  BY <1>1, FS_CardinalityType
<1>3. s \in [1..Cardinality(S) -> S]  BY DEF Orders, S
<1> QED  BY <1>1, <1>2, <1>3

\* Starting the controller, with the base chain made anew.
LEMMA RunInv ==
  ASSUME IInv, Run
  PROVE  IInv'
<1>1. Sound(iptable')  BY CreateBaseChainSound DEF IInv, Run
<1>2. notes' \in [Kinds -> Seq(Items)]
  <2>1. PICK ps \in Orders(Existing("networkpolicy")), ns \in Orders(Existing("logicalnetwork")) :
          notes' = [k \in Kinds |-> IF k = "networkpolicy" THEN ps ELSE ns]
    BY DEF Run
  <2>2. ps \in Seq(Items) /\ ns \in Seq(Items)
    BY OrdersType DEF IInv, Kinds
  <2> QED  BY <2>1, <2>2
<1>3. /\ up' \in BOOLEAN
      /\ UNCHANGED <<q, pc, frame, mutex, np, ln, events, stops>>
  BY DEF Run, clusterVars
<1>4. TypeOK'  BY <1>1, <1>2, <1>3 DEF IInv, TypeOK, Sound
<1>5. KeysHandledOnce'  BY <1>3 DEF IInv, KeysHandledOnce
<1> QED  BY <1>1, <1>3, <1>4, <1>5 DEF IInv, Holds

\* The end of the process leaves the table as it is and nothing else.
LEMMA StopInv ==
  ASSUME IInv, Stop
  PROVE  IInv'
<1>1. /\ np' = np /\ ln' = ln /\ iptable' = iptable /\ events' = events
      /\ stops' = stops + 1 /\ up' = FALSE
      /\ notes' = [k \in Kinds |-> << >>] /\ q' = EmptyQueue
      /\ pc' = [w \in Workers |-> "idle"] /\ frame' = [w \in Workers |-> EmptyFrame]
      /\ mutex' = NoWorker
  BY DEF Stop
<1>2. << >> \in Seq(Items) /\ DOMAIN << >> = {}  OBVIOUS
<1>3. q' \in Queues(Items) /\ QueueConsistent(q')
  BY <1>1, <1>2 DEF EmptyQueue, Queues, QueueConsistent
<1>4. TypeOK'
  <2>1. TypeOK  BY DEF IInv
  <2>2. notes' \in [Kinds -> Seq(Items)] /\ stops' \in Nat  BY <1>1, <1>2, <2>1 DEF TypeOK
  <2>3. pc' \in [Workers -> Labels] /\ frame' \in [Workers -> Frames]
    BY <1>1, EmptyFrameType DEF Labels
  <2> QED  BY <1>1, <1>3, <2>1, <2>2, <2>3 DEF TypeOK
<1>5. \A w \in Workers : pc'[w] = "idle"  BY <1>1
<1>6. KeysHandledOnce'  BY <1>3, <1>5 DEF KeysHandledOnce
<1>7. \A w \in Workers : Fits(pc'[w], frame'[w])
  BY <1>5 DEF Fits, AtPolicy, AtNetwork, AtInfo
<1>8. \A w \in Workers : Holds(w)'  BY <1>5 DEF Holds, Inside, Handlers
<1> QED  BY <1>1, <1>4, <1>6, <1>7, <1>8 DEF IInv

\* An informer's event handler adds a key to the queue.
LEMMA NotifyInv ==
  ASSUME IInv, NEW kind \in Kinds, Notify(kind)
  PROVE  IInv'
<1> DEFINE item == Head(notes[kind])
<1>1. notes \in [Kinds -> Seq(Items)] /\ notes[kind] # << >> /\ q \in Queues(Items)
  BY DEF IInv, TypeOK, Notify
<1>2. item \in Items /\ Tail(notes[kind]) \in Seq(Items)  BY <1>1
<1>3. QueueConsistent(q)  BY DEF IInv, KeysHandledOnce
<1>4. /\ notes' = [notes EXCEPT ![kind] = Tail(notes[kind])]
      /\ q' = QueueAdd(q, item)
      /\ UNCHANGED <<up, pc, frame, mutex, iptable, np, ln, events, stops>>
  BY DEF Notify, clusterVars
<1> HIDE DEF item
<1>5. q' \in Queues(Items) /\ QueueConsistent(q') /\ q'.processing = q.processing
  BY <1>1, <1>2, <1>3, <1>4, QueueAddConsistent
<1>6. TypeOK'  BY <1>1, <1>2, <1>4, <1>5 DEF IInv, TypeOK
<1>7. KeysHandledOnce'  BY <1>4, <1>5 DEF IInv, KeysHandledOnce
<1> QED  BY <1>4, <1>6, <1>7 DEF IInv, Holds

\* A worker takes a key that no other one has.
LEMMA GetInv ==
  ASSUME IInv, NEW w \in Workers, Get(w)
  PROVE  IInv'
<1> DEFINE item == Head(q.queue)
           cur == IF item.kind = "logicalnetwork" THEN item.name ELSE Blank
           f == [EmptyFrame EXCEPT !.item = item, !.cur = cur]
<1>1. TypeOK /\ KeysHandledOnce /\ q \in Queues(Items) /\ QueueConsistent(q)
  BY DEF IInv, TypeOK, KeysHandledOnce
<1>2. q.queue # << >> /\ pc[w] = "idle"  BY DEF Get
<1>3. /\ q' = QueueGet(q)
      /\ frame' = [frame EXCEPT ![w] = f]
      /\ pc' = [pc EXCEPT ![w] = "got"]
      /\ UNCHANGED <<notes, up, mutex, iptable, np, ln, events, stops>>
  BY DEF Get, clusterVars
<1>4. /\ q' \in Queues(Items) /\ QueueConsistent(q')
      /\ item \in Items /\ item \notin q.processing
      /\ q'.processing = q.processing \cup {item}
  BY <1>1, <1>2, <1>3, QueueGetConsistent
<1>5. /\ f \in Frames /\ f.item = item
      /\ item \in NetworkItems => f.cur \in Networks
  <2>1. item \in NetworkItems => item.kind = "logicalnetwork" /\ item.name \in Networks
    BY ItemKinds
  <2>2. item.kind = "logicalnetwork" => item \in NetworkItems  BY <1>4, ItemKinds
  <2>3. cur \in Networks \cup {Blank} /\ (item \in NetworkItems => cur \in Networks)
    BY <2>1, <2>2
  <2> HIDE DEF item, cur
  <2> QED  BY <1>4, <2>3, EmptyFrameType DEF Frames, EmptyFrame
<1> HIDE DEF item, cur, f
<1>6. TypeOK'  BY <1>1, <1>3, <1>4, <1>5 DEF TypeOK, Labels
<1>7. \A v \in Workers : /\ pc'[v] = IF v = w THEN "got" ELSE pc[v]
                         /\ frame'[v] = IF v = w THEN f ELSE frame[v]
  BY <1>1, <1>3 DEF TypeOK
<1>8. KeysHandledOnce'
  <2>1. \A v \in Workers : v # w /\ pc'[v] # "idle" =>
           frame'[v].item \in q.processing
    BY <1>1, <1>7 DEF KeysHandledOnce
  <2>2. frame'[w].item = item  BY <1>5, <1>7
  <2>3. \A v, u \in Workers :
          v # u /\ pc'[v] # "idle" /\ pc'[u] # "idle" => frame'[v].item # frame'[u].item
    BY <1>1, <1>4, <1>7, <2>1, <2>2 DEF KeysHandledOnce
  <2>4. \A v \in Workers : pc'[v] # "idle" => frame'[v].item \in q'.processing
    BY <1>4, <2>1, <2>2
  <2> QED  BY <1>4, <2>3, <2>4 DEF KeysHandledOnce
<1>9. Fits("got", f)
  BY <1>4, <1>5 DEF Fits, AtPolicy, AtNetwork, AtInfo
<1>10. \A v \in Workers : Fits(pc'[v], frame'[v])  BY <1>7, <1>9 DEF IInv
<1>11. \A v \in Workers : Holds(v)'
  BY <1>3, <1>7 DEF IInv, Holds, Inside, Handlers
<1> QED  BY <1>3, <1>6, <1>8, <1>10, <1>11 DEF IInv

\* Every key has a handler, and its local variables fit it.
LEMMA HandlerFits ==
  ASSUME NEW f \in Frames, Fits("got", f)
  PROVE  /\ HandlerOf(f.item) \in Handlers
         /\ Fits(HandlerOf(f.item), f)
<1> DEFINE x == f.item
<1>1. x \in Items  BY DEF Fits
<1>2. CASE x \in PolicyItems
  <2>1. x.kind = "networkpolicy" /\ x.action \in {"ADD", "UPDATE", "DELETE"}
    BY <1>2, ItemKinds DEF Verbs
  <2>2. HandlerOf(x) \in {"policyAdd", "policyUpdate", "policyDelete"}
    BY <2>1 DEF HandlerOf
  <2> QED  BY <1>1, <1>2, <2>2 DEF Fits, Handlers, AtPolicy, AtNetwork, AtInfo
<1>3. CASE x \in NetworkItems
  <2>1. x.kind = "logicalnetwork" /\ x.action \in {"ADD", "UPDATE", "DELETE"}
    BY <1>3, ItemKinds DEF Verbs
  <2>2. HandlerOf(x) \in {"networkAdd", "networkUpdate", "networkDelete"}
    BY <2>1 DEF HandlerOf
  <2> QED  BY <1>1, <1>3, <2>2 DEF Fits, Handlers, AtPolicy, AtNetwork, AtInfo
<1> QED  BY <1>1, <1>2, <1>3 DEF Items

\* Entering syncHandler takes the mutex from nobody.
LEMMA LockInv ==
  ASSUME IInv, NEW w \in Workers, Lock(w)
  PROVE  IInv'
<1> DEFINE h == HandlerOf(frame[w].item)
<1>1. TypeOK /\ KeysHandledOnce /\ frame[w] \in Frames /\ Fits("got", frame[w])
  BY DEF IInv, TypeOK, Lock
<1>2. h \in Handlers /\ Fits(h, frame[w])  BY <1>1, HandlerFits
<1>3. /\ pc[w] = "got" /\ mutex = NoWorker
      /\ mutex' = w /\ pc' = [pc EXCEPT ![w] = h]
      /\ UNCHANGED <<notes, up, q, frame, iptable, np, ln, events, stops>>
  BY DEF Lock, clusterVars
<1> HIDE DEF h
<1>4. h \in Labels /\ h # "idle" /\ h \in Inside  BY <1>2 DEF Labels, Handlers, Inside
<1>5. TypeOK'  BY <1>1, <1>3, <1>4 DEF TypeOK
<1>6. \A v \in Workers : pc'[v] = IF v = w THEN h ELSE pc[v]
  BY <1>1, <1>3 DEF TypeOK
<1>7. \A v \in Workers : pc'[v] = "idle" <=> pc[v] = "idle"  BY <1>3, <1>4, <1>6
<1>8. KeysHandledOnce'  BY <1>1, <1>3, <1>7 DEF KeysHandledOnce
<1>9. \A v \in Workers : Fits(pc'[v], frame'[v])  BY <1>2, <1>3, <1>6 DEF IInv
<1>10. \A v \in Workers : pc[v] \notin Inside
  BY <1>3, ConstantsAssumption DEF IInv, Holds
<1>11. \A v \in Workers : Holds(v)'  BY <1>3, <1>6, <1>10 DEF Holds
<1> QED  BY <1>3, <1>5, <1>8, <1>9, <1>11 DEF IInv

\* Leaving syncHandler.
LEMMA UnlockInv ==
  ASSUME IInv, NEW w \in Workers, Unlock(w)
  PROVE  IInv'
<1>1. TypeOK /\ KeysHandledOnce /\ Fits(pc[w], frame[w])  BY DEF IInv
<1>2. /\ pc[w] = "returned" /\ mutex' = NoWorker /\ pc' = [pc EXCEPT ![w] = "unlocked"]
      /\ UNCHANGED <<notes, up, q, frame, iptable, np, ln, events, stops>>
  BY DEF Unlock, clusterVars
<1>3. TypeOK'  BY <1>1, <1>2 DEF TypeOK, Labels
<1>4. \A v \in Workers : pc'[v] = IF v = w THEN "unlocked" ELSE pc[v]
  BY <1>1, <1>2 DEF TypeOK
<1>5. \A v \in Workers : pc'[v] = "idle" <=> pc[v] = "idle"  BY <1>2, <1>4
<1>6. KeysHandledOnce'  BY <1>1, <1>2, <1>5 DEF KeysHandledOnce
<1>7. Fits("unlocked", frame[w])
  BY <1>1, <1>2 DEF Fits, AtPolicy, AtNetwork, AtInfo
<1>8. \A v \in Workers : Fits(pc'[v], frame'[v])  BY <1>2, <1>4, <1>7 DEF IInv
<1>9. mutex = w  BY <1>2 DEF IInv, Holds, Inside
<1>10. \A v \in Workers : pc'[v] \notin Inside
  BY <1>4, <1>9 DEF IInv, Holds, Inside, Handlers
<1>11. \A v \in Workers : Holds(v)'  BY <1>10 DEF Holds
<1> QED  BY <1>2, <1>3, <1>6, <1>8, <1>11 DEF IInv

\* A worker gives its key back, perhaps to the queue.
LEMMA DoneInv ==
  ASSUME IInv, NEW w \in Workers, Done(w)
  PROVE  IInv'
<1> DEFINE x == frame[w].item
<1>1. TypeOK /\ KeysHandledOnce /\ q \in Queues(Items) /\ QueueConsistent(q)
  BY DEF IInv, TypeOK, KeysHandledOnce
<1>2. /\ pc[w] = "unlocked" /\ q' = QueueDone(q, x)
      /\ pc' = [pc EXCEPT ![w] = "idle"] /\ frame' = [frame EXCEPT ![w] = EmptyFrame]
      /\ UNCHANGED <<notes, up, mutex, iptable, np, ln, events, stops>>
  BY DEF Done, clusterVars
<1>3. x \in q.processing  BY <1>1, <1>2 DEF KeysHandledOnce
<1>4. /\ q' \in Queues(Items) /\ QueueConsistent(q')
      /\ q'.processing = q.processing \ {x}
  BY <1>1, <1>2, <1>3, QueueDoneConsistent
<1>5. TypeOK'  BY <1>1, <1>2, <1>4, EmptyFrameType DEF TypeOK, Labels
<1>6. \A v \in Workers : /\ pc'[v] = IF v = w THEN "idle" ELSE pc[v]
                         /\ frame'[v] = IF v = w THEN EmptyFrame ELSE frame[v]
  BY <1>1, <1>2 DEF TypeOK
<1>7. KeysHandledOnce'
  <2>1. \A v \in Workers : v # w /\ pc[v] # "idle" => frame[v].item \in q.processing \ {x}
    BY <1>1, <1>2 DEF KeysHandledOnce
  <2>2. \A v \in Workers : pc'[v] # "idle" => frame'[v].item \in q'.processing
    BY <1>4, <1>6, <2>1
  <2>3. \A v, u \in Workers :
          v # u /\ pc'[v] # "idle" /\ pc'[u] # "idle" => frame'[v].item # frame'[u].item
    BY <1>1, <1>6 DEF KeysHandledOnce
  <2> QED  BY <1>4, <2>2, <2>3 DEF KeysHandledOnce
<1>8. Fits("idle", EmptyFrame)  BY DEF Fits, AtPolicy, AtNetwork, AtInfo
<1>9. \A v \in Workers : Fits(pc'[v], frame'[v])  BY <1>6, <1>8 DEF IInv
<1>10. \A v \in Workers : Holds(v)'
  BY <1>2, <1>6 DEF IInv, Holds, Inside, Handlers
<1> QED  BY <1>2, <1>5, <1>7, <1>9, <1>10 DEF IInv
-----------------------------------------------------------------------------
\* The networks an annotation speaks of.
LEMMA AnnotationTypes ==
  ASSUME NEW a \in Annotations \cup {{}}
  PROVE  Selectors(a) \subseteq Networks /\ \A n : PeersOf(a, n) \subseteq Networks
<1>1. a \subseteq Entries  BY ConstantsAssumption
<1>2. \A e \in a : e.NetworkSelector \in Networks \cup {Blank} /\ e.PeerNetworks \subseteq Networks
  BY <1>1 DEF Entries
<1> QED  BY <1>2 DEF Selectors, PeersOf

\* What the lister knows of a policy and of a network.
LEMMA ListerTypes ==
  ASSUME TypeOK
  PROVE  /\ \A p \in Policies : Parsable(np[p]) => np[p] \in Annotations
         /\ \A n \in Networks : ln[n] # Absent => ln[n] \in Subnets \cup {Blank}
         /\ \A n \in Networks : ListNetworkPolicies(n) \subseteq Infos
<1>1. \A p \in Policies : Parsable(np[p]) => np[p] \in Annotations  BY DEF TypeOK, Parsable
<1>2. \A n \in Networks : ln[n] # Absent => ln[n] \in Subnets \cup {Blank}  BY DEF TypeOK
<1>3. ASSUME NEW n \in Networks, NEW x \in ListNetworkPolicies(n)  PROVE x \in Infos
  <2>1. PICK p \in Policies : /\ Parsable(np[p])
                              /\ x \in IF n \in Selectors(np[p])
                                       THEN {[policy |-> p, via |-> n, peers |-> PeersOf(np[p], n)]}
                                       ELSE {[policy |-> p, via |-> s, peers |-> {}] :
                                               s \in {y \in Selectors(np[p]) : n \in PeersOf(np[p], y)}}
    BY <1>3 DEF ListNetworkPolicies
  <2>2. Selectors(np[p]) \subseteq Networks /\ PeersOf(np[p], n) \subseteq Networks
    BY <1>1, <2>1, AnnotationTypes
  <2> QED  BY <2>1, <2>2 DEF Infos
<1> QED  BY <1>1, <1>2, <1>3

\* A rule of a peer that is known, or no rule.
LEMMA AcceptPeerSound ==
  ASSUME TypeOK, Sound(iptable), NEW p \in Policies, NEW m \in Networks
  PROVE  Sound(AcceptPeer(p, m))
BY ListerTypes, insertPeerRuleSound DEF AcceptPeer

\* The jump to a policy chain may be inserted into any chain.
LEMMA InsertPolicySound ==
  ASSUME NEW t, Sound(t), NEW c \in Chains, NEW p \in Policies
  PROVE  Sound(InsertRule(t, c, Jump(PolicyChain(p))).tbl)
<1>1. /\ Jump(PolicyChain(p)) \in Rules
      /\ Jump(PolicyChain(p)).target # Reject
  BY ChainKinds, RuleTypes
<1> QED  BY <1>1, InsertRuleSound

\* What a step of a handler starts from.
LEMMA Here ==
  ASSUME IInv, NEW w \in Workers
  PROVE  /\ TypeOK /\ Sound(iptable) /\ frame[w] \in Frames /\ Fits(pc[w], frame[w])
         /\ \A c \in Chains : iptable.rules[c] \in Seq(Rules)
BY DEF IInv, TypeOK, Tables
-----------------------------------------------------------------------------
\* The three handlers of a policy.
LEMMA handleNetworkPolicyAddInv ==
  ASSUME IInv, NEW w \in Workers, handleNetworkPolicyAdd(w)
  PROVE  IInv'
<1> DEFINE f == frame[w]
           p == f.item.name
           a == np[p]
<1>1. pc[w] = "policyAdd" /\ pc[w] \in Inside  BY DEF handleNetworkPolicyAdd, Inside, Handlers
<1>2. TypeOK /\ Sound(iptable) /\ f \in Frames /\ f.item \in PolicyItems /\ p \in Policies
  BY <1>1, Here, ItemKinds DEF Fits, AtPolicy
<1>3. CASE Parsable(a)
  <2> DEFINE to == IF Selectors(a) = {} THEN "returned" ELSE "populate"
             g == [f EXCEPT !.ann = a, !.nets = Selectors(a)]
             t == AddPolicyChain(iptable, p)
  <2>1. a \in Annotations /\ Selectors(a) \subseteq Networks
    BY <1>2, <1>3, ListerTypes, AnnotationTypes
  <2>2. g \in Frames /\ g.item = f.item  BY <1>2, <2>1 DEF Frames
  <2>3. to \in Inside /\ Fits(to, g)
    BY <1>2, <2>2, ItemKinds DEF Inside, Fits, AtPolicy, AtNetwork, AtInfo
  <2>4. Sound(t)  BY <1>2, ClearChainSound, ChainKinds DEF AddPolicyChain
  <2>5. Step(w, to, g, t)  BY <1>3 DEF handleNetworkPolicyAdd
  <2> HIDE DEF to, g, t
  <2> QED  BY <1>1, <2>2, <2>3, <2>4, <2>5, StepInv
<1>4. CASE ~Parsable(a)
  <2>1. Step(w, "returned", f, iptable)  BY <1>4 DEF handleNetworkPolicyAdd
  <2>2. "returned" \in Inside /\ Fits("returned", f)
    BY <1>2, ItemKinds DEF Inside, Fits, AtPolicy, AtNetwork, AtInfo
  <2> QED  BY <1>1, <1>2, <2>1, <2>2, StepInv
<1> QED  BY <1>3, <1>4

\* With and without selectors.
LEMMA handleNetworkPolicyUpdateInv ==
  ASSUME IInv, NEW w \in Workers, handleNetworkPolicyUpdate(w)
  PROVE  IInv'
<1> DEFINE f == frame[w]
           p == f.item.name
           a == np[p]
           t == AddPolicyChain(iptable, p)
<1>1. pc[w] = "policyUpdate" /\ pc[w] \in Inside
  BY DEF handleNetworkPolicyUpdate, Inside, Handlers
<1>2. TypeOK /\ Sound(iptable) /\ f \in Frames /\ f.item \in PolicyItems /\ p \in Policies
  BY <1>1, Here, ItemKinds DEF Fits, AtPolicy
<1>3. Sound(t)  BY <1>2, ClearChainSound, ChainKinds DEF AddPolicyChain
<1>4. CASE Parsable(a) /\ Selectors(a) # {}
  <2> DEFINE g == [f EXCEPT !.ann = a, !.nets = Selectors(a)]
  <2>1. a \in Annotations /\ Selectors(a) \subseteq Networks
    BY <1>2, <1>4, ListerTypes, AnnotationTypes
  <2>2. g \in Frames /\ g.item = f.item  BY <1>2, <2>1 DEF Frames
  <2>3. "populate" \in Inside /\ Fits("populate", g)
    BY <1>2, <2>2, ItemKinds DEF Inside, Fits, AtPolicy, AtNetwork, AtInfo
  <2>4. Step(w, "populate", g, t)  BY <1>4 DEF handleNetworkPolicyUpdate
  <2> HIDE DEF g, t
  <2> QED  BY <1>1, <1>3, <2>2, <2>3, <2>4, StepInv
<1>5. CASE Parsable(a) /\ Selectors(a) = {}
  <2> DEFINE g == [f EXCEPT !.nets = LinkedNetworks(t)]
  <2>1. LinkedNetworks(t) \subseteq Networks  BY DEF LinkedNetworks
  <2>2. g \in Frames /\ g.item = f.item  BY <1>2, <2>1 DEF Frames
  <2>3. "unlink" \in Inside /\ Fits("unlink", g)
    BY <1>2, <2>2, ItemKinds DEF Inside, Fits, AtPolicy, AtNetwork, AtInfo
  <2>4. Step(w, "unlink", g, t)  BY <1>5 DEF handleNetworkPolicyUpdate
  <2> HIDE DEF g, t
  <2> QED  BY <1>1, <1>3, <2>2, <2>3, <2>4, StepInv
<1>6. CASE ~Parsable(a)
  <2>1. Step(w, "returned", f, iptable)  BY <1>6 DEF handleNetworkPolicyUpdate
  <2>2. "returned" \in Inside /\ Fits("returned", f)
    BY <1>2, ItemKinds DEF Inside, Fits, AtPolicy, AtNetwork, AtInfo
  <2> QED  BY <1>1, <1>2, <2>1, <2>2, StepInv
<1> QED  BY <1>4, <1>5, <1>6

\* The annotation comes from the key.
LEMMA handleNetworkPolicyDeleteInv ==
  ASSUME IInv, NEW w \in Workers, handleNetworkPolicyDelete(w)
  PROVE  IInv'
<1> DEFINE f == frame[w]
           a == f.item.args
<1>1. pc[w] = "policyDelete" /\ pc[w] \in Inside
  BY DEF handleNetworkPolicyDelete, Inside, Handlers
<1>2. TypeOK /\ Sound(iptable) /\ f \in Frames /\ f.item \in PolicyItems
      /\ a \in Annotations \cup {Blank}
  BY <1>1, Here, ItemKinds DEF Fits, AtPolicy
<1>3. CASE Parsable(a)
  <2> DEFINE g == [f EXCEPT !.nets = Selectors(a)]
  <2>1. Selectors(a) \subseteq Networks  BY <1>2, <1>3, AnnotationTypes DEF Parsable
  <2>2. g \in Frames /\ g.item = f.item  BY <1>2, <2>1 DEF Frames
  <2>3. "unlink" \in Inside /\ Fits("unlink", g)
    BY <1>2, <2>2, ItemKinds DEF Inside, Fits, AtPolicy, AtNetwork, AtInfo
  <2>4. Step(w, "unlink", g, iptable)  BY <1>3 DEF handleNetworkPolicyDelete
  <2> HIDE DEF g
  <2> QED  BY <1>1, <1>2, <2>2, <2>3, <2>4, StepInv
<1>4. CASE ~Parsable(a)
  <2>1. Step(w, "returned", f, iptable)  BY <1>4 DEF handleNetworkPolicyDelete
  <2>2. "returned" \in Inside /\ Fits("returned", f)
    BY <1>2, ItemKinds DEF Inside, Fits, AtPolicy, AtNetwork, AtInfo
  <2> QED  BY <1>1, <1>2, <2>1, <2>2, StepInv
<1> QED  BY <1>3, <1>4

\* One network selector: the jump is inserted, or the network's chain made first.
LEMMA populatePolicyChainInv ==
  ASSUME IInv, NEW w \in Workers, populatePolicyChain(w)
  PROVE  IInv'
<1> DEFINE f == frame[w]
           p == f.item.name
<1>1. pc[w] = "populate" /\ pc[w] \in Inside  BY DEF populatePolicyChain, Inside
<1>2. TypeOK /\ Sound(iptable) /\ f \in Frames /\ f.item \in PolicyItems /\ p \in Policies
      /\ f.item \in Items
  BY <1>1, Here, ItemKinds DEF Fits, AtPolicy
<1>3. CASE Step(w, "returned", f, iptable)
  <2>1. "returned" \in Inside /\ Fits("returned", f)
    BY <1>2 DEF Inside, Fits, AtPolicy, AtNetwork, AtInfo
  <2> QED  BY <1>1, <1>2, <1>3, <2>1, StepInv
<1>4. ASSUME NEW n \in f.nets,
             LET g == [f EXCEPT !.nets = f.nets \ {n}, !.cur = n, !.peers = PeersOf(f.ann, n)]
                 r == InsertRule(iptable, NetworkChain(n), Jump(PolicyChain(p)))
             IN  IF NetworkChain(n) \notin iptable.chains
                 THEN Step(w, "networkAdd", g, iptable)
                 ELSE Step(w, IF r.exit = 0 THEN "peers" ELSE "populate", g, r.tbl)
      PROVE  IInv'
  <2> DEFINE g == [f EXCEPT !.nets = f.nets \ {n}, !.cur = n, !.peers = PeersOf(f.ann, n)]
             r == InsertRule(iptable, NetworkChain(n), Jump(PolicyChain(p)))
             to == IF r.exit = 0 THEN "peers" ELSE "populate"
  <2>1. n \in Networks /\ f.nets \subseteq Networks /\ f.ann \in Annotations \cup {{}}
    BY <1>2 DEF Frames
  <2>2. PeersOf(f.ann, n) \subseteq Networks  BY <2>1, AnnotationTypes
  <2>3. g \in Frames /\ g.item = f.item /\ g.cur = n  BY <1>2, <2>1, <2>2 DEF Frames
  <2>4. Sound(r.tbl)  BY <1>2, <2>1, InsertPolicySound, ChainKinds
  <2>5. "networkAdd" \in Inside /\ Fits("networkAdd", g)
    BY <1>2, <2>1, <2>3 DEF Inside, Handlers, Fits, AtPolicy, AtNetwork, AtInfo
  <2>6. to \in Inside /\ Fits(to, g)
    BY <1>2, <2>3 DEF Inside, Fits, AtPolicy, AtNetwork, AtInfo
  <2>7. Step(w, "networkAdd", g, iptable) \/ Step(w, to, g, r.tbl)  BY <1>4
  <2> HIDE DEF g, r, to
  <2> QED  BY <1>1, <1>2, <2>3, <2>4, <2>5, <2>6, <2>7, StepInv
<1> QED  BY <1>3, <1>4 DEF populatePolicyChain

\* One peer of a selector.
LEMMA populatePeersInv ==
  ASSUME IInv, NEW w \in Workers, populatePeers(w)
  PROVE  IInv'
<1> DEFINE f == frame[w]
<1>1. pc[w] = "peers" /\ pc[w] \in Inside  BY DEF populatePeers, Inside
<1>2. TypeOK /\ Sound(iptable) /\ f \in Frames /\ f.item \in PolicyItems
      /\ f.item.name \in Policies /\ f.item \in Items
  BY <1>1, Here, ItemKinds DEF Fits, AtPolicy
<1>3. CASE Step(w, "populate", f, iptable)
  <2>1. "populate" \in Inside /\ Fits("populate", f)
    BY <1>2 DEF Inside, Fits, AtPolicy, AtNetwork, AtInfo
  <2> QED  BY <1>1, <1>2, <1>3, <2>1, StepInv
<1>4. ASSUME NEW m \in f.peers,
             Step(w, "peers", [f EXCEPT !.peers = f.peers \ {m}], AcceptPeer(f.item.name, m))
      PROVE  IInv'
  <2> DEFINE g == [f EXCEPT !.peers = f.peers \ {m}]
             t == AcceptPeer(f.item.name, m)
  <2>1. m \in Networks /\ f.peers \subseteq Networks  BY <1>2 DEF Frames
  <2>2. g \in Frames /\ g.item = f.item  BY <1>2, <2>1 DEF Frames
  <2>3. Fits("peers", g)  BY <1>2, <2>2 DEF Fits, AtPolicy, AtNetwork, AtInfo
  <2>4. Sound(t)  BY <1>2, <2>1, AcceptPeerSound
  <2>5. Step(w, "peers", g, t)  BY <1>4
  <2> HIDE DEF g, t
  <2> QED  BY <1>1, <2>2, <2>3, <2>4, <2>5, StepInv
<1> QED  BY <1>3, <1>4 DEF populatePeers

\* Where handleLogicalNetworkAdd returns to.
LEMMA ReturnFits ==
  ASSUME NEW w \in Workers, NEW g \in Frames, g.item = frame[w].item, g.item \in Items
  PROVE  /\ Failed(w) \in Inside /\ Fits(Failed(w), g)
         /\ Succeeded(w) \in Inside /\ Fits(Succeeded(w), g)
<1>1. Nested(w) => g.item \in PolicyItems  BY ItemKinds DEF Nested
<1>2. Failed(w) \in {"populate", "returned"} /\ (Failed(w) = "populate" => Nested(w))
  BY DEF Failed
<1>3. Succeeded(w) \in {"peers", "returned"} /\ (Succeeded(w) = "peers" => Nested(w))
  BY DEF Succeeded
<1> QED  BY <1>1, <1>2, <1>3 DEF Inside, Fits, AtPolicy, AtNetwork, AtInfo

\* The network is read from the lister, or is not there.
LEMMA handleLogicalNetworkAddInv ==
  ASSUME IInv, NEW w \in Workers, handleLogicalNetworkAdd(w)
  PROVE  IInv'
<1> DEFINE f == frame[w]
<1>1. pc[w] = "networkAdd" /\ pc[w] \in Inside
  BY DEF handleLogicalNetworkAdd, Inside, Handlers
<1>2. TypeOK /\ Sound(iptable) /\ f \in Frames /\ f.item \in Items /\ f.cur \in Networks
  BY <1>1, Here DEF Fits, AtNetwork
<1>3. CASE ln[f.cur] = Absent
  <2>1. Step(w, Failed(w), f, iptable)  BY <1>3 DEF handleLogicalNetworkAdd
  <2> QED  BY <1>1, <1>2, <2>1, ReturnFits, StepInv
<1>4. CASE ln[f.cur] # Absent
  <2> DEFINE g == [f EXCEPT !.subnet = ln[f.cur]]
  <2>1. ln[f.cur] \in Subnets \cup {Blank}  BY <1>2, <1>4, ListerTypes
  <2>2. g \in Frames /\ g.item = f.item /\ g.cur = f.cur  BY <1>2, <2>1 DEF Frames
  <2>3. "networkList" \in Inside /\ Fits("networkList", g)
    BY <1>2, <2>2 DEF Inside, Fits, AtPolicy, AtNetwork, AtInfo
  <2>4. Step(w, "networkList", g, iptable)  BY <1>4 DEF handleLogicalNetworkAdd
  <2> HIDE DEF g
  <2> QED  BY <1>1, <1>2, <2>2, <2>3, <2>4, StepInv
<1> QED  BY <1>3, <1>4

\* The policies to impose are listed.
LEMMA listPoliciesForAddInv ==
  ASSUME IInv, NEW w \in Workers, listPoliciesForAdd(w)
  PROVE  IInv'
<1> DEFINE f == frame[w]
           g == [f EXCEPT !.infos = ListNetworkPolicies(f.cur)]
<1>1. pc[w] = "networkList" /\ pc[w] \in Inside  BY DEF listPoliciesForAdd, Inside
<1>2. TypeOK /\ Sound(iptable) /\ f \in Frames /\ f.item \in Items /\ f.cur \in Networks
  BY <1>1, Here DEF Fits, AtNetwork
<1>3. ListNetworkPolicies(f.cur) \subseteq Infos  BY <1>2, ListerTypes
<1>4. g \in Frames /\ g.item = f.item /\ g.cur = f.cur  BY <1>2, <1>3 DEF Frames
<1>5. "networkPolicies" \in Inside /\ Fits("networkPolicies", g)
  BY <1>2, <1>4 DEF Inside, Fits, AtPolicy, AtNetwork, AtInfo
<1>6. Step(w, "networkPolicies", g, iptable)  BY DEF listPoliciesForAdd
<1> HIDE DEF g
<1> QED  BY <1>1, <1>2, <1>4, <1>5, <1>6, StepInv

\* The chain of a network is closed.
LEMMA closeNetworkInv ==
  ASSUME IInv, NEW w \in Workers, closeNetwork(w)
  PROVE  IInv'
<1> DEFINE f == frame[w]
           t == AppendUnique(iptable, NetworkChain(f.cur), Jump(Reject)).tbl
<1>1. pc[w] = "close" /\ pc[w] \in Inside  BY DEF closeNetwork, Inside
<1>2. Sound(iptable) /\ f \in Frames /\ f.item \in Items /\ f.cur \in Networks
      /\ f.policy \in Policies
  BY <1>1, Here DEF Fits, AtNetwork, AtInfo
<1>3. Jump(Reject) \in Rules  BY ChainKinds, RuleTypes
<1>4. Sound(t)  BY <1>2, <1>3, ChainKinds, AppendUniqueSound
<1>5. "linkTo" \in Inside /\ Fits("linkTo", f)
  BY <1>2 DEF Inside, Fits, AtPolicy, AtNetwork, AtInfo
<1>6. Step(w, "linkTo", f, t)  BY DEF closeNetwork
<1> HIDE DEF t
<1> QED  BY <1>1, <1>2, <1>4, <1>5, <1>6, StepInv

\* ... and linked, in one direction after the other.
LEMMA linkNetworkInv ==
  ASSUME IInv, NEW w \in Workers, linkNetwork(w)
  PROVE  IInv'
<1> DEFINE f == frame[w]
           dir == IF pc[w] = "linkTo" THEN "-d" ELSE "-s"
           r == AppendUnique(iptable, BaseChain, Link(f.cur, dir, f.subnet))
           to == IF pc[w] = "linkTo" THEN "linkFrom" ELSE "impose"
           g == [f EXCEPT !.lnChain = NoChain]
           h == [f EXCEPT !.lnChain = NetworkChain(f.cur)]
<1>1. pc[w] \in {"linkTo", "linkFrom"} /\ pc[w] \in Inside  BY DEF linkNetwork, Inside
<1>2. Sound(iptable) /\ f \in Frames /\ f.item \in Items /\ f.cur \in Networks
      /\ f.policy \in Policies
  BY <1>1, Here DEF Fits, AtNetwork, AtInfo
<1>3. Sound(r.tbl)
  <2>1. f.subnet \in Subnets \cup {Blank} /\ dir \in {"-s", "-d"}  BY <1>2 DEF Frames
  <2> QED  BY <1>2, <2>1, LinkSound
<1>4. NetworkChain(f.cur) \in NetworkChains  BY <1>2, ChainKinds
<1>5. /\ g \in Frames /\ g.item = f.item /\ g.cur = f.cur /\ g.policy = f.policy
      /\ h \in Frames /\ h.item = f.item /\ h.cur = f.cur /\ h.policy = f.policy
  BY <1>2, <1>4 DEF Frames
<1>6. Step(w, "impose", g, r.tbl) \/ Step(w, to, h, r.tbl)  BY DEF linkNetwork
<1>7. to \in {"linkFrom", "impose"}  OBVIOUS
<1> HIDE DEF r, g, h, to
<1>8. "impose" \in Inside /\ Fits("impose", g) /\ to \in Inside /\ Fits(to, h)
  BY <1>2, <1>5, <1>7 DEF Inside, Fits, AtPolicy, AtNetwork, AtInfo
<1> QED  BY <1>1, <1>3, <1>5, <1>6, <1>8, StepInv

\* The jump to the policy is inserted, or refused.
LEMMA imposePolicyInv ==
  ASSUME IInv, NEW w \in Workers, imposePolicy(w)
  PROVE  IInv'
<1> DEFINE f == frame[w]
           r == InsertRule(iptable, f.lnChain, Jump(PolicyChain(f.policy)))
           h == [f EXCEPT !.infos = {}]
<1>1. pc[w] = "impose" /\ pc[w] \in Inside  BY DEF imposePolicy, Inside
<1>2. Sound(iptable) /\ f \in Frames /\ f.item \in Items /\ f.cur \in Networks
      /\ f.policy \in Policies
  BY <1>1, Here DEF Fits, AtNetwork, AtInfo
<1>3. f.lnChain \in Chains  BY <1>2 DEF Frames, Chains
<1>4. Sound(r.tbl)  BY <1>2, <1>3, InsertPolicySound
<1>5. h \in Frames /\ h.item = f.item  BY <1>2 DEF Frames
<1>6. "networkPeers" \in Inside /\ Fits("networkPeers", f)
  BY <1>2 DEF Inside, Fits, AtPolicy, AtNetwork, AtInfo
<1>7. Failed(w) \in Inside /\ Fits(Failed(w), h)  BY <1>2, <1>5, ReturnFits
<1>8. Step(w, "networkPeers", f, r.tbl) \/ Step(w, Failed(w), h, r.tbl)
  BY DEF imposePolicy
<1> HIDE DEF r, h
<1> QED  BY <1>1, <1>2, <1>4, <1>5, <1>6, <1>7, <1>8, StepInv

\* One entry of policyInfo.
LEMMA handleLogicalNetworkAddPoliciesInv ==
  ASSUME IInv, NEW w \in Workers, handleLogicalNetworkAddPolicies(w)
  PROVE  IInv'
<1> DEFINE f == frame[w]
<1>1. pc[w] = "networkPolicies" /\ pc[w] \in Inside
  BY DEF handleLogicalNetworkAddPolicies, Inside
<1>2. Sound(iptable) /\ f \in Frames /\ f.item \in Items /\ f.cur \in Networks
  BY <1>1, Here DEF Fits, AtNetwork
<1>3. CASE Step(w, Succeeded(w), f, iptable)
  BY <1>1, <1>2, <1>3, ReturnFits, StepInv
<1>4. ASSUME NEW info \in f.infos,
             Step(w, "networkPolicies", [f EXCEPT !.infos = f.infos \ {info}],
                  insertPeerRule(iptable, info.policy, f.subnet))
      PROVE  IInv'
  <2> DEFINE g == [f EXCEPT !.infos = f.infos \ {info}]
             t == insertPeerRule(iptable, info.policy, f.subnet)
  <2>1. f.infos \subseteq Infos /\ f.subnet \in Subnets \cup {Blank}  BY <1>2 DEF Frames
  <2>2. info.policy \in Policies  BY <2>1 DEF Infos
  <2>3. Sound(t)  BY <1>2, <2>1, <2>2, insertPeerRuleSound
  <2>4. g \in Frames /\ g.item = f.item /\ g.cur = f.cur  BY <1>2, <2>1 DEF Frames
  <2>5. Fits("networkPolicies", g)
    BY <1>2, <2>4 DEF Fits, AtPolicy, AtNetwork, AtInfo
  <2>6. Step(w, "networkPolicies", g, t)  BY <1>4
  <2> HIDE DEF g, t
  <2> QED  BY <1>1, <2>3, <2>4, <2>5, <2>6, StepInv
<1>5. ASSUME NEW info \in f.infos,
             Step(w, "close",
                  [f EXCEPT !.infos = f.infos \ {info}, !.policy = info.policy,
                            !.lpeers = info.peers],
                  ClearChain(iptable, NetworkChain(f.cur)))
      PROVE  IInv'
  <2> DEFINE g == [f EXCEPT !.infos = f.infos \ {info}, !.policy = info.policy,
                            !.lpeers = info.peers]
             t == ClearChain(iptable, NetworkChain(f.cur))
  <2>1. f.infos \subseteq Infos  BY <1>2 DEF Frames
  <2>2. info.policy \in Policies /\ info.peers \subseteq Networks  BY <2>1 DEF Infos
  <2>3. Sound(t)  BY <1>2, ChainKinds, ClearChainSound
  <2>4. g \in Frames /\ g.item = f.item /\ g.cur = f.cur /\ g.policy = info.policy
    BY <1>2, <2>1, <2>2 DEF Frames
  <2>5. "close" \in Inside /\ Fits("close", g)
    BY <1>2, <2>2, <2>4 DEF Inside, Fits, AtPolicy, AtNetwork, AtInfo
  <2>6. Step(w, "close", g, t)  BY <1>5
  <2> HIDE DEF g, t
  <2> QED  BY <1>1, <2>3, <2>4, <2>5, <2>6, StepInv
<1> QED  BY <1>3, <1>4, <1>5 DEF handleLogicalNetworkAddPolicies

\* One peer of an imposed policy.
LEMMA handleLogicalNetworkAddPeersInv ==
  ASSUME IInv, NEW w \in Workers, handleLogicalNetworkAddPeers(w)
  PROVE  IInv'
<1> DEFINE f == frame[w]
<1>1. pc[w] = "networkPeers" /\ pc[w] \in Inside
  BY DEF handleLogicalNetworkAddPeers, Inside
<1>2. TypeOK /\ Sound(iptable) /\ f \in Frames /\ f.item \in Items /\ f.cur \in Networks
      /\ f.policy \in Policies
  BY <1>1, Here DEF Fits, AtNetwork, AtInfo
<1>3. CASE Step(w, "networkPolicies", f, iptable)
  <2>1. "networkPolicies" \in Inside /\ Fits("networkPolicies", f)
    BY <1>2 DEF Inside, Fits, AtPolicy, AtNetwork, AtInfo
  <2> QED  BY <1>1, <1>2, <1>3, <2>1, StepInv
<1>4. ASSUME NEW m \in f.lpeers,
             Step(w, "networkPeers", [f EXCEPT !.lpeers = f.lpeers \ {m}],
                  AcceptPeer(f.policy, m))
      PROVE  IInv'
  <2> DEFINE g == [f EXCEPT !.lpeers = f.lpeers \ {m}]
             t == AcceptPeer(f.policy, m)
  <2>1. m \in Networks /\ f.lpeers \subseteq Networks  BY <1>2 DEF Frames
  <2>2. g \in Frames /\ g.item = f.item /\ g.cur = f.cur /\ g.policy = f.policy
    BY <1>2, <2>1 DEF Frames
  <2>3. Fits("networkPeers", g)  BY <1>2, <2>2 DEF Fits, AtPolicy, AtNetwork, AtInfo
  <2>4. Sound(t)  BY <1>2, <2>1, AcceptPeerSound
  <2>5. Step(w, "networkPeers", g, t)  BY <1>4
  <2> HIDE DEF g, t
  <2> QED  BY <1>1, <2>2, <2>3, <2>4, <2>5, StepInv
<1> QED  BY <1>3, <1>4 DEF handleLogicalNetworkAddPeers

\* The update of a network returns whatever iptables says.
LEMMA handleLogicalNetworkUpdateInv ==
  ASSUME IInv, NEW w \in Workers, handleLogicalNetworkUpdate(w)
  PROVE  IInv'
<1> DEFINE f == frame[w]
           t == IF ln[f.cur] # Absent /\ f.cur \in LinkedNetworks(iptable)
                THEN DeleteNth(iptable, BaseChain, 0).tbl ELSE iptable
<1>1. pc[w] = "networkUpdate" /\ pc[w] \in Inside
  BY DEF handleLogicalNetworkUpdate, Inside, Handlers
<1>2. Sound(iptable) /\ f \in Frames /\ f.item \in Items  BY <1>1, Here DEF Fits
<1>3. Sound(t)  BY <1>2, DeleteNthSound, ChainKinds
<1>4. "returned" \in Inside /\ Fits("returned", f)
  BY <1>2 DEF Inside, Fits, AtPolicy, AtNetwork, AtInfo
<1>5. Step(w, "returned", f, t)  BY DEF handleLogicalNetworkUpdate
<1> HIDE DEF t
<1> QED  BY <1>1, <1>2, <1>3, <1>4, <1>5, StepInv

\* The policies to be freed of a deleted network are listed.
LEMMA handleLogicalNetworkDeleteInv ==
  ASSUME IInv, NEW w \in Workers, handleLogicalNetworkDelete(w)
  PROVE  IInv'
<1> DEFINE f == frame[w]
           g == [f EXCEPT !.infos = ListNetworkPolicies(f.cur)]
<1>1. pc[w] = "networkDelete" /\ pc[w] \in Inside
  BY DEF handleLogicalNetworkDelete, Inside, Handlers
<1>2. TypeOK /\ Sound(iptable) /\ f \in Frames /\ f.item \in Items /\ f.cur \in Networks
  BY <1>1, Here DEF Fits, AtNetwork
<1>3. ListNetworkPolicies(f.cur) \subseteq Infos  BY <1>2, ListerTypes
<1>4. g \in Frames /\ g.item = f.item /\ g.cur = f.cur  BY <1>2, <1>3 DEF Frames
<1>5. "networkDrop" \in Inside /\ Fits("networkDrop", g)
  BY <1>2, <1>4 DEF Inside, Fits, AtPolicy, AtNetwork, AtInfo
<1>6. Step(w, "networkDrop", g, iptable)  BY DEF handleLogicalNetworkDelete
<1> HIDE DEF g
<1> QED  BY <1>1, <1>2, <1>4, <1>5, <1>6, StepInv

\* The policy's jump is looked for in the next network chain.
LEMMA unlinkPolicyInv ==
  ASSUME IInv, NEW w \in Workers, unlinkPolicy(w)
  PROVE  IInv'
<1> DEFINE f == frame[w]
           p == f.item.name
           t == IF f.item.action = "DELETE"
                THEN DeleteIptableChain(iptable, PolicyChain(p)).tbl ELSE iptable
<1>1. pc[w] = "unlink" /\ pc[w] \in Inside  BY DEF unlinkPolicy, Inside
<1>2. TypeOK /\ Sound(iptable) /\ f \in Frames /\ f.item \in PolicyItems /\ p \in Policies
      /\ f.item \in Items
  BY <1>1, Here, ItemKinds DEF Fits, AtPolicy
<1>3. CASE Step(w, "returned", f, t)
  <2>1. Sound(t)  BY <1>2, DeleteIptableChainSound, ChainKinds
  <2>2. "returned" \in Inside /\ Fits("returned", f)
    BY <1>2 DEF Inside, Fits, AtPolicy, AtNetwork, AtInfo
  <2> HIDE DEF t
  <2> QED  BY <1>1, <1>2, <1>3, <2>1, <2>2, StepInv
<1>4. ASSUME NEW n \in f.nets,
             LET g == [f EXCEPT !.nets = f.nets \ {n}, !.cur = n] IN
             IF NetworkChain(n) \notin iptable.chains
             THEN Step(w, "unlink", g, iptable)
             ELSE Step(w, "scanNetwork",
                       [g EXCEPT !.snap = iptable.rules[NetworkChain(n)], !.i = 1, !.cnt = 0],
                       iptable)
      PROVE  IInv'
  <2> DEFINE g == [f EXCEPT !.nets = f.nets \ {n}, !.cur = n]
             snap == iptable.rules[NetworkChain(n)]
             h == [g EXCEPT !.snap = snap, !.i = 1, !.cnt = 0]
  <2>1. n \in Networks /\ f.nets \subseteq Networks  BY <1>2 DEF Frames
  <2>2. g \in Frames /\ g.item = f.item /\ g.cur = n  BY <1>2, <2>1 DEF Frames
  <2>3. snap \in Seq(Rules)  BY <2>1, Here, ChainKinds
  <2>4. Step(w, "unlink", g, iptable) \/ Step(w, "scanNetwork", h, iptable)  BY <1>4
  <2> HIDE DEF g, snap
  <2>5. h \in Frames /\ h.item = f.item /\ h.cur = n  BY <2>2, <2>3 DEF Frames
  <2>6. "unlink" \in Inside /\ Fits("unlink", g)
    BY <1>2, <2>2 DEF Inside, Fits, AtPolicy, AtNetwork, AtInfo
  <2>7. "scanNetwork" \in Inside /\ Fits("scanNetwork", h)
    BY <1>2, <2>1, <2>5 DEF Inside, Fits, AtPolicy, AtNetwork, AtInfo
  <2> HIDE DEF h
  <2> QED  BY <1>1, <1>2, <2>2, <2>4, <2>5, <2>6, <2>7, StepInv
<1> QED  BY <1>3, <1>4 DEF unlinkPolicy

\* The listing of the base chain is taken.
LEMMA BaseScanFits ==
  ASSUME IInv, NEW w \in Workers, NEW g \in Frames, g.item \in Items, g.cur \in Networks
  PROVE  /\ BaseScan(g) \in Frames /\ BaseScan(g).item = g.item
         /\ "scanBase" \in Inside /\ Fits("scanBase", BaseScan(g))
<1> DEFINE snap == iptable.rules[BaseChain]
<1>1. snap \in Seq(Rules)  BY Here, ChainKinds
<1> HIDE DEF snap
<1>2. BaseScan(g) \in Frames /\ BaseScan(g).item = g.item /\ BaseScan(g).cur = g.cur
  BY <1>1 DEF BaseScan, Frames, snap
<1> QED  BY <1>2 DEF Inside, Fits, AtPolicy, AtNetwork, AtInfo

\* One line of the listing of a network chain.
LEMMA scanNetworkChainInv ==
  ASSUME IInv, NEW w \in Workers, scanNetworkChain(w)
  PROVE  IInv'
<1> DEFINE f == frame[w]
           c == NetworkChain(f.cur)
           r == f.snap[f.i]
           cnt == CountPolicy(f, r)
           t == DeleteNth(iptable, c, f.i).tbl
           g == [f EXCEPT !.i = f.i + 1]
           h == [f EXCEPT !.i = f.i + 1, !.cnt = cnt]
<1>1. pc[w] = "scanNetwork" /\ pc[w] \in Inside  BY DEF scanNetworkChain, Inside
<1>2. TypeOK /\ Sound(iptable) /\ f \in Frames /\ f.item \in PolicyItems
      /\ f.item \in Items /\ f.cur \in Networks
  BY <1>1, Here, ItemKinds DEF Fits, AtPolicy, AtNetwork
<1>3. f.i \in Nat /\ f.cnt \in Nat  BY <1>2 DEF Frames
<1>4. cnt \in Nat  BY <1>3 DEF CountPolicy
<1>5. Sound(t)  BY <1>2, <1>3, DeleteNthSound, ChainKinds
<1>6. \/ Step(w, "scanNetwork", g, t)
      \/ Step(w, "scanNetwork", h, iptable)
      \/ Step(w, "scanBase", BaseScan(f), iptable)
      \/ Step(w, "unlink", f, iptable)
  BY DEF scanNetworkChain
<1> HIDE DEF cnt, t
<1>7. g \in Frames /\ g.item = f.item /\ g.cur = f.cur  BY <1>2, <1>3 DEF Frames
<1>8. h \in Frames /\ h.item = f.item /\ h.cur = f.cur
  <2> DEFINE next == f.i + 1
  <2>1. next \in Nat /\ h = [f EXCEPT !.i = next, !.cnt = cnt]  BY <1>3
  <2> HIDE DEF next, h, f
  <2> QED  BY <1>2, <1>4, <2>1 DEF Frames
<1> HIDE DEF g, h
<1>9. Fits("scanNetwork", g) /\ Fits("scanNetwork", h)
  BY <1>2, <1>7, <1>8 DEF Fits, AtPolicy, AtNetwork, AtInfo
<1>10. "unlink" \in Inside /\ Fits("unlink", f)
  BY <1>2 DEF Inside, Fits, AtPolicy, AtNetwork, AtInfo
<1>11. CASE Step(w, "scanNetwork", g, t)  BY <1>1, <1>5, <1>7, <1>9, <1>11, StepInv
<1>12. CASE Step(w, "scanNetwork", h, iptable)  BY <1>1, <1>2, <1>8, <1>9, <1>12, StepInv
<1>13. CASE Step(w, "scanBase", BaseScan(f), iptable)
  BY <1>1, <1>2, <1>13, BaseScanFits, StepInv
<1>14. CASE Step(w, "unlink", f, iptable)  BY <1>1, <1>2, <1>10, <1>14, StepInv
<1> QED  BY <1>6, <1>11, <1>12, <1>13, <1>14

\* A scan that walks a listing with a position of its own stays within types.
LEMMA ScanFrames ==
  ASSUME NEW f \in Frames, NEW d
  PROVE  LET g == [f EXCEPT !.i = f.i + 1, !.cnt = f.cnt + 1,
                            !.pos = IF d = 0 THEN f.pos ELSE f.pos + 1]
             h == [f EXCEPT !.i = f.i + 1, !.pos = f.pos + 1]
         IN  /\ g \in Frames /\ h \in Frames
             /\ g.item = f.item /\ g.cur = f.cur /\ g.policy = f.policy
             /\ h.item = f.item /\ h.cur = f.cur /\ h.policy = f.policy
<1> DEFINE a == f.i + 1
           b == f.cnt + 1
           c == f.pos + 1
           k == IF d = 0 THEN f.pos ELSE c
<1>1. a \in Nat /\ b \in Nat /\ c \in Nat /\ k \in Nat  BY DEF Frames
<1> HIDE DEF a, b, c, k
<1>2. LET g == [f EXCEPT !.i = a, !.cnt = b, !.pos = k]
      IN  g \in Frames /\ g.item = f.item /\ g.cur = f.cur /\ g.policy = f.policy
  BY <1>1 DEF Frames
<1>3. LET h == [f EXCEPT !.i = a, !.pos = c]
      IN  h \in Frames /\ h.item = f.item /\ h.cur = f.cur /\ h.policy = f.policy
  BY <1>1 DEF Frames
<1> QED  BY <1>2, <1>3 DEF a, b, c, k

\* One line of the listing of the base chain, or the removal of the chain.
LEMMA scanBaseChainInv ==
  ASSUME IInv, NEW w \in Workers, scanBaseChain(w)
  PROVE  IInv'
<1> DEFINE f == frame[w]
           d == DeleteNth(iptable, BaseChain, f.pos)
           x == DeleteIptableChain(iptable, NetworkChain(f.cur))
           g == [f EXCEPT !.i = f.i + 1, !.cnt = f.cnt + 1,
                          !.pos = IF d.exit = 0 THEN f.pos ELSE f.pos + 1]
           h == [f EXCEPT !.i = f.i + 1, !.pos = f.pos + 1]
           to == IF Nested(w) THEN "unlink" ELSE IF x.exit = 0 THEN "networkDrop" ELSE "returned"
<1>1. pc[w] = "scanBase" /\ pc[w] \in Inside  BY DEF scanBaseChain, Inside
<1>2. Sound(iptable) /\ f \in Frames /\ f.item \in Items /\ f.cur \in Networks
  BY <1>1, Here DEF Fits, AtNetwork
<1>3. Sound(d.tbl)
  <2>1. f.pos \in Nat  BY <1>2 DEF Frames
  <2> QED  BY <1>2, <2>1, DeleteNthSound, ChainKinds
<1>4. Sound(x.tbl)  BY <1>2, DeleteIptableChainSound, ChainKinds
<1>5. /\ g \in Frames /\ g.item = f.item /\ g.cur = f.cur
      /\ h \in Frames /\ h.item = f.item /\ h.cur = f.cur
  <2> HIDE DEF d, f
  <2> QED  BY <1>2, ScanFrames
<1>6. \/ Step(w, "scanBase", g, d.tbl) \/ Step(w, "scanBase", h, iptable)
      \/ Step(w, to, f, x.tbl)
  BY DEF scanBaseChain
<1>7. Nested(w) => f.item \in PolicyItems  BY <1>2, ItemKinds DEF Nested
<1>8. to \in {"unlink", "networkDrop", "returned"} /\ (to = "unlink" => Nested(w))  OBVIOUS
<1> HIDE DEF d, x, g, h, to
<1>9. Fits("scanBase", g) /\ Fits("scanBase", h)
  BY <1>2, <1>5 DEF Fits, AtPolicy, AtNetwork, AtInfo
<1>10. to \in Inside /\ Fits(to, f)
  BY <1>2, <1>7, <1>8 DEF Inside, Fits, AtPolicy, AtNetwork, AtInfo
<1>11. CASE Step(w, "scanBase", g, d.tbl)  BY <1>1, <1>3, <1>5, <1>9, <1>11, StepInv
<1>12. CASE Step(w, "scanBase", h, iptable)  BY <1>1, <1>2, <1>5, <1>9, <1>12, StepInv
<1>13. CASE Step(w, to, f, x.tbl)  BY <1>1, <1>2, <1>4, <1>10, <1>13, StepInv
<1> QED  BY <1>6, <1>11, <1>12, <1>13

\* One policy of the loop over the deleted network's policies.
LEMMA dropNetworkInv ==
  ASSUME IInv, NEW w \in Workers, dropNetwork(w)
  PROVE  IInv'
<1> DEFINE f == frame[w]
<1>1. pc[w] = "networkDrop" /\ pc[w] \in Inside  BY DEF dropNetwork, Inside
<1>2. Sound(iptable) /\ f \in Frames /\ f.item \in Items /\ f.cur \in Networks
  BY <1>1, Here DEF Fits, AtNetwork
<1>3. CASE Step(w, "returned", f, iptable)
  <2>1. "returned" \in Inside /\ Fits("returned", f)
    BY <1>2 DEF Inside, Fits, AtPolicy, AtNetwork, AtInfo
  <2> QED  BY <1>1, <1>2, <1>3, <2>1, StepInv
<1>4. ASSUME NEW info \in f.infos,
             LET g == [f EXCEPT !.infos = f.infos \ {info}, !.policy = info.policy] IN
             IF info.via = f.cur
             THEN Step(w, "scanBase", BaseScan(g), iptable)
             ELSE IF PolicyChain(info.policy) \notin iptable.chains
             THEN Step(w, "networkDrop", g, iptable)
             ELSE Step(w, "scanPolicy",
                       [g EXCEPT !.snap = iptable.rules[PolicyChain(info.policy)],
                                 !.i = 0, !.pos = 0, !.cnt = 0], iptable)
      PROVE  IInv'
  <2> DEFINE g == [f EXCEPT !.infos = f.infos \ {info}, !.policy = info.policy]
             snap == iptable.rules[PolicyChain(info.policy)]
             h == [g EXCEPT !.snap = snap, !.i = 0, !.pos = 0, !.cnt = 0]
  <2>1. f.infos \subseteq Infos  BY <1>2 DEF Frames
  <2>2. info.policy \in Policies  BY <2>1 DEF Infos
  <2>3. g \in Frames /\ g.item = f.item /\ g.cur = f.cur /\ g.policy = info.policy
    BY <1>2, <2>1, <2>2 DEF Frames
  <2>4. snap \in Seq(Rules)  BY <2>2, Here, ChainKinds
  <2>5. \/ Step(w, "scanBase", BaseScan(g), iptable) \/ Step(w, "networkDrop", g, iptable)
        \/ Step(w, "scanPolicy", h, iptable)
    BY <1>4
  <2> HIDE DEF g, snap
  <2>6. h \in Frames /\ h.item = f.item /\ h.cur = f.cur /\ h.policy = info.policy
    BY <2>3, <2>4 DEF Frames
  <2> HIDE DEF h
  <2>7. Fits("networkDrop", g)  BY <1>2, <2>3 DEF Fits, AtPolicy, AtNetwork, AtInfo
  <2>8. "scanPolicy" \in Inside /\ Fits("scanPolicy", h)
    BY <1>2, <2>2, <2>6 DEF Inside, Fits, AtPolicy, AtNetwork, AtInfo
  <2>9. CASE Step(w, "scanBase", BaseScan(g), iptable)
    BY <1>1, <1>2, <2>3, <2>9, BaseScanFits, StepInv
  <2>10. CASE Step(w, "networkDrop", g, iptable)  BY <1>1, <1>2, <2>3, <2>7, <2>10, StepInv
  <2>11. CASE Step(w, "scanPolicy", h, iptable)  BY <1>1, <1>2, <2>6, <2>8, <2>11, StepInv
  <2> QED  BY <2>5, <2>9, <2>10, <2>11
<1> QED  BY <1>3, <1>4 DEF dropNetwork

\* One line of the listing of a policy chain.
LEMMA scanPolicyChainInv ==
  ASSUME IInv, NEW w \in Workers, scanPolicyChain(w)
  PROVE  IInv'
<1> DEFINE f == frame[w]
           d == DeleteNth(iptable, PolicyChain(f.policy), f.pos)
           g == [f EXCEPT !.i = f.i + 1, !.cnt = f.cnt + 1,
                          !.pos = IF d.exit = 0 THEN f.pos ELSE f.pos + 1]
           h == [f EXCEPT !.i = f.i + 1, !.pos = f.pos + 1]
<1>1. pc[w] = "scanPolicy" /\ pc[w] \in Inside  BY DEF scanPolicyChain, Inside
<1>2. Sound(iptable) /\ f \in Frames /\ f.item \in Items /\ f.cur \in Networks
      /\ f.policy \in Policies
  BY <1>1, Here DEF Fits, AtNetwork, AtInfo
<1>3. Sound(d.tbl)
  <2>1. f.pos \in Nat  BY <1>2 DEF Frames
  <2> QED  BY <1>2, <2>1, DeleteNthSound, ChainKinds
<1>4. /\ g \in Frames /\ g.item = f.item /\ g.cur = f.cur /\ g.policy = f.policy
      /\ h \in Frames /\ h.item = f.item /\ h.cur = f.cur /\ h.policy = f.policy
  <2> HIDE DEF d, f
  <2> QED  BY <1>2, ScanFrames
<1>5. \/ Step(w, "scanPolicy", g, d.tbl) \/ Step(w, "scanPolicy", h, iptable)
      \/ Step(w, "networkDrop", f, iptable)
  BY DEF scanPolicyChain
<1> HIDE DEF d, g, h
<1>6. Fits("scanPolicy", g) /\ Fits("scanPolicy", h)
  BY <1>2, <1>4 DEF Fits, AtPolicy, AtNetwork, AtInfo
<1>7. "networkDrop" \in Inside /\ Fits("networkDrop", f)
  BY <1>2 DEF Inside, Fits, AtPolicy, AtNetwork, AtInfo
<1>8. CASE Step(w, "scanPolicy", g, d.tbl)  BY <1>1, <1>3, <1>4, <1>6, <1>8, StepInv
<1>9. CASE Step(w, "scanPolicy", h, iptable)  BY <1>1, <1>2, <1>4, <1>6, <1>9, StepInv
<1>10. CASE Step(w, "networkDrop", f, iptable)  BY <1>1, <1>2, <1>7, <1>10, StepInv
<1> QED  BY <1>5, <1>8, <1>9, <1>10
-----------------------------------------------------------------------------
\* Every step preserves the invariant.
LEMMA NextInv == IInv /\ [Next]_vars => IInv'
<1> SUFFICES ASSUME IInv, [Next]_vars PROVE IInv'  OBVIOUS
<1>1. CASE Cluster  BY <1>1, ClusterInv
<1>2. CASE Run  BY <1>2, RunInv
<1>3. CASE Stop  BY <1>3, StopInv
<1>4. ASSUME NEW k \in Kinds, Notify(k) PROVE IInv'  BY <1>4, NotifyInv
<1>5. ASSUME NEW w \in Workers, Worker(w) PROVE IInv'
  <2>1. CASE Get(w)  BY <2>1, GetInv
  <2>2. CASE Lock(w)  BY <2>2, LockInv
  <2>3. CASE Unlock(w)  BY <2>3, UnlockInv
  <2>4. CASE Done(w)  BY <2>4, DoneInv
  <2>5. CASE Handler(w)
    BY <2>5, handleNetworkPolicyAddInv, handleNetworkPolicyUpdateInv,
       handleNetworkPolicyDeleteInv, populatePolicyChainInv, populatePeersInv,
       handleLogicalNetworkAddInv, listPoliciesForAddInv,
       handleLogicalNetworkAddPoliciesInv, closeNetworkInv, linkNetworkInv,
       imposePolicyInv, handleLogicalNetworkAddPeersInv, handleLogicalNetworkUpdateInv, handleLogicalNetworkDeleteInv, unlinkPolicyInv,
       scanNetworkChainInv, scanBaseChainInv, dropNetworkInv, scanPolicyChainInv
    DEF Handler
  <2> QED  BY <1>5, <2>1, <2>2, <2>3, <2>4, <2>5 DEF Worker
<1>6. CASE UNCHANGED vars
  <2>1. TypeOK'  BY <1>6 DEF IInv, TypeOK, vars
  <2>2. KeysHandledOnce'  BY <1>6 DEF IInv, KeysHandledOnce, vars
  <2> QED  BY <1>6, <2>1, <2>2 DEF IInv, Holds, vars
<1> QED  BY <1>1, <1>2, <1>3, <1>4, <1>5, <1>6 DEF Next

\* The invariant holds throughout.
THEOREM Invariance == Spec => []IInv
BY InitInv, NextInv, PTL DEF Spec

\* Every handler, from every state it can be started or interrupted in, keeps
\* queue keys, local variables and rule tables within their types: no lister
\* answer of "not found", empty annotation or empty subnet slips through.
THEOREM TypeCorrect == Spec => []TypeOK
<1>1. IInv => TypeOK  BY DEF IInv
<1> QED  BY <1>1, Invariance, PTL

\* The mutex of syncHandler: no two workers are inside a handler together.
THEOREM HandlersExclude == Spec => []MutualExclusion
<1>1. IInv => MutualExclusion  BY DEF IInv, Holds, MutualExclusion
<1> QED  BY <1>1, Invariance, PTL

\* The work queue and the workers agree on who has which key.
THEOREM QueueCorrect == Spec => []KeysHandledOnce
<1>1. IInv => KeysHandledOnce  BY DEF IInv
<1> QED  BY <1>1, Invariance, PTL

\* No sequence of changes, failures and restarts makes a chain hold a rule twice.
THEOREM RulesAreDistinct == Spec => []NoDuplicateRules
<1>1. IInv => NoDuplicateRules  BY DEF IInv, Sound, Distinct, NoDuplicateRules
<1> QED  BY <1>1, Invariance, PTL

\* The REJECT of a network chain stays behind every policy jump.
THEOREM RejectStaysLast == Spec => []RejectIsLast
<1>1. IInv => RejectIsLast
  BY ChainKinds DEF IInv, Sound, RejectAtEnd, IsReject, RejectIsLast
<1> QED  BY <1>1, Invariance, PTL
-----------------------------------------------------------------------------
(***************************************************************************)
(* The queue, the workers and the mutex implement KeyHandling.             *)
(***************************************************************************)
\* A step inside syncHandler: worker w stays inside and keeps its key.
StaysInside(w) ==
  /\ pc[w] \in Inside
  /\ \E f : \E to \in Inside : /\ f.item = frame[w].item
                               /\ pc' = [pc EXCEPT ![w] = to]
                               /\ frame' = [frame EXCEPT ![w] = f]
  /\ UNCHANGED <<up, q>>

\* What Step says of the labels and the keys.
LEMMA StepStays ==
  ASSUME NEW w \in Workers, pc[w] \in Inside, NEW to \in Inside, NEW f, NEW t,
         f.item = frame[w].item, Step(w, to, f, t)
  PROVE  StaysInside(w)
BY DEF Step, StaysInside

\* No handler changes its key or leaves by itself.
LEMMA PolicyHandlersStay ==
  ASSUME NEW w \in Workers, frame[w] \in Frames,
         \/ handleNetworkPolicyAdd(w) \/ handleNetworkPolicyUpdate(w)
         \/ handleNetworkPolicyDelete(w)
         \/ populatePolicyChain(w) \/ populatePeers(w)
  PROVE  StaysInside(w)
<1> DEFINE f == frame[w]
<1>1. CASE handleNetworkPolicyAdd(w)
  <2>1. pc[w] \in Inside  BY <1>1 DEF handleNetworkPolicyAdd, Inside, Handlers
  <2>2. \E g, t : \E to \in {"returned", "populate"} : g.item = f.item /\ Step(w, to, g, t)
    BY <1>1 DEF handleNetworkPolicyAdd, Frames
  <2> QED  BY <2>1, <2>2, StepStays DEF Inside
<1>2. CASE handleNetworkPolicyUpdate(w)
  <2>1. pc[w] \in Inside  BY <1>2 DEF handleNetworkPolicyUpdate, Inside, Handlers
  <2>2. \E g, t : \E to \in {"returned", "populate", "unlink"} : g.item = f.item /\ Step(w, to, g, t)
    BY <1>2 DEF handleNetworkPolicyUpdate, Frames
  <2> QED  BY <2>1, <2>2, StepStays DEF Inside
<1>3. CASE handleNetworkPolicyDelete(w)
  <2>1. pc[w] \in Inside  BY <1>3 DEF handleNetworkPolicyDelete, Inside, Handlers
  <2>2. \E g, t : \E to \in {"returned", "unlink"} : g.item = f.item /\ Step(w, to, g, t)
    BY <1>3 DEF handleNetworkPolicyDelete, Frames
  <2> QED  BY <2>1, <2>2, StepStays DEF Inside
<1>4. CASE populatePolicyChain(w)
  <2>1. pc[w] \in Inside  BY <1>4 DEF populatePolicyChain, Inside
  <2>2. \E g, t : \E to \in {"returned", "networkAdd", "peers", "populate"} :
          g.item = f.item /\ Step(w, to, g, t)
    BY <1>4 DEF populatePolicyChain, Frames
  <2> QED  BY <2>1, <2>2, StepStays DEF Inside, Handlers
<1>5. CASE populatePeers(w)
  <2>1. pc[w] \in Inside  BY <1>5 DEF populatePeers, Inside
  <2>2. \E g, t : \E to \in {"peers", "populate"} : g.item = f.item /\ Step(w, to, g, t)
    BY <1>5 DEF populatePeers, Frames
  <2> QED  BY <2>1, <2>2, StepStays DEF Inside
<1> QED  BY <1>1, <1>2, <1>3, <1>4, <1>5

\* The same for the handlers of a network ...
LEMMA NetworkHandlersStay ==
  ASSUME NEW w \in Workers, frame[w] \in Frames,
         \/ handleLogicalNetworkAdd(w) \/ listPoliciesForAdd(w)
         \/ handleLogicalNetworkAddPolicies(w) \/ closeNetwork(w) \/ linkNetwork(w)
         \/ imposePolicy(w) \/ handleLogicalNetworkAddPeers(w)
         \/ handleLogicalNetworkUpdate(w) \/ handleLogicalNetworkDelete(w)
  PROVE  StaysInside(w)
<1> DEFINE f == frame[w]
<1>0. Failed(w) \in Inside /\ Succeeded(w) \in Inside
  BY DEF Failed, Succeeded, Inside
<1>1. CASE handleLogicalNetworkAdd(w)
  <2>1. pc[w] \in Inside  BY <1>1 DEF handleLogicalNetworkAdd, Inside, Handlers
  <2>2. \E g, t : \E to \in {Failed(w), "networkList"} : g.item = f.item /\ Step(w, to, g, t)
    BY <1>1 DEF handleLogicalNetworkAdd, Frames
  <2> QED  BY <1>0, <2>1, <2>2, StepStays DEF Inside
<1>2. CASE listPoliciesForAdd(w)
  <2>1. pc[w] \in Inside  BY <1>2 DEF listPoliciesForAdd, Inside
  <2>2. \E g, t : g.item = f.item /\ Step(w, "networkPolicies", g, t)
    BY <1>2 DEF listPoliciesForAdd, Frames
  <2> QED  BY <2>1, <2>2, StepStays DEF Inside
<1>3. CASE handleLogicalNetworkAddPolicies(w)
  <2>1. pc[w] \in Inside  BY <1>3 DEF handleLogicalNetworkAddPolicies, Inside
  <2>2. \E g, t : \E to \in {Succeeded(w), "close", "networkPolicies"} :
          g.item = f.item /\ Step(w, to, g, t)
    BY <1>3 DEF handleLogicalNetworkAddPolicies, Frames
  <2> QED  BY <1>0, <2>1, <2>2, StepStays DEF Inside
<1>4. CASE closeNetwork(w)
  <2>1. pc[w] \in Inside  BY <1>4 DEF closeNetwork, Inside
  <2>2. \E g, t : g.item = f.item /\ Step(w, "linkTo", g, t)
    BY <1>4 DEF closeNetwork
  <2> QED  BY <2>1, <2>2, StepStays DEF Inside
<1>5. CASE linkNetwork(w)
  <2>1. pc[w] \in Inside  BY <1>5 DEF linkNetwork, Inside
  <2>2. \E g, t : \E to \in {"linkFrom", "impose"} : g.item = f.item /\ Step(w, to, g, t)
    BY <1>5 DEF linkNetwork, Frames
  <2> QED  BY <2>1, <2>2, StepStays DEF Inside
<1>6. CASE imposePolicy(w)
  <2>1. pc[w] \in Inside  BY <1>6 DEF imposePolicy, Inside
  <2>2. \E g, t : \E to \in {Failed(w), "networkPeers"} : g.item = f.item /\ Step(w, to, g, t)
    BY <1>6 DEF imposePolicy, Frames
  <2> QED  BY <1>0, <2>1, <2>2, StepStays DEF Inside
<1>7. CASE handleLogicalNetworkAddPeers(w)
  <2>1. pc[w] \in Inside  BY <1>7 DEF handleLogicalNetworkAddPeers, Inside
  <2>2. \E g, t : \E to \in {"networkPolicies", "networkPeers"} : g.item = f.item /\ Step(w, to, g, t)
    BY <1>7 DEF handleLogicalNetworkAddPeers, Frames
  <2> QED  BY <2>1, <2>2, StepStays DEF Inside
<1>8. CASE handleLogicalNetworkUpdate(w)
  <2>1. pc[w] \in Inside  BY <1>8 DEF handleLogicalNetworkUpdate, Inside, Handlers
  <2>2. \E g, t : g.item = f.item /\ Step(w, "returned", g, t)
    BY <1>8 DEF handleLogicalNetworkUpdate
  <2> QED  BY <2>1, <2>2, StepStays DEF Inside
<1>9. CASE handleLogicalNetworkDelete(w)
  <2>1. pc[w] \in Inside  BY <1>9 DEF handleLogicalNetworkDelete, Inside, Handlers
  <2>2. \E g, t : g.item = f.item /\ Step(w, "networkDrop", g, t)
    BY <1>9 DEF handleLogicalNetworkDelete, Frames
  <2> QED  BY <2>1, <2>2, StepStays DEF Inside
<1> QED  BY <1>1, <1>2, <1>3, <1>4, <1>5, <1>6, <1>7, <1>8, <1>9

\* ... and for the scans.
LEMMA ScansStay ==
  ASSUME NEW w \in Workers, frame[w] \in Frames,
         \/ unlinkPolicy(w) \/ scanNetworkChain(w) \/ scanBaseChain(w)
         \/ dropNetwork(w) \/ scanPolicyChain(w)
  PROVE  StaysInside(w)
<1> DEFINE f == frame[w]
<1>1. CASE unlinkPolicy(w)
  <2>1. pc[w] \in Inside  BY <1>1 DEF unlinkPolicy, Inside
  <2>2. \E g, t : \E to \in {"returned", "unlink", "scanNetwork"} : g.item = f.item /\ Step(w, to, g, t)
    BY <1>1 DEF unlinkPolicy, Frames
  <2> QED  BY <2>1, <2>2, StepStays DEF Inside
<1>2. CASE scanNetworkChain(w)
  <2>1. pc[w] \in Inside  BY <1>2 DEF scanNetworkChain, Inside
  <2>2. \E g, t : \E to \in {"scanNetwork", "scanBase", "unlink"} : g.item = f.item /\ Step(w, to, g, t)
    BY <1>2 DEF scanNetworkChain, BaseScan, Frames
  <2> QED  BY <2>1, <2>2, StepStays DEF Inside
<1>3. CASE scanBaseChain(w)
  <2>1. pc[w] \in Inside  BY <1>3 DEF scanBaseChain, Inside
  <2>2. \E g, t : \E to \in {"scanBase", "unlink", "networkDrop", "returned"} :
          g.item = f.item /\ Step(w, to, g, t)
    BY <1>3 DEF scanBaseChain, Frames
  <2> QED  BY <2>1, <2>2, StepStays DEF Inside
<1>4. CASE dropNetwork(w)
  <2>1. pc[w] \in Inside  BY <1>4 DEF dropNetwork, Inside
  <2>2. \E g, t : \E to \in {"returned", "scanBase", "networkDrop", "scanPolicy"} :
          g.item = f.item /\ Step(w, to, g, t)
    BY <1>4 DEF dropNetwork, BaseScan, Frames
  <2> QED  BY <2>1, <2>2, StepStays DEF Inside
<1>5. CASE scanPolicyChain(w)
  <2>1. pc[w] \in Inside  BY <1>5 DEF scanPolicyChain, Inside
  <2>2. \E g, t : \E to \in {"scanPolicy", "networkDrop"} : g.item = f.item /\ Step(w, to, g, t)
    BY <1>5 DEF scanPolicyChain, Frames
  <2> QED  BY <2>1, <2>2, StepStays DEF Inside
<1> QED  BY <1>1, <1>2, <1>3, <1>4, <1>5
-----------------------------------------------------------------------------
\* The keys of the workers that p puts at a label of L, with local variables f.
At(L, p, f) == {f[w].item : w \in {v \in Workers : p[v] \in L}}

\* The keys of the workers other than w.
Others(w, L) == {frame[v].item : v \in {u \in Workers \ {w} : pc[u] \in L}}

\* The refinement mapping in terms of At.
LEMMA MappingAt ==
  /\ KeysAt({"got"}) = At({"got"}, pc, frame) /\ KeysAt({"got"})' = At({"got"}, pc', frame')
  /\ KeysAt(Inside) = At(Inside, pc, frame) /\ KeysAt(Inside)' = At(Inside, pc', frame')
  /\ KeysAt({"unlocked"}) = At({"unlocked"}, pc, frame)
  /\ KeysAt({"unlocked"})' = At({"unlocked"}, pc', frame')
<1>1. KeysAt({"got"}) = At({"got"}, pc, frame) /\ KeysAt({"got"})' = At({"got"}, pc', frame')
  BY DEF KeysAt, At
<1>2. KeysAt(Inside) = At(Inside, pc, frame) /\ KeysAt(Inside)' = At(Inside, pc', frame')
  BY DEF KeysAt, At, Inside, Handlers
<1>3. /\ KeysAt({"unlocked"}) = At({"unlocked"}, pc, frame)
      /\ KeysAt({"unlocked"})' = At({"unlocked"}, pc', frame')
  BY DEF KeysAt, At
<1> QED  BY <1>1, <1>2, <1>3

\* The keys at the labels of L when only worker w moves.
LEMMA KeysMove ==
  ASSUME NEW w \in Workers, NEW L,
         \A v \in Workers \ {w} : pc'[v] = pc[v] /\ frame'[v].item = frame[v].item
  PROVE  /\ pc'[w] \in L => At(L, pc', frame') = Others(w, L) \cup {frame'[w].item}
         /\ pc'[w] \notin L => At(L, pc', frame') = Others(w, L)
         /\ pc[w] \in L => At(L, pc, frame) = Others(w, L) \cup {frame[w].item}
         /\ pc[w] \notin L => At(L, pc, frame) = Others(w, L)
BY DEF At, Others

\* A step inside syncHandler moves no key.
LEMMA StaysRefines ==
  ASSUME IInv, NEW w \in Workers, StaysInside(w)
  PROVE  Handling!Edit
<1>1. /\ \A v \in Workers \ {w} : pc'[v] = pc[v] /\ frame'[v].item = frame[v].item
      /\ pc[w] \in Inside /\ pc'[w] \in Inside /\ frame'[w].item = frame[w].item
      /\ up' = up /\ q' = q
  BY DEF StaysInside, IInv, TypeOK
<1>2. \A l \in Inside : l \notin {"got"} /\ l \notin {"unlocked"}  BY DEF Inside, Handlers
<1>3. At({"got"}, pc', frame') = At({"got"}, pc, frame)
  <2>1. /\ At({"got"}, pc', frame') = Others(w, {"got"})
        /\ At({"got"}, pc, frame) = Others(w, {"got"})
    BY <1>1, <1>2, KeysMove
  <2> QED  BY <2>1
<1>4. At({"unlocked"}, pc', frame') = At({"unlocked"}, pc, frame)
  <2>1. /\ At({"unlocked"}, pc', frame') = Others(w, {"unlocked"})
        /\ At({"unlocked"}, pc, frame) = Others(w, {"unlocked"})
    BY <1>1, <1>2, KeysMove
  <2> QED  BY <2>1
<1>5. At(Inside, pc', frame') = At(Inside, pc, frame) /\ At(Inside, pc, frame) # {}
  <2>1. /\ At(Inside, pc', frame') = Others(w, Inside) \cup {frame[w].item}
        /\ At(Inside, pc, frame) = Others(w, Inside) \cup {frame[w].item}
    BY <1>1, KeysMove
  <2> QED  BY <2>1
<1> QED  BY <1>1, <1>3, <1>4, <1>5, MappingAt DEF Handling!Edit
-----------------------------------------------------------------------------
\* A key held by one worker is in processing and held by no other.
LEMMA OthersDiffer ==
  ASSUME IInv, NEW w \in Workers, NEW L, "idle" \notin L
  PROVE  /\ Others(w, L) \subseteq q.processing
         /\ pc[w] # "idle" => frame[w].item \notin Others(w, L)
BY DEF IInv, KeysHandledOnce, Others

\* Get takes the head of the queue, which waits and is nobody's.
LEMMA GetRefines ==
  ASSUME IInv, NEW w \in Workers, Get(w)
  PROVE  \E k \in Items : Handling!Take(k)
<1> DEFINE k == Head(q.queue)
<1>1. TypeOK /\ q \in Queues(Items) /\ QueueConsistent(q)
  BY DEF IInv, TypeOK, KeysHandledOnce
<1>2. /\ q.queue # << >> /\ pc[w] = "idle" /\ q' = QueueGet(q)
      /\ UNCHANGED <<up, iptable>>
  BY DEF Get
<1>3. k \in Items /\ k \notin q.processing  BY <1>1, <1>2, QueueGetConsistent
<1>4. k \in q.dirty
  <2>1. q.queue \in Seq(Items)  BY <1>1 DEF Queues
  <2>2. k \in Held(q.queue)  BY <1>2, <2>1, TailHeld
  <2> QED  BY <1>1, <2>2, ConsistentHeld
<1>5. q'.dirty = q.dirty \ {k}  BY <1>2 DEF QueueGet
<1>6. /\ \A v \in Workers \ {w} : pc'[v] = pc[v] /\ frame'[v].item = frame[v].item
      /\ pc'[w] = "got" /\ frame'[w].item = k
  BY <1>1 DEF Get, TypeOK, EmptyFrame
<1> HIDE DEF k
<1>7. "idle" \notin {"got"} /\ "idle" \notin {"unlocked"} /\ "idle" \notin Inside
      /\ "got" \in {"got"} /\ "got" \notin {"unlocked"} /\ "got" \notin Inside
  BY DEF Inside, Handlers
<1>8. /\ At({"got"}, pc, frame) = Others(w, {"got"})
      /\ At({"got"}, pc', frame') = Others(w, {"got"}) \cup {k}
      /\ At({"unlocked"}, pc, frame) = Others(w, {"unlocked"})
      /\ At({"unlocked"}, pc', frame') = Others(w, {"unlocked"})
      /\ At(Inside, pc, frame) = Others(w, Inside)
      /\ At(Inside, pc', frame') = Others(w, Inside)
  BY <1>2, <1>6, <1>7, KeysMove
<1>9. /\ k \notin Others(w, {"got"}) /\ k \notin Others(w, {"unlocked"})
      /\ k \notin Others(w, Inside)
  BY <1>3, <1>7, OthersDiffer
<1>10. Handling!Take(k)
  BY <1>2, <1>4, <1>5, <1>8, <1>9, MappingAt DEF Handling!Take
<1> QED  BY <1>3, <1>10

\* Lock enters when nobody is inside.
LEMMA LockRefines ==
  ASSUME IInv, NEW w \in Workers, Lock(w)
  PROVE  \E k \in Items : Handling!Enter(k)
<1> DEFINE k == frame[w].item
<1>1. TypeOK /\ frame[w] \in Frames /\ Fits("got", frame[w])  BY DEF IInv, TypeOK, Lock
<1>2. k \in Items /\ HandlerOf(k) \in Handlers  BY <1>1, HandlerFits DEF Fits
<1>3. /\ pc[w] = "got" /\ mutex = NoWorker /\ pc' = [pc EXCEPT ![w] = HandlerOf(k)]
      /\ UNCHANGED <<up, q, frame, iptable>>
  BY DEF Lock
<1>4. HandlerOf(k) \in Inside /\ HandlerOf(k) \notin {"got"} /\ HandlerOf(k) \notin {"unlocked"}
  BY <1>2 DEF Handlers, Inside
<1>5. /\ \A v \in Workers \ {w} : pc'[v] = pc[v] /\ frame'[v].item = frame[v].item
      /\ pc'[w] = HandlerOf(k) /\ frame'[w].item = k
  BY <1>1, <1>3 DEF TypeOK
<1>6. "got" \in {"got"} /\ "got" \notin {"unlocked"} /\ "got" \notin Inside /\ "idle" \notin {"got"}
  BY DEF Inside, Handlers
<1>7. /\ At({"got"}, pc, frame) = Others(w, {"got"}) \cup {k}
      /\ At({"got"}, pc', frame') = Others(w, {"got"})
      /\ At({"unlocked"}, pc, frame) = Others(w, {"unlocked"})
      /\ At({"unlocked"}, pc', frame') = Others(w, {"unlocked"})
      /\ At(Inside, pc, frame) = Others(w, Inside)
      /\ At(Inside, pc', frame') = Others(w, Inside) \cup {k}
  <2>1. /\ At({"got"}, pc, frame) = Others(w, {"got"}) \cup {k}
        /\ At({"got"}, pc', frame') = Others(w, {"got"})
    BY <1>3, <1>4, <1>5, <1>6, KeysMove
  <2>2. /\ At({"unlocked"}, pc, frame) = Others(w, {"unlocked"})
        /\ At({"unlocked"}, pc', frame') = Others(w, {"unlocked"})
    BY <1>3, <1>4, <1>5, <1>6, KeysMove
  <2>3. /\ At(Inside, pc, frame) = Others(w, Inside)
        /\ At(Inside, pc', frame') = Others(w, Inside) \cup {k}
    <3>1. pc'[w] \in Inside /\ pc[w] \notin Inside  BY <1>3, <1>4, <1>5, <1>6
    <3>2. At(Inside, pc, frame) = Others(w, Inside)  BY <1>5, <3>1, KeysMove
    <3>3. At(Inside, pc', frame') = Others(w, Inside) \cup {frame'[w].item}
      BY <1>5, <3>1, KeysMove
    <3> QED  BY <1>5, <3>2, <3>3
  <2> QED  BY <2>1, <2>2, <2>3
<1>8. Others(w, Inside) = {}
  BY <1>3, ConstantsAssumption DEF IInv, Holds, Others
<1>9. k \notin Others(w, {"got"})  BY <1>3, <1>6, OthersDiffer
<1>10. Handling!Enter(k)
  BY <1>3, <1>7, <1>8, <1>9, MappingAt DEF Handling!Enter
<1> QED  BY <1>2, <1>10

\* Unlock leaves, and nobody else is inside.
LEMMA UnlockRefines ==
  ASSUME IInv, NEW w \in Workers, Unlock(w)
  PROVE  \E k \in Items : Handling!Leave(k)
<1> DEFINE k == frame[w].item
<1>1. TypeOK /\ Fits(pc[w], frame[w])  BY DEF IInv
<1>2. /\ pc[w] = "returned" /\ pc' = [pc EXCEPT ![w] = "unlocked"]
      /\ UNCHANGED <<up, q, frame, iptable>>
  BY DEF Unlock
<1>3. k \in Items  BY <1>1, <1>2 DEF Fits
<1>4. /\ \A v \in Workers \ {w} : pc'[v] = pc[v] /\ frame'[v].item = frame[v].item
      /\ pc'[w] = "unlocked" /\ frame'[w].item = k
  BY <1>1, <1>2 DEF TypeOK
<1>5. /\ "returned" \in Inside /\ "returned" \notin {"got"} /\ "returned" \notin {"unlocked"}
      /\ "unlocked" \notin Inside /\ "unlocked" \notin {"got"} /\ "unlocked" \in {"unlocked"}
  BY DEF Inside, Handlers
<1>6. /\ At({"got"}, pc, frame) = Others(w, {"got"})
      /\ At({"got"}, pc', frame') = Others(w, {"got"})
      /\ At({"unlocked"}, pc, frame) = Others(w, {"unlocked"})
      /\ At({"unlocked"}, pc', frame') = Others(w, {"unlocked"}) \cup {k}
      /\ At(Inside, pc, frame) = Others(w, Inside) \cup {k}
      /\ At(Inside, pc', frame') = Others(w, Inside)
  BY <1>2, <1>4, <1>5, KeysMove
<1>7. mutex = w  BY <1>2, <1>5 DEF IInv, Holds
<1>8. Others(w, Inside) = {}  BY <1>7 DEF IInv, Holds, Others
<1>9. Handling!Leave(k)
  BY <1>2, <1>6, <1>8, MappingAt DEF Handling!Leave
<1> QED  BY <1>3, <1>9

\* Done gives the key back and forgets no announcement.
LEMMA DoneRefines ==
  ASSUME IInv, NEW w \in Workers, Done(w)
  PROVE  \E k \in Items : Handling!GiveBack(k)
<1> DEFINE k == frame[w].item
<1>1. TypeOK /\ Fits(pc[w], frame[w]) /\ q \in Queues(Items)  BY DEF IInv, TypeOK
<1>2. /\ pc[w] = "unlocked" /\ q' = QueueDone(q, k)
      /\ pc' = [pc EXCEPT ![w] = "idle"] /\ frame' = [frame EXCEPT ![w] = EmptyFrame]
      /\ UNCHANGED <<up, iptable>>
  BY DEF Done
<1>3. k \in Items  BY <1>1, <1>2 DEF Fits
<1>4. q'.dirty = q.dirty  BY <1>1, <1>2 DEF QueueDone, Queues
<1>5. /\ \A v \in Workers \ {w} : pc'[v] = pc[v] /\ frame'[v].item = frame[v].item
      /\ pc'[w] = "idle"
  BY <1>1, <1>2 DEF TypeOK
<1>6. /\ "idle" \notin {"got"} /\ "idle" \notin {"unlocked"} /\ "idle" \notin Inside
      /\ "unlocked" \notin Inside /\ "unlocked" \notin {"got"} /\ "unlocked" \in {"unlocked"}
  BY DEF Inside, Handlers
<1>7. /\ At({"got"}, pc, frame) = Others(w, {"got"})
      /\ At({"got"}, pc', frame') = Others(w, {"got"})
      /\ At({"unlocked"}, pc, frame) = Others(w, {"unlocked"}) \cup {k}
      /\ At({"unlocked"}, pc', frame') = Others(w, {"unlocked"})
      /\ At(Inside, pc, frame) = Others(w, Inside)
      /\ At(Inside, pc', frame') = Others(w, Inside)
  BY <1>2, <1>5, <1>6, KeysMove
<1>8. k \notin Others(w, {"unlocked"})  BY <1>2, <1>6, OthersDiffer
<1>9. Handling!GiveBack(k)
  BY <1>2, <1>4, <1>7, <1>8, MappingAt DEF Handling!GiveBack
<1> QED  BY <1>3, <1>9

\* A notification announces its key, whether or not the queue has it already.
LEMMA NotifyRefines ==
  ASSUME IInv, NEW kind \in Kinds, Notify(kind)
  PROVE  \E k \in Items : Handling!Announce(k)
<1> DEFINE k == Head(notes[kind])
<1>1. notes \in [Kinds -> Seq(Items)] /\ notes[kind] # << >> /\ q \in Queues(Items)
  BY DEF IInv, TypeOK, Notify
<1>2. k \in Items  BY <1>1
<1>3. up /\ q' = QueueAdd(q, k) /\ UNCHANGED <<up, pc, frame, iptable>>  BY DEF Notify
<1> HIDE DEF k
<1>4. q'.dirty = q.dirty \cup {k}  BY <1>1, <1>3 DEF QueueAdd, Queues
<1>5. Handling!Announce(k)  BY <1>3, <1>4, MappingAt DEF Handling!Announce
<1> QED  BY <1>2, <1>5
-----------------------------------------------------------------------------
\* The initial states are initial states of KeyHandling.
LEMMA InitRefines == Init => Handling!Init
<1> SUFFICES ASSUME Init PROVE Handling!Init  OBVIOUS
<1>1. \A w \in Workers : pc[w] = "idle"  BY DEF Init
<1>2. "idle" \notin {"got"} /\ "idle" \notin {"unlocked"} /\ "idle" \notin Inside
  BY DEF Inside, Handlers
<1>3. KeysAt({"got"}) = {} /\ KeysAt(Inside) = {} /\ KeysAt({"unlocked"}) = {}
  BY <1>1, <1>2 DEF KeysAt
<1> QED  BY <1>3 DEF Init, EmptyQueue, Handling!Init

\* Every step of the controller is a step of KeyHandling, or leaves it alone.
LEMMA NextRefines == IInv /\ [Next]_vars => [Handling!Next]_(Handling!vars)
<1> SUFFICES ASSUME IInv, [Next]_vars PROVE [Handling!Next]_(Handling!vars)  OBVIOUS
<1>1. ASSUME UNCHANGED <<up, q, pc, frame, iptable>>
      PROVE  UNCHANGED Handling!vars
  BY <1>1, MappingAt DEF Handling!vars
<1>2. CASE Cluster
  <2>1. UNCHANGED <<up, q, pc, frame, iptable>>
    BY <1>2 DEF Cluster, CreatePolicy, UpdatePolicy, DeletePolicy, CreateNetwork,
       UpdateNetwork, DeleteNetwork, Change
  <2> QED  BY <1>1, <2>1
<1>3. CASE Run
  <2>1. /\ ~up /\ up' = TRUE /\ UNCHANGED <<q, pc, frame>>  BY <1>3 DEF Run
  <2>2. Handling!Start  BY <2>1, MappingAt DEF Handling!Start
  <2> QED  BY <2>2 DEF Handling!Next
<1>4. CASE Stop
  <2>1. /\ up /\ up' = FALSE /\ iptable' = iptable /\ q' = EmptyQueue
        /\ \A w \in Workers : pc'[w] = "idle"
    BY <1>4 DEF Stop
  <2>2. "idle" \notin {"got"} /\ "idle" \notin {"unlocked"} /\ "idle" \notin Inside
    BY DEF Inside, Handlers
  <2>3. /\ At({"got"}, pc', frame') = {} /\ At(Inside, pc', frame') = {}
        /\ At({"unlocked"}, pc', frame') = {}
    BY <2>1, <2>2 DEF At
  <2>4. Handling!Halt  BY <2>1, <2>3, MappingAt DEF Handling!Halt, EmptyQueue
  <2> QED  BY <2>4 DEF Handling!Next
<1>5. ASSUME NEW k \in Kinds, Notify(k)  PROVE Handling!Next
  BY <1>5, NotifyRefines DEF Handling!Next
<1>6. ASSUME NEW w \in Workers, Worker(w)  PROVE Handling!Next
  <2>1. CASE Get(w)  BY <2>1, GetRefines DEF Handling!Next
  <2>2. CASE Lock(w)  BY <2>2, LockRefines DEF Handling!Next
  <2>3. CASE Unlock(w)  BY <2>3, UnlockRefines DEF Handling!Next
  <2>4. CASE Done(w)  BY <2>4, DoneRefines DEF Handling!Next
  <2>5. CASE Handler(w)
    <3>1. frame[w] \in Frames  BY DEF IInv, TypeOK
    <3>2. StaysInside(w)
      BY <2>5, <3>1, PolicyHandlersStay, NetworkHandlersStay, ScansStay DEF Handler
    <3> QED  BY <3>2, StaysRefines DEF Handling!Next
  <2> QED  BY <1>6, <2>1, <2>2, <2>3, <2>4, <2>5 DEF Worker
<1>7. CASE UNCHANGED vars  BY <1>1, <1>7 DEF vars
<1> QED  BY <1>2, <1>3, <1>4, <1>5, <1>6, <1>7 DEF Next

\* The work queue, the workers and the mutex implement KeyHandling: however
\* notifications, workers and restarts interleave, a key is handled once for
\* every time it is taken, no announcement is lost while the controller runs,
\* and only the handler that is inside edits the table.
THEOREM ImplementsKeyHandling == Spec => KeysAreHandled
<1>1. Spec => Handling!Init  BY InitRefines DEF Spec
<1>2. Spec => [][Handling!Next]_(Handling!vars)
  BY NextRefines, Invariance, PTL DEF Spec
<1> QED  BY <1>1, <1>2 DEF KeysAreHandled, Handling!Spec
=============================================================================
