----------------------------- MODULE ChainProofs -----------------------------
(***************************************************************************)
(* What becomes of the base chain and of the network chains while workers  *)
(* walk listings and delete by number, for every set of policies,          *)
(* networks, subnets, annotations and workers, and any number of restarts. *)
(***************************************************************************)
EXTENDS NetworkPolicyProofs

\* Rule r is in the sequence s; no rule of s, or none before the i-th, has
\* target c; s holds jumps only.
In(s, r) == \E k \in DOMAIN s : s[k] = r
Untargeted(s, c) == \A k \in DOMAIN s : s[k].target # c
UntargetedBefore(s, i, c) == \A k \in DOMAIN s : k < i => s[k].target # c
OnlyJumps(s) == \A k \in DOMAIN s : s[k] = Jump(s[k].target)

\* No network ever carries two subnets.
FixedSubnets ==
  \A n \in Networks : \A x, y \in NetworkValues[n] \cap Subnets : x = y

(***************************************************************************)
(* The base chain is a sequence of pairs: a link for packets to a subnet a *)
(* network may have, and right behind it the one for packets from it.      *)
(***************************************************************************)
PairAt(s, k) ==
  \E n \in Networks : \E x \in NetworkValues[n] \cap Subnets :
    s[2 * k - 1] = Link(n, "-d", x) /\ s[2 * k] = Link(n, "-s", x)

Pairs(s) == \A k \in DOMAIN s : 2 * k <= Len(s) => PairAt(s, k)
Paired(s) == Pairs(s) /\ \E m \in 0..Len(s) : Len(s) = 2 * m

\* Between the two commands that link network n with subnet x.
HalfLinked(s, n, x) ==
  \/ Paired(s) /\ In(s, Link(n, "-s", x))
  \/ /\ Pairs(s) /\ \E m \in 0..Len(s) : Len(s) = 2 * m + 1
     /\ s[Len(s)] = Link(n, "-d", x)
     /\ ~In(s, Link(n, "-s", x))

ClosedIn(t, n) == In(t.rules[NetworkChain(n)], Jump(Reject))

(***************************************************************************)
(* How the chain being scanned, s, compares with the listing f.snap.       *)
(***************************************************************************)
\* A network chain is as listed until the jump to the policy is met; a rule
\* to a policy that was passed has been deleted, or counted.
NetworkScan(f, s) ==
  /\ f.i >= 1
  /\ Distinct(f.snap)
  /\ OnlyJumps(f.snap)
  /\ \A j \in DOMAIN f.snap :
       j >= f.i /\ f.snap[j].target = PolicyChain(f.item.name) => s = f.snap
  /\ f.cnt = 0 =>
       \A k \in DOMAIN s : s[k].target \in PolicyChains =>
         \E j \in DOMAIN f.snap : j >= f.i /\ f.snap[j] = s[k]

\* The base chain is as listed, then lacks the first link of the network, then
\* lacks the pair.
BaseScanned(f, s) ==
  LET c == NetworkChain(f.cur) IN
  /\ f.cnt \in 0..2
  /\ Paired(f.snap) /\ Distinct(f.snap)
  /\ f.cnt = 0 => /\ s = f.snap /\ f.pos = f.i /\ f.i >= 1
                  /\ UntargetedBefore(f.snap, f.i, c)
  /\ f.cnt = 1 => \E k \in DOMAIN f.snap :
                    /\ f.i = 2 * k /\ f.pos = 2 * k - 1 /\ 2 * k <= Len(f.snap)
                    /\ f.snap[2 * k].target = c
                    /\ s = WithoutNth(f.snap, 2 * k - 1)
  /\ f.cnt = 2 => Paired(s) /\ (FixedSubnets => Untargeted(s, c))

\* What is left of the listing is what the policy chain holds from pos on.
PolicyScan(f, s) ==
  /\ f.i = 0 <=> f.pos = 0
  /\ \A j \in DOMAIN f.snap : j >= f.i =>
       f.pos + (j - f.i) \in DOMAIN s /\ s[f.pos + (j - f.i)] = f.snap[j]

\* Labels at which the subnet of the network has been read.
AtSubnet == {"networkList", "networkPolicies", "close", "linkTo", "linkFrom",
             "impose", "networkPeers"}

\* Table t is as the worker inside syncHandler, at label l with local
\* variables f, needs it.
Good(l, f, t) ==
  LET base == t.rules[BaseChain]
      own == t.rules[NetworkChain(f.cur)]
  IN
  /\ l \notin {"linkFrom", "scanBase"} => Paired(base)
  /\ FixedSubnets => \A n \in Networks :
       Untargeted(base, NetworkChain(n)) \/ ClosedIn(t, n) \/ (l = "close" /\ f.cur = n)
  /\ l \in AtSubnet => f.subnet \in NetworkValues[f.cur]
  /\ l \in {"close", "scanNetwork"} => NetworkChain(f.cur) \in t.chains
  /\ l \in {"linkTo", "linkFrom"} => ClosedIn(t, f.cur)
  /\ l = "linkFrom" => /\ Refusal(t, BaseChain, Link(f.cur, "-s", f.subnet)) = 0
                       /\ HalfLinked(base, f.cur, f.subnet)
  /\ l = "scanNetwork" => NetworkScan(f, own)
  /\ l = "scanBase" => /\ BaseScanned(f, base)
                       /\ f.item.kind = "networkpolicy" =>
                            \A k \in DOMAIN own : own[k].target \notin PolicyChains
  /\ l \in {"networkDelete", "networkDrop", "scanPolicy"} => f.item.kind = "logicalnetwork"
  /\ l = "scanPolicy" => PolicyScan(f, t.rules[PolicyChain(f.policy)])

\* The same when nobody is inside: whatever is left is fit for any handler.
Calm(t) ==
  /\ Paired(t.rules[BaseChain])
  /\ FixedSubnets => \A n \in Networks :
       Untargeted(t.rules[BaseChain], NetworkChain(n)) \/ ClosedIn(t, n)

PlainTable(t) == \A n \in Networks : OnlyJumps(t.rules[NetworkChain(n)])

(***************************************************************************)
(* The invariant, on top of IInv.  A scan's deletions are right because of *)
(* how listing and chain compare at every line, and the links are paired   *)
(* again after it because of where pairs stand in the base chain.          *)
(***************************************************************************)
ChainInv ==
  /\ \A n \in Networks : ln[n] \in NetworkValues[n] \cup {Absent}
  /\ up = FALSE => \A w \in Workers : pc[w] = "idle"
  /\ PlainTable(iptable)
  /\ up = TRUE =>
       /\ BaseChain \in iptable.chains
       /\ \A w \in Workers : pc[w] \in Inside => Good(pc[w], frame[w], iptable)
       /\ (\A w \in Workers : pc[w] \notin Inside) => Calm(iptable)
-----------------------------------------------------------------------------
\* Different names of different kinds are different chains.
LEMMA ChainsDiffer ==
  /\ \A p \in Policies : /\ PolicyChain(p) # BaseChain
                         /\ PolicyChain(p) \in PolicyChains
                         /\ \A n \in Networks : PolicyChain(p) # NetworkChain(n)
  /\ \A n \in Networks : NetworkChain(n) # BaseChain /\ NetworkChain(n) # NoChain
  /\ \A m, n \in Networks : NetworkChain(m) = NetworkChain(n) => m = n
  /\ NoChain # BaseChain
  /\ Reject \notin PolicyChains
BY DEF PolicyChain, NetworkChain, BaseChain, NoChain, Chain, PolicyChains, Reject

\* The types of a table.
LEMMA TableTypes ==
  ASSUME NEW t \in Tables
  PROVE  /\ t.chains \in SUBSET Chains
         /\ \A c \in Chains : t.rules[c] \in Seq(Rules)
BY DEF Tables

\* The rules of other chains, and the other chains, stay.
Elsewhere(t, u, c) ==
  /\ \A d \in Chains : d # c => u.rules[d] = t.rules[d]
  /\ \A d \in t.chains : d # c => d \in u.chains

\* -N or -F.
LEMMA ClearEffect ==
  ASSUME NEW t \in Tables, NEW c \in Chains
  PROVE  /\ Elsewhere(t, ClearChain(t, c), c)
         /\ ClearChain(t, c).rules[c] = << >>
         /\ c \in ClearChain(t, c).chains
BY DEF ClearChain, Elsewhere, Tables

\* -C and -A.
LEMMA AppendEffect ==
  ASSUME NEW t \in Tables, NEW c \in Chains, NEW r \in Rules
  PROVE  LET a == AppendUnique(t, c, r) IN
         /\ Elsewhere(t, a.tbl, c) /\ a.tbl.chains = t.chains
         /\ a.exit = Refusal(t, c, r)
         /\ Refusal(t, c, r) = 0 /\ ~In(t.rules[c], r) => a.tbl.rules[c] = Append(t.rules[c], r)
         /\ ~(Refusal(t, c, r) = 0 /\ ~In(t.rules[c], r)) => a.tbl = t
<1> DEFINE a == AppendUnique(t, c, r)
           u == Append(t.rules[c], r)
<1>1. In(t.rules[c], r) <=> r \in RuleSet(t, c)  BY DEF In, RuleSet
<1>2. CASE Refusal(t, c, r) = 0 /\ r \notin RuleSet(t, c)
  <2>1. a.exit = 0 /\ a.tbl = [t EXCEPT !.rules = [t.rules EXCEPT ![c] = u]]
    BY <1>2 DEF AppendUnique, Result
  <2> HIDE DEF u, a
  <2>2. /\ a.tbl.chains = t.chains /\ a.tbl.rules[c] = u
        /\ \A d \in Chains : d # c => a.tbl.rules[d] = t.rules[d]
    BY <2>1 DEF Tables
  <2> QED  BY <1>1, <1>2, <2>1, <2>2 DEF Elsewhere, a, u
<1>3. CASE ~(Refusal(t, c, r) = 0 /\ r \notin RuleSet(t, c))
  <2>1. a.exit = Refusal(t, c, r) /\ a.tbl = t
    BY <1>3 DEF AppendUnique, Result
  <2> QED  BY <1>1, <1>3, <2>1 DEF Elsewhere
<1> QED  BY <1>2, <1>3

\* -D by number.
LEMMA DeleteEffect ==
  ASSUME NEW t \in Tables, NEW c \in Chains, NEW k \in Nat
  PROVE  LET d == DeleteNth(t, c, k) IN
         /\ Elsewhere(t, d.tbl, c) /\ d.tbl.chains = t.chains
         /\ c \in t.chains /\ k \in DOMAIN t.rules[c]
              => d.exit = 0 /\ d.tbl.rules[c] = WithoutNth(t.rules[c], k)
         /\ ~(c \in t.chains /\ k \in DOMAIN t.rules[c]) => d.exit # 0 /\ d.tbl = t
<1> DEFINE d == DeleteNth(t, c, k)
           u == WithoutNth(t.rules[c], k)
<1>1. DOMAIN t.rules[c] = 1..Len(t.rules[c])  BY DEF Tables
<1>2. CASE c \in t.chains /\ k \in DOMAIN t.rules[c]
  <2>1. d.exit = 0 /\ d.tbl = [t EXCEPT !.rules = [t.rules EXCEPT ![c] = u]]
    BY <1>1, <1>2 DEF DeleteNth, Result
  <2> HIDE DEF u, d
  <2>2. /\ d.tbl.chains = t.chains /\ d.tbl.rules[c] = u
        /\ \A e \in Chains : e # c => d.tbl.rules[e] = t.rules[e]
    BY <2>1 DEF Tables
  <2> QED  BY <1>2, <2>1, <2>2 DEF Elsewhere, d, u
<1>3. CASE ~(c \in t.chains /\ k \in DOMAIN t.rules[c])
  <2>1. d.exit # 0 /\ d.tbl = t
    BY <1>1, <1>3 DEF DeleteNth, Result
  <2> QED  BY <1>3, <2>1 DEF Elsewhere
<1> QED  BY <1>2, <1>3

\* What is left without the k-th rule.
LEMMA WithoutEffect ==
  ASSUME NEW s \in Seq(Rules), NEW k \in DOMAIN s
  PROVE  LET u == WithoutNth(s, k) IN
         /\ u \in Seq(Rules) /\ Len(u) = Len(s) - 1
         /\ \A j \in DOMAIN u : /\ j < k => u[j] = s[j]
                                /\ j >= k => u[j] = s[j + 1]
<1> DEFINE N == Len(s) - 1
<1>1. N \in Nat /\ DOMAIN s = 1..(N + 1) /\ Len(s) = N + 1  OBVIOUS
<1>2. WithoutNth(s, k) \in Seq(Rules)
  BY <1>1, WithoutNthRules
<1> QED  BY <1>1, <1>2 DEF WithoutNth

\* -F and -X.
LEMMA DropEffect ==
  ASSUME NEW t \in Tables, NEW c \in Chains
  PROVE  /\ Elsewhere(t, DeleteIptableChain(t, c).tbl, c)
         /\ DeleteIptableChain(t, c).tbl.rules[c] = << >>
<1> DEFINE u == ClearChain(t, c)
           v == DeleteIptableChain(t, c).tbl
<1>1. u \in Tables  BY TableTypes DEF ClearChain, Tables
<1>2. v = u \/ v = [u EXCEPT !.chains = u.chains \ {c}]
  BY DEF DeleteIptableChain, DeleteChain, Result
<1>3. Elsewhere(t, u, c) /\ u.rules[c] = << >>  BY ClearEffect
<1> HIDE DEF u, v
<1>4. v.rules = u.rules /\ \A d \in u.chains : d # c => d \in v.chains
  BY <1>1, <1>2 DEF Tables
<1>5. Elsewhere(t, v, c) /\ v.rules[c] = << >>
  BY <1>3, <1>4, Zenon DEF Elsewhere
<1> QED  BY <1>5 DEF v

\* -C and -I: the rule joins those that were there.
LEMMA InsertRuleEffect ==
  ASSUME NEW t \in Tables, NEW c \in Chains, NEW r \in Rules
  PROVE  LET u == InsertRule(t, c, r).tbl IN
         /\ Elsewhere(t, u, c) /\ u.chains = t.chains
         /\ \A x : In(t.rules[c], x) => In(u.rules[c], x)
         /\ \A x : In(u.rules[c], x) => In(t.rules[c], x) \/ x = r
<1> DEFINE s == t.rules[c]
           v == <<r>> \o s
           u == InsertRule(t, c, r).tbl
<1>1. \/ u = t
      \/ u = [t EXCEPT !.rules = [t.rules EXCEPT ![c] = v]]
  BY DEF InsertRule, Insert, Result
<1>2. s \in Seq(Rules)  BY DEF Tables
<1>3. /\ Len(v) = Len(s) + 1 /\ DOMAIN v = 1..(Len(s) + 1) /\ v[1] = r
      /\ \A k \in DOMAIN s : k + 1 \in DOMAIN v /\ v[k + 1] = s[k]
      /\ \A k \in DOMAIN v : k # 1 => k - 1 \in DOMAIN s /\ v[k] = s[k - 1]
  BY <1>2
<1> HIDE DEF v, u
<1>4. \A x : In(s, x) => In(v, x)  BY <1>3 DEF In
<1>5. \A x : In(v, x) => In(s, x) \/ x = r  BY <1>3 DEF In
<1>6. CASE u = t  BY <1>6 DEF Elsewhere, u
<1>7. CASE u = [t EXCEPT !.rules = [t.rules EXCEPT ![c] = v]]
  <2>1. /\ u.chains = t.chains /\ u.rules[c] = v
        /\ \A d \in Chains : d # c => u.rules[d] = t.rules[d]
    BY <1>7 DEF Tables
  <2> QED  BY <1>4, <1>5, <2>1 DEF Elsewhere, u
<1> QED  BY <1>1, <1>6, <1>7

\* Two appends to the chain of a policy.
LEMMA PeerEffect ==
  ASSUME NEW t, Sound(t), NEW p \in Policies, NEW s \in Subnets \cup {Blank}
  PROVE  Elsewhere(t, insertPeerRule(t, p, s), PolicyChain(p))
<1> DEFINE c == PolicyChain(p)
           from == AppendUnique(t, c, Rule("-s", s, Accept))
           to == AppendUnique(from.tbl, c, Rule("-d", s, Accept))
<1>1. c \in Chains /\ c \notin NetworkChains  BY ChainKinds
<1>2. Rule("-s", s, Accept) \in Rules /\ Rule("-d", s, Accept) \in Rules
  BY ChainKinds, RuleTypes
<1>3. Sound(from.tbl)  BY <1>1, <1>2, AppendUniqueSound
<1>4. Elsewhere(t, from.tbl, c)  BY <1>1, <1>2, AppendEffect DEF Sound
<1>5. Elsewhere(from.tbl, to.tbl, c)  BY <1>1, <1>2, <1>3, AppendEffect DEF Sound
<1>6. insertPeerRule(t, p, s) \in {from.tbl, to.tbl}  BY DEF insertPeerRule
<1> HIDE DEF from, to, c
<1> QED  BY <1>4, <1>5, <1>6 DEF Elsewhere, c
-----------------------------------------------------------------------------
(***************************************************************************)
(* Most commands of the handlers leave the base chain as it is and at most *)
(* add jumps to network chains.                                            *)
(***************************************************************************)
Grows(t, u) ==
  /\ u.rules[BaseChain] = t.rules[BaseChain]
  /\ \A n \in Networks : \A x :
       In(t.rules[NetworkChain(n)], x) => In(u.rules[NetworkChain(n)], x)
  /\ \A n \in Networks : \A x :
       In(u.rules[NetworkChain(n)], x)
         => In(t.rules[NetworkChain(n)], x) \/ x = Jump(x.target)
  /\ BaseChain \in t.chains => BaseChain \in u.chains

\* Jumps only, in terms of In.
LEMMA OnlyJumpsIn ==
  ASSUME NEW s
  PROVE  OnlyJumps(s) <=> \A x : In(s, x) => x = Jump(x.target)
BY DEF OnlyJumps, In

\* Such a command disturbs nobody.
LEMMA GrowsCalm ==
  ASSUME NEW t, NEW u, Grows(t, u)
  PROVE  /\ Calm(t) => Calm(u)
         /\ PlainTable(t) => PlainTable(u)
<1>1. \A n \in Networks : ClosedIn(t, n) => ClosedIn(u, n)  BY DEF Grows, ClosedIn
<1>2. Calm(t) => Calm(u)  BY <1>1 DEF Calm, Grows
<1>3. PlainTable(t) => PlainTable(u)  BY OnlyJumpsIn, Zenon DEF PlainTable, Grows
<1> QED  BY <1>2, <1>3

\* An edit of a policy chain, or of the chain without a name, is one.
LEMMA ElsewhereGrows ==
  ASSUME NEW t, NEW u, NEW c \in Chains, Elsewhere(t, u, c), c # BaseChain,
         \A n \in Networks : c # NetworkChain(n)
  PROVE  Grows(t, u)
<1>1. BaseChain \in Chains /\ \A n \in Networks : NetworkChain(n) \in Chains  BY ChainKinds
<1>2. u.rules[BaseChain] = t.rules[BaseChain]  BY <1>1 DEF Elsewhere
<1>3. \A n \in Networks : u.rules[NetworkChain(n)] = t.rules[NetworkChain(n)]
  BY <1>1 DEF Elsewhere
<1>4. BaseChain \in t.chains => BaseChain \in u.chains  BY DEF Elsewhere
<1> QED  BY <1>2, <1>3, <1>4 DEF Grows

\* So is the jump to a policy, wherever AddNetworkChain says it goes.
LEMMA InsertPolicyGrows ==
  ASSUME NEW t \in Tables, NEW c \in NetworkChains \cup {NoChain}, NEW p \in Policies
  PROVE  Grows(t, InsertRule(t, c, Jump(PolicyChain(p))).tbl)
<1> DEFINE r == Jump(PolicyChain(p))
           u == InsertRule(t, c, r).tbl
<1>1. r \in Rules /\ r = Jump(r.target)  BY ChainKinds, RuleTypes
<1>2. c \in Chains /\ c # BaseChain
  BY ChainKinds, ChainsDiffer DEF NetworkChains, Chains
<1>3. /\ Elsewhere(t, u, c) /\ u.chains = t.chains
      /\ \A x : In(t.rules[c], x) => In(u.rules[c], x)
      /\ \A x : In(u.rules[c], x) => In(t.rules[c], x) \/ x = r
  BY <1>1, <1>2, InsertRuleEffect
<1>4. BaseChain \in Chains /\ \A n \in Networks : NetworkChain(n) \in Chains  BY ChainKinds
<1> HIDE DEF u, r
<1>5. u.rules[BaseChain] = t.rules[BaseChain]  BY <1>2, <1>3, <1>4 DEF Elsewhere
<1>6. \A n \in Networks : NetworkChain(n) # c =>
         u.rules[NetworkChain(n)] = t.rules[NetworkChain(n)]
  BY <1>3, <1>4 DEF Elsewhere
<1>7. Grows(t, u)  BY <1>1, <1>3, <1>5, <1>6 DEF Grows
<1> QED  BY <1>7 DEF u, r
-----------------------------------------------------------------------------
\* Inside syncHandler, everybody else is outside.
LEMMA Alone ==
  ASSUME IInv, NEW w \in Workers, pc[w] \in Inside
  PROVE  \A v \in Workers : v # w => pc[v] \notin Inside
BY DEF IInv, Holds

\* What a worker inside syncHandler finds.
LEMMA Found ==
  ASSUME IInv, ChainInv, NEW w \in Workers, pc[w] \in Inside
  PROVE  /\ up = TRUE /\ Good(pc[w], frame[w], iptable)
         /\ PlainTable(iptable) /\ BaseChain \in iptable.chains
         /\ pc[w] \notin {"close", "linkFrom", "scanBase"} => Calm(iptable)
<1>1. pc[w] # "idle"  BY DEF Inside, Handlers
<1>2. up = TRUE  BY <1>1 DEF ChainInv, IInv, TypeOK
<1>3. Good(pc[w], frame[w], iptable)  BY <1>2 DEF ChainInv
<1>4. pc[w] \notin {"close", "linkFrom", "scanBase"} => Calm(iptable)
  BY <1>3 DEF Good, Calm
<1> QED  BY <1>2, <1>3, <1>4 DEF ChainInv

\* A step inside syncHandler, given what it leaves for the label it goes to.
LEMMA StepChain ==
  ASSUME IInv, ChainInv, NEW w \in Workers, pc[w] \in Inside,
         NEW to \in Inside, NEW f, NEW t, Step(w, to, f, t),
         PlainTable(t), BaseChain \in t.chains, Good(to, f, t)
  PROVE  ChainInv'
<1>1. up = TRUE /\ up' = up /\ iptable' = t /\ ln' = ln
  BY Found DEF Step, clusterVars
<1>2. /\ pc'[w] = to /\ frame'[w] = f
      /\ \A v \in Workers : v # w => pc'[v] = pc[v]
  BY DEF Step, IInv, TypeOK
<1>3. \A v \in Workers : pc'[v] \in Inside => v = w  BY <1>2, Alone
<1>4. \A v \in Workers : pc'[v] \in Inside => Good(pc'[v], frame'[v], iptable')
  BY <1>1, <1>2, <1>3
<1>5. pc'[w] \in Inside  BY <1>2
<1> QED  BY <1>1, <1>4, <1>5 DEF ChainInv, PlainTable

\* A step that only grows the table, to a label that asks for no more.
LEMMA CalmStep ==
  ASSUME IInv, ChainInv, NEW w \in Workers, pc[w] \in Inside,
         pc[w] \notin {"close", "linkFrom", "scanBase"},
         NEW to \in Inside, NEW f, NEW t, Step(w, to, f, t), Grows(iptable, t),
         to \notin {"close", "linkTo", "linkFrom", "scanNetwork", "scanBase", "scanPolicy"},
         to \in AtSubnet => f.subnet \in NetworkValues[f.cur],
         to \in {"networkDelete", "networkDrop"} => f.item.kind = "logicalnetwork"
  PROVE  ChainInv'
<1>1. Calm(iptable) /\ PlainTable(iptable) /\ BaseChain \in iptable.chains  BY Found
<1>2. Calm(t) /\ PlainTable(t) /\ BaseChain \in t.chains
  BY <1>1, GrowsCalm DEF Grows
<1>3. Good(to, f, t)  BY <1>2 DEF Good, Calm
<1> QED  BY <1>2, <1>3, StepChain

\* Nothing edited.
LEMMA GrowsSame == \A t : Grows(t, t)
BY DEF Grows

\* Making or refilling the chain of a policy.
LEMMA PolicyEditsGrow ==
  ASSUME IInv, NEW p \in Policies
  PROVE  /\ Grows(iptable, AddPolicyChain(iptable, p))
         /\ Grows(iptable, DeleteIptableChain(iptable, PolicyChain(p)).tbl)
         /\ \A s \in Subnets \cup {Blank} : Grows(iptable, insertPeerRule(iptable, p, s))
         /\ \A m \in Networks : Grows(iptable, AcceptPeer(p, m))
<1>1. TypeOK /\ Sound(iptable) /\ iptable \in Tables  BY DEF IInv, TypeOK
<1>2. /\ PolicyChain(p) \in Chains /\ PolicyChain(p) # BaseChain
      /\ \A n \in Networks : PolicyChain(p) # NetworkChain(n)
  BY ChainKinds, ChainsDiffer
<1>3. Grows(iptable, AddPolicyChain(iptable, p))
  BY <1>1, <1>2, ClearEffect, ElsewhereGrows DEF AddPolicyChain
<1>4. Grows(iptable, DeleteIptableChain(iptable, PolicyChain(p)).tbl)
  BY <1>1, <1>2, DropEffect, ElsewhereGrows
<1>5. \A s \in Subnets \cup {Blank} : Grows(iptable, insertPeerRule(iptable, p, s))
  BY <1>1, <1>2, PeerEffect, ElsewhereGrows
<1>6. \A m \in Networks : Grows(iptable, AcceptPeer(p, m))
  BY <1>1, <1>5, ListerTypes, GrowsSame DEF AcceptPeer
<1> QED  BY <1>3, <1>4, <1>5, <1>6
-----------------------------------------------------------------------------
\* The handlers of a policy edit its own chain and insert jumps.
LEMMA PolicyHandlersChain ==
  ASSUME IInv, ChainInv, NEW w \in Workers,
         \/ handleNetworkPolicyAdd(w) \/ handleNetworkPolicyUpdate(w)
         \/ handleNetworkPolicyDelete(w)
         \/ populatePolicyChain(w) \/ populatePeers(w)
  PROVE  ChainInv'
<1> DEFINE f == frame[w]
           p == f.item.name
           Plainly == {"returned", "populate", "unlink", "networkAdd", "peers"}
<1>1. /\ pc[w] \in {"policyAdd", "policyUpdate", "policyDelete", "populate", "peers"}
      /\ pc[w] \in Inside /\ pc[w] \notin {"close", "linkFrom", "scanBase"}
      /\ pc[w] \in AtPolicy
  BY DEF handleNetworkPolicyAdd, handleNetworkPolicyUpdate, handleNetworkPolicyDelete,
         populatePolicyChain, populatePeers, Inside, Handlers, AtPolicy
<1>2. /\ TypeOK /\ iptable \in Tables /\ f \in Frames /\ p \in Policies
      /\ f.nets \subseteq Networks /\ f.peers \subseteq Networks
  BY <1>1, Here, ItemKinds DEF Fits, Frames, TypeOK
<1>3. /\ Grows(iptable, iptable)
      /\ Grows(iptable, AddPolicyChain(iptable, p))
      /\ \A m \in Networks : Grows(iptable, AcceptPeer(p, m))
  BY <1>2, PolicyEditsGrow, GrowsSame
<1>4. \A n \in Networks :
        Grows(iptable, InsertRule(iptable, NetworkChain(n), Jump(PolicyChain(p))).tbl)
  BY <1>2, InsertPolicyGrows, ChainKinds
<1>5. ASSUME NEW to \in Plainly, NEW g, NEW t, Step(w, to, g, t), Grows(iptable, t)
      PROVE  ChainInv'
  <2>1. /\ to \in Inside /\ to \notin AtSubnet
        /\ to \notin {"close", "linkTo", "linkFrom", "scanNetwork", "scanBase", "scanPolicy"}
        /\ to \notin {"networkDelete", "networkDrop"}
    BY DEF Inside, Handlers, AtSubnet
  <2> QED  BY <1>1, <1>5, <2>1, CalmStep
<1>6. CASE handleNetworkPolicyAdd(w)
  BY <1>3, <1>5, <1>6, Zenon DEF handleNetworkPolicyAdd
<1>7. CASE handleNetworkPolicyUpdate(w)
  BY <1>3, <1>5, <1>7 DEF handleNetworkPolicyUpdate
<1>8. CASE handleNetworkPolicyDelete(w)
  BY <1>3, <1>5, <1>8 DEF handleNetworkPolicyDelete
<1>9. CASE populatePolicyChain(w)
  BY <1>2, <1>3, <1>4, <1>5, <1>9 DEF populatePolicyChain
<1>10. CASE populatePeers(w)
  BY <1>2, <1>3, <1>5, <1>10 DEF populatePeers
<1> QED  BY <1>6, <1>7, <1>8, <1>9, <1>10

\* The steps of a network's handlers that leave the base chain alone.
LEMMA NetworkHandlersChain ==
  ASSUME IInv, ChainInv, NEW w \in Workers,
         \/ handleLogicalNetworkAdd(w) \/ listPoliciesForAdd(w)
         \/ imposePolicy(w) \/ handleLogicalNetworkAddPeers(w)
         \/ handleLogicalNetworkUpdate(w) \/ handleLogicalNetworkDelete(w)
  PROVE  ChainInv'
<1> DEFINE f == frame[w]
           Simply == {"returned", "populate", "networkList", "networkPolicies",
                      "networkPeers", "networkDrop"}
<1>1. /\ pc[w] \in {"networkAdd", "networkList", "impose", "networkPeers",
                    "networkUpdate", "networkDelete"}
      /\ pc[w] \in Inside /\ pc[w] \notin {"close", "linkFrom", "scanBase"}
      /\ pc[w] \in AtNetwork
  BY DEF handleLogicalNetworkAdd, listPoliciesForAdd, imposePolicy,
         handleLogicalNetworkAddPeers, handleLogicalNetworkUpdate,
         handleLogicalNetworkDelete, Inside, Handlers, AtNetwork
<1>2. /\ TypeOK /\ iptable \in Tables /\ f \in Frames /\ f.cur \in Networks
      /\ f.lpeers \subseteq Networks /\ f.lnChain \in NetworkChains \cup {NoChain}
      /\ pc[w] \in AtInfo => f.policy \in Policies
  BY <1>1, Here DEF Fits, Frames, TypeOK
<1>3. /\ Good(pc[w], f, iptable)
      /\ ln[f.cur] # Absent => ln[f.cur] \in NetworkValues[f.cur]
  BY <1>1, <1>2, Found DEF ChainInv
<1>4. Failed(w) \in {"populate", "returned"}  BY DEF Failed
<1>5. ASSUME NEW to \in Simply, NEW g, NEW t, Step(w, to, g, t), Grows(iptable, t),
             to \in AtSubnet => g.subnet \in NetworkValues[g.cur],
             to = "networkDrop" => g.item.kind = "logicalnetwork"
      PROVE  ChainInv'
  <2>1. /\ to \in Inside
        /\ to \notin {"close", "linkTo", "linkFrom", "scanNetwork", "scanBase", "scanPolicy"}
        /\ to # "networkDelete"
    BY DEF Inside, Handlers
  <2> QED  BY <1>1, <1>5, <2>1, CalmStep
<1>6. CASE handleLogicalNetworkAdd(w)
  <2>1. CASE ln[f.cur] = Absent
    <3>1. Step(w, Failed(w), f, iptable)  BY <1>6, <2>1 DEF handleLogicalNetworkAdd
    <3> QED  BY <1>4, <1>5, <3>1, GrowsSame DEF AtSubnet
  <2>2. CASE ln[f.cur] # Absent
    <3> DEFINE g == [f EXCEPT !.subnet = ln[f.cur]]
    <3>1. Step(w, "networkList", g, iptable)  BY <1>6, <2>2 DEF handleLogicalNetworkAdd
    <3>2. g.subnet = ln[f.cur] /\ g.cur = f.cur  BY <1>2 DEF Frames
    <3> HIDE DEF g
    <3> QED  BY <1>3, <1>5, <2>2, <3>1, <3>2, GrowsSame
  <2> QED  BY <2>1, <2>2
<1>7. CASE listPoliciesForAdd(w)
  <2> DEFINE g == [f EXCEPT !.infos = ListNetworkPolicies(f.cur)]
  <2>1. pc[w] = "networkList" /\ Step(w, "networkPolicies", g, iptable)
    BY <1>7 DEF listPoliciesForAdd
  <2>2. g.subnet = f.subnet /\ g.cur = f.cur  BY <1>2 DEF Frames
  <2>3. f.subnet \in NetworkValues[f.cur]  BY <1>3, <2>1 DEF Good, AtSubnet
  <2> HIDE DEF g
  <2> QED  BY <1>5, <2>1, <2>2, <2>3, GrowsSame
<1>8. CASE imposePolicy(w)
  <2> DEFINE r == InsertRule(iptable, f.lnChain, Jump(PolicyChain(f.policy)))
             g == [f EXCEPT !.infos = {}]
  <2>1. /\ pc[w] = "impose"
        /\ Step(w, "networkPeers", f, r.tbl) \/ Step(w, Failed(w), g, r.tbl)
    BY <1>8 DEF imposePolicy
  <2>2. f.policy \in Policies  BY <1>2, <2>1 DEF AtInfo
  <2>3. Grows(iptable, r.tbl)  BY <1>2, <2>2, InsertPolicyGrows
  <2>4. f.subnet \in NetworkValues[f.cur]  BY <1>3, <2>1 DEF Good, AtSubnet
  <2> HIDE DEF g, r
  <2>5. CASE Step(w, "networkPeers", f, r.tbl)  BY <1>5, <2>3, <2>4, <2>5
  <2>6. CASE Step(w, Failed(w), g, r.tbl)  BY <1>4, <1>5, <2>3, <2>6 DEF AtSubnet
  <2> QED  BY <2>1, <2>5, <2>6
<1>9. CASE handleLogicalNetworkAddPeers(w)
  <2>1. pc[w] = "networkPeers"  BY <1>9 DEF handleLogicalNetworkAddPeers
  <2>2. f.policy \in Policies  BY <1>2, <2>1 DEF AtInfo
  <2>3. f.subnet \in NetworkValues[f.cur]  BY <1>3, <2>1 DEF Good, AtSubnet
  <2>4. CASE Step(w, "networkPolicies", f, iptable)  BY <1>5, <2>3, <2>4, GrowsSame
  <2>5. ASSUME NEW m \in f.lpeers,
               Step(w, "networkPeers", [f EXCEPT !.lpeers = f.lpeers \ {m}],
                    AcceptPeer(f.policy, m))
        PROVE  ChainInv'
    <3> DEFINE g == [f EXCEPT !.lpeers = f.lpeers \ {m}]
    <3>1. g.subnet = f.subnet /\ g.cur = f.cur  BY <1>2 DEF Frames
    <3>2. Grows(iptable, AcceptPeer(f.policy, m))  BY <1>2, <2>2, PolicyEditsGrow
    <3> HIDE DEF g
    <3> QED  BY <1>5, <2>3, <2>5, <3>1, <3>2 DEF g
  <2> QED  BY <1>9, <2>4, <2>5 DEF handleLogicalNetworkAddPeers
<1>10. CASE handleLogicalNetworkUpdate(w)
  <2>1. DeleteNth(iptable, BaseChain, 0).tbl = iptable  BY DEF DeleteNth, Result
  <2>2. Step(w, "returned", f, iptable)  BY <1>10, <2>1 DEF handleLogicalNetworkUpdate
  <2> QED  BY <1>5, <2>2, GrowsSame DEF AtSubnet
<1>11. CASE handleLogicalNetworkDelete(w)
  <2> DEFINE g == [f EXCEPT !.infos = ListNetworkPolicies(f.cur)]
  <2>1. pc[w] = "networkDelete" /\ Step(w, "networkDrop", g, iptable)
    BY <1>11 DEF handleLogicalNetworkDelete
  <2>2. g.item = f.item  BY <1>2 DEF Frames
  <2>3. f.item.kind = "logicalnetwork"  BY <1>3, <2>1 DEF Good
  <2> HIDE DEF g
  <2> QED  BY <1>5, <2>1, <2>2, <2>3, GrowsSame DEF AtSubnet
<1> QED  BY <1>6, <1>7, <1>8, <1>9, <1>10, <1>11
-----------------------------------------------------------------------------
\* AddNetworkChain, first command: the flushed chain may be linked from before.
LEMMA handleLogicalNetworkAddPoliciesChain ==
  ASSUME IInv, ChainInv, NEW w \in Workers, handleLogicalNetworkAddPolicies(w)
  PROVE  ChainInv'
<1> DEFINE f == frame[w]
           c == NetworkChain(f.cur)
           t == ClearChain(iptable, c)
<1>1. /\ pc[w] = "networkPolicies" /\ pc[w] \in Inside /\ pc[w] \in AtNetwork
      /\ pc[w] \notin {"close", "linkFrom", "scanBase"}
  BY DEF handleLogicalNetworkAddPolicies, Inside, AtNetwork
<1>2. /\ TypeOK /\ iptable \in Tables /\ f \in Frames /\ f.cur \in Networks
      /\ f.subnet \in Subnets \cup {Blank} /\ f.infos \subseteq Infos
  BY <1>1, Here DEF Fits, Frames, TypeOK
<1>3. /\ Calm(iptable) /\ PlainTable(iptable) /\ BaseChain \in iptable.chains
      /\ f.subnet \in NetworkValues[f.cur]
  BY <1>1, Found DEF Good, AtSubnet
<1>4. CASE Step(w, Succeeded(w), f, iptable)
  <2>1. Succeeded(w) \in {"peers", "returned"}  BY DEF Succeeded
  <2> QED  BY <1>1, <1>4, <2>1, GrowsSame, CalmStep DEF Inside, AtSubnet
<1>5. ASSUME NEW info \in f.infos,
             Step(w, "close",
                  [f EXCEPT !.infos = f.infos \ {info}, !.policy = info.policy,
                            !.lpeers = info.peers], t)
      PROVE  ChainInv'
  <2> DEFINE g == [f EXCEPT !.infos = f.infos \ {info}, !.policy = info.policy,
                            !.lpeers = info.peers]
  <2>1. g.subnet = f.subnet /\ g.cur = f.cur  BY <1>2 DEF Frames
  <2>2. /\ c \in Chains /\ c # BaseChain /\ BaseChain \in Chains
        /\ \A n \in Networks : NetworkChain(n) \in Chains
        /\ \A n \in Networks : n # f.cur => NetworkChain(n) # c
    BY <1>2, ChainKinds, ChainsDiffer
  <2>3. Elsewhere(iptable, t, c) /\ t.rules[c] = << >> /\ c \in t.chains
    BY <1>2, <2>2, ClearEffect
  <2> HIDE DEF g, t
  <2>4. /\ t.rules[BaseChain] = iptable.rules[BaseChain] /\ BaseChain \in t.chains
        /\ \A n \in Networks : n # f.cur =>
             t.rules[NetworkChain(n)] = iptable.rules[NetworkChain(n)]
    BY <1>3, <2>2, <2>3 DEF Elsewhere
  <2>5. PlainTable(t)
    <3>1. OnlyJumps(<< >>)  BY DEF OnlyJumps
    <3> QED  BY <1>3, <2>3, <2>4, <3>1 DEF PlainTable
  <2>6. \A n \in Networks : n # f.cur => (ClosedIn(iptable, n) <=> ClosedIn(t, n))
    BY <2>4 DEF ClosedIn
  <2>7. Good("close", g, t)
    BY <1>3, <2>1, <2>3, <2>4, <2>6 DEF Good, Calm, AtSubnet
  <2> QED  BY <1>1, <1>5, <2>4, <2>5, <2>7, StepChain DEF g, Inside
<1>6. ASSUME NEW info \in f.infos,
             Step(w, "networkPolicies", [f EXCEPT !.infos = f.infos \ {info}],
                  insertPeerRule(iptable, info.policy, f.subnet))
      PROVE  ChainInv'
  <2> DEFINE g == [f EXCEPT !.infos = f.infos \ {info}]
             u == insertPeerRule(iptable, info.policy, f.subnet)
  <2>1. g.subnet = f.subnet /\ g.cur = f.cur  BY <1>2 DEF Frames
  <2>2. info.policy \in Policies  BY <1>2 DEF Infos
  <2>3. Grows(iptable, u)  BY <1>2, <2>2, PolicyEditsGrow
  <2> HIDE DEF g, u
  <2> QED  BY <1>1, <1>3, <1>6, <2>1, <2>3, CalmStep DEF g, u, Inside
<1> QED  BY <1>4, <1>5, <1>6 DEF handleLogicalNetworkAddPolicies
-----------------------------------------------------------------------------
(***************************************************************************)
(* Pairs of links.                                                         *)
(***************************************************************************)
\* The parts of a link.
LEMMA LinkParts ==
  ASSUME NEW n, NEW d, NEW x
  PROVE  /\ Link(n, d, x).dir = d /\ Link(n, d, x).net = x
         /\ Link(n, d, x).target = NetworkChain(n)
BY DEF Link, Rule

\* A pair is a pair wherever it stands.
LEMMA PairMoved ==
  ASSUME NEW s, NEW u, NEW j, NEW k,
         s[2 * j - 1] = u[2 * k - 1], s[2 * j] = u[2 * k]
  PROVE  PairAt(s, j) => PairAt(u, k)
BY DEF PairAt

\* Append adds one rule, at the end.
LEMMA AppendIn ==
  ASSUME NEW s \in Seq(Rules), NEW r \in Rules
  PROVE  /\ Append(s, r) \in Seq(Rules) /\ Len(Append(s, r)) = Len(s) + 1
         /\ Append(s, r)[Len(s) + 1] = r
         /\ \A k \in DOMAIN s : Append(s, r)[k] = s[k]
         /\ \A x : In(Append(s, r), x) <=> In(s, x) \/ x = r
<1> DEFINE u == Append(s, r)
<1>1. /\ u \in Seq(Rules) /\ Len(u) = Len(s) + 1
      /\ u[Len(s) + 1] = r /\ \A k \in DOMAIN s : u[k] = s[k]
      /\ DOMAIN s = 1..Len(s) /\ DOMAIN u = 1..(Len(s) + 1) /\ Len(s) \in Nat
  OBVIOUS
<1> HIDE DEF u
<1>2. \A x : In(u, x) => In(s, x) \/ x = r
  <2> SUFFICES ASSUME NEW k \in DOMAIN u PROVE In(s, u[k]) \/ u[k] = r
    BY DEF In
  <2>1. k \in DOMAIN s \/ k = Len(s) + 1  BY <1>1
  <2> QED  BY <1>1, <2>1 DEF In
<1>3. \A x : In(s, x) => In(u, x)
  <2>1. \A k \in DOMAIN s : k \in DOMAIN u  BY <1>1
  <2> QED  BY <1>1, <2>1 DEF In
<1>4. In(u, r)
  <2>1. Len(s) + 1 \in DOMAIN u  BY <1>1
  <2> QED  BY <1>1, <2>1 DEF In
<1>5. \A x : In(u, x) <=> In(s, x) \/ x = r  BY <1>2, <1>3, <1>4
<1> QED  BY <1>1, <1>5 DEF u

\* Every rule of paired links is one half of a pair.
LEMMA Halves ==
  ASSUME NEW s \in Seq(Rules), Paired(s), NEW i \in DOMAIN s
  PROVE  \E k \in DOMAIN s : 2 * k <= Len(s) /\ PairAt(s, k) /\ (i = 2 * k - 1 \/ i = 2 * k)
<1>1. Len(s) \in Nat /\ DOMAIN s = 1..Len(s)  OBVIOUS
<1>2. PICK m \in 0..Len(s) : Len(s) = 2 * m  BY DEF Paired
<1>3. i \in 1..Len(s)  BY <1>1
<1>4. \E k \in 1..m : i = 2 * k - 1 \/ i = 2 * k
  <2> DEFINE h == (i + 1) \div 2
  <2>1. h \in Nat /\ (i = 2 * h - 1 \/ i = 2 * h)
    <3>1. i + 1 \in Nat  BY <1>1, <1>3
    <3>2. \A a \in Nat : /\ a \div 2 \in Nat
                         /\ a = 2 * (a \div 2) \/ a = 2 * (a \div 2) + 1
      OBVIOUS
    <3>3. h \in Nat /\ (i + 1 = 2 * h \/ i + 1 = 2 * h + 1)  BY <3>1, <3>2
    <3> HIDE DEF h
    <3> QED  BY <1>1, <1>3, <3>3
  <2> HIDE DEF h
  <2>2. h \in 1..m  BY <1>1, <1>2, <1>3, <2>1
  <2> QED  BY <2>1, <2>2
<1>5. PICK k \in 1..m : i = 2 * k - 1 \/ i = 2 * k  BY <1>4
<1>6. k \in DOMAIN s /\ 2 * k <= Len(s)  BY <1>1, <1>2
<1> QED  BY <1>5, <1>6 DEF Paired, Pairs

\* The link of one direction comes with that of the other.
LEMMA Partner ==
  ASSUME NEW s \in Seq(Rules), Paired(s), NEW n \in Networks, NEW x \in Subnets
  PROVE  In(s, Link(n, "-d", x)) <=> In(s, Link(n, "-s", x))
<1>1. ASSUME NEW k \in DOMAIN s, 2 * k <= Len(s)
      PROVE  2 * k - 1 \in DOMAIN s /\ 2 * k \in DOMAIN s
  BY <1>1
<1>2. \A m : \A a, b, y : Link(m, a, y) = Link(n, b, x) =>
        a = b /\ y = x /\ NetworkChain(m) = NetworkChain(n)
  BY DEF Link, Rule
<1>3. ASSUME In(s, Link(n, "-d", x))  PROVE In(s, Link(n, "-s", x))
  <2>1. PICK i \in DOMAIN s : s[i] = Link(n, "-d", x)  BY <1>3 DEF In
  <2>2. PICK k \in DOMAIN s : 2 * k <= Len(s) /\ PairAt(s, k) /\ (i = 2 * k - 1 \/ i = 2 * k)
    BY Halves
  <2>3. PICK m \in Networks, y \in Subnets :
          s[2 * k - 1] = Link(m, "-d", y) /\ s[2 * k] = Link(m, "-s", y)
    BY <2>2 DEF PairAt
  <2>4. "-s" # "-d"  OBVIOUS
  <2>5. y = x /\ m = n  BY <1>2, <2>1, <2>2, <2>3, <2>4, ChainsDiffer
  <2> QED  BY <1>1, <2>2, <2>3, <2>5 DEF In
<1>4. ASSUME In(s, Link(n, "-s", x))  PROVE In(s, Link(n, "-d", x))
  <2>1. PICK i \in DOMAIN s : s[i] = Link(n, "-s", x)  BY <1>4 DEF In
  <2>2. PICK k \in DOMAIN s : 2 * k <= Len(s) /\ PairAt(s, k) /\ (i = 2 * k - 1 \/ i = 2 * k)
    BY Halves
  <2>3. PICK m \in Networks, y \in Subnets :
          s[2 * k - 1] = Link(m, "-d", y) /\ s[2 * k] = Link(m, "-s", y)
    BY <2>2 DEF PairAt
  <2>4. "-s" # "-d"  OBVIOUS
  <2>5. y = x /\ m = n  BY <1>2, <2>1, <2>2, <2>3, <2>4, ChainsDiffer
  <2> QED  BY <1>1, <2>2, <2>3, <2>5 DEF In
<1> QED  BY <1>3, <1>4

\* A rule behind the pairs leaves them pairs.
LEMMA PairsAppend ==
  ASSUME NEW s \in Seq(Rules), Pairs(s), NEW r \in Rules
  PROVE  \A k \in DOMAIN Append(s, r) : 2 * k <= Len(s) => PairAt(Append(s, r), k)
<1> DEFINE u == Append(s, r)
<1>1. /\ Len(u) = Len(s) + 1 /\ u \in Seq(Rules)
      /\ \A k \in DOMAIN s : u[k] = s[k]
  BY AppendIn
<1> HIDE DEF u
<1> SUFFICES ASSUME NEW k \in DOMAIN u, 2 * k <= Len(s)  PROVE PairAt(u, k)
  BY DEF u
<1>2. k \in Nat \ {0} /\ k \in DOMAIN s /\ 2 * k - 1 \in DOMAIN s /\ 2 * k \in DOMAIN s
  BY <1>1
<1> QED  BY <1>1, <1>2, PairMoved DEF Pairs

\* The first link of a new pair, and the second.
LEMMA FirstLink ==
  ASSUME NEW s \in Seq(Rules), Paired(s), NEW n \in Networks, NEW x \in Subnets,
         ~In(s, Link(n, "-d", x))
  PROVE  HalfLinked(Append(s, Link(n, "-d", x)), n, x)
<1> DEFINE r == Link(n, "-d", x)
           u == Append(s, r)
<1>1. r \in Rules  BY ChainKinds, RuleTypes DEF Link
<1>2. /\ u \in Seq(Rules) /\ Len(u) = Len(s) + 1 /\ u[Len(s) + 1] = r
      /\ \A y : In(u, y) <=> In(s, y) \/ y = r
  BY <1>1, AppendIn
<1>3. PICK m \in 0..Len(s) : Len(s) = 2 * m  BY DEF Paired
<1>4. Link(n, "-s", x) # r  BY LinkParts
<1>5. ~In(u, Link(n, "-s", x))  BY <1>2, <1>4, Partner
<1>6. \A k \in DOMAIN u : 2 * k <= Len(s) => PairAt(u, k)
  BY <1>1, PairsAppend DEF Paired
<1> HIDE DEF u, r
<1>7. Pairs(u)
  <2>1. \A k \in DOMAIN u : 2 * k <= Len(u) => 2 * k <= Len(s)  BY <1>2, <1>3
  <2> QED  BY <1>6, <2>1 DEF Pairs
<1>8. m \in 0..Len(u) /\ Len(u) = 2 * m + 1  BY <1>2, <1>3
<1> QED  BY <1>2, <1>5, <1>7, <1>8 DEF HalfLinked, u, r

\* The second link completes the pair.
LEMMA SecondLink ==
  ASSUME NEW s \in Seq(Rules), NEW n \in Networks, NEW x \in NetworkValues[n] \cap Subnets,
         Pairs(s), NEW m \in 0..Len(s), Len(s) = 2 * m + 1, s[Len(s)] = Link(n, "-d", x)
  PROVE  Paired(Append(s, Link(n, "-s", x)))
<1> DEFINE r == Link(n, "-s", x)
           u == Append(s, r)
<1>1. r \in Rules  BY ChainKinds, RuleTypes DEF Link
<1>2. /\ u \in Seq(Rules) /\ Len(u) = Len(s) + 1 /\ u[Len(s) + 1] = r
      /\ \A k \in DOMAIN s : u[k] = s[k]
  BY <1>1, AppendIn
<1>3. \A k \in DOMAIN u : 2 * k <= Len(s) => PairAt(u, k)  BY <1>1, PairsAppend
<1> HIDE DEF u
<1>4. m + 1 \in Nat /\ Len(u) = 2 * (m + 1) /\ m + 1 \in 0..Len(u)  BY <1>2
<1>5. PairAt(u, m + 1)
  <2>1. u[2 * (m + 1)] = r /\ u[2 * (m + 1) - 1] = Link(n, "-d", x)  BY <1>2
  <2> QED  BY <2>1 DEF PairAt
<1>6. \A k \in DOMAIN u : 2 * k <= Len(u) => 2 * k <= Len(s) \/ k = m + 1  BY <1>2
<1>7. Pairs(u)  BY <1>3, <1>5, <1>6 DEF Pairs
<1> QED  BY <1>4, <1>7 DEF Paired, u
-----------------------------------------------------------------------------
\* AddNetworkChain, second command: the chain exists, so the REJECT goes in.
LEMMA closeNetworkChain ==
  ASSUME IInv, ChainInv, NEW w \in Workers, closeNetwork(w)
  PROVE  ChainInv'
<1> DEFINE f == frame[w]
           c == NetworkChain(f.cur)
           r == Jump(Reject)
           t == AppendUnique(iptable, c, r).tbl
<1>1. pc[w] = "close" /\ pc[w] \in Inside /\ pc[w] \in AtNetwork /\ Step(w, "linkTo", f, t)
  BY DEF closeNetwork, Inside, AtNetwork
<1>2. /\ iptable \in Tables /\ f \in Frames /\ f.cur \in Networks
      /\ c \in Chains /\ c # BaseChain /\ BaseChain \in Chains /\ r \in Rules
      /\ \A n \in Networks : NetworkChain(n) \in Chains
      /\ \A n \in Networks : n # f.cur => NetworkChain(n) # c
      /\ iptable.rules[c] \in Seq(Rules)
  BY <1>1, Here, ChainKinds, ChainsDiffer, RuleTypes DEF Fits, TypeOK
<1>3. /\ Good("close", f, iptable) /\ PlainTable(iptable) /\ BaseChain \in iptable.chains
      /\ c \in iptable.chains /\ Paired(iptable.rules[BaseChain])
      /\ f.subnet \in NetworkValues[f.cur]
  BY <1>1, Found DEF Good, AtSubnet
<1>4. Refusal(iptable, c, r) = 0
  BY <1>3 DEF Refusal, Jump, Rule
<1>5. /\ Elsewhere(iptable, t, c) /\ t.chains = iptable.chains
      /\ ~In(iptable.rules[c], r) => t.rules[c] = Append(iptable.rules[c], r)
      /\ In(iptable.rules[c], r) => t = iptable
  BY <1>2, <1>4, AppendEffect
<1> HIDE DEF t
<1>6. /\ t.rules[BaseChain] = iptable.rules[BaseChain]
      /\ \A n \in Networks : n # f.cur =>
           t.rules[NetworkChain(n)] = iptable.rules[NetworkChain(n)]
  BY <1>2, <1>5 DEF Elsewhere
<1>7. In(t.rules[c], r) /\ \A x : In(t.rules[c], x) => In(iptable.rules[c], x) \/ x = r
  <2>1. CASE In(iptable.rules[c], r)  BY <1>5, <2>1
  <2>2. CASE ~In(iptable.rules[c], r)
    <3>1. \A x : In(Append(iptable.rules[c], r), x) <=> In(iptable.rules[c], x) \/ x = r
      BY <1>2, AppendIn
    <3>2. t.rules[c] = Append(iptable.rules[c], r)  BY <1>5, <2>2
    <3> QED  BY <3>1, <3>2, Zenon
  <2> QED  BY <2>1, <2>2
<1>8. PlainTable(t)
  <2>1. OnlyJumps(iptable.rules[c])  BY <1>2, <1>3 DEF PlainTable
  <2>2. r = Jump(r.target)  BY RuleTypes
  <2>3. OnlyJumps(t.rules[c])
    <3> DEFINE a == iptable.rules[c]
               b == t.rules[c]
    <3> HIDE DEF a, b, r
    <3> QED  BY <1>7, <2>1, <2>2, OnlyJumpsIn, Zenon DEF a, b
  <2> QED  BY <1>3, <1>6, <2>3 DEF PlainTable
<1>9. ClosedIn(t, f.cur) /\ \A n \in Networks : ClosedIn(iptable, n) => ClosedIn(t, n)
  BY <1>6, <1>7 DEF ClosedIn
<1>10. Good("linkTo", f, t)
  BY <1>3, <1>6, <1>9 DEF Good, AtSubnet
<1> QED  BY <1>1, <1>3, <1>5, <1>8, <1>10, StepChain DEF Inside

\* A refusal depends on the chains, the target and the subnet alone.
LEMMA SameRefusal ==
  ASSUME NEW t, NEW u, u.chains = t.chains, NEW n, NEW x
  PROVE  Refusal(u, BaseChain, Link(n, "-s", x)) = Refusal(t, BaseChain, Link(n, "-d", x))
BY DEF Refusal, Link, Rule

\* The table in which base rules to one closed network chain were added or removed.
LEMMA OneNetworkLinked ==
  ASSUME NEW t, NEW u, NEW m \in Networks,
         \A n \in Networks : u.rules[NetworkChain(n)] = t.rules[NetworkChain(n)],
         \A x : In(u.rules[BaseChain], x)
                  => In(t.rules[BaseChain], x) \/ x.target = NetworkChain(m),
         \A n \in Networks :
           Untargeted(t.rules[BaseChain], NetworkChain(n)) \/ ClosedIn(t, n),
         ClosedIn(t, m)
  PROVE  \A n \in Networks :
           Untargeted(u.rules[BaseChain], NetworkChain(n)) \/ ClosedIn(u, n)
<1> SUFFICES ASSUME NEW n \in Networks, n # m, Untargeted(t.rules[BaseChain], NetworkChain(n))
             PROVE  Untargeted(u.rules[BaseChain], NetworkChain(n))
  BY DEF ClosedIn
<1>1. NetworkChain(m) # NetworkChain(n)  BY ChainsDiffer
<1>2. ASSUME NEW k \in DOMAIN u.rules[BaseChain]
      PROVE  u.rules[BaseChain][k].target # NetworkChain(n)
  <2>1. In(u.rules[BaseChain], u.rules[BaseChain][k])  BY DEF In
  <2>2. CASE In(t.rules[BaseChain], u.rules[BaseChain][k])  BY <2>2 DEF In, Untargeted
  <2>3. CASE u.rules[BaseChain][k].target = NetworkChain(m)  BY <1>1, <2>3
  <2> QED  BY <2>1, <2>2, <2>3
<1> QED  BY <1>2 DEF Untargeted

\* AddNetworkChain, third and fourth command: a link refused is refused in both
\* directions, and one that is there is there in both.
LEMMA linkNetworkChain ==
  ASSUME IInv, ChainInv, NEW w \in Workers, linkNetwork(w)
  PROVE  ChainInv'
<1> DEFINE f == frame[w]
           c == NetworkChain(f.cur)
           base == iptable.rules[BaseChain]
<1>1. pc[w] \in {"linkTo", "linkFrom"} /\ pc[w] \in Inside /\ pc[w] \in AtNetwork
  BY DEF linkNetwork, Inside, AtNetwork
<1>2. /\ iptable \in Tables /\ f \in Frames /\ f.cur \in Networks
      /\ f.subnet \in Subnets \cup {Blank} /\ base \in Seq(Rules)
      /\ BaseChain \in Chains /\ c # BaseChain
      /\ \A n \in Networks : NetworkChain(n) \in Chains /\ NetworkChain(n) # BaseChain
  BY <1>1, Here, ChainKinds, ChainsDiffer DEF Fits, Frames, TypeOK
<1>3. /\ Good(pc[w], f, iptable) /\ PlainTable(iptable) /\ BaseChain \in iptable.chains
      /\ f.subnet \in NetworkValues[f.cur] /\ ClosedIn(iptable, f.cur)
      /\ FixedSubnets => \A n \in Networks :
           Untargeted(base, NetworkChain(n)) \/ ClosedIn(iptable, n)
  BY <1>1, Found DEF Good, AtSubnet
<1>4. ASSUME NEW d \in {"-d", "-s"}
      PROVE  LET r == Link(f.cur, d, f.subnet)
                 a == AppendUnique(iptable, BaseChain, r)
             IN  /\ a.exit = Refusal(iptable, BaseChain, r)
                 /\ a.tbl.chains = iptable.chains /\ PlainTable(a.tbl)
                 /\ ClosedIn(a.tbl, f.cur)
                 /\ FixedSubnets => \A n \in Networks :
                      Untargeted(a.tbl.rules[BaseChain], NetworkChain(n)) \/ ClosedIn(a.tbl, n)
                 /\ a.exit = 0 => f.subnet \in Subnets
                 /\ a.exit # 0 => a.tbl = iptable
                 /\ a.exit = 0 /\ In(base, r) => a.tbl.rules[BaseChain] = base
                 /\ a.exit = 0 /\ ~In(base, r) => a.tbl.rules[BaseChain] = Append(base, r)
  <2> DEFINE r == Link(f.cur, d, f.subnet)
             a == AppendUnique(iptable, BaseChain, r)
             u == a.tbl
  <2>1. r \in Rules /\ r.dir = d /\ r.net = f.subnet /\ r.target = c
    <3>1. r \in Rules  BY <1>2, ChainKinds, RuleTypes DEF Link
    <3> QED  BY <3>1, LinkParts
  <2>2. /\ Elsewhere(iptable, u, BaseChain) /\ u.chains = iptable.chains
        /\ a.exit = Refusal(iptable, BaseChain, r)
        /\ a.exit = 0 /\ ~In(base, r) => u.rules[BaseChain] = Append(base, r)
        /\ ~(a.exit = 0 /\ ~In(base, r)) => u = iptable
    BY <1>2, <2>1, AppendEffect
  <2>3. a.exit = 0 => f.subnet \in Subnets
    BY <1>2, <2>1, <2>2 DEF Refusal
  <2> HIDE DEF a, r
  <2>4. \A n \in Networks : u.rules[NetworkChain(n)] = iptable.rules[NetworkChain(n)]
    BY <1>2, <2>2 DEF Elsewhere
  <2>5. PlainTable(u) /\ ClosedIn(u, f.cur)  BY <1>2, <1>3, <2>4 DEF PlainTable, ClosedIn
  <2>6. \A x : In(u.rules[BaseChain], x) => In(base, x) \/ x.target = c
    <3>1. \A x : In(Append(base, r), x) <=> In(base, x) \/ x = r
      BY <1>2, <2>1, AppendIn
    <3>2. u.rules[BaseChain] = base \/ u.rules[BaseChain] = Append(base, r)  BY <2>2
    <3> QED  BY <2>1, <3>1, <3>2, Zenon
  <2>7. FixedSubnets => \A n \in Networks :
          Untargeted(u.rules[BaseChain], NetworkChain(n)) \/ ClosedIn(u, n)
    BY <1>2, <1>3, <2>4, <2>6, OneNetworkLinked
  <2> QED  BY <2>2, <2>3, <2>5, <2>7 DEF a, r
<1>5. CASE pc[w] = "linkTo"
  <2> DEFINE r == Link(f.cur, "-d", f.subnet)
             a == AppendUnique(iptable, BaseChain, r)
             g == [f EXCEPT !.lnChain = NoChain]
             h == [f EXCEPT !.lnChain = c]
  <2>1. /\ a.exit # 0 => Step(w, "impose", g, a.tbl)
        /\ a.exit = 0 => Step(w, "linkFrom", h, a.tbl)
    BY <1>5 DEF linkNetwork
  <2>2. /\ g.subnet = f.subnet /\ g.cur = f.cur
        /\ h.subnet = f.subnet /\ h.cur = f.cur
    BY <1>2 DEF Frames
  <2>3. /\ a.exit = Refusal(iptable, BaseChain, r)
        /\ a.tbl.chains = iptable.chains /\ PlainTable(a.tbl)
        /\ ClosedIn(a.tbl, f.cur)
        /\ FixedSubnets => \A n \in Networks :
             Untargeted(a.tbl.rules[BaseChain], NetworkChain(n)) \/ ClosedIn(a.tbl, n)
        /\ a.exit = 0 => f.subnet \in Subnets
        /\ a.exit # 0 => a.tbl = iptable
        /\ a.exit = 0 /\ In(base, r) => a.tbl.rules[BaseChain] = base
        /\ a.exit = 0 /\ ~In(base, r) => a.tbl.rules[BaseChain] = Append(base, r)
    BY <1>4
  <2>4. Paired(base)  BY <1>3, <1>5 DEF Good
  <2> HIDE DEF a, g, h
  <2>5. CASE a.exit # 0
    <3>1. Good("impose", g, a.tbl)  BY <1>3, <2>2, <2>3, <2>4, <2>5 DEF Good, AtSubnet
    <3> QED  BY <1>1, <1>3, <2>1, <2>3, <2>5, <3>1, StepChain DEF Inside
  <2>6. CASE a.exit = 0
    <3>1. HalfLinked(a.tbl.rules[BaseChain], f.cur, f.subnet)
      <4>1. CASE In(base, r)
        BY <1>2, <2>3, <2>4, <2>6, <4>1, Partner DEF HalfLinked
      <4>2. CASE ~In(base, r)
        BY <1>2, <2>3, <2>4, <2>6, <4>2, FirstLink
      <4> QED  BY <4>1, <4>2
    <3>2. Refusal(a.tbl, BaseChain, Link(f.cur, "-s", f.subnet)) = 0
      BY <2>3, <2>6, SameRefusal
    <3>3. Good("linkFrom", h, a.tbl)
      BY <1>3, <2>2, <2>3, <3>1, <3>2 DEF Good, AtSubnet
    <3> QED  BY <1>1, <1>3, <2>1, <2>3, <2>6, <3>3, StepChain DEF Inside
  <2> QED  BY <2>5, <2>6
<1>6. CASE pc[w] = "linkFrom"
  <2> DEFINE r == Link(f.cur, "-s", f.subnet)
             a == AppendUnique(iptable, BaseChain, r)
             h == [f EXCEPT !.lnChain = c]
  <2>1. /\ a.exit = Refusal(iptable, BaseChain, r)
        /\ a.tbl.chains = iptable.chains /\ PlainTable(a.tbl)
        /\ FixedSubnets => \A n \in Networks :
             Untargeted(a.tbl.rules[BaseChain], NetworkChain(n)) \/ ClosedIn(a.tbl, n)
        /\ a.exit = 0 => f.subnet \in Subnets
        /\ a.exit = 0 /\ In(base, r) => a.tbl.rules[BaseChain] = base
        /\ a.exit = 0 /\ ~In(base, r) => a.tbl.rules[BaseChain] = Append(base, r)
    BY <1>4
  <2>2. Refusal(iptable, BaseChain, r) = 0 /\ HalfLinked(base, f.cur, f.subnet)
    BY <1>3, <1>6 DEF Good
  <2>3. a.exit = 0  BY <2>1, <2>2
  <2>4. Step(w, "impose", h, a.tbl)  BY <1>6, <2>3 DEF linkNetwork
  <2>5. h.subnet = f.subnet /\ h.cur = f.cur  BY <1>2 DEF Frames
  <2> HIDE DEF a, h
  <2>6. Paired(a.tbl.rules[BaseChain])
    <3>1. CASE In(base, r)  BY <2>1, <2>2, <2>3, <3>1 DEF HalfLinked
    <3>2. CASE ~In(base, r)
      BY <1>2, <1>3, <2>1, <2>2, <2>3, <3>2, SecondLink DEF HalfLinked
    <3> QED  BY <3>1, <3>2
  <2>7. Good("impose", h, a.tbl)  BY <1>3, <2>1, <2>5, <2>6 DEF Good, AtSubnet
  <2> QED  BY <1>1, <1>3, <2>1, <2>4, <2>7, StepChain DEF Inside
<1> QED  BY <1>1, <1>5, <1>6
-----------------------------------------------------------------------------
(***************************************************************************)
(* Scans.                                                                  *)
(***************************************************************************)
\* Deleting one rule takes that one away and no other.
LEMMA WithoutIn ==
  ASSUME NEW s \in Seq(Rules), NEW k \in DOMAIN s
  PROVE  /\ \A x : In(WithoutNth(s, k), x) => In(s, x)
         /\ \A x : In(s, x) /\ x # s[k] => In(WithoutNth(s, k), x)
         /\ Distinct(s) => ~In(WithoutNth(s, k), s[k])
<1> DEFINE u == WithoutNth(s, k)
<1>1. /\ u \in Seq(Rules) /\ Len(u) = Len(s) - 1
      /\ \A j \in DOMAIN u : (j < k => u[j] = s[j]) /\ (j >= k => u[j] = s[j + 1])
  BY WithoutEffect
<1> HIDE DEF u
<1>2. \A j \in DOMAIN u : \E i \in DOMAIN s : i # k /\ u[j] = s[i]
  <2> SUFFICES ASSUME NEW j \in DOMAIN u PROVE \E i \in DOMAIN s : i # k /\ u[j] = s[i]
    OBVIOUS
  <2>1. CASE j < k  BY <1>1, <2>1
  <2>2. CASE j >= k  BY <1>1, <2>2
  <2> QED  BY <1>1, <2>1, <2>2
<1>3. \A i \in DOMAIN s : i # k => \E j \in DOMAIN u : u[j] = s[i]
  <2> SUFFICES ASSUME NEW i \in DOMAIN s, i # k PROVE \E j \in DOMAIN u : u[j] = s[i]
    OBVIOUS
  <2>1. CASE i < k
    <3>1. i \in DOMAIN u /\ u[i] = s[i]  BY <1>1, <2>1
    <3> QED  BY <3>1
  <2>2. CASE i > k
    <3>1. i - 1 \in DOMAIN u /\ u[i - 1] = s[i]  BY <1>1, <2>2
    <3> QED  BY <3>1
  <2> QED  BY <2>1, <2>2
<1>4. \A x : In(u, x) => In(s, x)  BY <1>2 DEF In
<1>5. \A x : In(s, x) /\ x # s[k] => In(u, x)  BY <1>3 DEF In
<1>6. Distinct(s) => ~In(u, s[k])  BY <1>2 DEF In, Distinct
<1> QED  BY <1>4, <1>5, <1>6 DEF u

\* DeleteNetworkChainRule takes its listing of a chain that exists.
LEMMA unlinkPolicyChain ==
  ASSUME IInv, ChainInv, NEW w \in Workers, unlinkPolicy(w)
  PROVE  ChainInv'
<1> DEFINE f == frame[w]
           p == f.item.name
           t == IF f.item.action = "DELETE"
                THEN DeleteIptableChain(iptable, PolicyChain(p)).tbl ELSE iptable
<1>1. /\ pc[w] = "unlink" /\ pc[w] \in Inside /\ pc[w] \in AtPolicy
      /\ pc[w] \notin {"close", "linkFrom", "scanBase"}
  BY DEF unlinkPolicy, Inside, AtPolicy
<1>2. /\ iptable \in Tables /\ Sound(iptable) /\ f \in Frames /\ p \in Policies
      /\ f.nets \subseteq Networks
  BY <1>1, Here, ItemKinds DEF Fits, Frames, TypeOK
<1>3. Calm(iptable) /\ PlainTable(iptable) /\ BaseChain \in iptable.chains  BY <1>1, Found
<1>4. CASE Step(w, "returned", f, t)
  <2>1. Grows(iptable, t)  BY <1>2, PolicyEditsGrow, GrowsSame
  <2> HIDE DEF t
  <2> QED  BY <1>1, <1>4, <2>1, CalmStep DEF Inside, AtSubnet
<1>5. ASSUME NEW n \in f.nets,
             LET g == [f EXCEPT !.nets = f.nets \ {n}, !.cur = n] IN
             IF NetworkChain(n) \notin iptable.chains
             THEN Step(w, "unlink", g, iptable)
             ELSE Step(w, "scanNetwork",
                       [g EXCEPT !.snap = iptable.rules[NetworkChain(n)], !.i = 1, !.cnt = 0],
                       iptable)
      PROVE  ChainInv'
  <2> DEFINE g == [f EXCEPT !.nets = f.nets \ {n}, !.cur = n]
             snap == iptable.rules[NetworkChain(n)]
             h == [g EXCEPT !.snap = snap, !.i = 1, !.cnt = 0]
  <2>1. CASE Step(w, "unlink", g, iptable)
    <3> HIDE DEF g
    <3> QED  BY <1>1, <2>1, GrowsSame, CalmStep DEF Inside, AtSubnet
  <2>2. CASE NetworkChain(n) \in iptable.chains /\ Step(w, "scanNetwork", h, iptable)
    <3>1. n \in Networks /\ NetworkChain(n) \in Chains  BY <1>2, ChainKinds
    <3>2. snap \in Seq(Rules) /\ Distinct(snap) /\ OnlyJumps(snap)
      BY <1>2, <1>3, <3>1 DEF Sound, Tables, PlainTable
    <3> HIDE DEF snap
    <3>3. /\ h.snap = snap /\ h.i = 1 /\ h.cnt = 0 /\ h.cur = n
          /\ h.item = f.item
      BY <1>2 DEF Frames
    <3> HIDE DEF h
    <3>4. NetworkScan(h, snap)
      <4>1. \A k \in DOMAIN snap : k >= 1  BY <3>2
      <4> QED  BY <3>2, <3>3, <4>1 DEF NetworkScan
    <3>5. Good("scanNetwork", h, iptable)
      BY <1>3, <2>2, <3>3, <3>4 DEF Good, Calm, AtSubnet, snap
    <3> QED  BY <1>1, <1>3, <2>2, <3>5, StepChain DEF Inside
  <2> QED  BY <1>5, <2>1, <2>2
<1> QED  BY <1>4, <1>5 DEF unlinkPolicy

\* DeleteNetworkChain takes its listing of the base chain.
LEMMA BaseScanGood ==
  ASSUME IInv, Calm(iptable), NEW g \in Frames, g.cur \in Networks,
         g.item.kind = "networkpolicy" =>
           \A k \in DOMAIN iptable.rules[NetworkChain(g.cur)] :
             iptable.rules[NetworkChain(g.cur)][k].target \notin PolicyChains
  PROVE  Good("scanBase", BaseScan(g), iptable)
<1> DEFINE base == iptable.rules[BaseChain]
           h == BaseScan(g)
<1>1. base \in Seq(Rules) /\ Distinct(base) /\ Paired(base)
  BY ChainKinds DEF IInv, Sound, Tables, Calm
<1> HIDE DEF base
<1>2. /\ h.snap = base /\ h.i = 1 /\ h.pos = 1 /\ h.cnt = 0 /\ h.cur = g.cur
      /\ h.item = g.item
  BY DEF BaseScan, Frames, base
<1> HIDE DEF h
<1>3. BaseScanned(h, base)
  <2>1. \A k \in DOMAIN base : ~(k < 1)  BY <1>1
  <2> QED  BY <1>1, <1>2, <2>1 DEF BaseScanned, UntargetedBefore
<1>4. Good("scanBase", h, iptable)
  BY <1>2, <1>3 DEF Good, Calm, AtSubnet, base
<1> QED  BY <1>4 DEF h

\* One line of the listing of a network chain: the jump to the policy is deleted
\* while the chain is as listed, and it is there only once.
LEMMA scanNetworkChainChain ==
  ASSUME IInv, ChainInv, NEW w \in Workers, scanNetworkChain(w)
  PROVE  ChainInv'
<1> DEFINE f == frame[w]
           c == NetworkChain(f.cur)
           s == iptable.rules[c]
           r == f.snap[f.i]
<1>1. /\ pc[w] = "scanNetwork" /\ pc[w] \in Inside
      /\ pc[w] \in AtPolicy /\ pc[w] \in AtNetwork
      /\ pc[w] \notin {"close", "linkFrom", "scanBase"}
  BY DEF scanNetworkChain, Inside, AtPolicy, AtNetwork
<1>2. /\ iptable \in Tables /\ f \in Frames /\ f.cur \in Networks
      /\ f.item.name \in Policies /\ s \in Seq(Rules)
      /\ c \in Chains /\ c # BaseChain /\ BaseChain \in Chains
      /\ \A n \in Networks : NetworkChain(n) \in Chains
      /\ \A n \in Networks : n # f.cur => NetworkChain(n) # c
  BY <1>1, Here, ItemKinds, ChainKinds, ChainsDiffer DEF Fits, TypeOK
<1>3. f.i \in Nat /\ f.cnt \in Nat /\ f.snap \in Seq(Rules)  BY <1>2 DEF Frames
<1>4. /\ Calm(iptable) /\ PlainTable(iptable) /\ BaseChain \in iptable.chains
      /\ NetworkScan(f, s) /\ c \in iptable.chains
  BY <1>1, Found DEF Good
<1>5. CASE f.i <= Len(f.snap) /\ r.target = PolicyChain(f.item.name)
  <2> DEFINE g == [f EXCEPT !.i = f.i + 1]
             t == DeleteNth(iptable, c, f.i).tbl
             u == WithoutNth(s, f.i)
  <2>1. Step(w, "scanNetwork", g, t)  BY <1>3, <1>5 DEF scanNetworkChain
  <2>2. f.i \in DOMAIN f.snap /\ s = f.snap  BY <1>3, <1>4, <1>5 DEF NetworkScan
  <2>3. /\ Elsewhere(iptable, t, c) /\ t.chains = iptable.chains /\ t.rules[c] = u
    BY <1>2, <1>3, <1>4, <2>2, DeleteEffect
  <2>4. /\ \A x : In(u, x) => In(s, x)
        /\ \A x : In(s, x) /\ x # r => In(u, x)
        /\ ~In(u, r)
    BY <1>2, <1>4, <2>2, WithoutIn DEF NetworkScan
  <2>5. g.i = f.i + 1 /\ g.cnt = f.cnt /\ g.snap = f.snap /\ g.cur = f.cur /\ g.item = f.item
    BY <1>2 DEF Frames
  <2> HIDE DEF g, t, u
  <2>6. /\ t.rules[BaseChain] = iptable.rules[BaseChain]
        /\ \A n \in Networks : n # f.cur =>
             t.rules[NetworkChain(n)] = iptable.rules[NetworkChain(n)]
    BY <1>2, <2>3 DEF Elsewhere
  <2>7. PlainTable(t)
    <3>1. OnlyJumps(s)  BY <1>2, <1>4 DEF PlainTable
    <3>2. OnlyJumps(u)
      <4> HIDE DEF s
      <4> QED  BY <2>4, <3>1, OnlyJumpsIn, Zenon
    <3> QED  BY <1>4, <2>3, <2>6, <3>2 DEF PlainTable
  <2>8. \A n \in Networks : ClosedIn(iptable, n) => ClosedIn(t, n)
    <3>1. Jump(Reject) # r
      <4>1. Jump(Reject).target = Reject /\ PolicyChain(f.item.name) # Reject
        BY <1>2, RuleTypes, ChainKinds
      <4> QED  BY <1>5, <4>1
    <3>2. In(s, Jump(Reject)) => In(u, Jump(Reject))  BY <2>4, <3>1
    <3> QED  BY <2>3, <2>6, <3>2 DEF ClosedIn
  <2>9. NetworkScan(g, u)
    <3>1. ASSUME NEW j \in DOMAIN f.snap, j >= f.i + 1
          PROVE  f.snap[j].target # PolicyChain(f.item.name)
      <4>1. j # f.i  BY <1>3, <3>1
      <4>2. f.snap[j] # r  BY <1>4, <2>2, <4>1 DEF NetworkScan, Distinct
      <4>3. f.snap[j] = Jump(f.snap[j].target) /\ r = Jump(r.target)
        BY <1>4, <2>2 DEF NetworkScan, OnlyJumps
      <4> QED  BY <1>5, <4>2, <4>3
    <3>2. ASSUME f.cnt = 0, NEW k \in DOMAIN u, u[k].target \in PolicyChains
          PROVE  \E j \in DOMAIN f.snap : j >= f.i + 1 /\ f.snap[j] = u[k]
      <4>1. In(u, u[k]) /\ In(s, u[k])  BY <2>4 DEF In
      <4>2. u[k] # r  BY <2>4, <4>1
      <4>3. PICK i \in DOMAIN s : s[i] = u[k]  BY <4>1 DEF In
      <4>4. PICK j \in DOMAIN f.snap : j >= f.i /\ f.snap[j] = s[i]
        BY <1>4, <3>2, <4>3 DEF NetworkScan
      <4>5. j # f.i  BY <4>2, <4>3, <4>4
      <4>6. j >= f.i + 1  BY <1>3, <4>4, <4>5
      <4> QED  BY <4>3, <4>4, <4>6
    <3>3. f.i + 1 >= 1  BY <1>3
    <3> QED  BY <1>4, <2>5, <3>1, <3>2, <3>3 DEF NetworkScan
  <2>10. Good("scanNetwork", g, t)
    BY <1>4, <2>3, <2>5, <2>6, <2>8, <2>9 DEF Good, Calm, AtSubnet
  <2> QED  BY <1>1, <1>4, <2>1, <2>3, <2>7, <2>10, StepChain DEF Inside
<1>6. CASE f.i <= Len(f.snap) /\ r.target # PolicyChain(f.item.name)
  <2> DEFINE cnt == CountPolicy(f, r)
             next == f.i + 1
             h == [f EXCEPT !.i = next, !.cnt = cnt]
  <2>1. Step(w, "scanNetwork", h, iptable)  BY <1>3, <1>6 DEF scanNetworkChain
  <2>2. f.i \in DOMAIN f.snap  BY <1>3, <1>4, <1>6 DEF NetworkScan
  <2>3. cnt = 0 => f.cnt = 0 /\ r.target \notin PolicyChains  BY DEF CountPolicy
  <2>4. next >= 1 /\ \A j \in Nat : (j >= next => j >= f.i) /\ (j >= f.i /\ j # f.i => j >= next)
    BY <1>3
  <2>5. DOMAIN f.snap \subseteq Nat  BY <1>3
  <2> HIDE DEF cnt, next
  <2>6. h.i = next /\ h.cnt = cnt /\ h.snap = f.snap /\ h.cur = f.cur /\ h.item = f.item
    BY <1>2 DEF Frames
  <2> HIDE DEF h
  <2>7. NetworkScan(h, s)
    <3>1. \A j \in DOMAIN f.snap :
            j >= next /\ f.snap[j].target = PolicyChain(f.item.name) => s = f.snap
      BY <1>4, <2>4, <2>5 DEF NetworkScan
    <3>2. ASSUME cnt = 0, NEW k \in DOMAIN s, s[k].target \in PolicyChains
          PROVE  \E j \in DOMAIN f.snap : j >= next /\ f.snap[j] = s[k]
      <4>1. PICK j \in DOMAIN f.snap : j >= f.i /\ f.snap[j] = s[k]
        BY <1>4, <2>3, <3>2 DEF NetworkScan
      <4>2. j # f.i  BY <2>3, <3>2, <4>1
      <4> QED  BY <2>4, <2>5, <4>1, <4>2
    <3> QED  BY <1>4, <2>4, <2>6, <3>1, <3>2 DEF NetworkScan
  <2>8. Good("scanNetwork", h, iptable)  BY <1>4, <2>6, <2>7 DEF Good, Calm, AtSubnet
  <2> QED  BY <1>1, <1>4, <2>1, <2>8, StepChain DEF Inside
<1>7. CASE f.i > Len(f.snap) /\ f.cnt = 0
  <2>1. Step(w, "scanBase", BaseScan(f), iptable)  BY <1>3, <1>7 DEF scanNetworkChain
  <2>2. \A k \in DOMAIN s : s[k].target \notin PolicyChains
    <3>1. \A j \in DOMAIN f.snap : ~(j >= f.i)  BY <1>3, <1>7
    <3> QED  BY <1>4, <1>7, <3>1 DEF NetworkScan
  <2>3. Good("scanBase", BaseScan(f), iptable)  BY <1>2, <1>4, <2>2, BaseScanGood
  <2> QED  BY <1>1, <1>4, <2>1, <2>3, StepChain DEF Inside
<1>8. CASE f.i > Len(f.snap) /\ f.cnt # 0
  <2>1. Step(w, "unlink", f, iptable)  BY <1>3, <1>8 DEF scanNetworkChain
  <2> QED  BY <1>1, <2>1, GrowsSame, CalmStep DEF Inside, AtSubnet
<1> QED  BY <1>3, <1>5, <1>6, <1>7, <1>8
-----------------------------------------------------------------------------
\* Without a whole pair, the others are pairs as before.
LEMMA PairRemoved ==
  ASSUME NEW s \in Seq(Rules), Paired(s), NEW k \in DOMAIN s, 2 * k <= Len(s)
  PROVE  LET u == WithoutNth(WithoutNth(s, 2 * k - 1), 2 * k - 1) IN
         /\ Paired(u)
         /\ \A j \in DOMAIN u : \E i \in DOMAIN s : i # 2 * k - 1 /\ i # 2 * k /\ u[j] = s[i]
<1> DEFINE h == 2 * k - 1
           v == WithoutNth(s, h)
           u == WithoutNth(v, h)
<1>1. /\ k \in Nat \ {0} /\ h \in Nat /\ h \in DOMAIN s /\ h + 1 = 2 * k
      /\ h + 1 <= Len(s)
  OBVIOUS
<1> HIDE DEF h
<1>2. /\ v \in Seq(Rules) /\ Len(v) = Len(s) - 1
      /\ \A j \in DOMAIN v : (j < h => v[j] = s[j]) /\ (j >= h => v[j] = s[j + 1])
  BY <1>1, WithoutEffect
<1> HIDE DEF v
<1>3. h \in DOMAIN v  BY <1>1, <1>2
<1>4. /\ u \in Seq(Rules) /\ Len(u) = Len(v) - 1
      /\ \A j \in DOMAIN u : (j < h => u[j] = v[j]) /\ (j >= h => u[j] = v[j + 1])
  BY <1>2, <1>3, WithoutEffect
<1> HIDE DEF u
<1>5. /\ Len(u) = Len(s) - 2 /\ Len(s) \in Nat /\ Len(s) >= 2
      /\ \A j \in DOMAIN u : (j < h => u[j] = s[j]) /\ (j >= h => u[j] = s[j + 2])
  <2>1. \A j \in DOMAIN u : j \in DOMAIN v /\ j + 1 \in DOMAIN v  BY <1>2, <1>4
  <2>2. ASSUME NEW j \in DOMAIN u, j >= h PROVE u[j] = s[j + 2]
    <3>1. u[j] = v[j + 1] /\ j + 1 \in DOMAIN v /\ j + 1 >= h  BY <1>1, <1>4, <2>1, <2>2
    <3>2. v[j + 1] = s[(j + 1) + 1]  BY <1>2, <3>1
    <3> QED  BY <1>4, <3>1, <3>2
  <2> QED  BY <1>1, <1>2, <1>4, <2>1, <2>2
<1>6. \A j \in DOMAIN u : \E i \in DOMAIN s : i # h /\ i # h + 1 /\ u[j] = s[i]
  <2> SUFFICES ASSUME NEW j \in DOMAIN u
               PROVE  \E i \in DOMAIN s : i # h /\ i # h + 1 /\ u[j] = s[i]
    OBVIOUS
  <2>1. CASE j < h
    <3>1. j \in DOMAIN s /\ j # h /\ j # h + 1  BY <1>1, <1>4, <1>5, <2>1
    <3> QED  BY <1>5, <2>1, <3>1
  <2>2. CASE j >= h
    <3>1. j + 2 \in DOMAIN s /\ j + 2 # h /\ j + 2 # h + 1  BY <1>1, <1>4, <1>5, <2>2
    <3> QED  BY <1>5, <2>2, <3>1
  <2> QED  BY <1>1, <1>4, <2>1, <2>2
<1>7. Pairs(u)
  <2> SUFFICES ASSUME NEW j \in DOMAIN u, 2 * j <= Len(u)  PROVE PairAt(u, j)
    BY DEF Pairs
  <2>1. j \in Nat \ {0} /\ 2 * j - 1 \in DOMAIN u /\ 2 * j \in DOMAIN u
    BY <1>4
  <2>2. CASE j < k
    <3>1. 2 * j - 1 < h /\ 2 * j < h /\ j \in DOMAIN s /\ 2 * j <= Len(s)
      BY <1>1, <1>5, <2>1, <2>2
    <3>2. u[2 * j - 1] = s[2 * j - 1] /\ u[2 * j] = s[2 * j]  BY <1>5, <2>1, <3>1
    <3>3. PairAt(s, j)  BY <3>1 DEF Paired, Pairs
    <3> QED  BY <3>2, <3>3, PairMoved
  <2>3. CASE j >= k
    <3>1. /\ 2 * j - 1 >= h /\ 2 * j >= h /\ j + 1 \in DOMAIN s /\ 2 * (j + 1) <= Len(s)
          /\ 2 * j + 2 = 2 * (j + 1) /\ (2 * j - 1) + 2 = 2 * (j + 1) - 1
      <4>1. j \in Nat /\ j >= 1 /\ k \in Nat /\ h = 2 * k - 1  BY <1>1, <2>1 DEF h
      <4>2. 2 * j - 1 >= h /\ 2 * j >= h  BY <2>3, <4>1
      <4>3. 2 * j + 2 = 2 * (j + 1) /\ (2 * j - 1) + 2 = 2 * (j + 1) - 1  BY <4>1
      <4>4. Len(u) = Len(s) - 2 /\ Len(s) \in Nat  BY <1>5
      <4>5. 2 * j + 2 <= Len(s)  BY <4>1, <4>4
      <4>6. 2 * (j + 1) <= Len(s) /\ j + 1 \in 1..Len(s)  BY <4>1, <4>3, <4>4, <4>5
      <4> QED  BY <4>2, <4>3, <4>6
    <3>2. u[2 * j - 1] = s[(2 * j - 1) + 2] /\ u[2 * j] = s[2 * j + 2]  BY <1>5, <2>1, <3>1
    <3>3. u[2 * j - 1] = s[2 * (j + 1) - 1] /\ u[2 * j] = s[2 * (j + 1)]
      BY <3>1, <3>2
    <3>4. PairAt(s, j + 1)  BY <3>1 DEF Paired, Pairs
    <3> QED  BY <3>3, <3>4, PairMoved
  <2> QED  BY <1>1, <2>1, <2>2, <2>3
<1>8. \E m \in 0..Len(u) : Len(u) = 2 * m
  <2>1. PICK m \in 0..Len(s) : Len(s) = 2 * m  BY DEF Paired
  <2>2. m - 1 \in 0..Len(u) /\ Len(u) = 2 * (m - 1)  BY <1>5, <2>1
  <2> QED  BY <2>2
<1>9. Paired(u)  BY <1>7, <1>8 DEF Paired
<1>10. \A j \in DOMAIN u : \E i \in DOMAIN s : i # 2 * k - 1 /\ i # 2 * k /\ u[j] = s[i]
  BY <1>1, <1>6 DEF h
<1> QED  BY <1>9, <1>10 DEF u, v, h

\* A network with one subnet has one pair.
LEMMA OnePair ==
  ASSUME FixedSubnets, NEW s \in Seq(Rules), Paired(s), Distinct(s), NEW n \in Networks,
         NEW k \in DOMAIN s, 2 * k <= Len(s), s[2 * k].target = NetworkChain(n),
         NEW i \in DOMAIN s, s[i].target = NetworkChain(n)
  PROVE  i = 2 * k - 1 \/ i = 2 * k
<1>1. PICK m \in Networks, x \in Subnets :
        /\ x \in NetworkValues[m]
        /\ s[2 * k - 1] = Link(m, "-d", x) /\ s[2 * k] = Link(m, "-s", x)
  BY DEF Paired, Pairs, PairAt
<1>2. PICK j \in DOMAIN s : 2 * j <= Len(s) /\ PairAt(s, j) /\ (i = 2 * j - 1 \/ i = 2 * j)
  BY Halves
<1>3. PICK l \in Networks, y \in Subnets :
        /\ y \in NetworkValues[l]
        /\ s[2 * j - 1] = Link(l, "-d", y) /\ s[2 * j] = Link(l, "-s", y)
  BY <1>2 DEF PairAt
<1>4. m = n /\ l = n  BY <1>1, <1>2, <1>3, LinkParts, ChainsDiffer
<1>5. x = y  BY <1>1, <1>3, <1>4 DEF FixedSubnets
<1>6. s[2 * j] = s[2 * k]  BY <1>1, <1>3, <1>4, <1>5
<1>7. 2 * j \in DOMAIN s /\ 2 * k \in DOMAIN s  BY <1>2
<1>8. 2 * j = 2 * k  BY <1>6, <1>7, Zenon DEF Distinct
<1> QED  BY <1>2, <1>8

\* The first link met is the first of its pair.
LEMMA FirstOfPair ==
  ASSUME NEW s \in Seq(Rules), Paired(s), NEW i \in DOMAIN s,
         UntargetedBefore(s, i, s[i].target)
  PROVE  \E k \in DOMAIN s :
           2 * k <= Len(s) /\ i = 2 * k - 1 /\ s[2 * k].target = s[i].target
<1>1. PICK k \in DOMAIN s : 2 * k <= Len(s) /\ PairAt(s, k) /\ (i = 2 * k - 1 \/ i = 2 * k)
  BY Halves
<1>2. s[2 * k - 1].target = s[2 * k].target  BY <1>1, LinkParts DEF PairAt
<1>3. 2 * k - 1 \in DOMAIN s /\ 2 * k - 1 < 2 * k  BY <1>1
<1>4. i # 2 * k  BY <1>2, <1>3 DEF UntargetedBefore
<1> QED  BY <1>1, <1>2, <1>4

\* One line of the listing of the base chain, as far as listing and chain go.
LEMMA BaseLine ==
  ASSUME NEW t \in Tables, BaseChain \in t.chains, NEW f \in Frames, f.cur \in Networks,
         BaseScanned(f, t.rules[BaseChain]), f.i <= Len(f.snap), f.cnt # 2,
         f.snap[f.i].target = NetworkChain(f.cur)
  PROVE  /\ f.i \in DOMAIN f.snap /\ f.pos \in DOMAIN t.rules[BaseChain]
         /\ t.rules[BaseChain][f.pos] = f.snap[f.i]
<1> DEFINE s == t.rules[BaseChain]
<1>1. /\ f.snap \in Seq(Rules) /\ f.i \in Nat /\ f.pos \in Nat /\ f.cnt \in {0, 1}
  BY DEF Frames, BaseScanned
<1>2. CASE f.cnt = 0
  <2>1. s = f.snap /\ f.pos = f.i /\ f.i >= 1  BY <1>2 DEF BaseScanned
  <2> QED  BY <1>1, <2>1
<1>3. CASE f.cnt = 1
  <2>1. PICK k \in DOMAIN f.snap :
          /\ f.i = 2 * k /\ f.pos = 2 * k - 1 /\ 2 * k <= Len(f.snap)
          /\ s = WithoutNth(f.snap, 2 * k - 1)
    BY <1>3 DEF BaseScanned
  <2> DEFINE h == 2 * k - 1
             u == WithoutNth(f.snap, h)
  <2>2. h \in DOMAIN f.snap /\ h \in Nat /\ h + 1 = f.i /\ f.i \in DOMAIN f.snap
    BY <1>1, <2>1
  <2>3. /\ u \in Seq(Rules) /\ Len(u) = Len(f.snap) - 1
        /\ \A j \in DOMAIN u : j >= h => u[j] = f.snap[j + 1]
    BY <1>1, <2>2, WithoutEffect
  <2>4. s = u /\ f.pos = h  BY <2>1
  <2> HIDE DEF s, u, h
  <2>5. h \in DOMAIN u  BY <1>1, <2>2, <2>3
  <2>6. u[h] = f.snap[h + 1]  BY <2>2, <2>3, <2>5
  <2> QED  BY <2>2, <2>4, <2>5, <2>6 DEF s
<1> QED  BY <1>1, <1>2, <1>3

\* Fewer base rules, the same network chains.
LEMMA FewerLinks ==
  ASSUME NEW t, NEW u,
         \A n \in Networks : u.rules[NetworkChain(n)] = t.rules[NetworkChain(n)],
         \A x : In(u.rules[BaseChain], x) => In(t.rules[BaseChain], x)
  PROVE  /\ PlainTable(t) => PlainTable(u)
         /\ \A n \in Networks : ClosedIn(t, n) => ClosedIn(u, n)
         /\ \A c : Untargeted(t.rules[BaseChain], c) => Untargeted(u.rules[BaseChain], c)
<1>1. PlainTable(t) => PlainTable(u)  BY DEF PlainTable
<1>2. \A n \in Networks : ClosedIn(t, n) => ClosedIn(u, n)  BY DEF ClosedIn
<1>3. \A c : Untargeted(t.rules[BaseChain], c) => Untargeted(u.rules[BaseChain], c)
  BY DEF In, Untargeted
<1> QED  BY <1>1, <1>2, <1>3

\* The listing moves on by one line, past a rule that was deleted ...
LEMMA BaseHit ==
  ASSUME NEW f \in Frames, f.cur \in Networks, NEW s \in Seq(Rules), BaseScanned(f, s),
         f.i \in DOMAIN f.snap, f.pos \in DOMAIN s, f.cnt # 2,
         f.snap[f.i].target = NetworkChain(f.cur),
         NEW g, g.i = f.i + 1, g.cnt = f.cnt + 1, g.pos = f.pos,
         g.snap = f.snap, g.cur = f.cur
  PROVE  BaseScanned(g, WithoutNth(s, f.pos))
<1> DEFINE c == NetworkChain(f.cur)
           u == WithoutNth(s, f.pos)
<1>1. /\ f.snap \in Seq(Rules) /\ f.i \in Nat /\ f.pos \in Nat /\ f.cnt \in {0, 1}
      /\ Paired(f.snap) /\ Distinct(f.snap)
  BY DEF Frames, BaseScanned
<1>2. CASE f.cnt = 0
  <2>1. s = f.snap /\ f.pos = f.i /\ UntargetedBefore(f.snap, f.i, c)
    BY <1>2 DEF BaseScanned
  <2>2. PICK k \in DOMAIN f.snap : /\ 2 * k <= Len(f.snap) /\ f.i = 2 * k - 1
                                   /\ f.snap[2 * k].target = c
    <3>1. UntargetedBefore(f.snap, f.i, f.snap[f.i].target)  BY <2>1
    <3>2. \E k \in DOMAIN f.snap :
            2 * k <= Len(f.snap) /\ f.i = 2 * k - 1 /\ f.snap[2 * k].target = f.snap[f.i].target
      BY <1>1, <3>1, FirstOfPair
    <3> QED  BY <3>2
  <2>3. g.cnt = 1 /\ g.i = 2 * k /\ g.pos = 2 * k - 1  BY <1>1, <1>2, <2>1, <2>2
  <2>4. u = WithoutNth(f.snap, 2 * k - 1)  BY <2>1, <2>2
  <2> HIDE DEF u
  <2> QED  BY <1>1, <2>2, <2>3, <2>4 DEF BaseScanned, u
<1>3. CASE f.cnt = 1
  <2>1. PICK k \in DOMAIN f.snap :
          /\ f.i = 2 * k /\ f.pos = 2 * k - 1 /\ 2 * k <= Len(f.snap)
          /\ f.snap[2 * k].target = c
          /\ s = WithoutNth(f.snap, 2 * k - 1)
    BY <1>3 DEF BaseScanned
  <2>2. u = WithoutNth(WithoutNth(f.snap, 2 * k - 1), 2 * k - 1)  BY <2>1
  <2>3. /\ Paired(u)
        /\ \A j \in DOMAIN u :
             \E i \in DOMAIN f.snap : i # 2 * k - 1 /\ i # 2 * k /\ u[j] = f.snap[i]
    BY <1>1, <2>1, <2>2, PairRemoved
  <2> HIDE DEF u
  <2>4. ASSUME FixedSubnets  PROVE Untargeted(u, c)
    <3> SUFFICES ASSUME NEW j \in DOMAIN u PROVE u[j].target # c  BY DEF Untargeted
    <3>1. PICK i \in DOMAIN f.snap : i # 2 * k - 1 /\ i # 2 * k /\ u[j] = f.snap[i]  BY <2>3
    <3> QED  BY <1>1, <2>1, <2>4, <3>1, OnePair
  <2>5. g.cnt = 2  BY <1>3
  <2> QED  BY <1>1, <2>3, <2>4, <2>5 DEF BaseScanned, u
<1> QED  BY <1>1, <1>2, <1>3

\* ... or past one of another network.
LEMMA BaseMiss ==
  ASSUME NEW f \in Frames, NEW s \in Seq(Rules), BaseScanned(f, s),
         f.i \in Nat, f.i <= Len(f.snap), f.cnt # 2, f.snap[f.i].target # NetworkChain(f.cur),
         NEW g, g.i = f.i + 1, g.cnt = f.cnt, g.pos = f.pos + 1,
         g.snap = f.snap, g.cur = f.cur
  PROVE  BaseScanned(g, s)
<1>1. f.snap \in Seq(Rules) /\ f.cnt \in {0, 1} /\ Paired(f.snap) /\ Distinct(f.snap)
  BY DEF Frames, BaseScanned
<1>2. f.cnt # 1  BY DEF BaseScanned
<1>3. f.cnt = 0  BY <1>1, <1>2
<1>4. /\ s = f.snap /\ f.pos = f.i /\ f.i >= 1
      /\ UntargetedBefore(f.snap, f.i, NetworkChain(f.cur))
  BY <1>3 DEF BaseScanned
<1>5. \A k \in DOMAIN f.snap : k < g.i => k < f.i \/ k = f.i  BY <1>1
<1>6. g.pos = g.i /\ g.i >= 1  BY <1>4
<1>7. UntargetedBefore(f.snap, g.i, NetworkChain(f.cur))
  BY <1>4, <1>5 DEF UntargetedBefore
<1> QED  BY <1>1, <1>3, <1>4, <1>6, <1>7 DEF BaseScanned

\* At the end the links are paired, and a network with one subnet has none.
LEMMA BaseEnd ==
  ASSUME NEW f \in Frames, NEW s \in Seq(Rules), BaseScanned(f, s),
         f.i > Len(f.snap) \/ f.cnt = 2
  PROVE  Paired(s) /\ (FixedSubnets => Untargeted(s, NetworkChain(f.cur)))
<1>1. f.snap \in Seq(Rules) /\ f.i \in Nat /\ f.cnt \in {0, 1, 2}
  BY DEF Frames, BaseScanned
<1>2. CASE f.cnt = 0
  <2>1. /\ s = f.snap /\ Paired(f.snap)
        /\ UntargetedBefore(f.snap, f.i, NetworkChain(f.cur))
    BY <1>2 DEF BaseScanned
  <2>2. \A k \in DOMAIN f.snap : k < f.i  BY <1>1, <1>2
  <2> QED  BY <2>1, <2>2 DEF Untargeted, UntargetedBefore
<1>3. f.cnt # 1
  <2> SUFFICES ASSUME f.cnt = 1 PROVE FALSE  OBVIOUS
  <2>1. PICK k \in DOMAIN f.snap : f.i = 2 * k /\ 2 * k <= Len(f.snap)  BY DEF BaseScanned
  <2> QED  BY <1>1, <2>1
<1>4. CASE f.cnt = 2  BY <1>4 DEF BaseScanned
<1> QED  BY <1>1, <1>2, <1>3, <1>4

\* DeleteNetworkChain, line by line, and the removal of the chain.
LEMMA scanBaseChainChain ==
  ASSUME IInv, ChainInv, NEW w \in Workers, scanBaseChain(w)
  PROVE  ChainInv'
<1> DEFINE f == frame[w]
           c == NetworkChain(f.cur)
           s == iptable.rules[BaseChain]
           own == iptable.rules[c]
           d == DeleteNth(iptable, BaseChain, f.pos)
           x == DeleteIptableChain(iptable, c)
           done == f.i > Len(f.snap) \/ f.cnt = 2
<1>1. pc[w] = "scanBase" /\ pc[w] \in Inside /\ pc[w] \in AtNetwork
  BY DEF scanBaseChain, Inside, AtNetwork
<1>2. /\ iptable \in Tables /\ f \in Frames /\ f.cur \in Networks /\ f.item \in Items
      /\ s \in Seq(Rules) /\ BaseChain \in Chains
      /\ c \in Chains /\ c # BaseChain
      /\ \A n \in Networks : NetworkChain(n) \in Chains /\ NetworkChain(n) # BaseChain
      /\ \A n \in Networks : n # f.cur => NetworkChain(n) # c
  BY <1>1, Here, ChainKinds, ChainsDiffer DEF Fits, TypeOK
<1>3. f.i \in Nat /\ f.pos \in Nat /\ f.cnt \in Nat /\ f.snap \in Seq(Rules)
  BY <1>2 DEF Frames
<1>4. /\ PlainTable(iptable) /\ BaseChain \in iptable.chains
      /\ BaseScanned(f, s)
      /\ f.item.kind = "networkpolicy" => \A k \in DOMAIN own : own[k].target \notin PolicyChains
      /\ FixedSubnets => \A n \in Networks :
           Untargeted(s, NetworkChain(n)) \/ ClosedIn(iptable, n)
  BY <1>1, Found DEF Good
<1>5. CASE ~done /\ f.snap[f.i].target = c
  <2> DEFINE g == [f EXCEPT !.i = f.i + 1, !.cnt = f.cnt + 1,
                            !.pos = IF d.exit = 0 THEN f.pos ELSE f.pos + 1]
             t == d.tbl
  <2>1. Step(w, "scanBase", g, t)  BY <1>5 DEF scanBaseChain, LinksOfChain
  <2>2. f.i \in DOMAIN f.snap /\ f.pos \in DOMAIN s
    BY <1>2, <1>3, <1>4, <1>5, BaseLine
  <2>3. /\ Elsewhere(iptable, t, BaseChain) /\ t.chains = iptable.chains /\ d.exit = 0
        /\ t.rules[BaseChain] = WithoutNth(s, f.pos)
    BY <1>2, <1>3, <1>4, <2>2, DeleteEffect
  <2>4. /\ g.i = f.i + 1 /\ g.cnt = f.cnt + 1 /\ g.pos = f.pos
        /\ g.snap = f.snap /\ g.cur = f.cur /\ g.item = f.item
    <3>1. d.exit = 0  BY <2>3
    <3> HIDE DEF d
    <3> QED  BY <1>2, <3>1 DEF Frames
  <2> HIDE DEF g, d
  <2>5. BaseScanned(g, t.rules[BaseChain])
    BY <1>2, <1>3, <1>4, <1>5, <2>2, <2>3, <2>4, BaseHit
  <2>6. \A n \in Networks : t.rules[NetworkChain(n)] = iptable.rules[NetworkChain(n)]
    BY <1>2, <2>3 DEF Elsewhere
  <2>7. \A y : In(t.rules[BaseChain], y) => In(s, y)
    BY <1>2, <2>2, <2>3, WithoutIn
  <2>8. /\ PlainTable(t)
        /\ \A n \in Networks : ClosedIn(iptable, n) => ClosedIn(t, n)
        /\ \A e : Untargeted(s, e) => Untargeted(t.rules[BaseChain], e)
    <3> HIDE DEF t
    <3> QED  BY <1>4, <2>6, <2>7, FewerLinks
  <2>9. Good("scanBase", g, t)
    <3>1. t.rules[c] = own  BY <1>2, <2>6
    <3> HIDE DEF t
    <3> QED  BY <1>4, <2>4, <2>5, <2>8, <3>1 DEF Good, AtSubnet
  <2> QED  BY <1>1, <1>4, <2>1, <2>3, <2>8, <2>9, StepChain DEF Inside
<1>6. CASE ~done /\ f.snap[f.i].target # c
  <2> DEFINE h == [f EXCEPT !.i = f.i + 1, !.pos = f.pos + 1]
  <2>1. Step(w, "scanBase", h, iptable)  BY <1>6 DEF scanBaseChain, LinksOfChain
  <2>2. /\ h.i = f.i + 1 /\ h.cnt = f.cnt /\ h.pos = f.pos + 1
        /\ h.snap = f.snap /\ h.cur = f.cur /\ h.item = f.item
    BY <1>2 DEF Frames
  <2> HIDE DEF h
  <2>3. BaseScanned(h, s)
    <3>1. f.i <= Len(f.snap) /\ f.cnt # 2  BY <1>3, <1>6
    <3>2. f.snap[f.i].target # NetworkChain(f.cur)  BY <1>6
    <3> QED  BY <1>2, <1>3, <1>4, <2>2, <3>1, <3>2, BaseMiss
  <2>4. Good("scanBase", h, iptable)  BY <1>4, <2>2, <2>3 DEF Good, AtSubnet
  <2> QED  BY <1>1, <1>4, <2>1, <2>4, StepChain DEF Inside
<1>7. CASE done
  <2> DEFINE t == x.tbl
             to == IF Nested(w) THEN "unlink"
                   ELSE IF x.exit = 0 THEN "networkDrop" ELSE "returned"
  <2>1. Step(w, to, f, t)  BY <1>7 DEF scanBaseChain, LinksOfChain
  <2>2. Paired(s) /\ (FixedSubnets => Untargeted(s, c))  BY <1>2, <1>4, <1>7, BaseEnd
  <2>3. Elsewhere(iptable, t, c) /\ t.rules[c] = << >>  BY <1>2, DropEffect
  <2>4. /\ to \in {"unlink", "networkDrop", "returned"}
        /\ to = "networkDrop" => f.item.kind # "networkpolicy"
    BY DEF Nested
  <2>5. f.item.kind # "networkpolicy" => f.item.kind = "logicalnetwork"
    BY <1>2, ItemKinds DEF Items
  <2> HIDE DEF t, to
  <2>6. /\ t.rules[BaseChain] = s /\ BaseChain \in t.chains
        /\ \A n \in Networks : n # f.cur =>
             t.rules[NetworkChain(n)] = iptable.rules[NetworkChain(n)]
    BY <1>2, <1>4, <2>3 DEF Elsewhere
  <2>7. PlainTable(t)
    <3>1. OnlyJumps(<< >>)  BY DEF OnlyJumps
    <3> QED  BY <1>4, <2>3, <2>6, <3>1 DEF PlainTable
  <2>8. FixedSubnets => \A n \in Networks : Untargeted(s, NetworkChain(n)) \/ ClosedIn(t, n)
    BY <1>4, <2>2, <2>6 DEF ClosedIn
  <2>9. Good(to, f, t)
    BY <2>2, <2>4, <2>5, <2>6, <2>8 DEF Good, AtSubnet
  <2> QED  BY <1>1, <2>1, <2>4, <2>6, <2>7, <2>9, StepChain DEF Inside
<1> QED  BY <1>5, <1>6, <1>7
-----------------------------------------------------------------------------
\* The loop of handleLogicalNetworkDelete starts a scan, or goes on.
LEMMA dropNetworkChain ==
  ASSUME IInv, ChainInv, NEW w \in Workers, dropNetwork(w)
  PROVE  ChainInv'
<1> DEFINE f == frame[w]
<1>1. /\ pc[w] = "networkDrop" /\ pc[w] \in Inside /\ pc[w] \in AtNetwork
      /\ pc[w] \notin {"close", "linkFrom", "scanBase"}
  BY DEF dropNetwork, Inside, AtNetwork
<1>2. /\ iptable \in Tables /\ f \in Frames /\ f.cur \in Networks /\ f.infos \subseteq Infos
  BY <1>1, Here DEF Fits, Frames, TypeOK
<1>3. /\ Calm(iptable) /\ PlainTable(iptable) /\ BaseChain \in iptable.chains
      /\ f.item.kind = "logicalnetwork" /\ "logicalnetwork" # "networkpolicy"
  BY <1>1, Found DEF Good
<1>4. CASE Step(w, "returned", f, iptable)
  BY <1>1, <1>4, GrowsSame, CalmStep DEF Inside, AtSubnet
<1>5. ASSUME NEW info \in f.infos,
             LET g == [f EXCEPT !.infos = f.infos \ {info}, !.policy = info.policy] IN
             IF info.via = f.cur
             THEN Step(w, "scanBase", BaseScan(g), iptable)
             ELSE IF PolicyChain(info.policy) \notin iptable.chains
             THEN Step(w, "networkDrop", g, iptable)
             ELSE Step(w, "scanPolicy",
                       [g EXCEPT !.snap = iptable.rules[PolicyChain(info.policy)],
                                 !.i = 0, !.pos = 0, !.cnt = 0], iptable)
      PROVE  ChainInv'
  <2> DEFINE g == [f EXCEPT !.infos = f.infos \ {info}, !.policy = info.policy]
             snap == iptable.rules[PolicyChain(info.policy)]
             h == [g EXCEPT !.snap = snap, !.i = 0, !.pos = 0, !.cnt = 0]
  <2>1. info.policy \in Policies  BY <1>2 DEF Infos
  <2>2. g \in Frames /\ g.item = f.item /\ g.cur = f.cur /\ g.policy = info.policy
    BY <1>2, <2>1 DEF Frames
  <2>3. snap \in Seq(Rules)  BY <1>2, <2>1, ChainKinds, TableTypes
  <2>4. \/ Step(w, "scanBase", BaseScan(g), iptable) \/ Step(w, "networkDrop", g, iptable)
        \/ Step(w, "scanPolicy", h, iptable)
    BY <1>5
  <2> HIDE DEF g, snap
  <2>5. CASE Step(w, "scanBase", BaseScan(g), iptable)
    <3>1. Good("scanBase", BaseScan(g), iptable)  BY <1>2, <1>3, <2>2, BaseScanGood
    <3> QED  BY <1>1, <1>3, <2>5, <3>1, StepChain DEF Inside
  <2>6. CASE Step(w, "networkDrop", g, iptable)
    BY <1>1, <1>3, <2>2, <2>6, GrowsSame, CalmStep DEF Inside, AtSubnet
  <2>7. CASE Step(w, "scanPolicy", h, iptable)
    <3>1. /\ h.snap = snap /\ h.i = 0 /\ h.pos = 0 /\ h.item = f.item
          /\ h.policy = info.policy
      BY <2>2 DEF Frames
    <3> HIDE DEF h
    <3>2. PolicyScan(h, snap)
      <4>1. \A j \in DOMAIN snap : 0 + (j - 0) = j  BY <2>3
      <4> QED  BY <3>1, <4>1 DEF PolicyScan
    <3>3. Good("scanPolicy", h, iptable)
      BY <1>3, <3>1, <3>2 DEF Good, Calm, AtSubnet, snap
    <3> QED  BY <1>1, <1>3, <2>7, <3>3, StepChain DEF Inside
  <2> QED  BY <2>4, <2>5, <2>6, <2>7
<1> QED  BY <1>4, <1>5 DEF dropNetwork

\* A rule deleted: the listing moves on and the position stays.
LEMMA PolicyHit ==
  ASSUME NEW f \in Frames, NEW s \in Seq(Rules), PolicyScan(f, s),
         f.i \in DOMAIN f.snap, f.pos \in DOMAIN s,
         NEW g, g.i = f.i + 1, g.pos = f.pos, g.snap = f.snap
  PROVE  PolicyScan(g, WithoutNth(s, f.pos))
<1> DEFINE u == WithoutNth(s, f.pos)
<1>1. f.snap \in Seq(Rules) /\ f.i \in Nat /\ f.pos \in Nat /\ f.i >= 1 /\ f.pos >= 1
  BY DEF Frames
<1>2. /\ u \in Seq(Rules) /\ Len(u) = Len(s) - 1
      /\ \A j \in DOMAIN u : j >= f.pos => u[j] = s[j + 1]
  BY WithoutEffect
<1> HIDE DEF u
<1>3. ASSUME NEW j \in DOMAIN f.snap, j >= f.i + 1
      PROVE  f.pos + (j - (f.i + 1)) \in DOMAIN u /\ u[f.pos + (j - (f.i + 1))] = f.snap[j]
  <2> DEFINE a == f.pos + (j - (f.i + 1))
  <2>1. j \in Nat /\ j >= f.i /\ a \in Nat /\ a >= f.pos /\ a + 1 = f.pos + (j - f.i)
    <3> DEFINE i == f.i
               p == f.pos
    <3>1. i \in Nat /\ p \in Nat /\ j \in Nat /\ j >= i + 1  BY <1>1, <1>3
    <3> HIDE DEF i, p
    <3>2. j >= i  BY <3>1
    <3>3. p + (j - (i + 1)) \in Nat /\ p + (j - (i + 1)) >= p  BY <3>1
    <3>4. (p + (j - (i + 1))) + 1 = p + (j - i)  BY <3>1
    <3> QED  BY <3>1, <3>2, <3>3, <3>4 DEF i, p
  <2> HIDE DEF a
  <2>2. a + 1 \in DOMAIN s /\ s[a + 1] = f.snap[j]  BY <2>1 DEF PolicyScan
  <2>3. a \in DOMAIN u  BY <1>1, <1>2, <2>1, <2>2
  <2> QED  BY <1>2, <2>1, <2>2, <2>3 DEF a
<1>4. g.i # 0 /\ g.pos # 0  BY <1>1
<1> QED  BY <1>3, <1>4 DEF PolicyScan, u

\* Nothing deleted: both move on.
LEMMA PolicyMiss ==
  ASSUME NEW f \in Frames, NEW s, PolicyScan(f, s),
         NEW g, g.i = f.i + 1, g.pos = f.pos + 1, g.snap = f.snap
  PROVE  PolicyScan(g, s)
<1>1. f.snap \in Seq(Rules) /\ f.i \in Nat /\ f.pos \in Nat  BY DEF Frames
<1>2. \A j \in DOMAIN f.snap : j >= f.i + 1 =>
        j >= f.i /\ f.pos + (j - f.i) = (f.pos + 1) + (j - (f.i + 1))
  BY <1>1
<1>3. g.i # 0 /\ g.pos # 0  BY <1>1
<1> QED  BY <1>2, <1>3 DEF PolicyScan

\* One line of the listing of a policy chain.
LEMMA scanPolicyChainChain ==
  ASSUME IInv, ChainInv, NEW w \in Workers, scanPolicyChain(w)
  PROVE  ChainInv'
<1> DEFINE f == frame[w]
           c == PolicyChain(f.policy)
           s == iptable.rules[c]
           d == DeleteNth(iptable, c, f.pos)
           hit == IF f.i = 0 THEN f.item.args = Blank ELSE Mentions(f.snap[f.i], f.item.args)
           done == f.i > Len(f.snap) \/ f.cnt = 2
           g == [f EXCEPT !.i = f.i + 1, !.cnt = f.cnt + 1,
                          !.pos = IF d.exit = 0 THEN f.pos ELSE f.pos + 1]
           h == [f EXCEPT !.i = f.i + 1, !.pos = f.pos + 1]
<1>1. /\ pc[w] = "scanPolicy" /\ pc[w] \in Inside /\ pc[w] \in AtInfo
      /\ pc[w] \notin {"close", "linkFrom", "scanBase"}
  BY DEF scanPolicyChain, Inside, AtInfo
<1>2. /\ iptable \in Tables /\ f \in Frames /\ f.policy \in Policies /\ s \in Seq(Rules)
      /\ c \in Chains /\ c # BaseChain /\ \A n \in Networks : c # NetworkChain(n)
  BY <1>1, Here, ChainKinds, ChainsDiffer DEF Fits, TypeOK
<1>3. f.i \in Nat /\ f.pos \in Nat /\ f.snap \in Seq(Rules)  BY <1>2 DEF Frames
<1>4. /\ Calm(iptable) /\ PlainTable(iptable) /\ BaseChain \in iptable.chains
      /\ f.item.kind = "logicalnetwork" /\ PolicyScan(f, s)
  BY <1>1, Found DEF Good
<1>5. ASSUME NEW k, NEW t, Grows(iptable, t), Step(w, "scanPolicy", k, t),
             k.item = f.item, k.policy = f.policy, PolicyScan(k, t.rules[c])
      PROVE  ChainInv'
  <2>1. Calm(t) /\ PlainTable(t) /\ BaseChain \in t.chains
    BY <1>4, <1>5, GrowsCalm DEF Grows
  <2>2. Good("scanPolicy", k, t)  BY <1>4, <1>5, <2>1 DEF Good, Calm, AtSubnet
  <2> QED  BY <1>1, <1>5, <2>1, <2>2, StepChain DEF Inside
<1>6. CASE ~done /\ hit
  <2>1. Step(w, "scanPolicy", g, d.tbl)  BY <1>6 DEF scanPolicyChain
  <2>2. /\ Elsewhere(iptable, d.tbl, c)
        /\ c \in iptable.chains /\ f.pos \in DOMAIN s
             => d.exit = 0 /\ d.tbl.rules[c] = WithoutNth(s, f.pos)
        /\ ~(c \in iptable.chains /\ f.pos \in DOMAIN s) => d.exit # 0 /\ d.tbl = iptable
    BY <1>2, <1>3, DeleteEffect
  <2> HIDE DEF d
  <2>3. /\ g.i = f.i + 1 /\ g.snap = f.snap /\ g.item = f.item /\ g.policy = f.policy
        /\ g.pos = IF d.exit = 0 THEN f.pos ELSE f.pos + 1
    BY <1>2 DEF Frames
  <2> HIDE DEF g
  <2>4. Grows(iptable, d.tbl)  BY <1>2, <2>2, ElsewhereGrows
  <2>5. CASE d.exit = 0
    <3>1. f.pos \in DOMAIN s /\ d.tbl.rules[c] = WithoutNth(s, f.pos)  BY <2>2, <2>5
    <3>2. f.i \in DOMAIN f.snap
      <4>1. f.pos # 0  BY <1>2, <3>1
      <4>2. f.i # 0  BY <1>4, <4>1 DEF PolicyScan
      <4> QED  BY <1>3, <1>6, <4>2
    <3>3. PolicyScan(g, d.tbl.rules[c])
      BY <1>2, <1>4, <2>3, <2>5, <3>1, <3>2, PolicyHit
    <3> QED  BY <1>5, <2>1, <2>3, <2>4, <3>3
  <2>6. CASE d.exit # 0
    <3>1. d.tbl.rules[c] = s  BY <2>2, <2>6
    <3>2. PolicyScan(g, d.tbl.rules[c])  BY <1>2, <1>4, <2>3, <2>6, <3>1, PolicyMiss
    <3> QED  BY <1>5, <2>1, <2>3, <2>4, <3>2
  <2> QED  BY <2>5, <2>6
<1>7. CASE ~done /\ ~hit
  <2>1. Step(w, "scanPolicy", h, iptable)  BY <1>7 DEF scanPolicyChain
  <2>2. /\ h.i = f.i + 1 /\ h.snap = f.snap /\ h.item = f.item /\ h.policy = f.policy
        /\ h.pos = f.pos + 1
    BY <1>2 DEF Frames
  <2> HIDE DEF h
  <2>3. PolicyScan(h, s)  BY <1>2, <1>4, <2>2, PolicyMiss
  <2> QED  BY <1>5, <2>1, <2>2, <2>3, GrowsSame
<1>8. CASE done
  <2>1. Step(w, "networkDrop", f, iptable)  BY <1>8 DEF scanPolicyChain
  <2> QED  BY <1>1, <1>4, <2>1, GrowsSame, CalmStep DEF Inside, AtSubnet
<1> QED  BY <1>6, <1>7, <1>8
-----------------------------------------------------------------------------
\* Nothing is linked and nobody is running at the start.
LEMMA InitChain == Init => ChainInv
<1> SUFFICES ASSUME Init PROVE ChainInv  OBVIOUS
<1>1. \A n \in Networks : ln[n] = Absent  BY DEF Init
<1>2. up = FALSE /\ \A w \in Workers : pc[w] = "idle"  BY DEF Init
<1>3. PlainTable(iptable)
  <2>1. \A n \in Networks : iptable.rules[NetworkChain(n)] = << >>
    BY ChainKinds DEF Init, FreshTable
  <2> QED  BY <2>1 DEF PlainTable, OnlyJumps
<1> QED  BY <1>1, <1>2, <1>3 DEF ChainInv

\* A step of the cluster, an informer or a worker outside syncHandler.
LEMMA QuietStep ==
  ASSUME IInv, ChainInv, up' = up, iptable' = iptable,
         \A n \in Networks : ln'[n] \in NetworkValues[n] \cup {Absent},
         \A v \in Workers : \/ pc'[v] = pc[v] /\ frame'[v] = frame[v]
                            \/ up = TRUE /\ pc[v] \notin Inside /\ pc'[v] \notin Inside
  PROVE  ChainInv'
<1>1. up = FALSE => \A v \in Workers : pc'[v] = "idle"
  <2> SUFFICES ASSUME up = FALSE, NEW v \in Workers PROVE pc'[v] = "idle"  OBVIOUS
  <2>1. pc[v] = "idle"  BY DEF ChainInv
  <2> QED  BY <2>1
<1>2. \A v \in Workers : pc'[v] \in Inside => pc'[v] = pc[v] /\ frame'[v] = frame[v]
  OBVIOUS
<1>3. \A v \in Workers : pc[v] \in Inside => pc'[v] \in Inside  OBVIOUS
<1>4. ASSUME up = TRUE
      PROVE  \A v \in Workers : pc'[v] \in Inside => Good(pc'[v], frame'[v], iptable')
  <2> SUFFICES ASSUME NEW v \in Workers, pc'[v] \in Inside
               PROVE  Good(pc'[v], frame'[v], iptable)
    OBVIOUS
  <2>1. pc'[v] = pc[v] /\ frame'[v] = frame[v]  BY <1>2
  <2>2. Good(pc[v], frame[v], iptable)  BY <1>4, <2>1 DEF ChainInv
  <2> QED  BY <2>1, <2>2
<1>5. up = TRUE /\ (\A v \in Workers : pc'[v] \notin Inside) => Calm(iptable)
  BY <1>3 DEF ChainInv
<1>6. PlainTable(iptable) /\ (up = TRUE => BaseChain \in iptable.chains)  BY DEF ChainInv
<1> QED  BY <1>1, <1>4, <1>5, <1>6 DEF ChainInv

\* Objects get the values they may have.
LEMMA ClusterChain ==
  ASSUME IInv, ChainInv, Cluster
  PROVE  ChainInv'
<1>1. /\ up' = up /\ iptable' = iptable /\ pc' = pc /\ frame' = frame
  BY DEF Cluster, CreatePolicy, UpdatePolicy, DeletePolicy, CreateNetwork, UpdateNetwork,
         DeleteNetwork, Change
<1>2. \A n \in Networks : ln[n] \in NetworkValues[n] \cup {Absent}  BY DEF ChainInv
<1>3. \A n \in Networks : ln'[n] \in NetworkValues[n] \cup {Absent}
  <2>1. ln \in [Networks -> Subnets \cup {Blank, Absent}]  BY DEF IInv, TypeOK
  <2>2. \/ ln' = ln
        \/ \E m \in Networks : \E s \in NetworkValues[m] \cup {Absent} :
             ln' = [ln EXCEPT ![m] = s]
    BY DEF Cluster, CreatePolicy, UpdatePolicy, DeletePolicy, CreateNetwork, UpdateNetwork,
           DeleteNetwork
  <2> QED  BY <1>2, <2>1, <2>2
<1> QED  BY <1>1, <1>3, QuietStep

\* Run flushes the base chain, whatever the end of the process left in it.
LEMMA RunChain ==
  ASSUME IInv, ChainInv, Run
  PROVE  ChainInv'
<1> DEFINE u == ClearChain(iptable, BaseChain)
           v == Insert(u, ForwardChain, Jump(BaseChain)).tbl
<1>1. iptable \in Tables /\ up = FALSE /\ PlainTable(iptable)
  BY DEF IInv, TypeOK, Run, ChainInv
<1>2. /\ u.rules[BaseChain] = << >> /\ BaseChain \in u.chains
      /\ \A n \in Networks : u.rules[NetworkChain(n)] = iptable.rules[NetworkChain(n)]
  BY <1>1, ClearEffect, ChainKinds, ChainsDiffer DEF Elsewhere
<1>3. /\ \A c \in Chains : c # ForwardChain => v.rules[c] = u.rules[c]
      /\ v.chains = u.chains
  <2>1. u \in Tables  BY <1>1, ChainKinds, TableTypes DEF ClearChain, Tables
  <2>2. ForwardChain \in Chains  BY ChainKinds
  <2> HIDE DEF u
  <2> QED  BY <2>1, <2>2 DEF Insert, Result, Tables
<1>4. iptable' \in {u, v}  BY DEF Run, CreateBaseChain
<1> HIDE DEF u, v
<1>5. /\ BaseChain # ForwardChain /\ BaseChain \in Chains
      /\ \A n \in Networks : NetworkChain(n) # ForwardChain /\ NetworkChain(n) \in Chains
  BY ChainKinds DEF BaseChain, ForwardChain, NetworkChain, Chain
<1>6. /\ iptable'.rules[BaseChain] = << >> /\ BaseChain \in iptable'.chains
      /\ \A n \in Networks : iptable'.rules[NetworkChain(n)] = iptable.rules[NetworkChain(n)]
  BY <1>2, <1>3, <1>4, <1>5
<1>7. PlainTable(iptable')  BY <1>1, <1>6 DEF PlainTable
<1>8. Calm(iptable')
  <2>1. Len(<< >>) = 0 /\ DOMAIN << >> = {} /\ 0 \in 0..0 /\ 0 = 2 * 0  OBVIOUS
  <2>2. Paired(<< >>)  BY <2>1 DEF Paired, Pairs
  <2>3. \A c : Untargeted(<< >>, c)  BY <2>1 DEF Untargeted
  <2> QED  BY <1>6, <2>2, <2>3 DEF Calm
<1>9. up' = TRUE /\ ln' = ln /\ \A w \in Workers : pc'[w] = "idle"
  BY <1>1 DEF Run, clusterVars, ChainInv
<1>10. "idle" \notin Inside  BY DEF Inside, Handlers
<1> QED  BY <1>6, <1>7, <1>8, <1>9, <1>10 DEF ChainInv

\* The end of the process leaves the table as it is.
LEMMA StopChain ==
  ASSUME IInv, ChainInv, Stop
  PROVE  ChainInv'
<1>1. up' = FALSE /\ ln' = ln /\ iptable' = iptable /\ \A w \in Workers : pc'[w] = "idle"
  BY DEF Stop
<1> QED  BY <1>1 DEF ChainInv

\* Taking a key and giving it back happen outside syncHandler.
LEMMA GetDoneChain ==
  ASSUME IInv, ChainInv, NEW w \in Workers, Get(w) \/ Done(w)
  PROVE  ChainInv'
<1>1. /\ up' = up /\ iptable' = iptable /\ ln' = ln
      /\ pc[w] \in {"idle", "unlocked"} /\ (pc[w] = "idle" => up)
  BY DEF Get, Done, clusterVars
<1>2. up = TRUE  BY <1>1 DEF IInv, TypeOK, ChainInv
<1>3. /\ pc'[w] \in {"got", "idle"}
      /\ \A v \in Workers : v # w => pc'[v] = pc[v] /\ frame'[v] = frame[v]
  <2>1. /\ \E l \in {"got", "idle"} : pc' = [pc EXCEPT ![w] = l]
        /\ \E f : frame' = [frame EXCEPT ![w] = f]
    BY DEF Get, Done
  <2> QED  BY <2>1 DEF IInv, TypeOK
<1>4. pc[w] \notin Inside /\ pc'[w] \notin Inside  BY <1>1, <1>3 DEF Inside, Handlers
<1>5. \A n \in Networks : ln'[n] \in NetworkValues[n] \cup {Absent}  BY <1>1 DEF ChainInv
<1> QED  BY <1>1, <1>2, <1>3, <1>4, <1>5, QuietStep

\* Whoever gets the mutex finds nobody inside.
LEMMA LockChain ==
  ASSUME IInv, ChainInv, NEW w \in Workers, Lock(w)
  PROVE  ChainInv'
<1> DEFINE l == HandlerOf(frame[w].item)
<1>1. /\ up' = up /\ iptable' = iptable /\ ln' = ln /\ frame' = frame
      /\ pc[w] = "got" /\ mutex = NoWorker /\ pc' = [pc EXCEPT ![w] = l]
  BY DEF Lock, clusterVars
<1>2. up = TRUE  BY <1>1 DEF IInv, TypeOK, ChainInv
<1>3. \A v \in Workers : pc[v] \notin Inside
  BY <1>1, ConstantsAssumption DEF IInv, Holds
<1>4. Calm(iptable) /\ PlainTable(iptable) /\ BaseChain \in iptable.chains
  BY <1>2, <1>3 DEF ChainInv
<1>5. frame[w].item \in Items  BY <1>1 DEF IInv, Fits
<1>6. l \in Handlers /\ (l = "networkDelete" => frame[w].item.kind = "logicalnetwork")
  BY <1>5, ItemKinds DEF HandlerOf, Handlers, Kinds, Verbs, Items
<1> HIDE DEF l
<1>7. Good(l, frame[w], iptable)
  BY <1>4, <1>6 DEF Good, Calm, Handlers, AtSubnet
<1>8. pc'[w] = l /\ \A v \in Workers : v # w => pc'[v] = pc[v]
  BY <1>1 DEF IInv, TypeOK
<1>9. pc'[w] \in Inside  BY <1>6, <1>8 DEF Inside
<1>10. \A v \in Workers : pc'[v] \in Inside => Good(pc'[v], frame'[v], iptable')
  BY <1>1, <1>3, <1>7, <1>8
<1> QED  BY <1>1, <1>2, <1>4, <1>9, <1>10 DEF ChainInv

\* Whoever leaves has left the base chain in order.
LEMMA UnlockChain ==
  ASSUME IInv, ChainInv, NEW w \in Workers, Unlock(w)
  PROVE  ChainInv'
<1>1. /\ up' = up /\ iptable' = iptable /\ ln' = ln /\ frame' = frame
      /\ pc[w] = "returned" /\ pc' = [pc EXCEPT ![w] = "unlocked"]
  BY DEF Unlock, clusterVars
<1>2. pc[w] \in Inside /\ pc[w] \notin {"close", "linkFrom", "scanBase"}
  BY <1>1 DEF Inside
<1>3. up = TRUE /\ Calm(iptable) /\ PlainTable(iptable) /\ BaseChain \in iptable.chains
  BY <1>2, Found
<1>4. pc'[w] = "unlocked" /\ \A v \in Workers : v # w => pc'[v] = pc[v]
  BY <1>1 DEF IInv, TypeOK
<1>5. "unlocked" \notin Inside  BY DEF Inside, Handlers
<1>6. \A v \in Workers : pc'[v] \notin Inside  BY <1>2, <1>4, <1>5, Alone
<1> QED  BY <1>1, <1>3, <1>6 DEF ChainInv

\* Every step preserves the invariant.
LEMMA NextChain == IInv /\ ChainInv /\ [Next]_vars => ChainInv'
<1> SUFFICES ASSUME IInv, ChainInv, [Next]_vars PROVE ChainInv'  OBVIOUS
<1>1. \A n \in Networks : ln[n] \in NetworkValues[n] \cup {Absent}  BY DEF ChainInv
<1>2. CASE Cluster  BY <1>2, ClusterChain
<1>3. CASE Run  BY <1>3, RunChain
<1>4. CASE Stop  BY <1>4, StopChain
<1>5. ASSUME NEW k \in Kinds, Notify(k) PROVE ChainInv'
  <2>1. up' = up /\ iptable' = iptable /\ ln' = ln /\ pc' = pc /\ frame' = frame
    BY <1>5 DEF Notify, clusterVars
  <2> QED  BY <1>1, <2>1, QuietStep
<1>6. ASSUME NEW w \in Workers, Worker(w) PROVE ChainInv'
  <2>1. CASE Get(w) \/ Done(w)  BY <2>1, GetDoneChain
  <2>2. CASE Lock(w)  BY <2>2, LockChain
  <2>3. CASE Unlock(w)  BY <2>3, UnlockChain
  <2>4. CASE Handler(w)
    BY <2>4, PolicyHandlersChain, NetworkHandlersChain,
       handleLogicalNetworkAddPoliciesChain, closeNetworkChain, linkNetworkChain,
       unlinkPolicyChain, scanNetworkChainChain, scanBaseChainChain, dropNetworkChain,
       scanPolicyChainChain
    DEF Handler
  <2> QED  BY <1>6, <2>1, <2>2, <2>3, <2>4 DEF Worker
<1>7. CASE UNCHANGED vars
  <2>1. up' = up /\ iptable' = iptable /\ ln' = ln /\ pc' = pc /\ frame' = frame
    BY <1>7 DEF vars
  <2> QED  BY <1>1, <2>1, QuietStep
<1> QED  BY <1>2, <1>3, <1>4, <1>5, <1>6, <1>7 DEF Next

\* The listings, the pairs of links and the closed chains hold throughout.
THEOREM ChainInvariance == Spec => [](IInv /\ ChainInv)
<1>1. Init => IInv /\ ChainInv  BY InitInv, InitChain
<1>2. IInv /\ ChainInv /\ [Next]_vars => (IInv /\ ChainInv)'  BY NextInv, NextChain
<1> QED  BY <1>1, <1>2, PTL DEF Spec

(***************************************************************************)
(* Deleting by the number of a listing is safe: whatever the chains held,   *)
(* and however often the process was ended in the middle, the rule with    *)
(* that number is still the one the listing showed (DeleteNetworkChainRule,*)
(* DeleteNetworkChain, handleLogicalNetworkDelete).                        *)
(***************************************************************************)
THEOREM DeletesAreExact == Spec => []NumberedDeletesAreExact
<1>1. IInv /\ ChainInv => NumberedDeletesAreExact
  <2> SUFFICES ASSUME IInv, ChainInv, NEW w \in Workers, frame[w].i \in DOMAIN frame[w].snap
               PROVE
      LET f == frame[w] IN
      /\ pc[w] = "scanNetwork" /\ f.snap[f.i].target = PolicyChain(f.item.name)
           => NthIs(NetworkChain(f.cur), f.i, f.snap[f.i])
      /\ pc[w] = "scanBase" /\ f.snap[f.i].target = NetworkChain(f.cur) /\ f.cnt < 2
           => NthIs(BaseChain, f.pos, f.snap[f.i])
      /\ pc[w] = "scanPolicy" /\ Mentions(f.snap[f.i], f.item.args) /\ f.cnt < 2
           => NthIs(PolicyChain(f.policy), f.pos, f.snap[f.i])
    BY DEF NumberedDeletesAreExact
  <2> DEFINE f == frame[w]
  <2>1. f \in Frames /\ iptable \in Tables  BY DEF IInv, TypeOK
  <2>2. f.snap \in Seq(Rules) /\ f.i \in Nat /\ f.pos \in Nat /\ f.i <= Len(f.snap)
    BY <2>1 DEF Frames
  <2>3. ASSUME pc[w] = "scanNetwork", f.snap[f.i].target = PolicyChain(f.item.name)
        PROVE  NthIs(NetworkChain(f.cur), f.i, f.snap[f.i])
    <3>1. pc[w] \in Inside  BY <2>3 DEF Inside
    <3>2. NetworkScan(f, iptable.rules[NetworkChain(f.cur)])  BY <2>3, <3>1, Found DEF Good
    <3>3. f.i >= f.i  BY <2>2
    <3>4. iptable.rules[NetworkChain(f.cur)] = f.snap  BY <2>3, <3>2, <3>3 DEF NetworkScan
    <3> QED  BY <3>4 DEF NthIs
  <2>4. ASSUME pc[w] = "scanBase", f.snap[f.i].target = NetworkChain(f.cur), f.cnt < 2
        PROVE  NthIs(BaseChain, f.pos, f.snap[f.i])
    <3>1. pc[w] \in Inside /\ pc[w] \in AtNetwork  BY <2>4 DEF Inside, AtNetwork
    <3>2. BaseScanned(f, iptable.rules[BaseChain]) /\ BaseChain \in iptable.chains
      BY <2>4, <3>1, Found DEF Good
    <3>3. f.cur \in Networks  BY <3>1 DEF IInv, Fits
    <3>4. f.cnt # 2  BY <2>4
    <3> QED  BY <2>1, <2>2, <2>4, <3>2, <3>3, <3>4, BaseLine DEF NthIs
  <2>5. ASSUME pc[w] = "scanPolicy"
        PROVE  NthIs(PolicyChain(f.policy), f.pos, f.snap[f.i])
    <3>1. pc[w] \in Inside  BY <2>5 DEF Inside
    <3>2. PolicyScan(f, iptable.rules[PolicyChain(f.policy)])  BY <2>5, <3>1, Found DEF Good
    <3>3. f.i >= f.i /\ f.pos + (f.i - f.i) = f.pos  BY <2>2
    <3> QED  BY <3>2, <3>3 DEF PolicyScan, NthIs
  <2> QED  BY <2>3, <2>4, <2>5
<1> QED  BY <1>1, ChainInvariance, PTL

\* A network chain that another policy still uses survives the removal of one
\* (the count of DeleteNetworkChainRule).
THEOREM OthersKept == Spec => []PolicyRemovalKeepsOthers
<1>1. IInv /\ ChainInv => PolicyRemovalKeepsOthers
  <2> SUFFICES ASSUME IInv, ChainInv, NEW w \in Workers, pc[w] = "scanBase", Nested(w),
                      NEW r \in RuleSet(iptable, NetworkChain(frame[w].cur))
               PROVE  r.target \notin PolicyChains
    BY DEF PolicyRemovalKeepsOthers
  <2>1. pc[w] \in Inside  BY DEF Inside
  <2> DEFINE own == iptable.rules[NetworkChain(frame[w].cur)]
  <2>2. \A k \in DOMAIN own : own[k].target \notin PolicyChains
    BY <2>1, Found DEF Good, Nested
  <2> QED  BY <2>2 DEF RuleSet
<1> QED  BY <1>1, ChainInvariance, PTL

\* Membership, by position and by set.
LEMMA InRuleSet == \A t, c, r : In(t.rules[c], r) <=> r \in RuleSet(t, c)
BY DEF In, RuleSet

(***************************************************************************)
(* Both directions of a network are linked, or neither, whenever no worker *)
(* is between the two commands of AddNetworkChain or within                *)
(* DeleteNetworkChain: also after refused commands, and after a restart.    *)
(***************************************************************************)
THEOREM LinksPaired == Spec => []LinksArePaired
<1>1. IInv /\ ChainInv => LinksArePaired
  <2> SUFFICES ASSUME IInv, ChainInv, up,
                      \A w \in Workers : pc[w] \notin {"linkFrom", "scanBase"},
                      NEW n \in Networks, NEW x \in Subnets
               PROVE  Link(n, "-d", x) \in RuleSet(iptable, BaseChain)
                        <=> Link(n, "-s", x) \in RuleSet(iptable, BaseChain)
    BY DEF LinksArePaired
  <2> DEFINE s == iptable.rules[BaseChain]
  <2>1. up = TRUE /\ s \in Seq(Rules)  BY TableTypes, ChainKinds DEF IInv, TypeOK
  <2>2. Paired(s)
    <3>1. CASE \E w \in Workers : pc[w] \in Inside  BY <3>1, Found DEF Good
    <3>2. CASE \A w \in Workers : pc[w] \notin Inside
      BY <2>1, <3>2 DEF ChainInv, Calm
    <3> QED  BY <3>1, <3>2
  <2>3. In(s, Link(n, "-d", x)) <=> In(s, Link(n, "-s", x))  BY <2>1, <2>2, Partner
  <2> QED  BY <2>3, InRuleSet
<1> QED  BY <1>1, ChainInvariance, PTL

(***************************************************************************)
(* Where no network is ever given a second subnet, traffic reaches no      *)
(* network chain without its final REJECT but while AddNetworkChain makes  *)
(* that very chain anew.  With a second subnet it can: links to the first  *)
(* one outlive the chain's removal, two base rules at most going with it.   *)
(***************************************************************************)
THEOREM LinkedStaysClosed == ASSUME FixedSubnets PROVE Spec => []LinkedIsClosed
<1>1. IInv /\ ChainInv => LinkedIsClosed
  <2> SUFFICES ASSUME IInv, ChainInv, up, NEW n \in LinkedNetworks(iptable)
               PROVE  \/ Jump(Reject) \in RuleSet(iptable, NetworkChain(n))
                      \/ \E w \in Workers : pc[w] = "close" /\ frame[w].cur = n
    BY DEF LinkedIsClosed
  <2>1. up = TRUE /\ n \in Networks  BY DEF IInv, TypeOK, LinkedNetworks
  <2>2. ~Untargeted(iptable.rules[BaseChain], NetworkChain(n))
    BY DEF LinkedNetworks, RuleSet, Untargeted
  <2>3. ClosedIn(iptable, n) \/ \E w \in Workers : pc[w] = "close" /\ frame[w].cur = n
    <3>1. ASSUME NEW w \in Workers, pc[w] \in Inside
          PROVE  ClosedIn(iptable, n) \/ (pc[w] = "close" /\ frame[w].cur = n)
      BY FixedSubnets, <2>1, <2>2, <3>1, Found DEF Good
    <3>2. CASE \A w \in Workers : pc[w] \notin Inside
      BY <2>1, <2>2, <3>2 DEF ChainInv, Calm
    <3> QED  BY <3>1, <3>2
  <2> QED  BY <2>3, InRuleSet DEF ClosedIn
<1> QED  BY <1>1, ChainInvariance, PTL
=============================================================================
