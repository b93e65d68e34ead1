---------------------------- MODULE SettledProofs ----------------------------
(***************************************************************************)
(* The keys that are yet to be handled, the rules that each chain holds,   *)
(* and what follows once no key is left: nothing remains of policies and   *)
(* networks that are gone, where policies are not updated and the          *)
(* controller is not restarted.                                            *)
(***************************************************************************)
EXTENDS ChainProofs

(***************************************************************************)
(* The keys that are yet to be handled: announced, waiting in the queue,   *)
(* or with a worker that has not begun.                                    *)
(***************************************************************************)
Pending ==
  {x \in Items :
     \/ x \in Held(notes[x.kind])
     \/ x \in q.dirty
     \/ \E w \in Workers : frame[w].item = x /\ pc[w] \in {"got", HandlerOf(x)}}

\* Labels of the handlers that set things up, and of those that take them down.
Adding == {"populate", "peers", "networkAdd", "networkList", "networkPolicies", "close",
           "linkTo", "linkFrom", "impose", "networkPeers"}
Removing == {"unlink", "scanNetwork", "scanBase", "networkDrop", "scanPolicy"}

\* Labels at which policyInfo has been listed, and a chain is being made.
AtInfos == AtSubnet \ {"networkList"}
AtChain == {"close", "linkTo", "linkFrom", "impose"}

\* What a key asks for is what its handler does, and happens in this cluster.
Suits(l, f) ==
  /\ l = "policyAdd" => f.item.action = "ADD"
  /\ l \in {"policyDelete", "networkDelete"} => f.item.action = "DELETE"
  /\ l \in {"policyUpdate", "networkUpdate"} => f.item.action = "UPDATE"
  /\ l \in Adding => f.item.action \in {"ADD", "UPDATE"}
  /\ l \in Removing => f.item.action \in {"DELETE", "UPDATE"}
  /\ l = "impose" => f.lnChain \in {NetworkChain(f.cur), NoChain}

Happens(x) ==
  x.action \in {"ADD"} \cup IF x.kind = "networkpolicy" THEN PolicyVerbs ELSE NetworkVerbs

\* Rule r is of the kind that chain c holds.
Belongs(c, r) ==
  /\ c = ForwardChain => r.target = BaseChain
  /\ c = BaseChain => r.target \in NetworkChains
  /\ c \in NetworkChains => r.target \in PolicyChains \cup {Reject}
  /\ c \in PolicyChains => r.target = Accept

\* Every chain has rules of its kind only, and none when it does not exist.
Orderly(t) ==
  /\ ForwardChain \in t.chains /\ NoChain \notin t.chains
  /\ \A c \in Chains : /\ \A r \in RuleSet(t, c) : Belongs(c, r)
                       /\ c \notin t.chains => t.rules[c] = << >>

(***************************************************************************)
(* Keys and chains in general: a key in processing is with a worker, and   *)
(* keys are of their kind.                                                 *)
(***************************************************************************)
GInv ==
  /\ \A p \in Policies : np[p] \in PolicyValues[p] \cup {Absent}
  /\ \A x \in q.processing : \E w \in Workers : pc[w] # "idle" /\ frame[w].item = x
  /\ \A k \in Kinds : \A x \in Held(notes[k]) : x.kind = k /\ Happens(x)
  /\ \A x \in q.dirty : Happens(x)
  /\ \A w \in Workers : pc[w] # "idle" =>
       Happens(frame[w].item) /\ Suits(pc[w], frame[w])
  /\ up = FALSE => /\ \A k \in Kinds : notes[k] = << >>
                   /\ q = EmptyQueue
  /\ Orderly(iptable)
  /\ up = TRUE => In(iptable.rules[ForwardChain], Jump(BaseChain))
-----------------------------------------------------------------------------
(***************************************************************************)
(* What the commands do to the table, in more detail.                      *)
(***************************************************************************)
LEMMA ChainsApart ==
  /\ \A p \in Policies : PolicyChain(p) \notin {ForwardChain, BaseChain, NoChain, Accept, Reject}
  /\ \A n \in Networks : NetworkChain(n) \notin {ForwardChain, BaseChain, NoChain, Accept, Reject}
  /\ \A p \in Policies, n \in Networks : PolicyChain(p) # NetworkChain(n)
  /\ \A p, r \in Policies : PolicyChain(p) = PolicyChain(r) => p = r
  /\ \A m, n \in Networks : NetworkChain(m) = NetworkChain(n) => m = n
  /\ BaseChain # ForwardChain /\ NoChain \notin {BaseChain, ForwardChain} /\ Accept # Reject
BY DEF PolicyChain, NetworkChain, ForwardChain, BaseChain, NoChain, Accept, Reject, Chain

\* Flushing keeps the type.
LEMMA ClearChainType ==
  ASSUME NEW t \in Tables, NEW c \in Chains
  PROVE  ClearChain(t, c) \in Tables /\ ClearChain(t, c).chains = t.chains \cup {c}
BY DEF ClearChain, Tables

\* -C and -A, as sets of rules.
LEMMA AppendMore ==
  ASSUME NEW t \in Tables, NEW c \in Chains, NEW r \in Rules
  PROVE  LET a == AppendUnique(t, c, r) IN
         /\ a.tbl.chains = t.chains /\ a.exit = Refusal(t, c, r)
         /\ \A x : In(t.rules[c], x) => In(a.tbl.rules[c], x)
         /\ \A x : In(a.tbl.rules[c], x) => In(t.rules[c], x) \/ x = r
         /\ a.exit = 0 => In(a.tbl.rules[c], r)
         /\ a.exit # 0 => a.tbl = t
<1> DEFINE a == AppendUnique(t, c, r)
<1>1. t.rules[c] \in Seq(Rules)  BY TableTypes
<1>2. \A x : In(Append(t.rules[c], r), x) <=> In(t.rules[c], x) \/ x = r  BY <1>1, AppendIn
<1>3. /\ a.tbl.chains = t.chains /\ a.exit = Refusal(t, c, r)
      /\ Refusal(t, c, r) = 0 /\ ~In(t.rules[c], r) => a.tbl.rules[c] = Append(t.rules[c], r)
      /\ ~(Refusal(t, c, r) = 0 /\ ~In(t.rules[c], r)) => a.tbl = t
  BY AppendEffect
<1> HIDE DEF a
<1> QED  BY <1>2, <1>3 DEF a

\* -X after -F: the chain stays only if another one refers to it.
LEMMA DropChains ==
  ASSUME NEW t \in Tables, NEW c \in Chains
  PROVE  LET u == DeleteIptableChain(t, c).tbl IN
         /\ u.chains \subseteq t.chains \cup {c}
         /\ c \in u.chains => \E d \in t.chains : d # c /\ ~Untargeted(t.rules[d], c)
         /\ DeleteIptableChain(t, c).exit = 0 => c \notin u.chains
<1> DEFINE v == ClearChain(t, c)
           u == DeleteIptableChain(t, c).tbl
<1>1. /\ v.chains = t.chains \cup {c} /\ v.rules[c] = << >>
      /\ \A d \in Chains : d # c => v.rules[d] = t.rules[d]
      /\ t.chains \subseteq Chains
  BY DEF ClearChain, Tables
<1> HIDE DEF v
<1>2. CASE Referenced(v, c)
  <2>1. u = v /\ DeleteIptableChain(t, c).exit = 1
    BY <1>2 DEF DeleteIptableChain, DeleteChain, Result, v
  <2>2. PICK d \in v.chains : \E r \in RuleSet(v, d) : r.target = c  BY <1>2 DEF Referenced
  <2>3. d # c  BY <1>1, <2>2 DEF RuleSet
  <2>4. d \in t.chains /\ ~Untargeted(t.rules[d], c)
    BY <1>1, <2>2, <2>3 DEF RuleSet, Untargeted
  <2> QED  BY <1>1, <2>1, <2>3, <2>4
<1>3. CASE ~Referenced(v, c)
  <2>1. u = [v EXCEPT !.chains = v.chains \ {c}]
    BY <1>1, <1>3 DEF DeleteIptableChain, DeleteChain, Result, v
  <2>2. v \in [chains : SUBSET Chains, rules : [Chains -> Seq(Rules)]]
    BY ClearChainType DEF v, Tables
  <2>3. u.chains = v.chains \ {c}  BY <2>1, <2>2
  <2> QED  BY <1>1, <2>3
<1> QED  BY <1>2, <1>3

\* A rule put first.
LEMMA PrependIn ==
  ASSUME NEW s \in Seq(Rules), NEW r \in Rules
  PROVE  \A x : In(<<r>> \o s, x) <=> In(s, x) \/ x = r
<1> DEFINE u == <<r>> \o s
<1>1. /\ DOMAIN u = 1..(Len(s) + 1) /\ u[1] = r /\ DOMAIN s = 1..Len(s) /\ Len(s) \in Nat
      /\ \A k \in 1..Len(s) : u[k + 1] = s[k]
  OBVIOUS
<1> HIDE DEF u
<1>2. \A x : In(s, x) \/ x = r => In(u, x)
  <2>1. \A k \in DOMAIN s : k + 1 \in DOMAIN u  BY <1>1
  <2>2. 1 \in DOMAIN u  BY <1>1
  <2> QED  BY <1>1, <2>1, <2>2 DEF In
<1>3. ASSUME NEW k \in DOMAIN u PROVE In(s, u[k]) \/ u[k] = r
  <2>1. k = 1 \/ (k - 1 \in 1..Len(s) /\ k = (k - 1) + 1)  BY <1>1
  <2> QED  BY <1>1, <2>1 DEF In
<1> QED  BY <1>2, <1>3 DEF In, u

\* -I after a check.
LEMMA InsertRuleMore ==
  ASSUME NEW t \in Tables, NEW c \in Chains, NEW r \in Rules
  PROVE  /\ InsertRule(t, c, r).exit = 0 <=> Refusal(t, c, r) # 2
         /\ c \in t.chains /\ Refusal(t, c, r) # 2 => In(InsertRule(t, c, r).tbl.rules[c], r)
         /\ c \notin t.chains => InsertRule(t, c, r).tbl = t
<1> DEFINE s == t.rules[c]
           u == <<r>> \o s
<1>1. s \in Seq(Rules)  BY TableTypes
<1>2. u[1] = r /\ 1 \in DOMAIN u  BY <1>1
<1>3. In(u, r)  BY <1>2 DEF In
<1> HIDE DEF u
<1>4. Refusal(t, c, r) = 0 => Insert(t, c, r).tbl.rules[c] = u
  BY DEF Insert, Result, Tables, u
<1>5. Refusal(t, c, r) \in 0..2 /\ (c \in t.chains => Refusal(t, c, r) # 1)
      /\ (c \notin t.chains => Refusal(t, c, r) # 0)
  BY DEF Refusal
<1>6. In(s, r) <=> r \in RuleSet(t, c)  BY DEF In, RuleSet
<1>7. Refusal(t, c, r) # 0 => Insert(t, c, r).tbl = t  BY DEF Insert, Result
<1> QED  BY <1>3, <1>4, <1>5, <1>6, <1>7 DEF InsertRule, Result

\* insertPeerRule.
LEMMA PeerMore ==
  ASSUME NEW t, Sound(t), NEW p \in Policies, NEW s \in Subnets \cup {Blank}
  PROVE  LET c == PolicyChain(p)
             u == insertPeerRule(t, p, s)
         IN  /\ u.chains = t.chains
             /\ \A x : In(t.rules[c], x) => In(u.rules[c], x)
             /\ \A x : In(u.rules[c], x) =>
                  In(t.rules[c], x) \/ \E d \in {"-s", "-d"} : x = Rule(d, s, Accept)
             /\ c \in t.chains /\ s # Blank =>
                  \A d \in {"-s", "-d"} : In(u.rules[c], Rule(d, s, Accept))
             /\ c \notin t.chains => u = t
<1> DEFINE c == PolicyChain(p)
           x == Rule("-s", s, Accept)
           y == Rule("-d", s, Accept)
           from == AppendUnique(t, c, x)
           to == AppendUnique(from.tbl, c, y)
<1>1. c \in Chains /\ c \notin NetworkChains  BY ChainKinds
<1>2. x \in Rules /\ y \in Rules  BY ChainKinds, RuleTypes
<1>3. Sound(from.tbl)  BY <1>1, <1>2, AppendUniqueSound
<1>4. /\ from.tbl.chains = t.chains
      /\ from.exit = Refusal(t, c, x)
      /\ \A z : In(t.rules[c], z) => In(from.tbl.rules[c], z)
      /\ \A z : In(from.tbl.rules[c], z) => In(t.rules[c], z) \/ z = x
      /\ from.exit = 0 => In(from.tbl.rules[c], x)
      /\ from.exit # 0 => from.tbl = t
  BY <1>1, <1>2, AppendMore DEF Sound
<1>5. /\ to.tbl.chains = from.tbl.chains
      /\ to.exit = Refusal(from.tbl, c, y)
      /\ \A z : In(from.tbl.rules[c], z) => In(to.tbl.rules[c], z)
      /\ \A z : In(to.tbl.rules[c], z) => In(from.tbl.rules[c], z) \/ z = y
      /\ to.exit = 0 => In(to.tbl.rules[c], y)
  <2> DEFINE u == from.tbl
  <2>1. u \in Tables  BY <1>3 DEF Sound
  <2>2. c \in Chains /\ y \in Rules  BY <1>1, <1>2
  <2>3. to = AppendUnique(u, c, y)  OBVIOUS
  <2> HIDE DEF u, c, y, to
  <2>4. /\ to.tbl.chains = u.chains
        /\ to.exit = Refusal(u, c, y)
        /\ \A z : In(u.rules[c], z) => In(to.tbl.rules[c], z)
        /\ \A z : In(to.tbl.rules[c], z) => In(u.rules[c], z) \/ z = y
        /\ to.exit = 0 => In(to.tbl.rules[c], y)
    BY <2>1, <2>2, <2>3, AppendMore
  <2> QED  BY <2>4 DEF u
<1>6. insertPeerRule(t, p, s) = IF from.exit = 0 THEN to.tbl ELSE from.tbl
  BY DEF insertPeerRule
<1>7. /\ c \in t.chains /\ s # Blank => Refusal(t, c, x) = 0 /\ Refusal(from.tbl, c, y) = 0
      /\ c \notin t.chains => Refusal(t, c, x) # 0
  BY <1>4 DEF Refusal, Rule
<1> HIDE DEF from, to, c, x, y
<1>8. \A d \in {"-s", "-d"} : Rule(d, s, Accept) \in {x, y}  BY DEF x, y
<1>9. \A z \in {x, y} : \E d \in {"-s", "-d"} : z = Rule(d, s, Accept)  BY DEF x, y
<1> QED  BY <1>4, <1>5, <1>6, <1>7, <1>8, <1>9 DEF c
-----------------------------------------------------------------------------
\* Orderly, in terms of In.
LEMMA OrderlyIn ==
  ASSUME NEW t
  PROVE  Orderly(t) <=>
           /\ ForwardChain \in t.chains /\ NoChain \notin t.chains
           /\ \A c \in Chains : /\ \A x : In(t.rules[c], x) => Belongs(c, x)
                                /\ c \notin t.chains => t.rules[c] = << >>
BY InRuleSet DEF Orderly

\* Editing one chain with rules of its kind keeps the table orderly.
LEMMA OrderlyEdit ==
  ASSUME NEW t, NEW u, NEW c \in Chains \ {ForwardChain, NoChain}, Orderly(t),
         Elsewhere(t, u, c), u.chains \subseteq t.chains \cup {c},
         \A x : In(u.rules[c], x) => In(t.rules[c], x) \/ Belongs(c, x),
         c \notin u.chains => u.rules[c] = << >>
  PROVE  Orderly(u) /\ u.rules[ForwardChain] = t.rules[ForwardChain]
<1>1. ForwardChain \in Chains /\ NoChain \in Chains  BY ChainKinds
<1>2. /\ ForwardChain \in t.chains /\ NoChain \notin t.chains
      /\ \A d \in Chains : /\ \A x : In(t.rules[d], x) => Belongs(d, x)
                           /\ d \notin t.chains => t.rules[d] = << >>
  BY OrderlyIn
<1>3. ForwardChain \in u.chains /\ NoChain \notin u.chains
      /\ u.rules[ForwardChain] = t.rules[ForwardChain]
  BY <1>1, <1>2 DEF Elsewhere
<1>4. ASSUME NEW d \in Chains
      PROVE  /\ \A x : In(u.rules[d], x) => Belongs(d, x)
             /\ d \notin u.chains => u.rules[d] = << >>
  <2>1. CASE d = c  BY <1>2, <2>1
  <2>2. CASE d # c
    <3>1. u.rules[d] = t.rules[d] /\ (d \notin u.chains => d \notin t.chains)
      BY <2>2 DEF Elsewhere
    <3> QED  BY <1>2, <3>1
  <2> QED  BY <2>1, <2>2
<1> QED  BY <1>3, <1>4, OrderlyIn

\* The table of a running controller.
Tidy(t) == Orderly(t) /\ In(t.rules[ForwardChain], Jump(BaseChain))

\* No rule is in no chain.
LEMMA EmptyIn == \A x : ~In(<< >>, x)
BY DEF In

\* Flushing or making a chain, and dropping one.
LEMMA ClearTidy ==
  ASSUME NEW t \in Tables, NEW c \in Chains \ {ForwardChain, NoChain}, Tidy(t)
  PROVE  Tidy(ClearChain(t, c)) /\ Tidy(DeleteIptableChain(t, c).tbl)
<1>1. Tidy(ClearChain(t, c))
  <2>1. /\ Elsewhere(t, ClearChain(t, c), c) /\ ClearChain(t, c).rules[c] = << >>
        /\ ClearChain(t, c).chains = t.chains \cup {c}
    BY ClearEffect, ClearChainType
  <2> QED  BY <2>1, OrderlyEdit, EmptyIn DEF Tidy
<1>2. Tidy(DeleteIptableChain(t, c).tbl)
  <2> DEFINE u == DeleteIptableChain(t, c).tbl
  <2>1. Elsewhere(t, u, c) /\ u.rules[c] = << >> /\ u.chains \subseteq t.chains \cup {c}
    BY DropEffect, DropChains
  <2> HIDE DEF u
  <2>2. Tidy(u)  BY <2>1, OrderlyEdit, EmptyIn DEF Tidy
  <2> QED  BY <2>2 DEF u
<1> QED  BY <1>1, <1>2

\* Deleting a rule by number.
LEMMA DeleteTidy ==
  ASSUME NEW t \in Tables, NEW c \in Chains \ {ForwardChain, NoChain}, NEW k \in Nat, Tidy(t)
  PROVE  Tidy(DeleteNth(t, c, k).tbl)
<1> DEFINE u == DeleteNth(t, c, k).tbl
<1>1. /\ Elsewhere(t, u, c) /\ u.chains = t.chains
      /\ c \in t.chains /\ k \in DOMAIN t.rules[c] => u.rules[c] = WithoutNth(t.rules[c], k)
      /\ ~(c \in t.chains /\ k \in DOMAIN t.rules[c]) => u = t
  BY DeleteEffect
<1> HIDE DEF u
<1>2. CASE c \in t.chains /\ k \in DOMAIN t.rules[c]
  <2>1. t.rules[c] \in Seq(Rules)  BY TableTypes
  <2>2. \A x : In(u.rules[c], x) => In(t.rules[c], x)  BY <1>1, <1>2, <2>1, WithoutIn
  <2> QED  BY <1>1, <1>2, <2>2, OrderlyEdit DEF Tidy, u
<1>3. CASE ~(c \in t.chains /\ k \in DOMAIN t.rules[c])  BY <1>1, <1>3 DEF u
<1> QED  BY <1>2, <1>3

\* Adding a rule of the chain's kind.
LEMMA AddTidy ==
  ASSUME NEW t \in Tables, NEW c \in Chains \ {ForwardChain, NoChain}, NEW r \in Rules,
         Belongs(c, r), Tidy(t)
  PROVE  Tidy(AppendUnique(t, c, r).tbl) /\ Tidy(InsertRule(t, c, r).tbl)
<1>1. c \notin t.chains => t.rules[c] = << >>  BY OrderlyIn DEF Tidy
<1>2. Tidy(AppendUnique(t, c, r).tbl)
  <2> DEFINE u == AppendUnique(t, c, r).tbl
  <2>1. /\ Elsewhere(t, u, c) /\ u.chains = t.chains
        /\ \A x : In(u.rules[c], x) => In(t.rules[c], x) \/ x = r
    BY AppendEffect, AppendMore
  <2>2. c \notin t.chains => u = t
    <3>1. c \notin t.chains => Refusal(t, c, r) # 0  BY DEF Refusal
    <3> QED  BY <3>1, AppendMore
  <2> HIDE DEF u
  <2> QED  BY <1>1, <2>1, <2>2, OrderlyEdit DEF Tidy, u
<1>3. Tidy(InsertRule(t, c, r).tbl)
  <2> DEFINE u == InsertRule(t, c, r).tbl
  <2>1. /\ Elsewhere(t, u, c) /\ u.chains = t.chains
        /\ \A x : In(u.rules[c], x) => In(t.rules[c], x) \/ x = r
        /\ c \notin t.chains => u = t
    BY InsertRuleEffect, InsertRuleMore
  <2> HIDE DEF u
  <2> QED  BY <1>1, <2>1, OrderlyEdit DEF Tidy, u
<1> QED  BY <1>2, <1>3

\* The rules of the controller are of their chains' kinds.
LEMMA KindsFit ==
  /\ \A n \in Networks : /\ NetworkChain(n) \in Chains \ {ForwardChain, NoChain}
                         /\ Belongs(NetworkChain(n), Jump(Reject))
                         /\ \A p \in Policies : Belongs(NetworkChain(n), Jump(PolicyChain(p)))
                         /\ \A d, s : Belongs(BaseChain, Link(n, d, s))
  /\ \A p \in Policies : /\ PolicyChain(p) \in Chains \ {ForwardChain, NoChain}
                         /\ \A d, s : Belongs(PolicyChain(p), Rule(d, s, Accept))
  /\ BaseChain \in Chains \ {ForwardChain, NoChain}
BY ChainKinds, ChainsApart, ChainsDiffer, RuleTypes
DEF Belongs, Link, NetworkChains, PolicyChains

\* Accepting a peer.
LEMMA PeerTidy ==
  ASSUME NEW t, Sound(t), NEW p \in Policies, NEW s \in Subnets \cup {Blank}, Tidy(t)
  PROVE  Tidy(insertPeerRule(t, p, s))
<1> DEFINE c == PolicyChain(p)
           u == insertPeerRule(t, p, s)
<1>1. /\ Elsewhere(t, u, c) /\ u.chains = t.chains
      /\ \A x : In(u.rules[c], x) =>
           In(t.rules[c], x) \/ \E d \in {"-s", "-d"} : x = Rule(d, s, Accept)
      /\ c \notin t.chains => u = t
  BY PeerEffect, PeerMore
<1>2. c \in Chains \ {ForwardChain, NoChain} /\ \A d : Belongs(c, Rule(d, s, Accept))
  BY KindsFit
<1>3. c \notin t.chains => t.rules[c] = << >>  BY <1>2, OrderlyIn DEF Tidy
<1> HIDE DEF u, c
<1> QED  BY <1>1, <1>2, <1>3, OrderlyEdit DEF Tidy, u
-----------------------------------------------------------------------------
(***************************************************************************)
(* The keys.                                                               *)
(***************************************************************************)
\* A sequence holds its head and what its tail holds.
LEMMA HeadHeld ==
  ASSUME NEW I, NEW s \in Seq(I), s # << >>
  PROVE  Held(s) = Held(Tail(s)) \cup {Head(s)} /\ Tail(s) \in Seq(I) /\ Head(s) \in I
<1> DEFINE u == Tail(s)
<1>1. /\ u \in Seq(I) /\ Len(s) \in Nat /\ Len(s) >= 1 /\ DOMAIN s = 1..Len(s)
      /\ DOMAIN u = 1..(Len(s) - 1) /\ Head(s) = s[1] /\ Head(s) \in I
      /\ \A k \in 1..(Len(s) - 1) : u[k] = s[k + 1]
  OBVIOUS
<1> HIDE DEF u
<1>2. Held(u) \subseteq Held(s) /\ Head(s) \in Held(s)  BY <1>1 DEF Held
<1>3. ASSUME NEW x \in Held(s) PROVE x \in Held(u) \cup {Head(s)}
  <2>1. PICK k \in DOMAIN s : x = s[k]  BY DEF Held
  <2>2. k = 1 \/ (k - 1 \in DOMAIN u /\ u[k - 1] = s[k])  BY <1>1
  <2> QED  BY <1>1, <2>1, <2>2 DEF Held
<1> QED  BY <1>1, <1>2, <1>3 DEF u

\* Every key has a handler, and its label is neither "got" nor "idle".
LEMMA HandlerIs ==
  ASSUME NEW x \in Items
  PROVE  /\ HandlerOf(x) \in Handlers
         /\ x.kind = "networkpolicy" => HandlerOf(x) \in {"policyAdd", "policyUpdate", "policyDelete"}
         /\ HandlerOf(x) = "policyAdd" <=> x.kind = "networkpolicy" /\ x.action = "ADD"
         /\ HandlerOf(x) \in {"policyDelete", "networkDelete"} => x.action = "DELETE"
         /\ HandlerOf(x) \in {"policyUpdate", "networkUpdate"} => x.action = "UPDATE"
         /\ HandlerOf(x) = "networkAdd" <=> x.kind = "logicalnetwork" /\ x.action = "ADD"
BY ItemKinds DEF HandlerOf, Handlers, Kinds, Verbs, Items

\* A step of a handler leaves every key pending, but for its own as it begins.
LEMMA StepPending ==
  ASSUME IInv, NEW w \in Workers, NEW to, NEW f, NEW t, Step(w, to, f, t), pc[w] \in Inside
  PROVE  /\ Pending \ {frame[w].item} \subseteq Pending'
         /\ pc[w] # HandlerOf(frame[w].item) => Pending \subseteq Pending'
<1>1. /\ notes' = notes /\ q' = q
      /\ \A v \in Workers : v # w => pc'[v] = pc[v] /\ frame'[v] = frame[v]
      /\ pc[w] # "got"
  BY DEF Step, IInv, TypeOK, Inside, Handlers
<1> SUFFICES ASSUME NEW x \in Pending,
                    x # frame[w].item \/ pc[w] # HandlerOf(frame[w].item)
             PROVE  x \in Pending'
  OBVIOUS
<1>2. /\ x \in Items
      /\ \/ x \in Held(notes[x.kind]) \/ x \in q.dirty
         \/ \E v \in Workers : frame[v].item = x /\ pc[v] \in {"got", HandlerOf(x)}
  BY DEF Pending
<1>3. ASSUME NEW v \in Workers, frame[v].item = x, pc[v] \in {"got", HandlerOf(x)}
      PROVE  frame'[v].item = x /\ pc'[v] \in {"got", HandlerOf(x)}
  <2>1. v # w  BY <1>1, <1>3
  <2> QED  BY <1>1, <1>3, <2>1
<1> QED  BY <1>1, <1>2, <1>3 DEF Pending

\* The keys move from an informer to the queue and to a worker.
LEMMA QuietPending ==
  ASSUME IInv,
         \/ \E k \in Kinds : Notify(k)
         \/ \E w \in Workers : Get(w) \/ Lock(w) \/ Unlock(w) \/ Done(w)
  PROVE  Pending \subseteq Pending'
<1> SUFFICES ASSUME NEW x \in Pending PROVE x \in Pending'  OBVIOUS
<1>1. /\ x \in Items
      /\ \/ x \in Held(notes[x.kind]) \/ x \in q.dirty
         \/ \E v \in Workers : frame[v].item = x /\ pc[v] \in {"got", HandlerOf(x)}
  BY DEF Pending
<1>2. HandlerOf(x) \notin {"idle", "returned", "unlocked"} /\ x.kind \in Kinds
  BY <1>1, HandlerIs, ItemKinds DEF Handlers
<1>3. /\ notes \in [Kinds -> Seq(Items)] /\ pc \in [Workers -> Labels]
      /\ frame \in [Workers -> Frames] /\ q \in Queues(Items)
  BY DEF IInv, TypeOK
<1>4. ASSUME NEW k \in Kinds, Notify(k) PROVE x \in Pending'
  <2>1. /\ notes' = [notes EXCEPT ![k] = Tail(notes[k])] /\ notes[k] # << >>
        /\ q' = QueueAdd(q, Head(notes[k])) /\ pc' = pc /\ frame' = frame
    BY <1>4 DEF Notify
  <2>2. Held(notes[k]) = Held(Tail(notes[k])) \cup {Head(notes[k])}
    BY <1>3, <2>1, HeadHeld
  <2>3. q'.dirty = q.dirty \cup {Head(notes[k])}
    BY <1>3, <2>1 DEF QueueAdd, Queues
  <2>4. x \in Held(notes[x.kind]) => x \in Held(notes'[x.kind]) \/ x \in q'.dirty
    BY <1>2, <1>3, <2>1, <2>2, <2>3
  <2> QED  BY <1>1, <2>1, <2>3, <2>4 DEF Pending
<1>5. ASSUME NEW w \in Workers, Get(w) PROVE x \in Pending'
  <2>1. /\ pc[w] = "idle" /\ pc' = [pc EXCEPT ![w] = "got"] /\ notes' = notes
        /\ q' = QueueGet(q)
    BY <1>5 DEF Get
  <2>2. frame'[w].item = Head(q.queue) /\ \A v \in Workers : v # w => frame'[v] = frame[v]
    BY <1>3, <1>5 DEF Get, EmptyFrame
  <2>3. q'.dirty = q.dirty \ {Head(q.queue)}  BY <2>1 DEF QueueGet
  <2>4. pc'[w] = "got" /\ \A v \in Workers : v # w => pc'[v] = pc[v]  BY <1>3, <2>1
  <2> QED  BY <1>1, <1>2, <2>1, <2>2, <2>3, <2>4 DEF Pending
<1>6. ASSUME NEW w \in Workers, Lock(w) PROVE x \in Pending'
  <2>1. /\ notes' = notes /\ q' = q /\ frame' = frame
        /\ pc'[w] = HandlerOf(frame[w].item) /\ \A v \in Workers : v # w => pc'[v] = pc[v]
    BY <1>3, <1>6 DEF Lock
  <2>2. \A v \in Workers : frame[v].item = x /\ pc[v] \in {"got", HandlerOf(x)}
          => frame'[v].item = x /\ pc'[v] \in {"got", HandlerOf(x)}
    BY <2>1
  <2> QED  BY <1>1, <2>1, <2>2 DEF Pending
<1>7. ASSUME NEW w \in Workers, Unlock(w) \/ Done(w) PROVE x \in Pending'
  <2>1. /\ notes' = notes /\ q'.dirty = q.dirty /\ pc[w] \in {"returned", "unlocked"}
        /\ \A v \in Workers : v # w => pc'[v] = pc[v] /\ frame'[v] = frame[v]
    BY <1>3, <1>7 DEF Unlock, Done, QueueDone, Queues
  <2>2. \A v \in Workers : frame[v].item = x /\ pc[v] \in {"got", HandlerOf(x)}
          => frame'[v].item = x /\ pc'[v] \in {"got", HandlerOf(x)}
    BY <1>2, <2>1
  <2> QED  BY <1>1, <2>1, <2>2 DEF Pending
<1> QED  BY <1>4, <1>5, <1>6, <1>7

\* A change in the cluster is announced while the controller runs.
LEMMA ChangePending ==
  ASSUME IInv, NEW x \in Items, Change(x)
  PROVE  /\ Pending \subseteq Pending'
         /\ up = TRUE => x \in Pending'
         /\ notes' = IF up THEN [notes EXCEPT ![x.kind] = Append(notes[x.kind], x)] ELSE notes
         /\ Held(Append(notes[x.kind], x)) = Held(notes[x.kind]) \cup {x}
<1>1. /\ q' = q /\ pc' = pc /\ frame' = frame
      /\ notes' = IF up THEN [notes EXCEPT ![x.kind] = Append(notes[x.kind], x)] ELSE notes
  BY DEF Change
<1>2. notes \in [Kinds -> Seq(Items)] /\ x.kind \in Kinds  BY ItemKinds DEF IInv, TypeOK
<1>3. Held(Append(notes[x.kind], x)) = Held(notes[x.kind]) \cup {x}  BY <1>2, AppendHeld
<1>4. \A y \in Items : y \in Held(notes[y.kind]) => y \in Held(notes'[y.kind])
  BY <1>1, <1>2, <1>3, ItemKinds
<1>5. Pending \subseteq Pending'  BY <1>1, <1>4 DEF Pending
<1>6. up = TRUE => x \in Held(notes'[x.kind])  BY <1>1, <1>2, <1>3
<1>7. up = TRUE => x \in Pending'  BY <1>6 DEF Pending
<1> QED  BY <1>1, <1>3, <1>5, <1>7

\* When all is quiet, nothing is pending.
LEMMA NonePending ==
  ASSUME IInv, GInv, Quiescent
  PROVE  Pending = {}
<1>1. /\ q.queue = << >> /\ \A k \in Kinds : notes[k] = << >>
      /\ \A w \in Workers : pc[w] = "idle"
  BY DEF Quiescent
<1>2. q.processing = {}  BY <1>1 DEF GInv
<1>3. Held(<< >>) = {}  BY DEF Held
<1>4. q.dirty = {}
  <2>1. Held(q.queue) = q.dirty \ q.processing  BY ConsistentHeld DEF IInv, KeysHandledOnce
  <2> QED  BY <1>1, <1>2, <1>3, <2>1
<1>5. \A x \in Items : HandlerOf(x) # "idle" /\ x.kind \in Kinds
  BY HandlerIs, ItemKinds DEF Handlers
<1> QED  BY <1>1, <1>3, <1>4, <1>5 DEF Pending
-----------------------------------------------------------------------------
(***************************************************************************)
(* Keys and chains stay in order.                                          *)
(***************************************************************************)
\* A step of a handler, given what it goes to.
LEMMA StepG ==
  ASSUME IInv, ChainInv, GInv, NEW w \in Workers, pc[w] \in Inside,
         NEW to \in Inside, NEW f, NEW t, f.item = frame[w].item,
         Step(w, to, f, t), Suits(to, f), Tidy(t)
  PROVE  GInv'
<1>1. /\ notes' = notes /\ q' = q /\ up' = up /\ np' = np /\ iptable' = t
      /\ pc'[w] = to /\ frame'[w] = f
      /\ \A v \in Workers : v # w => pc'[v] = pc[v] /\ frame'[v] = frame[v]
  BY DEF Step, clusterVars, IInv, TypeOK
<1>2. pc[w] # "idle" /\ to # "idle"  BY DEF Inside, Handlers
<1>3. \A x \in q.processing : \E v \in Workers : pc'[v] # "idle" /\ frame'[v].item = x
  <2> SUFFICES ASSUME NEW x \in q.processing
               PROVE  \E v \in Workers : pc'[v] # "idle" /\ frame'[v].item = x
    OBVIOUS
  <2>1. PICK v \in Workers : pc[v] # "idle" /\ frame[v].item = x  BY DEF GInv
  <2> QED  BY <1>1, <1>2, <2>1
<1>4. \A v \in Workers : pc'[v] # "idle" => Happens(frame'[v].item) /\ Suits(pc'[v], frame'[v])
  <2> SUFFICES ASSUME NEW v \in Workers, pc'[v] # "idle"
               PROVE  Happens(frame'[v].item) /\ Suits(pc'[v], frame'[v])
    OBVIOUS
  <2>1. CASE v = w
    <3>1. Happens(frame[w].item)  BY <1>2 DEF GInv
    <3> QED  BY <1>1, <2>1, <3>1
  <2>2. CASE v # w
    <3>1. pc'[v] = pc[v] /\ frame'[v] = frame[v]  BY <1>1, <2>2
    <3>2. Happens(frame[v].item) /\ Suits(pc[v], frame[v])  BY <3>1 DEF GInv
    <3> QED  BY <3>1, <3>2
  <2> QED  BY <2>1, <2>2
<1>5. up = TRUE  BY Found
<1> QED  BY <1>1, <1>3, <1>4, <1>5 DEF GInv, Tidy

\* What a worker inside syncHandler finds.
LEMMA FoundG ==
  ASSUME IInv, ChainInv, GInv, NEW w \in Workers, pc[w] \in Inside
  PROVE  /\ Tidy(iptable) /\ Suits(pc[w], frame[w]) /\ Happens(frame[w].item)
         /\ iptable \in Tables /\ Sound(iptable) /\ frame[w] \in Frames
         /\ Fits(pc[w], frame[w]) /\ TypeOK
BY Found, Here DEF GInv, Tidy, Inside, Handlers, TypeOK

\* The handlers of policies.
LEMMA PolicyHandlersG ==
  ASSUME IInv, ChainInv, GInv, NEW w \in Workers,
         \/ handleNetworkPolicyAdd(w) \/ handleNetworkPolicyUpdate(w)
         \/ handleNetworkPolicyDelete(w)
         \/ populatePolicyChain(w) \/ populatePeers(w)
  PROVE  GInv'
<1> DEFINE f == frame[w]
           p == f.item.name
           x == f.item.action
<1>1. /\ pc[w] \in {"policyAdd", "policyUpdate", "policyDelete", "populate", "peers"}
      /\ pc[w] \in Inside /\ pc[w] \in AtPolicy
  BY DEF handleNetworkPolicyAdd, handleNetworkPolicyUpdate, handleNetworkPolicyDelete,
         populatePolicyChain, populatePeers, Inside, Handlers, AtPolicy
<1>2. /\ TypeOK /\ iptable \in Tables /\ Sound(iptable) /\ f \in Frames /\ p \in Policies
      /\ f.nets \subseteq Networks /\ f.peers \subseteq Networks
      /\ Tidy(iptable) /\ Suits(pc[w], f)
  BY <1>1, FoundG, ItemKinds DEF Fits, Frames
<1>3. Tidy(AddPolicyChain(iptable, p))  BY <1>2, ClearTidy, KindsFit DEF AddPolicyChain
<1>4. ASSUME NEW m \in Networks PROVE Tidy(AcceptPeer(p, m))
  BY <1>2, PeerTidy, ListerTypes DEF AcceptPeer
<1>5. ASSUME NEW n \in Networks
      PROVE  Tidy(InsertRule(iptable, NetworkChain(n), Jump(PolicyChain(p))).tbl)
  <2>1. Jump(PolicyChain(p)) \in Rules  BY <1>2, RuleTypes, ChainKinds
  <2> QED  BY <1>2, <2>1, AddTidy, KindsFit
<1>6. ASSUME NEW to, NEW g, NEW t, g.item = f.item, Step(w, to, g, t), Tidy(t),
             \/ to = "returned"
             \/ to \in {"populate", "networkAdd", "peers"} /\ x \in {"ADD", "UPDATE"}
             \/ to = "unlink" /\ x \in {"DELETE", "UPDATE"}
      PROVE  GInv'
  <2>1. to \in Inside  BY <1>6 DEF Inside, Handlers
  <2>2. Suits(to, g)  BY <1>6 DEF Suits, Adding, Removing
  <2> QED  BY <1>1, <1>6, <2>1, <2>2, StepG
<1>7. CASE handleNetworkPolicyAdd(w)
  <2>1. x = "ADD"  BY <1>2, <1>7 DEF handleNetworkPolicyAdd, Suits
  <2>2. \A a, s : [f EXCEPT !.ann = a, !.nets = s].item = f.item  BY <1>2 DEF Frames
  <2> QED  BY <1>2, <1>3, <1>6, <1>7, <2>1, <2>2 DEF handleNetworkPolicyAdd
<1>8. CASE handleNetworkPolicyUpdate(w)
  <2> DEFINE t == AddPolicyChain(iptable, p)
             g == [f EXCEPT !.ann = np[p], !.nets = Selectors(np[p])]
             h == [f EXCEPT !.nets = LinkedNetworks(t)]
  <2>1. x = "UPDATE"  BY <1>2, <1>8 DEF handleNetworkPolicyUpdate, Suits
  <2>2. g.item = f.item /\ h.item = f.item  BY <1>2 DEF Frames
  <2>3. \/ Step(w, "populate", g, t) \/ Step(w, "unlink", h, t)
        \/ Step(w, "returned", f, iptable)
    BY <1>8 DEF handleNetworkPolicyUpdate
  <2>4. Tidy(t) /\ Tidy(iptable)  BY <1>2, <1>3
  <2> HIDE DEF t, g, h
  <2> QED  BY <1>6, <2>1, <2>2, <2>3, <2>4
<1>9. CASE handleNetworkPolicyDelete(w)
  <2>1. x = "DELETE"  BY <1>2, <1>9 DEF handleNetworkPolicyDelete, Suits
  <2>2. \A s : [f EXCEPT !.nets = s].item = f.item  BY <1>2 DEF Frames
  <2> QED  BY <1>2, <1>6, <1>9, <2>1, <2>2 DEF handleNetworkPolicyDelete
<1>10. CASE populatePolicyChain(w)
  <2>1. x \in {"ADD", "UPDATE"}  BY <1>2, <1>10 DEF populatePolicyChain, Suits, Adding
  <2>2. CASE Step(w, "returned", f, iptable)  BY <1>2, <1>6, <2>2
  <2>3. ASSUME NEW n \in f.nets,
               LET g == [f EXCEPT !.nets = f.nets \ {n}, !.cur = n, !.peers = PeersOf(f.ann, n)]
                   r == InsertRule(iptable, NetworkChain(n), Jump(PolicyChain(p)))
               IN  IF NetworkChain(n) \notin iptable.chains
                   THEN Step(w, "networkAdd", g, iptable)
                   ELSE Step(w, IF r.exit = 0 THEN "peers" ELSE "populate", g, r.tbl)
        PROVE  GInv'
    <3> DEFINE g == [f EXCEPT !.nets = f.nets \ {n}, !.cur = n, !.peers = PeersOf(f.ann, n)]
               r == InsertRule(iptable, NetworkChain(n), Jump(PolicyChain(p)))
    <3>1. g.item = f.item  BY <1>2 DEF Frames
    <3>2. Tidy(r.tbl)  BY <1>2, <1>5
    <3>3. \/ Step(w, "networkAdd", g, iptable)
          \/ Step(w, "peers", g, r.tbl) \/ Step(w, "populate", g, r.tbl)
      BY <2>3
    <3> HIDE DEF g, r
    <3> QED  BY <1>2, <1>6, <2>1, <3>1, <3>2, <3>3
  <2> QED  BY <1>10, <2>2, <2>3 DEF populatePolicyChain
<1>11. CASE populatePeers(w)
  <2>1. x \in {"ADD", "UPDATE"}  BY <1>2, <1>11 DEF populatePeers, Suits, Adding
  <2>2. \A s : [f EXCEPT !.peers = s].item = f.item  BY <1>2 DEF Frames
  <2> QED  BY <1>2, <1>4, <1>6, <1>11, <2>1, <2>2 DEF populatePeers
<1> QED  BY <1>7, <1>8, <1>9, <1>10, <1>11

\* The handler of a network that is added.
LEMMA NetworkAddG ==
  ASSUME IInv, ChainInv, GInv, NEW w \in Workers,
         \/ handleLogicalNetworkAdd(w) \/ listPoliciesForAdd(w)
         \/ handleLogicalNetworkAddPolicies(w) \/ closeNetwork(w) \/ linkNetwork(w)
         \/ imposePolicy(w) \/ handleLogicalNetworkAddPeers(w)
  PROVE  GInv'
<1> DEFINE f == frame[w]
<1>1. /\ pc[w] \in Adding \ {"populate", "peers"}
      /\ pc[w] \in Inside /\ pc[w] \in AtNetwork
  BY DEF handleLogicalNetworkAdd, listPoliciesForAdd, handleLogicalNetworkAddPolicies,
         closeNetwork, linkNetwork, imposePolicy, handleLogicalNetworkAddPeers,
         Inside, Handlers, AtNetwork, Adding
<1>2. /\ TypeOK /\ iptable \in Tables /\ Sound(iptable) /\ f \in Frames
      /\ f.cur \in Networks /\ f.subnet \in Subnets \cup {Blank} /\ f.infos \subseteq Infos
      /\ f.lpeers \subseteq Networks /\ f.item.action \in {"ADD", "UPDATE"}
      /\ Tidy(iptable) /\ Suits(pc[w], f)
  BY <1>1, FoundG DEF Fits, Frames, Suits
<1>3. pc[w] \in {"close", "linkTo", "linkFrom", "impose", "networkPeers"} => f.policy \in Policies
  BY <1>1, FoundG DEF Fits, AtInfo
<1>4. ASSUME NEW to \in Adding \cup {"returned"}, NEW g, NEW t, g.item = f.item,
             Step(w, to, g, t), Tidy(t),
             to = "impose" => g.lnChain \in {NetworkChain(g.cur), NoChain}
      PROVE  GInv'
  <2>1. to \in Inside  BY DEF Inside, Handlers, Adding
  <2>2. Suits(to, g)  BY <1>2, <1>4 DEF Suits, Adding, Removing
  <2> QED  BY <1>1, <1>4, <2>1, <2>2, StepG
<1>5. /\ Failed(w) \in (Adding \cup {"returned"}) \ {"impose"}
      /\ Succeeded(w) \in (Adding \cup {"returned"}) \ {"impose"}
  BY DEF Failed, Succeeded, Adding
<1>6. ASSUME NEW p \in Policies
      PROVE  /\ \A s \in Subnets \cup {Blank} : Tidy(insertPeerRule(iptable, p, s))
             /\ \A m \in Networks : Tidy(AcceptPeer(p, m))
  BY <1>2, PeerTidy, ListerTypes DEF AcceptPeer
<1>7. CASE handleLogicalNetworkAdd(w)
  <2>1. \A s : [f EXCEPT !.subnet = s].item = f.item  BY <1>2 DEF Frames
  <2> QED  BY <1>2, <1>4, <1>5, <1>7, <2>1 DEF handleLogicalNetworkAdd, Adding
<1>8. CASE listPoliciesForAdd(w)
  <2>1. \A s : [f EXCEPT !.infos = s].item = f.item  BY <1>2 DEF Frames
  <2> QED  BY <1>2, <1>4, <1>8, <2>1 DEF listPoliciesForAdd, Adding
<1>9. CASE handleLogicalNetworkAddPolicies(w)
  <2>1. \A s, p, y : /\ [f EXCEPT !.infos = s, !.policy = p, !.lpeers = y].item = f.item
                     /\ [f EXCEPT !.infos = s].item = f.item
    BY <1>2 DEF Frames
  <2>2. Tidy(ClearChain(iptable, NetworkChain(f.cur)))  BY <1>2, ClearTidy, KindsFit
  <2>3. \A info \in f.infos : Tidy(insertPeerRule(iptable, info.policy, f.subnet))
    BY <1>2, <1>6 DEF Infos
  <2>4. {"close", "networkPolicies"} \subseteq Adding  BY DEF Adding
  <2>5. CASE Step(w, Succeeded(w), f, iptable)  BY <1>2, <1>4, <1>5, <2>5
  <2>6. ASSUME NEW info \in f.infos,
               IF info.via = f.cur
               THEN Step(w, "close",
                         [f EXCEPT !.infos = f.infos \ {info}, !.policy = info.policy,
                                   !.lpeers = info.peers],
                         ClearChain(iptable, NetworkChain(f.cur)))
               ELSE Step(w, "networkPolicies",
                         [f EXCEPT !.infos = f.infos \ {info}],
                         insertPeerRule(iptable, info.policy, f.subnet))
        PROVE  GInv'
    <3> DEFINE g == [f EXCEPT !.infos = f.infos \ {info}, !.policy = info.policy,
                              !.lpeers = info.peers]
               h == [f EXCEPT !.infos = f.infos \ {info}]
    <3>1. \/ Step(w, "close", g, ClearChain(iptable, NetworkChain(f.cur)))
          \/ Step(w, "networkPolicies", h, insertPeerRule(iptable, info.policy, f.subnet))
      BY <2>6
    <3>2. g.item = f.item /\ h.item = f.item  BY <2>1
    <3> HIDE DEF g, h
    <3> QED  BY <1>4, <2>2, <2>3, <2>4, <3>1, <3>2
  <2> QED  BY <1>9, <2>5, <2>6 DEF handleLogicalNetworkAddPolicies
<1>10. CASE closeNetwork(w)
  <2>1. Jump(Reject) \in Rules  BY RuleTypes, ChainKinds
  <2>2. Tidy(AppendUnique(iptable, NetworkChain(f.cur), Jump(Reject)).tbl)
    BY <1>2, <2>1, AddTidy, KindsFit
  <2> QED  BY <1>4, <1>10, <2>2 DEF closeNetwork, Adding
<1>11. CASE linkNetwork(w)
  <2> DEFINE dir == IF pc[w] = "linkTo" THEN "-d" ELSE "-s"
             r == AppendUnique(iptable, BaseChain, Link(f.cur, dir, f.subnet))
  <2>1. Link(f.cur, dir, f.subnet) \in Rules
    BY <1>2, RuleTypes, ChainKinds DEF Link
  <2>2. Tidy(r.tbl)  BY <1>2, <2>1, AddTidy, KindsFit
  <2>3. \A c : [f EXCEPT !.lnChain = c].item = f.item /\ [f EXCEPT !.lnChain = c].lnChain = c
               /\ [f EXCEPT !.lnChain = c].cur = f.cur
    BY <1>2 DEF Frames
  <2>4. \E to \in {"linkFrom", "impose"}, c \in {NetworkChain(f.cur), NoChain} :
          Step(w, to, [f EXCEPT !.lnChain = c], r.tbl)
    BY <1>11 DEF linkNetwork
  <2> HIDE DEF r, dir
  <2> QED  BY <1>4, <2>2, <2>3, <2>4 DEF Adding
<1>12. CASE imposePolicy(w)
  <2> DEFINE r == InsertRule(iptable, f.lnChain, Jump(PolicyChain(f.policy)))
  <2>1. pc[w] = "impose" /\ f.lnChain \in {NetworkChain(f.cur), NoChain}
    BY <1>2, <1>12 DEF imposePolicy, Suits
  <2>2. Jump(PolicyChain(f.policy)) \in Rules  BY <1>3, <2>1, RuleTypes, ChainKinds
  <2>3. Tidy(r.tbl)
    <3>1. CASE f.lnChain = NetworkChain(f.cur)
      BY <1>2, <1>3, <2>1, <2>2, <3>1, AddTidy, KindsFit
    <3>2. CASE f.lnChain = NoChain
      BY <1>2, <2>2, <3>2, InsertRuleMore, ChainKinds DEF Tidy, Orderly
    <3> QED  BY <2>1, <3>1, <3>2
  <2>4. \A s : [f EXCEPT !.infos = s].item = f.item  BY <1>2 DEF Frames
  <2> HIDE DEF r
  <2>5. \/ Step(w, "networkPeers", f, r.tbl)
        \/ Step(w, Failed(w), [f EXCEPT !.infos = {}], r.tbl)
    BY <1>12 DEF imposePolicy, r
  <2>6. "networkPeers" \in Adding  BY DEF Adding
  <2> QED  BY <1>4, <1>5, <2>3, <2>4, <2>5, <2>6
<1>13. CASE handleLogicalNetworkAddPeers(w)
  <2>1. \A s : [f EXCEPT !.lpeers = s].item = f.item  BY <1>2 DEF Frames
  <2>2. f.policy \in Policies  BY <1>3, <1>13 DEF handleLogicalNetworkAddPeers
  <2> QED  BY <1>2, <1>4, <1>6, <1>13, <2>1, <2>2 DEF handleLogicalNetworkAddPeers, Adding
<1> QED  BY <1>7, <1>8, <1>9, <1>10, <1>11, <1>12, <1>13

\* The handlers that take things down.
LEMMA RemovalG ==
  ASSUME IInv, ChainInv, GInv, NEW w \in Workers,
         \/ handleLogicalNetworkUpdate(w) \/ handleLogicalNetworkDelete(w)
         \/ unlinkPolicy(w) \/ scanNetworkChain(w) \/ scanBaseChain(w)
         \/ dropNetwork(w) \/ scanPolicyChain(w)
  PROVE  GInv'
<1> DEFINE f == frame[w]
<1>1. /\ pc[w] \in Removing \cup {"networkUpdate", "networkDelete"}
      /\ pc[w] \in Inside
      /\ pc[w] = "unlink" \/ pc[w] \in AtNetwork
  BY DEF handleLogicalNetworkUpdate, handleLogicalNetworkDelete, unlinkPolicy,
         scanNetworkChain, scanBaseChain, dropNetwork, scanPolicyChain,
         Inside, Handlers, AtNetwork, Removing
<1>2. /\ TypeOK /\ iptable \in Tables /\ Sound(iptable) /\ f \in Frames
      /\ f.nets \subseteq Networks /\ f.infos \subseteq Infos /\ f.i \in Nat /\ f.pos \in Nat
      /\ f.item.action \in {"DELETE", "UPDATE"} /\ Tidy(iptable)
  BY <1>1, FoundG DEF Frames, Suits
<1>3. /\ pc[w] # "unlink" => f.cur \in Networks
      /\ pc[w] \in {"unlink", "scanNetwork"} => f.item.name \in Policies
      /\ pc[w] = "scanPolicy" => f.policy \in Policies
  BY <1>1, FoundG, ItemKinds DEF Fits, AtInfo, AtPolicy
<1>4. ASSUME NEW to \in Removing \cup {"returned"}, NEW g, NEW t, g.item = f.item,
             Step(w, to, g, t), Tidy(t)
      PROVE  GInv'
  <2>1. to \in Inside  BY DEF Inside, Removing
  <2>2. Suits(to, g)  BY <1>2, <1>4 DEF Suits, Adding, Removing
  <2> QED  BY <1>1, <1>4, <2>1, <2>2, StepG
<1>5. /\ \A n \in Networks : Tidy(DeleteIptableChain(iptable, NetworkChain(n)).tbl)
      /\ \A p \in Policies : Tidy(DeleteIptableChain(iptable, PolicyChain(p)).tbl)
      /\ \A k \in Nat : Tidy(DeleteNth(iptable, BaseChain, k).tbl)
      /\ \A k \in Nat, n \in Networks : Tidy(DeleteNth(iptable, NetworkChain(n), k).tbl)
      /\ \A k \in Nat, p \in Policies : Tidy(DeleteNth(iptable, PolicyChain(p), k).tbl)
  BY <1>2, KindsFit, ClearTidy, DeleteTidy
<1>6. CASE handleLogicalNetworkUpdate(w)
  <2>1. Tidy(DeleteNth(iptable, BaseChain, 0).tbl)  BY <1>5
  <2> QED  BY <1>2, <1>4, <1>6, <2>1 DEF handleLogicalNetworkUpdate
<1>7. CASE handleLogicalNetworkDelete(w)
  <2>1. [f EXCEPT !.infos = ListNetworkPolicies(f.cur)].item = f.item  BY <1>2 DEF Frames
  <2> QED  BY <1>2, <1>4, <1>7, <2>1 DEF handleLogicalNetworkDelete, Removing
<1>8. CASE unlinkPolicy(w)
  <2> DEFINE p == f.item.name
             t == IF f.item.action = "DELETE"
                  THEN DeleteIptableChain(iptable, PolicyChain(p)).tbl ELSE iptable
  <2>1. pc[w] = "unlink"  BY <1>8 DEF unlinkPolicy
  <2>2. CASE Step(w, "returned", f, t)
    <3>1. Tidy(t)  BY <1>2, <1>3, <1>5, <2>1
    <3> HIDE DEF t
    <3> QED  BY <1>4, <2>2, <3>1
  <2>3. ASSUME NEW n \in f.nets,
               LET g == [f EXCEPT !.nets = f.nets \ {n}, !.cur = n] IN
               IF NetworkChain(n) \notin iptable.chains
               THEN Step(w, "unlink", g, iptable)
               ELSE Step(w, "scanNetwork",
                         [g EXCEPT !.snap = iptable.rules[NetworkChain(n)], !.i = 1, !.cnt = 0],
                         iptable)
        PROVE  GInv'
    <3> DEFINE g == [f EXCEPT !.nets = f.nets \ {n}, !.cur = n]
               h == [g EXCEPT !.snap = iptable.rules[NetworkChain(n)], !.i = 1, !.cnt = 0]
    <3>1. g.item = f.item /\ h.item = f.item  BY <1>2 DEF Frames
    <3>2. Step(w, "unlink", g, iptable) \/ Step(w, "scanNetwork", h, iptable)  BY <2>3
    <3>3. {"unlink", "scanNetwork"} \subseteq Removing  BY DEF Removing
    <3> HIDE DEF g, h
    <3> QED  BY <1>2, <1>4, <3>1, <3>2, <3>3
  <2> QED  BY <1>8, <2>2, <2>3 DEF unlinkPolicy
<1>9. CASE scanNetworkChain(w)
  <2> DEFINE r == f.snap[f.i]
             g == [f EXCEPT !.i = f.i + 1]
             h == [f EXCEPT !.i = f.i + 1, !.cnt = CountPolicy(f, r)]
             b == BaseScan(f)
             t == DeleteNth(iptable, NetworkChain(f.cur), f.i).tbl
  <2>1. g.item = f.item /\ h.item = f.item /\ b.item = f.item  BY <1>2 DEF Frames, BaseScan
  <2>2. Tidy(t)  BY <1>2, <1>3, <1>5, <1>9 DEF scanNetworkChain
  <2>3. \/ Step(w, "scanNetwork", g, t) \/ Step(w, "scanNetwork", h, iptable)
        \/ Step(w, "scanBase", b, iptable) \/ Step(w, "unlink", f, iptable)
    BY <1>9 DEF scanNetworkChain
  <2>4. {"unlink", "scanNetwork", "scanBase"} \subseteq Removing  BY DEF Removing
  <2> HIDE DEF g, h, b, t
  <2> QED  BY <1>2, <1>4, <2>1, <2>2, <2>3, <2>4
<1>10. CASE scanBaseChain(w)
  <2> DEFINE d == DeleteNth(iptable, BaseChain, f.pos)
             x == DeleteIptableChain(iptable, NetworkChain(f.cur))
             g == [f EXCEPT !.i = f.i + 1, !.cnt = f.cnt + 1,
                            !.pos = IF d.exit = 0 THEN f.pos ELSE f.pos + 1]
             h == [f EXCEPT !.i = f.i + 1, !.pos = f.pos + 1]
  <2>1. g.item = f.item /\ h.item = f.item  BY <1>2 DEF Frames
  <2>2. pc[w] = "scanBase" /\ Tidy(d.tbl) /\ Tidy(x.tbl)
    BY <1>2, <1>3, <1>5, <1>10 DEF scanBaseChain
  <2>3. \/ Step(w, "scanBase", g, d.tbl) \/ Step(w, "scanBase", h, iptable)
        \/ Step(w, "unlink", f, x.tbl) \/ Step(w, "networkDrop", f, x.tbl)
        \/ Step(w, "returned", f, x.tbl)
    BY <1>10 DEF scanBaseChain
  <2>4. {"unlink", "networkDrop", "scanBase"} \subseteq Removing  BY DEF Removing
  <2> HIDE DEF g, h, d, x
  <2> QED  BY <1>2, <1>4, <2>1, <2>2, <2>3, <2>4
<1>11. CASE dropNetwork(w)
  <2>1. CASE Step(w, "returned", f, iptable)  BY <1>2, <1>4, <2>1
  <2>2. ASSUME NEW info \in f.infos,
               LET g == [f EXCEPT !.infos = f.infos \ {info}, !.policy = info.policy] IN
               IF info.via = f.cur
               THEN Step(w, "scanBase", BaseScan(g), iptable)
               ELSE IF PolicyChain(info.policy) \notin iptable.chains
               THEN Step(w, "networkDrop", g, iptable)
               ELSE Step(w, "scanPolicy",
                         [g EXCEPT !.snap = iptable.rules[PolicyChain(info.policy)],
                                   !.i = 0, !.pos = 0, !.cnt = 0], iptable)
        PROVE  GInv'
    <3> DEFINE g == [f EXCEPT !.infos = f.infos \ {info}, !.policy = info.policy]
               b == BaseScan(g)
               h == [g EXCEPT !.snap = iptable.rules[PolicyChain(info.policy)],
                              !.i = 0, !.pos = 0, !.cnt = 0]
    <3>1. g.item = f.item /\ h.item = f.item /\ b.item = f.item  BY <1>2 DEF Frames, BaseScan
    <3>2. \/ Step(w, "scanBase", b, iptable) \/ Step(w, "networkDrop", g, iptable)
          \/ Step(w, "scanPolicy", h, iptable)
      BY <2>2
    <3>3. {"scanBase", "networkDrop", "scanPolicy"} \subseteq Removing  BY DEF Removing
    <3> HIDE DEF g, h, b
    <3> QED  BY <1>2, <1>4, <3>1, <3>2, <3>3
  <2> QED  BY <1>11, <2>1, <2>2 DEF dropNetwork
<1>12. CASE scanPolicyChain(w)
  <2> DEFINE d == DeleteNth(iptable, PolicyChain(f.policy), f.pos)
             g == [f EXCEPT !.i = f.i + 1, !.cnt = f.cnt + 1,
                            !.pos = IF d.exit = 0 THEN f.pos ELSE f.pos + 1]
             h == [f EXCEPT !.i = f.i + 1, !.pos = f.pos + 1]
  <2>1. g.item = f.item /\ h.item = f.item  BY <1>2 DEF Frames
  <2>2. Tidy(d.tbl)  BY <1>2, <1>3, <1>5, <1>12 DEF scanPolicyChain
  <2>3. \/ Step(w, "scanPolicy", g, d.tbl) \/ Step(w, "scanPolicy", h, iptable)
        \/ Step(w, "networkDrop", f, iptable)
    BY <1>12 DEF scanPolicyChain
  <2>4. {"scanPolicy", "networkDrop"} \subseteq Removing  BY DEF Removing
  <2> HIDE DEF g, h, d
  <2> QED  BY <1>2, <1>4, <2>1, <2>2, <2>3, <2>4
<1> QED  BY <1>6, <1>7, <1>8, <1>9, <1>10, <1>11, <1>12

\* A change in the cluster is one key, for something that happens there.
LEMMA ClusterKey ==
  ASSUME IInv, Cluster
  PROVE  \E x \in Items : Change(x) /\ Happens(x)
<1>1. /\ \A p \in Policies : np[p] # Absent => np[p] \in Annotations \cup {Blank}
      /\ \A n \in Networks : ln[n] # Absent => ln[n] \in Subnets \cup {Blank}
  BY DEF IInv, TypeOK
<1>2. /\ \A p \in Policies, v \in Verbs, a \in Annotations \cup {Blank} :
           /\ PolicyItem(p, v, a) \in Items
           /\ v \in PolicyVerbs => Happens(PolicyItem(p, v, a))
      /\ \A n \in Networks, v \in Verbs, s \in Subnets \cup {Blank} :
           /\ NetworkItem(n, v, s) \in Items
           /\ v \in NetworkVerbs => Happens(NetworkItem(n, v, s))
  BY DEF PolicyItem, NetworkItem, Items, PolicyItems, NetworkItems, Happens
<1>3. "ADD" \in Verbs /\ "UPDATE" \in Verbs /\ "DELETE" \in Verbs  BY DEF Verbs
<1>4. ASSUME NEW p \in Policies, CreatePolicy(p) \/ UpdatePolicy(p) \/ DeletePolicy(p)
      PROVE  \E x \in Items : Change(x) /\ Happens(x)
  BY <1>1, <1>2, <1>3, <1>4 DEF CreatePolicy, UpdatePolicy, DeletePolicy
<1>5. ASSUME NEW n \in Networks, CreateNetwork(n) \/ UpdateNetwork(n) \/ DeleteNetwork(n)
      PROVE  \E x \in Items : Change(x) /\ Happens(x)
  BY <1>1, <1>2, <1>3, <1>5 DEF CreateNetwork, UpdateNetwork, DeleteNetwork
<1> QED  BY <1>4, <1>5 DEF Cluster

\* Changes in the cluster.
LEMMA ClusterG ==
  ASSUME IInv, GInv, Cluster
  PROVE  GInv'
<1>1. PICK x \in Items : Change(x) /\ Happens(x)  BY ClusterKey
<1>2. /\ up' = up /\ q' = q /\ pc' = pc /\ frame' = frame /\ iptable' = iptable
      /\ notes' = IF up THEN [notes EXCEPT ![x.kind] = Append(notes[x.kind], x)] ELSE notes
      /\ Held(Append(notes[x.kind], x)) = Held(notes[x.kind]) \cup {x}
  BY <1>1, ChangePending DEF Change
<1>3. \A p \in Policies : np'[p] \in PolicyValues[p] \cup {Absent}
  <2>1. np \in [Policies -> Annotations \cup {Blank, Absent}]  BY DEF IInv, TypeOK
  <2>2. \/ np' = np
        \/ \E r \in Policies : \E a \in PolicyValues[r] \cup {Absent} :
             np' = [np EXCEPT ![r] = a]
    BY DEF Cluster, CreatePolicy, UpdatePolicy, DeletePolicy, CreateNetwork, UpdateNetwork,
           DeleteNetwork
  <2> QED  BY <2>1, <2>2 DEF GInv
<1>4. \A k \in Kinds : \A y \in Held(notes'[k]) : y.kind = k /\ Happens(y)
  <2>1. notes \in [Kinds -> Seq(Items)]  BY DEF IInv, TypeOK
  <2>2. \A k \in Kinds : Held(notes'[k]) \subseteq Held(notes[k])
                         \/ (k = x.kind /\ Held(notes'[k]) = Held(notes[k]) \cup {x})
    BY <1>2, <2>1
  <2> QED  BY <1>1, <2>2 DEF GInv
<1>5. up = FALSE => \A k \in Kinds : notes'[k] = << >>  BY <1>2 DEF GInv
<1> QED  BY <1>2, <1>3, <1>4, <1>5 DEF GInv

\* Making the base chain anew.
LEMMA BaseTidy ==
  ASSUME NEW t \in Tables, Orderly(t)
  PROVE  LET u == CreateBaseChain(t) IN
         /\ Tidy(u) /\ u.chains = t.chains \cup {BaseChain} /\ u.rules[BaseChain] = << >>
         /\ \A c \in Chains \ {BaseChain, ForwardChain} : u.rules[c] = t.rules[c]
<1> DEFINE v == ClearChain(t, BaseChain)
           r == Jump(BaseChain)
           u == Insert(v, ForwardChain, r).tbl
           s == <<r>> \o v.rules[ForwardChain]
<1>1. /\ Elsewhere(t, v, BaseChain) /\ v.rules[BaseChain] = << >>
      /\ v.chains = t.chains \cup {BaseChain} /\ v \in Tables
  BY ClearEffect, ClearChainType, KindsFit
<1>2. /\ BaseChain \in Chains \ {ForwardChain, NoChain} /\ ForwardChain \in Chains
      /\ r \in Rules /\ r.target = BaseChain /\ r.dir = "any"
  BY KindsFit, ChainKinds, RuleTypes DEF Jump, Rule
<1> HIDE DEF v, r
<1>3. Orderly(v)  BY <1>1, <1>2, EmptyIn, OrderlyEdit
<1>4. In(v.rules[ForwardChain], r) <=> r \in RuleSet(v, ForwardChain)  BY InRuleSet
<1>5. CASE r \in RuleSet(v, ForwardChain)
  <2>1. CreateBaseChain(t) = v  BY <1>5 DEF CreateBaseChain, v, r
  <2> QED  BY <1>1, <1>3, <1>4, <1>5, <2>1 DEF Elsewhere, Tidy, r
<1>6. CASE r \notin RuleSet(v, ForwardChain)
  <2>1. CreateBaseChain(t) = u  BY <1>6 DEF CreateBaseChain, v, r
  <2>2. Refusal(v, ForwardChain, r) = 0
    BY <1>1, <1>2, <1>3 DEF Refusal, Orderly
  <2>3. /\ u.chains = v.chains /\ u.rules[ForwardChain] = s
        /\ \A c \in Chains : c # ForwardChain => u.rules[c] = v.rules[c]
    BY <1>1, <1>2, <2>2 DEF Insert, Result, Tables
  <2>4. v.rules[ForwardChain] \in Seq(Rules)  BY <1>1, <1>2, TableTypes
  <2>5. \A x : In(s, x) <=> In(v.rules[ForwardChain], x) \/ x = r
    BY <1>2, <2>4, PrependIn
  <2> HIDE DEF u, s
  <2>6. Belongs(ForwardChain, r)
    BY <1>2, ChainKinds, ChainsApart DEF Belongs, PolicyChains
  <2>7. Orderly(u)
    <3>1. \A c \in Chains : /\ \A x : In(u.rules[c], x) => Belongs(c, x)
                            /\ c \notin u.chains => u.rules[c] = << >>
      BY <1>3, <2>3, <2>5, <2>6, OrderlyIn
    <3> QED  BY <1>3, <2>3, <3>1, OrderlyIn
  <2> QED  BY <1>1, <1>2, <2>1, <2>3, <2>5, <2>7 DEF Tidy, Elsewhere, r
<1> QED  BY <1>5, <1>6

\* Starting and ending the process.
LEMMA RunG ==
  ASSUME IInv, ChainInv, GInv, Run
  PROVE  GInv'
<1>1. /\ up = FALSE /\ up' = TRUE /\ iptable' = CreateBaseChain(iptable)
      /\ q' = q /\ pc' = pc /\ frame' = frame /\ np' = np
  BY DEF Run, clusterVars, IInv, TypeOK
<1>2. Tidy(iptable')  BY <1>1, BaseTidy DEF GInv, IInv, TypeOK
<1>3. \A k \in Kinds : \A x \in Held(notes'[k]) : x.kind = k /\ Happens(x)
  <2>1. PICK ps \in Orders(Existing("networkpolicy")), ns \in Orders(Existing("logicalnetwork")) :
          notes' = [k \in Kinds |-> IF k = "networkpolicy" THEN ps ELSE ns]
    BY DEF Run
  <2>2. Held(ps) \subseteq Existing("networkpolicy")  BY DEF Held, Orders
  <2>3. Held(ns) \subseteq Existing("logicalnetwork")  BY DEF Held, Orders
  <2>4. \A x \in Existing("networkpolicy") : x.kind = "networkpolicy" /\ Happens(x)
    BY DEF Existing, PolicyItem, Happens
  <2>5. \A x \in Existing("logicalnetwork") : x.kind = "logicalnetwork" /\ Happens(x)
    BY DEF Existing, NetworkItem, Happens
  <2> QED  BY <2>1, <2>2, <2>3, <2>4, <2>5 DEF Kinds
<1> QED  BY <1>1, <1>2, <1>3 DEF GInv, Tidy

\* The end of the process keeps GInv.
LEMMA StopG ==
  ASSUME GInv, Stop
  PROVE  GInv'
<1>1. /\ up' = FALSE /\ q' = EmptyQueue /\ np' = np /\ iptable' = iptable
      /\ \A k \in Kinds : notes'[k] = << >>
      /\ \A w \in Workers : pc'[w] = "idle"
  BY DEF Stop
<1>2. Held(<< >>) = {} /\ EmptyQueue.dirty = {} /\ EmptyQueue.processing = {}
  BY DEF Held, EmptyQueue
<1>3. \A x \in q'.processing : FALSE  BY <1>1, <1>2
<1> QED  BY <1>1, <1>2, <1>3 DEF GInv

\* The informers' event handlers.
LEMMA NotifyG ==
  ASSUME IInv, GInv, NEW k \in Kinds, Notify(k)
  PROVE  GInv'
<1> DEFINE x == Head(notes[k])
<1>1. /\ up = TRUE /\ notes[k] # << >> /\ notes' = [notes EXCEPT ![k] = Tail(notes[k])]
      /\ q' = QueueAdd(q, x)
      /\ up' = up /\ pc' = pc /\ frame' = frame /\ iptable' = iptable /\ np' = np
  BY DEF Notify, clusterVars, IInv, TypeOK
<1>2. notes \in [Kinds -> Seq(Items)] /\ q \in Queues(Items)  BY DEF IInv, TypeOK
<1>3. Held(notes[k]) = Held(Tail(notes[k])) \cup {x}  BY <1>1, <1>2, HeadHeld
<1>4. q'.dirty = q.dirty \cup {x} /\ q'.processing = q.processing
  BY <1>1, <1>2 DEF QueueAdd, Queues
<1>5. \A j \in Kinds : Held(notes'[j]) \subseteq Held(notes[j])  BY <1>1, <1>2, <1>3
<1>6. Happens(x)  BY <1>3 DEF GInv
<1> HIDE DEF x
<1>7. \A j \in Kinds : \A y \in Held(notes'[j]) : y.kind = j /\ Happens(y)
  BY <1>5 DEF GInv
<1>8. \A y \in q'.dirty : Happens(y)  BY <1>4, <1>6 DEF GInv
<1> QED  BY <1>1, <1>4, <1>7, <1>8 DEF GInv

\* The worker loop around syncHandler: worker w moves, with what it has to
\* show for its new label.
LEMMA LoopG ==
  ASSUME IInv, ChainInv, GInv, NEW w \in Workers, NEW l, NEW f, NEW Q,
         up = TRUE, up' = up, notes' = notes, iptable' = iptable, np' = np,
         pc' = [pc EXCEPT ![w] = l], frame' = [frame EXCEPT ![w] = f], q' = Q,
         Q.dirty \subseteq q.dirty,
         \A x \in Q.processing :
           (x \in q.processing /\ (x # frame[w].item \/ pc[w] = "idle"))
             \/ (l # "idle" /\ x = f.item),
         l # "idle" => Happens(f.item) /\ Suits(l, f)
  PROVE  GInv'
<1>1. /\ pc'[w] = l /\ frame'[w] = f
      /\ \A v \in Workers : v # w => pc'[v] = pc[v] /\ frame'[v] = frame[v]
  BY DEF IInv, TypeOK
<1>2. ASSUME NEW x \in Q.processing
      PROVE  \E v \in Workers : pc'[v] # "idle" /\ frame'[v].item = x
  <2>1. CASE x \in q.processing /\ (x # frame[w].item \/ pc[w] = "idle")
    <3>1. PICK v \in Workers : pc[v] # "idle" /\ frame[v].item = x  BY <2>1 DEF GInv
    <3>2. v # w  BY <2>1, <3>1
    <3> QED  BY <1>1, <3>1, <3>2
  <2>2. CASE l # "idle" /\ x = f.item  BY <1>1, <2>2
  <2> QED  BY <2>1, <2>2
<1>3. \A v \in Workers : pc'[v] # "idle" => Happens(frame'[v].item) /\ Suits(pc'[v], frame'[v])
  <2> SUFFICES ASSUME NEW v \in Workers, pc'[v] # "idle"
               PROVE  Happens(frame'[v].item) /\ Suits(pc'[v], frame'[v])
    OBVIOUS
  <2>1. CASE v = w  BY <1>1, <2>1
  <2>2. CASE v # w
    <3>1. pc'[v] = pc[v] /\ frame'[v] = frame[v]  BY <1>1, <2>2
    <3>2. Happens(frame[v].item) /\ Suits(pc[v], frame[v])  BY <3>1 DEF GInv
    <3> QED  BY <3>1, <3>2
  <2> QED  BY <2>1, <2>2
<1>4. \A x \in q'.dirty : Happens(x)  BY DEF GInv
<1> QED  BY <1>2, <1>3, <1>4 DEF GInv

\* The worker loop keeps GInv.
LEMMA WorkerLoopG ==
  ASSUME IInv, ChainInv, GInv, NEW w \in Workers, Get(w) \/ Lock(w) \/ Unlock(w) \/ Done(w)
  PROVE  GInv'
<1>1. /\ frame \in [Workers -> Frames] /\ pc \in [Workers -> Labels] /\ q \in Queues(Items)
      /\ QueueConsistent(q)
  BY DEF IInv, TypeOK, KeysHandledOnce
<1>2. pc[w] # "idle" => up = TRUE  BY DEF ChainInv, IInv, TypeOK
<1>3. /\ notes' = notes /\ up' = up /\ iptable' = iptable /\ np' = np
  BY DEF Get, Lock, Unlock, Done, clusterVars
<1>4. frame = [frame EXCEPT ![w] = frame[w]]  BY <1>1
<1>5. CASE Get(w)
  <2> DEFINE x == Head(q.queue)
             g == [EmptyFrame EXCEPT !.item = x,
                     !.cur = IF x.kind = "logicalnetwork" THEN x.name ELSE Blank]
  <2>1. /\ up = TRUE /\ pc[w] = "idle" /\ q.queue # << >> /\ q' = QueueGet(q)
        /\ pc' = [pc EXCEPT ![w] = "got"] /\ frame' = [frame EXCEPT ![w] = g]
    BY <1>5 DEF Get, IInv, TypeOK
  <2>2. g.item = x  BY DEF EmptyFrame
  <2>3. q'.dirty \subseteq q.dirty /\ q'.processing = q.processing \cup {x}
    BY <2>1 DEF QueueGet
  <2>4. x \in q.dirty
    <3>1. Held(q.queue) = q.dirty \ q.processing  BY <1>1, ConsistentHeld
    <3>2. x \in Held(q.queue)  BY <1>1, <2>1, HeadHeld DEF Queues
    <3> QED  BY <3>1, <3>2
  <2>5. Happens(x)  BY <2>4 DEF GInv
  <2> HIDE DEF g, x
  <2>6. Suits("got", g)  BY DEF Suits, Adding, Removing
  <2> QED  BY <1>3, <2>1, <2>2, <2>3, <2>5, <2>6, LoopG
<1>6. CASE Lock(w)
  <2> DEFINE l == HandlerOf(frame[w].item)
  <2>1. /\ pc[w] = "got" /\ q' = q /\ frame' = frame /\ pc' = [pc EXCEPT ![w] = l]
    BY <1>6 DEF Lock
  <2>2. frame[w].item \in Items /\ Happens(frame[w].item)  BY <2>1 DEF IInv, Fits, GInv
  <2>3. l \in Handlers /\ Suits(l, frame[w])
    BY <2>2, HandlerIs DEF Suits, Adding, Removing, Handlers
  <2> HIDE DEF l
  <2>4. frame' = [frame EXCEPT ![w] = frame[w]] /\ l # "idle" /\ up = TRUE
    BY <1>2, <1>4, <2>1, <2>3 DEF Handlers
  <2>5. \A x \in q.processing : (x \in q.processing /\ (x # frame[w].item \/ pc[w] = "idle"))
                                \/ (l # "idle" /\ x = frame[w].item)
    BY <2>4
  <2> QED  BY <1>3, <2>1, <2>2, <2>3, <2>4, <2>5, LoopG
<1>7. CASE Unlock(w)
  <2>1. /\ pc[w] = "returned" /\ q' = q /\ frame' = frame
        /\ pc' = [pc EXCEPT ![w] = "unlocked"]
    BY <1>7 DEF Unlock
  <2>2. Suits("unlocked", frame[w]) /\ Happens(frame[w].item)
    BY <2>1 DEF Suits, Adding, Removing, GInv
  <2>3. frame' = [frame EXCEPT ![w] = frame[w]] /\ up = TRUE  BY <1>2, <1>4, <2>1
  <2>4. \A x \in q.processing : (x \in q.processing /\ (x # frame[w].item \/ pc[w] = "idle"))
                                \/ ("unlocked" # "idle" /\ x = frame[w].item)
    OBVIOUS
  <2> QED  BY <1>3, <2>1, <2>2, <2>3, <2>4, LoopG
<1>8. CASE Done(w)
  <2>1. /\ pc[w] = "unlocked" /\ q' = QueueDone(q, frame[w].item)
        /\ frame' = [frame EXCEPT ![w] = EmptyFrame] /\ pc' = [pc EXCEPT ![w] = "idle"]
    BY <1>8 DEF Done
  <2>2. q'.dirty = q.dirty /\ q'.processing = q.processing \ {frame[w].item}
    BY <1>1, <2>1 DEF QueueDone, Queues
  <2> DEFINE l == "idle"
             f == EmptyFrame
  <2>3. l = "idle" /\ frame' = [frame EXCEPT ![w] = f] /\ pc' = [pc EXCEPT ![w] = l]
    BY <2>1
  <2> HIDE DEF l, f
  <2>4. \A x \in q'.processing : (x \in q.processing /\ (x # frame[w].item \/ pc[w] = "idle"))
                                 \/ (l # "idle" /\ x = f.item)
    BY <2>2
  <2>5. up = TRUE  BY <1>2, <2>1
  <2>6. q'.dirty \subseteq q.dirty  BY <2>2
  <2> QED  BY <1>3, <2>3, <2>4, <2>5, <2>6, LoopG
<1> QED  BY <1>5, <1>6, <1>7, <1>8

\* Nothing is there at first.
LEMMA InitG == Init => GInv
<1> SUFFICES ASSUME Init PROVE GInv  OBVIOUS
<1>1. /\ up = FALSE /\ q = EmptyQueue /\ iptable = FreshTable
      /\ \A p \in Policies : np[p] = Absent
      /\ \A k \in Kinds : notes[k] = << >>
      /\ \A w \in Workers : pc[w] = "idle"
  BY DEF Init
<1>2. Held(<< >>) = {} /\ EmptyQueue.dirty = {} /\ EmptyQueue.processing = {}
  BY DEF Held, EmptyQueue
<1>3. Orderly(FreshTable)
  BY ChainsApart, EmptyIn, OrderlyIn DEF FreshTable
<1>4. \A x \in q.processing : FALSE  BY <1>1, <1>2
<1> QED  BY <1>1, <1>2, <1>3, <1>4 DEF GInv

\* Every step keeps them.
LEMMA NextG == IInv /\ ChainInv /\ GInv /\ [Next]_vars => GInv'
<1> SUFFICES ASSUME IInv, ChainInv, GInv, [Next]_vars PROVE GInv'  OBVIOUS
<1>1. ASSUME NEW w \in Workers, Worker(w) PROVE GInv'
  BY <1>1, WorkerLoopG, PolicyHandlersG, NetworkAddG, RemovalG DEF Worker, Handler
<1>2. CASE UNCHANGED vars
  BY <1>2 DEF vars, GInv
<1> QED  BY <1>1, <1>2, ClusterG, RunG, StopG, NotifyG DEF Next
-----------------------------------------------------------------------------
(***************************************************************************)
(* Cleaning up.                                                            *)
(***************************************************************************)
\* The controller is not restarted, and policies are not updated.
NeverUpdated == MaxStops = 0 /\ "UPDATE" \notin PolicyVerbs

\* Pairs of a policy and a network it selects, or did before a deletion that
\* is yet to be handled; policies that exist, or did.
Backed ==
  {x \in Policies \X Networks : \E a \in Annotations \ {Blank} :
     /\ x[2] \in Selectors(a)
     /\ np[x[1]] = a \/ PolicyItem(x[1], "DELETE", a) \in Pending}

Known ==
  {p \in Policies : \E a \in Annotations \ {Blank} :
     np[p] = a \/ PolicyItem(p, "DELETE", a) \in Pending}

\* The worker is taking policy p down.
Drops(l, f, p) == l \in {"unlink", "scanNetwork", "scanBase"} /\ f.item.kind = "networkpolicy" /\ f.item.name = p

\* It will meet the jump of network n, or is about to.
WillMeet(l, f, p, n) ==
  /\ Drops(l, f, p)
  /\ \/ n \in f.nets
     \/ /\ l = "scanNetwork" /\ f.cur = n
        /\ \E j \in DOMAIN f.snap : j >= f.i /\ f.snap[j].target = PolicyChain(p)

WillDrop(l, f, n) ==
  \E p \in Policies : /\ Drops(l, f, p)
                      /\ n \in f.nets \/ (l \in {"scanNetwork", "scanBase"} /\ f.cur = n)

\* Every jump, network chain and policy chain has its reason.
Kept(l, f, t, B, K) ==
  /\ \A n \in Networks, p \in Policies :
       Untargeted(t.rules[NetworkChain(n)], PolicyChain(p))
         \/ <<p, n>> \in B \/ WillMeet(l, f, p, n)
  /\ \A n \in Networks : NetworkChain(n) \in t.chains =>
       (\E p \in Policies : <<p, n>> \in B) \/ WillDrop(l, f, n)
  /\ \A p \in Policies : PolicyChain(p) \in t.chains => p \in K \/ Drops(l, f, p)

\* The listing holds what else is in the chain; what is set up is selected.
Minds(l, f, t, B) ==
  /\ l = "scanNetwork" =>
       /\ \A j \in DOMAIN f.snap : f.snap[j].target # PolicyChain(f.item.name) =>
            In(t.rules[NetworkChain(f.cur)], f.snap[j])
       /\ f.cnt # 0 => \E p \in Policies \ {f.item.name} :
            ~Untargeted(t.rules[NetworkChain(f.cur)], PolicyChain(p))
  /\ l \in Adding /\ f.item.kind = "networkpolicy" =>
       \A n \in f.nets : <<f.item.name, n>> \in B
  /\ l \in AtInfos => \A x \in f.infos : x.via = f.cur => <<x.policy, f.cur>> \in B
  /\ l \in AtChain => <<f.policy, f.cur>> \in B

Clean(l, f, t, B, K) == Kept(l, f, t, B, K) /\ Minds(l, f, t, B)

CInv ==
  /\ up = FALSE => iptable = FreshTable
  /\ up = TRUE =>
       /\ \A w \in Workers : pc[w] \in Inside =>
            Clean(pc[w], frame[w], iptable, Backed, Known)
       /\ (\A w \in Workers : pc[w] \notin Inside) =>
            Clean("idle", EmptyFrame, iptable, Backed, Known)
-----------------------------------------------------------------------------
\* A policy that backs a network is known.
LEMMA BackedKnown ==
  ASSUME NEW p \in Policies, NEW n, <<p, n>> \in Backed
  PROVE  p \in Known
BY DEF Backed, Known

\* What a policy that exists selects.
LEMMA NowBacked ==
  ASSUME TypeOK, NEW p \in Policies, Parsable(np[p])
  PROVE  /\ p \in Known
         /\ \A n \in Selectors(np[p]) : n \in Networks /\ <<p, n>> \in Backed
<1>1. np[p] \in Annotations \ {Blank}  BY ListerTypes DEF Parsable
<1>2. Selectors(np[p]) \subseteq Networks  BY <1>1, AnnotationTypes
<1> QED  BY <1>1, <1>2 DEF Known, Backed

\* Both stay while deletions stay pending.
LEMMA BackedStays ==
  ASSUME np' = np,
         \A p \in Policies, a \in Annotations :
           PolicyItem(p, "DELETE", a) \in Pending => PolicyItem(p, "DELETE", a) \in Pending'
  PROVE  Backed \subseteq Backed' /\ Known \subseteq Known'
<1> USE DEF Backed, Known
<1>1. Backed \subseteq Backed'  OBVIOUS
<1>2. Known \subseteq Known'  OBVIOUS
<1> QED  BY <1>1, <1>2

\* Steps of the handlers, except the first of handleNetworkPolicyDelete.
LEMMA StepBacked ==
  ASSUME IInv, GInv, NEW w \in Workers, NEW to, NEW f, NEW t, Step(w, to, f, t),
         pc[w] \in Inside, pc[w] # "policyDelete"
  PROVE  Backed \subseteq Backed' /\ Known \subseteq Known'
<1>1. np' = np  BY DEF Step, clusterVars
<1>2. pc[w] = HandlerOf(frame[w].item) =>
        \A p \in Policies, a \in Annotations : PolicyItem(p, "DELETE", a) # frame[w].item
  <2> SUFFICES ASSUME NEW p \in Policies, NEW a \in Annotations,
                      frame[w].item = PolicyItem(p, "DELETE", a)
               PROVE  pc[w] # HandlerOf(frame[w].item)
    OBVIOUS
  <2>1. HandlerOf(PolicyItem(p, "DELETE", a)) = "policyDelete"
    BY DEF HandlerOf, PolicyItem
  <2> QED  BY <2>1
<1>3. \A p \in Policies, a \in Annotations :
        PolicyItem(p, "DELETE", a) \in Pending => PolicyItem(p, "DELETE", a) \in Pending'
  BY <1>2, StepPending
<1> QED  BY <1>1, <1>3, BackedStays

\* What a worker inside syncHandler finds, and what it has to leave.
LEMMA FoundClean ==
  ASSUME IInv, ChainInv, CInv, NEW w \in Workers, pc[w] \in Inside
  PROVE  Kept(pc[w], frame[w], iptable, Backed, Known) /\ Minds(pc[w], frame[w], iptable, Backed)
BY Found DEF CInv, Clean

\* A step of a handler that leaves things clean keeps CInv.
LEMMA StepClean ==
  ASSUME IInv, ChainInv, NEW w \in Workers, pc[w] \in Inside, NEW to \in Inside,
         NEW f, NEW t, Step(w, to, f, t),
         Kept(to, f, t, Backed', Known'), Minds(to, f, t, Backed')
  PROVE  CInv'
<1>1. up = TRUE /\ up' = up /\ iptable' = t  BY Found DEF Step
<1>2. /\ pc'[w] = to /\ frame'[w] = f
      /\ \A v \in Workers : v # w => pc'[v] = pc[v]
  BY DEF Step, IInv, TypeOK
<1>3. \A v \in Workers : pc'[v] \in Inside => v = w  BY <1>2, Alone
<1>4. \A v \in Workers : pc'[v] \in Inside =>
        Clean(pc'[v], frame'[v], iptable', Backed', Known')
  BY <1>1, <1>2, <1>3 DEF Clean
<1>5. pc'[w] \in Inside  BY <1>2
<1> QED  BY <1>1, <1>4, <1>5 DEF CInv

\* The table edited by someone who is not taking a policy down.
LEMMA KeptEdit ==
  ASSUME NEW l, NEW f, NEW t, NEW B, NEW K, Kept(l, f, t, B, K),
         \A p \in Policies : ~Drops(l, f, p),
         NEW to, NEW g, NEW u, NEW C, NEW L, B \subseteq C, K \subseteq L,
         \A n \in Networks, p \in Policies :
           Untargeted(t.rules[NetworkChain(n)], PolicyChain(p)) =>
             Untargeted(u.rules[NetworkChain(n)], PolicyChain(p)) \/ <<p, n>> \in C,
         \A n \in Networks : NetworkChain(n) \in u.chains =>
           NetworkChain(n) \in t.chains \/ \E p \in Policies : <<p, n>> \in C,
         \A p \in Policies : PolicyChain(p) \in u.chains =>
           PolicyChain(p) \in t.chains \/ p \in L
  PROVE  Kept(to, g, u, C, L)
<1>1. \A n \in Networks, p \in Policies : ~WillMeet(l, f, p, n) /\ ~WillDrop(l, f, n)
  BY DEF WillMeet, WillDrop
<1>2. \A n \in Networks, p \in Policies :
        Untargeted(u.rules[NetworkChain(n)], PolicyChain(p)) \/ <<p, n>> \in C
  BY <1>1 DEF Kept
<1>3. \A n \in Networks : NetworkChain(n) \in u.chains => \E p \in Policies : <<p, n>> \in C
  BY <1>1 DEF Kept, WillDrop
<1>4. \A p \in Policies : PolicyChain(p) \in u.chains => p \in L  BY DEF Kept
<1> QED  BY <1>2, <1>3, <1>4 DEF Kept

\* Editing a chain that is not a network's, without new chains.
LEMMA Aside ==
  ASSUME NEW t, NEW u, NEW c \in Chains, Elsewhere(t, u, c), u.chains \subseteq t.chains,
         \A n \in Networks : c # NetworkChain(n)
  PROVE  /\ \A n \in Networks : u.rules[NetworkChain(n)] = t.rules[NetworkChain(n)]
         /\ \A n \in Networks : NetworkChain(n) \in u.chains => NetworkChain(n) \in t.chains
         /\ \A p \in Policies : PolicyChain(p) \in u.chains => PolicyChain(p) \in t.chains
BY ChainKinds DEF Elsewhere

\* Accepting a peer.
LEMMA PeerAside ==
  ASSUME TypeOK, Sound(iptable), NEW p \in Policies
  PROVE  /\ \A m \in Networks : /\ Elsewhere(iptable, AcceptPeer(p, m), PolicyChain(p))
                                /\ AcceptPeer(p, m).chains \subseteq iptable.chains
         /\ \A s \in Subnets \cup {Blank} :
              /\ Elsewhere(iptable, insertPeerRule(iptable, p, s), PolicyChain(p))
              /\ insertPeerRule(iptable, p, s).chains \subseteq iptable.chains
<1>1. \A s \in Subnets \cup {Blank} :
        /\ Elsewhere(iptable, insertPeerRule(iptable, p, s), PolicyChain(p))
        /\ insertPeerRule(iptable, p, s).chains \subseteq iptable.chains
  BY PeerEffect, PeerMore
<1>2. Elsewhere(iptable, iptable, PolicyChain(p))  BY DEF Elsewhere
<1> QED  BY <1>1, <1>2, ListerTypes DEF AcceptPeer

\* A rule put into one chain.
LEMMA Jumped ==
  ASSUME NEW t, NEW u, NEW c \in Chains, Elsewhere(t, u, c), NEW B, NEW r,
         \A x : In(u.rules[c], x) => In(t.rules[c], x) \/ x = r,
         \A n \in Networks, p \in Policies :
           c = NetworkChain(n) /\ r.target = PolicyChain(p) => <<p, n>> \in B
  PROVE  \A n \in Networks, p \in Policies :
           Untargeted(t.rules[NetworkChain(n)], PolicyChain(p)) =>
             Untargeted(u.rules[NetworkChain(n)], PolicyChain(p)) \/ <<p, n>> \in B
<1> SUFFICES ASSUME NEW n \in Networks, NEW p \in Policies,
                    Untargeted(t.rules[NetworkChain(n)], PolicyChain(p)),
                    ~Untargeted(u.rules[NetworkChain(n)], PolicyChain(p))
             PROVE  <<p, n>> \in B
  OBVIOUS
<1>1. NetworkChain(n) = c  BY ChainKinds DEF Elsewhere
<1>2. PICK x : In(u.rules[c], x) /\ x.target = PolicyChain(p)  BY <1>1 DEF Untargeted, In
<1>3. x = r  BY <1>1, <1>2 DEF Untargeted, In
<1> QED  BY <1>1, <1>2, <1>3

\* The policies that are listed as selecting a network.
LEMMA ListedBacked ==
  ASSUME TypeOK, NEW n \in Networks, NEW x \in ListNetworkPolicies(n), x.via = n
  PROVE  <<x.policy, n>> \in Backed
<1>1. PICK p \in Policies : /\ Parsable(np[p])
                            /\ x \in IF n \in Selectors(np[p])
                                     THEN {[policy |-> p, via |-> n, peers |-> PeersOf(np[p], n)]}
                                     ELSE {[policy |-> p, via |-> s, peers |-> {}] :
                                             s \in {y \in Selectors(np[p]) : n \in PeersOf(np[p], y)}}
  BY DEF ListNetworkPolicies
<1>2. n \in Selectors(np[p]) /\ x.policy = p  BY <1>1
<1> QED  BY <1>1, <1>2, NowBacked

\* A step of a handler that is not taking a policy down.
LEMMA PlainClean ==
  ASSUME IInv, ChainInv, GInv, CInv, NEW w \in Workers, pc[w] \in Inside,
         pc[w] # "policyDelete", \A p \in Policies : ~Drops(pc[w], frame[w], p),
         NEW to \in Inside \ {"scanNetwork"}, NEW g, NEW t, Step(w, to, g, t),
         \A n \in Networks, p \in Policies :
           Untargeted(iptable.rules[NetworkChain(n)], PolicyChain(p)) =>
             Untargeted(t.rules[NetworkChain(n)], PolicyChain(p)) \/ <<p, n>> \in Backed,
         \A n \in Networks : NetworkChain(n) \in t.chains =>
           NetworkChain(n) \in iptable.chains \/ \E p \in Policies : <<p, n>> \in Backed,
         \A p \in Policies : PolicyChain(p) \in t.chains =>
           PolicyChain(p) \in iptable.chains \/ p \in Known,
         to \in Adding /\ g.item.kind = "networkpolicy" =>
           \A n \in g.nets : <<g.item.name, n>> \in Backed,
         to \in AtInfos => \A x \in g.infos : x.via = g.cur => <<x.policy, g.cur>> \in Backed,
         to \in AtChain => <<g.policy, g.cur>> \in Backed
  PROVE  CInv'
<1>1. Kept(pc[w], frame[w], iptable, Backed, Known)  BY FoundClean
<1>2. Backed \subseteq Backed' /\ Known \subseteq Known'  BY StepBacked
<1> DEFINE B == Backed'  K == Known'
<1> HIDE DEF B, K
<1>3. Backed \subseteq B /\ Known \subseteq K  BY <1>2 DEF B, K
<1>4. Kept(to, g, t, B, K)  BY <1>1, <1>3, KeptEdit
<1>5. Minds(to, g, t, B)  BY <1>3 DEF Minds
<1> QED  BY <1>4, <1>5, StepClean DEF B, K

\* The handlers of a policy that is added.
LEMMA PolicyAddClean ==
  ASSUME IInv, ChainInv, GInv, CInv, NEW w \in Workers,
         handleNetworkPolicyAdd(w) \/ populatePolicyChain(w) \/ populatePeers(w)
  PROVE  CInv'
<1> DEFINE f == frame[w]
           p == f.item.name
<1>1. /\ pc[w] \in {"policyAdd", "populate", "peers"} /\ pc[w] \in Inside /\ pc[w] \in AtPolicy
      /\ \A r \in Policies : ~Drops(pc[w], f, r)
      /\ pc[w] # "policyAdd" => pc[w] \in Adding
  BY DEF handleNetworkPolicyAdd, populatePolicyChain, populatePeers, Inside, Handlers,
         AtPolicy, Drops, Adding
<1>2. /\ TypeOK /\ iptable \in Tables /\ Sound(iptable) /\ f \in Frames /\ p \in Policies
      /\ f.nets \subseteq Networks /\ f.peers \subseteq Networks
      /\ f.item.kind = "networkpolicy"
  BY <1>1, FoundG, ItemKinds DEF Fits, Frames
<1>3. pc[w] # "policyAdd" => \A n \in f.nets : <<p, n>> \in Backed
  BY <1>1, <1>2, FoundClean DEF Minds
<1>4. ASSUME NEW to \in {"returned", "populate", "networkAdd", "peers"}, NEW g, NEW t,
             Step(w, to, g, t), g.item = f.item,
             \A n \in Networks, r \in Policies :
               Untargeted(iptable.rules[NetworkChain(n)], PolicyChain(r)) =>
                 Untargeted(t.rules[NetworkChain(n)], PolicyChain(r)) \/ <<r, n>> \in Backed,
             \A n \in Networks : NetworkChain(n) \in t.chains => NetworkChain(n) \in iptable.chains,
             \A r \in Policies : PolicyChain(r) \in t.chains =>
               PolicyChain(r) \in iptable.chains \/ r \in Known,
             to = "returned" \/ \A n \in g.nets : <<p, n>> \in Backed
      PROVE  CInv'
  <2>1. to \in Inside \ {"scanNetwork"} /\ to \notin AtInfos /\ to \notin AtChain
        /\ (to \in Adding => to # "returned")
    BY DEF Inside, Handlers, AtInfos, AtSubnet, AtChain, Adding
  <2> QED  BY <1>1, <1>4, <2>1, PlainClean
<1>5. ASSUME NEW to \in {"returned", "populate", "networkAdd", "peers"}, NEW g, NEW t,
             Step(w, to, g, t), g.item = f.item,
             NEW c \in Chains, Elsewhere(iptable, t, c), t.chains \subseteq iptable.chains,
             \A n \in Networks : c # NetworkChain(n),
             to = "returned" \/ \A n \in g.nets : <<p, n>> \in Backed
      PROVE  CInv'
  BY <1>4, <1>5, Aside
<1>6. PolicyChain(p) \in Chains /\ \A n \in Networks : PolicyChain(p) # NetworkChain(n)
  BY <1>2, ChainKinds, ChainsApart
<1>7. Elsewhere(iptable, iptable, PolicyChain(p)) /\ iptable.chains \subseteq iptable.chains
  BY DEF Elsewhere
<1>8. CASE handleNetworkPolicyAdd(w)
  <2> DEFINE a == np[p]
             g == [f EXCEPT !.ann = a, !.nets = Selectors(a)]
             t == AddPolicyChain(iptable, p)
  <2>1. CASE Step(w, "returned", f, iptable)  BY <1>5, <1>6, <1>7, <2>1
  <2>2. CASE Parsable(a) /\ \E to \in {"returned", "populate"} : Step(w, to, g, t)
    <3>1. g.item = f.item /\ g.nets = Selectors(a)  BY <1>2 DEF Frames
    <3>2. p \in Known /\ \A n \in Selectors(a) : <<p, n>> \in Backed
      BY <1>2, <2>2, NowBacked
    <3>3. Elsewhere(iptable, t, PolicyChain(p)) /\ t.chains = iptable.chains \cup {PolicyChain(p)}
      BY <1>2, <1>6, ClearEffect, ClearChainType DEF AddPolicyChain
    <3> HIDE DEF g, t, a
    <3>4. /\ \A n \in Networks : t.rules[NetworkChain(n)] = iptable.rules[NetworkChain(n)]
          /\ \A n \in Networks : NetworkChain(n) \in t.chains => NetworkChain(n) \in iptable.chains
          /\ \A r \in Policies : PolicyChain(r) \in t.chains =>
               PolicyChain(r) \in iptable.chains \/ r \in Known
      BY <1>2, <1>6, <3>2, <3>3, ChainKinds, ChainsApart DEF Elsewhere
    <3> QED  BY <1>4, <2>2, <3>1, <3>2, <3>4
  <2> QED  BY <1>8, <2>1, <2>2 DEF handleNetworkPolicyAdd
<1>9. CASE populatePolicyChain(w)
  <2>1. CASE Step(w, "returned", f, iptable)  BY <1>5, <1>6, <1>7, <2>1
  <2>2. ASSUME NEW n \in f.nets,
               LET g == [f EXCEPT !.nets = f.nets \ {n}, !.cur = n, !.peers = PeersOf(f.ann, n)]
                   r == InsertRule(iptable, NetworkChain(n), Jump(PolicyChain(p)))
               IN  IF NetworkChain(n) \notin iptable.chains
                   THEN Step(w, "networkAdd", g, iptable)
                   ELSE Step(w, IF r.exit = 0 THEN "peers" ELSE "populate", g, r.tbl)
        PROVE  CInv'
    <3> DEFINE g == [f EXCEPT !.nets = f.nets \ {n}, !.cur = n, !.peers = PeersOf(f.ann, n)]
               r == InsertRule(iptable, NetworkChain(n), Jump(PolicyChain(p)))
    <3>1. /\ g.item = f.item /\ g.nets \subseteq f.nets
      BY <1>2 DEF Frames
    <3>2. (\A m \in g.nets : <<p, m>> \in Backed) /\ <<p, n>> \in Backed
      BY <1>3, <1>9, <3>1 DEF populatePolicyChain
    <3>3. \/ Step(w, "networkAdd", g, iptable)
          \/ \E to \in {"peers", "populate"} : Step(w, to, g, r.tbl)
      BY <2>2
    <3>4. /\ n \in Networks /\ NetworkChain(n) \in Chains
          /\ Jump(PolicyChain(p)) \in Rules /\ Jump(PolicyChain(p)).target = PolicyChain(p)
      BY <1>2, RuleTypes, ChainKinds
    <3>5. /\ Elsewhere(iptable, r.tbl, NetworkChain(n)) /\ r.tbl.chains = iptable.chains
          /\ \A x : In(r.tbl.rules[NetworkChain(n)], x) =>
               In(iptable.rules[NetworkChain(n)], x) \/ x = Jump(PolicyChain(p))
      BY <1>2, <3>4, InsertRuleEffect
    <3> HIDE DEF g, r
    <3>6. \A m \in Networks, s \in Policies :
            Untargeted(iptable.rules[NetworkChain(m)], PolicyChain(s)) =>
              Untargeted(r.tbl.rules[NetworkChain(m)], PolicyChain(s)) \/ <<s, m>> \in Backed
      <4>1. \A m \in Networks, s \in Policies :
              NetworkChain(n) = NetworkChain(m) /\ PolicyChain(p) = PolicyChain(s)
                => <<s, m>> \in Backed
        BY <1>2, <3>2, <3>4, ChainsApart
      <4> QED  BY <3>4, <3>5, <4>1, Jumped
    <3>7. CASE Step(w, "networkAdd", g, iptable)  BY <1>5, <1>6, <1>7, <3>1, <3>2, <3>7
    <3>8. ASSUME NEW to \in {"peers", "populate"}, Step(w, to, g, r.tbl) PROVE CInv'
      BY <1>4, <3>1, <3>2, <3>5, <3>6, <3>8
    <3> QED  BY <3>3, <3>7, <3>8
  <2> QED  BY <1>9, <2>1, <2>2 DEF populatePolicyChain
<1>10. CASE populatePeers(w)
  <2>1. CASE Step(w, "populate", f, iptable)
    BY <1>3, <1>5, <1>6, <1>7, <1>10, <2>1 DEF populatePeers
  <2>2. ASSUME NEW m \in f.peers,
               Step(w, "peers", [f EXCEPT !.peers = f.peers \ {m}], AcceptPeer(p, m))
        PROVE  CInv'
    <3> DEFINE g == [f EXCEPT !.peers = f.peers \ {m}]
               t == AcceptPeer(p, m)
    <3>1. g.item = f.item /\ g.nets = f.nets  BY <1>2 DEF Frames
    <3>2. Elsewhere(iptable, t, PolicyChain(p)) /\ t.chains \subseteq iptable.chains
      BY <1>2, PeerAside
    <3>3. \A n \in f.nets : <<p, n>> \in Backed  BY <1>3, <1>10 DEF populatePeers
    <3>4. Step(w, "peers", g, t)  BY <2>2
    <3> HIDE DEF g, t
    <3> QED  BY <1>5, <1>6, <3>1, <3>2, <3>3, <3>4
  <2> QED  BY <1>10, <2>1, <2>2 DEF populatePeers
<1> QED  BY <1>8, <1>9, <1>10

\* handleLogicalNetworkAdd, for a key of its own or called for a policy.
LEMMA NetworkAddClean ==
  ASSUME IInv, ChainInv, GInv, CInv, NEW w \in Workers,
         \/ handleLogicalNetworkAdd(w) \/ listPoliciesForAdd(w)
         \/ handleLogicalNetworkAddPolicies(w) \/ closeNetwork(w) \/ linkNetwork(w)
         \/ imposePolicy(w) \/ handleLogicalNetworkAddPeers(w)
  PROVE  CInv'
<1> DEFINE f == frame[w]
<1>1. /\ pc[w] \in Adding /\ pc[w] \in Inside /\ pc[w] \in AtNetwork
      /\ pc[w] # "policyDelete" /\ \A r \in Policies : ~Drops(pc[w], f, r)
      /\ pc[w] \notin {"networkAdd", "networkList"} => pc[w] \in AtInfos
  BY DEF handleLogicalNetworkAdd, listPoliciesForAdd, handleLogicalNetworkAddPolicies,
         closeNetwork, linkNetwork, imposePolicy, handleLogicalNetworkAddPeers,
         Inside, Handlers, AtNetwork, Adding, Drops, AtInfos, AtSubnet
<1>2. /\ TypeOK /\ iptable \in Tables /\ Sound(iptable) /\ f \in Frames /\ f.cur \in Networks
      /\ f.infos \subseteq Infos /\ f.lpeers \subseteq Networks
      /\ f.subnet \in Subnets \cup {Blank}
      /\ NetworkChain(f.cur) \in Chains
  BY <1>1, FoundG, ChainKinds DEF Fits, Frames
<1>3. /\ f.item.kind = "networkpolicy" => \A n \in f.nets : <<f.item.name, n>> \in Backed
      /\ pc[w] \in AtInfos => \A x \in f.infos : x.via = f.cur => <<x.policy, f.cur>> \in Backed
      /\ pc[w] \in AtChain => <<f.policy, f.cur>> \in Backed
      /\ pc[w] \in AtChain \cup {"networkPeers"} => f.policy \in Policies
  BY <1>1, FoundG, FoundClean DEF Minds, Fits, AtInfo, AtChain
<1>4. ASSUME NEW to \in Adding \cup {"returned"}, NEW g, NEW t, Step(w, to, g, t),
             g.item = f.item, g.nets = f.nets, g.cur = f.cur,
             \A n \in Networks, r \in Policies :
               Untargeted(iptable.rules[NetworkChain(n)], PolicyChain(r)) =>
                 Untargeted(t.rules[NetworkChain(n)], PolicyChain(r)) \/ <<r, n>> \in Backed,
             \A n \in Networks : NetworkChain(n) \in t.chains =>
               NetworkChain(n) \in iptable.chains \/ \E p \in Policies : <<p, n>> \in Backed,
             \A r \in Policies : PolicyChain(r) \in t.chains => PolicyChain(r) \in iptable.chains,
             to \in AtInfos => \A x \in g.infos : x.via = f.cur => <<x.policy, f.cur>> \in Backed,
             to \in AtChain => <<g.policy, f.cur>> \in Backed
      PROVE  CInv'
  <2>1. to \in Inside \ {"scanNetwork"}  BY DEF Inside, Handlers, Adding
  <2>2. to \in Adding /\ g.item.kind = "networkpolicy" =>
          \A n \in g.nets : <<g.item.name, n>> \in Backed
    BY <1>3, <1>4
  <2> QED  BY <1>1, <1>4, <2>1, <2>2, PlainClean
<1>5. ASSUME NEW to \in Adding \cup {"returned"}, NEW g, NEW t, Step(w, to, g, t),
             g.item = f.item, g.nets = f.nets, g.cur = f.cur,
             \A n \in Networks : t.rules[NetworkChain(n)] = iptable.rules[NetworkChain(n)],
             \A n \in Networks : NetworkChain(n) \in t.chains => NetworkChain(n) \in iptable.chains,
             \A r \in Policies : PolicyChain(r) \in t.chains => PolicyChain(r) \in iptable.chains,
             to \in AtInfos => \A x \in g.infos : x.via = f.cur => <<x.policy, f.cur>> \in Backed,
             to \in AtChain => <<g.policy, f.cur>> \in Backed
      PROVE  CInv'
  BY <1>4, <1>5
<1>6. /\ {"populate", "peers", "networkList", "networkPolicies", "close", "linkTo", "linkFrom",
          "impose", "networkPeers"} \subseteq Adding
      /\ {"populate", "peers", "returned", "networkList"} \cap (AtInfos \cup AtChain) = {}
      /\ {"networkPolicies", "networkPeers"} \cap AtChain = {}
      /\ {"close", "linkTo", "linkFrom", "impose"} \subseteq AtChain
      /\ Failed(w) \in {"populate", "returned"} /\ Succeeded(w) \in {"peers", "returned"}
  BY DEF Adding, AtInfos, AtSubnet, AtChain, Failed, Succeeded
<1>7. CASE handleLogicalNetworkAdd(w)
  <2> DEFINE g == [f EXCEPT !.subnet = ln[f.cur]]
  <2>1. g.item = f.item /\ g.nets = f.nets /\ g.cur = f.cur  BY <1>2 DEF Frames
  <2>2. \/ \E to \in {"populate", "returned"} : Step(w, to, f, iptable)
        \/ Step(w, "networkList", g, iptable)
    BY <1>6, <1>7 DEF handleLogicalNetworkAdd
  <2> HIDE DEF g
  <2> QED  BY <1>5, <1>6, <2>1, <2>2
<1>8. CASE listPoliciesForAdd(w)
  <2> DEFINE g == [f EXCEPT !.infos = ListNetworkPolicies(f.cur)]
  <2>1. /\ g.item = f.item /\ g.nets = f.nets /\ g.cur = f.cur
        /\ g.infos = ListNetworkPolicies(f.cur)
    BY <1>2 DEF Frames
  <2>2. Step(w, "networkPolicies", g, iptable)  BY <1>8 DEF listPoliciesForAdd
  <2>3. \A x \in g.infos : x.via = f.cur => <<x.policy, f.cur>> \in Backed
    BY <1>2, <2>1, ListedBacked
  <2> HIDE DEF g
  <2> QED  BY <1>5, <1>6, <2>1, <2>2, <2>3
<1>9. CASE handleLogicalNetworkAddPolicies(w)
  <2>1. CASE Step(w, Succeeded(w), f, iptable)  BY <1>5, <1>6, <2>1
  <2>2. pc[w] \in AtInfos  BY <1>1, <1>9 DEF handleLogicalNetworkAddPolicies
  <2>3. ASSUME NEW info \in f.infos,
               IF info.via = f.cur
               THEN Step(w, "close",
                         [f EXCEPT !.infos = f.infos \ {info}, !.policy = info.policy,
                                   !.lpeers = info.peers],
                         ClearChain(iptable, NetworkChain(f.cur)))
               ELSE Step(w, "networkPolicies",
                         [f EXCEPT !.infos = f.infos \ {info}],
                         insertPeerRule(iptable, info.policy, f.subnet))
        PROVE  CInv'
    <3> DEFINE g == [f EXCEPT !.infos = f.infos \ {info}, !.policy = info.policy,
                              !.lpeers = info.peers]
               h == [f EXCEPT !.infos = f.infos \ {info}]
               t == ClearChain(iptable, NetworkChain(f.cur))
               u == insertPeerRule(iptable, info.policy, f.subnet)
    <3>1. /\ g.item = f.item /\ g.nets = f.nets /\ g.cur = f.cur
          /\ g.infos \subseteq f.infos /\ g.policy = info.policy
          /\ h.item = f.item /\ h.nets = f.nets /\ h.cur = f.cur /\ h.infos \subseteq f.infos
      BY <1>2 DEF Frames
    <3>2. info.policy \in Policies  BY <1>2 DEF Infos
    <3>3. /\ Elsewhere(iptable, t, NetworkChain(f.cur)) /\ t.rules[NetworkChain(f.cur)] = << >>
          /\ t.chains = iptable.chains \cup {NetworkChain(f.cur)}
      BY <1>2, ClearEffect, ClearChainType
    <3>4. /\ Elsewhere(iptable, u, PolicyChain(info.policy)) /\ u.chains \subseteq iptable.chains
      BY <1>2, <3>2, PeerAside
    <3>5. \/ info.via = f.cur /\ Step(w, "close", g, t)
          \/ Step(w, "networkPolicies", h, u)
      BY <2>3
    <3> HIDE DEF g, h, t, u
    <3>6. CASE info.via = f.cur /\ Step(w, "close", g, t)
      <4>1. <<info.policy, f.cur>> \in Backed  BY <1>3, <2>2, <3>6
      <4>2. \A n \in Networks, r \in Policies :
              Untargeted(iptable.rules[NetworkChain(n)], PolicyChain(r)) =>
                Untargeted(t.rules[NetworkChain(n)], PolicyChain(r)) \/ <<r, n>> \in Backed
        BY <3>3, ChainKinds DEF Elsewhere, Untargeted
      <4>3. /\ \A n \in Networks : NetworkChain(n) \in t.chains =>
                 NetworkChain(n) \in iptable.chains \/ \E p \in Policies : <<p, n>> \in Backed
            /\ \A r \in Policies : PolicyChain(r) \in t.chains => PolicyChain(r) \in iptable.chains
        BY <1>2, <3>2, <3>3, <4>1, ChainsApart
      <4>4. \A x \in g.infos : x.via = f.cur => <<x.policy, f.cur>> \in Backed
        BY <1>3, <2>2, <3>1
      <4> QED  BY <1>4, <1>6, <3>1, <3>6, <4>1, <4>2, <4>3, <4>4
    <3>7. CASE Step(w, "networkPolicies", h, u)
      <4>1. /\ \A n \in Networks : u.rules[NetworkChain(n)] = iptable.rules[NetworkChain(n)]
            /\ \A n \in Networks : NetworkChain(n) \in u.chains => NetworkChain(n) \in iptable.chains
            /\ \A p \in Policies : PolicyChain(p) \in u.chains => PolicyChain(p) \in iptable.chains
        BY <3>2, <3>4, Aside, ChainKinds, ChainsApart
      <4>2. \A x \in h.infos : x.via = f.cur => <<x.policy, f.cur>> \in Backed
        BY <1>3, <2>2, <3>1
      <4> QED  BY <1>5, <1>6, <3>1, <3>7, <4>1, <4>2
    <3> QED  BY <3>5, <3>6, <3>7
  <2> QED  BY <1>9, <2>1, <2>3 DEF handleLogicalNetworkAddPolicies
<1>10. CASE closeNetwork(w)
  <2> DEFINE t == AppendUnique(iptable, NetworkChain(f.cur), Jump(Reject)).tbl
  <2>1. pc[w] \in AtInfos /\ pc[w] \in AtChain /\ Step(w, "linkTo", f, t)
    BY <1>1, <1>10, <1>6 DEF closeNetwork
  <2>2. Jump(Reject) \in Rules /\ Jump(Reject).target = Reject  BY ChainKinds, RuleTypes
  <2>3. /\ Elsewhere(iptable, t, NetworkChain(f.cur)) /\ t.chains = iptable.chains
        /\ \A x : In(t.rules[NetworkChain(f.cur)], x) =>
             In(iptable.rules[NetworkChain(f.cur)], x) \/ x = Jump(Reject)
    BY <1>2, <2>2, AppendEffect, AppendMore
  <2> HIDE DEF t
  <2>4. \A n \in Networks, r \in Policies :
          Untargeted(iptable.rules[NetworkChain(n)], PolicyChain(r)) =>
            Untargeted(t.rules[NetworkChain(n)], PolicyChain(r)) \/ <<r, n>> \in Backed
    BY <1>2, <2>2, <2>3, Jumped, ChainKinds
  <2> QED  BY <1>3, <1>4, <1>6, <2>1, <2>3, <2>4
<1>11. CASE linkNetwork(w)
  <2> DEFINE dir == IF pc[w] = "linkTo" THEN "-d" ELSE "-s"
             r == AppendUnique(iptable, BaseChain, Link(f.cur, dir, f.subnet))
             g == [f EXCEPT !.lnChain = NoChain]
             h == [f EXCEPT !.lnChain = NetworkChain(f.cur)]
  <2>1. /\ g.item = f.item /\ g.nets = f.nets /\ g.cur = f.cur /\ g.infos = f.infos
        /\ g.policy = f.policy
        /\ h.item = f.item /\ h.nets = f.nets /\ h.cur = f.cur /\ h.infos = f.infos
        /\ h.policy = f.policy
    BY <1>2 DEF Frames
  <2>2. pc[w] \in AtInfos /\ pc[w] \in AtChain  BY <1>1, <1>6, <1>11 DEF linkNetwork
  <2>3. \/ Step(w, "impose", g, r.tbl)
        \/ \E to \in {"linkFrom", "impose"} : Step(w, to, h, r.tbl)
    BY <1>11 DEF linkNetwork
  <2>4. Link(f.cur, dir, f.subnet) \in Rules  BY <1>2, RuleTypes, ChainKinds DEF Link
  <2>5. Elsewhere(iptable, r.tbl, BaseChain) /\ r.tbl.chains \subseteq iptable.chains
    BY <1>2, <2>4, AppendEffect, ChainKinds
  <2> HIDE DEF dir, g, h, r
  <2>6. /\ \A n \in Networks : r.tbl.rules[NetworkChain(n)] = iptable.rules[NetworkChain(n)]
        /\ \A n \in Networks : NetworkChain(n) \in r.tbl.chains => NetworkChain(n) \in iptable.chains
        /\ \A p \in Policies : PolicyChain(p) \in r.tbl.chains => PolicyChain(p) \in iptable.chains
    BY <2>5, Aside, ChainKinds, ChainsApart
  <2> QED  BY <1>3, <1>5, <1>6, <2>1, <2>2, <2>3, <2>6
<1>12. CASE imposePolicy(w)
  <2> DEFINE r == InsertRule(iptable, f.lnChain, Jump(PolicyChain(f.policy)))
             g == [f EXCEPT !.infos = {}]
  <2>1. g.item = f.item /\ g.nets = f.nets /\ g.cur = f.cur /\ g.infos = {}  BY <1>2 DEF Frames
  <2>2. pc[w] = "impose" /\ pc[w] \in AtInfos /\ pc[w] \in AtChain
    BY <1>1, <1>6, <1>12 DEF imposePolicy
  <2>3. \/ Step(w, "networkPeers", f, r.tbl)
        \/ \E to \in {"populate", "returned"} : Step(w, to, g, r.tbl)
    BY <1>6, <1>12 DEF imposePolicy
  <2>4. /\ f.lnChain \in {NetworkChain(f.cur), NoChain} /\ f.lnChain \in Chains
        /\ f.policy \in Policies /\ <<f.policy, f.cur>> \in Backed
        /\ Jump(PolicyChain(f.policy)) \in Rules
        /\ Jump(PolicyChain(f.policy)).target = PolicyChain(f.policy)
    BY <1>1, <1>2, <1>3, <2>2, FoundG, RuleTypes, ChainKinds DEF Suits
  <2>5. /\ Elsewhere(iptable, r.tbl, f.lnChain) /\ r.tbl.chains = iptable.chains
        /\ \A x : In(r.tbl.rules[f.lnChain], x) =>
             In(iptable.rules[f.lnChain], x) \/ x = Jump(PolicyChain(f.policy))
    BY <1>2, <2>4, InsertRuleEffect
  <2> HIDE DEF g, r
  <2>6. \A n \in Networks, p \in Policies :
          f.lnChain = NetworkChain(n) /\ PolicyChain(f.policy) = PolicyChain(p)
            => <<p, n>> \in Backed
    BY <1>2, <2>4, ChainsApart
  <2>7. \A n \in Networks, p \in Policies :
          Untargeted(iptable.rules[NetworkChain(n)], PolicyChain(p)) =>
            Untargeted(r.tbl.rules[NetworkChain(n)], PolicyChain(p)) \/ <<p, n>> \in Backed
    BY <2>4, <2>5, <2>6, Jumped
  <2> QED  BY <1>3, <1>4, <1>6, <2>1, <2>2, <2>3, <2>5, <2>7
<1>13. CASE handleLogicalNetworkAddPeers(w)
  <2>1. pc[w] \in AtInfos /\ f.policy \in Policies
    BY <1>1, <1>3, <1>13 DEF handleLogicalNetworkAddPeers
  <2>2. CASE Step(w, "networkPolicies", f, iptable)  BY <1>3, <1>5, <1>6, <2>1, <2>2
  <2>3. ASSUME NEW m \in f.lpeers,
               Step(w, "networkPeers", [f EXCEPT !.lpeers = f.lpeers \ {m}],
                    AcceptPeer(f.policy, m))
        PROVE  CInv'
    <3> DEFINE g == [f EXCEPT !.lpeers = f.lpeers \ {m}]
               t == AcceptPeer(f.policy, m)
    <3>1. g.item = f.item /\ g.nets = f.nets /\ g.cur = f.cur /\ g.infos = f.infos
      BY <1>2 DEF Frames
    <3>2. Elsewhere(iptable, t, PolicyChain(f.policy)) /\ t.chains \subseteq iptable.chains
      BY <1>2, <2>1, PeerAside
    <3>3. Step(w, "networkPeers", g, t)  BY <2>3
    <3> HIDE DEF g, t
    <3>4. /\ \A n \in Networks : t.rules[NetworkChain(n)] = iptable.rules[NetworkChain(n)]
          /\ \A n \in Networks : NetworkChain(n) \in t.chains => NetworkChain(n) \in iptable.chains
          /\ \A p \in Policies : PolicyChain(p) \in t.chains => PolicyChain(p) \in iptable.chains
      BY <2>1, <3>2, Aside, ChainKinds, ChainsApart
    <3> QED  BY <1>3, <1>5, <1>6, <2>1, <3>1, <3>3, <3>4
  <2> QED  BY <1>13, <2>2, <2>3 DEF handleLogicalNetworkAddPeers
<1> QED  BY <1>7, <1>8, <1>9, <1>10, <1>11, <1>12, <1>13

\* A step of a handler that is taking policy p down.
LEMMA DropClean ==
  ASSUME IInv, ChainInv, GInv, CInv, NEW w \in Workers, pc[w] \in Inside,
         pc[w] # "policyDelete", NEW p \in Policies, Drops(pc[w], frame[w], p),
         NEW to \in Inside, NEW g, NEW t, Step(w, to, g, t),
         \A n \in Networks, r \in Policies :
           Untargeted(iptable.rules[NetworkChain(n)], PolicyChain(r)) =>
             Untargeted(t.rules[NetworkChain(n)], PolicyChain(r)),
         \A n \in Networks : WillMeet(pc[w], frame[w], p, n) =>
           \/ Untargeted(t.rules[NetworkChain(n)], PolicyChain(p))
           \/ <<p, n>> \in Backed \/ WillMeet(to, g, p, n),
         \A n \in Networks : NetworkChain(n) \in t.chains =>
           /\ NetworkChain(n) \in iptable.chains
           /\ WillDrop(pc[w], frame[w], n) =>
                WillDrop(to, g, n) \/ \E r \in Policies : <<r, n>> \in Backed,
         \A r \in Policies \ {p} : PolicyChain(r) \in t.chains => PolicyChain(r) \in iptable.chains,
         PolicyChain(p) \in t.chains => p \in Known \/ Drops(to, g, p),
         Minds(to, g, t, Backed)
  PROVE  CInv'
<1>1. Kept(pc[w], frame[w], iptable, Backed, Known)  BY FoundClean
<1>2. Backed \subseteq Backed' /\ Known \subseteq Known'  BY StepBacked
<1> DEFINE B == Backed'  K == Known'
<1> HIDE DEF B, K
<1>3. Backed \subseteq B /\ Known \subseteq K  BY <1>2 DEF B, K
<1>4. \A r \in Policies : Drops(pc[w], frame[w], r) => r = p  BY DEF Drops
<1>5. \A n \in Networks, r \in Policies : WillMeet(pc[w], frame[w], r, n) => r = p
  BY <1>4 DEF WillMeet
<1>6. \A n \in Networks, r \in Policies :
        \/ Untargeted(t.rules[NetworkChain(n)], PolicyChain(r))
        \/ <<r, n>> \in B \/ WillMeet(to, g, r, n)
  BY <1>1, <1>3, <1>5 DEF Kept
<1>7. \A n \in Networks : NetworkChain(n) \in t.chains =>
        (\E r \in Policies : <<r, n>> \in B) \/ WillDrop(to, g, n)
  BY <1>1, <1>3 DEF Kept
<1>8. \A r \in Policies : PolicyChain(r) \in t.chains => r \in K \/ Drops(to, g, r)
  BY <1>1, <1>3, <1>4 DEF Kept
<1>9. Kept(to, g, t, B, K)  BY <1>6, <1>7, <1>8 DEF Kept
<1>10. Minds(to, g, t, B)  BY <1>3 DEF Minds
<1> QED  BY <1>9, <1>10, StepClean DEF B, K

\* The first step of handleNetworkPolicyDelete: the networks are remembered.
LEMMA PolicyDeleteClean ==
  ASSUME IInv, ChainInv, GInv, CInv, NEW w \in Workers, handleNetworkPolicyDelete(w)
  PROVE  CInv'
<1> DEFINE f == frame[w]
           p == f.item.name
           a == f.item.args
           g == [f EXCEPT !.nets = Selectors(a)]
<1>1. pc[w] = "policyDelete" /\ pc[w] \in Inside /\ pc[w] \in AtPolicy
  BY DEF handleNetworkPolicyDelete, Inside, Handlers, AtPolicy
<1>2. /\ f \in Frames /\ f.item \in PolicyItems /\ f.item.kind = "networkpolicy"
      /\ p \in Policies /\ a \in Annotations \cup {Blank}
      /\ f.item = PolicyItem(p, "DELETE", a)
  BY <1>1, FoundG, ItemKinds DEF Fits, Suits, PolicyItems, PolicyItem
<1>3. /\ g.item = f.item /\ g.nets = Selectors(a)  BY <1>2 DEF Frames
<1>4. \/ Parsable(a) /\ Step(w, "unlink", g, iptable)
      \/ ~Parsable(a) /\ Step(w, "returned", f, iptable)
  BY DEF handleNetworkPolicyDelete
<1>5. ~Parsable(a) <=> a = Blank  BY <1>2, ConstantsAssumption DEF Parsable
<1>6. Kept(pc[w], f, iptable, Backed, Known)  BY <1>1, FoundClean
<1>7. /\ \A r \in Policies : ~Drops(pc[w], f, r)
      /\ \A n \in Networks, r \in Policies : ~WillMeet(pc[w], f, r, n)
      /\ \A n \in Networks : ~WillDrop(pc[w], f, n)
  BY <1>1 DEF Drops, WillMeet, WillDrop
<1>8. /\ np' = np /\ Pending \ {f.item} \subseteq Pending'
  BY <1>1, <1>4, StepPending DEF Step, clusterVars
<1> DEFINE B == Backed'  K == Known'
<1>9. \A r \in Policies, n \in Networks : <<r, n>> \in Backed =>
        <<r, n>> \in B \/ (a # Blank /\ r = p /\ n \in Selectors(a))
  <2> SUFFICES ASSUME NEW r \in Policies, NEW n \in Networks, <<r, n>> \in Backed,
                      ~(a # Blank /\ r = p /\ n \in Selectors(a))
               PROVE  <<r, n>> \in B
    OBVIOUS
  <2>1. PICK b \in Annotations \ {Blank} :
          n \in Selectors(b) /\ (np[r] = b \/ PolicyItem(r, "DELETE", b) \in Pending)
    BY DEF Backed
  <2>2. PolicyItem(r, "DELETE", b) = f.item => r = p /\ b = a  BY <1>2 DEF PolicyItem
  <2>3. np'[r] = b \/ PolicyItem(r, "DELETE", b) \in Pending'  BY <1>8, <2>1, <2>2
  <2> QED  BY <2>1, <2>3 DEF Backed
<1>10. \A r \in Policies : r \in Known => r \in K \/ (a # Blank /\ r = p)
  <2> SUFFICES ASSUME NEW r \in Policies, r \in Known, ~(a # Blank /\ r = p)
               PROVE  r \in K
    OBVIOUS
  <2>1. PICK b \in Annotations \ {Blank} :
          np[r] = b \/ PolicyItem(r, "DELETE", b) \in Pending
    BY DEF Known
  <2>2. PolicyItem(r, "DELETE", b) = f.item => r = p /\ b = a  BY <1>2 DEF PolicyItem
  <2>3. np'[r] = b \/ PolicyItem(r, "DELETE", b) \in Pending'  BY <1>8, <2>1, <2>2
  <2> QED  BY <2>1, <2>3 DEF Known
<1> HIDE DEF B, K
<1>11. CASE Parsable(a) /\ Step(w, "unlink", g, iptable)
  <2> HIDE DEF g
  <2>1. /\ Drops("unlink", g, p)
        /\ \A n \in Networks : n \in Selectors(a) =>
             WillMeet("unlink", g, p, n) /\ WillDrop("unlink", g, n)
    BY <1>2, <1>3 DEF Drops, WillMeet, WillDrop
  <2>2. Kept("unlink", g, iptable, B, K)
    <3>1. \A n \in Networks, r \in Policies :
            \/ Untargeted(iptable.rules[NetworkChain(n)], PolicyChain(r))
            \/ <<r, n>> \in B \/ WillMeet("unlink", g, r, n)
      BY <1>6, <1>7, <1>9, <2>1 DEF Kept
    <3>2. \A n \in Networks : NetworkChain(n) \in iptable.chains =>
            (\E r \in Policies : <<r, n>> \in B) \/ WillDrop("unlink", g, n)
      BY <1>6, <1>7, <1>9, <2>1 DEF Kept
    <3>3. \A r \in Policies : PolicyChain(r) \in iptable.chains => r \in K \/ Drops("unlink", g, r)
      BY <1>6, <1>7, <1>10, <2>1 DEF Kept
    <3> QED  BY <3>1, <3>2, <3>3 DEF Kept
  <2>3. Minds("unlink", g, iptable, B)
    BY DEF Minds, Adding, AtInfos, AtSubnet, AtChain
  <2>4. "unlink" \in Inside  BY DEF Inside
  <2> QED  BY <1>1, <1>11, <2>2, <2>3, <2>4, StepClean DEF B, K
<1>12. CASE ~Parsable(a) /\ Step(w, "returned", f, iptable)
  <2>1. /\ \A r \in Policies, n \in Networks : <<r, n>> \in Backed => <<r, n>> \in B
        /\ \A r \in Policies : r \in Known => r \in K
    BY <1>5, <1>9, <1>10, <1>12
  <2>2. Kept("returned", f, iptable, B, K)
    <3>1. \A n \in Networks, r \in Policies :
            Untargeted(iptable.rules[NetworkChain(n)], PolicyChain(r)) \/ <<r, n>> \in B
      BY <1>6, <1>7, <2>1 DEF Kept
    <3>2. \A n \in Networks : NetworkChain(n) \in iptable.chains =>
            \E r \in Policies : <<r, n>> \in B
      BY <1>6, <1>7, <2>1 DEF Kept
    <3>3. \A r \in Policies : PolicyChain(r) \in iptable.chains => r \in K
      BY <1>6, <1>7, <2>1 DEF Kept
    <3> QED  BY <3>1, <3>2, <3>3 DEF Kept
  <2>3. Minds("returned", f, iptable, B)  BY DEF Minds, Adding, AtInfos, AtSubnet, AtChain
  <2>4. "returned" \in Inside  BY DEF Inside
  <2> QED  BY <1>1, <1>12, <2>2, <2>3, <2>4, StepClean DEF B, K
<1> QED  BY <1>4, <1>11, <1>12

\* Once no link leads to a network chain, it can be dropped.
LEMMA NetworkGone ==
  ASSUME NEW t \in Tables, Orderly(t), NEW n \in Networks,
         Untargeted(t.rules[BaseChain], NetworkChain(n))
  PROVE  LET u == DeleteIptableChain(t, NetworkChain(n)).tbl IN
         /\ u.chains \subseteq t.chains \ {NetworkChain(n)}
         /\ u.rules[NetworkChain(n)] = << >> /\ Elsewhere(t, u, NetworkChain(n))
<1> DEFINE c == NetworkChain(n)
           u == DeleteIptableChain(t, c).tbl
<1>1. c \in Chains  BY ChainKinds
<1>2. /\ u.chains \subseteq t.chains \cup {c}
      /\ c \in u.chains => \E d \in t.chains : d # c /\ ~Untargeted(t.rules[d], c)
      /\ u.rules[c] = << >> /\ Elsewhere(t, u, c)
  BY <1>1, DropChains, DropEffect
<1>3. ASSUME NEW d \in t.chains, ~Untargeted(t.rules[d], c) PROVE FALSE
  <2>1. d \in Chains  BY TableTypes
  <2>2. PICK x : In(t.rules[d], x) /\ x.target = c  BY <1>3 DEF Untargeted, In
  <2>3. Belongs(d, x)  BY <2>1, <2>2, OrderlyIn
  <2>4. d # BaseChain  BY <1>3
  <2>5. c \notin PolicyChains \cup {Reject, Accept, BaseChain}
    BY ChainsApart DEF PolicyChains
  <2> QED  BY <2>1, <2>2, <2>3, <2>4, <2>5, OrderlyIn, EmptyIn, TableTypes DEF Belongs, Chains
<1> HIDE DEF u
<1> QED  BY <1>2, <1>3 DEF u

\* A policy chain goes unless a network chain jumps to it.
LEMMA PolicyGone ==
  ASSUME NEW t \in Tables, Orderly(t), NEW p \in Policies,
         PolicyChain(p) \in DeleteIptableChain(t, PolicyChain(p)).tbl.chains
  PROVE  \E n \in Networks : ~Untargeted(t.rules[NetworkChain(n)], PolicyChain(p))
<1> DEFINE c == PolicyChain(p)
<1>1. c \in Chains  BY ChainKinds
<1>2. PICK d \in t.chains : d # c /\ ~Untargeted(t.rules[d], c)  BY <1>1, DropChains
<1>3. d \in Chains  BY TableTypes
<1>4. PICK x : In(t.rules[d], x) /\ x.target = c  BY <1>2 DEF Untargeted, In
<1>5. Belongs(d, x)  BY <1>3, <1>4, OrderlyIn
<1>6. d # NoChain  BY DEF Orderly
<1>7. c \notin NetworkChains \cup {BaseChain, Accept}  BY ChainsApart, ChainKinds
<1>8. d \in NetworkChains  BY <1>3, <1>4, <1>5, <1>6, <1>7 DEF Belongs, Chains
<1> QED  BY <1>2, <1>8 DEF NetworkChains

\* A network that is updated or deleted.
LEMMA NetworkRemovalClean ==
  ASSUME IInv, ChainInv, GInv, CInv, FixedSubnets, NEW w \in Workers,
         \/ handleLogicalNetworkUpdate(w) \/ handleLogicalNetworkDelete(w)
         \/ dropNetwork(w) \/ scanPolicyChain(w)
         \/ scanBaseChain(w) /\ ~Nested(w)
  PROVE  CInv'
<1> DEFINE f == frame[w]
<1>1. /\ pc[w] \in {"networkUpdate", "networkDelete", "networkDrop", "scanPolicy", "scanBase"}
      /\ pc[w] \in Inside /\ pc[w] # "policyDelete" /\ pc[w] \in AtNetwork
      /\ \A r \in Policies : ~Drops(pc[w], f, r)
  BY DEF handleLogicalNetworkUpdate, handleLogicalNetworkDelete, dropNetwork, scanPolicyChain,
         scanBaseChain, Inside, Handlers, AtNetwork, Drops, Nested
<1>2. /\ TypeOK /\ iptable \in Tables /\ Sound(iptable) /\ f \in Frames /\ f.cur \in Networks
      /\ f.infos \subseteq Infos /\ f.pos \in Nat /\ Orderly(iptable)
      /\ pc[w] = "scanPolicy" => f.policy \in Policies
  BY <1>1, FoundG DEF Fits, Frames, AtInfo, Tidy
<1>3. ASSUME NEW to \in {"returned", "networkDrop", "scanPolicy", "scanBase"}, NEW g, NEW t,
             Step(w, to, g, t),
             \A n \in Networks, r \in Policies :
               Untargeted(iptable.rules[NetworkChain(n)], PolicyChain(r)) =>
                 Untargeted(t.rules[NetworkChain(n)], PolicyChain(r)),
             \A n \in Networks : NetworkChain(n) \in t.chains => NetworkChain(n) \in iptable.chains,
             \A r \in Policies : PolicyChain(r) \in t.chains => PolicyChain(r) \in iptable.chains
      PROVE  CInv'
  <2>1. to \in Inside \ {"scanNetwork"} /\ to \notin Adding /\ to \notin AtInfos /\ to \notin AtChain
    BY DEF Inside, Handlers, AtInfos, AtSubnet, AtChain, Adding
  <2> QED  BY <1>1, <1>3, <2>1, PlainClean
<1>4. ASSUME NEW to \in {"returned", "networkDrop", "scanPolicy", "scanBase"}, NEW g
      PROVE  /\ Step(w, to, g, iptable) => CInv'
             /\ \A k \in Nat : Step(w, to, g, DeleteNth(iptable, BaseChain, k).tbl) => CInv'
             /\ \A k \in Nat, p \in Policies :
                  Step(w, to, g, DeleteNth(iptable, PolicyChain(p), k).tbl) => CInv'
  <2>1. Step(w, to, g, iptable) => CInv'  BY <1>3
  <2>2. ASSUME NEW c \in Chains, \A n \in Networks : c # NetworkChain(n), NEW k \in Nat,
               Step(w, to, g, DeleteNth(iptable, c, k).tbl)
        PROVE  CInv'
    <3> DEFINE t == DeleteNth(iptable, c, k).tbl
    <3>1. Elsewhere(iptable, t, c) /\ t.chains = iptable.chains  BY <1>2, DeleteEffect
    <3> HIDE DEF t
    <3>2. \A n \in Networks : t.rules[NetworkChain(n)] = iptable.rules[NetworkChain(n)]
      BY <2>2, <3>1, Aside
    <3>3. Step(w, to, g, t)  BY <2>2 DEF t
    <3> QED  BY <1>3, <3>1, <3>2, <3>3
  <2>3. /\ BaseChain \in Chains /\ \A n \in Networks : BaseChain # NetworkChain(n)
        /\ \A p \in Policies : PolicyChain(p) \in Chains /\ \A n \in Networks : PolicyChain(p) # NetworkChain(n)
    BY ChainKinds, ChainsApart
  <2> QED  BY <2>1, <2>2, <2>3
<1>5. CASE handleLogicalNetworkUpdate(w)  BY <1>4, <1>5 DEF handleLogicalNetworkUpdate
<1>6. CASE handleLogicalNetworkDelete(w)  BY <1>4, <1>6 DEF handleLogicalNetworkDelete
<1>7. CASE dropNetwork(w)
  <2>1. \E to \in {"returned", "networkDrop", "scanPolicy", "scanBase"} : \E g : Step(w, to, g, iptable)
    BY <1>7 DEF dropNetwork
  <2> QED  BY <1>4, <2>1
<1>8. CASE scanPolicyChain(w)
  <2> DEFINE d == DeleteNth(iptable, PolicyChain(f.policy), f.pos)
  <2>1. f.policy \in Policies  BY <1>2, <1>8 DEF scanPolicyChain
  <2>2. \/ \E g : Step(w, "scanPolicy", g, d.tbl)
        \/ \E g : Step(w, "scanPolicy", g, iptable)
        \/ \E g : Step(w, "networkDrop", g, iptable)
    BY <1>8 DEF scanPolicyChain
  <2> QED  BY <1>2, <1>4, <2>1, <2>2
<1>9. CASE scanBaseChain(w) /\ ~Nested(w)
  <2> DEFINE d == DeleteNth(iptable, BaseChain, f.pos)
             x == DeleteIptableChain(iptable, NetworkChain(f.cur))
             done == f.i > Len(f.snap) \/ f.cnt = LinksOfChain
  <2>1. \/ \E g : Step(w, "scanBase", g, d.tbl)
        \/ \E g : Step(w, "scanBase", g, iptable)
        \/ /\ done
           /\ \E to \in {"networkDrop", "returned"} : Step(w, to, f, x.tbl)
    BY <1>9 DEF scanBaseChain
  <2>2. CASE /\ done
             /\ \E to \in {"networkDrop", "returned"} : Step(w, to, f, x.tbl)
    <3>1. pc[w] = "scanBase" /\ BaseScanned(f, iptable.rules[BaseChain])
      BY <1>1, <1>9, Found DEF scanBaseChain, Good
    <3>2. Untargeted(iptable.rules[BaseChain], NetworkChain(f.cur))
      BY <1>2, <2>2, <3>1, BaseEnd, TableTypes, ChainKinds DEF LinksOfChain
    <3>3. /\ x.tbl.chains \subseteq iptable.chains
          /\ x.tbl.rules[NetworkChain(f.cur)] = << >>
          /\ Elsewhere(iptable, x.tbl, NetworkChain(f.cur))
      BY <1>2, <3>2, NetworkGone
    <3> HIDE DEF x
    <3>4. \A n \in Networks, r \in Policies :
            Untargeted(iptable.rules[NetworkChain(n)], PolicyChain(r)) =>
              Untargeted(x.tbl.rules[NetworkChain(n)], PolicyChain(r))
      BY <3>3, ChainKinds DEF Elsewhere, Untargeted
    <3> QED  BY <1>3, <2>2, <3>3, <3>4
  <2> QED  BY <1>2, <1>4, <2>1, <2>2
<1> QED  BY <1>5, <1>6, <1>7, <1>8, <1>9

\* Taking a policy down: unlinkPolicy and the two scans it calls for.
LEMMA PolicyRemovalClean ==
  ASSUME IInv, ChainInv, GInv, CInv, FixedSubnets, NeverUpdated, NEW w \in Workers,
         \/ unlinkPolicy(w) \/ scanNetworkChain(w)
         \/ scanBaseChain(w) /\ Nested(w)
  PROVE  CInv'
<1> DEFINE f == frame[w]
           p == f.item.name
           l == pc[w]
<1>1. /\ l \in {"unlink", "scanNetwork", "scanBase"} /\ l \in Inside /\ l # "policyDelete"
      /\ l # "scanBase" => l \in AtPolicy
      /\ l # "unlink" => l \in AtNetwork
      /\ l \in Removing
  BY DEF unlinkPolicy, scanNetworkChain, scanBaseChain, Inside, Handlers, AtNetwork, AtPolicy,
         Removing
<1>2. /\ TypeOK /\ iptable \in Tables /\ Sound(iptable) /\ f \in Frames /\ Orderly(iptable)
      /\ f.nets \subseteq Networks /\ f.i \in Nat /\ f.pos \in Nat /\ f.cnt \in Nat
      /\ f.snap \in Seq(Rules)
      /\ l # "unlink" => f.cur \in Networks
      /\ f.item \in Items /\ Happens(f.item)
      /\ f.item.action \in {"DELETE", "UPDATE"}
  BY <1>1, FoundG DEF Fits, Frames, Tidy, Suits, Inside, Handlers
<1>3. /\ f.item.kind = "networkpolicy" /\ p \in Policies
      /\ l \in {"unlink", "scanNetwork", "scanBase"} /\ Drops(l, f, p)
  <2>1. f.item.kind = "networkpolicy"
    BY <1>1, <1>2, FoundG, ItemKinds DEF Fits, Nested, unlinkPolicy, scanNetworkChain
  <2> QED  BY <1>1, <1>2, <2>1, ItemKinds DEF Drops
<1>4. f.item.action = "DELETE"  BY <1>2, <1>3 DEF Happens, NeverUpdated
<1>5. /\ Kept(l, f, iptable, Backed, Known) /\ Minds(l, f, iptable, Backed)
      /\ Good(l, f, iptable)
  BY <1>1, FoundClean, Found
<1>6. \A g : g.item = f.item =>
        /\ \A to \in {"unlink", "scanNetwork", "scanBase"} :
             /\ Drops(to, g, p)
             /\ \A n \in Networks : n \in g.nets => WillMeet(to, g, p, n) /\ WillDrop(to, g, n)
        /\ \A n \in Networks : g.cur = n =>
             WillDrop("scanNetwork", g, n) /\ WillDrop("scanBase", g, n)
  BY <1>3 DEF Drops, WillMeet, WillDrop
<1>7. /\ \A n \in Networks : WillMeet(l, f, p, n) /\ l # "scanNetwork" => n \in f.nets
      /\ \A n \in Networks : WillDrop(l, f, n) => n \in f.nets \/ (l # "unlink" /\ f.cur = n)
  BY DEF WillMeet, WillDrop
<1>8. ASSUME NEW to \in {"unlink", "scanBase", "returned"}, NEW g, NEW t
      PROVE  Minds(to, g, t, Backed)
  BY DEF Minds, Adding, AtInfos, AtSubnet, AtChain
<1>9. {"unlink", "scanBase", "scanNetwork", "returned"} \subseteq Inside  BY DEF Inside
<1>10. CASE unlinkPolicy(w)
  <2>0. l = "unlink"  BY <1>10 DEF unlinkPolicy
  <2> DEFINE t == DeleteIptableChain(iptable, PolicyChain(p)).tbl
  <2>1. CASE f.nets = {} /\ Step(w, "returned", f, t)
    <3>1. PolicyChain(p) \in Chains /\ \A n \in Networks : NetworkChain(n) # PolicyChain(p)
      BY <1>3, ChainKinds, ChainsApart
    <3>2. Elsewhere(iptable, t, PolicyChain(p)) /\ t.chains \subseteq iptable.chains \cup {PolicyChain(p)}
      BY <1>2, <3>1, DropEffect, DropChains
    <3>3. PolicyChain(p) \in t.chains =>
            \E n \in Networks : ~Untargeted(iptable.rules[NetworkChain(n)], PolicyChain(p))
      BY <1>2, <1>3, PolicyGone
    <3> HIDE DEF t
    <3>4. \A n \in Networks : ~WillMeet(l, f, p, n) /\ ~WillDrop(l, f, n)
      BY <1>7, <2>0, <2>1
    <3>5. PolicyChain(p) \in t.chains => p \in Known
      BY <1>3, <1>5, <3>3, <3>4, BackedKnown DEF Kept
    <3>6. \A n \in Networks : /\ t.rules[NetworkChain(n)] = iptable.rules[NetworkChain(n)]
                              /\ NetworkChain(n) \in t.chains => NetworkChain(n) \in iptable.chains
      BY <3>1, <3>2, ChainKinds DEF Elsewhere
    <3>7. \A r \in Policies \ {p} : PolicyChain(r) \in t.chains => PolicyChain(r) \in iptable.chains
      BY <1>3, <3>2, ChainsApart
    <3> QED  BY <1>1, <1>3, <1>8, <1>9, <2>1, <3>4, <3>5, <3>6, <3>7, DropClean
  <2>2. ASSUME NEW n \in f.nets,
               LET g == [f EXCEPT !.nets = f.nets \ {n}, !.cur = n] IN
               IF NetworkChain(n) \notin iptable.chains
               THEN Step(w, "unlink", g, iptable)
               ELSE Step(w, "scanNetwork",
                         [g EXCEPT !.snap = iptable.rules[NetworkChain(n)], !.i = 1, !.cnt = 0],
                         iptable)
        PROVE  CInv'
    <3> DEFINE g == [f EXCEPT !.nets = f.nets \ {n}, !.cur = n]
               h == [g EXCEPT !.snap = iptable.rules[NetworkChain(n)], !.i = 1, !.cnt = 0]
    <3>1. /\ g.item = f.item /\ g.nets = f.nets \ {n}
          /\ h.item = f.item /\ h.nets = f.nets \ {n} /\ h.cur = n /\ h.i = 1 /\ h.cnt = 0
          /\ h.snap = iptable.rules[NetworkChain(n)]
      BY <1>2 DEF Frames
    <3>2. \/ NetworkChain(n) \notin iptable.chains /\ Step(w, "unlink", g, iptable)
          \/ Step(w, "scanNetwork", h, iptable)
      BY <2>2
    <3>3. n \in Networks /\ NetworkChain(n) \in Chains
          /\ iptable.rules[NetworkChain(n)] \in Seq(Rules)
      BY <1>2, ChainKinds, TableTypes
    <3> HIDE DEF g, h
    <3>4. CASE NetworkChain(n) \notin iptable.chains /\ Step(w, "unlink", g, iptable)
      <4>1. Untargeted(iptable.rules[NetworkChain(n)], PolicyChain(p))
        BY <1>2, <3>3, <3>4 DEF Orderly, Untargeted
      <4>2. \A m \in Networks : WillMeet(l, f, p, m) =>
              Untargeted(iptable.rules[NetworkChain(m)], PolicyChain(p)) \/ WillMeet("unlink", g, p, m)
        BY <1>6, <1>7, <2>0, <3>1, <4>1
      <4>3. \A m \in Networks : NetworkChain(m) \in iptable.chains =>
              (WillDrop(l, f, m) => WillDrop("unlink", g, m))
        BY <1>6, <1>7, <2>0, <3>1, <3>4
      <4> QED  BY <1>1, <1>3, <1>6, <1>8, <1>9, <3>1, <3>4, <4>2, <4>3, DropClean
    <3>5. CASE Step(w, "scanNetwork", h, iptable)
      <4>1. \A m \in Networks : WillMeet(l, f, p, m) =>
              Untargeted(iptable.rules[NetworkChain(m)], PolicyChain(p)) \/ WillMeet("scanNetwork", h, p, m)
        <5>1. ~Untargeted(iptable.rules[NetworkChain(n)], PolicyChain(p)) =>
                WillMeet("scanNetwork", h, p, n)
          BY <1>6, <3>1, <3>3 DEF Untargeted, WillMeet
        <5> QED  BY <1>6, <1>7, <2>0, <3>1, <5>1
      <4>2. \A m \in Networks : WillDrop(l, f, m) => WillDrop("scanNetwork", h, m)
        BY <1>6, <1>7, <2>0, <3>1
      <4>3. Minds("scanNetwork", h, iptable, Backed)
        BY <3>1 DEF Minds, Adding, AtInfos, AtSubnet, AtChain, In
      <4> QED  BY <1>1, <1>3, <1>6, <1>9, <3>1, <3>5, <4>1, <4>2, <4>3, DropClean
    <3> QED  BY <3>2, <3>4, <3>5
  <2> QED  BY <1>4, <1>10, <2>1, <2>2 DEF unlinkPolicy
<1>11. CASE scanNetworkChain(w)
  <2> DEFINE r == f.snap[f.i]
             c == NetworkChain(f.cur)
             s == iptable.rules[c]
             g == [f EXCEPT !.i = f.i + 1]
             h == [f EXCEPT !.i = f.i + 1, !.cnt = CountPolicy(f, r)]
             b == BaseScan(f)
             t == DeleteNth(iptable, c, f.i).tbl
  <2>1. /\ g.item = f.item /\ g.nets = f.nets /\ g.cur = f.cur /\ g.i = f.i + 1
        /\ g.cnt = f.cnt /\ g.snap = f.snap
        /\ h.item = f.item /\ h.nets = f.nets /\ h.cur = f.cur /\ h.i = f.i + 1
        /\ h.cnt = CountPolicy(f, r) /\ h.snap = f.snap
        /\ b.item = f.item /\ b.nets = f.nets /\ b.cur = f.cur
    BY <1>2 DEF Frames, BaseScan
  <2>2. /\ l = "scanNetwork" /\ f.cur \in Networks /\ c \in Chains /\ s \in Seq(Rules)
        /\ NetworkScan(f, s) /\ c \in iptable.chains
        /\ \A j \in DOMAIN f.snap : f.snap[j].target # PolicyChain(p) => In(s, f.snap[j])
        /\ f.cnt # 0 => \E q0 \in Policies \ {p} : ~Untargeted(s, PolicyChain(q0))
    BY <1>2, <1>5, <1>11, ChainKinds, TableTypes DEF scanNetworkChain, Good, Minds
  <2>3. \/ /\ f.i <= Len(f.snap)
           /\ \/ r.target = PolicyChain(p) /\ Step(w, "scanNetwork", g, t)
              \/ r.target # PolicyChain(p) /\ Step(w, "scanNetwork", h, iptable)
        \/ /\ f.i > Len(f.snap)
           /\ \/ Step(w, "scanBase", b, iptable)
              \/ f.cnt # 0 /\ Step(w, "unlink", f, iptable)
    BY <1>11 DEF scanNetworkChain
  <2>4. f.i <= Len(f.snap) => f.i \in DOMAIN f.snap  BY <1>2, <2>2 DEF NetworkScan
  <2>5. \A n \in Networks : WillMeet(l, f, p, n) =>
          \/ n \in f.nets
          \/ f.cur = n /\ \E j \in DOMAIN f.snap : j >= f.i /\ f.snap[j].target = PolicyChain(p)
    BY DEF WillMeet
  <2> HIDE DEF g, h, b
  <2>6. CASE f.i <= Len(f.snap) /\ r.target = PolicyChain(p) /\ Step(w, "scanNetwork", g, t)
    <3>1. f.i \in DOMAIN f.snap /\ s = f.snap  BY <2>2, <2>4, <2>6 DEF NetworkScan
    <3>2. /\ Elsewhere(iptable, t, c) /\ t.chains = iptable.chains
          /\ t.rules[c] = WithoutNth(s, f.i)
      BY <1>2, <2>2, <3>1, DeleteEffect
    <3>3. /\ \A x : In(t.rules[c], x) => In(s, x)
          /\ \A x : In(s, x) /\ x # r => In(t.rules[c], x)
          /\ ~In(t.rules[c], r)
      BY <2>2, <3>1, <3>2, WithoutIn DEF NetworkScan
    <3> HIDE DEF t
    <3>4. Untargeted(t.rules[c], PolicyChain(p))
      <4>1. \A x : In(s, x) => x = Jump(x.target)  BY <2>2, <3>1, OnlyJumpsIn DEF NetworkScan
      <4>2. In(s, r)  BY <3>1 DEF In
      <4>3. \A x : In(t.rules[c], x) => x.target # PolicyChain(p)
        BY <2>6, <3>3, <4>1, <4>2
      <4> QED  BY <4>3 DEF Untargeted, In
    <3>5. \A n \in Networks, q0 \in Policies :
            Untargeted(iptable.rules[NetworkChain(n)], PolicyChain(q0)) =>
              Untargeted(t.rules[NetworkChain(n)], PolicyChain(q0))
      <4>1. \A q0 \in Policies : Untargeted(s, PolicyChain(q0)) => Untargeted(t.rules[c], PolicyChain(q0))
        BY <3>3 DEF Untargeted, In
      <4> QED  BY <3>2, <4>1, ChainKinds DEF Elsewhere
    <3>6. \A n \in Networks : WillMeet(l, f, p, n) =>
            Untargeted(t.rules[NetworkChain(n)], PolicyChain(p)) \/ WillMeet("scanNetwork", g, p, n)
      BY <1>6, <2>1, <2>5, <3>4
    <3>7. \A n \in Networks : WillDrop(l, f, n) => WillDrop("scanNetwork", g, n)
      BY <1>6, <1>7, <2>1
    <3>8. Minds("scanNetwork", g, t, Backed)
      <4>1. \A j \in DOMAIN g.snap : g.snap[j].target # PolicyChain(p) => In(t.rules[c], g.snap[j])
        BY <2>1, <2>2, <2>6, <3>3
      <4>2. \A q0 \in Policies \ {p} : ~Untargeted(s, PolicyChain(q0)) => ~Untargeted(t.rules[c], PolicyChain(q0))
        <5> SUFFICES ASSUME NEW q0 \in Policies \ {p}, ~Untargeted(s, PolicyChain(q0))
                     PROVE  ~Untargeted(t.rules[c], PolicyChain(q0))
          OBVIOUS
        <5>1. PICK x : In(s, x) /\ x.target = PolicyChain(q0)  BY DEF Untargeted, In
        <5>2. x # r  BY <1>3, <2>6, <5>1, ChainsApart
        <5>3. In(t.rules[c], x)  BY <3>3, <5>1, <5>2
        <5> QED  BY <5>1, <5>3 DEF Untargeted, In
      <4> QED  BY <2>1, <2>2, <4>1, <4>2 DEF Minds, Adding, AtInfos, AtSubnet, AtChain
    <3>9. Drops("scanNetwork", g, p)  BY <1>6, <2>1
    <3> QED  BY <1>1, <1>3, <1>9, <2>6, <3>2, <3>5, <3>6, <3>7, <3>8, <3>9, DropClean
  <2>7. CASE f.i <= Len(f.snap) /\ r.target # PolicyChain(p) /\ Step(w, "scanNetwork", h, iptable)
    <3>1. \A n \in Networks : WillMeet(l, f, p, n) => WillMeet("scanNetwork", h, p, n)
      <4>1. \A j \in DOMAIN f.snap : j >= f.i /\ f.snap[j].target = PolicyChain(p) => j >= f.i + 1
        BY <1>2, <2>7
      <4> QED  BY <1>3, <2>1, <2>5, <4>1 DEF WillMeet, Drops
    <3>2. \A n \in Networks : WillDrop(l, f, n) => WillDrop("scanNetwork", h, n)
      BY <1>6, <1>7, <2>1
    <3>3. h.cnt # 0 => \E q0 \in Policies \ {p} : ~Untargeted(s, PolicyChain(q0))
      <4>1. CASE r.target \in PolicyChains
        <5>1. PICK q0 \in Policies : r.target = PolicyChain(q0)  BY <4>1 DEF PolicyChains
        <5>2. In(s, r)  BY <2>2, <2>4, <2>7
        <5> QED  BY <2>7, <5>1, <5>2 DEF Untargeted, In
      <4>2. CASE r.target \notin PolicyChains  BY <2>1, <2>2, <4>2 DEF CountPolicy
      <4> QED  BY <4>1, <4>2
    <3>4. Minds("scanNetwork", h, iptable, Backed)
      BY <2>1, <2>2, <3>3 DEF Minds, Adding, AtInfos, AtSubnet, AtChain
    <3>5. Drops("scanNetwork", h, p)  BY <1>6, <2>1
    <3> QED  BY <1>1, <1>3, <1>9, <2>7, <3>1, <3>2, <3>4, <3>5, DropClean
  <2>8. ASSUME f.i > Len(f.snap)
        PROVE  \A n \in Networks : WillMeet(l, f, p, n) => n \in f.nets
    BY <1>2, <2>5, <2>8
  <2>9. CASE f.i > Len(f.snap) /\ Step(w, "scanBase", b, iptable)
    <3>1. /\ \A n \in Networks : WillMeet(l, f, p, n) => WillMeet("scanBase", b, p, n)
          /\ \A n \in Networks : WillDrop(l, f, n) => WillDrop("scanBase", b, n)
          /\ Drops("scanBase", b, p)
      BY <1>6, <1>7, <2>1, <2>8, <2>9
    <3> QED  BY <1>1, <1>3, <1>8, <1>9, <2>9, <3>1, DropClean
  <2>10. CASE f.i > Len(f.snap) /\ f.cnt # 0 /\ Step(w, "unlink", f, iptable)
    <3>1. PICK q0 \in Policies \ {p} : ~Untargeted(s, PolicyChain(q0))  BY <2>2, <2>10
    <3>2. ~WillMeet(l, f, q0, f.cur)  BY <3>1 DEF WillMeet, Drops
    <3>3. <<q0, f.cur>> \in Backed  BY <1>5, <2>2, <3>1, <3>2 DEF Kept
    <3>4. /\ \A n \in Networks : WillMeet(l, f, p, n) => WillMeet("unlink", f, p, n)
          /\ \A n \in Networks : WillDrop(l, f, n) =>
               WillDrop("unlink", f, n) \/ \E x \in Policies : <<x, n>> \in Backed
          /\ Drops("unlink", f, p)
      BY <1>6, <1>7, <2>8, <2>10, <3>3
    <3> QED  BY <1>1, <1>3, <1>8, <1>9, <2>10, <3>4, DropClean
  <2> QED  BY <2>3, <2>6, <2>7, <2>9, <2>10
<1>12. CASE scanBaseChain(w) /\ Nested(w)
  <2> DEFINE d == DeleteNth(iptable, BaseChain, f.pos)
             x == DeleteIptableChain(iptable, NetworkChain(f.cur))
             g == [f EXCEPT !.i = f.i + 1, !.cnt = f.cnt + 1,
                            !.pos = IF d.exit = 0 THEN f.pos ELSE f.pos + 1]
             h == [f EXCEPT !.i = f.i + 1, !.pos = f.pos + 1]
             done == f.i > Len(f.snap) \/ f.cnt = LinksOfChain
  <2>1. /\ g.item = f.item /\ g.nets = f.nets /\ g.cur = f.cur
        /\ h.item = f.item /\ h.nets = f.nets /\ h.cur = f.cur
    BY <1>2 DEF Frames
  <2>2. \/ Step(w, "scanBase", g, d.tbl) \/ Step(w, "scanBase", h, iptable)
        \/ done /\ Step(w, "unlink", f, x.tbl)
    BY <1>12 DEF scanBaseChain
  <2>3. l = "scanBase" /\ BaseScanned(f, iptable.rules[BaseChain]) /\ f.cur \in Networks
    BY <1>2, <1>5, <1>12 DEF scanBaseChain, Good
  <2>4. Elsewhere(iptable, d.tbl, BaseChain) /\ d.tbl.chains = iptable.chains
    BY <1>2, DeleteEffect, ChainKinds
  <2>5. done => Untargeted(iptable.rules[BaseChain], NetworkChain(f.cur))
    BY <1>2, <2>3, BaseEnd, TableTypes, ChainKinds DEF LinksOfChain
  <2>6. done => /\ x.tbl.chains \subseteq iptable.chains \ {NetworkChain(f.cur)}
                /\ x.tbl.rules[NetworkChain(f.cur)] = << >>
                /\ Elsewhere(iptable, x.tbl, NetworkChain(f.cur))
    BY <1>2, <2>3, <2>5, NetworkGone
  <2> HIDE DEF g, h, d, x, done
  <2>7. ASSUME NEW k, k.item = f.item, k.nets = f.nets, k.cur = f.cur
        PROVE  /\ \A n \in Networks : WillMeet(l, f, p, n) => WillMeet("scanBase", k, p, n)
               /\ \A n \in Networks : WillDrop(l, f, n) => WillDrop("scanBase", k, n)
               /\ Drops("scanBase", k, p)
    BY <1>6, <1>7, <2>3, <2>7
  <2>8. CASE Step(w, "scanBase", g, d.tbl)
    <3>1. \A n \in Networks : d.tbl.rules[NetworkChain(n)] = iptable.rules[NetworkChain(n)]
      BY <2>4, ChainKinds, ChainsApart DEF Elsewhere
    <3> QED  BY <1>1, <1>3, <1>8, <1>9, <2>1, <2>4, <2>7, <2>8, <3>1, DropClean
  <2>9. CASE Step(w, "scanBase", h, iptable)
    BY <1>1, <1>3, <1>8, <1>9, <2>1, <2>7, <2>9, DropClean
  <2>10. CASE done /\ Step(w, "unlink", f, x.tbl)
    <3>1. \A n \in Networks, r \in Policies :
            Untargeted(iptable.rules[NetworkChain(n)], PolicyChain(r)) =>
              Untargeted(x.tbl.rules[NetworkChain(n)], PolicyChain(r))
      BY <2>6, <2>10, ChainKinds DEF Elsewhere, Untargeted
    <3>2. /\ \A n \in Networks : WillMeet(l, f, p, n) => WillMeet("unlink", f, p, n)
          /\ \A n \in Networks : NetworkChain(n) \in x.tbl.chains =>
               (WillDrop(l, f, n) => WillDrop("unlink", f, n))
          /\ Drops("unlink", f, p)
      BY <1>6, <1>7, <2>3, <2>6, <2>10
    <3> QED  BY <1>1, <1>3, <1>8, <1>9, <2>6, <2>10, <3>1, <3>2, DropClean
  <2> QED  BY <2>2, <2>8, <2>9, <2>10
<1> QED  BY <1>10, <1>11, <1>12

\* More reasons do no harm; nor does moving between two labels at which no
\* handler is in the middle of its work.
LEMMA CleanMore ==
  ASSUME NEW l, NEW f, NEW t, NEW B, NEW K, Clean(l, f, t, B, K),
         NEW C, NEW L, B \subseteq C, K \subseteq L
  PROVE  /\ Clean(l, f, t, C, L)
         /\ \A m, g : /\ {l, m} \cap {"unlink", "scanNetwork", "scanBase"} = {}
                      /\ m \in Adding => g.item.kind # "networkpolicy"
                      /\ m \notin AtInfos \cup AtChain
                      => Clean(m, g, t, C, L)
<1>1. Kept(l, f, t, B, K) /\ Minds(l, f, t, B)  BY DEF Clean
<1>2. Kept(l, f, t, C, L)
  <2>1. \A n \in Networks, p \in Policies :
          Untargeted(t.rules[NetworkChain(n)], PolicyChain(p))
            \/ <<p, n>> \in C \/ WillMeet(l, f, p, n)
    BY <1>1 DEF Kept
  <2>2. \A n \in Networks : NetworkChain(n) \in t.chains =>
          (\E p \in Policies : <<p, n>> \in C) \/ WillDrop(l, f, n)
    BY <1>1 DEF Kept
  <2>3. \A p \in Policies : PolicyChain(p) \in t.chains => p \in L \/ Drops(l, f, p)
    BY <1>1 DEF Kept
  <2> QED  BY <2>1, <2>2, <2>3 DEF Kept
<1>3. Minds(l, f, t, C)  BY <1>1 DEF Minds
<1>4. ASSUME NEW m, NEW g, {l, m} \cap {"unlink", "scanNetwork", "scanBase"} = {},
             m \in Adding => g.item.kind # "networkpolicy", m \notin AtInfos \cup AtChain
      PROVE  Clean(m, g, t, C, L)
  <2>1. \A p \in Policies : ~Drops(l, f, p)  BY <1>4 DEF Drops
  <2>2. Kept(m, g, t, C, L)  BY <1>1, <2>1, KeptEdit
  <2>3. Minds(m, g, t, C)  BY <1>4 DEF Minds
  <2> QED  BY <2>2, <2>3 DEF Clean
<1> QED  BY <1>2, <1>3, <1>4 DEF Clean

\* Steps outside syncHandler.
LEMMA QuietClean ==
  ASSUME CInv, up' = up, iptable' = iptable, Backed \subseteq Backed', Known \subseteq Known',
         \A v \in Workers : \/ pc'[v] = pc[v] /\ frame'[v] = frame[v]
                            \/ pc[v] \notin Inside /\ pc'[v] \notin Inside
  PROVE  CInv'
<1> DEFINE B == Backed'  K == Known'
<1> HIDE DEF B, K
<1>1. Backed \subseteq B /\ Known \subseteq K  BY DEF B, K
<1>2. ASSUME up = TRUE, NEW v \in Workers, pc'[v] \in Inside
      PROVE  Clean(pc'[v], frame'[v], iptable', B, K)
  <2>1. Clean(pc[v], frame[v], iptable, Backed, Known) /\ pc'[v] = pc[v] /\ frame'[v] = frame[v]
    BY <1>2 DEF CInv
  <2>2. Clean(pc[v], frame[v], iptable, B, K)  BY <1>1, <2>1, CleanMore
  <2> QED  BY <2>1, <2>2
<1>3. ASSUME up = TRUE, \A v \in Workers : pc'[v] \notin Inside
      PROVE  Clean("idle", EmptyFrame, iptable', B, K)
  <2>1. \A v \in Workers : pc[v] \notin Inside  BY <1>3
  <2>2. Clean("idle", EmptyFrame, iptable, Backed, Known)  BY <1>3, <2>1 DEF CInv
  <2>3. Clean("idle", EmptyFrame, iptable, B, K)  BY <1>1, <2>2, CleanMore
  <2> QED  BY <2>3
<1>4. up' = FALSE => iptable' = FreshTable  BY DEF CInv
<1> QED  BY <1>2, <1>3, <1>4 DEF CInv, B, K

\* A change in the cluster: a deletion is announced before it is forgotten.
LEMMA ClusterClean ==
  ASSUME IInv, GInv, CInv, NeverUpdated, Cluster
  PROVE  CInv'
<1>1. /\ up' = up /\ iptable' = iptable /\ pc' = pc /\ frame' = frame
  BY DEF Cluster, CreatePolicy, UpdatePolicy, DeletePolicy, CreateNetwork, UpdateNetwork,
         DeleteNetwork, Change
<1>2. Pending \subseteq Pending'
  <2>1. PICK x \in Items : Change(x)  BY ClusterKey
  <2> QED  BY <2>1, ChangePending
<1>3. CASE up = FALSE  BY <1>1, <1>3 DEF CInv
<1>4. ASSUME up = TRUE, NEW p \in Policies, NEW a \in Annotations \ {Blank}, np[p] = a
      PROVE  np'[p] = a \/ PolicyItem(p, "DELETE", a) \in Pending'
  <2>1. np \in [Policies -> Annotations \cup {Blank, Absent}] /\ a # Absent
    BY ConstantsAssumption DEF IInv, TypeOK
  <2>2. CASE np' = np  BY <1>4, <2>2
  <2>3. CASE \E r \in Policies : CreatePolicy(r)
    <3>1. PICK r \in Policies : CreatePolicy(r)  BY <2>3
    <3>2. r # p  BY <1>4, <2>1, <3>1 DEF CreatePolicy
    <3> QED  BY <1>4, <2>1, <3>1, <3>2 DEF CreatePolicy
  <2>4. CASE \E r \in Policies : DeletePolicy(r)
    <3>1. PICK r \in Policies : DeletePolicy(r)  BY <2>4
    <3>2. CASE r # p  BY <1>4, <2>1, <3>1, <3>2 DEF DeletePolicy
    <3>3. CASE r = p
      <4>1. Change(PolicyItem(p, "DELETE", a))  BY <1>4, <3>1, <3>3 DEF DeletePolicy
      <4>2. PolicyItem(p, "DELETE", a) \in Items  BY DEF PolicyItem, Items, PolicyItems, Verbs
      <4> QED  BY <1>4, <4>1, <4>2, ChangePending
    <3> QED  BY <3>2, <3>3
  <2>5. ~\E r \in Policies : UpdatePolicy(r)  BY DEF UpdatePolicy, NeverUpdated
  <2> QED  BY <2>2, <2>3, <2>4, <2>5 DEF Cluster, CreateNetwork, UpdateNetwork, DeleteNetwork
<1>5. CASE up = TRUE
  <2>1. Backed \subseteq Backed'
    <3> SUFFICES ASSUME NEW x \in Backed PROVE x \in Backed'  OBVIOUS
    <3>1. PICK a \in Annotations \ {Blank} :
            x[2] \in Selectors(a) /\ (np[x[1]] = a \/ PolicyItem(x[1], "DELETE", a) \in Pending)
      BY DEF Backed
    <3>2. x \in Policies \X Networks  BY DEF Backed
    <3>3. np'[x[1]] = a \/ PolicyItem(x[1], "DELETE", a) \in Pending'
      BY <1>2, <1>4, <1>5, <3>1, <3>2
    <3> QED  BY <3>1, <3>2, <3>3 DEF Backed
  <2>2. Known \subseteq Known'  BY <1>2, <1>4, <1>5 DEF Known
  <2> QED  BY <1>1, <2>1, <2>2, QuietClean
<1> QED  BY <1>3, <1>5 DEF IInv, TypeOK

\* The controller starts on a node on which it never ran.
LEMMA RunClean ==
  ASSUME IInv, ChainInv, GInv, CInv, Run
  PROVE  CInv'
<1> DEFINE u == CreateBaseChain(FreshTable)
<1>1. up = FALSE /\ up' = TRUE /\ iptable = FreshTable /\ iptable' = u /\ pc' = pc
  BY DEF Run, CInv, IInv, TypeOK
<1>2. FreshTable \in Tables /\ Orderly(FreshTable)  BY <1>1 DEF IInv, TypeOK, GInv
<1>3. /\ u.chains = {ForwardChain, BaseChain}
      /\ \A c \in Chains \ {BaseChain, ForwardChain} : u.rules[c] = << >>
  BY <1>2, BaseTidy DEF FreshTable
<1> HIDE DEF u
<1>4. /\ \A n \in Networks : NetworkChain(n) \notin u.chains /\ u.rules[NetworkChain(n)] = << >>
      /\ \A p \in Policies : PolicyChain(p) \notin u.chains
  BY <1>3, ChainKinds, ChainsApart
<1>5. \A B, K : Clean("idle", EmptyFrame, u, B, K)
  BY <1>4 DEF Clean, Kept, Minds, Untargeted, Adding, AtInfos, AtSubnet, AtChain
<1>6. \A v \in Workers : pc'[v] \notin Inside
  BY <1>1 DEF ChainInv, Inside, Handlers
<1> QED  BY <1>1, <1>5, <1>6 DEF CInv

\* The informers and the worker loop.
LEMMA LoopClean ==
  ASSUME IInv, ChainInv, GInv, CInv,
         \/ \E k \in Kinds : Notify(k)
         \/ \E w \in Workers : Get(w) \/ Lock(w) \/ Unlock(w) \/ Done(w)
  PROVE  CInv'
<1>1. Pending \subseteq Pending'  BY QuietPending
<1>2. np' = np /\ up' = up /\ iptable' = iptable
  BY DEF Notify, Get, Lock, Unlock, Done, clusterVars
<1>3. Backed \subseteq Backed' /\ Known \subseteq Known'  BY <1>1, <1>2, BackedStays
<1>4. pc \in [Workers -> Labels] /\ frame \in [Workers -> Frames]  BY DEF IInv, TypeOK
<1>5. CASE \/ \E k \in Kinds : Notify(k)
           \/ \E w \in Workers : Get(w) \/ Done(w)
  <2>1. {"idle", "got", "unlocked"} \cap Inside = {}  BY DEF Inside, Handlers
  <2>2. \A v \in Workers : \/ pc'[v] = pc[v] /\ frame'[v] = frame[v]
                           \/ pc[v] \notin Inside /\ pc'[v] \notin Inside
    BY <1>4, <1>5, <2>1 DEF Notify, Get, Done
  <2> QED  BY <1>2, <1>3, <2>2, QuietClean
<1> DEFINE B == Backed'  K == Known'
<1>6. ASSUME NEW w \in Workers, Lock(w) PROVE CInv'
  <2> DEFINE f == frame[w]
             m == HandlerOf(f.item)
  <2>1. \A v \in Workers : pc[v] \notin Inside
    BY <1>6, ConstantsAssumption DEF Lock, IInv, Holds
  <2>2. /\ pc[w] = "got" /\ up = TRUE /\ frame' = frame
        /\ pc' = [pc EXCEPT ![w] = m] /\ f.item \in Items
    BY <1>6 DEF Lock, ChainInv, IInv, TypeOK, Fits
  <2>3. Clean("idle", EmptyFrame, iptable, Backed, Known)  BY <2>1, <2>2 DEF CInv
  <2>4. m \in Handlers /\ (m = "networkAdd" => f.item.kind # "networkpolicy")
    BY <2>2, HandlerIs
  <2>5. /\ {"idle", m} \cap {"unlink", "scanNetwork", "scanBase"} = {}
        /\ m \in Adding => f.item.kind # "networkpolicy"
        /\ m \notin AtInfos \cup AtChain /\ m \in Inside
    BY <2>4 DEF Handlers, Adding, AtInfos, AtSubnet, AtChain, Inside
  <2> HIDE DEF m, B, K
  <2>6. Backed \subseteq B /\ Known \subseteq K  BY <1>3 DEF B, K
  <2>7. Clean(m, f, iptable, B, K)  BY <2>3, <2>5, <2>6, CleanMore
  <2>8. \A v \in Workers : (pc'[v] \in Inside => v = w) /\ pc'[w] = m  BY <1>4, <2>1, <2>2
  <2> QED  BY <1>2, <2>2, <2>5, <2>7, <2>8 DEF CInv, B, K
<1>7. ASSUME NEW w \in Workers, Unlock(w) PROVE CInv'
  <2> DEFINE f == frame[w]
  <2>1. pc[w] = "returned" /\ pc[w] \in Inside /\ frame' = frame
        /\ pc' = [pc EXCEPT ![w] = "unlocked"] /\ up = TRUE
    BY <1>7 DEF Unlock, Inside, ChainInv, IInv, TypeOK
  <2>2. Clean("returned", f, iptable, Backed, Known)  BY <2>1 DEF CInv
  <2>3. /\ {"returned", "idle"} \cap {"unlink", "scanNetwork", "scanBase"} = {}
        /\ "idle" \notin Adding /\ "idle" \notin AtInfos \cup AtChain
        /\ "unlocked" \notin Inside
    BY DEF Adding, AtInfos, AtSubnet, AtChain, Inside, Handlers
  <2> HIDE DEF B, K
  <2>4. Backed \subseteq B /\ Known \subseteq K  BY <1>3 DEF B, K
  <2>5. Clean("idle", EmptyFrame, iptable, B, K)  BY <2>2, <2>3, <2>4, CleanMore
  <2>6. \A v \in Workers : pc'[v] \notin Inside  BY <1>4, <2>1, <2>3, Alone
  <2> QED  BY <1>2, <2>1, <2>5, <2>6 DEF CInv, B, K
<1> QED  BY <1>5, <1>6, <1>7

\* On a node on which the controller never ran.
LEMMA InitClean == Init => CInv
BY DEF Init, CInv

\* A step keeps CInv; there is no stop, and no update of a policy.
LEMMA NextClean ==
  ASSUME FixedSubnets, NeverUpdated
  PROVE  IInv /\ ChainInv /\ GInv /\ CInv /\ [Next]_vars => CInv'
<1> SUFFICES ASSUME IInv, ChainInv, GInv, CInv, [Next]_vars PROVE CInv'
  OBVIOUS
<1>1. CASE UNCHANGED vars
  <2>1. Backed' = Backed /\ Known' = Known  BY <1>1 DEF vars, Backed, Known, Pending
  <2> QED  BY <1>1, <2>1 DEF vars, CInv
<1>2. CASE Cluster  BY <1>2, ClusterClean
<1>3. CASE Run  BY <1>3, RunClean
<1>4. CASE Stop  BY <1>4 DEF Stop, NeverUpdated, IInv, TypeOK
<1>5. CASE \E k \in Kinds : Notify(k)  BY <1>5, LoopClean
<1>6. ASSUME NEW w \in Workers, Handler(w) PROVE CInv'
  <2>1. ~handleNetworkPolicyUpdate(w)
    <3> SUFFICES ASSUME pc[w] = "policyUpdate" PROVE FALSE  BY DEF handleNetworkPolicyUpdate
    <3>1. pc[w] \in Inside /\ pc[w] \in AtPolicy  BY DEF Inside, Handlers, AtPolicy
    <3>2. frame[w].item.kind = "networkpolicy" /\ frame[w].item.action = "UPDATE"
      BY <3>1, FoundG, ItemKinds DEF Fits, Suits
    <3>3. Happens(frame[w].item)  BY <3>1, FoundG
    <3> QED  BY <3>2, <3>3 DEF Happens, NeverUpdated
  <2> QED  BY <1>6, <2>1, PolicyAddClean, NetworkAddClean, PolicyDeleteClean,
              NetworkRemovalClean, PolicyRemovalClean DEF Handler
<1>7. ASSUME NEW w \in Workers, Worker(w) PROVE CInv'  BY <1>6, <1>7, LoopClean DEF Worker
<1> QED  BY <1>1, <1>2, <1>3, <1>4, <1>5, <1>7 DEF Next

\* When nothing is pending, the only reasons left are the policies that exist.
LEMMA CleanAtRest ==
  ASSUME IInv, GInv, CInv
  PROVE  NothingLeftBehind
<1> SUFFICES ASSUME Quiescent
             PROVE  /\ \A p \in Policies : np[p] = Absent => PolicyChain(p) \notin iptable.chains
                    /\ \A n \in Networks : Selecting(n) = {} => NetworkChain(n) \notin iptable.chains
  BY DEF NothingLeftBehind
<1>1. Pending = {}  BY NonePending
<1>2. up = TRUE /\ \A w \in Workers : pc[w] \notin Inside
  BY DEF Quiescent, IInv, TypeOK, Inside, Handlers
<1>3. Kept("idle", EmptyFrame, iptable, Backed, Known)  BY <1>2 DEF CInv, Clean
<1>4. /\ \A p \in Policies : ~Drops("idle", EmptyFrame, p)
      /\ \A n \in Networks : ~WillDrop("idle", EmptyFrame, n)
  BY DEF Drops, WillDrop
<1>5. \A p \in Policies : p \in Known => np[p] # Absent
  BY <1>1, ConstantsAssumption DEF Known
<1>6. \A p \in Policies, n \in Networks : <<p, n>> \in Backed => p \in Selecting(n)
  <2> SUFFICES ASSUME NEW p \in Policies, NEW n \in Networks, <<p, n>> \in Backed
               PROVE  p \in Selecting(n)
    OBVIOUS
  <2>1. PICK a \in Annotations \ {Blank} : n \in Selectors(a) /\ np[p] = a
    BY <1>1 DEF Backed
  <2> QED  BY <2>1, ConstantsAssumption DEF Selecting, Parsable
<1>7. \A p \in Policies : PolicyChain(p) \in iptable.chains => np[p] # Absent
  BY <1>3, <1>4, <1>5 DEF Kept
<1>8. \A n \in Networks : NetworkChain(n) \in iptable.chains => Selecting(n) # {}
  BY <1>3, <1>4, <1>6 DEF Kept
<1> QED  BY <1>7, <1>8

(***************************************************************************)
(* Where networks keep their subnets, policies are not updated and the     *)
(* controller is not restarted, the handlers of deleted policies and       *)
(* networks clean up: once everything is handled, no chain is left of a    *)
(* policy that is gone, or of a network that no policy selects             *)
(* (handleNetworkPolicyDelete, DeleteNetworkChainRule,                     *)
(* DeleteNetworkChain).                                                    *)
(***************************************************************************)
THEOREM CleanedUp ==
  ASSUME FixedSubnets, NeverUpdated
  PROVE  Spec => []NothingLeftBehind
<1>1. Init => GInv /\ CInv  BY InitG, InitClean
<1>2. IInv /\ ChainInv /\ GInv /\ CInv /\ [Next]_vars => GInv' /\ CInv'
  BY NextG, NextClean
<1>3. IInv /\ GInv /\ CInv => NothingLeftBehind  BY CleanAtRest
<1> QED  BY <1>1, <1>2, <1>3, ChainInvariance, PTL DEF Spec
=============================================================================
