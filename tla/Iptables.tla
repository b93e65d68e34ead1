------------------------------ MODULE Iptables ------------------------------
(***************************************************************************)
(* The filter table of one node as the network policy controller sees it,  *)
(* and the helpers of controllers/network-policy-controller/iptables that  *)
(* edit it.  A table t is a record                                         *)
(*                                                                         *)
(*   t.chains  the chains that exist,                                      *)
(*   t.rules   the rules of every chain (none for one that does not exist) *)
(*                                                                         *)
(* and every operator maps a table to a table, or to a result              *)
(* [exit, tbl]: the exit status of the last iptables command that was run  *)
(* and the table it left behind.  Status 2 is a malformed rule (an unknown *)
(* jump target, an empty address), status 1 a chain, rule or rule number   *)
(* that is not there.                                                      *)
(***************************************************************************)
EXTENDS Naturals, Sequences, FiniteSets

CONSTANTS
  Policies,    \* names of NetworkPolicy objects (one namespace)
  Networks,    \* names of LogicalNetwork objects (same namespace)
  Subnets,     \* CIDR strings a LogicalNetwork may carry
  Blank,       \* the empty string
  TextMatch    \* pairs <<a, b>>: a rule listed for subnet a contains text b

ASSUME BlankAssumption == Blank \notin Policies \cup Networks \cup Subnets

ASSUME TextMatchAssumption == TextMatch \subseteq Subnets \X Subnets
-----------------------------------------------------------------------------
(***************************************************************************)
(* Chains.  CreateIptableChainName hashes name and namespace behind a      *)
(* prefix; the hash is taken to be injective.                              *)
(***************************************************************************)
Chain(kind, of) == [kind |-> kind, of |-> of]

ForwardChain   == Chain("FORWARD", Blank)
BaseChain      == Chain("Genie-NPC-Base", Blank)
NoChain        == Chain("", Blank)          \* the empty chain name
PolicyChain(p) == Chain("GnPlc-", p)
NetworkChain(n) == Chain("GnNtk-", n)

Accept == Chain("ACCEPT", Blank)            \* built-in targets
Reject == Chain("REJECT", Blank)

PolicyChains  == {PolicyChain(p) : p \in Policies}
NetworkChains == {NetworkChain(n) : n \in Networks}
Chains  == PolicyChains \cup NetworkChains \cup {ForwardChain, BaseChain, NoChain}
Targets == Chains \cup {Accept, Reject}

\* A rule matches every packet, or those from (-s) or to (-d) a subnet.
Rule(dir, net, target) == [dir |-> dir, net |-> net, target |-> target]
Jump(target) == Rule("any", Blank, target)

Rules == [dir : {"any", "-s", "-d"}, net : Subnets \cup {Blank}, target : Targets]

Tables == [chains : SUBSET Chains, rules : [Chains -> Seq(Rules)]]

\* A node on which the controller never ran.
FreshTable == [chains |-> {ForwardChain}, rules |-> [c \in Chains |-> << >>]]

RuleSet(t, c) == {t.rules[c][k] : k \in DOMAIN t.rules[c]}

Referenced(t, c) == \E d \in t.chains : \E r \in RuleSet(t, d) : r.target = c
-----------------------------------------------------------------------------
(***************************************************************************)
(* The iptables commands, as go-iptables runs them.                        *)
(***************************************************************************)
Result(exit, t) == [exit |-> exit, tbl |-> t]

\* The status with which a command naming chain c and rule r gives up early.
Refusal(t, c, r) ==
  IF \/ r.target \notin t.chains \cup {Accept, Reject}
     \/ r.dir # "any" /\ r.net = Blank
  THEN 2
  ELSE IF c \notin t.chains THEN 1 ELSE 0

\* -N, or -F when the chain is already there
ClearChain(t, c) ==
  [chains |-> t.chains \cup {c}, rules |-> [t.rules EXCEPT ![c] = << >>]]

\* Variation: the rule goes to the end of the chain.
InsertLast(t, c, r) ==
  IF Refusal(t, c, r) = 0
  THEN Result(0, [t EXCEPT !.rules = [t.rules EXCEPT ![c] = Append(t.rules[c], r)]])
  ELSE Result(Refusal(t, c, r), t)

\* -I chain 1 rule
Insert(t, c, r) ==
  IF Refusal(t, c, r) = 0
  THEN Result(0, [t EXCEPT !.rules = [t.rules EXCEPT ![c] = <<r>> \o t.rules[c]]])
  ELSE Result(Refusal(t, c, r), t)

\* -C chain rule, then -A chain rule unless it is there
AppendUnique(t, c, r) ==
  IF Refusal(t, c, r) = 0 /\ r \notin RuleSet(t, c)
  THEN Result(0, [t EXCEPT !.rules = [t.rules EXCEPT ![c] = Append(t.rules[c], r)]])
  ELSE Result(Refusal(t, c, r), t)

WithoutNth(s, k) ==
  [j \in 1..(Len(s) - 1) |-> IF j < k THEN s[j] ELSE s[j + 1]]

\* -D chain k
DeleteNth(t, c, k) ==
  IF k = 0 THEN Result(2, t)
  ELSE IF c \in t.chains /\ k \in 1..Len(t.rules[c])
       THEN Result(0, [t EXCEPT !.rules = [t.rules EXCEPT ![c] = WithoutNth(t.rules[c], k)]])
       ELSE Result(1, t)

\* -X chain
DeleteChain(t, c) ==
  IF c \in t.chains /\ t.rules[c] = << >> /\ ~Referenced(t, c)
  THEN Result(0, [t EXCEPT !.chains = t.chains \ {c}])
  ELSE Result(1, t)
-----------------------------------------------------------------------------
(***************************************************************************)
(* The controller's own helpers.                                           *)
(***************************************************************************)
CreateBaseChain(t) ==
  LET cleared == ClearChain(t, BaseChain)
  IN  IF Jump(BaseChain) \in RuleSet(cleared, ForwardChain)
      THEN cleared
      ELSE Insert(cleared, ForwardChain, Jump(BaseChain)).tbl

AddPolicyChain(t, p) == ClearChain(t, PolicyChain(p))

\* The pair of base rules that send a network's traffic to its chain.
Link(n, dir, subnet) == Rule(dir, subnet, NetworkChain(n))

\* Variation: no check for a rule that is there.
InsertRuleAlways(t, c, r) ==
  IF Refusal(t, c, r) = 2 THEN Result(2, t) ELSE Result(0, Insert(t, c, r).tbl)

\* A missing chain (status 1) counts as success.
InsertRule(t, c, r) ==
  IF Refusal(t, c, r) = 2 THEN Result(2, t)
  ELSE IF r \in RuleSet(t, c) THEN Result(0, t)
       ELSE Result(0, Insert(t, c, r).tbl)

\* The flush takes effect even when the chain cannot be removed after it.
DeleteIptableChain(t, c) == DeleteChain(ClearChain(t, c), c)

\* One return address and one forward address rule per peer subnet.
insertPeerRule(t, p, subnet) ==
  LET from == AppendUnique(t, PolicyChain(p), Rule("-s", subnet, Accept))
  IN  IF from.exit = 0
      THEN AppendUnique(from.tbl, PolicyChain(p), Rule("-d", subnet, Accept)).tbl
      ELSE from.tbl

\* strings.Contains of a listed rule and a subnet
Mentions(r, subnet) == subnet = Blank \/ <<r.net, subnet>> \in TextMatch
-----------------------------------------------------------------------------
(***************************************************************************)
(* What the kernel does with a packet between two subnets: the first rule  *)
(* that decides wins; the end of a chain goes back to the caller.          *)
(***************************************************************************)
Applies(r, src, dst) ==
  CASE r.dir = "-s" -> r.net = src
    [] r.dir = "-d" -> r.net = dst
    [] OTHER        -> TRUE

\* The verdict of the earliest rule of c whose own verdict is not "return".
FirstVerdict(t, c, src, dst, Of(_)) ==
  LET hits == {k \in DOMAIN t.rules[c] :
                 Applies(t.rules[c][k], src, dst) /\ Of(t.rules[c][k]) # "return"}
  IN  IF hits = {} THEN "return"
      ELSE Of(t.rules[c][CHOOSE k \in hits : \A j \in hits : k <= j])

PolicyVerdict(t, c, src, dst) ==
  FirstVerdict(t, c, src, dst, LAMBDA r : "accept")

NetworkVerdict(t, c, src, dst) ==
  FirstVerdict(t, c, src, dst,
    LAMBDA r : IF r.target = Reject THEN "reject"
               ELSE PolicyVerdict(t, r.target, src, dst))

Verdict(t, src, dst) ==
  IF Jump(BaseChain) \notin RuleSet(t, ForwardChain) THEN "return"
  ELSE FirstVerdict(t, BaseChain, src, dst,
         LAMBDA r : NetworkVerdict(t, r.target, src, dst))
=============================================================================
