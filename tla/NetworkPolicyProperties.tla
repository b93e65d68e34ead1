----------------------- MODULE NetworkPolicyProperties -----------------------
(***************************************************************************)
(* What the network policy controller has to get right.                    *)
(***************************************************************************)
EXTENDS NetworkPolicyController

\* Nothing is queued, announced or being handled.
Quiescent ==
  /\ up
  /\ \A k \in Kinds : notes[k] = << >>
  /\ q.queue = << >>
  /\ \A w \in Workers : pc[w] = "idle"

Inside == Handlers \cup
  {"populate", "peers", "networkList", "networkPolicies", "close", "linkTo", "linkFrom",
   "impose", "networkPeers", "unlink", "scanNetwork", "scanBase", "networkDrop",
   "scanPolicy", "returned"}

\* Two workers are never both inside syncHandler (mutex of syncHandler).
MutualExclusion ==
  \A v, w \in Workers : pc[v] \in Inside /\ pc[w] \in Inside => v = w

(***************************************************************************)
(* workqueue: the queue holds exactly the keys that wait and are not being *)
(* processed, each once, and a key is processed by at most one worker, the *)
(* one whose frame holds it (Add, Get and Done of three goroutines).       *)
(***************************************************************************)
KeysHandledOnce ==
  /\ QueueConsistent(q)
  /\ \A w \in Workers : pc[w] # "idle" => frame[w].item \in q.processing
  /\ \A v, w \in Workers :
       v # w /\ pc[v] # "idle" /\ pc[w] # "idle" => frame[v].item # frame[w].item

\* The keys of the workers whose label is in L.
KeysAt(L) == {frame[w].item : w \in {v \in Workers : pc[v] \in L}}

Handling == INSTANCE KeyHandling WITH
  Keys <- Items, running <- up, waiting <- q.dirty, taken <- KeysAt({"got"}),
  inside <- KeysAt(Inside), handled <- KeysAt({"unlocked"}), table <- iptable

(***************************************************************************)
(* The queue, the workers and the mutex implement KeyHandling: a key that  *)
(* an event handler adds, before, while or after it is processed, is taken *)
(* once for it and run through syncHandler once, alone; only the worker    *)
(* inside syncHandler edits the table of a running controller.             *)
(***************************************************************************)
KeysAreHandled == Handling!Spec

\* No chain holds a rule twice: every insertion is preceded by a check
\* (InsertRule, AppendUnique), also with two policies and repeated ADDs.
NoDuplicateRules ==
  \A c \in Chains : \A j, k \in DOMAIN iptable.rules[c] :
    j # k => iptable.rules[c][j] # iptable.rules[c][k]

\* The REJECT of a network chain comes after every policy jump, so that a
\* policy inserted later still gets its say (InsertRule at position 1).
RejectIsLast ==
  \A n \in Networks : \A k \in DOMAIN iptable.rules[NetworkChain(n)] :
    iptable.rules[NetworkChain(n)][k].target = Reject => k = Len(iptable.rules[NetworkChain(n)])

(***************************************************************************)
(* Rules are deleted by the number they have in a listing taken earlier;   *)
(* whenever a scan is about to delete, the rule that now has that number   *)
(* is the one the listing showed (DeleteNetworkChainRule,                  *)
(* DeleteNetworkChain, handleLogicalNetworkDelete).                        *)
(***************************************************************************)
NthIs(c, k, r) == k \in DOMAIN iptable.rules[c] /\ iptable.rules[c][k] = r

NumberedDeletesAreExact ==
  \A w \in Workers :
    LET f == frame[w] IN
    f.i \in DOMAIN f.snap =>
      /\ pc[w] = "scanNetwork" /\ f.snap[f.i].target = PolicyChain(f.item.name)
           => NthIs(NetworkChain(f.cur), f.i, f.snap[f.i])
      /\ pc[w] = "scanBase" /\ f.snap[f.i].target = NetworkChain(f.cur) /\ f.cnt < 2
           => NthIs(BaseChain, f.pos, f.snap[f.i])
      /\ pc[w] = "scanPolicy" /\ Mentions(f.snap[f.i], f.item.args) /\ f.cnt < 2
           => NthIs(PolicyChain(f.policy), f.pos, f.snap[f.i])

(***************************************************************************)
(* Removing one policy takes a network chain down only when no jump to     *)
(* another policy is left in it ("deletes the chain if the rule was the    *)
(* last one specifying policy").                                           *)
(***************************************************************************)
PolicyRemovalKeepsOthers ==
  \A w \in Workers : pc[w] = "scanBase" /\ Nested(w) =>
    \A r \in RuleSet(iptable, NetworkChain(frame[w].cur)) : r.target \notin PolicyChains

\* A network is linked from the base chain in both directions or in neither,
\* except while AddNetworkChain or DeleteNetworkChain is between two commands.
LinksArePaired ==
  up /\ (\A w \in Workers : pc[w] \notin {"linkFrom", "scanBase"}) =>
    \A n \in Networks, s \in Subnets :
      Link(n, "-d", s) \in RuleSet(iptable, BaseChain)
        <=> Link(n, "-s", s) \in RuleSet(iptable, BaseChain)

\* While the controller runs, traffic is sent to a network chain that lacks its
\* final REJECT only between two commands of the AddNetworkChain that is making
\* this very chain anew.  (The end of the process there leaves it so.)
LinkedIsClosed ==
  up => \A n \in LinkedNetworks(iptable) :
          \/ Jump(Reject) \in RuleSet(iptable, NetworkChain(n))
          \/ \E w \in Workers : pc[w] = "close" /\ frame[w].cur = n
-----------------------------------------------------------------------------
(***************************************************************************)
(* What the cluster asks for, from the objects alone.                      *)
(***************************************************************************)
Selecting(n) == {p \in Policies : Parsable(np[p]) /\ n \in Selectors(np[p])}

PeersWanted(n) == UNION {PeersOf(np[p], n) : p \in Selecting(n)}

Connected == {n \in Networks : ln[n] \in Subnets}

\* Once everything is handled, a selected network exchanges packets with its
\* peers, both ways, and with no other logical network.
Enforced ==
  Quiescent =>
    \A n \in Connected : Selecting(n) # {} =>
      \A m \in Connected \ {n} :
        LET want == IF m \in PeersWanted(n) \/ n \in PeersWanted(m)
                    THEN "accept" ELSE "reject"
        IN  /\ Verdict(iptable, ln[n], ln[m]) = want
            /\ Verdict(iptable, ln[m], ln[n]) = want

\* Once everything is handled, a deleted policy and a network that no policy
\* selects have no chain left (handleNetworkPolicyDelete,
\* handleLogicalNetworkDelete).
NothingLeftBehind ==
  Quiescent =>
    /\ \A p \in Policies : np[p] = Absent => PolicyChain(p) \notin iptable.chains
    /\ \A n \in Networks : Selecting(n) = {} => NetworkChain(n) \notin iptable.chains

\* A running controller works off what it was told: no worker is stuck on the
\* mutex, no handler loops for ever, no key stays in the queue.
Settles == <>[](~up \/ Quiescent)
-----------------------------------------------------------------------------
(***************************************************************************)
(* What comments and documents of the repository say, and the code does    *)
(* not do.                                                                 *)
(***************************************************************************)

\* "ListNetworkPolicies lists the network policies which are to be imposed on
\* the given logical network": once everything is handled, a connected
\* network's chain jumps to the policies listed as selecting it, and to no other.
ImposedAsListed ==
  Quiescent =>
    \A n \in Connected :
      {p \in Policies : Jump(PolicyChain(p)) \in RuleSet(iptable, NetworkChain(n))}
        = {info.policy : info \in {x \in ListNetworkPolicies(n) : x.via = n}}

\* "CNI-Genie network policy engine ... allows for network level ACLs": once all
\* is handled, the traffic of a selected network is subject to its policies.
SelectedIsFiltered ==
  Quiescent =>
    \A n \in Connected : Selecting(n) # {} =>
      \A s \in Subnets : Verdict(iptable, ln[n], s) # "return"
=============================================================================
