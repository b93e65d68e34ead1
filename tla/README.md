# TLA+ models of CNI-Genie

CNI-Genie has two programs with logic of their own:

- **the network policy controller** (`controllers/network-policy-controller`), a
  daemon that turns `NetworkPolicy` and `LogicalNetwork` objects into iptables
  chains of its node;
- **the genie CNI plugin** (`cni-genie.go`, `genie/`), a short-lived binary the
  kubelet runs to set up (ADD) and tear down (DEL) the networks of a pod by
  delegating to other CNI plugins.

The two share the `LogicalNetwork` objects and nothing else: no calls, no files.
They are modelled separately.

## Inventory

| Part | State | Operations | Interacts with |
|---|---|---|---|
| informers, event handlers (`networkpolicycontroller.go:110-212`) | caches of policies and networks, notifications on the way | add, update, delete of either object | fill the work queue |
| work queue (client-go) | `queue`, `dirty`, `processing`, shutting down | Add, Get, Done, ShutDown | informers, workers |
| workers, `syncHandler` (`:243-260`, `:642-686`) | the key and locals of a handler, the mutex | six handlers | listers, iptables |
| iptables helpers (`iptables/iptables.go`) | the node's filter table, which outlives the process | chains and rules created, listed, deleted by number | the kernel |
| process (`main.go`, `signals/`, `Run`) | where main is, the signal channel and `stopCh`, the exit status | start, wait for the caches, start the workers, stop, crash | flushes the base chain, replays all objects |
| informer factories (`factory.go`, `logicalnetwork.go`) | one shared informer per kind, started or not, its cache | request, start, list, fill the cache | API server, event handlers |
| genie ADD, DEL (`genie-controller.go`) | per process: plugin list, loop index, whether a plugin failed; shared: `/etc/cni/net.d`, pod annotations | parse, choose, find conf, place default conf, delegate, record address | API server, cAdvisor, plugins, other genie processes |
| logical networks (`genie-crd-processor.go`) | none | networks annotation to plugins and interface names | API server |
| choice by usage (`genie-cadvisor-client.go`) | none between calls | rank solutions by received bytes | cAdvisor |

What is hard here: two workers and two informers interleave with changes of the
cluster; the goroutines of the process start in any order, and signals come at any
time; the listers are read again in the middle of a handler; rules are deleted
by the number they had in an earlier listing; the table survives restarts; the work
queue merges keys; several genie processes share a directory of files; a genie
process may be killed between two plugins and is then run again; the pod may be
edited between ADD and DEL. `PROJECT.json` lists these as hazards, at their lines.

What makes the parts correct: packets pass exactly where the policies say so
(`Enforced`); nothing is left behind by what was deleted (`NothingLeftBehind`); the
edits of the table hit the rules they mean (`NumberedDeletesAreExact`,
`PolicyRemovalKeepsOthers`); a network under policy is closed by default
(`LinkedIsClosed`, `RejectIsLast`); keys are neither lost nor handled twice at once
(`KeysHandledOnce`, `KeysAreHandled`, `Settles`), nor before the process is ready for
them (`HandlersAreInformed`), and all objects get handled (`EveryObjectIsHandled`); a
signal ends the process with a truthful status (`SignalEndsProcess`,
`SuccessIsEarned`); a pod reported as set up has an address
from every network that was resolved (`AddIsComplete`), and these are the ones it asks
for (`AttachedAsAsked`), on interfaces of their own (`InterfacesDiffer`) that its
annotation names (`AddressesRecorded`); one reported as torn down has none
(`NoLeak`, `PodsAreAttached`); teardown succeeds in the end, unless the pod's networks
can never be resolved, and then it holds nothing (`TornDown`); the choice by usage is the
one that the loop's numbers imply (`RankedByLastGrowth`, `NegativeAfterReset`).

## Modules

| Module | Models |
|---|---|
| `Iptables` | the filter table as a value, go-iptables' commands and the controller's helpers as operators on it, the kernel's verdict on a packet |
| `WorkQueue` | client-go's queue as a value, `Add`, `Get`, `Done` as operators |
| `NetworkPolicyController` | the controller: EXTENDS both; cluster, informers, workers, handlers, restarts |
| `NetworkPolicyProperties` | its properties |
| `KeyHandling` | abstract: what queue, workers and mutex promise together; `NetworkPolicyProperties` instantiates it (`KeysAreHandled`) |
| `ControllerProcess` | the process around the controller, from `main` to the exit status: EXTENDS `WorkQueue` |
| `PodAttachment` | abstract: what the kubelet may rely on; `PodNetwork` instantiates it (`PodsAreAttached`) |
| `PodNetwork` | the genie plugin on one node, with the kubelet, plugins, users and the conf directory |
| `NetworkUsage` | `GetCNSOrderByNetworkBandwith`: the fetch, and `computeNetworkUsage` iteration by iteration |
| `MCNetworkPolicy`, `MCControllerProcess`, `MCPodNetwork`, `MCNetworkUsage` | values for TLC |
| `WorkQueueProofs` | lemmas about the operators on queues |
| `NetworkPolicyProofs`, `ChainProofs`, `SettledProofs`, `EnforcedProofs` | theorems about the controller, each module on top of the one before |
| `ControllerProcessProofs`, `PodNetworkProofs`, `NetworkUsageProofs` | theorems about the other components |

### The network policy controller

A table is a record of the chains that exist and the rules of each. Every command
yields a table and an exit status: 2 for a malformed rule (unknown target, empty
address), 1 for a chain, rule or number that is missing. The distinction matters
because `InsertRule` takes status 1 for success. `CreateIptableChainName` is
taken to be injective (hash collisions and name/namespace pairs that run together
to the same string are left out). The text search for a subnet in a listed rule
(`strings.Contains`) is the relation `TextMatch`, so that one subnet's text may be
part of another's; an empty subnet matches every line, the `-N` line at index 0
included. List order, regular iptables output and packets other than those between
two subnets are abstracted.

The cluster's objects and the informer's cache are one variable (`np`, `ln`): the
cache is updated before the event handler runs, and handlers read the cache alone.
A change appends a notification to the informer of its kind; `Notify` is the event
handler, which adds a key; keys hold kind, name, action and `args` (the annotation
or subnet of a deleted object), as the JSON keys do. An annotation is a set of
entries (selector, peers); the code walks Go maps, whose order is open, so every
loop picks its next element with `\E`. The 30 s resync delivers objects with an
unchanged resource version, which the event handlers ignore; it is left out. A
relist after a broken watch amounts to the changes it finds, a deletion among them
arriving as a tombstone that `deletePolicy` and `deleteLogicalNetwork` unwrap.

Each worker has a label `pc[w]` and a record of locals `frame[w]`. A handler is a
chain of actions, one for every lister read, iptables helper and loop iteration,
named after the function it belongs to. `syncHandler`'s mutex is held from `Lock`
to `Unlock`; `Get` and `Done` are outside of it, as in the code.
`AddNetworkChain` is a step per command (flush in `handleLogicalNetworkAddPolicies`,
then `closeNetwork` and twice `linkNetwork`), because a process that ends in between
leaves a network open or linked halfway. `insertPeerRule` and `InsertRule` are one
step each although they run two commands: the mutex keeps the other worker out, and
the replay after a stop repeats them. `Stop` ends the process at any moment and
leaves the table; `Run` flushes the base chain and replays all objects as ADDs, in
any order.

`KeyHandling` forgets the workers, the FIFO and the handlers' steps. A key waits, is
taken, is inside, is handled and given back; only the handler that is inside edits the
table. The mapping (`Handling` in `NetworkPolicyProperties`) reads the sets off the
queue's `dirty` set and the workers' labels.

### The process

`main` is the number of the statement the main goroutine is at, in `main` and then in
`Run`. Every statement that can fail ends the process through `glog.Fatalf`; the exit
status is kept. A factory is the informer in its map and which informer the
controller's lister, `HasSynced` and event handlers belong to, as the controller asks
the factory for each of them anew. `factory.Start` runs in a goroutine of its own per
factory. An informer lists, then puts one object after the other into its cache, and
the event handler of each runs later; `HasSynced` holds when the initial list is in
the cache. `served[k]` says whether the API server knows the kind at all (the
`LogicalNetwork` definition may be missing): then the reflector tries for ever.
Signals before `SetupSignalHandler` kill the process; later ones go into a channel of
two. A worker is `wait.Until` around the loop over the queue; what a handler does is
left to `NetworkPolicyController`, for which this whole start is the step `Run`.
Events after the initial list are left to `NetworkPolicyController` too.

### The genie plugin

`pc[p]` is the genie process of pod `p`, `inv[p]` its locals: plugin infos, index,
whether one failed, preferences. Plugins are external: a successful ADD takes a lease for
(pod, conf file, interface), a failing one may or may not have, DEL releases it.
The kubelet is external: at most one invocation per pod, DEL after a failed ADD or
DEL, ADD again after a successful DEL. Annotations: the list of plugin names
("cni"), the list of networks, and multi-ip-preferences as count and recorded
interfaces. They are read up to three times, and may have changed in between: for the
"cni" list, for the question whether there are networks (the list used is the one of
the first read), and for the preferences. The second and the third read ignore their
errors, as does the read of a physical network: `ReadUnnoticed` is such a failure,
bounded by `MaxUnread`, and the code goes on as if there were no networks, no
preferences, no physical network. `CallFails` is a failure that the code reports.
`short` says whether the node has an interface with a name of less than four characters:
there every choice by usage panics, whoever asks, ADD or DEL. The field `chosen` of a pod
is no annotation but remembers that genie and not the user wrote "cni"; no step depends on it.
`UpdatePodDefinition` panics without result, without an `ips` map, or on an interface
name without "eth"; a panic ends the process. Conf files are
numbered in their sorted order and are absent, partly written or valid;
`ioutil.WriteFile` truncates and then writes, in two steps. Interface `eth<k>` is
the number `k`.

`PodAttachment` keeps the kubelet's view, the command that runs and the addresses
held. It says that ADD only takes and DEL only gives back, one address at a time, that
ADD succeeds with at least one address and DEL with none left. What becomes of
annotations, files and plugins is `PodNetwork`'s own affair.

### The choice by usage

`httpGetJsonData` fails or yields any samples. These are walked interface by
interface. `downlink` is declared outside the loop and keeps its value, `RxBytes` is
unsigned and its difference is converted to a signed int of the same width (3 bits in
the run, so that wrap-around happens). `intf.Name[:4]` panics on a shorter name, and
interfaces of no solution are passed over. Go's sort of three keys is a choice among
the smallest.

Calico has one interface per pod, so a solution has several, and their order in the
samples matters. The code stores under a solution the difference it holds when it meets
one of its interfaces, over what was there before. `RankedByLastGrowth` says what this
amounts to, without the loop: a solution counts with the growth found last, over all
interfaces, up to the last visit to an interface of its own, and the answer is one that
counts least. This is not the least load (`LeastLoad`); see below.

## Runs

All runs use `CHECK_DEADLOCK FALSE`: the environment's changes are bounded by a
counter and an idle controller or node may stop. In the safety runs of the
controller the two workers are symmetric.

| Run | Bounds | Shows |
|---|---|---|
| `enforced` | 2 policies on different networks, a shared peer, 3 networks, 5 creations in any order, 1 stop | `Enforced`: when all is handled, packets pass as the policies say, whatever the order of creation, the interleaving of workers and the restart |
| `moving` | 1 policy, a network that moves between 2 subnets, a peer with an empty subnet at times, overlapping texts, all verbs, 4 changes, 1 stop | `KeysHandledOnce`, `NoDuplicateRules`, `RejectIsLast`, `NumberedDeletesAreExact`, `LinksArePaired`, and the refinement `KeysAreHandled` |
| `cleanup` | overlapping policies, creations and deletions, 5 changes, no stop | `PolicyRemovalKeepsOthers`, `NothingLeftBehind` |
| `settles` | 2 policies selecting one network, all verbs, 3 changes, 1 stop; one policy may select nothing, the other lose its annotation; `FairSpec` | `TypeOK`, `LinkedIsClosed`, `Settles` |
| `process` | 2 kinds, 3 objects, 2 workers, 3 signals, kinds unknown to the API server, `FairSpec` | `TypeOK`, `HandlersAreInformed`, `SuccessIsEarned`, `EveryObjectIsHandled`, `SignalEndsProcess` |
| `pods` | 1 pod, eight kinds of annotations, one with a logical network that is missing, a node with or without a short interface name, 4 failing calls, 3 ADDs, 2 kills, `FairSpec` | `NoLeak`, `AttachedAsAsked`, `AddressesRecorded`, `InterfacesDiffer`, `TornDown`, and the refinement `PodsAreAttached` |
| `placing` | 2 pods, a default conf to be written, 1 edit, 1 failing call, 1 that goes unnoticed, 2 ADDs each, 1 kill | `TypeOK`, `AddIsComplete` |
| `usage` | two interfaces of Calico, one of Weave, none of flannel, one with a short name, up to 3 samples in which any may be missing, counters 0..1, 3 bits | `TypeOK`, `RankedByLastGrowth`, `NegativeAfterReset` |

Four or five changes are what the longest scenario of interest takes: a network,
two policies and one removal, or an object created, deleted and created again with
its policy. Two workers are what `main` starts. Four failing calls are enough for
an ADD, the DEL after it, the next ADD and its DEL to fail. Three signals are one more
than the channel holds. Three samples let an interface come, go and come back.

The conditions under which a property is checked are part of what the run says: `Enforced`
needs policies with different selectors that are only created, `NothingLeftBehind` a
controller that is not restarted and policies that are not updated, `NoLeak`,
`AttachedAsAsked` and `AddressesRecorded` a pod that is not edited, reads that do not fail
unnoticed, and conf files already in place; `LinkedIsClosed` networks that keep their
subnet. The next sections say what happens otherwise, and
those of the conditions that a theorem needs are its named hypotheses.

Every property of a passing run has a mutant in `PROJECT.json`: a variation of one
definition (a dropped lock, a missing check, a count that is lost), defined before
the original and commented "Variation", under which TLC finds the property violated.

### Disagreements with comments and documents

Four runs show where the code does not do what the repository says.

| Run | What happens |
|---|---|
| `two_policies` | `handleLogicalNetworkAdd` calls `AddNetworkChain`, which clears the chain, once per policy: of two policies selecting a network only the last one is imposed |
| `recreated` | the action is part of the key, so ADD, DELETE, ADD of a network becomes ADD, DELETE in the queue: an existing network that a policy selects ends up unfiltered |
| `subnet_update` | `handleLogicalNetworkUpdate` deletes rule number 0, which iptables refuses, and returns: a network's new subnet is not filtered |
| `conflist` | ADD uses `.conflist` files, DEL lists `.conf` files only and reports success: the address stays allocated |

The models exhibit more of the kind, which have no run of their own: a policy
update that drops a selector leaves the jump in the dropped network's chain
(`ImposedAsListed` in a run with updates); a network set up under two subnets has
four links, of which `DeleteNetworkChain` removes two (`LinkedIsClosed` with moving
subnets); a pod annotated between ADD and DEL, or a DEL that meets a conf file just
being written, leaks an address (`NoLeak` with `MaxEdits = 1`, or with two pods and
a conf to be placed); a policy with the entries (A, peer B) and (B, peer
A) opens both networks to everyone, because its one chain accepts packets from and to
each (`Enforced` with such a policy); when the second read of the annotations fails
during DEL of a pod attached by networks, DEL asks cAdvisor, writes its choice to the
pod, releases that instead and reports success (`NoLeak` with `MaxUnread = 1`).

Five more are about what comments say of the plugin. TLC finds each property violated
when it is added to the configuration named, with the constant named:

- `EntryCounts` in `pods.cfg`: `MultiIPPreferences` holds "the number of ip addresses"
  (`utils/types.go:125`), but `UpdatePodDefinition` adds one for every address it
  records and nothing takes one off, so that a pod with two addresses whose first ADD
  was killed, or failed, has a count of three.
- `AddressesRecorded` in `pods.cfg` with `MaxUnread = 1`: when the third read fails
  (`genie-controller.go:327`) nothing is recorded and ADD reports success, though
  `UpdatePodDefinition` is said to update the pod "with annotation containing multi ips"
  (`:193`).
- `AttachedAsAsked` in `pods.cfg` with `MaxUnread = 1`: when the second read fails (`:338`),
  a pod that asks for logical networks is given cAdvisor's choice, for good, and ADD
  reports success; `AddPodNetwork` is said to fetch an IP "for every CNS types" (`:79`).
- the same when a dedicated physical network cannot be read (`genie-crd-processor.go:116`):
  the logical network's plugin is used in place of the one "intended by user" (`:34`).
- `LeastLoad` in `usage.cfg`: "Returns network solution that has least load"
  (`genie-cadvisor-client.go:163`) is false where a solution has two interfaces, as on
  a node with two Calico pods: with one that is busy and then one that is idle, the idle one
  counts alone.

### Fairness

`Settles`: weak fairness of each informer's handler and of each worker, the Go
scheduler's promise to goroutines that can run. `sync.Mutex` hands over to a waiter
that starves; the bounded number of keys makes weak fairness of the whole worker
enough here. Nothing obliges the cluster to change or the controller to start or
stop. `TornDown`: weak fairness of the genie process, and of the kubelet's DEL for a
sandbox whose setup or teardown failed, which the kubelet repeats. Failures and kills
are bounded, so in the end a DEL goes through. Two kinds of pods are never torn down,
because DEL resolves their networks first and fails every time: those that name a
logical network that is missing or has no physical one, and those that need a choice
where choosing panics (`Unresolvable`). `TornDown` exempts them, and says that they hold
no address. `EveryObjectIsHandled` and
`SignalEndsProcess`: weak fairness of every goroutine of the process (main, the signal
handler, each factory's start, each informer and its event handlers, each worker); for
an informer of a kind the API server knows this includes that the reflector, which
repeats a failed list, succeeds in the end. Nobody is obliged to send a signal, and a
kind that is not served stays so.

## Proofs

`NetworkPolicyProofs` proves for every finite set of policies and networks, every set
of subnets and workers, every annotation and every bound (from the named assumptions
`BlankAssumption`, `TextMatchAssumption`, `ConstantsAssumption`, which TLC evaluates
in every run of the controller):

| Theorem | Statement |
|---|---|
| `TypeCorrect` | `Spec => []TypeOK` |
| `HandlersExclude` | `Spec => []MutualExclusion` |
| `QueueCorrect` | `Spec => []KeysHandledOnce` |
| `RulesAreDistinct` | `Spec => []NoDuplicateRules` |
| `RejectStaysLast` | `Spec => []RejectIsLast` |
| `ImplementsKeyHandling` | `Spec => KeysAreHandled` |

The invariants all follow from `Invariance`, `Spec => []IInv`, with

    IInv == TypeOK /\ Sound(iptable) /\ KeysHandledOnce /\ Fits /\ Holds

- `Sound(t)`: the rules of every chain are distinct and a REJECT is the last rule of
  its chain. The module's first part shows that every command and helper preserves
  it, whatever the caller does; the essential cases are the appended REJECT, which comes
  after the chain was cleared and is not appended twice, and `InsertRule`, which inserts in front.
- `Fits`: the locals of a worker agree with its label (in `populate` the item is a
  policy's, in the network handlers `cur` is a network, in `scanPolicy` the policy is
  known). Typing alone is not inductive: a handler indexes `ln` and `np` by them.
- `Holds`: a worker inside `syncHandler` is the one that holds the mutex, which gives
  mutual exclusion.
- `KeysHandledOnce` is inductive together with `TypeOK`; `WorkQueueProofs` shows that
  `QueueAdd`, `QueueGet` and `QueueDone` keep the queue consistent.

One lemma per action shows that it preserves `IInv`.

`ChainProofs` goes on to what the chains hold, from the same assumptions:

| Theorem | Statement |
|---|---|
| `DeletesAreExact` | `Spec => []NumberedDeletesAreExact` |
| `OthersKept` | `Spec => []PolicyRemovalKeepsOthers` |
| `LinksPaired` | `Spec => []LinksArePaired` |
| `LinkedStaysClosed` | `FixedSubnets` implies `Spec => []LinkedIsClosed` |

None of these is inductive: each speaks of one label of one handler. `ChainInv`, on top
of `IInv`, says what the table is like at every label of the worker inside (`Good`) and
when nobody is inside (`Calm`); `IInv`'s mutual exclusion makes it enough to look at one
worker. Its parts:

- How the chain being scanned compares with the listing. A network chain is as listed
  until the policy's jump is met, and a jump to another policy that was passed was
  counted (`NetworkScan`). The base chain is as listed, then lacks the first link of the
  network, then the pair (`BaseScanned`). What is left of a policy chain's listing is
  what the chain holds from the counted position on (`PolicyScan`).
- The base chain is a sequence of adjacent pairs, "-d" and then "-s" of one network and
  subnet (`Paired`), with a single link at its end between the two commands of
  `AddNetworkChain` (`HalfLinked`). Adjacency is what makes `DeleteNetworkChain`, which
  stops after two rules, remove both halves of a pair; `LinksArePaired` by itself would
  allow it to remove halves of two.
- A linked network chain is closed, but at label `close`. This part needs
  `FixedSubnets`, that no network is ever given two different subnets, which
  `settles.cfg` meets: otherwise links of an earlier subnet outlive the chain's
  removal, and `moving` has such states.

`SettledProofs` and `EnforcedProofs` are about what the controller has achieved when
everything is handled:

| Theorem | Hypotheses | Statement |
|---|---|---|
| `CleanedUp` | `FixedSubnets`, `NeverUpdated` | `Spec => []NothingLeftBehind` |
| `PoliciesEnforced` | `FixedSubnets`, `OnlyCreated`, `Apart` | `Spec => []Enforced` |

The hypotheses are about what happens in the cluster, and the runs `cleanup` and
`enforced` meet them:

- `NeverUpdated`: policies are created and deleted but not updated, and the controller
  is not restarted. An update forgets the networks that the policy no longer selects,
  and a restart the deletions that nobody was told of: TLC finds `NothingLeftBehind`
  violated with either.
- `OnlyCreated`: policies and networks are created and never changed or deleted, but
  the controller may be stopped at any point and started again, any number of times.
  TLC finds `Enforced` violated when policies, or networks, are deleted too.
- `Apart`: networks have subnets of their own; a network is selected by one policy at
  most; a network that is selected is nobody's peer; the selectors of one policy have
  the same peers, since a policy has one chain of accepted peers for all its selectors.
  TLC finds `Enforced` violated without each of the four (`two_policies` is the run for the second).
- `FixedSubnets` is the hypothesis of `LinkedStaysClosed`. Where objects are only
  created it is no restriction: the subnet with which a network is created is the only
  one it ever has.

Both properties speak of quiet states only, and what makes them true there is the
handling of keys that may still be waiting long before. Both invariants therefore
relate the table to `Pending`, the keys that are announced, queued, or with a worker
that has not begun: a key leaves `Pending` only when its handler takes its first step
(`StepPending`, `QuietPending`, `ChangePending`), and in a quiet state there is none
(`NonePending`). They share `GInv`: keys are of the kinds and verbs that happen, a key
in processing is with a worker, every chain holds rules of its kind only, and a chain
that does not exist holds none.

- `CInv`: each jump to a policy, each network chain and each policy chain has its reason
  (`Kept`), which is a policy that exists, a deletion of it that is pending, or the
  worker taking the policy down, which is still going to meet the jump (`WillMeet`,
  `WillDrop`). While a network chain is scanned, the listing holds whatever else is in
  the chain, and a nonzero count stands for a jump to another policy that is still there
  (`Minds`); so a chain that is kept is kept for a reason.
- `EInv` has three parts. `Justified` bounds the table from above: chains and jumps are
  there for policies that exist, and rules of a policy chain for the subnets of its
  peers; it outlives the process. `Due` bounds it from below: for every policy, network
  and peer, the link, the jump and the two peer rules are there (`LinkDone`, `JumpDone`,
  `PeerDone`), or a key is pending that brings them about, or the worker inside is still
  going to (`LinkTodo`, `JumpTodo`, `PeerTodo`). `Knows` says what the locals of the
  worker inside have to do with the objects. After a restart `Due` holds because the
  initial list announces every object (`OrdersAll`: an injective sequence as long as
  the set is finite has them all). A handler that flushes a network chain and makes it
  anew loses the jumps of other policies; `Apart` is what makes this harmless, and
  this is the step at which the proof needs it.

The last part of `EnforcedProofs` follows a packet through such a table: of the base
rules only the links of its two networks apply, a selected network's chain holds jumps
to one policy chain with the REJECT behind them, and a policy chain accepts just what
comes from or goes to a peer (`BaseSays`, `NetworkSays`, `PolicySays`). Both invariants
were checked with TLC on the instances of `cleanup` and `enforced` before they were
proved.

`ImplementsKeyHandling` uses `IInv` at both ends of a step. Each action of a handler
keeps its worker inside and its key the same, so it maps to `Edit`; the mutex
(`Holds`) makes the worker inside the only one; `KeysHandledOnce` makes the keys of
two workers differ, so that `Take`, `Leave` and `GiveBack` move one key only. `Get`,
`Done` and the event handlers map to `Take`, `GiveBack` and `Announce` by the queue's
lemmas, changes of the cluster to a stutter.

`ControllerProcessProofs` proves for any kinds and objects (`ProcessAssumption`), any
number of workers and signals:

| Theorem | Statement |
|---|---|
| `ReadyBeforeWork` | `Spec => []HandlersAreInformed` |
| `SuccessAfterWork` | `Spec => []SuccessIsEarned` |
| `ProcessTypeCorrect` | `Spec => []TypeOK` |

The invariant is `Shape /\ Progress /\ Listed`. `Shape`: the lister, `HasSynced` and
the informer that is started are one and the same once the controller is made (this is
what `InformerFor` is for). `Progress`: what holds once main is past a statement; in
particular the informers are full past `WaitForCacheSync`, and the workers are not
there before. `Listed`: what was listed is in the cache or on its way, so that a full
cache holds every object. `HandlersAreInformed` alone is not inductive: it says
nothing while no key is being handled.

`ProcessTypeCorrect` adds `Typed`, the types of queue, signals and factories: a worker
takes the key it holds out of the keys in processing, so the queue keeps its type only
because that key is among them and no other worker's.

`PodNetworkProofs` proves, from `PodNetworkAssumption`, for any pods, plugins, networks,
files and bounds:

| Theorem | Hypotheses | Statement |
|---|---|---|
| `PodTypeCorrect` | none | `Spec => []TypeOK` |
| `AddComplete` | none | `Spec => []AddIsComplete` |
| `NothingLeaks` | `Undisturbed` | `Spec => []NoLeak` |
| `AttachedToAllAsked` | `Undisturbed` | `Spec => []AttachedAsAsked` |
| `AllRecorded` | `Undisturbed` | `Spec => []AddressesRecorded` |
| `OneAddressPerInterface` | `Undisturbed`, `NamedOnce` | `Spec => []InterfacesDiffer` |
| `PodsImplementAttachment` | `Undisturbed` | `Spec => PodsAreAttached` |

The first two follow from `PInv`: what the local variables of an invocation are at each
label (`Ready`), and that an ADD without an error so far has an address from every
plugin its loop has passed. `PodNetworkAssumption` includes that a default file's name
contains the name of its plugin, as "10-<name>.conf" does.

`Undisturbed` says that nobody edits pods (`MaxEdits = 0`), no read fails unnoticed
(`MaxUnread = 0`), every plugin that has a binary and a default has its file from the
start, and ADD finds no plugin in a `.conflist`. `pods.cfg` meets it, and none of the four
can be dropped: TLC finds `NoLeak` violated without each (`conflist` is the run for the
last one). Plugin failures, failing calls, kills and short interface names remain as
they are. `NamedOnce` (no user gives two networks one interface) is about the
annotations users write; `pods.cfg` meets it too.

The invariant is `PInv /\ RInv`. `RInv` compares every invocation with the plan that the
pod's annotations stand for (`Plan`, `PlanLease`): an invocation that reaches the loop
has the plan's plugins, so that DEL looks where ADD put things (`Follows`); a pod holds
at most what its plan asks for; a DEL without an error has given back what its loop has
passed; an ADD works with the preferences as they are at the API server, and without an
error it has recorded every interface but the one in hand; the plugins of a pod that
is set up are its plan's; genie's own choice is written only where no networks are asked for.
`NoLeak` alone says nothing between a failed ADD and the DEL after it.

For the refinement, `KubeletAdd` and `KubeletDel` are `Begin`; a kill and every exit
with an error are `GiveUp`; the end of the loop is `Succeed`, where `RInv` gives that a
DEL has nothing left and `PInv` that an ADD is complete; `PluginAdd` is `Take` or, for an
address the pod has, a stutter; `PluginDel` is `GiveBack` or a stutter; all else is a
stutter.

`NetworkUsageProofs` proves, from `NetworkUsageAssumption`, for any width, number of
samples, interfaces and solutions:

| Theorem | Hypotheses | Statement |
|---|---|---|
| `UsageTypeCorrect` | none | `Spec => []TypeOK` |
| `NegativeOnlyAfterReset` | `SmallCounters` | `Spec => []NegativeAfterReset` |
| `RanksByLastGrowth` | none | `Spec => []RankedByLastGrowth` |

`UInv` says that what is remembered of an interface is its counter in a sample seen
before; `NInv` extends `NegativeAfterReset` to `downlink`, which carries a difference
from one interface to the next. `SmallCounters` keeps counters below the sign bit
(8 EiB for 64 bits), which `usage.cfg` meets; without it a large growth looks like a loss.

`KInv` is the invariant of `RanksByLastGrowth`. It compares the loop with the visits it
has made so far (`Past`): what is remembered of an interface is its counter in the latest
sample that lists it (`Known`), `downlink` is the growth at the latest visit that had
one, and the usage of a solution is what `downlink` was at the latest visit to an
interface of its own (`Ranking`); at the end the answer is a smallest usage. The step of the
proof is that one more visit is the latest of all, so that it changes these for one
interface and one solution and leaves the others alone.

So every invariant that a passing run checks, and both refinements, are theorems. Only
model-checked are the liveness properties `Settles`, `TornDown`, `EveryObjectIsHandled`
and `SignalEndsProcess`, which are out of the prover's reach, as are `ENABLED` and
induction over data. No module with a theorem reaches a RECURSIVE operator.

## Not modelled

- the contents of flags, kubeconfig and CNI arguments, logging: calls that may fail;
- failures of the iptables binary other than its refusals, and of the listers;
- the default configurations in `plugins/` (data), `genie-monitor.go` (no logic),
  generated clients, listers and deep copies (no state of their own), options of the
  informer factory that the controller does not use;
- the event recorder of the controller, which it never uses;
- changes of `LogicalNetwork` objects while pods use them, as seen by the plugin;
- errors of listing or reading `/etc/cni/net.d` apart from files that do not parse; an
  entry "net:" with an empty interface name apart from one without a colon;
- namespaces: all objects are in one; names padded with blanks.

## Plan

1. Done: `Iptables`, `WorkQueue`, `NetworkPolicyController` with properties and runs;
   `ControllerProcess`; `PodNetwork`; `NetworkUsage`; the abstract specifications
   `KeyHandling` and `PodAttachment`.
2. Done, proofs: type correctness of every component, every invariant the runs check,
   and both refinements.
3. Open: weaker hypotheses for `Enforced`, such as deletions of networks that no policy
   selects any more, or mutual peers; namespaces and the naming of chains.
