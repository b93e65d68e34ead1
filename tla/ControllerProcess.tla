-------------------------- MODULE ControllerProcess --------------------------
(***************************************************************************)
(* The process around the network policy controller: main, the signal      *)
(* handler, the informer factories and their goroutines, Run and the       *)
(* worker goroutines, from the first instruction to the exit status.  What *)
(* a handler does with its key is the subject of NetworkPolicyController,  *)
(* which takes the start of the process for one step.                      *)
(***************************************************************************)
EXTENDS WorkQueue

CONSTANTS
  Kinds,       \* what is watched: network policies and logical networks
  Objects,     \* Objects[k]: the objects of kind k in the cluster
  Workers,     \* goroutines Run starts (main asks for two)
  MaxSignals,  \* bound on the signals sent to the process
  NoKey        \* the worker has no key

Keys == UNION {Objects[k] : k \in Kinds}

ASSUME ProcessAssumption ==
  /\ MaxSignals \in Nat
  /\ NoKey \notin Keys
  /\ \A j, k \in Kinds : j # k => Objects[j] \cap Objects[k] = {}

\* A signal channel of two; signal.Notify drops what does not fit.
Buffer == 2

VARIABLES
  main,       \* where the main goroutine is
  exit,       \* "running", or how the process ended
  sent,       \* signals sent so far
  c,          \* signals in the channel
  caught,     \* signals the handler goroutine has taken
  stopCh,     \* the channel is closed
  factory,    \* factory[k]: the informers of the factory and who uses which
  starter,    \* starter[k]: the goroutine that runs factory.Start
  started,    \* started[k]: the informer that is running, 0 if none
  served,     \* served[k]: the API server knows the kind
  listed,     \* listed[k]: the initial list has arrived
  pending,    \* pending[k]: objects listed and not yet in the cache
  cache,      \* cache[k]: the cache of the running informer
  notes,      \* notes[k]: objects whose event handler has yet to run
  queue,      \* npcWorkqueue
  shutting,   \* ... is shutting down
  baseChain,  \* CreateBaseChain has succeeded
  pc, key,    \* the worker goroutines and their keys
  handled     \* keys syncHandler has run for

signalVars   == <<sent, c, caught, stopCh>>
informerVars == <<starter, started, served, listed, pending, cache, notes>>
workerVars   == <<pc, key, handled>>
vars == <<main, exit, signalVars, factory, informerVars, queue, shutting, baseChain,
          workerVars>>

\* The statements of main and Run, in their order.
Statements == <<"signals", "config", "kubeClient", "extClient", "controller", "start",
                "baseChain", "sync", "spawn", "serve", "shutDown", "return">>

\* A factory: how many informers it made, the one in its map, and those whose
\* cache, HasSynced and event handlers the controller uses (0: none).
NewSharedInformerFactory == [made |-> 0, shared |-> 0, lister |-> 0, synced |-> 0, handler |-> 0]

TypeOK ==
  /\ main \in 1..Len(Statements)
  /\ exit \in {"running", "killed", "0", "1", "255"}
  /\ sent \in 0..MaxSignals /\ c \in 0..Buffer /\ caught \in 0..1 /\ stopCh \in BOOLEAN
  /\ factory \in [Kinds -> [made : Nat, shared : Nat, lister : Nat, synced : Nat, handler : Nat]]
  /\ starter \in [Kinds -> {"none", "ready", "done"}]
  /\ started \in [Kinds -> Nat]
  /\ served \in [Kinds -> BOOLEAN] /\ listed \in [Kinds -> BOOLEAN]
  /\ \A k \in Kinds : pending[k] \cup cache[k] \subseteq Objects[k] /\ notes[k] \in Seq(Objects[k])
  /\ queue \in Queues(Keys) /\ {shutting, baseChain} \subseteq BOOLEAN
  /\ pc \in [Workers -> {"none", "until", "get", "handle", "ended"}]
  /\ key \in [Workers -> Keys \cup {NoKey}]
  /\ handled \subseteq Keys

Init ==
  /\ main = 1 /\ exit = "running"
  /\ sent = 0 /\ c = 0 /\ caught = 0 /\ stopCh = FALSE
  /\ factory = [k \in Kinds |-> NewSharedInformerFactory]
  /\ starter = [k \in Kinds |-> "none"]
  /\ started = [k \in Kinds |-> 0]
  /\ served \in [Kinds -> BOOLEAN]
  /\ listed = [k \in Kinds |-> FALSE]
  /\ pending = [k \in Kinds |-> {}] /\ cache = [k \in Kinds |-> {}]
  /\ notes = [k \in Kinds |-> << >>]
  /\ queue = EmptyQueue /\ shutting = FALSE /\ baseChain = FALSE
  /\ pc = [w \in Workers |-> "none"] /\ key = [w \in Workers |-> NoKey] /\ handled = {}
-----------------------------------------------------------------------------
(***************************************************************************)
(* Signals.  Before SetupSignalHandler the first one ends the process;     *)
(* then the first closes stopCh and the second ends the process.           *)
(***************************************************************************)
\* Variation: a channel without bound.
DeliverAll(n) == n + 1

Deliver(n) == IF n < Buffer THEN n + 1 ELSE n

Signal ==
  /\ exit = "running" /\ sent < MaxSignals
  /\ sent' = sent + 1
  /\ IF Statements[main] = "signals" THEN exit' = "killed" /\ c' = c
     ELSE c' = Deliver(c) /\ exit' = exit
  /\ UNCHANGED <<main, caught, stopCh, factory, informerVars, queue, shutting, baseChain,
                 workerVars>>

SignalHandler ==
  /\ exit = "running" /\ c > 0
  /\ c' = c - 1
  /\ IF caught = 0 THEN caught' = 1 /\ stopCh' = TRUE /\ exit' = exit
     ELSE exit' = "1" /\ UNCHANGED <<caught, stopCh>>
  /\ UNCHANGED <<main, sent, factory, informerVars, queue, shutting, baseChain, workerVars>>
-----------------------------------------------------------------------------
(***************************************************************************)
(* The main goroutine.                                                     *)
(***************************************************************************)
At(s) == exit = "running" /\ Statements[main] = s

Fatalf == exit' = "255" /\ main' = main

Proceed == main' = main + 1 /\ exit' = exit

SetupSignalHandler ==
  /\ At("signals") /\ Proceed
  /\ UNCHANGED <<signalVars, factory, informerVars, queue, shutting, baseChain, workerVars>>

\* BuildConfigFromFlags and the two NewForConfig
BuildClients ==
  /\ At("config") \/ At("kubeClient") \/ At("extClient")
  /\ Proceed \/ Fatalf
  /\ UNCHANGED <<signalVars, factory, informerVars, queue, shutting, baseChain, workerVars>>

\* Variation: every call makes an informer of its own.
InformerForAnew(f) == [f EXCEPT !.made = f.made + 1, !.shared = f.made + 1]

\* The informer of the factory's map, made when it is first asked for.
InformerFor(f) ==
  IF f.shared # 0 THEN f ELSE [f EXCEPT !.made = f.made + 1, !.shared = f.made + 1]

\* The controller asks for the informer three times: for its lister, its
\* HasSynced and its event handlers.
Requested(f) ==
  LET a == InformerFor(f)
      b == InformerFor(a)
      d == InformerFor(b)
  IN  [d EXCEPT !.lister = a.shared, !.synced = b.shared, !.handler = d.shared]

NewNpcController ==
  /\ At("controller") /\ Proceed
  /\ factory' = [k \in Kinds |-> Requested(factory[k])]
  /\ UNCHANGED <<signalVars, informerVars, queue, shutting, baseChain, workerVars>>

GoStart ==
  /\ At("start") /\ Proceed
  /\ starter' = [k \in Kinds |-> "ready"]
  /\ UNCHANGED <<signalVars, factory, started, served, listed, pending, cache, notes, queue,
                 shutting, baseChain, workerVars>>

CreateBaseChain ==
  /\ At("baseChain")
  /\ \/ Proceed /\ baseChain' = TRUE
     \/ Fatalf /\ UNCHANGED baseChain
  /\ UNCHANGED <<signalVars, factory, informerVars, queue, shutting, workerVars>>

HasSynced(k) ==
  started[k] # 0 /\ started[k] = factory[k].synced /\ listed[k] /\ pending[k] = {}

\* Variation: the first cache that is there is enough.
AnySynced == \E k \in Kinds : HasSynced(k)

AllSynced == \A k \in Kinds : HasSynced(k)

\* Variations: the wait cannot be ended by a signal; its failure is not reported.
WaitForCacheSyncOnly ==
  /\ At("sync") /\ AllSynced /\ Proceed
  /\ UNCHANGED <<signalVars, factory, informerVars, queue, shutting, baseChain, workerVars>>

WaitForCacheSyncQuietly ==
  /\ At("sync")
  /\ \/ AllSynced /\ Proceed
     \/ stopCh /\ exit' = "0" /\ main' = main
  /\ UNCHANGED <<signalVars, factory, informerVars, queue, shutting, baseChain, workerVars>>

\* Run polls both HasSynced; closing stopCh ends the wait with an error.
WaitForCacheSync ==
  /\ At("sync")
  /\ \/ AllSynced /\ Proceed
     \/ stopCh /\ Fatalf
  /\ UNCHANGED <<signalVars, factory, informerVars, queue, shutting, baseChain, workerVars>>

SpawnWorkers ==
  /\ At("spawn") /\ Proceed
  /\ pc' = [w \in Workers |-> "until"]
  /\ UNCHANGED <<signalVars, factory, informerVars, queue, shutting, baseChain, key, handled>>

\* <-stopCh; the workers are not waited for.
AwaitStop ==
  /\ At("serve") /\ stopCh /\ Proceed
  /\ UNCHANGED <<signalVars, factory, informerVars, queue, shutting, baseChain, workerVars>>

\* The deferred ShutDown ...
ShutDown ==
  /\ At("shutDown") /\ Proceed
  /\ shutting' = TRUE
  /\ UNCHANGED <<signalVars, factory, informerVars, queue, baseChain, workerVars>>

\* ... and the end of main, which is the end of every goroutine.
Return ==
  /\ At("return")
  /\ exit' = "0"
  /\ UNCHANGED <<main, signalVars, factory, informerVars, queue, shutting, baseChain, workerVars>>

Main ==
  \/ SetupSignalHandler \/ BuildClients \/ NewNpcController \/ GoStart \/ CreateBaseChain
  \/ WaitForCacheSync \/ SpawnWorkers \/ AwaitStop \/ ShutDown \/ Return
-----------------------------------------------------------------------------
(***************************************************************************)
(* The goroutines of the factories and informers.  A list that fails is    *)
(* tried again; a kind the API server does not know is never listed.       *)
(***************************************************************************)
Start(k) ==
  /\ exit = "running" /\ starter[k] = "ready"
  /\ starter' = [starter EXCEPT ![k] = "done"]
  /\ started' = IF started[k] = 0 THEN [started EXCEPT ![k] = factory[k].shared] ELSE started
  /\ UNCHANGED <<main, exit, signalVars, factory, served, listed, pending, cache, notes,
                 queue, shutting, baseChain, workerVars>>

List(k) ==
  /\ exit = "running" /\ started[k] # 0 /\ served[k] /\ ~listed[k]
  /\ listed' = [listed EXCEPT ![k] = TRUE]
  /\ pending' = [pending EXCEPT ![k] = Objects[k]]
  /\ UNCHANGED <<main, exit, signalVars, factory, starter, started, served, cache, notes,
                 queue, shutting, baseChain, workerVars>>

\* An object enters the cache, and its event is on its way to the handlers.
HandleDeltas(k) ==
  /\ exit = "running"
  /\ \E o \in pending[k] :
       /\ pending' = [pending EXCEPT ![k] = pending[k] \ {o}]
       /\ cache' = [cache EXCEPT ![k] = cache[k] \cup {o}]
       /\ notes' = IF factory[k].handler # started[k] THEN notes
                   ELSE [notes EXCEPT ![k] = Append(notes[k], o)]
  /\ UNCHANGED <<main, exit, signalVars, factory, starter, started, served, listed, queue,
                 shutting, baseChain, workerVars>>

\* addPolicy and addLogicalNetwork; a queue that shuts down takes nothing in.
Enqueue(k) ==
  /\ exit = "running" /\ notes[k] # << >>
  /\ notes' = [notes EXCEPT ![k] = Tail(notes[k])]
  /\ queue' = IF shutting THEN queue ELSE QueueAdd(queue, Head(notes[k]))
  /\ UNCHANGED <<main, exit, signalVars, factory, starter, started, served, listed, pending,
                 cache, shutting, baseChain, workerVars>>

Informer(k) == List(k) \/ HandleDeltas(k)
-----------------------------------------------------------------------------
(***************************************************************************)
(* The worker goroutines: wait.Until around worker.                        *)
(***************************************************************************)
processVars == <<main, exit, signalVars, factory, informerVars, shutting, baseChain>>

Until(w) ==
  /\ exit = "running" /\ pc[w] = "until"
  /\ pc' = [pc EXCEPT ![w] = IF stopCh THEN "ended" ELSE "get"]
  /\ UNCHANGED <<processVars, queue, key, handled>>

Get(w) ==
  /\ exit = "running" /\ pc[w] = "get" /\ queue.queue # << >>
  /\ key' = [key EXCEPT ![w] = Head(queue.queue)]
  /\ queue' = QueueGet(queue)
  /\ pc' = [pc EXCEPT ![w] = "handle"]
  /\ UNCHANGED <<processVars, handled>>

\* syncHandler and Done
Handle(w) ==
  /\ exit = "running" /\ pc[w] = "handle"
  /\ handled' = handled \cup {key[w]}
  /\ queue' = QueueDone(queue, key[w])
  /\ key' = [key EXCEPT ![w] = NoKey]
  /\ pc' = [pc EXCEPT ![w] = "get"]
  /\ UNCHANGED processVars

\* Get says quit; then stopCh is closed, and the select that sees it or the
\* timer first leads to the same end.
Quit(w) ==
  /\ exit = "running" /\ pc[w] = "get" /\ queue.queue = << >> /\ shutting
  /\ \E next \in {"until", "ended"} : pc' = [pc EXCEPT ![w] = next]
  /\ UNCHANGED <<processVars, queue, key, handled>>

Worker(w) == Until(w) \/ Get(w) \/ Handle(w) \/ Quit(w)

Next ==
  \/ Signal \/ SignalHandler \/ Main
  \/ \E k \in Kinds : Start(k) \/ List(k) \/ HandleDeltas(k) \/ Enqueue(k)
  \/ \E w \in Workers : Worker(w)

Spec == Init /\ [][Next]_vars

(***************************************************************************)
(* Every goroutine that can run does; the reflector repeats its list until *)
(* it succeeds.  Nobody is obliged to send a signal.                       *)
(***************************************************************************)
FairSpec ==
  /\ Spec
  /\ WF_vars(SignalHandler) /\ WF_vars(Main)
  /\ \A k \in Kinds : WF_vars(Start(k)) /\ WF_vars(Informer(k)) /\ WF_vars(Enqueue(k))
  /\ \A w \in Workers : WF_vars(Worker(w))
-----------------------------------------------------------------------------
\* No key is handled before the base chain exists and the caches that the
\* listers read hold every object of both kinds (Run, WaitForCacheSync): a
\* handler that misses an object gives up, and nobody repeats it.
HandlersAreInformed ==
  \A w \in Workers : pc[w] = "handle" =>
    /\ baseChain
    /\ \A k \in Kinds : factory[k].lister = started[k] /\ cache[k] = Objects[k]

\* The status 0 is for a process that was told to stop once it was at work;
\* one that never got there says so (Fatalf), whenever the signal came.
SuccessIsEarned ==
  exit = "0" => stopCh /\ baseChain /\ \A k \in Kinds : cache[k] = Objects[k]

\* When the API server knows both kinds, every object there is gets handled,
\* unless the process ends: the informers are started, their events reach the
\* queue before or after the caches are synchronised, no wait is for ever.
EveryObjectIsHandled ==
  (\A k \in Kinds : served[k]) => <>(exit # "running" \/ handled = Keys)

\* A signal ends the process, also while it waits for caches that never come
\* (SetupSignalHandler, WaitForCacheSync, Run).
SignalEndsProcess == (sent > 0) ~> (exit # "running")
=============================================================================
