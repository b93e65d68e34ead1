----------------------- MODULE ControllerProcessProofs -----------------------
(***************************************************************************)
(* That no key is handled before the process is ready for it, and that it  *)
(* exits with status 0 only when it was, for any kinds and objects, any    *)
(* number of workers and any signals.                                      *)
(***************************************************************************)
EXTENDS ControllerProcess, WorkQueueProofs

\* The cache the controller reads and the one it waits for are those of the
\* informer the factory shares, and starts.
OneInformer(f) == f.shared = 1 /\ f.lister = 1 /\ f.synced = 1

Shape ==
  /\ main \in 1..12
  /\ \A k \in Kinds : IF main > 5 THEN OneInformer(factory[k])
                      ELSE factory[k] = NewSharedInformerFactory
  /\ started \in [Kinds -> {0, 1}]
  /\ listed \in [Kinds -> BOOLEAN]
  /\ pending \in [Kinds -> SUBSET Keys]
  /\ cache \in [Kinds -> SUBSET Keys]
  /\ pc \in [Workers -> {"none", "until", "get", "handle", "ended"}]

\* An informer that runs has nothing left to list or to put into the cache.
Full(k) == started[k] = 1 /\ listed[k] /\ pending[k] = {}

\* What holds once the main goroutine is past a statement.
Progress ==
  /\ main > 7 => baseChain
  /\ main > 8 => \A k \in Kinds : Full(k)
  /\ main <= 9 => \A w \in Workers : pc[w] = "none"
  /\ main > 10 => stopCh
  /\ exit = "0" => main = 12

\* What an informer has listed is in the cache or on its way there.
Listed ==
  \A k \in Kinds : /\ listed[k] => pending[k] \cup cache[k] = Objects[k]
                   /\ ~listed[k] => pending[k] = {} /\ cache[k] = {}

IInv == Shape /\ Progress /\ Listed

\* Where the main goroutine is, by number.
LEMMA StatementNumbers ==
  ASSUME main \in 1..12
  PROVE  /\ Statements[main] = "signals" => main = 1
         /\ Statements[main] \in {"config", "kubeClient", "extClient"} => main \in 2..4
         /\ Statements[main] = "controller" => main = 5
         /\ Statements[main] = "start" => main = 6
         /\ Statements[main] = "baseChain" => main = 7
         /\ Statements[main] = "sync" => main = 8
         /\ Statements[main] = "spawn" => main = 9
         /\ Statements[main] = "serve" => main = 10
         /\ Statements[main] = "shutDown" => main = 11
         /\ Statements[main] = "return" => main = 12
BY DEF Statements

\* The three requests of the controller are answered with one informer.
LEMMA RequestedIsShared == OneInformer(Requested(NewSharedInformerFactory))
<1> DEFINE f == NewSharedInformerFactory
           a == [f EXCEPT !.made = f.made + 1, !.shared = f.made + 1]
<1>1. InformerFor(f) = a  BY DEF InformerFor, NewSharedInformerFactory
<1>2. a.shared = 1  BY DEF NewSharedInformerFactory
<1>3. InformerFor(a) = a
  <2> HIDE DEF a
  <2> QED  BY <1>2 DEF InformerFor
<1>4. Requested(f) = [a EXCEPT !.lister = 1, !.synced = 1, !.handler = 1]
  <2> HIDE DEF a, f
  <2> QED  BY <1>1, <1>2, <1>3 DEF Requested
<1>5. OneInformer([a EXCEPT !.lister = 1, !.synced = 1, !.handler = 1])
  BY DEF OneInformer, NewSharedInformerFactory
<1> QED  BY <1>4, <1>5

\* WaitForCacheSync returns only when every cache is full.
LEMMA SyncedIsFull ==
  ASSUME Shape, main = 8, AllSynced
  PROVE  \A k \in Kinds : Full(k)
BY DEF Shape, OneInformer, AllSynced, HasSynced, Full

\* The process starts in IInv.
LEMMA InitIInv == Init => IInv
<1> SUFFICES ASSUME Init PROVE IInv  OBVIOUS
<1>1. Shape  BY DEF Init, Shape
<1>2. Progress /\ Listed  BY DEF Init, Progress, Listed
<1> QED  BY <1>1, <1>2 DEF IInv

\* A signal and its handler leave the informers and the workers alone.
LEMMA SignalsInv == ASSUME IInv, Signal \/ SignalHandler PROVE IInv'
<1>1. UNCHANGED <<main, factory, informerVars, baseChain, workerVars>>  BY DEF Signal, SignalHandler
<1>2. exit = "running" /\ exit' # "0" /\ (stopCh => stopCh')  BY DEF Signal, SignalHandler
<1>3. Shape' /\ Listed'  BY <1>1 DEF IInv, Shape, Listed, informerVars, workerVars
<1>4. Progress'  BY <1>1, <1>2 DEF IInv, Shape, Progress, Full, informerVars, workerVars
<1> QED  BY <1>3, <1>4 DEF IInv

\* The statements of main, one after the other.
LEMMA MainInv == ASSUME IInv, Main PROVE IInv'
<1> USE DEF At
<1>0. Shape /\ Progress /\ Listed /\ main \in 1..12  BY DEF IInv, Shape
<1>1. CASE SetupSignalHandler \/ BuildClients
  <2>1. /\ main \in 1..4 /\ exit = "running" /\ main' \in {main, main + 1} /\ exit' # "0"
        /\ UNCHANGED <<signalVars, factory, informerVars, baseChain, workerVars>>
    BY <1>0, <1>1, StatementNumbers DEF SetupSignalHandler, BuildClients, Proceed, Fatalf
  <2>2. Shape' /\ Listed'  BY <1>0, <2>1 DEF Shape, Listed, informerVars, workerVars
  <2>3. Progress'  BY <1>0, <2>1 DEF Progress, informerVars, workerVars
  <2> QED  BY <2>2, <2>3 DEF IInv
<1>2. CASE NewNpcController
  <2>1. /\ main = 5 /\ exit = "running" /\ main' = 6 /\ exit' # "0"
        /\ UNCHANGED <<signalVars, informerVars, baseChain, workerVars>>
    BY <1>0, <1>2, StatementNumbers DEF NewNpcController, Proceed
  <2>2. \A k \in Kinds : OneInformer(factory'[k])
    BY <1>0, <1>2, <2>1, RequestedIsShared DEF NewNpcController, Shape
  <2>3. Shape' /\ Listed'  BY <1>0, <2>1, <2>2 DEF Shape, Listed, informerVars, workerVars
  <2>4. Progress'  BY <1>0, <2>1 DEF Progress, informerVars, workerVars
  <2> QED  BY <2>3, <2>4 DEF IInv
<1>3. CASE GoStart
  <2>1. /\ main = 6 /\ exit = "running" /\ main' = 7 /\ exit' # "0"
        /\ UNCHANGED <<signalVars, factory, started, listed, pending, cache, baseChain, workerVars>>
    BY <1>0, <1>3, StatementNumbers DEF GoStart, Proceed
  <2>2. Shape' /\ Listed'  BY <1>0, <2>1 DEF Shape, Listed, workerVars
  <2>3. Progress'  BY <1>0, <2>1 DEF Progress, workerVars
  <2> QED  BY <2>2, <2>3 DEF IInv
<1>4. CASE CreateBaseChain
  <2>1. /\ main = 7 /\ exit = "running" /\ exit' # "0"
        /\ main' = 7 \/ (main' = 8 /\ baseChain' = TRUE)
        /\ UNCHANGED <<signalVars, factory, informerVars, workerVars>>
    BY <1>0, <1>4, StatementNumbers DEF CreateBaseChain, Proceed, Fatalf
  <2>2. Shape' /\ Listed'  BY <1>0, <2>1 DEF Shape, Listed, informerVars, workerVars
  <2>3. Progress'  BY <1>0, <2>1 DEF Progress, workerVars
  <2> QED  BY <2>2, <2>3 DEF IInv
<1>5. CASE WaitForCacheSync
  <2>1. /\ main = 8 /\ exit = "running" /\ exit' # "0"
        /\ main' = 8 \/ (main' = 9 /\ AllSynced)
        /\ UNCHANGED <<signalVars, factory, informerVars, baseChain, workerVars>>
    BY <1>0, <1>5, StatementNumbers DEF WaitForCacheSync, Proceed, Fatalf, AllSynced, HasSynced
  <2>2. Shape' /\ Listed'  BY <1>0, <2>1 DEF Shape, Listed, informerVars, workerVars
  <2>3. main' = 9 => \A k \in Kinds : Full(k)'
    BY <1>0, <2>1, SyncedIsFull DEF Full, informerVars
  <2>4. Progress'  BY <1>0, <2>1, <2>3 DEF Progress, workerVars
  <2> QED  BY <2>2, <2>4 DEF IInv
<1>6. CASE SpawnWorkers
  <2>1. /\ main = 9 /\ exit = "running" /\ main' = 10 /\ exit' # "0"
        /\ pc' = [w \in Workers |-> "until"]
        /\ UNCHANGED <<signalVars, factory, informerVars, baseChain>>
    BY <1>0, <1>6, StatementNumbers DEF SpawnWorkers, Proceed
  <2>2. Shape' /\ Listed'  BY <1>0, <2>1 DEF Shape, Listed, informerVars
  <2>3. Progress'  BY <1>0, <2>1 DEF Progress, Full, informerVars
  <2> QED  BY <2>2, <2>3 DEF IInv
<1>7. CASE AwaitStop \/ ShutDown \/ Return
  <2>1. /\ main \in 10..12 /\ main' \in 10..12 /\ main' >= main
        /\ main' > 10 => stopCh \/ main > 10
        /\ exit = "running" /\ (exit' = "0" => main' = 12)
        /\ UNCHANGED <<signalVars, factory, informerVars, baseChain, workerVars>>
    BY <1>0, <1>7, StatementNumbers DEF AwaitStop, ShutDown, Return, Proceed
  <2>2. Shape' /\ Listed'  BY <1>0, <2>1 DEF Shape, Listed, informerVars, workerVars
  <2>3. Progress'  BY <1>0, <2>1 DEF Progress, Full, informerVars, workerVars, signalVars
  <2> QED  BY <2>2, <2>3 DEF IInv
<1> QED  BY <1>1, <1>2, <1>3, <1>4, <1>5, <1>6, <1>7 DEF Main

\* An informer only adds to what it has, and a full cache stays full.
LEMMA InformersInv ==
  ASSUME IInv, NEW k \in Kinds, Start(k) \/ List(k) \/ HandleDeltas(k) \/ Enqueue(k)
  PROVE  IInv'
<1>0. Shape /\ Progress /\ Listed  BY DEF IInv
<1>1. CASE Start(k)
  <2>1. /\ started' \in [Kinds -> {0, 1}] /\ (\A j \in Kinds : started[j] = 1 => started'[j] = 1)
        /\ UNCHANGED <<main, exit, signalVars, factory, listed, pending, cache, baseChain, workerVars>>
    BY <1>0, <1>1 DEF Start, Shape, OneInformer, NewSharedInformerFactory
  <2>2. Shape' /\ Listed'  BY <1>0, <2>1 DEF Shape, Listed, workerVars
  <2>3. Progress'  BY <1>0, <2>1 DEF Progress, Full, workerVars, signalVars
  <2> QED  BY <2>2, <2>3 DEF IInv
<1>2. CASE List(k)
  <2>1. /\ ~listed[k] /\ listed' = [listed EXCEPT ![k] = TRUE]
        /\ pending' = [pending EXCEPT ![k] = Objects[k]]
        /\ UNCHANGED <<main, exit, signalVars, factory, started, cache, baseChain, workerVars>>
    BY <1>2 DEF List
  <2>2. Objects[k] \subseteq Keys  BY DEF Keys
  <2>3. Shape'  BY <1>0, <2>1, <2>2 DEF Shape, workerVars
  <2>4. Listed'  BY <1>0, <2>1 DEF Shape, Listed
  <2>5. main <= 8  BY <1>0, <2>1 DEF Shape, Progress, Full
  <2>6. Progress'  BY <1>0, <2>1, <2>5 DEF Shape, Progress, workerVars, signalVars
  <2> QED  BY <2>3, <2>4, <2>6 DEF IInv
<1>3. CASE HandleDeltas(k)
  <2>1. PICK o \in pending[k] :
          /\ pending' = [pending EXCEPT ![k] = pending[k] \ {o}]
          /\ cache' = [cache EXCEPT ![k] = cache[k] \cup {o}]
          /\ UNCHANGED <<main, exit, signalVars, factory, started, listed, baseChain, workerVars>>
    BY <1>3 DEF HandleDeltas
  <2>2. o \in Keys  BY <1>0, <2>1 DEF Shape
  <2>3. Shape'  BY <1>0, <2>1, <2>2 DEF Shape, workerVars
  <2>4. Listed'
    <3> SUFFICES ASSUME NEW j \in Kinds
                 PROVE  /\ listed[j] => pending'[j] \cup cache'[j] = Objects[j]
                        /\ ~listed[j] => pending'[j] = {} /\ cache'[j] = {}
      BY <2>1 DEF Listed
    <3>1. /\ j = k => pending'[j] = pending[j] \ {o} /\ cache'[j] = cache[j] \cup {o}
          /\ j # k => pending'[j] = pending[j] /\ cache'[j] = cache[j]
      BY <1>0, <2>1 DEF Shape
    <3>2. /\ listed[j] => pending[j] \cup cache[j] = Objects[j]
          /\ ~listed[j] => pending[j] = {} /\ cache[j] = {}
      BY <1>0 DEF Listed
    <3>3. CASE j = k  BY <2>1, <3>1, <3>2, <3>3
    <3>4. CASE j # k  BY <3>1, <3>2, <3>4
    <3> QED  BY <3>3, <3>4
  <2>5. main <= 8  BY <1>0, <2>1 DEF Shape, Progress, Full
  <2>6. Progress'  BY <1>0, <2>1, <2>5 DEF Shape, Progress, workerVars, signalVars
  <2> QED  BY <2>3, <2>4, <2>6 DEF IInv
<1>4. CASE Enqueue(k)
  <2>1. UNCHANGED <<main, exit, signalVars, factory, started, listed, pending, cache, baseChain,
                    workerVars>>
    BY <1>4 DEF Enqueue
  <2>2. Shape' /\ Listed'  BY <1>0, <2>1 DEF Shape, Listed, workerVars
  <2>3. Progress'  BY <1>0, <2>1 DEF Progress, Full, workerVars, signalVars
  <2> QED  BY <2>2, <2>3 DEF IInv
<1> QED  BY <1>1, <1>2, <1>3, <1>4

\* The workers are there only once main has started them.
LEMMA WorkersInv == ASSUME IInv, NEW w \in Workers, Worker(w) PROVE IInv'
<1>0. Shape /\ Progress /\ Listed  BY DEF IInv
<1>1. /\ exit = "running" /\ pc[w] # "none" /\ UNCHANGED processVars
      /\ \E l \in {"until", "get", "handle", "ended"} : pc' = [pc EXCEPT ![w] = l]
  BY DEF Worker, Until, Get, Handle, Quit
<1>2. main > 9  BY <1>0, <1>1 DEF Shape, Progress
<1>3. Shape'  BY <1>0, <1>1 DEF Shape, processVars, informerVars
<1>4. Listed'  BY <1>0, <1>1 DEF Listed, processVars, informerVars
<1>5. Progress'  BY <1>0, <1>1, <1>2 DEF Shape, Progress, Full, processVars, informerVars, signalVars
<1> QED  BY <1>3, <1>4, <1>5 DEF IInv

\* Every step of the process keeps IInv.
LEMMA NextIInv == IInv /\ [Next]_vars => IInv'
<1> SUFFICES ASSUME IInv, [Next]_vars PROVE IInv'  OBVIOUS
<1>1. CASE Signal \/ SignalHandler  BY <1>1, SignalsInv
<1>2. CASE Main  BY <1>2, MainInv
<1>3. ASSUME NEW k \in Kinds, Start(k) \/ List(k) \/ HandleDeltas(k) \/ Enqueue(k) PROVE IInv'
  BY <1>3, InformersInv
<1>4. ASSUME NEW w \in Workers, Worker(w) PROVE IInv'  BY <1>4, WorkersInv
<1>5. CASE UNCHANGED vars
  <2>1. UNCHANGED <<main, exit, signalVars, factory, informerVars, baseChain, workerVars>>
    BY <1>5 DEF vars
  <2>2. Shape' /\ Listed'  BY <2>1 DEF IInv, Shape, Listed, informerVars, workerVars
  <2>3. Progress'  BY <2>1 DEF IInv, Progress, Full, informerVars, workerVars, signalVars
  <2> QED  BY <2>2, <2>3 DEF IInv
<1> QED  BY <1>1, <1>2, <1>3, <1>4, <1>5 DEF Next

\* The cache of a full informer holds what the cluster has.
LEMMA FullHasAll == ASSUME Listed, NEW k \in Kinds, Full(k) PROVE cache[k] = Objects[k]
<1>1. listed[k] /\ pending[k] = {}  BY DEF Full
<1>2. {} \cup cache[k] = Objects[k]  BY <1>1 DEF Listed
<1> QED  BY <1>2

\* When a worker handles a key the base chain is made and both caches are
\* complete (Run after WaitForCacheSync), whatever the order of the goroutines.
THEOREM ReadyBeforeWork == Spec => []HandlersAreInformed
<1>1. IInv => HandlersAreInformed
  <2> SUFFICES ASSUME IInv, NEW w \in Workers, pc[w] = "handle"
               PROVE  /\ baseChain
                      /\ \A k \in Kinds : factory[k].lister = started[k] /\ cache[k] = Objects[k]
    BY DEF HandlersAreInformed
  <2>1. main > 9 /\ baseChain /\ \A k \in Kinds : Full(k)
    BY DEF IInv, Shape, Progress
  <2>2. \A k \in Kinds : factory[k].lister = 1  BY <2>1 DEF IInv, Shape, OneInformer
  <2>3. ASSUME NEW k \in Kinds PROVE factory[k].lister = started[k] /\ cache[k] = Objects[k]
    BY <2>1, <2>2, FullHasAll DEF IInv, Full
  <2> QED  BY <2>1, <2>3
<1> QED  BY <1>1, InitIInv, NextIInv, PTL DEF Spec

\* The exit status 0 is given only after a signal, by a process that was at
\* work (main, Run).
THEOREM SuccessAfterWork == Spec => []SuccessIsEarned
<1>1. IInv => SuccessIsEarned
  <2> SUFFICES ASSUME IInv, exit = "0"
               PROVE  stopCh /\ baseChain /\ \A k \in Kinds : cache[k] = Objects[k]
    BY DEF SuccessIsEarned
  <2>1. stopCh /\ baseChain /\ \A k \in Kinds : Full(k)  BY DEF IInv, Progress
  <2> QED  BY <2>1, FullHasAll DEF IInv
<1> QED  BY <1>1, InitIInv, NextIInv, PTL DEF Spec
-----------------------------------------------------------------------------
(***************************************************************************)
(* The types of the rest.  A worker removes the key it holds from the keys *)
(* in processing, so the queue keeps its types only because that key is    *)
(* among them, and is no other worker's.                                   *)
(***************************************************************************)
KeysTaken ==
  /\ QueueConsistent(queue)
  /\ \A w \in Workers : pc[w] = "handle" => key[w] \in queue.processing
  /\ \A v, w \in Workers :
       v # w /\ pc[v] = "handle" /\ pc[w] = "handle" => key[v] # key[w]

QueueTypes ==
  /\ queue \in Queues(Keys)
  /\ key \in [Workers -> Keys \cup {NoKey}]
  /\ handled \subseteq Keys
  /\ KeysTaken

Factories == [made : Nat, shared : Nat, lister : Nat, synced : Nat, handler : Nat]

ProcessTypes ==
  /\ exit \in {"running", "killed", "0", "1", "255"}
  /\ sent \in 0..MaxSignals /\ c \in 0..Buffer /\ caught \in 0..1
  /\ stopCh \in BOOLEAN /\ shutting \in BOOLEAN /\ baseChain \in BOOLEAN
  /\ factory \in [Kinds -> Factories]
  /\ starter \in [Kinds -> {"none", "ready", "done"}]
  /\ served \in [Kinds -> BOOLEAN]

NoteTypes ==
  /\ DOMAIN notes = Kinds
  /\ \A k \in Kinds : notes[k] \in Seq(Objects[k])

Typed == QueueTypes /\ ProcessTypes /\ NoteTypes

\* A factory is a factory after the three requests.
LEMMA RequestedType == ASSUME NEW f \in Factories PROVE Requested(f) \in Factories
<1>1. ASSUME NEW g \in Factories PROVE InformerFor(g) \in Factories
  <2> DEFINE n == g.made + 1
  <2>1. n \in Nat  BY DEF Factories
  <2> HIDE DEF n
  <2>2. [g EXCEPT !.made = n, !.shared = n] \in Factories  BY <2>1 DEF Factories
  <2> QED  BY <2>2 DEF InformerFor, n
<1> DEFINE a == InformerFor(f)
           b == InformerFor(a)
           d == InformerFor(b)
<1>2. a \in Factories /\ b \in Factories /\ d \in Factories  BY <1>1
<1>3. Requested(f) = [d EXCEPT !.lister = a.shared, !.synced = b.shared, !.handler = d.shared]
  BY DEF Requested
<1> HIDE DEF a, b, d
<1> QED  BY <1>2, <1>3 DEF Factories

\* The process starts well typed.
LEMMA InitTyped == Init => Typed
<1> SUFFICES ASSUME Init PROVE Typed  OBVIOUS
<1>1. QueueTypes
  <2>1. << >> \in Seq(Keys) /\ DOMAIN << >> = {}  OBVIOUS
  <2>2. queue \in Queues(Keys) /\ QueueConsistent(queue)
    BY <2>1 DEF Init, EmptyQueue, Queues, QueueConsistent
  <2> QED  BY <2>2 DEF Init, QueueTypes, KeysTaken
<1>2. NewSharedInformerFactory \in Factories  BY DEF NewSharedInformerFactory, Factories
<1>3. ProcessTypes
  <2>1. sent \in 0..MaxSignals /\ c \in 0..Buffer /\ caught \in 0..1
    BY ProcessAssumption DEF Init, Buffer
  <2>2. factory \in [Kinds -> Factories] /\ starter \in [Kinds -> {"none", "ready", "done"}]
    BY <1>2 DEF Init
  <2> QED  BY <2>1, <2>2 DEF Init, ProcessTypes
<1>4. NoteTypes  BY DEF Init, NoteTypes
<1> QED  BY <1>1, <1>3, <1>4 DEF Typed

\* Signals and the main goroutine.
LEMMA MainTyped ==
  ASSUME IInv, Typed, Signal \/ SignalHandler \/ Main
  PROVE  Typed'
<1>1. UNCHANGED <<queue, key, handled, notes, served>>
  BY DEF Signal, SignalHandler, Main, SetupSignalHandler, BuildClients, NewNpcController,
         GoStart, CreateBaseChain, WaitForCacheSync, SpawnWorkers, AwaitStop, ShutDown,
         Return, informerVars, workerVars
<1>2. \A w \in Workers : pc'[w] = "handle" => pc[w] = "handle"
  BY DEF Signal, SignalHandler, Main, SetupSignalHandler, BuildClients, NewNpcController,
         GoStart, CreateBaseChain, WaitForCacheSync, SpawnWorkers, AwaitStop, ShutDown,
         Return, workerVars
<1>3. QueueTypes' /\ NoteTypes'
  BY <1>1, <1>2 DEF Typed, QueueTypes, KeysTaken, NoteTypes
<1>4. ProcessTypes
  BY DEF Typed
<1>5. CASE Signal
  <2>1. sent' \in 0..MaxSignals /\ c' \in 0..Buffer
    BY <1>4, <1>5, ProcessAssumption DEF Signal, Deliver, ProcessTypes, Buffer
  <2> QED  BY <1>3, <1>4, <1>5, <2>1 DEF Signal, ProcessTypes, Typed, informerVars
<1>6. CASE SignalHandler
  <2>1. c' \in 0..Buffer  BY <1>4, <1>6 DEF SignalHandler, ProcessTypes, Buffer
  <2>2. /\ exit' \in {exit, "1"} /\ caught' \in {caught, 1} /\ stopCh' \in {stopCh, TRUE}
        /\ UNCHANGED <<sent, factory, starter, served, shutting, baseChain>>
    BY <1>6 DEF SignalHandler, informerVars
  <2>3. caught' \in 0..1  BY <1>4, <2>2 DEF ProcessTypes
  <2>4. ProcessTypes'  BY <1>4, <2>1, <2>2, <2>3 DEF ProcessTypes
  <2> QED  BY <1>3, <2>4 DEF Typed
<1>7. CASE Main
  <2>1. UNCHANGED signalVars /\ exit' \in {exit, "0", "255"}
    BY <1>7 DEF Main, SetupSignalHandler, BuildClients, NewNpcController, GoStart,
                CreateBaseChain, WaitForCacheSync, SpawnWorkers, AwaitStop, ShutDown,
                Return, Proceed, Fatalf
  <2>2. shutting' \in {shutting, TRUE} /\ baseChain' \in {baseChain, TRUE}
    BY <1>7 DEF Main, SetupSignalHandler, BuildClients, NewNpcController, GoStart,
                CreateBaseChain, WaitForCacheSync, SpawnWorkers, AwaitStop, ShutDown, Return
  <2>3. factory' \in [Kinds -> Factories]
    <3>1. factory' = factory \/ factory' = [k \in Kinds |-> Requested(factory[k])]
      BY <1>7 DEF Main, SetupSignalHandler, BuildClients, NewNpcController, GoStart,
                  CreateBaseChain, WaitForCacheSync, SpawnWorkers, AwaitStop, ShutDown, Return
    <3> QED  BY <1>4, <3>1, RequestedType DEF ProcessTypes
  <2>4. starter' \in [Kinds -> {"none", "ready", "done"}]
    <3>1. starter' = starter \/ starter' = [k \in Kinds |-> "ready"]
      BY <1>7 DEF Main, SetupSignalHandler, BuildClients, NewNpcController, GoStart,
                  CreateBaseChain, WaitForCacheSync, SpawnWorkers, AwaitStop, ShutDown,
                  Return, informerVars
    <3> QED  BY <1>4, <3>1 DEF ProcessTypes
  <2>5. ProcessTypes'
    BY <1>1, <1>4, <2>1, <2>2, <2>3, <2>4 DEF ProcessTypes, signalVars
  <2> QED  BY <1>3, <2>5 DEF Typed
<1> QED  BY <1>5, <1>6, <1>7

\* The informers and their event handlers.
LEMMA InformersTyped ==
  ASSUME IInv, Typed, NEW k \in Kinds,
         Start(k) \/ List(k) \/ HandleDeltas(k) \/ Enqueue(k)
  PROVE  Typed'
<1>1. /\ UNCHANGED <<exit, signalVars, factory, served, shutting, baseChain, workerVars>>
      /\ starter' \in {starter, [starter EXCEPT ![k] = "done"]}
  BY DEF Start, List, HandleDeltas, Enqueue
<1>2. ProcessTypes'  BY <1>1 DEF Typed, ProcessTypes, signalVars
<1>3. CASE Start(k) \/ List(k)
  <2>1. UNCHANGED <<notes, queue>>  BY <1>3 DEF Start, List
  <2> QED  BY <1>1, <1>2, <2>1 DEF Typed, QueueTypes, KeysTaken, NoteTypes, workerVars
<1>4. CASE HandleDeltas(k)
  <2>1. PICK o \in pending[k] :
          notes' = notes \/ notes' = [notes EXCEPT ![k] = Append(notes[k], o)]
    BY <1>4 DEF HandleDeltas
  <2>2. o \in Objects[k]  BY <2>1 DEF IInv, Shape, Listed
  <2>3. Append(notes[k], o) \in Seq(Objects[k])  BY <2>2 DEF Typed, NoteTypes
  <2>4. NoteTypes'  BY <2>1, <2>3 DEF Typed, NoteTypes
  <2>5. UNCHANGED queue  BY <1>4 DEF HandleDeltas
  <2> QED  BY <1>1, <1>2, <2>4, <2>5 DEF Typed, QueueTypes, KeysTaken, workerVars
<1>5. CASE Enqueue(k)
  <2> DEFINE s == notes[k]
             o == Head(s)
  <2>1. s \in Seq(Objects[k]) /\ s # << >>  BY <1>5 DEF Enqueue, Typed, NoteTypes
  <2>2. o \in Objects[k] /\ Tail(s) \in Seq(Objects[k])
    <3> HIDE DEF s
    <3> QED  BY <2>1, TailHeld
  <2>3. o \in Keys  BY <2>2 DEF Keys
  <2>4. notes' = [notes EXCEPT ![k] = Tail(s)] /\ queue' \in {queue, QueueAdd(queue, o)}
    BY <1>5 DEF Enqueue
  <2> HIDE DEF s, o
  <2>5. NoteTypes'  BY <2>2, <2>4 DEF Typed, NoteTypes
  <2>6. /\ queue' \in Queues(Keys) /\ QueueConsistent(queue')
        /\ queue'.processing = queue.processing
    BY <2>3, <2>4, QueueAddConsistent DEF Typed, QueueTypes, KeysTaken
  <2>7. QueueTypes'  BY <1>1, <2>6 DEF Typed, QueueTypes, KeysTaken, workerVars
  <2> QED  BY <1>2, <2>5, <2>7 DEF Typed
<1> QED  BY <1>3, <1>4, <1>5

\* The workers.
LEMMA WorkersTyped ==
  ASSUME IInv, Typed, NEW w \in Workers, Worker(w)
  PROVE  Typed'
<1>1. UNCHANGED processVars  BY DEF Worker, Until, Get, Handle, Quit
<1>2. ProcessTypes' /\ NoteTypes'
  BY <1>1 DEF Typed, ProcessTypes, NoteTypes, processVars, signalVars, informerVars
<1>3. /\ pc \in [Workers -> {"none", "until", "get", "handle", "ended"}]
      /\ queue \in Queues(Keys) /\ QueueConsistent(queue)
      /\ key \in [Workers -> Keys \cup {NoKey}] /\ handled \subseteq Keys
      /\ queue.processing \subseteq Keys /\ QueueTypes /\ KeysTaken
  BY DEF IInv, Shape, Typed, QueueTypes, KeysTaken, Queues
<1>4. CASE Until(w) \/ Quit(w)
  <2>1. UNCHANGED <<queue, key, handled>>  BY <1>4 DEF Until, Quit
  <2>2. \A v \in Workers : pc'[v] = "handle" => pc[v] = "handle"
    BY <1>3, <1>4 DEF Until, Quit
  <2> QED  BY <1>2, <1>3, <2>1, <2>2 DEF Typed, QueueTypes, KeysTaken
<1>5. CASE Get(w)
  <2> DEFINE x == Head(queue.queue)
  <2>1. /\ queue.queue # << >> /\ key' = [key EXCEPT ![w] = x] /\ queue' = QueueGet(queue)
        /\ pc' = [pc EXCEPT ![w] = "handle"] /\ handled' = handled
    BY <1>5 DEF Get
  <2>2. /\ queue' \in Queues(Keys) /\ QueueConsistent(queue') /\ x \in Keys \ queue.processing
        /\ queue'.processing = queue.processing \cup {x}
    BY <1>3, <2>1, QueueGetConsistent
  <2> HIDE DEF x
  <2>3. /\ key'[w] = x /\ pc'[w] = "handle"
        /\ \A v \in Workers : v # w => key'[v] = key[v] /\ pc'[v] = pc[v]
    BY <1>3, <2>1
  <2>4. KeysTaken'
    <3>1. \A v \in Workers : v # w /\ pc'[v] = "handle" => key'[v] \in queue.processing
      BY <1>3, <2>3 DEF KeysTaken
    <3>2. \A v \in Workers : pc'[v] = "handle" => key'[v] \in queue'.processing
      BY <2>2, <2>3, <3>1
    <3>3. \A v \in Workers : v # w /\ pc'[v] = "handle" => key'[v] # key'[w]
      BY <2>2, <2>3, <3>1
    <3>4. \A u, v \in Workers : u # v /\ u # w /\ v # w /\ pc'[u] = "handle" /\ pc'[v] = "handle"
            => key'[u] # key'[v]
      BY <1>3, <2>3 DEF KeysTaken
    <3> QED  BY <2>2, <3>2, <3>3, <3>4 DEF KeysTaken
  <2>5. key' \in [Workers -> Keys \cup {NoKey}]  BY <1>3, <2>1, <2>2
  <2> QED  BY <1>2, <1>3, <2>1, <2>2, <2>4, <2>5 DEF Typed, QueueTypes
<1>6. CASE Handle(w)
  <2> DEFINE x == key[w]
  <2>1. /\ pc[w] = "handle" /\ key' = [key EXCEPT ![w] = NoKey] /\ queue' = QueueDone(queue, x)
        /\ pc' = [pc EXCEPT ![w] = "get"] /\ handled' = handled \cup {x}
    BY <1>6 DEF Handle
  <2>2. x \in queue.processing /\ x \in Keys  BY <1>3, <2>1 DEF KeysTaken
  <2>3. /\ queue' \in Queues(Keys) /\ QueueConsistent(queue')
        /\ queue'.processing = queue.processing \ {x}
    BY <1>3, <2>1, <2>2, QueueDoneConsistent
  <2>4. /\ pc'[w] = "get"
        /\ \A v \in Workers : v # w => key'[v] = key[v] /\ pc'[v] = pc[v]
    BY <1>3, <2>1
  <2>5. \A v \in Workers : v # w /\ pc'[v] = "handle" => key'[v] \in queue.processing \ {x}
    BY <1>3, <2>1, <2>4 DEF KeysTaken
  <2>6. KeysTaken'  BY <1>3, <2>3, <2>4, <2>5 DEF KeysTaken
  <2>7. key' \in [Workers -> Keys \cup {NoKey}]  BY <1>3, <2>1
  <2> QED  BY <1>2, <1>3, <2>1, <2>2, <2>3, <2>6, <2>7 DEF Typed, QueueTypes
<1> QED  BY <1>4, <1>5, <1>6 DEF Worker

\* Every step of the process keeps the types.
LEMMA NextTyped == IInv /\ Typed /\ [Next]_vars => Typed'
<1> SUFFICES ASSUME IInv, Typed, [Next]_vars PROVE Typed'  OBVIOUS
<1>1. CASE Signal \/ SignalHandler \/ Main  BY <1>1, MainTyped
<1>2. ASSUME NEW k \in Kinds, Start(k) \/ List(k) \/ HandleDeltas(k) \/ Enqueue(k) PROVE Typed'
  BY <1>2, InformersTyped
<1>3. ASSUME NEW w \in Workers, Worker(w) PROVE Typed'  BY <1>3, WorkersTyped
<1>4. CASE UNCHANGED vars
  <2>1. QueueTypes' /\ NoteTypes'
    BY <1>4 DEF Typed, QueueTypes, KeysTaken, NoteTypes, vars, informerVars, workerVars
  <2>2. ProcessTypes'
    BY <1>4 DEF Typed, ProcessTypes, vars, signalVars, informerVars
  <2> QED  BY <2>1, <2>2 DEF Typed
<1> QED  BY <1>1, <1>2, <1>3, <1>4 DEF Next

\* The process keeps its types: the signal channel never holds more than two,
\* a worker that finishes has a key to finish, and a cache holds only objects
\* of its kind (SetupSignalHandler, InformerFor, worker).
THEOREM ProcessTypeCorrect == Spec => []TypeOK
<1>1. IInv /\ Typed => TypeOK
  <2> SUFFICES ASSUME IInv, Typed PROVE TypeOK  OBVIOUS
  <2>1. main \in 1..Len(Statements)  BY DEF IInv, Shape, Statements
  <2>2. \A k \in Kinds : pending[k] \cup cache[k] \subseteq Objects[k]
    BY DEF IInv, Shape, Listed
  <2>3. /\ started \in [Kinds -> Nat] /\ listed \in [Kinds -> BOOLEAN]
        /\ pc \in [Workers -> {"none", "until", "get", "handle", "ended"}]
    BY DEF IInv, Shape
  <2>4. ProcessTypes /\ NoteTypes /\ QueueTypes  BY DEF Typed
  <2> QED  BY <2>1, <2>2, <2>3, <2>4
           DEF TypeOK, ProcessTypes, NoteTypes, QueueTypes, Factories
<1>2. Init => IInv /\ Typed  BY InitIInv, InitTyped
<1>3. IInv /\ Typed /\ [Next]_vars => (IInv /\ Typed)'  BY NextIInv, NextTyped
<1> QED  BY <1>1, <1>2, <1>3, PTL DEF Spec
=============================================================================
