----------------------------- MODULE WorkQueue ------------------------------
(***************************************************************************)
(* The client-go work queue: a FIFO of keys that holds a key at most once, *)
(* and never hands a key to a worker while another one is processing it.   *)
(* A queue is a record of the fields of workqueue.Type.                    *)
(***************************************************************************)
EXTENDS Naturals, Sequences

Queues(Items) ==
  [queue : Seq(Items), dirty : SUBSET Items, processing : SUBSET Items]

EmptyQueue == [queue |-> << >>, dirty |-> {}, processing |-> {}]

\* Variation: a key in processing is queued again at once.
QueueAddAtOnce(q, item) ==
  IF item \in q.dirty THEN q
  ELSE [q EXCEPT !.dirty = q.dirty \cup {item}, !.queue = Append(q.queue, item)]

\* Add drops a key that is already waiting and defers one in processing.
QueueAdd(q, item) ==
  IF item \in q.dirty THEN q
  ELSE [q EXCEPT !.dirty = q.dirty \cup {item},
                 !.queue = IF item \in q.processing THEN q.queue
                           ELSE Append(q.queue, item)]

\* Get takes the head of a queue that is not empty.
QueueGet(q) ==
  [queue      |-> Tail(q.queue),
   dirty      |-> q.dirty \ {Head(q.queue)},
   processing |-> q.processing \cup {Head(q.queue)}]

\* Variation: the mark of a key added meanwhile is wiped out with it.
QueueDoneClean(q, item) ==
  [q EXCEPT !.processing = q.processing \ {item}, !.dirty = q.dirty \ {item}]

\* Done puts the key back when it was added again meanwhile.
QueueDone(q, item) ==
  [q EXCEPT !.processing = q.processing \ {item},
            !.queue = IF item \in q.dirty THEN Append(q.queue, item) ELSE q.queue]

(***************************************************************************)
(* The comment on workqueue.Type: "Every element of queue should be in the *)
(* dirty set and not in the processing set", here with its converse and    *)
(* with the queue free of repetitions.                                     *)
(***************************************************************************)
QueueConsistent(q) ==
  /\ {q.queue[k] : k \in DOMAIN q.queue} = q.dirty \ q.processing
  /\ \A j, k \in DOMAIN q.queue : j # k => q.queue[j] # q.queue[k]
=============================================================================
