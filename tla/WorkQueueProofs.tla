--------------------------- MODULE WorkQueueProofs ---------------------------
(***************************************************************************)
(* What the three operations of the work queue preserve.                   *)
(***************************************************************************)
EXTENDS WorkQueue, TLAPS

\* The items a sequence holds.
Held(s) == {s[k] : k \in DOMAIN s}

\* No two places of s hold the same item.
NoRepeats(s) == \A j, k \in DOMAIN s : j # k => s[j] # s[k]

\* Appending adds one item, and no repetition when the item is new.
LEMMA AppendHeld ==
  ASSUME NEW I, NEW s \in Seq(I), NEW x \in I
  PROVE  /\ Append(s, x) \in Seq(I)
         /\ Held(Append(s, x)) = Held(s) \cup {x}
         /\ NoRepeats(s) /\ x \notin Held(s) => NoRepeats(Append(s, x))
<1> DEFINE u == Append(s, x)
<1>1. /\ u \in Seq(I) /\ DOMAIN u = 1..(Len(s) + 1) /\ DOMAIN s = 1..Len(s) /\ Len(s) \in Nat
      /\ u[Len(s) + 1] = x /\ \A k \in 1..Len(s) : u[k] = s[k]
  OBVIOUS
<1> HIDE DEF u
<1>2. DOMAIN u = DOMAIN s \cup {Len(s) + 1} /\ Len(s) + 1 \notin DOMAIN s  BY <1>1
<1>3. Held(u) = Held(s) \cup {x}  BY <1>1, <1>2 DEF Held
<1>4. NoRepeats(s) /\ x \notin Held(s) => NoRepeats(u)
  BY <1>1, <1>2 DEF Held, NoRepeats
<1> QED  BY <1>1, <1>3, <1>4 DEF u

\* Taking the head removes it, once and for all when nothing is repeated.
LEMMA TailHeld ==
  ASSUME NEW I, NEW s \in Seq(I), s # << >>
  PROVE  /\ Head(s) \in I /\ Tail(s) \in Seq(I) /\ Head(s) \in Held(s)
         /\ NoRepeats(s) => Held(Tail(s)) = Held(s) \ {Head(s)} /\ NoRepeats(Tail(s))
<1> DEFINE u == Tail(s)
           N == Len(s) - 1
<1>1. /\ N \in Nat /\ DOMAIN s = 1..(N + 1) /\ DOMAIN u = 1..N /\ u \in Seq(I)
      /\ Head(s) = s[1] /\ s[1] \in I /\ \A k \in 1..N : u[k] = s[k + 1]
  OBVIOUS
<1> HIDE DEF u, N
<1>2. Head(s) \in Held(s)  BY <1>1 DEF Held
<1>3. ASSUME NoRepeats(s)  PROVE Held(u) = Held(s) \ {Head(s)}
  <2>1. Held(u) \subseteq Held(s) \ {Head(s)}  BY <1>1, <1>3 DEF Held, NoRepeats
  <2>2. \A k \in 1..(N + 1) : k = 1 \/ (k - 1 \in 1..N /\ (k - 1) + 1 = k)  BY <1>1
  <2>3. \A k \in 1..(N + 1) : k = 1 \/ s[k] = u[k - 1]  BY <1>1, <2>2
  <2>4. Held(s) \ {Head(s)} \subseteq Held(u)
    <3> SUFFICES ASSUME NEW k \in 1..(N + 1), s[k] # s[1]
                 PROVE  s[k] \in Held(u)
      BY <1>1 DEF Held
    <3>1. k # 1  OBVIOUS
    <3>2. k - 1 \in DOMAIN u /\ s[k] = u[k - 1]  BY <1>1, <2>2, <2>3, <3>1
    <3> QED  BY <3>2 DEF Held
  <2> QED  BY <2>1, <2>4
<1>4. NoRepeats(s) => NoRepeats(u)
  <2> SUFFICES ASSUME NoRepeats(s), NEW j \in 1..N, NEW k \in 1..N, j # k
               PROVE  u[j] # u[k]
    BY <1>1 DEF NoRepeats
  <2>1. j + 1 \in DOMAIN s /\ k + 1 \in DOMAIN s /\ j + 1 # k + 1  BY <1>1
  <2>2. s[j + 1] # s[k + 1]  BY <2>1 DEF NoRepeats
  <2> QED  BY <1>1, <2>2
<1> QED  BY <1>1, <1>2, <1>3, <1>4 DEF u
-----------------------------------------------------------------------------
\* QueueConsistent in terms of the items held.
LEMMA ConsistentHeld ==
  ASSUME NEW q
  PROVE  QueueConsistent(q) <=> Held(q.queue) = q.dirty \ q.processing /\ NoRepeats(q.queue)
BY DEF QueueConsistent, Held, NoRepeats

\* Add keeps the queue consistent and touches no key in processing.
LEMMA QueueAddConsistent ==
  ASSUME NEW I, NEW q \in Queues(I), QueueConsistent(q), NEW x \in I
  PROVE  /\ QueueAdd(q, x) \in Queues(I) /\ QueueConsistent(QueueAdd(q, x))
         /\ QueueAdd(q, x).processing = q.processing
<1>1. q.queue \in Seq(I) /\ q.dirty \subseteq I /\ q.processing \subseteq I
  BY DEF Queues
<1>2. CASE x \in q.dirty  BY <1>2 DEF QueueAdd
<1>3. CASE x \notin q.dirty
  <2> DEFINE r == QueueAdd(q, x)
  <2>1. /\ r.dirty = q.dirty \cup {x} /\ r.processing = q.processing
        /\ r.queue = IF x \in q.processing THEN q.queue ELSE Append(q.queue, x)
        /\ r = [queue |-> r.queue, dirty |-> r.dirty, processing |-> r.processing]
    BY <1>3 DEF QueueAdd, Queues
  <2> HIDE DEF r
  <2>2. /\ Append(q.queue, x) \in Seq(I)
        /\ Held(Append(q.queue, x)) = Held(q.queue) \cup {x}
        /\ NoRepeats(q.queue) /\ x \notin Held(q.queue) => NoRepeats(Append(q.queue, x))
    BY <1>1, AppendHeld
  <2>3. Held(q.queue) = q.dirty \ q.processing /\ NoRepeats(q.queue)  BY ConsistentHeld
  <2>4. r \in Queues(I)  BY <1>1, <2>1, <2>2 DEF Queues
  <2>5. Held(r.queue) = r.dirty \ r.processing /\ NoRepeats(r.queue)
    BY <1>3, <2>1, <2>2, <2>3
  <2>6. QueueConsistent(r)  BY <2>5, ConsistentHeld
  <2> QED  BY <2>1, <2>4, <2>6 DEF r
<1> QED  BY <1>2, <1>3

\* Get keeps the queue consistent; the key it hands out was not in processing.
LEMMA QueueGetConsistent ==
  ASSUME NEW I, NEW q \in Queues(I), QueueConsistent(q), q.queue # << >>
  PROVE  /\ QueueGet(q) \in Queues(I) /\ QueueConsistent(QueueGet(q))
         /\ Head(q.queue) \in I \ q.processing
         /\ QueueGet(q).processing = q.processing \cup {Head(q.queue)}
<1>1. q.queue \in Seq(I) /\ q.dirty \subseteq I /\ q.processing \subseteq I
  BY DEF Queues
<1>2. Held(q.queue) = q.dirty \ q.processing /\ NoRepeats(q.queue)  BY ConsistentHeld
<1>3. /\ Head(q.queue) \in I /\ Tail(q.queue) \in Seq(I) /\ Head(q.queue) \in Held(q.queue)
      /\ Held(Tail(q.queue)) = Held(q.queue) \ {Head(q.queue)} /\ NoRepeats(Tail(q.queue))
  BY <1>1, <1>2, TailHeld
<1> DEFINE r == QueueGet(q)
<1>4. /\ r = [queue |-> r.queue, dirty |-> r.dirty, processing |-> r.processing]
      /\ r.queue = Tail(q.queue) /\ r.dirty = q.dirty \ {Head(q.queue)}
      /\ r.processing = q.processing \cup {Head(q.queue)}
  BY DEF QueueGet
<1> HIDE DEF r
<1>5. r \in Queues(I)  BY <1>1, <1>3, <1>4 DEF Queues
<1>6. Held(r.queue) = r.dirty \ r.processing /\ NoRepeats(r.queue)  BY <1>2, <1>3, <1>4
<1>7. QueueConsistent(r)  BY <1>6, ConsistentHeld
<1> QED  BY <1>2, <1>3, <1>4, <1>5, <1>7 DEF r

\* Done of a key in processing keeps the queue consistent, whether or not the
\* key goes back to the queue.
LEMMA QueueDoneConsistent ==
  ASSUME NEW I, NEW q \in Queues(I), QueueConsistent(q), NEW x \in q.processing
  PROVE  /\ QueueDone(q, x) \in Queues(I) /\ QueueConsistent(QueueDone(q, x))
         /\ QueueDone(q, x).processing = q.processing \ {x}
<1>1. q.queue \in Seq(I) /\ q.dirty \subseteq I /\ q.processing \subseteq I
  BY DEF Queues
<1>2. Held(q.queue) = q.dirty \ q.processing /\ NoRepeats(q.queue)  BY ConsistentHeld
<1>3. /\ Append(q.queue, x) \in Seq(I)
      /\ Held(Append(q.queue, x)) = Held(q.queue) \cup {x}
      /\ NoRepeats(q.queue) /\ x \notin Held(q.queue) => NoRepeats(Append(q.queue, x))
  BY <1>1, AppendHeld
<1> DEFINE r == QueueDone(q, x)
<1> DEFINE s == IF x \in q.dirty THEN Append(q.queue, x) ELSE q.queue
<1>4. /\ r.dirty = q.dirty /\ r.processing = q.processing \ {x} /\ r.queue = s
      /\ r = [queue |-> r.queue, dirty |-> r.dirty, processing |-> r.processing]
  <2>1. r = [q EXCEPT !.processing = q.processing \ {x}, !.queue = s]  BY DEF QueueDone
  <2> HIDE DEF r, s
  <2> QED  BY <2>1 DEF Queues
<1> HIDE DEF r
<1>5. r \in Queues(I)  BY <1>1, <1>3, <1>4 DEF Queues
<1>6. Held(r.queue) = r.dirty \ r.processing /\ NoRepeats(r.queue)  BY <1>2, <1>3, <1>4
<1>7. QueueConsistent(r)  BY <1>6, ConsistentHeld
<1> QED  BY <1>4, <1>5, <1>7 DEF r
=============================================================================
