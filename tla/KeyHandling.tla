----------------------------- MODULE KeyHandling -----------------------------
(***************************************************************************)
(* What the work queue, the workers and the mutex of the network policy    *)
(* controller promise together.  A key that is announced waits until it is *)
(* taken; every time it is taken it is handled exactly once, never by two  *)
(* workers, and an announcement made meanwhile makes it wait again.  One   *)
(* handler at a time is inside, and nothing but the handler that is inside *)
(* edits the table while the controller runs.                              *)
(***************************************************************************)
CONSTANT Keys

VARIABLES
  running,  \* the controller is running
  waiting,  \* keys announced and not taken since
  taken,    \* keys taken and not handled yet
  inside,   \* the key being handled
  handled,  \* keys handled and not given back yet
  table     \* what the handlers edit

vars == <<running, waiting, taken, inside, handled, table>>

Init ==
  /\ running = FALSE
  /\ waiting = {} /\ taken = {} /\ inside = {} /\ handled = {}

\* The table is prepared for the handlers.
Start ==
  /\ ~running /\ running' = TRUE
  /\ UNCHANGED <<waiting, taken, inside, handled>>

\* The process ends, at any moment; the table is left as it is.
Halt ==
  /\ running /\ running' = FALSE
  /\ waiting' = {} /\ taken' = {} /\ inside' = {} /\ handled' = {}
  /\ UNCHANGED table

Announce(k) ==
  /\ running
  /\ waiting' = waiting \cup {k}
  /\ UNCHANGED <<running, taken, inside, handled, table>>

Take(k) ==
  /\ k \in waiting \ (taken \cup inside \cup handled)
  /\ waiting' = waiting \ {k}
  /\ taken' = taken \cup {k}
  /\ UNCHANGED <<running, inside, handled, table>>

Enter(k) ==
  /\ k \in taken /\ inside = {}
  /\ taken' = taken \ {k}
  /\ inside' = {k}
  /\ UNCHANGED <<running, waiting, handled, table>>

\* The handler that is inside does what it likes with the table.
Edit ==
  /\ inside # {}
  /\ UNCHANGED <<running, waiting, taken, inside, handled>>

Leave(k) ==
  /\ k \in inside
  /\ inside' = {}
  /\ handled' = handled \cup {k}
  /\ UNCHANGED <<running, waiting, taken, table>>

GiveBack(k) ==
  /\ k \in handled
  /\ handled' = handled \ {k}
  /\ UNCHANGED <<running, waiting, taken, inside, table>>

Next ==
  \/ Start \/ Halt \/ Edit
  \/ \E k \in Keys : Announce(k) \/ Take(k) \/ Enter(k) \/ Leave(k) \/ GiveBack(k)

Spec == Init /\ [][Next]_vars
=============================================================================
