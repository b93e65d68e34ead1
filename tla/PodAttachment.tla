---------------------------- MODULE PodAttachment ----------------------------
(***************************************************************************)
(* What the kubelet may rely on when it calls the genie plugin.  A pod's   *)
(* addresses change only while an invocation for it runs: ADD takes, DEL   *)
(* gives back, one at a time.  An invocation may end without success at    *)
(* any point; ADD succeeds with at least one address, and DEL only when    *)
(* nothing is held, so that the next ADD starts from nothing.              *)
(***************************************************************************)
CONSTANT Pods

VARIABLES
  view,  \* view[p]: "clean", "running", or "dirty" when neither is known
  busy,  \* busy[p]: the command that runs for p, or "no"
  held   \* held[p]: the addresses held for p

vars == <<view, busy, held>>

Init ==
  /\ view = [p \in Pods |-> "clean"]
  /\ busy = [p \in Pods |-> "no"]
  /\ held = [p \in Pods |-> {}]

Begin(p, cmd) ==
  /\ busy[p] = "no"
  /\ cmd = "ADD" => view[p] = "clean"
  /\ busy' = [busy EXCEPT ![p] = cmd]
  /\ view' = [view EXCEPT ![p] = "dirty"]
  /\ UNCHANGED held

Take(p) ==
  /\ busy[p] = "ADD"
  /\ \E a \in held'[p] : held' = [held EXCEPT ![p] = held[p] \cup {a}]
  /\ UNCHANGED <<view, busy>>

GiveBack(p) ==
  /\ busy[p] = "DEL"
  /\ \E a \in held[p] : held' = [held EXCEPT ![p] = held[p] \ {a}]
  /\ UNCHANGED <<view, busy>>

Succeed(p) ==
  /\ \/ busy[p] = "ADD" /\ held[p] # {} /\ view' = [view EXCEPT ![p] = "running"]
     \/ busy[p] = "DEL" /\ held[p] = {} /\ view' = [view EXCEPT ![p] = "clean"]
  /\ busy' = [busy EXCEPT ![p] = "no"]
  /\ UNCHANGED held

GiveUp(p) ==
  /\ busy[p] # "no"
  /\ busy' = [busy EXCEPT ![p] = "no"]
  /\ UNCHANGED <<view, held>>

Next ==
  \E p \in Pods :
    \/ Begin(p, "ADD") \/ Begin(p, "DEL") \/ Take(p) \/ GiveBack(p)
    \/ Succeed(p) \/ GiveUp(p)

Spec == Init /\ [][Next]_vars
=============================================================================
