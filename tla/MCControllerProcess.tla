------------------------- MODULE MCControllerProcess -------------------------
(***************************************************************************)
(* An instance of the controller's process for TLC.                        *)
(***************************************************************************)
EXTENDS ControllerProcess, TLC

CONSTANTS policies, networks, p1, p2, n1

\* Two policies and a logical network.
ThreeObjects == (policies :> {p1, p2} @@ networks :> {n1})
=============================================================================
