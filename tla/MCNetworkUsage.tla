--------------------------- MODULE MCNetworkUsage ----------------------------
(***************************************************************************)
(* Instances of computeNetworkUsage for TLC.                               *)
(***************************************************************************)
EXTENDS NetworkUsage, TLC

\* A node with two pods on Calico, weave, no flannel, and an interface whose
\* name has three characters.
TwoPods == <<"cali0", "em1", "weave", "cali1">>

Prefix ==
  ("cali0" :> "cali" @@ "cali1" :> "cali"
   @@ "em1" :> Short @@ "weave" :> "weav")
=============================================================================
