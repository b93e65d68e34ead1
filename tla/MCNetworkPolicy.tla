--------------------------- MODULE MCNetworkPolicy ---------------------------
(***************************************************************************)
(* Instances of the network policy controller for TLC.                     *)
(***************************************************************************)
EXTENDS NetworkPolicyProperties, TLC

CONSTANTS A, B, C, p1, p2, sa, sb, sc, w1, w2

ABC == {A, B, C}

Entry(n, peers) == [NetworkSelector |-> n, PeerNetworks |-> peers]

\* Every subnet is listed as it is written.
Plain == {<<s, s>> : s \in Subnets}

\* Network A always has subnet sa, and so on.
OneSubnet == [n \in Networks |-> {CASE n = A -> sa [] n = B -> sb [] OTHER -> sc}]

Parsed == UNION {PolicyValues[p] : p \in Policies} \ {Blank}

\* p1 opens A to B, p2 opens C to B: no network is selected twice.
Disjoint == (p1 :> {{Entry(A, {B})}} @@ p2 :> {{Entry(C, {B})}})

\* Both policies select A; p1 may select nothing, p2 lose its annotation.
Shared == (p1 :> {{Entry(A, {B})}, {}} @@ p2 :> {{Entry(A, {B})}, Blank})

\* p1 opens A to B, p2 selects both of them.
Overlapping == (p1 :> {{Entry(A, {B})}}
                @@ p2 :> {{Entry(A, {}), Entry(B, {})}})

\* Both policies select A and never change.
SelectA == (p1 :> {{Entry(A, {B})}} @@ p2 :> {{Entry(A, {})}})

\* Only p1 exists.
OnlyP1 == (p1 :> {{Entry(A, {B})}} @@ p2 :> {})

\* A moves between two subnets; B has none at times.
Moving == [n \in Networks |-> IF n = A THEN {sa, sc} ELSE {sb, Blank}]

\* A rule for sc is also found when looking for sa, as 11.0.0.0/8 is for 1.0.0.0/8.
Prefixed == Plain \cup {<<sc, sa>>}

\* The workers are interchangeable.
WorkerSymmetry == Permutations(Workers)
=============================================================================
