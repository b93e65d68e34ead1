---------------------------- MODULE NetworkUsage -----------------------------
(***************************************************************************)
(* GetCNSOrderByNetworkBandwith: which network solution a pod without a    *)
(* choice of its own is given.  cAdvisor's samples list the interfaces of  *)
(* the node with the bytes each has received; computeNetworkUsage walks    *)
(* sample by sample, interface by interface, and ranks the solutions by    *)
(* what it finds last.                                                     *)
(***************************************************************************)
EXTENDS Integers, Sequences, FiniteSetsExt

CONSTANTS
  Solutions,   \* the prefixes "flan", "cali" and "weav"
  Order,       \* the interfaces, in the order a sample lists them
  SolutionOf,  \* SolutionOf[x]: the first four characters of x's name
  Short,       \* ... when it has fewer
  Samples,     \* bound on the number of samples
  MaxRx,       \* bound on RxBytes
  Width,       \* bits of RxBytes (64)
  Missing      \* the interface is not in the sample

Interfaces == {Order[k] : k \in DOMAIN Order}

ASSUME NetworkUsageAssumption ==
  /\ Samples \in Nat \ {0} /\ Width \in Nat \ {0} /\ MaxRx \in 0..(2 ^ Width - 1)
  /\ Short \notin Solutions
  /\ Order \in Seq(Interfaces) /\ Order # << >>
  /\ \A k, l \in DOMAIN Order : Order[k] = Order[l] => k = l
  /\ Missing \notin Int

VARIABLES
  phase,     \* "fetch", "walk", "done", or "failed": an error or a panic
  cinfo,     \* cinfo[i][x]: RxBytes of x in sample i
  i, j,      \* sample and interface to be looked at next
  m,         \* m[s]: the usage found for solution s
  rx,        \* rx[x]: RxBytes of x when last seen
  downlink,  \* declared outside the loops
  cns        \* the answer

vars == <<phase, cinfo, i, j, m, rx, downlink, cns>>

\* The values of a Go int of that width.
Ints == -(2 ^ (Width - 1))..(2 ^ (Width - 1) - 1)

\* What cAdvisor may answer: a few samples, each with some of the interfaces.
Answers == UNION {[1..n -> [Interfaces -> 0..MaxRx \cup {Missing}]] : n \in 0..Samples}

TypeOK ==
  /\ phase \in {"fetch", "walk", "done", "failed"}
  /\ cinfo \in Answers
  /\ i \in 1..(Samples + 1) /\ j \in 1..Len(Order)
  /\ m \in [Solutions -> Ints]
  /\ rx \in [Interfaces -> 0..MaxRx \cup {Missing}]
  /\ downlink \in Ints
  /\ cns \in Solutions \cup {Missing}

Init ==
  /\ phase = "fetch"
  /\ cinfo = << >>
  /\ i = 1 /\ j = 1
  /\ m = [s \in Solutions |-> 0]
  /\ rx = [x \in Interfaces |-> Missing]
  /\ downlink = 0
  /\ cns = Missing

\* httpGetJsonData: an error of the request, a status other than 200, a body
\* that cannot be read or decoded; or the samples.
httpGetJsonData ==
  /\ phase = "fetch"
  /\ \/ phase' = "failed" /\ UNCHANGED cinfo
     \/ phase' = "walk" /\ cinfo' \in Answers
  /\ UNCHANGED <<i, j, m, rx, downlink, cns>>

\* Variation: the operands change places.
DifferenceReversed(new, old) == old - new

\* Variation: the difference stays unsigned.
DifferenceUnsigned(new, old) == (new - old) % (2 ^ Width)

\* int(new - old) for unsigned counters
Difference(new, old) ==
  LET d == (new - old) % (2 ^ Width)
  IN  IF d < 2 ^ (Width - 1) THEN d ELSE d - 2 ^ Width

\* Variation: downlink is declared inside the loop.
DownlinkAnew(new, old) == IF old = Missing THEN 0 ELSE Difference(new, old)

\* downlink keeps its value when the interface is new.
Downlink(new, old) == IF old = Missing THEN downlink ELSE Difference(new, old)

\* The body of the inner loop.  The prefix of a short name is a panic, an
\* interface of no solution is passed over.
LookAtInterface ==
  /\ phase = "walk" /\ i <= Len(cinfo)
  /\ LET x == Order[j]
         new == cinfo[i][x]
         d == Downlink(new, rx[x])
     IN  IF new = Missing \/ SolutionOf[x] \notin Solutions
         THEN /\ phase' = IF new # Missing /\ SolutionOf[x] = Short THEN "failed" ELSE phase
              /\ UNCHANGED <<m, rx, downlink>>
         ELSE /\ downlink' = d
              /\ rx' = [rx EXCEPT ![x] = new]
              /\ m' = [m EXCEPT ![SolutionOf[x]] = d]
              /\ UNCHANGED phase
  /\ IF j < Len(Order) THEN j' = j + 1 /\ i' = i
     ELSE j' = 1 /\ i' = i + 1
  /\ UNCHANGED <<cinfo, cns>>

\* SortedKeys: the first key in ascending order; ties fall as they may.
SortedFirst(s) == \A t \in Solutions : m[s] <= m[t]

Rank ==
  /\ phase = "walk" /\ i > Len(cinfo)
  /\ \E s \in Solutions : SortedFirst(s) /\ cns' = s
  /\ phase' = "done"
  /\ UNCHANGED <<cinfo, i, j, m, rx, downlink>>

Next == httpGetJsonData \/ LookAtInterface \/ Rank

Spec == Init /\ [][Next]_vars
-----------------------------------------------------------------------------
\* Bytes received by x between the last two samples.
Received(x) ==
  LET n == Len(cinfo) IN
  IF n < 2 \/ cinfo[n][x] = Missing \/ cinfo[n - 1][x] = Missing THEN 0
  ELSE cinfo[n][x] - cinfo[n - 1][x]

Load(s) == MapThenSumSet(Received, {x \in Interfaces : SolutionOf[x] = s})

\* The counter of x was lower in a later sample than in an earlier one.
WasReset(x) ==
  \E k, l \in DOMAIN cinfo :
    k < l /\ cinfo[k][x] # Missing /\ cinfo[l][x] # Missing /\ cinfo[l][x] < cinfo[k][x]

\* Every interface of a solution is in every sample, and no counter was reset.
Regular ==
  \A x \in Interfaces : SolutionOf[x] \in Solutions =>
    ~WasReset(x) /\ \A k \in DOMAIN cinfo : cinfo[k][x] # Missing

\* "Returns network solution that has least load", be it on regular samples only.
\* It does not hold where a solution has several interfaces.
LeastLoad ==
  Regular /\ phase = "done" => \A s \in Solutions : Load(cns) <= Load(s)

(***************************************************************************)
(* What the solutions are ranked by instead, for any samples c.  A visit   *)
(* is a sample and the place in Order of an interface that counts in it.   *)
(***************************************************************************)
Visits(c) ==
  {v \in (1..Len(c)) \X (1..Len(Order)) :
     c[v[1]][Order[v[2]]] # Missing /\ SolutionOf[Order[v[2]]] \in Solutions}

NotAfter(u, v) == u[1] < v[1] \/ (u[1] = v[1] /\ u[2] <= v[2])

LastOf(V) == CHOOSE v \in V : \A u \in V : NotAfter(u, v)

\* The samples before that of v with v's interface, and what came since the
\* last of them.
Earlier(c, v) == {k \in 1..(v[1] - 1) : c[k][Order[v[2]]] # Missing}

Growth(c, v) == Difference(c[v[1]][Order[v[2]]], c[Max(Earlier(c, v))][Order[v[2]]])

\* The last growth found among the visits V, of whatever solution.
LastGrowth(c, V) ==
  LET grown == {v \in V : Earlier(c, v) # {}}
  IN  IF grown = {} THEN 0 ELSE Growth(c, LastOf(grown))

UsageIn(c, V, s) ==
  LET own == {v \in V : SolutionOf[Order[v[2]]] = s}
  IN  IF own = {} THEN 0 ELSE LastGrowth(c, {v \in V : NotAfter(v, LastOf(own))})

(***************************************************************************)
(* computeNetworkUsage answers, for any samples, with interfaces that come *)
(* and go and counters that are reset, a solution least in this order: a   *)
(* solution stands for the growth found last when an interface of its own  *)
(* was met for the last time, its own growth or not, and for none if it    *)
(* has no interface.                                                       *)
(***************************************************************************)
RankedByLastGrowth ==
  phase = "done" =>
    \A s \in Solutions :
      UsageIn(cinfo, Visits(cinfo), cns) <= UsageIn(cinfo, Visits(cinfo), s)

(***************************************************************************)
(* computeNetworkUsage takes the difference of two unsigned counters as an *)
(* int and carries it over to the next new interface: a solution counts as *)
(* less than idle only if some counter was reset, never because a counter  *)
(* grew or an interface came or went.                                      *)
(***************************************************************************)
NegativeAfterReset ==
  (\E s \in Solutions : m[s] < 0) =>
    \E x \in Interfaces : SolutionOf[x] \in Solutions /\ WasReset(x)
=============================================================================
