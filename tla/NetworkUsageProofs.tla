-------------------------- MODULE NetworkUsageProofs --------------------------
(***************************************************************************)
(* What computeNetworkUsage finds, for any interfaces, samples and width   *)
(* of the counters: the usages stay within an int, a solution counts as    *)
(* less than idle only after a counter was reset, and the solution chosen  *)
(* is one for which the growth found last is least.                        *)
(***************************************************************************)
EXTENDS NetworkUsage, FiniteSetTheorems, TLAPS

\* A set has as many subsets without one of its elements as with it, so that
\* the values of an unsigned number are twice as many as the naturals among
\* those of a signed one.
LEMMA Doubling ==
  ASSUME NEW w \in Nat \ {0}
  PROVE  2 ^ w = 2 * 2 ^ (w - 1) /\ 2 ^ (w - 1) \in Nat /\ 2 ^ (w - 1) >= 1
<1> DEFINE T == 1..(w - 1)
           A == SUBSET T
           B == {s \cup {w} : s \in A}
           f == [s \in A |-> s \cup {w}]
<1>1. IsFiniteSet(T) /\ Cardinality(T) = w - 1  BY FS_Interval
<1>2. IsFiniteSet(1..w) /\ Cardinality(1..w) = w  BY FS_Interval
<1>3. IsFiniteSet(A) /\ Cardinality(A) = 2 ^ (w - 1)
  <2> HIDE DEF T
  <2> QED  BY <1>1, FS_SUBSET
<1>4. Cardinality(SUBSET (1..w)) = 2 ^ w  BY <1>2, FS_SUBSET
<1>5. w \notin T /\ 1..w = T \cup {w}  OBVIOUS
<1> HIDE DEF T
<1>6. f \in Bijection(A, B)
  <2>1. f \in [A -> B]  OBVIOUS
  <2>2. ASSUME NEW s \in A, NEW t \in A, f[s] = f[t] PROVE s = t
    <3>1. s \cup {w} = t \cup {w}  BY <2>2
    <3>2. w \notin s /\ w \notin t  BY <1>5
    <3> QED  BY <3>1, <3>2
  <2>3. \A b \in B : \E s \in A : f[s] = b  OBVIOUS
  <2> HIDE DEF A, B, f
  <2> QED  BY <2>1, <2>2, <2>3 DEF Bijection, Injection, IsInjective, Surjection
<1>7. IsFiniteSet(B) /\ Cardinality(B) = Cardinality(A)
  <2> HIDE DEF A, B, f
  <2>1. ExistsBijection(A, B)  BY <1>6 DEF ExistsBijection
  <2> QED  BY <1>3, <2>1, FS_Bijection
<1>8. SUBSET (1..w) = A \cup B
  <2>1. ASSUME NEW s \in SUBSET (T \cup {w}) PROVE s \in A \cup B
    <3>1. CASE w \notin s  BY <3>1
    <3>2. CASE w \in s
      <4>1. s \ {w} \in A /\ s = (s \ {w}) \cup {w}  BY <3>2
      <4> QED  BY <4>1
    <3> QED  BY <3>1, <3>2
  <2>2. A \cup B \subseteq SUBSET (T \cup {w})  OBVIOUS
  <2> QED  BY <1>5, <2>1, <2>2
<1>9. A \cap B = {}  BY <1>5
<1>10. Cardinality(A) \in Nat  BY <1>3, FS_CardinalityType
<1>11. {} \in A  OBVIOUS
<1> HIDE DEF A, B, f
<1>12. Cardinality(A \cup B) = Cardinality(A) + Cardinality(B) - Cardinality(A \cap B)
  BY <1>3, <1>7, FS_Union
<1>13. Cardinality(A \cap B) = 0  BY <1>9, FS_EmptySet
<1>14. Cardinality(A) # 0  BY <1>3, <1>11, FS_EmptySet
<1>15. Cardinality(A \cup B) = 2 * Cardinality(A) /\ Cardinality(A) >= 1
  BY <1>7, <1>10, <1>12, <1>13, <1>14
<1> QED  BY <1>3, <1>4, <1>8, <1>10, <1>15, Zenon

\* Remainders, where the difference of two counters wraps.
LEMMA Modulo ==
  ASSUME NEW b \in Nat \ {0}
  PROVE  /\ \A d \in Int : d % b \in 0..(b - 1)
         /\ \A d \in 0..(b - 1) : d % b = d
         /\ \A d \in Int : d < 0 /\ -b <= d => d % b = d + b
<1>1. ASSUME NEW d \in Int PROVE d % b \in 0..(b - 1)  OBVIOUS
<1>2. ASSUME NEW d \in 0..(b - 1) PROVE d % b = d  OBVIOUS
<1>3. ASSUME NEW d \in Int, d < 0, -b <= d PROVE d % b = d + b  BY <1>3
<1> QED  BY <1>1, <1>2, <1>3

\* The difference of two counters is an int; a small one is exact.
LEMMA DifferenceInts ==
  ASSUME NEW new \in 0..MaxRx, NEW old \in 0..MaxRx
  PROVE  /\ Difference(new, old) \in Ints /\ 0 \in Ints
         /\ MaxRx < 2 ^ (Width - 1) => Difference(new, old) = new - old
<1> DEFINE half == 2 ^ (Width - 1)
           all == 2 ^ Width
<1>1. all = 2 * half /\ half \in Nat /\ half >= 1 /\ MaxRx \in 0..(all - 1)
  BY NetworkUsageAssumption, Doubling
<1>2. Ints = -half..(half - 1)  BY DEF Ints
<1>3. Difference(new, old) = LET d == (new - old) % all
                             IN  IF d < half THEN d ELSE d - all
  BY DEF Difference
<1>4. (MaxRx < 2 ^ (Width - 1)) = (MaxRx < half)  OBVIOUS
<1> HIDE DEF half, all
<1>5. all \in Nat \ {0} /\ new - old \in Int /\ MaxRx \in Nat  BY <1>1
<1>6. (new - old) % all \in 0..(all - 1)  BY <1>5, Modulo
<1>7. Difference(new, old) \in Ints /\ 0 \in Ints  BY <1>1, <1>2, <1>3, <1>6
<1>8. ASSUME MaxRx < half PROVE Difference(new, old) = new - old
  <2>1. CASE new >= old
    <3>1. new - old \in 0..(all - 1) /\ new - old < half  BY <1>1, <1>5, <1>8, <2>1
    <3>2. (new - old) % all = new - old  BY <1>5, <3>1, Modulo
    <3> QED  BY <1>3, <3>1, <3>2
  <2>2. CASE new < old
    <3>1. new - old < 0 /\ -all <= new - old /\ ~(new - old + all < half)
      BY <1>1, <1>5, <1>8, <2>2
    <3>2. (new - old) % all = new - old + all  BY <1>5, <3>1, Modulo
    <3> QED  BY <1>1, <1>3, <1>5, <3>1, <3>2
  <2> QED  BY <2>1, <2>2
<1> QED  BY <1>4, <1>7, <1>8

-----------------------------------------------------------------------------
\* What was remembered for an interface is its counter in some sample so far.
Remembered(x) ==
  rx[x] # Missing => \E k \in DOMAIN cinfo : k <= i /\ cinfo[k][x] = rx[x]

(***************************************************************************)
(* The inductive invariant: before the samples are there nothing has been  *)
(* computed; later what is compared comes from them.                       *)
(***************************************************************************)
UInv ==
  /\ TypeOK
  /\ phase = "fetch" => /\ rx = [x \in Interfaces |-> Missing]
                        /\ downlink = 0 /\ m = [s \in Solutions |-> 0]
  /\ \A x \in Interfaces : Remembered(x)

Sampled == [Interfaces -> 0..MaxRx \cup {Missing}]

\* An answer is a sequence of at most Samples samples.
LEMMA AnswerTypes ==
  ASSUME NEW c \in Answers
  PROVE  c \in Seq(Sampled) /\ Len(c) \in 0..Samples
<1>1. PICK n \in 0..Samples : c \in [1..n -> Sampled]  BY DEF Answers, Sampled
<1>2. n \in Nat  BY <1>1, NetworkUsageAssumption
<1>3. c \in Seq(Sampled) /\ Len(c) = n  BY <1>1, <1>2
<1> QED  BY <1>1, <1>3

\* The computation starts in UInv.
LEMMA InitUInv == Init => UInv
<1> SUFFICES ASSUME Init PROVE UInv  OBVIOUS
<1>1. Order \in Seq(Interfaces) /\ Len(Order) \in Nat /\ Len(Order) >= 1
  BY NetworkUsageAssumption
<1>2. cinfo \in Answers
  <2>1. << >> \in [1..0 -> [Interfaces -> 0..MaxRx \cup {Missing}]]  OBVIOUS
  <2>2. 0 \in 0..Samples  BY NetworkUsageAssumption
  <2> QED  BY <2>1, <2>2 DEF Init, Answers
<1>3. 0 \in Ints
  <2>1. 0 \in 0..MaxRx
    <3>1. 2 ^ Width \in Nat  BY NetworkUsageAssumption, Doubling
    <3> QED  BY <3>1, NetworkUsageAssumption
  <2> QED  BY <2>1, DifferenceInts
<1>4. Samples \in Nat  BY NetworkUsageAssumption
<1>5. TypeOK  BY <1>1, <1>2, <1>3, <1>4 DEF Init, TypeOK
<1>6. \A x \in Interfaces : Remembered(x)  BY DEF Init, Remembered
<1> QED  BY <1>5, <1>6 DEF Init, UInv

\* What one interface of one sample contributes.
Found(x) == IF rx[x] = Missing THEN downlink ELSE Difference(cinfo[i][x], rx[x])

\* The interface at hand, and what its turn of the loop does.
LEMMA Looking ==
  ASSUME UInv, LookAtInterface
  PROVE  /\ phase = "walk" /\ i \in DOMAIN cinfo /\ i \in Nat
         /\ Order[j] \in Interfaces /\ cinfo[i][Order[j]] \in 0..MaxRx \cup {Missing}
         /\ phase' \in {"walk", "failed"} /\ UNCHANGED <<cinfo, cns>>
         /\ i' \in 1..(Samples + 1) /\ j' \in 1..Len(Order) /\ i <= i'
         /\ \/ /\ cinfo[i][Order[j]] = Missing \/ SolutionOf[Order[j]] \notin Solutions
               /\ UNCHANGED <<m, rx, downlink>>
            \/ LET x == Order[j] IN
               /\ SolutionOf[x] \in Solutions /\ cinfo[i][x] \in 0..MaxRx
               /\ downlink' = Found(x)
               /\ rx' = [rx EXCEPT ![x] = cinfo[i][x]]
               /\ m' = [m EXCEPT ![SolutionOf[x]] = Found(x)]
<1>1. /\ phase = "walk" /\ i <= Len(cinfo) /\ UNCHANGED <<cinfo, cns>>
      /\ IF j < Len(Order) THEN j' = j + 1 /\ i' = i ELSE j' = 1 /\ i' = i + 1
  BY DEF LookAtInterface
<1>2. /\ i \in 1..(Samples + 1) /\ j \in 1..Len(Order) /\ cinfo \in Answers
      /\ Samples \in Nat
  BY NetworkUsageAssumption DEF UInv, TypeOK
<1>3. cinfo \in Seq(Sampled) /\ Len(cinfo) \in 0..Samples  BY <1>2, AnswerTypes
<1>4. Order \in Seq(Interfaces) /\ Len(Order) \in Nat /\ Len(Order) >= 1
  BY NetworkUsageAssumption
<1>5. i \in DOMAIN cinfo /\ i \in Nat /\ Order[j] \in Interfaces  BY <1>1, <1>2, <1>3, <1>4
<1>6. cinfo[i] \in Sampled  BY <1>3, <1>5
<1>7. cinfo[i][Order[j]] \in 0..MaxRx \cup {Missing}  BY <1>5, <1>6 DEF Sampled
<1>8. i' \in 1..(Samples + 1) /\ j' \in 1..Len(Order) /\ i <= i'
  BY <1>1, <1>2, <1>3, <1>4
<1>9. phase' \in {"walk", "failed"}  BY <1>1 DEF LookAtInterface
<1>10. \/ /\ cinfo[i][Order[j]] = Missing \/ SolutionOf[Order[j]] \notin Solutions
          /\ UNCHANGED <<m, rx, downlink>>
       \/ LET x == Order[j] IN
          /\ SolutionOf[x] \in Solutions /\ cinfo[i][x] \in 0..MaxRx
          /\ downlink' = Found(x)
          /\ rx' = [rx EXCEPT ![x] = cinfo[i][x]]
          /\ m' = [m EXCEPT ![SolutionOf[x]] = Found(x)]
  BY <1>7 DEF LookAtInterface, Downlink, Found
<1> QED  BY <1>1, <1>5, <1>7, <1>8, <1>9, <1>10

\* The usage found at an interface is a value of an int.
LEMMA FoundInts ==
  ASSUME UInv, LookAtInterface, NEW x \in Interfaces, cinfo[i][x] \in 0..MaxRx
  PROVE  Found(x) \in Ints
<1>1. downlink \in Ints /\ rx[x] \in 0..MaxRx \cup {Missing}  BY DEF UInv, TypeOK
<1>2. rx[x] # Missing => Difference(cinfo[i][x], rx[x]) \in Ints  BY <1>1, DifferenceInts
<1> QED  BY <1>1, <1>2 DEF Found

\* Looking at an interface keeps UInv.
LEMMA LookUInv ==
  ASSUME UInv, LookAtInterface
  PROVE  UInv'
<1> DEFINE x == Order[j]
<1>1. TypeOK /\ \A y \in Interfaces : Remembered(y)  BY DEF UInv
<1>2. /\ i \in DOMAIN cinfo /\ i \in Nat /\ x \in Interfaces /\ UNCHANGED <<cinfo, cns>>
      /\ i' \in 1..(Samples + 1) /\ j' \in 1..Len(Order) /\ i <= i'
      /\ phase' \in {"walk", "failed"}
  BY Looking
<1>3. Samples \in Nat /\ cinfo \in Seq(Sampled)
  BY <1>1, AnswerTypes, NetworkUsageAssumption DEF TypeOK
<1>4. \A k \in DOMAIN cinfo : k <= i => k <= i'  BY <1>2, <1>3
<1>5. CASE UNCHANGED <<m, rx, downlink>>
  <2>1. TypeOK'  BY <1>1, <1>2, <1>5 DEF TypeOK
  <2>2. \A y \in Interfaces : Remembered(y)'  BY <1>1, <1>2, <1>4, <1>5 DEF Remembered
  <2> QED  BY <1>2, <2>1, <2>2 DEF UInv
<1>6. CASE /\ SolutionOf[x] \in Solutions /\ cinfo[i][x] \in 0..MaxRx
           /\ downlink' = Found(x)
           /\ rx' = [rx EXCEPT ![x] = cinfo[i][x]]
           /\ m' = [m EXCEPT ![SolutionOf[x]] = Found(x)]
  <2> HIDE DEF x
  <2>1. Found(x) \in Ints  BY <1>2, <1>6, FoundInts
  <2>2. TypeOK'  BY <1>1, <1>2, <1>6, <2>1 DEF TypeOK
  <2>3. rx'[x] = cinfo[i][x] /\ \A y \in Interfaces : y # x => rx'[y] = rx[y]
    BY <1>1, <1>2, <1>6 DEF TypeOK
  <2>4. i <= i  BY <1>2
  <2>5. \A y \in Interfaces : Remembered(y)'  BY <1>1, <1>2, <1>4, <2>3, <2>4 DEF Remembered
  <2> QED  BY <1>2, <2>2, <2>5 DEF UInv
<1> QED  BY <1>5, <1>6, Looking

\* Every step keeps UInv.
LEMMA NextUInv == UInv /\ [Next]_vars => UInv'
<1> SUFFICES ASSUME UInv, [Next]_vars PROVE UInv'  OBVIOUS
<1>1. CASE UNCHANGED vars  BY <1>1 DEF UInv, TypeOK, Remembered, vars
<1>2. CASE httpGetJsonData
  <2>1. /\ phase = "fetch" /\ phase' \in {"failed", "walk"} /\ cinfo' \in Answers
        /\ UNCHANGED <<i, j, m, rx, downlink, cns>>
    BY <1>2 DEF httpGetJsonData, UInv, TypeOK
  <2>2. TypeOK'  BY <2>1 DEF UInv, TypeOK
  <2>3. \A x \in Interfaces : rx'[x] = Missing  BY <2>1 DEF UInv
  <2> QED  BY <2>1, <2>2, <2>3 DEF UInv, Remembered
<1>3. CASE LookAtInterface  BY <1>3, LookUInv
<1>4. CASE Rank
  <2>1. /\ phase' = "done" /\ cns' \in Solutions /\ UNCHANGED <<cinfo, i, j, m, rx, downlink>>
    BY <1>4 DEF Rank
  <2>2. TypeOK'  BY <2>1 DEF UInv, TypeOK
  <2> QED  BY <2>1, <2>2 DEF UInv, Remembered
<1> QED  BY <1>1, <1>2, <1>3, <1>4 DEF Next

\* computeNetworkUsage keeps UInv: indices within the samples, usages within an
\* int, and the previous count of an interface that of an earlier sample.
THEOREM UsageInvariance == Spec => []UInv
<1>1. Init => UInv  BY InitUInv
<1>2. UInv /\ [Next]_vars => UInv'  BY NextUInv
<1> QED  BY <1>1, <1>2, PTL DEF Spec

\* computeNetworkUsage: whatever the width of the counters and whatever samples
\* cAdvisor answers, the indices stay within the samples and every usage found
\* is a value of an int.
THEOREM UsageTypeCorrect == Spec => []TypeOK
<1>1. UInv => TypeOK  BY DEF UInv
<1> QED  BY <1>1, UsageInvariance, PTL

-----------------------------------------------------------------------------
\* No counter reaches the sign bit (8 EiB for 64 bits); one that does can grow
\* by so much between two samples that the difference is taken for a loss.
SmallCounters == MaxRx < 2 ^ (Width - 1)

SomeReset == \E x \in Interfaces : SolutionOf[x] \in Solutions /\ WasReset(x)

\* A negative difference is carried in downlink too.
NInv == downlink < 0 \/ (\E s \in Solutions : m[s] < 0) => SomeReset

\* A negative usage is found only where a counter was reset.
LEMMA FoundNegative ==
  ASSUME SmallCounters, UInv, NInv, LookAtInterface, NEW x \in Interfaces,
         SolutionOf[x] \in Solutions, cinfo[i][x] \in 0..MaxRx, Found(x) < 0
  PROVE  SomeReset
<1>1. CASE rx[x] = Missing  BY <1>1 DEF Found, NInv
<1>2. CASE rx[x] # Missing
  <2>1. rx[x] \in 0..MaxRx  BY <1>2 DEF UInv, TypeOK
  <2>2. Found(x) = cinfo[i][x] - rx[x]
    BY <1>2, <2>1, DifferenceInts DEF Found, SmallCounters
  <2>3. MaxRx \in Nat
    <3>1. 2 ^ Width \in Nat  BY NetworkUsageAssumption, Doubling
    <3> QED  BY <3>1, NetworkUsageAssumption
  <2>4. cinfo[i][x] < rx[x]  BY <2>1, <2>2, <2>3
  <2>5. PICK k \in DOMAIN cinfo : k <= i /\ cinfo[k][x] = rx[x]
    BY <1>2 DEF UInv, Remembered
  <2>6. cinfo \in Seq(Sampled) /\ i \in DOMAIN cinfo /\ i \in Nat
    BY Looking, AnswerTypes DEF UInv, TypeOK
  <2>7. k # i  BY <2>1, <2>3, <2>4, <2>5
  <2>8. k < i  BY <2>5, <2>6, <2>7
  <2>9. Missing \notin 0..MaxRx  BY NetworkUsageAssumption
  <2>10. WasReset(x)  BY <1>2, <2>4, <2>5, <2>6, <2>8, <2>9 DEF WasReset
  <2> QED  BY <2>10 DEF SomeReset
<1> QED  BY <1>1, <1>2

\* Looking at an interface keeps NInv.
LEMMA LookNInv ==
  ASSUME SmallCounters, UInv, NInv, LookAtInterface
  PROVE  NInv'
<1> DEFINE x == Order[j]
<1>1. x \in Interfaces /\ UNCHANGED cinfo  BY Looking
<1>2. SomeReset' = SomeReset  BY <1>1 DEF SomeReset, WasReset
<1>3. CASE UNCHANGED <<m, rx, downlink>>  BY <1>2, <1>3 DEF NInv
<1>4. CASE /\ SolutionOf[x] \in Solutions /\ cinfo[i][x] \in 0..MaxRx
           /\ downlink' = Found(x)
           /\ m' = [m EXCEPT ![SolutionOf[x]] = Found(x)]
  <2> HIDE DEF x
  <2>1. Found(x) < 0 => SomeReset  BY <1>1, <1>4, FoundNegative
  <2>2. m \in [Solutions -> Ints]  BY DEF UInv, TypeOK
  <2>3. \A s \in Solutions : m'[s] = Found(x) \/ m'[s] = m[s]  BY <1>4, <2>2
  <2>4. \A s \in Solutions : m'[s] < 0 => Found(x) < 0 \/ m[s] < 0  BY <2>3
  <2> QED  BY <1>2, <1>4, <2>1, <2>4 DEF NInv
<1> QED  BY <1>3, <1>4, Looking

\* computeNetworkUsage: as long as no counter reaches the sign bit, a solution
\* counts as less than idle only if the counter of some interface went down
\* between two samples, never because interfaces come and go.
THEOREM NegativeOnlyAfterReset ==
  ASSUME SmallCounters
  PROVE  Spec => []NegativeAfterReset
<1>1. Init => NInv  BY DEF Init, NInv
<1>2. UInv /\ NInv /\ [Next]_vars => NInv'
  <2> SUFFICES ASSUME UInv, NInv, [Next]_vars PROVE NInv'  OBVIOUS
  <2>1. CASE UNCHANGED vars  BY <2>1 DEF NInv, SomeReset, WasReset, vars
  <2>2. CASE httpGetJsonData
    <3>1. downlink' = 0 /\ m' = [s \in Solutions |-> 0]
      BY <2>2 DEF httpGetJsonData, UInv
    <3> QED  BY <3>1 DEF NInv
  <2>3. CASE LookAtInterface  BY <2>3, LookNInv
  <2>4. CASE Rank  BY <2>4 DEF Rank, NInv, SomeReset, WasReset
  <2> QED  BY <2>1, <2>2, <2>3, <2>4 DEF Next
<1>3. NInv => NegativeAfterReset  BY DEF NInv, NegativeAfterReset, SomeReset
<1> QED  BY <1>1, <1>2, <1>3, UsageInvariance, PTL DEF Spec

-----------------------------------------------------------------------------
\* The samples in which the interface listed at a was looked at so far.
Seen(a) == IF a < j THEN i ELSE i - 1

\* ... and those that have it.
Having(a) == {k \in 1..Seen(a) : cinfo[k][Order[a]] # Missing}

\* What is remembered of it is its counter in the last of those.
Known(a) ==
  /\ Having(a) = {} <=> rx[Order[a]] = Missing
  /\ Having(a) # {} => rx[Order[a]] = cinfo[Max(Having(a))][Order[a]]

\* The visits so far, and those of solution s among the visits V.
Past == {v \in Visits(cinfo) : v[1] <= Seen(v[2])}

Own(V, s) == {v \in V : SolutionOf[Order[v[2]]] = s}

\* What was found so far is the last growth, and that at the last visit of each
\* solution, which there is if it was visited at all.
Ranking ==
  /\ i <= Len(cinfo) + 1
  /\ i = Len(cinfo) + 1 => j = 1
  /\ \A a \in DOMAIN Order : SolutionOf[Order[a]] \in Solutions => Known(a)
  /\ downlink = LastGrowth(cinfo, Past)
  /\ \A s \in Solutions :
       /\ m[s] = UsageIn(cinfo, Past, s)
       /\ Own(Past, s) # {} => \E v \in Own(Past, s) : \A u \in Own(Past, s) : NotAfter(u, v)

KInv ==
  /\ phase = "fetch" => i = 1 /\ j = 1
  /\ phase \in {"walk", "done"} => Ranking
  /\ phase = "done" => i > Len(cinfo) /\ cns \in Solutions /\ SortedFirst(cns)

\* The order in which the interfaces are looked at.
LEMMA OrderTypes ==
  /\ Order \in Seq(Interfaces) /\ Len(Order) \in Nat /\ Len(Order) >= 1
  /\ DOMAIN Order = 1..Len(Order)
  /\ \A a \in DOMAIN Order : Order[a] \in Interfaces
BY NetworkUsageAssumption

\* A turn of the loop looks at one interface of one sample.
LEMMA SeenSteps ==
  ASSUME UInv, LookAtInterface
  PROVE  /\ j \in DOMAIN Order /\ Seen(j) = i - 1
         /\ \A a \in DOMAIN Order : Seen(a)' = IF a = j THEN i ELSE Seen(a)
         /\ i' <= Len(cinfo) + 1 /\ (i' = Len(cinfo) + 1 => j' = 1)
         /\ i' = 1 => i = 1
<1>1. /\ i <= Len(cinfo)
      /\ IF j < Len(Order) THEN j' = j + 1 /\ i' = i ELSE j' = 1 /\ i' = i + 1
  BY DEF LookAtInterface
<1>2. i \in 1..(Samples + 1) /\ j \in 1..Len(Order) /\ i \in Nat
  BY Looking DEF UInv, TypeOK
<1>3. Len(Order) \in Nat /\ DOMAIN Order = 1..Len(Order)  BY OrderTypes
<1>4. Len(cinfo) \in Nat  BY AnswerTypes, NetworkUsageAssumption DEF UInv, TypeOK
<1>5. j \in DOMAIN Order /\ Seen(j) = i - 1  BY <1>2, <1>3 DEF Seen
<1>6. \A a \in DOMAIN Order : Seen(a)' = IF a = j THEN i ELSE Seen(a)
  <2> SUFFICES ASSUME NEW a \in 1..Len(Order)
               PROVE  (IF a < j' THEN i' ELSE i' - 1)
                        = IF a = j THEN i ELSE IF a < j THEN i ELSE i - 1
    BY <1>3 DEF Seen
  <2>1. CASE j < Len(Order)  BY <1>1, <1>2, <1>3, <2>1
  <2>2. CASE ~(j < Len(Order))  BY <1>1, <1>2, <1>3, <2>2
  <2> QED  BY <2>1, <2>2
<1>7. i' <= Len(cinfo) + 1 /\ (i' = Len(cinfo) + 1 => j' = 1) /\ (i' = 1 => i = 1)
  BY <1>1, <1>2, <1>4
<1> QED  BY <1>5, <1>6, <1>7

\* A visit after all others is the last.
LEMMA LastAdded ==
  ASSUME NEW V, NEW v, NotAfter(v, v), \A u \in V : NotAfter(u, v) /\ ~NotAfter(v, u)
  PROVE  LastOf(V \cup {v}) = v
<1> DEFINE W == V \cup {v}
<1>1. v \in W /\ \A u \in W : NotAfter(u, v)  OBVIOUS
<1>2. ASSUME NEW w \in W, \A u \in W : NotAfter(u, w) PROVE w = v  BY <1>1, <1>2
<1> HIDE DEF W
<1>3. LastOf(W) = v  BY <1>1, <1>2 DEF LastOf
<1> QED  BY <1>3 DEF W

\* A new visit v: the last growth is its own if it has one.
LEMMA GrowthAdded ==
  ASSUME NEW c, NEW V, NEW v, NotAfter(v, v), \A u \in V : NotAfter(u, v) /\ ~NotAfter(v, u)
  PROVE  LastGrowth(c, V \cup {v}) =
           IF Earlier(c, v) = {} THEN LastGrowth(c, V) ELSE Growth(c, v)
<1> DEFINE g == {u \in V : Earlier(c, u) # {}}
           h == {u \in V \cup {v} : Earlier(c, u) # {}}
<1>1. LastGrowth(c, V \cup {v}) = IF h = {} THEN 0 ELSE Growth(c, LastOf(h))
  BY DEF LastGrowth
<1>2. LastGrowth(c, V) = IF g = {} THEN 0 ELSE Growth(c, LastOf(g))  BY DEF LastGrowth
<1>3. CASE Earlier(c, v) = {}
  <2>1. h = g  BY <1>3
  <2> HIDE DEF g, h
  <2> QED  BY <1>1, <1>2, <1>3, <2>1
<1>4. CASE Earlier(c, v) # {}
  <2>1. h = g \cup {v} /\ \A u \in g : u \in V  BY <1>4
  <2> HIDE DEF g, h
  <2>2. LastOf(g \cup {v}) = v  BY <2>1, LastAdded
  <2>3. h # {} /\ LastOf(h) = v  BY <2>1, <2>2
  <2> QED  BY <1>1, <1>4, <2>3
<1> QED  BY <1>3, <1>4

\* ... and so is the usage of its solution, while that of another stays.
LEMMA UsageAdded ==
  ASSUME NEW c, NEW V, NEW v, NEW s, NotAfter(v, v),
         \A u \in V : NotAfter(u, v) /\ ~NotAfter(v, u),
         Own(V, s) # {} => \E w \in Own(V, s) : \A u \in Own(V, s) : NotAfter(u, w)
  PROVE  LET W == V \cup {v} IN
         /\ UsageIn(c, W, s) = IF SolutionOf[Order[v[2]]] = s THEN LastGrowth(c, W)
                               ELSE UsageIn(c, V, s)
         /\ Own(W, s) # {} => \E w \in Own(W, s) : \A u \in Own(W, s) : NotAfter(u, w)
<1> DEFINE W == V \cup {v}
           o == Own(V, s)
           n == Own(W, s)
<1>1. UsageIn(c, W, s) =
        IF n = {} THEN 0 ELSE LastGrowth(c, {u \in W : NotAfter(u, LastOf(n))})
  BY DEF UsageIn, Own
<1>2. UsageIn(c, V, s) =
        IF o = {} THEN 0 ELSE LastGrowth(c, {u \in V : NotAfter(u, LastOf(o))})
  BY DEF UsageIn, Own
<1>3. CASE SolutionOf[Order[v[2]]] = s
  <2>1. n = o \cup {v} /\ \A u \in o : u \in V  BY <1>3 DEF Own
  <2>2. {u \in W : NotAfter(u, v)} = W  OBVIOUS
  <2> HIDE DEF n, o, W
  <2>3. LastOf(n) = v /\ n # {}  BY <2>1, LastAdded
  <2>4. UsageIn(c, W, s) = LastGrowth(c, W)  BY <1>1, <2>2, <2>3
  <2>5. v \in n /\ \A u \in n : NotAfter(u, v)  BY <2>1
  <2> QED  BY <1>3, <2>4, <2>5 DEF n, W
<1>4. CASE SolutionOf[Order[v[2]]] # s
  <2>1. n = o /\ \A u \in o : u \in V  BY <1>4 DEF Own
  <2>2. ASSUME o # {} PROVE LastOf(o) \in V
    <3>1. \E w \in o : \A u \in o : NotAfter(u, w)  BY <2>2
    <3> HIDE DEF o
    <3>2. LastOf(o) \in o  BY <3>1 DEF LastOf
    <3> QED  BY <2>1, <3>2
  <2>3. ASSUME o # {}
        PROVE  {u \in W : NotAfter(u, LastOf(o))} = {u \in V : NotAfter(u, LastOf(o))}
    <3>1. ~NotAfter(v, LastOf(o))  BY <2>2, <2>3
    <3> HIDE DEF o
    <3> QED  BY <3>1
  <2>4. UsageIn(c, W, s) = UsageIn(c, V, s)
    <3> HIDE DEF n, o, W
    <3> QED  BY <1>1, <1>2, <2>1, <2>3
  <2>5. n # {} => \E w \in n : \A u \in n : NotAfter(u, w)  BY <2>1
  <2> QED  BY <1>4, <2>4, <2>5
<1> QED  BY <1>3, <1>4

\* The greatest element of a set of numbers.
LEMMA MaxIs ==
  ASSUME NEW S \in SUBSET Int, NEW x \in S, \A y \in S : y <= x
  PROVE  Max(S) = x
<1>1. x \in S /\ \A y \in S : x >= y  OBVIOUS
<1>2. ASSUME NEW w \in S, \A y \in S : w >= y PROVE w = x
  <2>1. w >= x /\ x >= w /\ w \in Int /\ x \in Int  BY <1>1, <1>2
  <2> QED  BY <2>1
<1> QED  BY <1>1, <1>2 DEF Max

\* The interface at hand is visited if it counts.
Counts == cinfo[i][Order[j]] # Missing /\ SolutionOf[Order[j]] \in Solutions

\* The visit of a turn comes after those of the turns before.
LEMMA PastSteps ==
  ASSUME UInv, LookAtInterface
  PROVE  LET v == <<i, j>> IN
         /\ Past' = IF Counts THEN Past \cup {v} ELSE Past
         /\ NotAfter(v, v) /\ \A u \in Past : NotAfter(u, v) /\ ~NotAfter(v, u)
         /\ Earlier(cinfo, v) = Having(j)
<1> DEFINE v == <<i, j>>
           L == Len(cinfo)
           M == Len(Order)
<1>1. /\ i \in Nat /\ i \in 1..L /\ j \in 1..M /\ L \in Nat /\ M \in Nat /\ cinfo' = cinfo
      /\ DOMAIN Order = 1..M
  <2>1. i \in Nat /\ i <= L /\ i \in 1..(Samples + 1) /\ j \in 1..M /\ cinfo' = cinfo
    BY Looking DEF LookAtInterface, UInv, TypeOK
  <2>2. L \in Nat /\ M \in Nat /\ DOMAIN Order = 1..M
    BY AnswerTypes, OrderTypes, NetworkUsageAssumption DEF UInv, TypeOK
  <2> QED  BY <2>1, <2>2
<1>2. \A a \in 1..M : Seen(a) = IF a < j THEN i ELSE i - 1  BY DEF Seen
<1>3. \A a \in 1..M : Seen(a)' = IF a = j THEN i ELSE Seen(a)  BY <1>1, SeenSteps
<1> DEFINE P(u) == cinfo[u[1]][Order[u[2]]] # Missing /\ SolutionOf[Order[u[2]]] \in Solutions
<1>4. Past = {u \in (1..L) \X (1..M) : P(u) /\ u[1] <= Seen(u[2])}
  BY DEF Past, Visits
<1>5. Past' = {u \in (1..L) \X (1..M) : P(u) /\ u[1] <= Seen(u[2])'}
  BY <1>1 DEF Past, Visits
<1>6. v \in (1..L) \X (1..M) /\ v[1] = i /\ v[2] = j  BY <1>1
<1>7. P(v) <=> Counts  BY DEF Counts
<1> HIDE DEF v, P, L, M
<1>8. ASSUME NEW u \in (1..L) \X (1..M)
      PROVE  u[1] <= Seen(u[2])' <=> (u[1] <= Seen(u[2]) \/ u = v)
  <2>1. u[1] \in 1..L /\ u[2] \in 1..M  BY <1>8
  <2>2. CASE u[2] # j
    <3>1. u # v  BY <1>6, <2>2
    <3>2. Seen(u[2])' = Seen(u[2])  BY <1>3, <2>1, <2>2
    <3> QED  BY <3>1, <3>2
  <2>3. CASE u[2] = j
    <3>1. Seen(u[2])' = i /\ Seen(u[2]) = i - 1  BY <1>1, <1>2, <1>3, <2>1, <2>3
    <3>2. u = v <=> u[1] = i  BY <1>6, <2>3, <1>8 DEF v
    <3> QED  BY <1>1, <2>1, <3>1, <3>2
  <2> QED  BY <2>2, <2>3
<1>9. Past' = IF Counts THEN Past \cup {v} ELSE Past
  <2>1. CASE Counts  BY <1>4, <1>5, <1>6, <1>7, <1>8, <2>1
  <2>2. CASE ~Counts  BY <1>4, <1>5, <1>6, <1>7, <1>8, <2>2
  <2> QED  BY <2>1, <2>2
<1>10. NotAfter(v, v)  BY <1>1, <1>6 DEF NotAfter
<1>11. ASSUME NEW u \in Past PROVE NotAfter(u, v) /\ ~NotAfter(v, u)
  <2>1. u[1] \in 1..L /\ u[2] \in 1..M /\ u[1] <= Seen(u[2])  BY <1>4
  <2>2. u[1] <= IF u[2] < j THEN i ELSE i - 1  BY <1>2, <2>1
  <2> QED  BY <1>1, <1>6, <2>1, <2>2 DEF NotAfter
<1>12. Earlier(cinfo, v) = Having(j)
  <2>1. Seen(j) = i - 1  BY SeenSteps
  <2> QED  BY <1>6, <2>1 DEF Earlier, Having
<1> QED  BY <1>9, <1>10, <1>11, <1>12 DEF v

\* What is known of an interface when its turn comes is its previous counter,
\* so that its growth is the usage found.
LEMMA FoundGrowth ==
  ASSUME UInv, Ranking, LookAtInterface, Counts
  PROVE  Found(Order[j]) = LastGrowth(cinfo, Past')
<1> DEFINE v == <<i, j>>
           x == Order[j]
<1>1. Past' = Past \cup {v} /\ Earlier(cinfo, v) = Having(j)  BY PastSteps
<1>2. LastGrowth(cinfo, Past') =
        IF Having(j) = {} THEN LastGrowth(cinfo, Past) ELSE Growth(cinfo, v)
  <2>1. LastGrowth(cinfo, Past \cup {v}) =
          IF Earlier(cinfo, v) = {} THEN LastGrowth(cinfo, Past) ELSE Growth(cinfo, v)
    BY PastSteps, GrowthAdded
  <2> QED  BY <1>1, <2>1
<1>3. Known(j) /\ downlink = LastGrowth(cinfo, Past)
  BY SeenSteps DEF Ranking, Counts
<1>4. CASE Having(j) = {}
  <2>1. rx[x] = Missing  BY <1>3, <1>4 DEF Known
  <2> QED  BY <1>2, <1>3, <1>4, <2>1 DEF Found
<1>5. CASE Having(j) # {}
  <2>1. rx[x] # Missing /\ rx[x] = cinfo[Max(Having(j))][x]  BY <1>3, <1>5 DEF Known
  <2>2. Growth(cinfo, v) = Difference(cinfo[i][x], cinfo[Max(Having(j))][x])
    BY <1>1 DEF Growth
  <2> QED  BY <1>2, <1>5, <2>1, <2>2 DEF Found
<1> QED  BY <1>4, <1>5

\* A turn of the loop keeps what is known of every interface.
LEMMA KnownSteps ==
  ASSUME UInv, Ranking, LookAtInterface, NEW a \in DOMAIN Order,
         SolutionOf[Order[a]] \in Solutions
  PROVE  Known(a)'
<1> DEFINE x == Order[j]
           H == Having(a)
           N == Having(a)'
<1>1. /\ i \in Nat /\ x \in Interfaces /\ cinfo' = cinfo /\ i \in DOMAIN cinfo
      /\ cinfo[i][x] \in 0..MaxRx \cup {Missing}
  BY Looking
<1>2. rx \in [Interfaces -> 0..MaxRx \cup {Missing}] /\ i \in 1..(Samples + 1) /\ Samples \in Nat
  BY NetworkUsageAssumption DEF UInv, TypeOK
<1>3. Order[a] \in Interfaces /\ j \in DOMAIN Order  BY OrderTypes, SeenSteps
<1>4. Known(a)  BY DEF Ranking
<1>5. N = {k \in 1..Seen(a)' : cinfo[k][Order[a]] # Missing}  BY <1>1 DEF Having
<1>6. CASE a # j
  <2>1. Seen(a)' = Seen(a)  BY <1>6, SeenSteps
  <2>2. N = H  BY <1>5, <2>1 DEF Having
  <2>3. Order[a] # x  BY <1>3, <1>6, NetworkUsageAssumption
  <2>4. rx'[Order[a]] = rx[Order[a]]
    <3>1. rx' = rx \/ rx' = [rx EXCEPT ![x] = cinfo[i][x]]  BY Looking
    <3> QED  BY <1>1, <1>2, <1>3, <2>3, <3>1
  <2> HIDE DEF H, N
  <2>5. /\ N = {} <=> rx'[Order[a]] = Missing
        /\ N # {} => rx'[Order[a]] = cinfo[Max(N)][Order[a]]
    BY <1>4, <2>2, <2>4 DEF Known, H
  <2> QED  BY <1>1, <2>5 DEF Known, N
<1>7. CASE a = j
  <2>1. Seen(a)' = i /\ Seen(a) = i - 1  BY <1>7, SeenSteps
  <2>2. H = {k \in 1..(i - 1) : cinfo[k][x] # Missing}  BY <1>7, <2>1 DEF Having
  <2>3. N = {k \in 1..i : cinfo[k][x] # Missing}  BY <1>5, <1>7, <2>1
  <2>4. CASE ~Counts
    <3>1. cinfo[i][x] = Missing  BY <1>7, <2>4 DEF Counts
    <3>2. N = H  BY <1>1, <2>2, <2>3, <3>1
    <3>3. rx' = rx  BY <3>1, Looking, NetworkUsageAssumption
    <3> HIDE DEF H, N
    <3>4. /\ N = {} <=> rx'[Order[a]] = Missing
          /\ N # {} => rx'[Order[a]] = cinfo[Max(N)][Order[a]]
      BY <1>4, <3>2, <3>3 DEF Known, H
    <3> QED  BY <1>1, <3>4 DEF Known, N
  <2>5. CASE Counts
    <3>1. cinfo[i][x] # Missing  BY <2>5 DEF Counts
    <3>2. i \in N /\ N \in SUBSET Int /\ \A k \in N : k <= i  BY <1>1, <1>2, <2>3, <3>1
    <3> HIDE DEF N
    <3>3. Max(N) = i  BY <3>2, MaxIs
    <3>4. rx' = [rx EXCEPT ![x] = cinfo[i][x]]  BY <2>5, Looking DEF Counts
    <3>5. rx'[x] = cinfo[i][x]  BY <1>1, <1>2, <3>4
    <3> QED  BY <1>1, <1>7, <3>1, <3>2, <3>3, <3>5 DEF Known, N
  <2> QED  BY <2>4, <2>5
<1> QED  BY <1>6, <1>7

\* A turn of the loop keeps the ranking that of the visits so far.
LEMMA RankingSteps ==
  ASSUME UInv, Ranking, LookAtInterface
  PROVE  Ranking'
<1> DEFINE v == <<i, j>>
           x == Order[j]
<1>1. cinfo' = cinfo /\ x \in Interfaces  BY Looking
<1>2. i' <= Len(cinfo)' + 1 /\ (i' = Len(cinfo)' + 1 => j' = 1)  BY <1>1, SeenSteps
<1>3. \A a \in DOMAIN Order : SolutionOf[Order[a]] \in Solutions => Known(a)'
  BY KnownSteps
<1>4. /\ downlink' = LastGrowth(cinfo, Past')
      /\ \A s \in Solutions :
           /\ m'[s] = UsageIn(cinfo, Past', s)
           /\ Own(Past', s) # {} => \E w \in Own(Past', s) : \A u \in Own(Past', s) : NotAfter(u, w)
  <2>1. CASE ~Counts
    <3>1. Past' = Past  BY <2>1, PastSteps
    <3>2. UNCHANGED <<m, downlink>>
      <4>1. Missing \notin 0..MaxRx  BY NetworkUsageAssumption
      <4> QED  BY <2>1, <4>1, Looking DEF Counts
    <3> QED  BY <3>1, <3>2 DEF Ranking
  <2>2. CASE Counts
    <3>1. downlink' = Found(x) /\ m' = [m EXCEPT ![SolutionOf[x]] = Found(x)]
      BY <2>2, Looking DEF Counts
    <3>2. Found(x) = LastGrowth(cinfo, Past')  BY <2>2, FoundGrowth
    <3>3. Past' = Past \cup {v}  BY <2>2, PastSteps
    <3>4. ASSUME NEW s \in Solutions
          PROVE  /\ m'[s] = UsageIn(cinfo, Past', s)
                 /\ Own(Past', s) # {} =>
                      \E w \in Own(Past', s) : \A u \in Own(Past', s) : NotAfter(u, w)
      <4>1. /\ m[s] = UsageIn(cinfo, Past, s)
            /\ Own(Past, s) # {} =>
                 \E w \in Own(Past, s) : \A u \in Own(Past, s) : NotAfter(u, w)
        BY <3>4 DEF Ranking
      <4>2. NotAfter(v, v) /\ \A u \in Past : NotAfter(u, v) /\ ~NotAfter(v, u)
        BY PastSteps
      <4>3. v[2] = j  OBVIOUS
      <4> HIDE DEF v
      <4> DEFINE W == Past \cup {v}
      <4>4. /\ UsageIn(cinfo, W, s) = IF SolutionOf[Order[v[2]]] = s THEN LastGrowth(cinfo, W)
                                      ELSE UsageIn(cinfo, Past, s)
            /\ Own(W, s) # {} => \E w \in Own(W, s) : \A u \in Own(W, s) : NotAfter(u, w)
        BY <4>1, <4>2, UsageAdded
      <4>5. m'[s] = IF SolutionOf[x] = s THEN LastGrowth(cinfo, W) ELSE m[s]
        BY <3>1, <3>2, <3>3 DEF UInv, TypeOK
      <4> HIDE DEF W
      <4> QED  BY <3>3, <4>1, <4>3, <4>4, <4>5 DEF W
    <3> QED  BY <3>1, <3>2, <3>4
  <2> QED  BY <2>1, <2>2
<1> QED  BY <1>1, <1>2, <1>3, <1>4 DEF Ranking

\* Before the first turn nothing has been visited and nothing found.
LEMMA RankingStarts ==
  ASSUME cinfo' \in Answers, i' = 1, j' = 1, downlink' = 0,
         rx' = [y \in Interfaces |-> Missing], m' = [s \in Solutions |-> 0]
  PROVE  Ranking'
<1>1. Len(cinfo') \in Nat  BY AnswerTypes, NetworkUsageAssumption
<1>2. \A a \in DOMAIN Order : Seen(a)' = 0  BY OrderTypes DEF Seen
<1>3. Past' = {}
  <2>1. ASSUME NEW u \in Past' PROVE FALSE
    <3>1. u[1] \in 1..Len(cinfo') /\ u[2] \in 1..Len(Order) /\ u[1] <= Seen(u[2])'
      BY DEF Past, Visits
    <3>2. Seen(u[2])' = 0  BY <1>2, <3>1, OrderTypes
    <3> QED  BY <1>1, <3>1, <3>2
  <2> QED  BY <2>1
<1>4. \A a \in DOMAIN Order : Known(a)'
  <2>1. \A a \in DOMAIN Order : Having(a)' = {}  BY <1>2 DEF Having
  <2> QED  BY <2>1, OrderTypes DEF Known
<1>5. /\ LastGrowth(cinfo', {}) = 0
      /\ \A s \in Solutions : UsageIn(cinfo', {}, s) = 0 /\ Own({}, s) = {}
  BY DEF LastGrowth, UsageIn, Own
<1> QED  BY <1>1, <1>3, <1>4, <1>5 DEF Ranking

\* Every step keeps KInv.
LEMMA NextKInv == UInv /\ KInv /\ [Next]_vars => KInv'
<1> SUFFICES ASSUME UInv, KInv, [Next]_vars PROVE KInv'  OBVIOUS
<1>1. CASE UNCHANGED vars
  <2>1. /\ cinfo' = cinfo /\ i' = i /\ j' = j /\ m' = m /\ rx' = rx /\ downlink' = downlink
        /\ phase' = phase /\ cns' = cns
    BY <1>1 DEF vars
  <2> QED  BY <2>1 DEF KInv, Ranking, Known, Having, Seen, Past, SortedFirst
<1>2. CASE httpGetJsonData
  <2>1. /\ phase = "fetch" /\ phase' \in {"failed", "walk"} /\ cinfo' \in Answers
        /\ UNCHANGED <<i, j, m, rx, downlink, cns>>
    BY <1>2 DEF httpGetJsonData, UInv, TypeOK
  <2>2. /\ i' = 1 /\ j' = 1 /\ downlink' = 0 /\ rx' = [y \in Interfaces |-> Missing]
        /\ m' = [s \in Solutions |-> 0]
    BY <2>1 DEF KInv, UInv
  <2>3. Ranking'  BY <2>1, <2>2, RankingStarts
  <2> QED  BY <2>1, <2>3 DEF KInv
<1>3. CASE LookAtInterface
  <2>1. phase = "walk" /\ phase' \in {"walk", "failed"}  BY <1>3, Looking
  <2>2. Ranking'  BY <1>3, <2>1, RankingSteps DEF KInv
  <2> QED  BY <2>1, <2>2 DEF KInv
<1>4. CASE Rank
  <2>1. /\ phase = "walk" /\ i > Len(cinfo) /\ phase' = "done"
        /\ cns' \in Solutions /\ SortedFirst(cns')
        /\ cinfo' = cinfo /\ i' = i /\ j' = j /\ m' = m /\ rx' = rx /\ downlink' = downlink
    BY <1>4 DEF Rank
  <2>2. Ranking  BY <2>1 DEF KInv
  <2>3. Ranking'  BY <2>1, <2>2 DEF Ranking, Known, Having, Seen, Past
  <2>4. SortedFirst(cns)'  BY <2>1 DEF SortedFirst
  <2> QED  BY <2>1, <2>3, <2>4 DEF KInv
<1> QED  BY <1>1, <1>2, <1>3, <1>4 DEF Next

\* At the end every interface of every sample has been visited.
LEMMA AllVisited ==
  ASSUME UInv, Ranking, i > Len(cinfo)
  PROVE  Past = Visits(cinfo)
<1>1. Len(cinfo) \in Nat /\ i \in Nat /\ i <= Len(cinfo) + 1
  <2>1. i \in 1..(Samples + 1) /\ Samples \in Nat  BY NetworkUsageAssumption DEF UInv, TypeOK
  <2> QED  BY <2>1, AnswerTypes DEF UInv, TypeOK, Ranking
<1>2. i = Len(cinfo) + 1 /\ j = 1  BY <1>1 DEF Ranking
<1>3. \A a \in 1..Len(Order) : Seen(a) = Len(cinfo)  BY <1>1, <1>2, OrderTypes DEF Seen
<1>4. ASSUME NEW u \in Visits(cinfo) PROVE u[1] <= Seen(u[2])
  <2>1. u[1] \in 1..Len(cinfo) /\ u[2] \in 1..Len(Order)  BY DEF Visits
  <2> QED  BY <1>1, <1>3, <2>1
<1> QED  BY <1>4 DEF Past

\* computeNetworkUsage: for any interfaces of any solutions, samples and widths,
\* resets included, the answer is a solution for which the growth found last,
\* when an interface of its own was met for the last time, is least.
THEOREM RanksByLastGrowth == Spec => []RankedByLastGrowth
<1>1. Init => KInv  BY DEF Init, KInv
<1>2. UInv /\ KInv /\ [Next]_vars => KInv'  BY NextKInv
<1>3. UInv /\ KInv => RankedByLastGrowth
  <2> SUFFICES ASSUME UInv, KInv, phase = "done", NEW s \in Solutions
               PROVE  UsageIn(cinfo, Visits(cinfo), cns) <= UsageIn(cinfo, Visits(cinfo), s)
    BY DEF RankedByLastGrowth
  <2>1. Ranking /\ i > Len(cinfo) /\ cns \in Solutions /\ SortedFirst(cns)  BY DEF KInv
  <2>2. Past = Visits(cinfo)  BY <2>1, AllVisited
  <2>3. m[cns] <= m[s]  BY <2>1 DEF SortedFirst
  <2>4. m[cns] = UsageIn(cinfo, Past, cns) /\ m[s] = UsageIn(cinfo, Past, s)
    BY <2>1 DEF Ranking
  <2> QED  BY <2>2, <2>3, <2>4
<1> QED  BY <1>1, <1>2, <1>3, UsageInvariance, PTL DEF Spec

=============================================================================
