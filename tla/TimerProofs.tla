---------------------------- MODULE TimerProofs ----------------------------
(***************************************************************************)
(* Proofs about Timer, for any number of nodes, keys, clients and calls,   *)
(* as long as timers are deleted by callbacks only.  The heap of next      *)
(* pointers is related to two explicit lists, L for the timers and F for   *)
(* the free nodes; Chain, the walk of the code, is shown to be them.       *)
(***************************************************************************)
EXTENDS Timer, TLAPS, FiniteSetTheorems, WellFoundedInduction

-----------------------------------------------------------------------------
(* Linked lists: the nodes from h on along nx are the m nodes of L.        *)

NodeAt(m, L, i) == IF i \in 1 .. m THEN L[i] ELSE Null
On(n, m, L) == \E i \in 1 .. m : L[i] = n

Linked(nx, h, m, L) ==
  /\ m \in Nat /\ L \in [1 .. m -> Nodes]
  /\ \A i, k \in 1 .. m : L[i] = L[k] => i = k
  /\ h = NodeAt(m, L, 1)
  /\ \A i \in 1 .. m : nx[L[i]] = NodeAt(m, L, i + 1)

Without(m, L, i) == [k \in 1 .. m - 1 |-> IF k < i THEN L[k] ELSE L[k + 1]]
Behind(m, L, n) == [k \in 1 .. m + 1 |-> IF k = m + 1 THEN n ELSE L[k]]
InFront(m, L, n) == [k \in 1 .. m + 1 |-> IF k = 1 THEN n ELSE L[k - 1]]

\* The next pointers and the head once the i-th node has been unlinked.
NextWithout(nx, L, i) == IF i = 1 THEN nx ELSE [nx EXCEPT ![L[i - 1]] = nx[L[i]]]
HeadWithout(nx, h, L, i) == IF i = 1 THEN nx[L[i]] ELSE h

\* A list whose nodes keep their next pointers is the list it was.
LEMMA SameList ==
  ASSUME NEW nx, NEW ny, NEW h, NEW m, NEW L, Linked(nx, h, m, L),
         \A i \in 1 .. m : ny[L[i]] = nx[L[i]]
  PROVE  Linked(ny, h, m, L)
BY DEF Linked

\* What a list is once its i-th node has been unlinked: the node before it, or
\* the head, gets its next pointer.
LEMMA RemovedList ==
  ASSUME NEW nx, NEW h, NEW m, NEW L, NEW i \in 1 .. m, Linked(nx, h, m, L), nx \in [Nodes -> Nodes \cup {Null}]
  PROVE  /\ Linked(NextWithout(nx, L, i), HeadWithout(nx, h, L, i), m - 1, Without(m, L, i))
         /\ \A n : On(n, m - 1, Without(m, L, i)) <=> On(n, m, L) /\ n # L[i]
<1> DEFINE R == Without(m, L, i)
           ny == NextWithout(nx, L, i)
           g == HeadWithout(nx, h, L, i)
<1>0. /\ m \in Nat \ {0} /\ m - 1 \in Nat /\ L \in [1 .. m -> Nodes] /\ h = L[1]
      /\ \A j, k \in 1 .. m : L[j] = L[k] => j = k
      /\ \A j \in 1 .. m - 1 : nx[L[j]] = L[j + 1]
      /\ nx[L[m]] = Null
  BY DEF Linked, NodeAt
<1>1. \A k \in 1 .. m - 1 : R[k] = IF k < i THEN L[k] ELSE L[k + 1]
  BY DEF Without
<1>2. R \in [1 .. m - 1 -> Nodes]
  BY <1>0 DEF Without
<1> HIDE DEF R
<1>3. \A j, k \in 1 .. m - 1 : R[j] = R[k] => j = k
  <2> SUFFICES ASSUME NEW j \in 1 .. m - 1, NEW k \in 1 .. m - 1, R[j] = R[k] PROVE j = k
    OBVIOUS
  <2>1. PICK x \in 1 .. m : R[j] = L[x] /\ x = IF j < i THEN j ELSE j + 1
    BY <1>0, <1>1
  <2>2. PICK y \in 1 .. m : R[k] = L[y] /\ y = IF k < i THEN k ELSE k + 1
    BY <1>0, <1>1
  <2>3. L[x] = L[y]
    BY <2>1, <2>2
  <2>4. x = y
    BY <1>0, <2>3
  <2> QED BY <2>1, <2>2, <2>4
<1>4. g = NodeAt(m - 1, R, 1)
  <2>1. CASE m = 1
    BY <1>0, <2>1 DEF NodeAt, HeadWithout
  <2>2. CASE m > 1
    BY <1>0, <1>1, <2>2 DEF NodeAt, HeadWithout
  <2> QED BY <1>0, <2>1, <2>2
<1>5. ASSUME NEW k \in 1 .. m - 1 PROVE ny[R[k]] = NodeAt(m - 1, R, k + 1)
  <2>1. CASE k < i - 1
    <3>1. R[k] = L[k] /\ R[k + 1] = L[k + 1] /\ k + 1 \in 1 .. m - 1 /\ L[k] # L[i - 1] /\ nx[L[k]] = L[k + 1]
      BY <1>0, <1>1, <2>1
    <3>2. ny[R[k]] = nx[L[k]]
      BY <1>0, <3>1 DEF NextWithout
    <3> QED BY <3>1, <3>2 DEF NodeAt
  <2>2. CASE k = i - 1
    <3>1. R[k] = L[i - 1] /\ i # 1 /\ L[i - 1] \in Nodes
      BY <1>0, <1>1, <2>2
    <3>2. ny[R[k]] = nx[L[i]]
      BY <1>0, <3>1 DEF NextWithout
    <3>3. i < m => nx[L[i]] = L[i + 1] /\ i \in 1 .. m - 1 /\ R[i] = L[i + 1]
      BY <1>0, <1>1
    <3> QED BY <1>0, <2>2, <3>2, <3>3 DEF NodeAt
  <2>3. CASE k > i - 1
    <3>1. R[k] = L[k + 1] /\ k + 1 \in 1 .. m /\ (i # 1 => L[k + 1] # L[i - 1])
      BY <1>0, <1>1, <2>3
    <3>2. ny[R[k]] = nx[L[k + 1]]
      BY <1>0, <3>1 DEF NextWithout
    <3>3. k + 1 < m => nx[L[k + 1]] = L[k + 2] /\ k + 1 \in 1 .. m - 1 /\ R[k + 1] = L[k + 2]
      BY <1>0, <1>1, <2>3
    <3> QED BY <1>0, <3>2, <3>3 DEF NodeAt
  <2> QED BY <1>0, <2>1, <2>2, <2>3
<1>6. ASSUME NEW n PROVE On(n, m - 1, R) <=> On(n, m, L) /\ n # L[i]
  <2>1. ASSUME NEW k \in 1 .. m - 1 PROVE \E x \in 1 .. m : R[k] = L[x] /\ x # i
    BY <1>0, <1>1
  <2>2. ASSUME NEW x \in 1 .. m, x # i PROVE \E k \in 1 .. m - 1 : R[k] = L[x]
    <3>1. CASE x < i
      BY <1>0, <1>1, <3>1
    <3>2. CASE x > i
      <4>1. x - 1 \in 1 .. m - 1 /\ ~(x - 1 < i) /\ (x - 1) + 1 = x
        BY <1>0, <3>2
      <4> QED BY <1>1, <4>1
    <3> QED BY <2>2, <3>1, <3>2
  <2>3. i \in 1 .. m /\ \A x \in 1 .. m : L[x] = L[i] => x = i
    BY <1>0
  <2>4. ASSUME NEW k \in 1 .. m - 1, R[k] = n PROVE \E x \in 1 .. m : L[x] = n /\ n # L[i]
    BY <2>1, <2>3, <2>4
  <2>5. ASSUME NEW x \in 1 .. m, L[x] = n, n # L[i] PROVE \E k \in 1 .. m - 1 : R[k] = n
    BY <2>2, <2>5
  <2> QED BY <2>4, <2>5 DEF On
<1>7. Linked(ny, g, m - 1, R)
  BY <1>0, <1>2, <1>3, <1>4, <1>5 DEF Linked
<1> QED BY <1>6, <1>7 DEF R

\* What it is once a node has been appended behind its last one.
LEMMA AppendedList ==
  ASSUME NEW nx, NEW ny, NEW h, NEW g, NEW m, NEW L, NEW n \in Nodes, Linked(nx, h, m, L), ~On(n, m, L),
         ny[n] = Null, \A i \in 1 .. m : i # m => ny[L[i]] = nx[L[i]],
         m # 0 => ny[L[m]] = n /\ g = h,
         m = 0 => g = n
  PROVE  /\ Linked(ny, g, m + 1, Behind(m, L, n))
         /\ \A x : On(x, m + 1, Behind(m, L, n)) <=> On(x, m, L) \/ x = n
<1> DEFINE R == Behind(m, L, n)
<1>0. /\ m \in Nat /\ m + 1 \in Nat /\ L \in [1 .. m -> Nodes] /\ h = NodeAt(m, L, 1)
      /\ \A j, k \in 1 .. m : L[j] = L[k] => j = k
      /\ \A j \in 1 .. m : nx[L[j]] = NodeAt(m, L, j + 1)
      /\ \A j \in 1 .. m : L[j] # n
  BY DEF Linked, On
<1>1. R \in [1 .. m + 1 -> Nodes] /\ (\A k \in 1 .. m : R[k] = L[k]) /\ R[m + 1] = n
  BY <1>0 DEF Behind
<1> HIDE DEF R
<1>2. \A j, k \in 1 .. m + 1 : R[j] = R[k] => j = k
  <2> SUFFICES ASSUME NEW j \in 1 .. m + 1, NEW k \in 1 .. m + 1, R[j] = R[k] PROVE j = k
    OBVIOUS
  <2>1. (j = m + 1 \/ j \in 1 .. m) /\ (k = m + 1 \/ k \in 1 .. m)
    BY <1>0
  <2> QED BY <1>0, <1>1, <2>1
<1>3. g = NodeAt(m + 1, R, 1)
  BY <1>0, <1>1 DEF NodeAt
<1>4. ASSUME NEW i \in 1 .. m + 1 PROVE ny[R[i]] = NodeAt(m + 1, R, i + 1)
  <2>1. CASE i = m + 1
    BY <1>0, <1>1, <2>1 DEF NodeAt
  <2>2. CASE i = m
    BY <1>0, <1>1, <2>2 DEF NodeAt
  <2>3. CASE i < m
    <3>1. i \in 1 .. m /\ i + 1 \in 1 .. m /\ i + 1 \in 1 .. m + 1 /\ i # m
      BY <1>0, <2>3
    <3>2. R[i] = L[i] /\ R[i + 1] = L[i + 1] /\ nx[L[i]] = L[i + 1] /\ ny[L[i]] = nx[L[i]]
      BY <1>0, <1>1, <3>1 DEF NodeAt
    <3> QED BY <3>1, <3>2 DEF NodeAt
  <2> QED BY <1>0, <2>1, <2>2, <2>3
<1>5. ASSUME NEW x PROVE On(x, m + 1, R) <=> On(x, m, L) \/ x = n
  <2>1. \A i \in 1 .. m + 1 : i = m + 1 \/ i \in 1 .. m
    BY <1>0
  <2>2. (\A i \in 1 .. m : i \in 1 .. m + 1) /\ m + 1 \in 1 .. m + 1
    BY <1>0
  <2> QED BY <1>1, <2>1, <2>2 DEF On
<1>6. Linked(ny, g, m + 1, R)
  BY <1>0, <1>1, <1>2, <1>3, <1>4 DEF Linked
<1> QED BY <1>5, <1>6 DEF R

\* What it is once a node has been put in front of its first one.
LEMMA PushedList ==
  ASSUME NEW nx, NEW ny, NEW h, NEW m, NEW L, NEW n \in Nodes, Linked(nx, h, m, L), ~On(n, m, L),
         ny[n] = h, \A i \in 1 .. m : ny[L[i]] = nx[L[i]]
  PROVE  LET R == InFront(m, L, n)
         IN /\ Linked(ny, n, m + 1, R)
            /\ \A x : On(x, m + 1, R) <=> On(x, m, L) \/ x = n
<1> DEFINE R == InFront(m, L, n)
<1>0. /\ m \in Nat /\ m + 1 \in Nat /\ L \in [1 .. m -> Nodes] /\ h = NodeAt(m, L, 1)
      /\ \A j, k \in 1 .. m : L[j] = L[k] => j = k
      /\ \A j \in 1 .. m : nx[L[j]] = NodeAt(m, L, j + 1)
      /\ \A j \in 1 .. m : L[j] # n
  BY DEF Linked, On
<1>1. R \in [1 .. m + 1 -> Nodes] /\ (\A k \in 1 .. m : R[k + 1] = L[k]) /\ R[1] = n
  BY <1>0 DEF InFront
<1> HIDE DEF R
<1>2. \A i \in 1 .. m + 1 : i = 1 \/ \E k \in 1 .. m : i = k + 1
  <2> SUFFICES ASSUME NEW i \in 1 .. m + 1, i # 1 PROVE \E k \in 1 .. m : i = k + 1
    OBVIOUS
  <2>1. i - 1 \in 1 .. m /\ i = (i - 1) + 1
    BY <1>0
  <2> QED BY <2>1
<1>3. \A k \in 1 .. m : k + 1 \in 1 .. m + 1 /\ k + 1 # 1
  BY <1>0
<1>4. \A j, k \in 1 .. m + 1 : R[j] = R[k] => j = k
  <2> SUFFICES ASSUME NEW j \in 1 .. m + 1, NEW k \in 1 .. m + 1, R[j] = R[k] PROVE j = k
    OBVIOUS
  <2>0. ASSUME NEW i \in 1 .. m + 1, R[i] = n PROVE i = 1
    <3>1. ASSUME NEW x \in 1 .. m, i = x + 1 PROVE FALSE
      BY <1>0, <1>1, <2>0, <3>1
    <3> QED BY <1>2, <3>1
  <2>1. CASE j = 1 \/ k = 1
    BY <1>1, <2>0, <2>1
  <2>2. CASE j # 1 /\ k # 1
    <3>1. PICK x \in 1 .. m : j = x + 1
      BY <1>2, <2>2
    <3>2. PICK y \in 1 .. m : k = y + 1
      BY <1>2, <2>2
    <3>3. L[x] = L[y]
      BY <1>1, <3>1, <3>2
    <3> QED BY <1>0, <3>1, <3>2, <3>3
  <2> QED BY <2>1, <2>2
<1>5. n = NodeAt(m + 1, R, 1)
  BY <1>0, <1>1 DEF NodeAt
<1>6. ASSUME NEW i \in 1 .. m + 1 PROVE ny[R[i]] = NodeAt(m + 1, R, i + 1)
  <2>1. CASE i = 1
    <3>1. CASE m = 0
      BY <1>0, <1>1, <2>1, <3>1 DEF NodeAt
    <3>2. CASE m # 0
      <4>1. 1 \in 1 .. m /\ 2 \in 1 .. m + 1 /\ R[1 + 1] = L[1]
        BY <1>0, <1>1, <3>2
      <4> QED BY <1>0, <1>1, <2>1, <4>1 DEF NodeAt
    <3> QED BY <3>1, <3>2
  <2>2. ASSUME NEW k \in 1 .. m, i = k + 1 PROVE ny[R[i]] = NodeAt(m + 1, R, i + 1)
    <3>1. ny[R[i]] = NodeAt(m, L, k + 1)
      BY <1>0, <1>1, <2>2
    <3>2. CASE k = m
      BY <1>0, <2>2, <3>1, <3>2 DEF NodeAt
    <3>3. CASE k < m
      <4>1. k + 1 \in 1 .. m /\ (k + 1) + 1 \in 1 .. m + 1 /\ R[(k + 1) + 1] = L[k + 1]
        BY <1>0, <1>1, <3>3
      <4> QED BY <2>2, <3>1, <4>1 DEF NodeAt
    <3> QED BY <1>0, <3>2, <3>3
  <2> QED BY <1>2, <2>1, <2>2
<1>7. ASSUME NEW x PROVE On(x, m + 1, R) <=> On(x, m, L) \/ x = n
  <2>1. 1 \in 1 .. m + 1
    BY <1>0
  <2> QED BY <1>1, <1>2, <1>3, <2>1 DEF On
<1>8. Linked(ny, n, m + 1, R)
  BY <1>0, <1>1, <1>4, <1>5, <1>6 DEF Linked
<1> QED BY <1>7, <1>8 DEF R

-----------------------------------------------------------------------------
(* The walk that Chain is.                                                 *)

\* A set of numbers has a least one, because the intervals that end in them are
\* finite.
LEMMA Least ==
  ASSUME NEW K \in SUBSET Nat, K # {}
  PROVE  \E m \in K : \A k \in K : m <= k
<1> DEFINE S == {1 .. k : k \in K}
           R == StrictSubsetOrdering(Nat)
           F == FiniteSubsetsOf(Nat)
<1>1. IsWellFoundedOn(R, F)
  BY FS_StrictSubsetOrderingWellFounded
<1>2. S \subseteq F /\ S # {}
  <2>1. ASSUME NEW k \in K PROVE 1 .. k \in F
    <3>1. IsFiniteSet(1 .. k)
      BY FS_Interval
    <3>2. 1 .. k \in SUBSET Nat
      OBVIOUS
    <3> QED BY <3>1, <3>2 DEF FiniteSubsetsOf
  <2> HIDE DEF F
  <2>2. S \subseteq F
    BY <2>1
  <2> QED BY <2>2
<1>3. \E s \in S : \A r \in S : <<r, s>> \notin R
  <2> HIDE DEF R, F, S
  <2> QED BY <1>1, <1>2, WFMin
<1>4. PICK m \in K : \A k \in K : <<1 .. k, 1 .. m>> \notin R
  BY <1>3
<1>5. ASSUME NEW k \in K, k < m PROVE FALSE
  <2>1. 1 .. k \subseteq 1 .. m /\ m \in 1 .. m /\ m \notin 1 .. k
    BY <1>5
  <2>2. <<1 .. k, 1 .. m>> \in R
    BY <2>1 DEF StrictSubsetOrdering
  <2> QED BY <1>4, <2>2
<1> QED BY <1>5

\* The right hand side of the definition of at in Chain.
Turn(f, h) ==
  [i \in 0 .. Cardinality(Nodes) |-> IF i = 0 THEN h ELSE IF f[i - 1] = Null THEN Null ELSE next[f[i - 1]]]

\* The recursive definition of Chain has a solution, and so Chain is one.
LEMMA ChainDef ==
  ASSUME NEW h, NEW w, w = Turn(w, h)
  PROVE  Chain(h) = Turn(Chain(h), h)
<1>1. Chain(h) = CHOOSE f : f = Turn(f, h)
  BY DEF Chain, Turn
<1> QED BY <1>1

\* A list has no more nodes than there are.
LEMMA NoLonger ==
  ASSUME NEW nx, NEW h, NEW m, NEW L, Linked(nx, h, m, L)
  PROVE  m <= Cardinality(Nodes) /\ Cardinality(Nodes) \in Nat
<1>1. m \in Nat /\ L \in [1 .. m -> Nodes] /\ \A i, k \in 1 .. m : L[i] = L[k] => i = k
  BY DEF Linked
<1>2. IsFiniteSet(Nodes)
  BY TimerAssumption
<1>3. L \in Injection(1 .. m, Nodes)
  BY <1>1 DEF Injection, IsInjective
<1>4. Cardinality(1 .. m) <= Cardinality(Nodes)
  BY <1>2, <1>3, FS_Injection DEF ExistsInjection
<1>5. Cardinality(1 .. m) = m
  BY <1>1, FS_Interval
<1>6. Cardinality(Nodes) \in Nat
  BY <1>2, FS_CardinalityType
<1> QED BY <1>4, <1>5, <1>6

\* The walk along a list passes its nodes in order and ends.
LEMMA ChainIs ==
  ASSUME NEW h, NEW m, NEW L, Linked(next, h, m, L)
  PROVE  /\ DOMAIN Chain(h) = 0 .. Cardinality(Nodes)
         /\ \A k \in 0 .. Cardinality(Nodes) : Chain(h)[k] = NodeAt(m, L, k + 1)
         /\ Ends(h)
         /\ \A n : n \in OnChain(h) <=> On(n, m, L)
         /\ m <= Cardinality(Nodes) /\ Cardinality(Nodes) \in Nat
<1> DEFINE N == Cardinality(Nodes)
           w == [k \in 0 .. N |-> NodeAt(m, L, k + 1)]
           C == Chain(h)
<1>0. /\ m \in Nat /\ L \in [1 .. m -> Nodes] /\ h = NodeAt(m, L, 1) /\ Null \notin Nodes
      /\ \A i \in 1 .. m : next[L[i]] = NodeAt(m, L, i + 1)
      /\ m <= N /\ N \in Nat
  <2>1. /\ m \in Nat /\ L \in [1 .. m -> Nodes] /\ h = NodeAt(m, L, 1)
        /\ \A i \in 1 .. m : next[L[i]] = NodeAt(m, L, i + 1)
    BY DEF Linked
  <2>2. m <= N /\ N \in Nat
    BY NoLonger
  <2> QED BY <2>1, <2>2, TimerAssumption
<1> HIDE DEF N
<1>1. ASSUME NEW k \in 0 .. N PROVE w[k] = IF k = 0 THEN h ELSE IF w[k - 1] = Null THEN Null ELSE next[w[k - 1]]
  <2>1. CASE k = 0
    BY <1>0, <2>1
  <2>2. CASE k # 0
    <3>1. k - 1 \in 0 .. N /\ (k - 1) + 1 = k
      BY <1>0, <2>2
    <3>2. w[k - 1] = NodeAt(m, L, k) /\ w[k] = NodeAt(m, L, k + 1)
      BY <3>1
    <3>3. CASE k \in 1 .. m
      <4>1. NodeAt(m, L, k) = L[k] /\ L[k] # Null /\ next[L[k]] = NodeAt(m, L, k + 1)
        BY <1>0, <3>3 DEF NodeAt
      <4> QED BY <2>2, <3>2, <4>1
    <3>4. CASE k \notin 1 .. m
      <4>1. k + 1 \notin 1 .. m
        BY <1>0, <2>2, <3>4
      <4> QED BY <2>2, <3>2, <3>4, <4>1 DEF NodeAt
    <3> QED BY <3>3, <3>4
  <2> QED BY <2>1, <2>2
<1>2. w = Turn(w, h)
  <2>1. \A k \in 0 .. N : w[k] = IF k = 0 THEN h ELSE IF w[k - 1] = Null THEN Null ELSE next[w[k - 1]]
    BY <1>1
  <2>2. w = [k \in 0 .. N |-> w[k]]
    OBVIOUS
  <2> HIDE DEF w
  <2> QED BY <2>1, <2>2 DEF Turn, N
<1>3. C = Turn(C, h)
  <2> HIDE DEF w
  <2>1. PICK v : v = w
    OBVIOUS
  <2> QED BY <1>2, <2>1, ChainDef
<1> HIDE DEF w, C
<1>4. \A k \in 0 .. N : C[k] = w[k]
  <2> DEFINE K == {k \in 0 .. N : C[k] # w[k]}
  <2>1. K = {}
    <3> SUFFICES ASSUME K # {} PROVE FALSE
      OBVIOUS
    <3>1. PICK k \in K : \A j \in K : k <= j
      <4>1. K \in SUBSET Nat
        BY <1>0
      <4> HIDE DEF K
      <4> QED BY <4>1, Least
    <3>2. C[k] = IF k = 0 THEN h ELSE IF C[k - 1] = Null THEN Null ELSE next[C[k - 1]]
      BY <1>3 DEF Turn, N
    <3>3. w[k] = IF k = 0 THEN h ELSE IF w[k - 1] = Null THEN Null ELSE next[w[k - 1]]
      BY <1>2 DEF Turn, N
    <3>4. k # 0
      BY <3>2, <3>3
    <3>5. k - 1 \in 0 .. N /\ k - 1 \notin K
      BY <1>0, <3>1, <3>4
    <3>6. C[k - 1] = w[k - 1]
      BY <3>5
    <3> QED BY <3>2, <3>3, <3>4, <3>6
  <2> QED BY <2>1
<1>5. \A k \in 0 .. N : C[k] = NodeAt(m, L, k + 1)
  BY <1>4 DEF w
<1>6. DOMAIN C = 0 .. N
  BY <1>3 DEF Turn, N
<1>7. C[N] = Null
  <2>1. N \in 0 .. N /\ N + 1 \notin 1 .. m
    BY <1>0
  <2> QED BY <1>5, <2>1 DEF NodeAt
<1>8. ASSUME NEW n PROVE (\E k \in 0 .. N : C[k] = n) /\ n # Null <=> On(n, m, L)
  <2>1. ASSUME NEW k \in 0 .. N, C[k] = n, n # Null PROVE On(n, m, L)
    BY <1>5, <2>1 DEF NodeAt, On
  <2>2. ASSUME NEW i \in 1 .. m, L[i] = n PROVE n # Null /\ \E k \in 0 .. N : C[k] = n
    <3>1. i - 1 \in 0 .. N /\ (i - 1) + 1 = i /\ n # Null
      BY <1>0, <2>2
    <3>2. C[i - 1] = n
      BY <1>5, <2>2, <3>1 DEF NodeAt
    <3> QED BY <3>1, <3>2
  <2> QED BY <2>1, <2>2 DEF On
<1>9. Ends(h)
  BY <1>7 DEF Ends, C, N
<1>10. \A n : n \in OnChain(h) <=> On(n, m, L)
  BY <1>8 DEF OnChain, C, N
<1> QED BY <1>0, <1>5, <1>6, <1>9, <1>10 DEF C, N

-----------------------------------------------------------------------------
(* The invariant.  Timers are deleted by callbacks only: the m nodes of L  *)
(* are the list and the o nodes of F the free list.                        *)

\* Both lists are what they seem, and every node ever allocated is in one place.
Places(m, L, o, F) ==
  /\ Linked(next, job, m, L) /\ Linked(next, freelist, o, F)
  /\ tail = NodeAt(m, L, m) /\ freesize = o
  /\ \A n \in Nodes : On(n, m, L) => ~On(n, o, F) /\ n \notin InHand
  /\ \A n \in Nodes : On(n, o, F) => n \notin InHand
  /\ \A n \in Nodes : n \in alloc <=> On(n, m, L) \/ On(n, o, F) \/ n \in InHand

\* The unlocked sweep stands on the list, prev on the node before.
Cursor(m, L) ==
  wpc \in {"walk", "lock"} /\ cur # Null =>
    \E i \in 1 .. m : cur = L[i] /\ (i = 1 \/ prev = L[i - 1])

\* The sweep under way has yet to come to the i-th node.
Ahead(L, i) ==
  \/ wpc \in {"unlinked", "call", "skip"}
  \/ wpc \in {"walk", "lock"} /\ \E j \in 1 .. i : L[j] = cur

\* What a timer on the list has left is not more than the sweeps that have still
\* to pass it, and less than those by no more than the expiries it has seen.
Times(m, L) ==
  \A i \in 1 .. m :
    LET n == L[i]
        v == IF Ahead(L, i) THEN 1 ELSE 0
    IN  key[n] \in Keys /\ left[n] <= due[n] + v /\ (due[n] + v) - left[n] <= expiries[n]

\* The nodes in the hands of the thread and of deletions.
Hand ==
  /\ wpc \in {"unlinked", "call", "skip"} => cur \in Nodes /\ due[cur] + 1 <= expiries[cur]
  /\ wpc = "unlinked" => key[cur] \in Keys
  /\ wpc = "lock" => cur # Null /\ left[cur] = 0
  /\ wpc = "freed" => ~run /\ job = Null /\ freelist = Null
  /\ \A c \in Clients : unlinked[c] # Null => wpc = "call" /\ unlinked[c] # cur
  /\ \A c, d \in Clients : c # d /\ unlinked[c] # Null => unlinked[c] # unlinked[d]

Base == TypeOK /\ fault = "none" /\ Hand
Lists(m, L, o, F) == Places(m, L, o, F) /\ Cursor(m, L) /\ Times(m, L)
IInv == Base /\ \E m, L, o, F : Lists(m, L, o, F)

\* The ends of both lists.
LEMMA ListEnds ==
  ASSUME NEW m, NEW L, NEW o, NEW F, Places(m, L, o, F)
  PROVE  /\ m \in Nat /\ L \in [1 .. m -> Nodes] /\ o \in Nat /\ F \in [1 .. o -> Nodes]
         /\ \A i, k \in 1 .. m : L[i] = L[k] => i = k
         /\ \A i \in 1 .. m : next[L[i]] = NodeAt(m, L, i + 1)
         /\ Null \notin Nodes
         /\ m = 0 <=> job = Null
         /\ m = 0 <=> tail = Null
         /\ m # 0 => job = L[1] /\ tail = L[m] /\ 1 \in 1 .. m /\ m \in 1 .. m
         /\ o = 0 <=> freelist = Null
         /\ o # 0 => freelist = F[1] /\ 1 \in 1 .. o
<1>1. /\ Linked(next, job, m, L) /\ Linked(next, freelist, o, F) /\ tail = NodeAt(m, L, m)
      /\ Null \notin Nodes
  BY TimerAssumption DEF Places
<1>2. /\ m \in Nat /\ L \in [1 .. m -> Nodes] /\ o \in Nat /\ F \in [1 .. o -> Nodes]
      /\ job = NodeAt(m, L, 1) /\ freelist = NodeAt(o, F, 1)
      /\ \A i, k \in 1 .. m : L[i] = L[k] => i = k
      /\ \A i \in 1 .. m : next[L[i]] = NodeAt(m, L, i + 1)
  BY <1>1 DEF Linked
<1>3. m # 0 => 1 \in 1 .. m /\ m \in 1 .. m /\ job = L[1] /\ tail = L[m]
  BY <1>1, <1>2 DEF NodeAt
<1>4. o # 0 => 1 \in 1 .. o /\ freelist = F[1]
  BY <1>1, <1>2 DEF NodeAt
<1>5. (m = 0 => job = Null /\ tail = Null) /\ (o = 0 => freelist = Null)
  BY <1>1, <1>2 DEF NodeAt
<1>6. (m # 0 => job # Null /\ tail # Null) /\ (o # 0 => freelist # Null)
  BY <1>1, <1>2, <1>3, <1>4
<1> QED BY <1>1, <1>2, <1>3, <1>4, <1>5, <1>6

\* The last node of a list from which one is unlinked.
LEMMA RemovedLast ==
  ASSUME NEW m \in Nat, NEW L, NEW i \in 1 .. m
  PROVE  NodeAt(m - 1, Without(m, L, i), m - 1) = IF i = m THEN NodeAt(m, L, m - 1) ELSE L[m]
<1> DEFINE R == Without(m, L, i)
<1>1. \A k \in 1 .. m - 1 : R[k] = IF k < i THEN L[k] ELSE L[k + 1]
  BY DEF Without
<1> HIDE DEF R
<1>2. PICK z \in Nat : z = m - 1
  OBVIOUS
<1>3. z = 0 => i = m
  BY <1>2
<1>4. z # 0 => z \in 1 .. z /\ z \in 1 .. m /\ z + 1 = m /\ (z < i <=> i = m)
  BY <1>2
<1>5. z # 0 => R[z] = IF i = m THEN L[z] ELSE L[m]
  BY <1>1, <1>2, <1>4
<1>6. NodeAt(z, R, z) = IF i = m THEN NodeAt(m, L, z) ELSE L[m]
  BY <1>3, <1>4, <1>5 DEF NodeAt
<1> QED BY <1>2, <1>6 DEF R

\* A node _zcrt_timer_malloc_cb gives is free or new, and the free list loses its head.
LEMMA NewNodeIs ==
  ASSUME Base, NEW m, NEW L, NEW o, NEW F, Places(m, L, o, F), NEW n, n = NewNode, Malloc(n)
  PROVE  /\ n \in Nodes /\ ~On(n, m, L) /\ n \notin InHand
         /\ alloc' = alloc \cup {n}
         /\ \E p, G : /\ Linked(next, freelist', p, G) /\ freesize' = p
                      /\ \A x \in Nodes : On(x, p, G) => On(x, o, F) /\ x # n
                      /\ \A x \in Nodes : On(x, o, F) => On(x, p, G) \/ x = n
<1>0. /\ m \in Nat /\ o \in Nat /\ F \in [1 .. o -> Nodes] /\ Null \notin Nodes
      /\ o = 0 <=> freelist = Null
      /\ o # 0 => freelist = F[1] /\ 1 \in 1 .. o
  BY ListEnds
<1>1. n # Null /\ alloc' = alloc \cup {n} /\ next \in [Nodes -> Nodes \cup {Null}] /\ alloc \subseteq Nodes
  BY DEF Malloc, Base, TypeOK
<1>2. /\ Linked(next, freelist, o, F) /\ freesize = o
      /\ \A x \in Nodes : On(x, m, L) => ~On(x, o, F) /\ x \notin InHand
      /\ \A x \in Nodes : On(x, o, F) => x \notin InHand
      /\ \A x \in Nodes : x \in alloc <=> On(x, m, L) \/ On(x, o, F) \/ x \in InHand
  BY DEF Places
<1>3. CASE freelist = Null
  <2>1. n \in Nodes /\ n \notin alloc
    BY <1>1, <1>3 DEF NewNode
  <2>2. freelist' = freelist /\ freesize' = freesize
    BY <1>3 DEF Malloc
  <2>3. \A x \in Nodes : On(x, o, F) => x # n
    BY <1>2, <2>1
  <2> QED BY <1>1, <1>2, <2>1, <2>2, <2>3
<1>4. CASE freelist # Null
  <2>1. n = F[1] /\ n \in Nodes /\ 1 \in 1 .. o /\ n = freelist
    BY <1>0, <1>4 DEF NewNode
  <2>2. On(n, o, F)
    BY <2>1 DEF On
  <2>3. freelist' = next[n] /\ freesize' = freesize - 1
    BY <1>4, <2>1 DEF Malloc
  <2>4. PICK p, G : p = o - 1 /\ G = Without(o, F, 1)
    OBVIOUS
  <2>5. Linked(next, next[F[1]], p, G) /\ \A x : On(x, p, G) <=> On(x, o, F) /\ x # F[1]
    <3>1. Linked(NextWithout(next, F, 1), HeadWithout(next, freelist, F, 1), o - 1, Without(o, F, 1))
          /\ \A x : On(x, o - 1, Without(o, F, 1)) <=> On(x, o, F) /\ x # F[1]
      BY <1>1, <1>2, <2>1, RemovedList
    <3> QED BY <2>4, <3>1 DEF NextWithout, HeadWithout
  <2> QED BY <1>1, <1>2, <2>1, <2>2, <2>3, <2>4, <2>5
<1> QED BY <1>3, <1>4

-----------------------------------------------------------------------------
(* The steps that leave both lists as they are.                            *)

\* Neither list changes, and nobody takes or gives a node.
LEMMA SamePlaces ==
  ASSUME NEW m, NEW L, NEW o, NEW F, Places(m, L, o, F), UNCHANGED listVars, next' = next, InHand' = InHand
  PROVE  Places(m, L, o, F)'
BY DEF Places, listVars

\* Calls that touch neither a list nor the thread.
LEMMA CallStep ==
  ASSUME Base, NEW m, NEW L, NEW o, NEW F, Lists(m, L, o, F),
         UNCHANGED <<nodeVars, listVars, thrVars, unlinked>>,
         container' \subseteq Cons, run' \in BOOLEAN, run' => run, calls' \in 0 .. MaxCalls, fault' = "none"
  PROVE  Base' /\ Lists(m, L, o, F)'
<1>1. InHand' = InHand
  BY DEF InHand, thrVars
<1>2. Places(m, L, o, F)'
  BY <1>1, SamePlaces DEF Lists, nodeVars
<1>3. Cursor(m, L)' /\ Times(m, L)'
  BY DEF Lists, Cursor, Times, Ahead, nodeVars, thrVars
<1>4. TypeOK'
  BY DEF Base, TypeOK, nodeVars, listVars, thrVars
<1>5. Hand'
  BY DEF Base, Hand, nodeVars, listVars, thrVars
<1> QED BY <1>2, <1>3, <1>4, <1>5 DEF Base, Lists

\* The list is where the search for a timer to delete ends.
LEMMA NoneStep ==
  ASSUME Base, NEW m, NEW L, NEW o, NEW F, Lists(m, L, o, F), NEW c, NEW k, DeleteNone(c, k)
  PROVE  Base' /\ Lists(m, L, o, F)'
<1>1. Ends(job) /\ (job = Null <=> tail = Null)
  <2>1. Places(m, L, o, F) /\ Linked(next, job, m, L)
    BY DEF Lists, Places
  <2>2. Ends(job)
    BY <2>1, ChainIs
  <2> QED BY <2>1, <2>2, ListEnds
<1>2. fault' = "none" /\ calls' = calls + 1 /\ calls < MaxCalls
  BY <1>1 DEF DeleteNone, Base, MayCall, Called
<1>3. calls' \in 0 .. MaxCalls
  BY <1>2, TimerAssumption DEF Base, TypeOK
<1>4. UNCHANGED <<nodeVars, listVars, thrVars, unlinked>> /\ UNCHANGED <<container, run>>
  BY DEF DeleteNone
<1>5. container' \subseteq Cons /\ run' \in BOOLEAN /\ (run' => run)
  BY <1>4 DEF Base, TypeOK
<1> QED BY <1>2, <1>3, <1>4, <1>5, CallStep

\* Containers come and go; the list is not looked at.
LEMMA ContainerStep ==
  ASSUME Base, NEW m, NEW L, NEW o, NEW F, Lists(m, L, o, F), NEW c, NEW id \in Cons,
         ContainerNew(c, id) \/ ContainerDelete(c, id)
  PROVE  Base' /\ Lists(m, L, o, F)'
<1>1. /\ UNCHANGED <<nodeVars, listVars, thrVars, unlinked>> /\ UNCHANGED <<run, fault>>
      /\ container' \subseteq Cons /\ calls' = calls + 1 /\ calls < MaxCalls
  <2>1. container \subseteq Cons
    BY DEF Base, TypeOK
  <2>2. CASE ContainerNew(c, id)
    BY <2>1, <2>2 DEF ContainerNew, MayCall, Called
  <2>3. CASE ContainerDelete(c, id)
    BY <2>1, <2>3 DEF ContainerDelete, MayCall, Called
  <2> QED BY <2>2, <2>3
<1>2. calls' \in 0 .. MaxCalls
  BY <1>1, TimerAssumption DEF Base, TypeOK
<1>3. fault' = "none" /\ run' \in BOOLEAN /\ (run' => run)
  BY <1>1 DEF Base, TypeOK
<1> QED BY <1>1, <1>2, <1>3, CallStep

\* The manager is told to stop.
LEMMA StopStep ==
  ASSUME Base, NEW m, NEW L, NEW o, NEW F, Lists(m, L, o, F), ManageDelete
  PROVE  Base' /\ Lists(m, L, o, F)'
<1>1. /\ UNCHANGED <<nodeVars, listVars, thrVars, unlinked>> /\ UNCHANGED <<container, calls, fault>>
      /\ run' \in BOOLEAN /\ (run' => run)
  BY DEF ManageDelete
<1>2. container' \subseteq Cons /\ calls' \in 0 .. MaxCalls /\ fault' = "none"
  BY <1>1 DEF Base, TypeOK
<1> QED BY <1>1, <1>2, CallStep

\* The sweep begins: every timer is now ahead of it, and is to be passed once less.
LEMMA StartStep ==
  ASSUME Base, NEW m, NEW L, NEW o, NEW F, Lists(m, L, o, F), SweepStart
  PROVE  Base' /\ Lists(m, L, o, F)'
<1>0. /\ wpc = "sleep" /\ wpc' = "walk" /\ cur' = job /\ prev' = job
      /\ UNCHANGED <<next, left, key, timecon, expiries, listVars, container, run, unlinked, calls, fault>>
      /\ due' = [n \in Nodes |-> IF n \in OnChain(job) /\ due[n] >= 0 THEN due[n] - 1 ELSE due[n]]
  BY DEF SweepStart
<1>1. InHand' = InHand
  BY <1>0 DEF InHand
<1>2. Places(m, L, o, F)'
  BY <1>0, <1>1, SamePlaces DEF Lists
<1>3. Cursor(m, L)'
  <2>1. m # 0 => job = L[1] /\ 1 \in 1 .. m
    BY ListEnds DEF Lists
  <2>2. m = 0 => job = Null
    BY ListEnds DEF Lists
  <2> QED BY <1>0, <2>1, <2>2 DEF Cursor
<1>4. Times(m, L)'
  <2> SUFFICES ASSUME NEW i \in 1 .. m
               PROVE  LET n == L[i]
                          v == IF Ahead(L, i)' THEN 1 ELSE 0
                      IN key'[n] \in Keys /\ left'[n] <= due'[n] + v /\ (due'[n] + v) - left'[n] <= expiries'[n]
    BY DEF Times
  <2>1. PICK n \in Nodes : n = L[i] /\ On(n, m, L)
    BY ListEnds DEF Lists, On
  <2>2. Ahead(L, i)'
    <3>1. m \in Nat
      BY ListEnds DEF Lists
    <3>2. 1 \in 1 .. i /\ i \in Nat /\ m # 0
      BY <3>1
    <3>3. L[1] = job
      BY <3>2, ListEnds DEF Lists
    <3> QED BY <1>0, <3>2, <3>3 DEF Ahead
  <2>3. key[n] \in Keys /\ left[n] <= due[n] /\ due[n] - left[n] <= expiries[n]
    <3>1. ~Ahead(L, i)
      BY <1>0 DEF Ahead
    <3>2. due[n] \in Int
      BY DEF Base, TypeOK
    <3> QED BY <2>1, <3>1, <3>2 DEF Lists, Times
  <2>4. left[n] \in Nat /\ due[n] \in Int /\ expiries[n] \in Nat
    BY DEF Base, TypeOK
  <2>5. n \in OnChain(job)
    BY <2>1, ChainIs DEF Lists, Places
  <2>6. due'[n] = due[n] - 1
    BY <1>0, <2>3, <2>4, <2>5
  <2> QED BY <1>0, <2>1, <2>2, <2>3, <2>4, <2>6
<1>5. TypeOK'
  <2>1. due' \in [Nodes -> Int]
    BY <1>0 DEF Base, TypeOK
  <2> QED BY <1>0, <2>1 DEF Base, TypeOK, listVars
<1>6. Hand'
  BY <1>0 DEF Base, Hand
<1> QED BY <1>0, <1>2, <1>3, <1>4, <1>5, <1>6 DEF Base, Lists

\* It passes a timer that has time left.
LEMMA PassStep ==
  ASSUME Base, NEW m, NEW L, NEW o, NEW F, Lists(m, L, o, F), SweepPass
  PROVE  Base' /\ Lists(m, L, o, F)'
<1>0. /\ wpc = "walk" /\ wpc' = "walk" /\ cur # Null /\ prev' = cur /\ cur' = next[cur]
      /\ left' = [left EXCEPT ![cur] = left[cur] - 1] /\ left[cur] # 0
      /\ UNCHANGED <<next, key, timecon, due, expiries, listVars, container, run, unlinked, calls, fault>>
  BY DEF SweepPass, Aged, Expired
<1>1. InHand' = InHand
  BY <1>0 DEF InHand
<1>2. Places(m, L, o, F)'
  BY <1>0, <1>1, SamePlaces DEF Lists
<1>3. /\ m \in Nat /\ L \in [1 .. m -> Nodes] /\ Null \notin Nodes
      /\ \A i, k \in 1 .. m : L[i] = L[k] => i = k
      /\ \A i \in 1 .. m : next[L[i]] = NodeAt(m, L, i + 1)
  BY ListEnds DEF Lists
<1>4. PICK p \in 1 .. m : cur = L[p]
  BY <1>0 DEF Lists, Cursor
<1>5. cur \in Nodes /\ cur' = NodeAt(m, L, p + 1)
  BY <1>0, <1>3, <1>4
<1>6. TypeOK'
  <2>1. left' \in [Nodes -> Nat]
    BY <1>0, <1>5 DEF Base, TypeOK
  <2>2. cur' \in Nodes \cup {Null} /\ prev' \in Nodes \cup {Null}
    BY <1>0, <1>5 DEF Base, TypeOK
  <2> QED BY <1>0, <2>1, <2>2 DEF Base, TypeOK, listVars
<1>7. Cursor(m, L)'
  <2>1. cur' # Null => p + 1 \in 1 .. m /\ cur' = L[p + 1] /\ prev' = L[(p + 1) - 1]
    BY <1>0, <1>3, <1>4, <1>5 DEF NodeAt
  <2> QED BY <2>1 DEF Cursor
<1>8. Times(m, L)'
  <2> SUFFICES ASSUME NEW i \in 1 .. m
               PROVE  LET n == L[i]
                          v == IF Ahead(L, i)' THEN 1 ELSE 0
                      IN key'[n] \in Keys /\ left'[n] <= due'[n] + v /\ (due'[n] + v) - left'[n] <= expiries'[n]
    BY DEF Times
  <2>1. PICK n \in Nodes : n = L[i]
    BY <1>3
  <2>2. left \in [Nodes -> Nat] /\ due[n] \in Int /\ expiries[n] \in Nat
    BY DEF Base, TypeOK
  <2>3. Ahead(L, i) <=> p <= i
    <3>1. Ahead(L, i) <=> \E j \in 1 .. i : L[j] = L[p]
      BY <1>0, <1>4 DEF Ahead
    <3>2. \A j \in 1 .. i : j \in 1 .. m
      BY <1>3
    <3>3. p <= i => p \in 1 .. i
      BY <1>3
    <3> QED BY <1>3, <3>1, <3>2, <3>3
  <2>4. Ahead(L, i)' <=> p + 1 <= i
    <3>1. Ahead(L, i)' <=> \E j \in 1 .. i : L[j] = NodeAt(m, L, p + 1)
      BY <1>0, <1>5 DEF Ahead
    <3>2. CASE p = m
      BY <1>3, <3>1, <3>2 DEF NodeAt
    <3>3. CASE p # m
      <4>1. p + 1 \in 1 .. m /\ NodeAt(m, L, p + 1) = L[p + 1]
        BY <1>3, <3>3 DEF NodeAt
      <4> QED BY <1>3, <3>1, <4>1
    <3> QED BY <3>2, <3>3
  <2>5. /\ key[n] \in Keys
        /\ left[n] <= due[n] + (IF p <= i THEN 1 ELSE 0)
        /\ (due[n] + (IF p <= i THEN 1 ELSE 0)) - left[n] <= expiries[n]
    BY <2>1, <2>3 DEF Lists, Times
  <2>6. n = cur <=> p = i
    BY <1>3, <1>4, <2>1
  <2>7. left'[n] = IF p = i THEN left[n] - 1 ELSE left[n]
    BY <1>0, <2>2, <2>6
  <2>8. /\ left'[n] <= due[n] + (IF p + 1 <= i THEN 1 ELSE 0)
        /\ (due[n] + (IF p + 1 <= i THEN 1 ELSE 0)) - left'[n] <= expiries[n]
    <3>1. left[n] \in Nat /\ p \in Int /\ i \in Int
      BY <1>3, <2>2
    <3> QED BY <2>2, <2>5, <2>7, <3>1
  <2> QED BY <1>0, <2>1, <2>4, <2>5, <2>8
<1>9. Hand'
  BY <1>0 DEF Base, Hand
<1> QED BY <1>0, <1>2, <1>6, <1>7, <1>8, <1>9 DEF Base, Lists

\* It comes to a timer that has expired, or to the end of the list.
LEMMA WalkStep ==
  ASSUME Base, NEW m, NEW L, NEW o, NEW F, Lists(m, L, o, F), SweepExpired \/ SweepEnd
  PROVE  Base' /\ Lists(m, L, o, F)'
<1>0. /\ wpc = "walk"
      /\ \/ wpc' = "lock" /\ cur # Null /\ left[cur] = 0
         \/ wpc' = "sleep" /\ cur = Null
  BY DEF SweepExpired, SweepEnd, Expired
<1>1. UNCHANGED <<nodeVars, listVars, cur, prev, container, run, unlinked, calls, fault>>
  <2>1. CASE SweepExpired
    BY <2>1 DEF SweepExpired
  <2>2. CASE SweepEnd
    BY <2>2 DEF SweepEnd
  <2> QED BY <2>1, <2>2
<1>2. InHand' = InHand
  BY <1>0, <1>1 DEF InHand
<1>3. Places(m, L, o, F)'
  BY <1>1, <1>2, SamePlaces DEF Lists, nodeVars
<1>4. Cursor(m, L)'
  BY <1>0, <1>1 DEF Lists, Cursor
<1>5. Times(m, L)'
  <2>1. \A i \in 1 .. m : \A j \in 1 .. i : L[j] # Null
    <3>1. m \in Nat /\ L \in [1 .. m -> Nodes] /\ Null \notin Nodes
      BY ListEnds DEF Lists
    <3>2. \A i \in 1 .. m : \A j \in 1 .. i : j \in 1 .. m
      BY <3>1
    <3> QED BY <3>1, <3>2
  <2>2. \A i \in 1 .. m : Ahead(L, i)' <=> Ahead(L, i)
    BY <1>0, <1>1, <2>1 DEF Ahead
  <2> QED BY <1>1, <2>2 DEF Lists, Times, nodeVars
<1>6. TypeOK'
  BY <1>0, <1>1 DEF Base, TypeOK, nodeVars, listVars
<1>7. Hand'
  BY <1>0, <1>1 DEF Base, Hand, nodeVars, listVars
<1> QED BY <1>1, <1>3, <1>4, <1>5, <1>6, <1>7 DEF Base, Lists

\* The callback of the timer that was unlinked runs, or is left out.
LEMMA RunStep ==
  ASSUME Base, NEW m, NEW L, NEW o, NEW F, Lists(m, L, o, F), FireCall
  PROVE  Base' /\ Lists(m, L, o, F)'
<1>0. /\ wpc = "unlinked" /\ wpc' \in {"call", "skip"} /\ fault' = IF key[cur] = Null THEN "assert" ELSE fault
      /\ UNCHANGED <<nodeVars, listVars, cur, prev, container, run, unlinked, calls>>
  BY DEF FireCall
<1>1. fault' = "none"
  <2>1. key[cur] \in Keys /\ Null \notin Keys
    BY <1>0, TimerAssumption DEF Base, Hand
  <2> QED BY <1>0, <2>1 DEF Base
<1>2. InHand' = InHand
  BY <1>0 DEF InHand
<1>3. Places(m, L, o, F)'
  BY <1>0, <1>2, SamePlaces DEF Lists, nodeVars
<1>4. Cursor(m, L)'
  BY <1>0 DEF Cursor
<1>5. Times(m, L)'
  <2>1. \A i \in 1 .. m : Ahead(L, i)' <=> Ahead(L, i)
    BY <1>0 DEF Ahead
  <2> QED BY <1>0, <2>1 DEF Lists, Times, nodeVars
<1>6. TypeOK'
  BY <1>0, <1>1 DEF Base, TypeOK, nodeVars, listVars
<1>7. Hand'
  BY <1>0 DEF Base, Hand, nodeVars, listVars
<1> QED BY <1>1, <1>3, <1>4, <1>5, <1>6, <1>7 DEF Base, Lists

-----------------------------------------------------------------------------
(* The thread unlinks, frees and leaves.                                   *)

\* The timer that has expired is unlinked: every other one sees an expiry.
LEMMA FireStep ==
  ASSUME Base, NEW m, NEW L, NEW o, NEW F, Lists(m, L, o, F), FireUnlink
  PROVE  Base' /\ \E p, R : Lists(p, R, o, F)'
<1>0. /\ m \in Nat /\ L \in [1 .. m -> Nodes] /\ Null \notin Nodes
      /\ \A j, k \in 1 .. m : L[j] = L[k] => j = k
      /\ \A j \in 1 .. m : next[L[j]] = NodeAt(m, L, j + 1)
      /\ m # 0 => job = L[1] /\ tail = L[m] /\ 1 \in 1 .. m /\ m \in 1 .. m
  BY ListEnds DEF Lists
<1>1. wpc = "lock" /\ cur # Null /\ left[cur] = 0
  BY DEF FireUnlink, Base, Hand
<1>2. PICK i \in 1 .. m : cur = L[i] /\ (i = 1 \/ prev = L[i - 1])
  BY <1>1 DEF Lists, Cursor
<1>3. /\ m # 0 /\ job = L[1] /\ tail = L[m] /\ cur \in Nodes /\ (job = cur <=> i = 1) /\ (tail = cur <=> i = m)
      /\ i # 1 => i - 1 \in 1 .. m /\ prev = L[i - 1] /\ prev \in Nodes /\ prev # cur
  BY <1>0, <1>2
<1>4. PICK p, R : p = m - 1 /\ R = Without(m, L, i)
  OBVIOUS
<1>5. /\ job' = IF i = 1 THEN next[cur] ELSE job
      /\ next' = IF i = 1 THEN next ELSE [next EXCEPT ![prev] = next[cur]]
      /\ prev' = IF i = 1 THEN next[cur] ELSE prev
      /\ tail' = IF i = m THEN prev' ELSE tail
      /\ fault' = IF tail = cur /\ next'[cur] # Null THEN "assert" ELSE fault
      /\ wpc' = "unlinked"
      /\ expiries' = [n \in Nodes |-> IF n \in OnChain(job) \ {cur} THEN expiries[n] + 1 ELSE expiries[n]]
      /\ UNCHANGED <<left, key, timecon, due, freelist, freesize, alloc, cur, container, run, unlinked, calls>>
  <2>1. ~(job # cur /\ prev = Null)
    BY <1>0, <1>3
  <2> QED BY <1>3, <2>1 DEF FireUnlink, PrevOfHead
<1>6. /\ Linked(next', job', p, R)
      /\ \A n : On(n, p, R) <=> On(n, m, L) /\ n # cur
      /\ \A k \in 1 .. p : R[k] = IF k < i THEN L[k] ELSE L[k + 1]
  <2>1. Linked(next, job, m, L) /\ next \in [Nodes -> Nodes \cup {Null}]
    BY DEF Lists, Places, Base, TypeOK
  <2>2. /\ Linked(NextWithout(next, L, i), HeadWithout(next, job, L, i), m - 1, Without(m, L, i))
        /\ \A n : On(n, m - 1, Without(m, L, i)) <=> On(n, m, L) /\ n # L[i]
    BY <2>1, RemovedList
  <2>3. next' = NextWithout(next, L, i) /\ job' = HeadWithout(next, job, L, i)
    BY <1>2, <1>5 DEF NextWithout, HeadWithout
  <2>4. \A k \in 1 .. p : R[k] = IF k < i THEN L[k] ELSE L[k + 1]
    BY <1>4 DEF Without
  <2> QED BY <1>2, <1>4, <2>2, <2>3, <2>4
<1>7. InHand = {} /\ InHand' = {cur}
  <2>1. \A c \in Clients : unlinked[c] = Null
    BY <1>1 DEF Base, Hand
  <2> QED BY <1>0, <1>1, <1>3, <1>5, <2>1 DEF InHand
<1>8. next[cur] = NodeAt(m, L, i + 1) /\ (i = m => next[cur] = Null /\ next'[cur] = Null)
  <2>1. next[cur] = NodeAt(m, L, i + 1)
    BY <1>0, <1>2
  <2>2. i = m => next[cur] = Null
    BY <1>0, <2>1 DEF NodeAt
  <2>3. next'[cur] = next[cur]
    BY <1>3, <1>5
  <2> QED BY <2>1, <2>2, <2>3
<1>9. fault' = "none"
  BY <1>3, <1>5, <1>8 DEF Base
<1>10. tail' = NodeAt(p, R, p)
  <2>1. NodeAt(p, R, p) = IF i = m THEN NodeAt(m, L, m - 1) ELSE L[m]
    BY <1>0, <1>4, RemovedLast
  <2>2. CASE i # m
    BY <1>3, <1>5, <2>1, <2>2
  <2>3. CASE i = m /\ i = 1
    BY <1>5, <1>8, <2>1, <2>3 DEF NodeAt
  <2>4. CASE i = m /\ i # 1
    BY <1>3, <1>5, <2>1, <2>4 DEF NodeAt
  <2> QED BY <2>2, <2>3, <2>4
<1>11. On(cur, m, L) /\ ~On(cur, o, F)
  <2>1. On(cur, m, L)
    BY <1>2 DEF On
  <2> QED BY <1>3, <2>1 DEF Lists, Places
<1>12. Places(p, R, o, F)'
  <2>1. Linked(next, freelist, o, F) /\ freesize = o
        /\ (\A n \in Nodes : On(n, m, L) => ~On(n, o, F))
        /\ \A n \in Nodes : n \in alloc <=> On(n, m, L) \/ On(n, o, F)
    BY <1>7 DEF Lists, Places
  <2>2. Linked(next', freelist', o, F)
    <3>1. \A k \in 1 .. o : F[k] \in Nodes /\ On(F[k], o, F)
      BY <2>1 DEF Linked, On
    <3>2. i # 1 => On(prev, m, L)
      BY <1>3 DEF On
    <3>3. \A k \in 1 .. o : i # 1 => F[k] # prev
      BY <2>1, <3>1, <3>2
    <3>4. \A k \in 1 .. o : next'[F[k]] = next[F[k]]
      BY <1>3, <1>5, <3>1, <3>3 DEF Base, TypeOK
    <3> QED BY <1>5, <2>1, <3>4, SameList
  <2>3. \A n \in Nodes : On(n, p, R) => ~On(n, o, F) /\ n \notin InHand'
    BY <1>6, <1>7, <2>1
  <2>4. \A n \in Nodes : On(n, o, F) => n \notin InHand'
    BY <1>7, <1>11
  <2>5. \A n \in Nodes : n \in alloc' <=> On(n, p, R) \/ On(n, o, F) \/ n \in InHand'
    BY <1>5, <1>6, <1>7, <1>11, <2>1
  <2>6. freesize' = o
    BY <1>5, <2>1
  <2> QED BY <1>6, <1>10, <2>2, <2>3, <2>4, <2>5, <2>6 DEF Places
<1>13. Cursor(p, R)'
  BY <1>5 DEF Cursor
<1>14. \A n \in Nodes : left[n] \in Nat /\ due[n] \in Int /\ expiries[n] \in Nat
  BY DEF Base, TypeOK
<1>15. ASSUME NEW k \in 1 .. m
       PROVE /\ key[L[k]] \in Keys
             /\ left[L[k]] <= due[L[k]] + 1 /\ due[L[k]] - left[L[k]] <= expiries[L[k]]
             /\ k = i => due[L[k]] + 1 <= expiries[L[k]]
  <2>1. PICK n \in Nodes : n = L[k]
    BY <1>0
  <2>2. key[n] \in Keys /\ LET v == IF Ahead(L, k) THEN 1 ELSE 0
                           IN left[n] <= due[n] + v /\ (due[n] + v) - left[n] <= expiries[n]
    BY <2>1 DEF Lists, Times
  <2>3. left[n] <= due[n] + 1 /\ due[n] - left[n] <= expiries[n]
    BY <1>14, <2>2
  <2>4. k = i => due[n] + 1 <= expiries[n]
    <3>1. k = i => Ahead(L, k) /\ left[n] = 0
      <4>1. i \in 1 .. i
        BY <1>0
      <4> QED BY <1>1, <1>2, <2>1, <4>1 DEF Ahead
    <3> QED BY <1>14, <2>2, <3>1
  <2> QED BY <2>1, <2>2, <2>3, <2>4
<1>16. Times(p, R)'
  <2> SUFFICES ASSUME NEW q \in 1 .. p
               PROVE  LET n == R[q]
                          v == IF Ahead(R, q)' THEN 1 ELSE 0
                      IN key'[n] \in Keys /\ left'[n] <= due'[n] + v /\ (due'[n] + v) - left'[n] <= expiries'[n]
    BY DEF Times
  <2>1. PICK k \in 1 .. m : R[q] = L[k] /\ k # i
    BY <1>0, <1>4, <1>6
  <2>2. PICK n \in Nodes : n = L[k] /\ n = R[q] /\ n # cur
    BY <1>0, <1>2, <2>1
  <2>3. Ahead(R, q)'
    BY <1>5 DEF Ahead
  <2>4. n \in OnChain(job)
    <3>1. On(n, m, L) /\ Linked(next, job, m, L)
      BY <2>2 DEF On, Lists, Places
    <3> QED BY <3>1, ChainIs
  <2>5. expiries'[n] = expiries[n] + 1
    BY <1>5, <2>2, <2>4
  <2>6. key[n] \in Keys /\ left[n] <= due[n] + 1 /\ due[n] - left[n] <= expiries[n]
    BY <1>15, <2>2
  <2>7. left[n] <= due[n] + 1 /\ (due[n] + 1) - left[n] <= expiries[n] + 1
    BY <1>14, <2>6
  <2> QED BY <1>5, <2>2, <2>3, <2>5, <2>6, <2>7
<1>17. Hand'
  <2>1. key[cur] \in Keys /\ due[cur] + 1 <= expiries[cur]
    BY <1>2, <1>15
  <2>2. expiries'[cur] = expiries[cur]
    BY <1>3, <1>5
  <2>3. \A c \in Clients : unlinked[c] = Null
    BY <1>1 DEF Base, Hand
  <2> QED BY <1>3, <1>5, <2>1, <2>2, <2>3 DEF Hand
<1>18. TypeOK'
  <2>1. next[cur] \in Nodes \cup {Null} /\ next' \in [Nodes -> Nodes \cup {Null}]
    BY <1>3, <1>5 DEF Base, TypeOK
  <2>2. job' \in Nodes \cup {Null} /\ prev' \in Nodes \cup {Null}
    BY <1>5, <2>1 DEF Base, TypeOK
  <2>3. tail' \in Nodes \cup {Null}
    BY <1>5, <2>2 DEF Base, TypeOK
  <2>4. expiries' \in [Nodes -> Nat]
    BY <1>5 DEF Base, TypeOK
  <2> QED BY <1>5, <1>9, <2>1, <2>2, <2>3, <2>4 DEF Base, TypeOK
<1> QED BY <1>9, <1>12, <1>13, <1>16, <1>17, <1>18 DEF Base, Lists

\* A node that is freed goes from the hand that held it to the head of the free list.
LEMMA FreedPlaces ==
  ASSUME Base, NEW m, NEW L, NEW o, NEW F, Places(m, L, o, F), NEW n \in Nodes, n \in InHand, Free(n),
         UNCHANGED <<job, tail, alloc>>, InHand' = InHand \ {n}
  PROVE  /\ Places(m, L, o + 1, InFront(o, F, n))'
         /\ next' \in [Nodes -> Nodes \cup {Null}] /\ freelist' \in Nodes /\ freesize' \in Nat
         /\ key' \in [Nodes -> Keys \cup {Null}] /\ timecon' \in [Nodes -> Cons \cup {ConstId, NoCon}]
         /\ \A x \in Nodes \ {n} : key'[x] = key[x]
<1>0. /\ next' = [next EXCEPT ![n] = freelist] /\ freelist' = n /\ freesize' = freesize + 1
      /\ key' = [key EXCEPT ![n] = Null] /\ timecon' = [timecon EXCEPT ![n] = NoCon]
  BY DEF Free
<1>1. /\ Linked(next, job, m, L) /\ Linked(next, freelist, o, F) /\ tail = NodeAt(m, L, m) /\ freesize = o
      /\ \A x \in Nodes : On(x, m, L) => ~On(x, o, F) /\ x \notin InHand
      /\ \A x \in Nodes : On(x, o, F) => x \notin InHand
      /\ \A x \in Nodes : x \in alloc <=> On(x, m, L) \/ On(x, o, F) \/ x \in InHand
  BY DEF Places
<1>2. ~On(n, m, L) /\ ~On(n, o, F)
  BY <1>1
<1>3. \A x \in Nodes \ {n} : next'[x] = next[x]
  BY <1>0 DEF Base, TypeOK
<1>4. (\A i \in 1 .. m : L[i] \in Nodes /\ L[i] # n) /\ \A i \in 1 .. o : F[i] \in Nodes /\ F[i] # n
  BY <1>1, <1>2 DEF Linked, On
<1>5. Linked(next', job', m, L)
  BY <1>1, <1>3, <1>4, SameList
<1>6. PICK q, G : q = o + 1 /\ G = InFront(o, F, n)
  OBVIOUS
<1>7. Linked(next', freelist', q, G) /\ \A x : On(x, q, G) <=> On(x, o, F) \/ x = n
  <2>1. next'[n] = freelist
    BY <1>0 DEF Base, TypeOK
  <2>2. PICK ny : ny = next'
    OBVIOUS
  <2>3. ny[n] = freelist /\ \A i \in 1 .. o : ny[F[i]] = next[F[i]]
    BY <1>3, <1>4, <2>1, <2>2
  <2>4. /\ Linked(ny, n, o + 1, InFront(o, F, n))
        /\ \A x : On(x, o + 1, InFront(o, F, n)) <=> On(x, o, F) \/ x = n
    BY <1>1, <1>2, <2>3, PushedList
  <2> QED BY <1>0, <1>6, <2>2, <2>4
<1>8. tail' = NodeAt(m, L, m) /\ freesize' = q
  BY <1>0, <1>1, <1>6
<1>9. /\ \A x \in Nodes : On(x, m, L) => ~On(x, q, G) /\ x \notin InHand'
      /\ \A x \in Nodes : On(x, q, G) => x \notin InHand'
      /\ \A x \in Nodes : x \in alloc' <=> On(x, m, L) \/ On(x, q, G) \/ x \in InHand'
  BY <1>1, <1>2, <1>7
<1>10. Places(m, L, q, G)'
  BY <1>5, <1>7, <1>8, <1>9 DEF Places
<1> QED BY <1>0, <1>6, <1>10 DEF Base, TypeOK

\* The timer that was run is freed, and the sweep starts over.
LEMMA FreeStep ==
  ASSUME DeleteAnywhere = FALSE, Base, NEW m, NEW L, NEW o, NEW F, Lists(m, L, o, F), FireFree
  PROVE  Base' /\ \E p, G : Lists(m, L, p, G)'
<1>0. /\ wpc \in {"call", "skip"} /\ wpc' = "walk" /\ cur' = job /\ Free(cur) /\ Forget(cur)
      /\ (\A c \in Clients : unlinked[c] = Null)
      /\ UNCHANGED <<left, job, tail, alloc, prev, container, run, unlinked, calls, fault>>
  BY DEF FireFree, Resume
<1>1. /\ m \in Nat /\ L \in [1 .. m -> Nodes] /\ Null \notin Nodes
      /\ m = 0 <=> job = Null
      /\ m # 0 => job = L[1] /\ 1 \in 1 .. m
  BY ListEnds DEF Lists
<1>2. cur \in Nodes /\ InHand = {cur} /\ InHand' = {}
  <2>1. cur \in Nodes
    BY <1>0 DEF Base, Hand
  <2> QED BY <1>0, <1>1, <2>1 DEF InHand
<1>a. PICK z \in Nodes : z = cur
  BY <1>2
<1>3. /\ Places(m, L, o + 1, InFront(o, F, z))'
      /\ next' \in [Nodes -> Nodes \cup {Null}] /\ freelist' \in Nodes /\ freesize' \in Nat
      /\ key' \in [Nodes -> Keys \cup {Null}] /\ timecon' \in [Nodes -> Cons \cup {ConstId, NoCon}]
      /\ \A x \in Nodes \ {z} : key'[x] = key[x]
  <2>1. z \in InHand /\ Free(z) /\ InHand' = InHand \ {z} /\ UNCHANGED <<job, tail, alloc>>
    BY <1>0, <1>2, <1>a
  <2> QED BY <2>1, FreedPlaces DEF Lists
<1>4. due' = [due EXCEPT ![cur] = 0] /\ expiries' = [expiries EXCEPT ![cur] = 0]
  BY <1>0 DEF Forget
<1>5. PICK p, G : Places(m, L, p, G)'
  BY <1>3
<1>6. Cursor(m, L)'
  BY <1>0, <1>1 DEF Cursor
<1>7. Times(m, L)'
  <2> SUFFICES ASSUME NEW i \in 1 .. m
               PROVE  LET n == L[i]
                          v == IF Ahead(L, i)' THEN 1 ELSE 0
                      IN key'[n] \in Keys /\ left'[n] <= due'[n] + v /\ (due'[n] + v) - left'[n] <= expiries'[n]
    BY DEF Times
  <2>1. PICK n \in Nodes : n = L[i] /\ n # cur
    <3>1. On(L[i], m, L) /\ L[i] \in Nodes
      BY <1>1 DEF On
    <3> QED BY <1>2, <3>1 DEF Lists, Places
  <2>2. Ahead(L, i)
    BY <1>0 DEF Ahead
  <2>3. Ahead(L, i)'
    <3>1. 1 \in 1 .. i /\ m # 0
      BY <1>1
    <3> QED BY <1>0, <1>1, <3>1 DEF Ahead
  <2>4. key[n] \in Keys /\ left[n] <= due[n] + 1 /\ (due[n] + 1) - left[n] <= expiries[n]
    BY <2>1, <2>2 DEF Lists, Times
  <2>5. key'[n] = key[n] /\ due'[n] = due[n] /\ expiries'[n] = expiries[n]
    BY <1>3, <1>4, <1>a, <2>1 DEF Base, TypeOK
  <2> QED BY <1>0, <2>1, <2>3, <2>4, <2>5
<1>8. TypeOK'
  <2>1. due \in [Nodes -> Int] /\ expiries \in [Nodes -> Nat]
    BY DEF Base, TypeOK
  <2>2. due' \in [Nodes -> Int] /\ expiries' \in [Nodes -> Nat]
    BY <1>2, <1>4, <2>1
  <2> QED BY <1>0, <1>3, <2>2, <2>1 DEF Base, TypeOK
<1>9. Hand'
  BY <1>0 DEF Hand
<1> QED BY <1>0, <1>5, <1>6, <1>7, <1>8, <1>9 DEF Base, Lists

\* The thread frees both lists and leaves.
LEMMA ExitStep ==
  ASSUME Base, NEW m, NEW L, NEW o, NEW F, Lists(m, L, o, F), Exit
  PROVE  Base' /\ \E p, R, q, G : Lists(p, R, q, G)'
<1>0. /\ wpc = "sleep" /\ ~run /\ wpc' = "freed" /\ alloc' = alloc \ (OnChain(job) \cup OnChain(freelist))
      /\ job' = Null /\ tail' = Null /\ freelist' = Null /\ freesize' = 0
      /\ UNCHANGED <<nodeVars, cur, prev, container, run, unlinked, calls, fault>>
  BY DEF Exit, Running
<1>1. \A c \in Clients : unlinked[c] = Null
  BY <1>0 DEF Base, Hand
<1>2. InHand = {} /\ InHand' = {}
  <2>1. Null \notin Nodes
    BY TimerAssumption
  <2> QED BY <1>0, <1>1, <2>1 DEF InHand
<1>3. alloc' = {}
  <2>1. Linked(next, job, m, L) /\ Linked(next, freelist, o, F)
        /\ (\A n \in Nodes : n \in alloc <=> On(n, m, L) \/ On(n, o, F))
    BY <1>2 DEF Lists, Places
  <2>2. \A n : n \in OnChain(job) <=> On(n, m, L)
    BY <2>1, ChainIs
  <2>3. \A n : n \in OnChain(freelist) <=> On(n, o, F)
    BY <2>1, ChainIs
  <2>4. alloc \subseteq Nodes
    BY DEF Base, TypeOK
  <2> QED BY <1>0, <2>1, <2>2, <2>3, <2>4
<1>4. PICK p, R : p = 0 /\ R \in [1 .. p -> Nodes]
  <2>1. [i \in 1 .. 0 |-> CHOOSE n \in Nodes : TRUE] \in [1 .. 0 -> Nodes]
    OBVIOUS
  <2> QED BY <2>1
<1>5. p \in Nat /\ p = 0 /\ (\A i : i \notin 1 .. p) /\ R \in [1 .. p -> Nodes] /\ NodeAt(p, R, 1) = Null /\ NodeAt(p, R, p) = Null
  BY <1>4 DEF NodeAt
<1>6. (\A n : ~On(n, p, R)) /\ Linked(next', job', p, R) /\ Linked(next', freelist', p, R)
  BY <1>0, <1>5 DEF On, Linked
<1>7. Places(p, R, p, R)'
  BY <1>0, <1>2, <1>3, <1>5, <1>6 DEF Places
<1>8. Cursor(p, R)' /\ Times(p, R)'
  BY <1>0, <1>5 DEF Cursor, Times
<1>9. TypeOK'
  BY <1>0, <1>3 DEF Base, TypeOK, nodeVars
<1>10. Hand'
  BY <1>0, <1>1 DEF Hand
<1> QED BY <1>0, <1>7, <1>8, <1>9, <1>10 DEF Base, Lists

-----------------------------------------------------------------------------
(* What callers do to the lists.                                           *)

\* zcrt_timer_delete frees the timer it has unlinked.
LEMMA DeleteFreeStep ==
  ASSUME Base, NEW m, NEW L, NEW o, NEW F, Lists(m, L, o, F), NEW c \in Clients, DeleteFree(c)
  PROVE  Base' /\ \E p, G : Lists(m, L, p, G)'
<1>0. /\ unlinked[c] # Null /\ Free(unlinked[c]) /\ Forget(unlinked[c])
      /\ unlinked' = [unlinked EXCEPT ![c] = Null]
      /\ UNCHANGED <<left, job, tail, alloc, thrVars, container, run, calls, fault>>
  BY DEF DeleteFree
<1>1. /\ m \in Nat /\ L \in [1 .. m -> Nodes] /\ Null \notin Nodes
  BY ListEnds DEF Lists
<1>2. PICK n \in Nodes : n = unlinked[c]
  BY <1>0 DEF Base, TypeOK
<1>3. /\ wpc = "call" /\ n # cur /\ unlinked'[c] = Null
      /\ \A d \in Clients : d # c => unlinked'[d] = unlinked[d] /\ unlinked[d] # n
      /\ UNCHANGED <<wpc, cur, prev>>
  BY <1>0, <1>2 DEF Base, Hand, TypeOK, thrVars
<1>4. n \in InHand /\ InHand' = InHand \ {n}
  <2>1. n \in InHand
    BY <1>2 DEF InHand
  <2>2. ASSUME NEW x \in Nodes PROVE (\E d \in Clients : unlinked'[d] = x) <=> (\E d \in Clients : unlinked[d] = x) /\ x # n
    BY <1>1, <1>2, <1>3
  <2> QED BY <1>3, <2>1, <2>2 DEF InHand
<1>5. /\ Places(m, L, o + 1, InFront(o, F, n))'
      /\ next' \in [Nodes -> Nodes \cup {Null}] /\ freelist' \in Nodes /\ freesize' \in Nat
      /\ key' \in [Nodes -> Keys \cup {Null}] /\ timecon' \in [Nodes -> Cons \cup {ConstId, NoCon}]
      /\ \A x \in Nodes \ {n} : key'[x] = key[x]
  <2>1. Free(n) /\ UNCHANGED <<job, tail, alloc>>
    BY <1>0, <1>2
  <2> QED BY <1>4, <2>1, FreedPlaces DEF Lists
<1>6. PICK p, G : Places(m, L, p, G)'
  BY <1>5
<1>7. due' = [due EXCEPT ![n] = 0] /\ expiries' = [expiries EXCEPT ![n] = 0]
  BY <1>0, <1>2 DEF Forget
<1>8. \A x \in Nodes \ {n} : due'[x] = due[x] /\ expiries'[x] = expiries[x]
  BY <1>7 DEF Base, TypeOK
<1>9. Cursor(m, L)'
  BY <1>3 DEF Cursor
<1>10. Times(m, L)'
  <2>1. \A i \in 1 .. m : L[i] \in Nodes \ {n}
    <3>1. \A i \in 1 .. m : On(L[i], m, L) /\ L[i] \in Nodes
      BY <1>1 DEF On
    <3> QED BY <1>4, <3>1 DEF Lists, Places
  <2>2. \A i \in 1 .. m : Ahead(L, i)' <=> Ahead(L, i)
    BY <1>3 DEF Ahead
  <2>3. \A i \in 1 .. m : key'[L[i]] = key[L[i]] /\ left'[L[i]] = left[L[i]] /\ due'[L[i]] = due[L[i]] /\ expiries'[L[i]] = expiries[L[i]]
    BY <1>0, <1>5, <1>8, <2>1
  <2> QED BY <2>2, <2>3 DEF Lists, Times
<1>11. TypeOK'
  <2>1. due' \in [Nodes -> Int] /\ expiries' \in [Nodes -> Nat] /\ unlinked' \in [Clients -> Nodes \cup {Null}]
    BY <1>0, <1>7 DEF Base, TypeOK
  <2> QED BY <1>0, <1>5, <2>1 DEF Base, TypeOK, thrVars
<1>12. Hand'
  <2>1. cur \in Nodes /\ due'[cur] + 1 <= expiries'[cur]
    BY <1>3, <1>8 DEF Base, Hand
  <2>2. \A d \in Clients : unlinked'[d] # Null => unlinked'[d] # cur
    BY <1>3 DEF Base, Hand
  <2>3. \A d, b \in Clients : d # b /\ unlinked'[d] # Null => unlinked'[d] # unlinked'[b]
    <3> SUFFICES ASSUME NEW d \in Clients, NEW b \in Clients, d # b, unlinked'[d] # Null PROVE unlinked'[d] # unlinked'[b]
      OBVIOUS
    <3>1. d # c /\ unlinked'[d] = unlinked[d]
      BY <1>3
    <3>2. CASE b = c
      BY <1>3, <3>2
    <3>3. CASE b # c
      BY <1>3, <3>1, <3>3 DEF Base, Hand
    <3> QED BY <3>2, <3>3
  <2> QED BY <1>3, <2>1, <2>2, <2>3 DEF Hand
<1> QED BY <1>0, <1>6, <1>9, <1>10, <1>11, <1>12 DEF Base, Lists

\* The first node with the key sought is the one the walk finds.
LEMMA MatchIs ==
  ASSUME NEW m, NEW L, Linked(next, job, m, L), NEW k, NEW j \in MatchAt(k)
  PROVE  \E i \in 1 .. m : /\ i = j + 1 /\ j \in Nat /\ Chain(job)[j] = L[i]
                           /\ i # 1 => i - 1 \in 1 .. m /\ Chain(job)[j - 1] = L[i - 1]
<1>0. /\ DOMAIN Chain(job) = 0 .. Cardinality(Nodes) /\ m \in Nat
      /\ \A x \in 0 .. Cardinality(Nodes) : Chain(job)[x] = NodeAt(m, L, x + 1)
      /\ m <= Cardinality(Nodes) /\ Cardinality(Nodes) \in Nat
  <2>1. m \in Nat
    BY DEF Linked
  <2> QED BY <2>1, ChainIs
<1>1. j \in 0 .. Cardinality(Nodes) /\ Chain(job)[j] # Null
  BY <1>0 DEF MatchAt
<1>2. PICK i \in Nat : i = j + 1
  BY <1>0, <1>1
<1>3. Chain(job)[j] = NodeAt(m, L, i)
  BY <1>0, <1>1, <1>2
<1>4. i \in 1 .. m /\ Chain(job)[j] = L[i]
  BY <1>1, <1>3 DEF NodeAt
<1>5. ASSUME i # 1 PROVE i - 1 \in 1 .. m /\ Chain(job)[j - 1] = L[i - 1]
  <2>1. j - 1 \in 0 .. Cardinality(Nodes) /\ (j - 1) + 1 = i - 1 /\ i - 1 \in 1 .. m
    BY <1>0, <1>1, <1>2, <1>4, <1>5
  <2> QED BY <1>0, <2>1 DEF NodeAt
<1> QED BY <1>1, <1>2, <1>4, <1>5

\* zcrt_timer_delete, called by a callback, unlinks a timer.
LEMMA DeleteUnlinkStep ==
  ASSUME DeleteAnywhere = FALSE, Base, NEW m, NEW L, NEW o, NEW F, Lists(m, L, o, F), NEW c \in Clients,
         NEW k, DeleteUnlink(c, k)
  PROVE  Base' /\ \E p, R : Lists(p, R, o, F)'
<1>0. /\ m \in Nat /\ L \in [1 .. m -> Nodes] /\ Null \notin Nodes
      /\ \A i, x \in 1 .. m : L[i] = L[x] => i = x
      /\ \A i \in 1 .. m : next[L[i]] = NodeAt(m, L, i + 1)
      /\ m # 0 => job = L[1] /\ tail = L[m] /\ 1 \in 1 .. m /\ m \in 1 .. m
  BY ListEnds DEF Lists
<1>1. wpc = "call" /\ unlinked[c] = Null /\ calls < MaxCalls /\ calls' = calls + 1
      /\ UNCHANGED <<left, key, timecon, due, expiries, freelist, freesize, alloc, thrVars, container, run>>
  BY DEF DeleteUnlink, MayDelete, MayCall, Called
<1>2. PICK j \in MatchAt(k) :
        /\ unlinked' = [unlinked EXCEPT ![c] = Chain(job)[j]]
        /\ tail' = DeleteTail(j)
        /\ IF j = 0
             THEN job' = next[Chain(job)[j]] /\ UNCHANGED next
             ELSE next' = [next EXCEPT ![Chain(job)[j - 1]] = next[Chain(job)[j]]] /\ UNCHANGED job
        /\ fault' = IF j > 0 /\ tail = Chain(job)[j] /\ next[Chain(job)[j]] # Null THEN "assert" ELSE fault
  BY DEF DeleteUnlink
<1>3. PICK i \in 1 .. m : /\ i = j + 1 /\ j \in Nat /\ Chain(job)[j] = L[i]
                          /\ i # 1 => i - 1 \in 1 .. m /\ Chain(job)[j - 1] = L[i - 1]
  BY MatchIs DEF Lists, Places
<1>4. PICK n \in Nodes : n = L[i]
  BY <1>0
<1>5. /\ unlinked' = [unlinked EXCEPT ![c] = n]
      /\ job' = IF i = 1 THEN next[n] ELSE job
      /\ next' = IF i = 1 THEN next ELSE [next EXCEPT ![L[i - 1]] = next[n]]
      /\ fault' = IF i # 1 /\ tail = n /\ next[n] # Null THEN "assert" ELSE fault
      /\ tail' = IF i = 1 THEN (IF next[n] = Null THEN Null ELSE tail) ELSE IF tail = n THEN L[i - 1] ELSE tail
  <2>1. (j = 0 <=> i = 1) /\ (j > 0 <=> i # 1) /\ Chain(job)[j] = n /\ (i # 1 => Chain(job)[j - 1] = L[i - 1])
    <3>1. j \in Nat /\ i = j + 1
      BY <1>3
    <3>2. (j = 0 <=> i = 1) /\ (j > 0 <=> i # 1)
      BY <3>1
    <3> QED BY <1>3, <1>4, <3>2
  <2>2. unlinked' = [unlinked EXCEPT ![c] = n] /\ fault' = IF i # 1 /\ tail = n /\ next[n] # Null THEN "assert" ELSE fault
    BY <1>2, <2>1
  <2>3. job' = IF i = 1 THEN next[n] ELSE job
    BY <1>2, <2>1
  <2>4. next' = IF i = 1 THEN next ELSE [next EXCEPT ![L[i - 1]] = next[n]]
    BY <1>2, <2>1
  <2>5. tail' = IF i = 1 THEN (IF next[n] = Null THEN Null ELSE tail) ELSE IF tail = n THEN L[i - 1] ELSE tail
    BY <1>2, <2>1 DEF DeleteTail
  <2> QED BY <2>2, <2>3, <2>4, <2>5
<1>6. /\ m # 0 /\ job = L[1] /\ tail = L[m] /\ (tail = n <=> i = m)
      /\ i # 1 => i - 1 \in 1 .. m /\ L[i - 1] \in Nodes
  BY <1>0, <1>4
<1>7. PICK p, R : p = m - 1 /\ R = Without(m, L, i)
  OBVIOUS
<1>8. /\ Linked(next', job', p, R)
      /\ \A x : On(x, p, R) <=> On(x, m, L) /\ x # n
      /\ \A x \in 1 .. p : R[x] = IF x < i THEN L[x] ELSE L[x + 1]
  <2>1. Linked(next, job, m, L) /\ next \in [Nodes -> Nodes \cup {Null}]
    BY DEF Lists, Places, Base, TypeOK
  <2>2. /\ Linked(NextWithout(next, L, i), HeadWithout(next, job, L, i), m - 1, Without(m, L, i))
        /\ \A x : On(x, m - 1, Without(m, L, i)) <=> On(x, m, L) /\ x # L[i]
    BY <2>1, RemovedList
  <2>3. next' = NextWithout(next, L, i) /\ job' = HeadWithout(next, job, L, i)
    BY <1>4, <1>5 DEF NextWithout, HeadWithout
  <2>4. \A x \in 1 .. p : R[x] = IF x < i THEN L[x] ELSE L[x + 1]
    BY <1>7 DEF Without
  <2> QED BY <1>4, <1>7, <2>2, <2>3, <2>4
<1>9. next[n] = NodeAt(m, L, i + 1) /\ (next[n] = Null <=> i = m)
  <2>1. next[n] = NodeAt(m, L, i + 1)
    BY <1>0, <1>4
  <2>2. i # m => i + 1 \in 1 .. m /\ L[i + 1] # Null
    BY <1>0
  <2>3. i = m => i + 1 \notin 1 .. m
    BY <1>0
  <2> QED BY <2>1, <2>2, <2>3 DEF NodeAt
<1>10. fault' = "none"
  BY <1>5, <1>6, <1>9 DEF Base
<1>11. tail' = NodeAt(p, R, p)
  <2>1. NodeAt(p, R, p) = IF i = m THEN NodeAt(m, L, m - 1) ELSE L[m]
    BY <1>0, <1>7, RemovedLast
  <2>2. CASE i # m
    BY <1>5, <1>6, <1>9, <2>1, <2>2
  <2>3. CASE i = m /\ i = 1
    BY <1>5, <1>9, <2>1, <2>3 DEF NodeAt
  <2>4. CASE i = m /\ i # 1
    BY <1>5, <1>6, <2>1, <2>4 DEF NodeAt
  <2> QED BY <2>2, <2>3, <2>4
<1>12. On(n, m, L) /\ ~On(n, o, F) /\ n \notin InHand
  <2>1. On(n, m, L)
    BY <1>4 DEF On
  <2> QED BY <2>1 DEF Lists, Places
<1>13. /\ UNCHANGED <<wpc, cur, prev>>
       /\ unlinked'[c] = n /\ \A d \in Clients : d # c => unlinked'[d] = unlinked[d]
  BY <1>1, <1>5 DEF Base, TypeOK, thrVars
<1>14. \A x \in Nodes : x \in InHand' <=> x \in InHand \/ x = n
  <2>1. \A x \in Nodes : (\E d \in Clients : unlinked'[d] = x) <=> (\E d \in Clients : unlinked[d] = x) \/ x = n
    BY <1>0, <1>1, <1>13
  <2> QED BY <1>13, <2>1 DEF InHand
<1>15. Places(p, R, o, F)'
  <2>1. Linked(next, freelist, o, F) /\ freesize = o
        /\ (\A x \in Nodes : On(x, m, L) => ~On(x, o, F) /\ x \notin InHand)
        /\ (\A x \in Nodes : On(x, o, F) => x \notin InHand)
        /\ \A x \in Nodes : x \in alloc <=> On(x, m, L) \/ On(x, o, F) \/ x \in InHand
    BY DEF Lists, Places
  <2>2. Linked(next', freelist', o, F)
    <3>1. \A x \in 1 .. o : F[x] \in Nodes /\ On(F[x], o, F)
      BY <2>1 DEF Linked, On
    <3>2. i # 1 => On(L[i - 1], m, L)
      BY <1>6 DEF On
    <3>3. \A x \in 1 .. o : i # 1 => F[x] # L[i - 1]
      BY <2>1, <3>1, <3>2
    <3>4. \A x \in 1 .. o : next'[F[x]] = next[F[x]]
      BY <1>5, <1>6, <3>1, <3>3 DEF Base, TypeOK
    <3> QED BY <1>1, <2>1, <3>4, SameList
  <2>3. \A x \in Nodes : On(x, p, R) => ~On(x, o, F) /\ x \notin InHand'
    BY <1>8, <1>14, <2>1
  <2>4. \A x \in Nodes : On(x, o, F) => x \notin InHand'
    BY <1>12, <1>14, <2>1
  <2>5. \A x \in Nodes : x \in alloc' <=> On(x, p, R) \/ On(x, o, F) \/ x \in InHand'
    BY <1>1, <1>8, <1>12, <1>14, <2>1
  <2>6. freesize' = o
    BY <1>1, <2>1
  <2> QED BY <1>8, <1>11, <2>2, <2>3, <2>4, <2>5, <2>6 DEF Places
<1>16. Cursor(p, R)'
  BY <1>1, <1>13 DEF Cursor
<1>17. Times(p, R)'
  <2>1. \A x \in 1 .. p : \E y \in 1 .. m : R[x] = L[y]
    BY <1>0, <1>7, <1>8
  <2>2. (\A x : Ahead(R, x)') /\ \A y : Ahead(L, y)
    BY <1>1, <1>13 DEF Ahead
  <2> QED BY <1>1, <2>1, <2>2 DEF Lists, Times
<1>18. Hand'
  <2>1. n # cur /\ cur \in Nodes /\ due'[cur] + 1 <= expiries'[cur]
    <3>1. cur \in Nodes /\ due[cur] + 1 <= expiries[cur]
      BY <1>1 DEF Base, Hand
    <3>2. cur \in InHand
      BY <1>1, <3>1 DEF InHand
    <3> QED BY <1>1, <1>12, <3>1, <3>2
  <2>2. \A d \in Clients : unlinked'[d] # Null => unlinked'[d] # cur
    BY <1>13, <2>1 DEF Base, Hand
  <2>3. \A d \in Clients : unlinked[d] # n
    BY <1>12 DEF InHand
  <2>4. \A d, b \in Clients : d # b /\ unlinked'[d] # Null => unlinked'[d] # unlinked'[b]
    <3> SUFFICES ASSUME NEW d \in Clients, NEW b \in Clients, d # b, unlinked'[d] # Null PROVE unlinked'[d] # unlinked'[b]
      OBVIOUS
    <3>1. CASE d = c
      BY <1>13, <2>3, <3>1
    <3>2. CASE b = c
      BY <1>13, <2>3, <3>2
    <3>3. CASE d # c /\ b # c
      BY <1>13, <3>3 DEF Base, Hand
    <3> QED BY <3>1, <3>2, <3>3
  <2> QED BY <1>1, <1>13, <2>1, <2>2, <2>4 DEF Hand
<1>19. TypeOK'
  <2>1. next[n] \in Nodes \cup {Null} /\ next' \in [Nodes -> Nodes \cup {Null}]
    BY <1>5, <1>6 DEF Base, TypeOK
  <2>2. job' \in Nodes \cup {Null} /\ tail' \in Nodes \cup {Null}
    BY <1>5, <1>6, <2>1 DEF Base, TypeOK
  <2>3. unlinked' \in [Clients -> Nodes \cup {Null}]
    BY <1>5 DEF Base, TypeOK
  <2>4. calls' \in 0 .. MaxCalls
    BY <1>1, TimerAssumption DEF Base, TypeOK
  <2> QED BY <1>1, <1>10, <1>13, <2>1, <2>2, <2>3, <2>4 DEF Base, TypeOK
<1> QED BY <1>10, <1>15, <1>16, <1>17, <1>18, <1>19 DEF Base, Lists

\* A timer is added behind the last one.
LEMMA AddStep ==
  ASSUME Base, NEW m, NEW L, NEW o, NEW F, Lists(m, L, o, F), NEW c \in Clients, NEW r \in Periods, NEW k \in Keys,
         NEW id \in Cons \cup {ConstId}, NEW con \in Cons \cup {ConstId, NoCon}, AddNode(c, r, k, id, con)
  PROVE  Base' /\ \E p, R, q, G : Lists(p, R, q, G)'
<1>0. /\ m \in Nat /\ L \in [1 .. m -> Nodes] /\ Null \notin Nodes
      /\ m = 0 <=> job = Null
      /\ m = 0 <=> tail = Null
      /\ m # 0 => tail = L[m] /\ m \in 1 .. m
      /\ \A i, x \in 1 .. m : L[i] = L[x] => i = x
  BY ListEnds DEF Lists
<1>1. PICK n : n = NewNode /\ Malloc(n)
  BY DEF AddNode
<1>2. /\ (run \/ wpc = "call") /\ calls < MaxCalls /\ calls' = calls + 1 /\ Insert(n)
      /\ left' = [left EXCEPT ![n] = r] /\ key' = [key EXCEPT ![n] = k] /\ timecon' = [timecon EXCEPT ![n] = con]
      /\ due' = [due EXCEPT ![n] = IF StillToVisit THEN r - 1 ELSE r]
      /\ expiries' = [expiries EXCEPT ![n] = 0]
      /\ UNCHANGED <<thrVars, container, run, unlinked>>
  BY <1>1 DEF AddNode, MayCall, Called
<1>3. /\ n \in Nodes /\ ~On(n, m, L) /\ n \notin InHand /\ alloc' = alloc \cup {n}
      /\ \E q, G : /\ Linked(next, freelist', q, G) /\ freesize' = q
                   /\ \A x \in Nodes : On(x, q, G) => On(x, o, F) /\ x # n
                   /\ \A x \in Nodes : On(x, o, F) => On(x, q, G) \/ x = n
  BY <1>1, NewNodeIs DEF Lists
<1>4. PICK q, G : /\ Linked(next, freelist', q, G) /\ freesize' = q
                  /\ \A x \in Nodes : On(x, q, G) => On(x, o, F) /\ x # n
                  /\ \A x \in Nodes : On(x, o, F) => On(x, q, G) \/ x = n
  BY <1>3
<1>5. /\ next' = [x \in Nodes |-> IF x = n THEN Null ELSE IF x = tail THEN n ELSE next[x]]
      /\ job' = (IF m = 0 THEN n ELSE job) /\ tail' = n /\ fault' = "none"
  <2>1. ~((job = Null) # (tail = Null)) /\ (job = Null <=> m = 0)
    BY <1>0
  <2> QED BY <1>2, <2>1 DEF Insert, Base
<1>6. UNCHANGED <<wpc, cur, prev, unlinked>> /\ InHand' = InHand
  BY <1>2 DEF thrVars, InHand
<1>7. PICK p, R : p = m + 1 /\ R = Behind(m, L, n)
  OBVIOUS
<1>8. /\ Linked(next', job', p, R)
      /\ \A x : On(x, p, R) <=> On(x, m, L) \/ x = n
      /\ (\A i \in 1 .. m : R[i] = L[i]) /\ R[p] = n
  <2>1. PICK ny, g : ny = next' /\ g = job'
    OBVIOUS
  <2>2. \A i \in 1 .. m : L[i] # n /\ L[i] \in Nodes /\ (L[i] = tail <=> i = m)
    <3>1. \A i \in 1 .. m : L[i] # n /\ L[i] \in Nodes /\ m # 0
      BY <1>0, <1>3 DEF On
    <3> QED BY <1>0, <3>1
  <2>3. /\ ny[n] = Null /\ \A i \in 1 .. m : i # m => ny[L[i]] = next[L[i]]
        /\ m # 0 => ny[L[m]] = n /\ g = job
        /\ m = 0 => g = n
    BY <1>0, <1>3, <1>5, <2>1, <2>2
  <2>4. Linked(next, job, m, L)
    BY DEF Lists, Places
  <2>5. /\ Linked(ny, g, m + 1, Behind(m, L, n))
        /\ \A x : On(x, m + 1, Behind(m, L, n)) <=> On(x, m, L) \/ x = n
    <3>1. n \in Nodes /\ ~On(n, m, L)
      BY <1>3
    <3>2. ny[n] = Null
      BY <2>3
    <3>3. \A i \in 1 .. m : i # m => ny[L[i]] = next[L[i]]
      BY <2>3
    <3>4. m # 0 => ny[L[m]] = n /\ g = job
      BY <2>3
    <3>5. m = 0 => g = n
      BY <2>3
    <3> QED BY <2>4, <3>1, <3>2, <3>3, <3>4, <3>5, AppendedList
  <2>6. (\A i \in 1 .. m : R[i] = L[i]) /\ R[p] = n
    BY <1>0, <1>7 DEF Behind
  <2> QED BY <1>7, <2>1, <2>5, <2>6
<1>9. Places(p, R, q, G)'
  <2>1. /\ \A x \in Nodes : On(x, m, L) => ~On(x, o, F) /\ x \notin InHand
        /\ \A x \in Nodes : On(x, o, F) => x \notin InHand
        /\ \A x \in Nodes : x \in alloc <=> On(x, m, L) \/ On(x, o, F) \/ x \in InHand
    BY DEF Lists, Places
  <2>2. Linked(next', freelist', q, G)
    <3>1. \A i \in 1 .. q : G[i] \in Nodes /\ On(G[i], q, G)
      BY <1>4 DEF Linked, On
    <3>2. tail # Null => On(tail, m, L) /\ tail \in Nodes
      BY <1>0 DEF On
    <3>3. \A i \in 1 .. q : G[i] # n /\ G[i] # tail
      BY <1>0, <1>4, <2>1, <3>1, <3>2
    <3>4. \A i \in 1 .. q : next'[G[i]] = next[G[i]]
      BY <1>5, <3>1, <3>3
    <3> QED BY <1>4, <3>4, SameList
  <2>3. tail' = NodeAt(p, R, p)
    BY <1>0, <1>5, <1>7, <1>8 DEF NodeAt
  <2>4. \A x \in Nodes : On(x, p, R) => ~On(x, q, G) /\ x \notin InHand'
    BY <1>3, <1>4, <1>6, <1>8, <2>1
  <2>5. \A x \in Nodes : On(x, q, G) => x \notin InHand'
    BY <1>4, <1>6, <2>1
  <2>6. \A x \in Nodes : x \in alloc' <=> On(x, p, R) \/ On(x, q, G) \/ x \in InHand'
    BY <1>3, <1>4, <1>6, <1>8, <2>1
  <2> QED BY <1>4, <1>8, <2>2, <2>3, <2>4, <2>5, <2>6 DEF Places
<1>10. \A x \in Nodes \ {n} : key'[x] = key[x] /\ left'[x] = left[x] /\ due'[x] = due[x] /\ expiries'[x] = expiries[x]
  BY <1>2 DEF Base, TypeOK
<1>11. \A i \in 1 .. p : i = p \/ (i \in 1 .. m /\ i - 1 \in 0 .. m)
  BY <1>0, <1>7
<1>12. Cursor(p, R)'
  <2> SUFFICES ASSUME wpc \in {"walk", "lock"}, cur # Null
               PROVE  \E i \in 1 .. p : cur = R[i] /\ (i = 1 \/ prev = R[i - 1])
    BY <1>6 DEF Cursor
  <2>1. PICK i \in 1 .. m : cur = L[i] /\ (i = 1 \/ prev = L[i - 1])
    BY DEF Lists, Cursor
  <2>2. i \in 1 .. p /\ (i # 1 => i - 1 \in 1 .. m)
    BY <1>0, <1>7
  <2> QED BY <1>8, <2>1, <2>2
<1>13. Times(p, R)'
  <2> SUFFICES ASSUME NEW i \in 1 .. p
               PROVE  LET x == R[i]
                          v == IF Ahead(R, i)' THEN 1 ELSE 0
                      IN key'[x] \in Keys /\ left'[x] <= due'[x] + v /\ (due'[x] + v) - left'[x] <= expiries'[x]
    BY DEF Times
  <2>1. CASE i = p
    <3>1. key'[n] = k /\ left'[n] = r /\ due'[n] = (IF StillToVisit THEN r - 1 ELSE r) /\ expiries'[n] = 0
      BY <1>2, <1>3 DEF Base, TypeOK
    <3>2. r \in Nat
      BY TimerAssumption
    <3>3. Ahead(R, i)' <=> StillToVisit
      <4>1. wpc # "freed" /\ wpc \in {"sleep", "walk", "lock", "unlinked", "call", "skip", "freed"}
            /\ (wpc = "lock" => cur # Null)
        BY <1>2 DEF Base, Hand, TypeOK
      <4>2. CASE wpc \in {"walk", "lock"} /\ cur # Null
        <5>1. PICK j \in 1 .. m : cur = L[j]
          BY <4>2 DEF Lists, Cursor
        <5>2. j \in 1 .. i /\ R[j] = cur
          BY <1>0, <1>7, <1>8, <2>1, <5>1
        <5> QED BY <1>6, <4>2, <5>2 DEF Ahead, StillToVisit
      <4>3. CASE wpc = "walk" /\ cur = Null
        <5>1. \A j \in 1 .. i : R[j] \in Nodes
          BY <1>8, <2>1 DEF Linked
        <5> QED BY <1>0, <1>6, <4>3, <5>1 DEF Ahead, StillToVisit
      <4>4. CASE wpc \in {"sleep", "unlinked", "call", "skip"}
        BY <1>6, <4>4 DEF Ahead, StillToVisit
      <4> QED BY <4>1, <4>2, <4>3, <4>4
    <3>4. R[i] = n
      BY <1>8, <2>1
    <3> QED BY <3>1, <3>2, <3>3, <3>4
  <2>2. CASE i \in 1 .. m
    <3>1. PICK x \in Nodes \ {n} : x = L[i] /\ x = R[i]
      BY <1>0, <1>3, <1>8, <2>2 DEF On
    <3>2. Ahead(R, i)' <=> Ahead(L, i)
      <4>1. \A j \in 1 .. i : R[j] = L[j]
        <5>1. \A j \in 1 .. i : j \in 1 .. m
          BY <1>0, <2>2
        <5> QED BY <1>8, <5>1
      <4> QED BY <1>6, <4>1 DEF Ahead
    <3>3. LET v == IF Ahead(L, i) THEN 1 ELSE 0
          IN key[x] \in Keys /\ left[x] <= due[x] + v /\ (due[x] + v) - left[x] <= expiries[x]
      BY <2>2, <3>1 DEF Lists, Times
    <3> QED BY <1>10, <3>1, <3>2, <3>3
  <2> QED BY <1>11, <2>1, <2>2
<1>14. wpc \in {"unlinked", "call", "skip"} => cur \in Nodes \ {n}
  <2>1. wpc \in {"unlinked", "call", "skip"} => cur \in Nodes /\ cur \in InHand
    BY DEF Base, Hand, InHand
  <2> QED BY <1>3, <2>1
<1>15. Hand'
  <2>1. wpc = "lock" => left'[cur] = left[cur]
    <3>1. wpc = "lock" => On(cur, m, L) /\ cur \in Nodes
      BY <1>0 DEF Base, Hand, Lists, Cursor, On
    <3> QED BY <1>3, <1>10, <3>1
  <2>2. wpc # "freed"
    BY <1>2 DEF Base, Hand
  <2> QED BY <1>6, <1>10, <1>14, <2>1, <2>2 DEF Base, Hand
<1>16. TypeOK'
  <2>1. r \in Nat
    BY TimerAssumption
  <2>2. /\ left' \in [Nodes -> Nat] /\ key' \in [Nodes -> Keys \cup {Null}]
        /\ timecon' \in [Nodes -> Cons \cup {ConstId, NoCon}]
        /\ due' \in [Nodes -> Int] /\ expiries' \in [Nodes -> Nat]
    <3>1. left \in [Nodes -> Nat] /\ key \in [Nodes -> Keys \cup {Null}] /\ timecon \in [Nodes -> Cons \cup {ConstId, NoCon}]
          /\ due \in [Nodes -> Int] /\ expiries \in [Nodes -> Nat]
      BY DEF Base, TypeOK
    <3>2. PICK d \in Int : d = IF StillToVisit THEN r - 1 ELSE r
      BY <2>1
    <3>3. left' \in [Nodes -> Nat] /\ due' \in [Nodes -> Int] /\ expiries' \in [Nodes -> Nat]
      BY <1>2, <2>1, <3>1, <3>2
    <3>4. key' \in [Nodes -> Keys \cup {Null}] /\ timecon' \in [Nodes -> Cons \cup {ConstId, NoCon}]
      BY <1>2, <3>1
    <3> QED BY <3>3, <3>4
  <2>3. next' \in [Nodes -> Nodes \cup {Null}] /\ job' \in Nodes \cup {Null} /\ tail' \in Nodes
    BY <1>3, <1>5 DEF Base, TypeOK
  <2>4. freelist' \in Nodes \cup {Null} /\ freesize' \in Nat
    BY <1>4 DEF Linked, NodeAt
  <2>5. calls' \in 0 .. MaxCalls
    BY <1>2, TimerAssumption DEF Base, TypeOK
  <2>6. alloc' \subseteq Nodes
    BY <1>3 DEF Base, TypeOK
  <2> QED BY <1>2, <1>5, <1>6, <2>2, <2>3, <2>4, <2>5, <2>6 DEF Base, TypeOK
<1> QED BY <1>5, <1>9, <1>12, <1>13, <1>15, <1>16 DEF Base, Lists

-----------------------------------------------------------------------------
(* The theorem.                                                            *)

\* No list is there when the manager has been made.
LEMMA InitInv == Init => IInv
<1> SUFFICES ASSUME Init PROVE IInv
  OBVIOUS
<1>1. Null \notin Nodes /\ MaxCalls \in Nat
  BY TimerAssumption
<1>2. TypeOK
  BY <1>1 DEF Init, TypeOK
<1>3. Hand /\ fault = "none" /\ InHand = {}
  BY <1>1 DEF Init, Hand, InHand
<1>4. PICK p, R : p = 0 /\ R \in [1 .. p -> Nodes]
  <2>1. [i \in 1 .. 0 |-> CHOOSE n \in Nodes : TRUE] \in [1 .. 0 -> Nodes]
    OBVIOUS
  <2> QED BY <2>1
<1>5. /\ p \in Nat /\ p = 0 /\ (\A i : i \notin 1 .. p) /\ R \in [1 .. p -> Nodes]
      /\ NodeAt(p, R, 1) = Null /\ NodeAt(p, R, p) = Null
  BY <1>4 DEF NodeAt
<1>6. (\A n : ~On(n, p, R)) /\ Linked(next, job, p, R) /\ Linked(next, freelist, p, R)
  BY <1>5 DEF On, Linked, Init
<1>7. Places(p, R, p, R)
  BY <1>3, <1>5, <1>6 DEF Places, Init
<1>8. Cursor(p, R) /\ Times(p, R)
  BY <1>5 DEF Cursor, Times, Init
<1> QED BY <1>2, <1>3, <1>7, <1>8 DEF IInv, Base, Lists

\* Every step keeps the invariant.
LEMMA StepInv ==
  ASSUME DeleteAnywhere = FALSE, IInv, [Next]_vars
  PROVE  IInv'
<1>1. PICK m, L, o, F : Lists(m, L, o, F)
  BY DEF IInv
<1>2. Base
  BY DEF IInv
<1>3. SUFFICES Base' /\ \E p, R, q, G : Lists(p, R, q, G)'
  BY DEF IInv
<1>4. ASSUME NEW c \in Clients, NEW id \in Cons, ContainerNew(c, id) \/ ContainerDelete(c, id)
      PROVE  Base' /\ \E p, R, q, G : Lists(p, R, q, G)'
  BY <1>1, <1>2, <1>4, ContainerStep
<1>5. ASSUME NEW c \in Clients, NEW r \in Periods, NEW k \in Keys, NEW id \in Cons \cup {ConstId},
             Add(c, r, k, id) \/ AddArgn(c, r, k, id)
      PROVE  Base' /\ \E p, R, q, G : Lists(p, R, q, G)'
  <2>1. CASE Add(c, r, k, id)
    <3>1. AddNode(c, r, k, id, id) /\ id \in Cons \cup {ConstId, NoCon}
      BY <2>1 DEF Add
    <3> QED BY <1>1, <1>2, <3>1, AddStep
  <2>2. CASE AddArgn(c, r, k, id)
    <3>1. AddNode(c, r, k, id, NoCon) /\ NoCon \in Cons \cup {ConstId, NoCon}
      BY <2>2 DEF AddArgn
    <3> QED BY <1>1, <1>2, <3>1, AddStep
  <2> QED BY <1>5, <2>1, <2>2
<1>6. ASSUME NEW c \in Clients, NEW k \in Keys, DeleteUnlink(c, k)
      PROVE  Base' /\ \E p, R, q, G : Lists(p, R, q, G)'
  BY <1>1, <1>2, <1>6, DeleteUnlinkStep
<1>7. ASSUME NEW c \in Clients, NEW k \in Keys, DeleteNone(c, k)
      PROVE  Base' /\ \E p, R, q, G : Lists(p, R, q, G)'
  BY <1>1, <1>2, <1>7, NoneStep
<1>8. ASSUME NEW c \in Clients, DeleteFree(c)
      PROVE  Base' /\ \E p, R, q, G : Lists(p, R, q, G)'
  BY <1>1, <1>2, <1>8, DeleteFreeStep
<1>9. CASE ManageDelete
  BY <1>1, <1>2, <1>9, StopStep
<1>10. CASE Sweep
  <2>1. CASE SweepStart
    BY <1>1, <1>2, <2>1, StartStep
  <2>2. CASE SweepPass
    BY <1>1, <1>2, <2>2, PassStep
  <2>3. CASE SweepExpired \/ SweepEnd
    BY <1>1, <1>2, <2>3, WalkStep
  <2>4. CASE FireUnlink
    BY <1>1, <1>2, <2>4, FireStep
  <2>5. CASE FireCall
    BY <1>1, <1>2, <2>5, RunStep
  <2>6. CASE FireFree
    BY <1>1, <1>2, <2>6, FreeStep
  <2>7. CASE Exit
    BY <1>1, <1>2, <2>7, ExitStep
  <2> QED BY <1>10, <2>1, <2>2, <2>3, <2>4, <2>5, <2>6, <2>7 DEF Sweep
<1>11. CASE UNCHANGED vars
  <2>1. UNCHANGED <<nodeVars, listVars, thrVars, unlinked, container, run, calls, fault>>
    BY <1>11 DEF vars
  <2>2. container' \subseteq Cons /\ run' \in BOOLEAN /\ (run' => run) /\ calls' \in 0 .. MaxCalls /\ fault' = "none"
    BY <1>2, <2>1 DEF Base, TypeOK
  <2>3. Base' /\ Lists(m, L, o, F)'
    BY <1>1, <1>2, <2>1, <2>2, CallStep
  <2> QED BY <2>3
<1> QED BY <1>4, <1>5, <1>6, <1>7, <1>8, <1>9, <1>10, <1>11 DEF Next

\* A list has as many nodes as it has places.
LEMMA Counted ==
  ASSUME NEW h, NEW m, NEW L, Linked(next, h, m, L)
  PROVE  Cardinality(OnChain(h)) = m
<1>1. m \in Nat /\ L \in [1 .. m -> Nodes] /\ \A i, k \in 1 .. m : L[i] = L[k] => i = k
  BY DEF Linked
<1>2. PICK S : S = OnChain(h)
  OBVIOUS
<1>3. \A n : n \in S <=> \E i \in 1 .. m : L[i] = n
  BY <1>2, ChainIs DEF On
<1>4. L \in [1 .. m -> S]
  BY <1>1, <1>3
<1>5. L \in Injection(1 .. m, S)
  BY <1>1, <1>4 DEF Injection, IsInjective
<1>6. L \in Surjection(1 .. m, S)
  BY <1>3, <1>4 DEF Surjection
<1>7. ExistsBijection(1 .. m, S)
  BY <1>5, <1>6 DEF Bijection, ExistsBijection
<1>8. IsFiniteSet(1 .. m) /\ Cardinality(1 .. m) = m
  BY <1>1, FS_Interval
<1> QED BY <1>2, <1>7, <1>8, FS_Bijection

\* What the invariant says of the properties of Timer.
LEMMA InvSound == IInv => TypeOK /\ ListsSound /\ NeverLate /\ EarlyBound
<1> SUFFICES ASSUME IInv PROVE TypeOK /\ ListsSound /\ NeverLate /\ EarlyBound
  OBVIOUS
<1>1. PICK m, L, o, F : Lists(m, L, o, F)
  BY DEF IInv
<1>2. TypeOK /\ fault = "none" /\ Hand
  BY DEF IInv, Base
<1>3. /\ Linked(next, job, m, L) /\ Linked(next, freelist, o, F) /\ tail = NodeAt(m, L, m) /\ freesize = o
      /\ \A n \in Nodes : On(n, m, L) => ~On(n, o, F) /\ n \notin InHand
      /\ \A n \in Nodes : On(n, o, F) => n \notin InHand
      /\ \A n \in Nodes : n \in alloc <=> On(n, m, L) \/ On(n, o, F) \/ n \in InHand
  BY <1>1 DEF Lists, Places
<1>4. /\ m \in Nat /\ L \in [1 .. m -> Nodes] /\ F \in [1 .. o -> Nodes] /\ Null \notin Nodes
      /\ m = 0 <=> job = Null
      /\ m = 0 <=> tail = Null
      /\ m # 0 => job = L[1] /\ tail = L[m] /\ m \in 1 .. m
      /\ o = 0 <=> freelist = Null
      /\ \A i \in 1 .. m : next[L[i]] = NodeAt(m, L, i + 1)
  BY <1>1, ListEnds DEF Lists
<1>5. Ends(job) /\ Ends(freelist) /\ (\A n : n \in OnChain(job) <=> On(n, m, L)) /\ \A n : n \in OnChain(freelist) <=> On(n, o, F)
  BY <1>3, ChainIs
<1>6. \A n : On(n, m, L) \/ On(n, o, F) => n \in Nodes
  BY <1>4 DEF On
<1>7. NodesOnce
  <2>1. CASE wpc = "freed"
    <3>1. m = 0 /\ o = 0 /\ \A c \in Clients : unlinked[c] = Null
      BY <1>2, <1>4, <2>1 DEF Hand
    <3>2. InHand = {}
      BY <1>4, <2>1, <3>1 DEF InHand
    <3>3. \A n : ~On(n, m, L) /\ ~On(n, o, F)
      BY <3>1 DEF On
    <3>4. alloc = {}
      BY <1>2, <1>3, <3>2, <3>3 DEF TypeOK
    <3> QED BY <2>1, <3>4 DEF NodesOnce
  <2>2. CASE wpc # "freed"
    <3>1. OnChain(job) \cup OnChain(freelist) \cup InHand = alloc
      <4>1. alloc \subseteq Nodes /\ InHand \subseteq Nodes
        BY <1>2 DEF TypeOK, InHand
      <4> QED BY <1>3, <1>5, <1>6, <4>1
    <3>2. OnChain(job) \cap OnChain(freelist) = {} /\ InHand \cap (OnChain(job) \cup OnChain(freelist)) = {}
      BY <1>3, <1>5, <1>6
    <3>3. freesize = Cardinality(OnChain(freelist))
      BY <1>3, Counted
    <3>4. IF job = Null THEN tail = Null ELSE tail \in OnChain(job) /\ next[tail] = Null
      <4>1. m # 0 => tail \in OnChain(job)
        BY <1>4, <1>5 DEF On
      <4>2. m # 0 => next[tail] = NodeAt(m, L, m + 1) /\ m + 1 \notin 1 .. m
        BY <1>4
      <4> QED BY <1>4, <4>1, <4>2 DEF NodeAt
    <3> QED BY <1>5, <2>2, <3>1, <3>2, <3>3, <3>4 DEF NodesOnce
  <2> QED BY <2>1, <2>2
<1>8. CursorListed
  <2> SUFFICES ASSUME wpc \in {"walk", "lock"}, cur # Null
               PROVE  cur \in OnChain(job) /\ (cur # job => prev \in OnChain(job) /\ next[prev] = cur)
    BY <1>2 DEF CursorListed, Hand
  <2>1. PICK i \in 1 .. m : cur = L[i] /\ (i = 1 \/ prev = L[i - 1])
    BY <1>1 DEF Lists, Cursor
  <2>2. cur \in OnChain(job)
    BY <1>5, <2>1 DEF On
  <2>3. ASSUME cur # job PROVE prev \in OnChain(job) /\ next[prev] = cur
    <3>1. i # 1 /\ prev = L[i - 1]
      BY <1>4, <2>1, <2>3
    <3>2. i - 1 \in 1 .. m /\ (i - 1) + 1 = i
      BY <1>4, <3>1
    <3>3. prev \in OnChain(job)
      BY <1>5, <3>1, <3>2 DEF On
    <3>4. next[prev] = NodeAt(m, L, i)
      BY <1>4, <3>1, <3>2
    <3> QED BY <2>1, <3>3, <3>4 DEF NodeAt
  <2> QED BY <2>2, <2>3
<1>9. NeverLate
  <2> SUFFICES ASSUME wpc = "sleep", NEW n \in OnChain(job) PROVE due[n] >= 0
    BY DEF NeverLate
  <2>1. PICK i \in 1 .. m : L[i] = n
    BY <1>5 DEF On
  <2>2. n \in Nodes /\ left[n] \in Nat /\ due[n] \in Int
    BY <1>2, <1>4, <2>1 DEF TypeOK
  <2>3. ~Ahead(L, i)
    BY DEF Ahead
  <2>4. left[n] <= due[n] + 0
    BY <1>1, <2>1, <2>3 DEF Lists, Times
  <2> QED BY <2>2, <2>4
<1>10. EarlyBound
  BY <1>2 DEF Hand, EarlyBound
<1> QED BY <1>2, <1>7, <1>8, <1>9, <1>10 DEF ListsSound, NoFault

\* Every reachable state has the invariant.
LEMMA Invariant ==
  ASSUME DeleteAnywhere = FALSE
  PROVE  Spec => []IInv
<1>1. IInv /\ [Next]_vars => IInv'
  BY StepInv
<1> QED BY <1>1, InitInv, PTL DEF Spec

\* With timers deleted by callbacks only, every pointer of ztimer.c is a node or NULL
\* and freesize, which is counted down without a test, never wraps.
THEOREM TimerTypes ==
  ASSUME DeleteAnywhere = FALSE
  PROVE  Spec => []TypeOK
<1>1. Spec => []IInv
  BY Invariant
<1> QED BY <1>1, InvSound, PTL

\* Then the lists, the cursor of the unlocked sweep and the free list stay sound
\* under adds from anywhere.
THEOREM TimerListsSound ==
  ASSUME DeleteAnywhere = FALSE
  PROVE  Spec => []ListsSound
<1>1. Spec => []IInv
  BY Invariant
<1> QED BY <1>1, InvSound, PTL

\* Then no timer is left behind by a sweep that should have run it.
THEOREM TimerNeverLate ==
  ASSUME DeleteAnywhere = FALSE
  PROVE  Spec => []NeverLate
<1>1. Spec => []IInv
  BY Invariant
<1> QED BY <1>1, InvSound, PTL

\* Then a timer runs early by no more ticks than timers have expired while it was
\* waiting: the sweep restarts at the head after each of them.
THEOREM TimerEarlyBound ==
  ASSUME DeleteAnywhere = FALSE
  PROVE  Spec => []EarlyBound
<1>1. Spec => []IInv
  BY Invariant
<1> QED BY <1>1, InvSound, PTL
=============================================================================
