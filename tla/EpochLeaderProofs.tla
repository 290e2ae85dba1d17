------------------------- MODULE EpochLeaderProofs --------------------------
(***************************************************************************)
(* Proofs about the draw of the epoch leaders and random number proposers  *)
(* and about the databases they are written to, for every number of        *)
(* validators, all probabilities, all sizes of the groups and any number   *)
(* of crashes.                                                             *)
(***************************************************************************)
EXTENDS EpochLeader, SumLemmas, SequenceTheorems

\* Probabilities are positive.
WeightsOK == weight \in Seq(Nat \ {0})

N == Len(weight)

\* The validators up to i in the order.
Before(i) == {j \in DOMAIN weight :
                 \/ weight[j] < weight[i]
                 \/ weight[j] = weight[i] /\ j <= i}

\* What WeightsOK says of the validators.
LEMMA Weights ==
    ASSUME WeightsOK
    PROVE  /\ N \in Nat /\ DOMAIN weight = 1 .. N
           /\ \A i \in 1 .. N : weight[i] \in Nat \ {0}
           /\ weight = <<>> <=> N = 0
  BY DEF WeightsOK, N

\* No two validators have the same place.
LEMMA RankInjective ==
    ASSUME WeightsOK
    PROVE  /\ \A i \in 1 .. N : Rank(i) \in 1 .. N
           /\ \A i, j \in 1 .. N : Rank(i) = Rank(j) => i = j
<1>1. /\ N \in Nat /\ DOMAIN weight = 1 .. N
      /\ \A i \in 1 .. N : weight[i] \in Nat
  BY Weights
<1>2. IsFiniteSet(1 .. N) /\ Cardinality(1 .. N) = N
  BY <1>1, FS_Interval
<1>3. ASSUME NEW i \in 1 .. N
      PROVE  /\ Before(i) \in SUBSET (1 .. N) /\ i \in Before(i)
             /\ IsFiniteSet(Before(i)) /\ Rank(i) = Cardinality(Before(i))
             /\ Rank(i) \in 1 .. N
  <2>1. Before(i) \in SUBSET (1 .. N) /\ i \in Before(i)
    BY <1>1 DEF Before
  <2>2. IsFiniteSet(Before(i)) /\ Cardinality(Before(i)) <= N
    BY <1>2, <2>1, FS_Subset
  <2>3. Cardinality(Before(i)) \in Nat /\ Cardinality(Before(i)) # 0
    BY <2>1, <2>2, FS_CardinalityType, FS_EmptySet
  <2>4. Rank(i) = Cardinality(Before(i))
    BY DEF Rank, Before
  <2> QED
    BY <1>1, <2>1, <2>2, <2>3, <2>4
<1>4. ASSUME NEW i \in 1 .. N, NEW j \in 1 .. N, Rank(i) = Rank(j) PROVE i = j
  <2>1. Before(i) \subseteq Before(j) \/ Before(j) \subseteq Before(i)
    BY <1>1 DEF Before
  <2>2. Before(i) = Before(j)
    BY <1>3, <1>4, <2>1, FS_Subset
  <2> QED
    BY <1>1, <1>3, <2>2 DEF Before
<1> QED
  BY <1>3, <1>4

\* Each place has its validator, and each validator its place.
LEMMA SortedRight ==
    ASSUME WeightsOK
    PROVE  /\ DOMAIN Sorted = 1 .. N
           /\ \A k \in 1 .. N : Sorted[k] \in 1 .. N /\ Rank(Sorted[k]) = k
           /\ \A i \in 1 .. N : Sorted[Rank(i)] = i
<1> DEFINE r == [i \in 1 .. N |-> Rank(i)]
<1>1. N \in Nat /\ DOMAIN weight = 1 .. N
  BY Weights
<1>2. r \in Injection(1 .. N, 1 .. N)
  BY RankInjective DEF Injection, IsInjective
<1>3. IsFiniteSet(1 .. N)
  BY <1>1, FS_Interval
<1>4. r \in Surjection(1 .. N, 1 .. N)
  BY <1>2, <1>3, FS_Injection
<1>5. \A k \in 1 .. N : \E i \in 1 .. N : Rank(i) = k
  BY <1>4 DEF Surjection
<1>6. ASSUME NEW k \in 1 .. N PROVE Sorted[k] \in 1 .. N /\ Rank(Sorted[k]) = k
  <2>1. Sorted[k] = CHOOSE i \in 1 .. N : Rank(i) = k
    BY <1>1 DEF Sorted
  <2> QED
    BY <1>5, <2>1
<1>7. ASSUME NEW i \in 1 .. N PROVE Sorted[Rank(i)] = i
  BY <1>6, RankInjective
<1> QED
  BY <1>1, <1>6, <1>7 DEF Sorted

\* The running sum up to place k.
P(k) == SumFunctionOnSet([j \in DOMAIN weight |-> weight[Sorted[j]]], 1 .. k)

\* Each place adds the probability of its validator.
LEMMA RunningSum ==
    ASSUME WeightsOK
    PROVE  /\ P(0) = 0
           /\ \A k \in 0 .. N : P(k) \in Nat
           /\ \A k \in 1 .. N : P(k) = P(k - 1) + weight[Sorted[k]]
<1> DEFINE f == [j \in DOMAIN weight |-> weight[Sorted[j]]]
<1>1. N \in Nat /\ DOMAIN weight = 1 .. N
  BY Weights
<1>2. \A j \in 1 .. N : f[j] = weight[Sorted[j]] /\ f[j] \in Nat
  BY <1>1, SortedRight, Weights
<1> HIDE DEF f
<1>3. \A k \in 0 .. N : IsFiniteSet(1 .. k) /\ 1 .. k \subseteq 1 .. N
  BY <1>1, FS_Interval
<1>4. P(0) = 0
  <2>1. 1 .. 0 = {}
    OBVIOUS
  <2>2. SumFunctionOnSet(f, {}) = 0
    BY FS_EmptySet, SumUnfold
  <2> QED
    BY <2>1, <2>2 DEF P, f
<1>5. ASSUME NEW k \in 0 .. N PROVE P(k) \in Nat
  <2>1. \A j \in 1 .. k : f[j] \in Nat /\ f[j] \in Int
    BY <1>2, <1>3
  <2>2. SumFunctionOnSet(f, 1 .. k) \in Nat
    BY <1>3, <2>1, SumType
  <2> QED
    BY <2>2 DEF P, f
<1>6. ASSUME NEW k \in 1 .. N PROVE P(k) = P(k - 1) + weight[Sorted[k]]
  <2>1. k - 1 \in 0 .. N /\ k \notin 1 .. (k - 1) /\ 1 .. k = (1 .. (k - 1)) \cup {k}
    BY <1>1
  <2>2. \A j \in (1 .. (k - 1)) \cup {k} : f[j] \in Int
    BY <1>1, <1>2
  <2>3. SumFunctionOnSet(f, 1 .. k) = SumFunctionOnSet(f, 1 .. (k - 1)) + f[k]
    BY <1>3, <2>1, <2>2, SumAdd
  <2> QED
    BY <1>2, <2>3 DEF P, f
<1> QED
  BY <1>4, <1>5, <1>6

\* The running sums grow.
LEMMA RunningSumGrows ==
    ASSUME WeightsOK, NEW k \in 0 .. N, NEW j \in 0 .. k
    PROVE  P(j) <= P(k)
<1> DEFINE C == {m \in Nat : m <= N /\ j <= m /\ ~(P(j) <= P(m))}
<1>1. N \in Nat /\ j \in 0 .. N
  BY Weights
<1>2. C = {}
  <2> SUFFICES ASSUME C # {} PROVE FALSE
    OBVIOUS
  <2>1. PICK m \in C : \A n \in C : m <= n
    <3>1. C \in SUBSET Nat
      OBVIOUS
    <3> HIDE DEF C
    <3> QED
      BY <3>1, LeastNatural
  <2>2. m \in Nat /\ m <= N /\ j <= m /\ ~(P(j) <= P(m)) /\ P(j) \in Nat
    BY <1>1, RunningSum
  <2>3. j < m /\ m - 1 \in Nat /\ m - 1 <= N /\ j <= m - 1 /\ m \in 1 .. N /\ m - 1 \in 0 .. N
    BY <1>1, <2>2
  <2>4. P(j) <= P(m - 1)
    BY <2>1, <2>3
  <2>5. P(m) = P(m - 1) + weight[Sorted[m]] /\ P(m - 1) \in Nat /\ weight[Sorted[m]] \in Nat
    BY <2>3, RunningSum, SortedRight, Weights
  <2> QED
    BY <2>2, <2>4, <2>5
<1>3. k \in Nat /\ k <= N /\ j <= k
  BY <1>1
<1> QED
  BY <1>2, <1>3

\* There is something to draw from as soon as there is a validator.
LEMMA TotalPositive ==
    ASSUME WeightsOK, weight # <<>>
    PROVE  N \in Nat \ {0} /\ TotalProbability = P(N) /\ P(N) \in Nat \ {0}
<1>1. N \in Nat \ {0} /\ DOMAIN weight = 1 .. N /\ N \in 1 .. N
  BY Weights
<1>2. TotalProbability = P(N)
  BY <1>1 DEF TotalProbability, createStakerProbabilityArray, P, N
<1>3. P(N) = P(N - 1) + weight[Sorted[N]] /\ P(N - 1) \in Nat /\ weight[Sorted[N]] \in Nat \ {0}
  BY <1>1, RunningSum, SortedRight, Weights
<1> QED
  BY <1>1, <1>2, <1>3

\* The binary search finds the place k whose running sums enclose the
\* residue.
LEMMA PickAtPlace ==
    ASSUME WeightsOK, weight # <<>>, NEW cr \in Nat
    PROVE  \E k \in 1 .. N : /\ P(k - 1) <= cr % P(N) /\ cr % P(N) < P(k)
                             /\ Pick(cr) = Sorted[k]
<1> DEFINE x == cr % P(N)
           ps == createStakerProbabilityArray
           S == {k \in DOMAIN ps : ps[k].Probabilities > x}
           m == Min(S)
<1>1. N \in Nat \ {0} /\ TotalProbability = P(N) /\ P(N) \in Nat \ {0}
  BY TotalPositive
<1>2. DOMAIN weight = 1 .. N
  BY Weights
<1>3. x \in 0 .. (P(N) - 1)
  BY <1>1
<1>4. DOMAIN ps = 1 .. N /\ \A k \in 1 .. N : ps[k].Probabilities = P(k) /\ ps[k].id = Sorted[k]
  BY <1>2 DEF createStakerProbabilityArray, P
<1>5. Pick(cr) = ps[Min(S)].id
  BY <1>1 DEF Pick
<1> HIDE DEF x, ps
<1>6. S \in SUBSET Nat /\ N \in S
  BY <1>1, <1>3, <1>4
<1>7. m \in S /\ \A k \in S : m <= k
  <2> HIDE DEF S
  <2> QED
    BY <1>6, MinOfNaturals
<1> HIDE DEF m
<1>8. m \in 1 .. N /\ P(m) > x /\ P(m) \in Nat
  BY <1>1, <1>4, <1>7, RunningSum
<1>9. P(m - 1) <= x
  <2>1. CASE m = 1
    BY <1>3, <2>1, RunningSum
  <2>2. CASE m # 1
    <3>1. m - 1 \in 1 .. N /\ m - 1 \notin S
      BY <1>1, <1>7, <1>8, <2>2
    <3>2. ~(P(m - 1) > x)
      BY <1>4, <3>1
    <3>3. P(m - 1) \in Nat
      BY <1>1, <3>1, RunningSum
    <3> QED
      BY <1>1, <1>3, <3>2, <3>3
  <2> QED
    BY <2>1, <2>2
<1>10. Pick(cr) = Sorted[m]
  BY <1>4, <1>5, <1>8 DEF m
<1> QED
  BY <1>3, <1>8, <1>9, <1>10, <1>1 DEF x

\* A validator is drawn.
LEMMA PickIsValidator ==
    ASSUME WeightsOK, weight # <<>>, NEW cr \in Nat
    PROVE  Pick(cr) \in 1 .. N
  BY PickAtPlace, SortedRight

\* Of the residues, each validator gets as many as its probability.
LEMMA ShareIsFair ==
    ASSUME WeightsOK
    PROVE  FairShare
<1> SUFFICES ASSUME weight # <<>>, NEW v \in DOMAIN weight
             PROVE  Cardinality({x \in 0 .. (TotalProbability - 1) : Pick(x) = v}) = weight[v]
  BY DEF FairShare
<1> DEFINE k == Rank(v)
           S == {x \in 0 .. (TotalProbability - 1) : Pick(x) = v}
<1>1. N \in Nat \ {0} /\ TotalProbability = P(N) /\ P(N) \in Nat \ {0}
  BY TotalPositive
<1>2. v \in 1 .. N /\ k \in 1 .. N /\ Sorted[k] = v
  BY Weights, RankInjective, SortedRight
<1> HIDE DEF k
<1>3. /\ P(k) = P(k - 1) + weight[v] /\ P(k) \in Nat /\ P(k - 1) \in Nat
      /\ weight[v] \in Nat \ {0} /\ P(k) <= P(N)
  <2>1. k \in 0 .. N /\ k - 1 \in 0 .. N /\ N \in 0 .. N /\ k \in 0 .. N
    BY <1>1, <1>2
  <2> QED
    BY <1>2, <2>1, RunningSum, RunningSumGrows, Weights
<1>4. ASSUME NEW x \in 0 .. (P(N) - 1)
      PROVE  Pick(x) = v <=> P(k - 1) <= x /\ x < P(k)
  <2>1. x \in Nat /\ x % P(N) = x
    BY <1>1
  <2>2. PICK j \in 1 .. N : P(j - 1) <= x /\ x < P(j) /\ Pick(x) = Sorted[j]
    BY <2>1, PickAtPlace
  <2>3. Pick(x) = v <=> j = k
    BY <1>2, <2>2, SortedRight
  <2>4. j < k => ~(P(k - 1) <= x)
    <3> SUFFICES ASSUME j < k PROVE ~(P(k - 1) <= x)
      OBVIOUS
    <3>1. j \in 0 .. (k - 1) /\ k - 1 \in 0 .. N /\ j \in 0 .. N
      BY <1>1, <1>2
    <3>2. P(j) <= P(k - 1) /\ P(j) \in Nat
      BY <3>1, RunningSumGrows, RunningSum
    <3> QED
      BY <1>3, <2>1, <2>2, <3>2
  <2>5. k < j => ~(x < P(k))
    <3> SUFFICES ASSUME k < j PROVE ~(x < P(k))
      OBVIOUS
    <3>1. k \in 0 .. (j - 1) /\ j - 1 \in 0 .. N
      BY <1>1, <1>2
    <3>2. P(k) <= P(j - 1) /\ P(j - 1) \in Nat
      BY <3>1, RunningSumGrows, RunningSum
    <3> QED
      BY <1>3, <2>1, <2>2, <3>2
  <2> QED
    BY <1>1, <1>2, <2>2, <2>3, <2>4, <2>5
<1>5. S = P(k - 1) .. (P(k) - 1)
  <2>1. ASSUME NEW x \in S PROVE x \in P(k - 1) .. (P(k) - 1)
    BY <1>1, <1>3, <1>4
  <2>2. ASSUME NEW x \in P(k - 1) .. (P(k) - 1) PROVE x \in S
    <3>1. x \in 0 .. (P(N) - 1) /\ P(k - 1) <= x /\ x < P(k)
      BY <1>1, <1>3
    <3> QED
      BY <1>1, <1>4, <3>1
  <2> QED
    BY <2>1, <2>2
<1>6. Cardinality(P(k - 1) .. (P(k) - 1)) = weight[v]
  <2>1. P(k - 1) \in Int /\ P(k) - 1 \in Int /\ ~(P(k - 1) > P(k) - 1)
    BY <1>3
  <2>2. (P(k) - 1) - P(k - 1) + 1 = weight[v]
    BY <1>3
  <2> QED
    BY <2>1, <2>2, FS_Interval
<1> QED
  BY <1>5, <1>6
-----------------------------------------------------------------------------
(***************************************************************************)
(* The databases.                                                          *)
(***************************************************************************)
\* What the draw is made from.
DrawOK == WeightsOK /\ \A g \in Group : \A i \in 1 .. selectionCount(g) : draw[g][i] \in Nat

\* Types: those of the databases' fields, and where the selection can be.
Shape ==
    /\ DOMAIN db = Group
    /\ \A g \in Group :
         /\ DOMAIN db[g] = {"value", "keyName", "keyCount"}
         /\ db[g].value \in [1 .. selectionCount(g) -> 0 .. N]
         /\ db[g].keyName \in [1 .. selectionCount(g) -> 0 .. selectionCount(g)]
         /\ db[g].keyCount \in 0 .. selectionCount(g)
    /\ selected \in BOOLEAN /\ ended \in BOOLEAN /\ crashes \in 0 .. MaxCrashes
    /\ \/ sel = Idle
       \/ /\ sel \in [group : Group, at : {"put", "name", "count"}, i : Nat]
          /\ sel.i \in 1 .. selectionCount(sel.group)
          /\ selected /\ weight # <<>>

\* A value that is stored is the one drawn, and the stored values have no
\* gap.
ValuesRight ==
    \A g \in Group : \A i \in 1 .. selectionCount(g) :
        db[g].value[i] # None =>
            /\ weight # <<>>
            /\ db[g].value[i] = Picks(g)[i]
            /\ \A j \in 1 .. i : db[g].value[j] # None

\* The listed keys grow, none is listed before its turn, and all have
\* values.
KeysRight ==
    \A g \in Group : \A k \in 1 .. db[g].keyCount :
        /\ db[g].keyName[k] \in k .. selectionCount(g)
        /\ db[g].value[db[g].keyName[k]] # None
        /\ \A l \in 1 .. (k - 1) : db[g].keyName[l] < db[g].keyName[k]

\* The selection is at the first place without a value, or repeats values
\* that it has; a key that is being listed is beyond all listed ones.
SelectionRight ==
    sel # Idle =>
        LET g == sel.group
            i == sel.i
            c == db[g].keyCount
        IN  /\ \A j \in 1 .. (i - 1) : db[g].value[j] # None
            /\ sel.at \in {"name", "count"} =>
                  /\ db[g].value[i] # None
                  /\ \A k \in 1 .. c : db[g].keyName[k] < i
            /\ sel.at = "count" => c < selectionCount(g) /\ db[g].keyName[c + 1] = i

\* The group has its first m members, and no other; it has none.
ListedUpTo(d, g, m) ==
    d[g].keyCount = m /\ \A k \in 1 .. m : d[g].keyName[k] = k

Empty(d, g) == d[g].keyCount = 0 /\ \A i \in 1 .. selectionCount(g) : d[g].value[i] = None

\* Without a crash the selection lists each value as it is put.
InOneGo ==
    crashes = 0 =>
        /\ ~selected => sel = Idle /\ Empty(db, "el") /\ Empty(db, "rb")
        /\ selected /\ sel = Idle /\ weight # <<>> =>
              ListedUpTo(db, "el", selectionCount("el")) /\ ListedUpTo(db, "rb", selectionCount("rb"))
        /\ sel # Idle =>
              /\ ListedUpTo(db, sel.group, sel.i - 1)
              /\ \A j \in 1 .. selectionCount(sel.group) :
                    j > sel.i \/ (j = sel.i /\ sel.at = "put") => db[sel.group].value[j] = None
              /\ sel.group = "el" => Empty(db, "rb")
              /\ sel.group = "rb" => ListedUpTo(db, "el", selectionCount("el"))

\* The inductive invariant.
ELIInv ==
    DrawOK /\ Shape /\ ValuesRight /\ KeysRight /\ SelectionRight /\ InOneGo

\* The sizes of the two groups.
LEMMA Counts ==
    \A g \in Group : /\ selectionCount(g) \in Nat
                     /\ selectionCount("rb") = RandomProperCount
                     /\ selectionCount("el") = EpochLeaderCount - Len(White)
  BY EpochLeaderAssumption DEF selectionCount, Group

\* The draw of an epoch depends on the weights and the random number only.
LEMMA PicksFixed ==
    ASSUME UNCHANGED <<weight, draw>>
    PROVE  N' = N /\ DrawOK' = DrawOK /\ \A g \in Group : Picks(g)' = Picks(g)
<1>1. N' = N /\ DrawOK' = DrawOK
  BY DEF N, DrawOK, WeightsOK
<1>2. ASSUME NEW x PROVE Pick(x)' = Pick(x)
  BY DEF Pick, TotalProbability, createStakerProbabilityArray, Sorted, Rank
<1>3. ASSUME NEW g \in Group PROVE Picks(g)' = Picks(g)
  BY <1>2 DEF Picks
<1> QED
  BY <1>1, <1>3

\* A draw from a list that is not empty picks a validator.
LEMMA PicksRight ==
    ASSUME DrawOK, weight # <<>>, NEW g \in Group, NEW i \in 1 .. selectionCount(g)
    PROVE  Picks(g)[i] \in 1 .. N /\ Picks(g)[i] # None /\ N \in Nat
<1>1. Picks(g)[i] = Pick(draw[g][i])
  BY DEF Picks
<1>2. Pick(draw[g][i]) \in 1 .. N /\ N \in Nat
  BY PickIsValidator, Weights DEF DrawOK
<1> QED
  BY <1>1, <1>2 DEF None

\* The invariant holds at the start.
LEMMA ELInitInv == ELInit => ELIInv
<1> SUFFICES ASSUME ELInit PROVE ELIInv
  OBVIOUS
<1>1. WeightsOK
  <2>1. PICK n \in 0 .. MaxStakers : weight \in [1 .. n -> 1 .. MaxWeight]
    BY DEF ELInit
  <2>2. weight \in Seq(1 .. MaxWeight)
    BY <2>1, EpochLeaderAssumption, SeqDef
  <2> QED
    BY <2>2, EpochLeaderAssumption, SMTT(20) DEF WeightsOK
<1>2. ASSUME NEW g \in Group, NEW i \in 1 .. selectionCount(g) PROVE draw[g][i] \in Nat
  <2>1. PICK n \in {selectionCount(h) : h \in Group} : draw[g] \in [1 .. n -> 0 .. MaxDraw]
    BY DEF ELInit
  <2>2. n \in Nat /\ Len(draw[g]) = selectionCount(g)
    BY Counts DEF ELInit
  <2>3. draw[g] \in Seq(0 .. MaxDraw)
    BY <2>1, <2>2, SeqDef
  <2>4. DOMAIN draw[g] = 1 .. n /\ DOMAIN draw[g] = 1 .. Len(draw[g])
    BY <2>1, <2>3
  <2> QED
    BY <2>1, <2>2, <2>4
<1>3. N \in Nat
  BY <1>1, Weights
<1>4. Shape
  <2>1. selected \in BOOLEAN /\ ended \in BOOLEAN /\ sel = Idle
    BY Zenon DEF ELInit
  <2>2. crashes \in 0 .. MaxCrashes
    BY EpochLeaderAssumption DEF ELInit
  <2>3. ASSUME NEW g \in Group
        PROVE  /\ DOMAIN db[g] = {"value", "keyName", "keyCount"}
               /\ db[g].value \in [1 .. selectionCount(g) -> 0 .. N]
               /\ db[g].keyName \in [1 .. selectionCount(g) -> 0 .. selectionCount(g)]
               /\ db[g].keyCount \in 0 .. selectionCount(g)
    <3>1. db[g] = EmptyDb(selectionCount(g)) /\ selectionCount(g) \in Nat
      BY Counts DEF ELInit
    <3> QED
      BY <1>3, <3>1 DEF EmptyDb, None
  <2>4. DOMAIN db = Group
    BY DEF ELInit
  <2> QED
    BY <2>1, <2>2, <2>3, <2>4 DEF Shape
<1>5. Empty(db, "el") /\ Empty(db, "rb") /\ \A g \in Group : Empty(db, g)
  BY Counts DEF ELInit, Empty, EmptyDb, Group
<1>6. ValuesRight /\ KeysRight /\ SelectionRight
  BY <1>5 DEF ELInit, ValuesRight, KeysRight, SelectionRight, Empty
<1>7. InOneGo
  BY <1>5 DEF ELInit, InOneGo
<1> QED
  BY <1>1, <1>2, <1>4, <1>6, <1>7 DEF ELIInv, DrawOK

\* Where the selection goes after place i of group g.
LEMMA FromCases ==
    ASSUME NEW g \in Group, NEW i \in Nat \ {0}
    PROVE  \/ i <= selectionCount(g) /\ From(g, i) = [group |-> g, i |-> i, at |-> "put"]
           \/ /\ i > selectionCount(g) /\ g = "el" /\ selectionCount("rb") > 0
              /\ From(g, i) = [group |-> "rb", i |-> 1, at |-> "put"]
           \/ /\ i > selectionCount(g) /\ (g = "el" => selectionCount("rb") = 0)
              /\ From(g, i) = Idle
  BY Counts, EpochLeaderAssumption DEF From, Group

\* The selection is under way: what it knows of where it is.
LEMMA UnderWay ==
    ASSUME ELIInv, sel.at \in {"put", "name", "count"}
    PROVE  /\ sel # Idle /\ sel.group \in Group /\ sel.i \in 1 .. selectionCount(sel.group)
           /\ sel.i \in Nat \ {0} /\ selectionCount(sel.group) \in Nat
           /\ selected /\ weight # <<>> /\ sel.at \in {"put", "name", "count"}
           /\ sel = [group |-> sel.group, i |-> sel.i, at |-> sel.at]
<1>1. sel # Idle
  BY DEF Idle
<1> QED
  BY <1>1, Counts DEF ELIInv, Shape

\* Going on to the next place, or to the next group, when all places up to i
\* have their values.
LEMMA GoOn ==
    ASSUME NEW g \in Group, NEW i \in 1 .. selectionCount(g), NEW d,
           \A j \in 1 .. i : d[g].value[j] # None
    PROVE  LET s == From(g, i + 1)
           IN  /\ \/ s = Idle
                  \/ /\ s \in [group : Group, at : {"put", "name", "count"}, i : Nat]
                     /\ s.i \in 1 .. selectionCount(s.group)
               /\ s # Idle => s.at = "put" /\ \A j \in 1 .. (s.i - 1) : d[s.group].value[j] # None
<1> DEFINE s == From(g, i + 1)
<1>1. i \in Nat \ {0} /\ i + 1 \in Nat \ {0} /\ i + 1 - 1 = i /\ selectionCount(g) \in Nat
  BY Counts
<1> HIDE DEF s
<1>2. CASE i + 1 <= selectionCount(g) /\ s = [group |-> g, i |-> i + 1, at |-> "put"]
  <2>1. s # Idle /\ s.group = g /\ s.i = i + 1 /\ s.at = "put" /\ s.i - 1 = i
    BY <1>1, <1>2 DEF Idle
  <2>2. s \in [group : Group, at : {"put", "name", "count"}, i : Nat]
    BY <1>1, <1>2
  <2>3. i + 1 \in 1 .. selectionCount(g)
    BY <1>1, <1>2
  <2> QED
    BY <1>1, <2>1, <2>2, <2>3 DEF s
<1>3. CASE /\ i + 1 > selectionCount(g) /\ g = "el" /\ selectionCount("rb") > 0
           /\ s = [group |-> "rb", i |-> 1, at |-> "put"]
  <2>1. s # Idle /\ s.group = "rb" /\ s.i = 1 /\ s.at = "put" /\ s.i - 1 = 0 /\ "rb" \in Group
    BY <1>3 DEF Idle, Group
  <2>2. s \in [group : Group, at : {"put", "name", "count"}, i : Nat]
    BY <1>3, <2>1
  <2>3. 1 \in 1 .. selectionCount("rb")
    BY <1>3, <2>1, Counts
  <2> QED
    BY <2>1, <2>2, <2>3 DEF s
<1>4. CASE s = Idle
  BY <1>4 DEF s
<1> QED
  BY <1>1, <1>2, <1>3, <1>4, FromCases DEF s

\* The same when all members up to i, and only they, are listed and have
\* their values, as they have without a crash.
LEMMA GoOnInOneGo ==
    ASSUME NEW g \in Group, NEW i \in 1 .. selectionCount(g), NEW d,
           ListedUpTo(d, g, i),
           \A j \in 1 .. selectionCount(g) : j > i => d[g].value[j] = None,
           g = "el" => Empty(d, "rb"),
           g = "rb" => ListedUpTo(d, "el", selectionCount("el"))
    PROVE  LET s == From(g, i + 1)
           IN  /\ s = Idle => /\ ListedUpTo(d, "el", selectionCount("el"))
                              /\ ListedUpTo(d, "rb", selectionCount("rb"))
               /\ s # Idle =>
                    /\ ListedUpTo(d, s.group, s.i - 1)
                    /\ \A j \in 1 .. selectionCount(s.group) :
                          j >= s.i => d[s.group].value[j] = None
                    /\ s.group = "el" => Empty(d, "rb")
                    /\ s.group = "rb" => ListedUpTo(d, "el", selectionCount("el"))
<1> DEFINE s == From(g, i + 1)
<1>1. i \in Nat \ {0} /\ i + 1 \in Nat \ {0} /\ i + 1 - 1 = i /\ selectionCount(g) \in Nat
  BY Counts
<1> HIDE DEF s
<1>2. CASE i + 1 <= selectionCount(g) /\ s = [group |-> g, i |-> i + 1, at |-> "put"]
  <2>1. s # Idle /\ s.group = g /\ s.i = i + 1 /\ s.i - 1 = i
    BY <1>1, <1>2 DEF Idle
  <2>2. \A j \in 1 .. selectionCount(g) : j >= i + 1 => d[g].value[j] = None
    BY <1>1
  <2> QED
    BY <2>1, <2>2 DEF s
<1>3. CASE /\ i + 1 > selectionCount(g) /\ g = "el" /\ selectionCount("rb") > 0
           /\ s = [group |-> "rb", i |-> 1, at |-> "put"]
  <2>1. s # Idle /\ s.group = "rb" /\ s.i = 1 /\ s.i - 1 = 0
    BY <1>3 DEF Idle
  <2>2. i = selectionCount(g)
    BY <1>1, <1>3
  <2>3. /\ ListedUpTo(d, "rb", 0) /\ ListedUpTo(d, "el", selectionCount("el"))
        /\ \A j \in 1 .. selectionCount("rb") : d["rb"].value[j] = None
    BY <1>3, <2>2 DEF Empty, ListedUpTo
  <2> QED
    BY <2>1, <2>3 DEF s
<1>4. CASE i + 1 > selectionCount(g) /\ (g = "el" => selectionCount("rb") = 0) /\ s = Idle
  <2>1. i = selectionCount(g)
    BY <1>1, <1>4
  <2>2. ListedUpTo(d, "el", selectionCount("el")) /\ ListedUpTo(d, "rb", selectionCount("rb"))
    BY <1>4, <2>1 DEF Empty, ListedUpTo, Group
  <2> QED
    BY <1>4, <2>2 DEF s
<1> QED
  BY <1>1, <1>2, <1>3, <1>4, FromCases DEF s

\* One lemma for each step. PutWithIndex writes the record under its own key.
LEMMA StepPutValue == ASSUME ELIInv, PutValue PROVE ELIInv'
<1> DEFINE g == sel.group
           i == sel.i
           p == Picks(g)[i]
           v == [db[g].value EXCEPT ![i] = p]
<1>1. /\ sel # Idle /\ g \in Group /\ i \in 1 .. selectionCount(g) /\ i \in Nat \ {0}
      /\ selectionCount(g) \in Nat /\ selected /\ weight # <<>> /\ sel.at = "put"
      /\ sel = [group |-> g, i |-> i, at |-> "put"]
  BY UnderWay DEF PutValue
<1>2. UNCHANGED <<weight, draw, selected, ended, crashes>>
  BY DEF PutValue
<1>3. N' = N /\ DrawOK' /\ \A h \in Group : Picks(h)' = Picks(h)
  BY <1>2, PicksFixed DEF ELIInv
<1>4. p \in 1 .. N /\ p # None /\ N \in Nat
  BY <1>1, PicksRight DEF ELIInv
<1>5. db' = [db EXCEPT ![g].value[i] = p]
  BY DEF PutValue
<1> HIDE DEF g, i, p
<1>6. /\ DOMAIN db' = Group
      /\ \A h \in Group : h # g => db'[h] = db[h]
      /\ DOMAIN db'[g] = {"value", "keyName", "keyCount"}
      /\ db'[g].value = v /\ db'[g].keyName = db[g].keyName /\ db'[g].keyCount = db[g].keyCount
  BY <1>1, <1>5 DEF ELIInv, Shape
<1>7. /\ v \in [1 .. selectionCount(g) -> 0 .. N] /\ v[i] = p
      /\ \A j \in 1 .. selectionCount(g) : j # i => v[j] = db[g].value[j]
  BY <1>1, <1>4 DEF ELIInv, Shape
<1> HIDE DEF v
<1>8. \A j \in 1 .. (i - 1) : db[g].value[j] # None
  BY <1>1 DEF ELIInv, SelectionRight, g, i
<1>9. \A j \in 1 .. i : v[j] # None
  BY <1>1, <1>4, <1>7, <1>8
<1>10. ValuesRight'
  <2> SUFFICES ASSUME NEW h \in Group, NEW j \in 1 .. selectionCount(h), db'[h].value[j] # None
               PROVE  /\ weight # <<>> /\ db'[h].value[j] = Picks(h)[j]
                      /\ \A l \in 1 .. j : db'[h].value[l] # None
    BY <1>2, <1>3 DEF ValuesRight, selectionCount
  <2>1. CASE h # g
    BY <1>6, <2>1 DEF ELIInv, ValuesRight
  <2>2. CASE h = g /\ j = i
    BY <1>1, <1>6, <1>7, <1>9, <2>2 DEF p
  <2>3. CASE h = g /\ j # i
    <3>1. db[g].value[j] # None
      BY <1>6, <1>7, <2>3
    <3>2. db[g].value[j] = Picks(g)[j] /\ \A l \in 1 .. j : db[g].value[l] # None
      BY <1>1, <2>3, <3>1 DEF ELIInv, ValuesRight
    <3>3. \A l \in 1 .. j : l \in 1 .. selectionCount(g)
      BY <1>1, <2>3
    <3> QED
      BY <1>1, <1>4, <1>6, <1>7, <2>3, <3>2, <3>3
  <2> QED
    BY <2>1, <2>2, <2>3
<1>11. KeysRight'
  <2> SUFFICES ASSUME NEW h \in Group, NEW k \in 1 .. db'[h].keyCount
               PROVE  /\ db'[h].keyName[k] \in k .. selectionCount(h)
                      /\ db'[h].value[db'[h].keyName[k]] # None
                      /\ \A l \in 1 .. (k - 1) : db'[h].keyName[l] < db'[h].keyName[k]
    BY DEF KeysRight, selectionCount
  <2>1. db'[h].keyCount = db[h].keyCount /\ db'[h].keyName = db[h].keyName
    BY <1>6
  <2>2. /\ db[h].keyName[k] \in k .. selectionCount(h) /\ db[h].value[db[h].keyName[k]] # None
        /\ \A l \in 1 .. (k - 1) : db[h].keyName[l] < db[h].keyName[k]
    BY <2>1 DEF ELIInv, KeysRight
  <2>3. \A j \in 1 .. selectionCount(h) : db[h].value[j] # None => db'[h].value[j] # None
    BY <1>4, <1>6, <1>7
  <2>4. db[h].keyCount \in Nat /\ selectionCount(h) \in Nat
    BY Counts DEF ELIInv, Shape
  <2>5. db[h].keyName[k] \in 1 .. selectionCount(h)
    BY <2>1, <2>2, <2>4
  <2> QED
    BY <2>1, <2>2, <2>3, <2>5
<1>12. CASE db[g].value[i] # None
  <2>1. db[g].value[i] = p
    BY <1>1, <1>12 DEF ELIInv, ValuesRight, p
  <2>2. sel' = From(g, i + 1)
    BY <1>12 DEF PutValue, g, i
  <2>3. ~(crashes = 0)
    BY <1>1, <1>12 DEF ELIInv, InOneGo, g, i
  <2>4. \A j \in 1 .. i : db'[g].value[j] # None
    BY <1>6, <1>9
  <2>5. /\ sel' = Idle \/ /\ sel' \in [group : Group, at : {"put", "name", "count"}, i : Nat]
                          /\ sel'.i \in 1 .. selectionCount(sel'.group)
        /\ sel' # Idle => /\ sel'.at = "put"
                          /\ \A j \in 1 .. (sel'.i - 1) : db'[sel'.group].value[j] # None
    BY <1>1, <2>2, <2>4, GoOn
  <2>6. Shape'
    BY <1>1, <1>2, <1>3, <1>6, <1>7, <2>5 DEF ELIInv, Shape, selectionCount
  <2>7. SelectionRight'
    BY <2>5 DEF SelectionRight
  <2>8. InOneGo'
    BY <1>2, <2>3 DEF InOneGo
  <2> QED
    BY <1>3, <1>10, <1>11, <2>6, <2>7, <2>8 DEF ELIInv
<1>13. CASE db[g].value[i] = None
  <2>1. sel' = [group |-> g, i |-> i, at |-> "name"]
    BY <1>1, <1>13 DEF PutValue, g, i
  <2>2. sel' # Idle /\ sel'.group = g /\ sel'.i = i /\ sel'.at = "name"
    BY <2>1 DEF Idle
  <2>3. sel' \in [group : Group, at : {"put", "name", "count"}, i : Nat]
    BY <1>1, <2>1
  <2>4. Shape'
    BY <1>1, <1>2, <1>3, <1>6, <1>7, <2>2, <2>3 DEF ELIInv, Shape, selectionCount
  <2>5. ASSUME NEW k \in 1 .. db[g].keyCount PROVE db[g].keyName[k] < i
    <3>1. db[g].keyName[k] \in k .. selectionCount(g) /\ db[g].value[db[g].keyName[k]] # None
      BY <1>1 DEF ELIInv, KeysRight
    <3>2. db[g].keyCount \in Nat
      BY <1>1 DEF ELIInv, Shape
    <3>3. db[g].keyName[k] \in 1 .. selectionCount(g)
      BY <1>1, <3>1, <3>2
    <3>4. \A j \in 1 .. db[g].keyName[k] : db[g].value[j] # None
      BY <1>1, <3>1, <3>3 DEF ELIInv, ValuesRight
    <3> QED
      BY <1>1, <1>13, <3>3, <3>4
  <2>6. SelectionRight'
    BY <1>1, <1>4, <1>6, <1>7, <1>8, <1>9, <2>2, <2>5, SMTT(20) DEF SelectionRight
  <2>7. InOneGo'
    <3> SUFFICES ASSUME crashes = 0
                 PROVE  /\ ListedUpTo(db', g, i - 1)
                        /\ \A j \in 1 .. selectionCount(g) : j > i => db'[g].value[j] = None
                        /\ g = "el" => Empty(db', "rb")
                        /\ g = "rb" => ListedUpTo(db', "el", selectionCount("el"))
      BY <1>1, <1>2, <2>2 DEF InOneGo, selectionCount
    <3>1. /\ ListedUpTo(db, g, i - 1)
          /\ \A j \in 1 .. selectionCount(g) : j > i => db[g].value[j] = None
          /\ g = "el" => Empty(db, "rb")
          /\ g = "rb" => ListedUpTo(db, "el", selectionCount("el"))
      BY <1>1 DEF ELIInv, InOneGo, g, i
    <3>2. g = "el" => db'["rb"] = db["rb"]
      BY <1>6 DEF Group
    <3>3. g = "rb" => db'["el"] = db["el"]
      BY <1>6 DEF Group
    <3> QED
      BY <1>1, <1>6, <1>7, <3>1, <3>2, <3>3 DEF ListedUpTo, Empty
  <2> QED
    BY <1>3, <1>10, <1>11, <2>4, <2>6, <2>7 DEF ELIInv
<1> QED
  BY <1>12, <1>13

\* PutWithIndex writes the name of the key in the key list.
LEMMA StepPutKeyName == ASSUME ELIInv, PutKeyName PROVE ELIInv'
<1> DEFINE g == sel.group
           i == sel.i
           c == db[g].keyCount
           w == [db[g].keyName EXCEPT ![c + 1] = i]
<1>1. /\ sel # Idle /\ g \in Group /\ i \in 1 .. selectionCount(g) /\ i \in Nat \ {0}
      /\ selectionCount(g) \in Nat /\ selected /\ weight # <<>> /\ sel.at = "name"
      /\ sel = [group |-> g, i |-> i, at |-> "name"]
  BY UnderWay DEF PutKeyName
<1>2. UNCHANGED <<weight, draw, selected, ended, crashes>>
  BY DEF PutKeyName
<1>3. N' = N /\ DrawOK' /\ \A h \in Group : Picks(h)' = Picks(h)
  BY <1>2, PicksFixed DEF ELIInv
<1>4. db' = [db EXCEPT ![g].keyName[c + 1] = i]
  BY DEF PutKeyName
<1>5. sel' = [group |-> g, i |-> i, at |-> "count"]
  BY <1>1 DEF PutKeyName
<1>6. /\ \A j \in 1 .. (i - 1) : db[g].value[j] # None
      /\ db[g].value[i] # None /\ \A k \in 1 .. c : db[g].keyName[k] < i
  BY <1>1 DEF ELIInv, SelectionRight
<1>7. /\ crashes = 0 =>
            /\ ListedUpTo(db, g, i - 1)
            /\ \A j \in 1 .. selectionCount(g) : j > i => db[g].value[j] = None
            /\ g = "el" => Empty(db, "rb")
            /\ g = "rb" => ListedUpTo(db, "el", selectionCount("el"))
  BY <1>1 DEF ELIInv, InOneGo
<1> HIDE DEF g, i
<1>8. sel' # Idle /\ sel'.group = g /\ sel'.i = i /\ sel'.at = "count"
  BY <1>5 DEF Idle
<1>9. /\ DOMAIN db' = Group
      /\ \A h \in Group : h # g => db'[h] = db[h]
      /\ DOMAIN db'[g] = {"value", "keyName", "keyCount"}
      /\ db'[g].value = db[g].value /\ db'[g].keyName = w /\ db'[g].keyCount = c
  BY <1>1, <1>4 DEF ELIInv, Shape
<1>10. c \in 0 .. selectionCount(g) /\ c < selectionCount(g) /\ c + 1 \in 1 .. selectionCount(g)
  <2>1. c \in 0 .. selectionCount(g)
    BY <1>1 DEF ELIInv, Shape
  <2>2. CASE c = 0
    BY <1>1, <2>2
  <2>3. CASE c # 0
    <3>1. c \in 1 .. c
      BY <2>1, <2>3
    <3>2. db[g].keyName[c] < i /\ db[g].keyName[c] \in c .. selectionCount(g)
      BY <1>1, <1>6, <3>1 DEF ELIInv, KeysRight
    <3> QED
      BY <1>1, <2>1, <3>2
  <2> QED
    BY <2>2, <2>3
<1>11. /\ w \in [1 .. selectionCount(g) -> 0 .. selectionCount(g)] /\ w[c + 1] = i
       /\ \A k \in 1 .. c : w[k] = db[g].keyName[k]
  BY <1>1, <1>10 DEF ELIInv, Shape
<1> HIDE DEF w, c
<1>12. Shape'
  <2>1. sel' \in [group : Group, at : {"put", "name", "count"}, i : Nat]
    BY <1>1, <1>5
  <2> QED
    BY <1>1, <1>2, <1>3, <1>8, <1>9, <1>10, <1>11, <2>1, SMTT(20) DEF ELIInv, Shape, selectionCount
<1>13. ValuesRight'
  <2>1. \A h \in Group : db'[h].value = db[h].value
    BY <1>9
  <2> QED
    BY <1>2, <1>3, <2>1 DEF ELIInv, ValuesRight, selectionCount
<1>14. KeysRight'
  <2> SUFFICES ASSUME NEW h \in Group, NEW k \in 1 .. db'[h].keyCount
               PROVE  /\ db'[h].keyName[k] \in k .. selectionCount(h)
                      /\ db'[h].value[db'[h].keyName[k]] # None
                      /\ \A l \in 1 .. (k - 1) : db'[h].keyName[l] < db'[h].keyName[k]
    BY DEF KeysRight, selectionCount
  <2>1. db'[h].keyCount = db[h].keyCount /\ db'[h].value = db[h].value /\ db[h].keyCount \in Nat
    BY <1>9 DEF ELIInv, Shape, c
  <2>2. \A l \in 1 .. k : db'[h].keyName[l] = db[h].keyName[l]
    <3>1. CASE h # g
      BY <1>9, <3>1
    <3>2. CASE h = g
      <4>1. c \in Nat /\ k \in 1 .. c
        BY <2>1, <3>2 DEF c
      <4>2. \A l \in 1 .. k : l \in 1 .. c
        BY <4>1
      <4> QED
        BY <1>9, <1>11, <3>2, <4>2
    <3> QED
      BY <3>1, <3>2
  <2>3. k \in 1 .. k /\ \A l \in 1 .. (k - 1) : l \in 1 .. k
    BY <2>1
  <2>4. db'[h].keyName[k] = db[h].keyName[k]
    BY <2>2, <2>3
  <2>5. \A l \in 1 .. (k - 1) : db'[h].keyName[l] = db[h].keyName[l]
    BY <2>2, <2>3
  <2>6. /\ db[h].keyName[k] \in k .. selectionCount(h)
        /\ db[h].value[db[h].keyName[k]] # None
        /\ \A l \in 1 .. (k - 1) : db[h].keyName[l] < db[h].keyName[k]
    BY <2>1 DEF ELIInv, KeysRight
  <2> QED
    BY <2>1, <2>4, <2>5, <2>6
<1>15. SelectionRight'
  BY <1>6, <1>8, <1>9, <1>10, <1>11 DEF SelectionRight, selectionCount, c
<1>16. InOneGo'
  <2> SUFFICES ASSUME crashes = 0
               PROVE  /\ ListedUpTo(db', g, i - 1)
                      /\ \A j \in 1 .. selectionCount(g) : j > i => db'[g].value[j] = None
                      /\ g = "el" => Empty(db', "rb")
                      /\ g = "rb" => ListedUpTo(db', "el", selectionCount("el"))
    BY <1>1, <1>2, <1>8 DEF InOneGo, selectionCount
  <2>1. g = "el" => db'["rb"] = db["rb"]
    BY <1>9 DEF Group
  <2>2. g = "rb" => db'["el"] = db["el"]
    BY <1>9 DEF Group
  <2> QED
    BY <1>7, <1>9, <1>11, <2>1, <2>2 DEF ListedUpTo, Empty, c
<1> QED
  BY <1>3, <1>12, <1>13, <1>14, <1>15, <1>16 DEF ELIInv

\* PutWithIndex writes the length of the key list.
LEMMA StepPutKeyCount == ASSUME ELIInv, PutKeyCount PROVE ELIInv'
<1> DEFINE g == sel.group
           i == sel.i
           c == db[g].keyCount
<1>1. /\ sel # Idle /\ g \in Group /\ i \in 1 .. selectionCount(g) /\ i \in Nat \ {0}
      /\ selectionCount(g) \in Nat /\ selected /\ weight # <<>> /\ sel.at = "count"
  BY UnderWay DEF PutKeyCount
<1>2. UNCHANGED <<weight, draw, selected, ended, crashes>>
  BY DEF PutKeyCount
<1>3. N' = N /\ DrawOK' /\ \A h \in Group : Picks(h)' = Picks(h)
  BY <1>2, PicksFixed DEF ELIInv
<1>4. db' = [db EXCEPT ![g].keyCount = @ + 1]
  BY DEF PutKeyCount
<1>5. sel' = From(g, i + 1)
  BY DEF PutKeyCount
<1>6. /\ \A j \in 1 .. (i - 1) : db[g].value[j] # None
      /\ db[g].value[i] # None /\ \A k \in 1 .. c : db[g].keyName[k] < i
      /\ c < selectionCount(g) /\ db[g].keyName[c + 1] = i
  BY <1>1 DEF ELIInv, SelectionRight
<1>7. /\ crashes = 0 =>
            /\ ListedUpTo(db, g, i - 1)
            /\ \A j \in 1 .. selectionCount(g) : j > i => db[g].value[j] = None
            /\ g = "el" => Empty(db, "rb")
            /\ g = "rb" => ListedUpTo(db, "el", selectionCount("el"))
  BY <1>1 DEF ELIInv, InOneGo
<1> HIDE DEF g, i
<1>8. /\ DOMAIN db' = Group
      /\ \A h \in Group : h # g => db'[h] = db[h]
      /\ DOMAIN db'[g] = {"value", "keyName", "keyCount"}
      /\ db'[g].value = db[g].value /\ db'[g].keyName = db[g].keyName
      /\ db'[g].keyCount = c + 1
  BY <1>1, <1>4 DEF ELIInv, Shape
<1>9. c \in 0 .. selectionCount(g) /\ c + 1 \in 0 .. selectionCount(g)
  BY <1>1, <1>6 DEF ELIInv, Shape
<1>10. \A j \in 1 .. i : db'[g].value[j] # None
  BY <1>1, <1>6, <1>8
<1>11. /\ sel' = Idle \/ /\ sel' \in [group : Group, at : {"put", "name", "count"}, i : Nat]
                         /\ sel'.i \in 1 .. selectionCount(sel'.group)
       /\ sel' # Idle => /\ sel'.at = "put"
                         /\ \A j \in 1 .. (sel'.i - 1) : db'[sel'.group].value[j] # None
  BY <1>1, <1>5, <1>10, GoOn
<1>12. Shape'
  BY <1>1, <1>2, <1>3, <1>8, <1>9, <1>11 DEF ELIInv, Shape, selectionCount
<1>13. ValuesRight'
  <2>1. \A h \in Group : db'[h].value = db[h].value
    BY <1>8
  <2> QED
    BY <1>2, <1>3, <2>1 DEF ELIInv, ValuesRight, selectionCount
<1>14. KeysRight'
  <2> SUFFICES ASSUME NEW h \in Group, NEW k \in 1 .. db'[h].keyCount
               PROVE  /\ db[h].keyName[k] \in k .. selectionCount(h)
                      /\ db[h].value[db[h].keyName[k]] # None
                      /\ \A l \in 1 .. (k - 1) : db[h].keyName[l] < db[h].keyName[k]
    <3>1. \A h \in Group : db'[h].value = db[h].value /\ db'[h].keyName = db[h].keyName
      BY <1>8
    <3> QED
      BY <3>1 DEF KeysRight, selectionCount
  <2>1. CASE k \in 1 .. db[h].keyCount
    BY <2>1 DEF ELIInv, KeysRight
  <2>2. CASE h = g /\ k = c + 1
    <3>1. db[h].keyName[k] = i /\ i \in k .. selectionCount(g)
      <4>1. db[g].keyName[k] = i
        BY <1>6, <2>2
      <4>2. CASE c = 0
        BY <1>1, <2>2, <4>1, <4>2
      <4>3. CASE c # 0
        <5>1. c \in 1 .. c
          BY <1>9, <4>3
        <5>2. db[g].keyName[c] < i /\ db[g].keyName[c] \in c .. selectionCount(g)
          BY <1>1, <1>6, <5>1 DEF ELIInv, KeysRight
        <5> QED
          BY <1>1, <1>9, <2>2, <4>1, <5>2
      <4> QED
        BY <4>2, <4>3
    <3>2. \A l \in 1 .. (k - 1) : l \in 1 .. c
      BY <1>9, <2>2
    <3> QED
      BY <1>6, <2>2, <3>1, <3>2
  <2>3. k \in 1 .. db[h].keyCount \/ (h = g /\ k = c + 1)
    BY <1>8, <1>9
  <2> QED
    BY <2>1, <2>2, <2>3
<1>15. SelectionRight'
  BY <1>11 DEF SelectionRight
<1>16. InOneGo'
  <2> SUFFICES ASSUME crashes = 0
               PROVE  /\ sel' = Idle => /\ ListedUpTo(db', "el", selectionCount("el"))
                                        /\ ListedUpTo(db', "rb", selectionCount("rb"))
                      /\ sel' # Idle =>
                           /\ ListedUpTo(db', sel'.group, sel'.i - 1)
                           /\ \A j \in 1 .. selectionCount(sel'.group) :
                                 j >= sel'.i => db'[sel'.group].value[j] = None
                           /\ sel'.group = "el" => Empty(db', "rb")
                           /\ sel'.group = "rb" => ListedUpTo(db', "el", selectionCount("el"))
    <3>1. sel' # Idle => sel'.i \in Nat /\ selectionCount(sel'.group) \in Nat
      BY <1>11, Counts
    <3> QED
      BY <1>1, <1>2, <3>1 DEF InOneGo, selectionCount
  <2>1. g = "el" => db'["rb"] = db["rb"]
    BY <1>8 DEF Group
  <2>2. g = "rb" => db'["el"] = db["el"]
    BY <1>8 DEF Group
  <2>3. c = i - 1 /\ \A k \in 1 .. (i - 1) : db[g].keyName[k] = k
    BY <1>7 DEF ListedUpTo
  <2>4. ListedUpTo(db', g, i)
    BY <1>1, <1>6, <1>8, <2>3 DEF ListedUpTo
  <2>5. /\ \A j \in 1 .. selectionCount(g) : j > i => db'[g].value[j] = None
        /\ g = "el" => Empty(db', "rb")
        /\ g = "rb" => ListedUpTo(db', "el", selectionCount("el"))
    BY <1>7, <1>8, <2>1, <2>2 DEF ListedUpTo, Empty
  <2> QED
    BY <1>1, <1>5, <2>4, <2>5, GoOnInOneGo
<1> QED
  BY <1>3, <1>12, <1>13, <1>14, <1>15, <1>16 DEF ELIInv

\* The selection of the epoch starts.
LEMMA StepUpdateEpochBlock == ASSUME ELIInv, UpdateEpochBlock PROVE ELIInv'
<1>1. UNCHANGED <<weight, draw, db, ended, crashes>> /\ ~selected /\ selected'
  BY Zenon DEF UpdateEpochBlock
<1>2. selected' \in BOOLEAN
  BY Zenon DEF UpdateEpochBlock
<1>3. sel = Idle
  BY <1>1, Zenon DEF ELIInv, Shape
<1>4. sel' = IF weight = <<>> THEN Idle ELSE From("el", 1)
  BY DEF UpdateEpochBlock
<1>5. N' = N /\ DrawOK' /\ \A h \in Group : Picks(h)' = Picks(h)
  BY <1>1, PicksFixed DEF ELIInv
<1>6. ValuesRight' /\ KeysRight'
  BY <1>1, <1>5 DEF ELIInv, ValuesRight, KeysRight, selectionCount
<1>7. crashes = 0 => Empty(db, "el") /\ Empty(db, "rb")
  BY <1>1 DEF ELIInv, InOneGo
<1>8. "el" \in Group /\ "rb" \in Group /\ selectionCount("el") \in Nat /\ selectionCount("rb") \in Nat
  BY Counts DEF Group
<1>9. CASE sel' = Idle
  <2>1. Shape'
    BY <1>1, <1>2, <1>5, <1>9 DEF ELIInv, Shape, selectionCount
  <2>2. SelectionRight'
    BY <1>9 DEF SelectionRight
  <2>3. weight # <<>> => selectionCount("el") = 0 /\ selectionCount("rb") = 0
    <3> SUFFICES ASSUME weight # <<>> PROVE selectionCount("el") = 0 /\ selectionCount("rb") = 0
      OBVIOUS
    <3>1. From("el", 1) = Idle
      BY <1>4, <1>9
    <3>2. /\ [group |-> "el", i |-> 1, at |-> "put"] # Idle
          /\ [group |-> "rb", i |-> 1, at |-> "put"] # Idle
      BY DEF Idle
    <3>3. 1 > selectionCount("el") /\ selectionCount("rb") = 0
      BY <1>8, <3>1, <3>2, FromCases
    <3> QED
      BY <1>8, <3>3
  <2>4. InOneGo'
    <3>1. weight # <<>> /\ crashes = 0 => /\ ListedUpTo(db, "el", selectionCount("el"))
                                          /\ ListedUpTo(db, "rb", selectionCount("rb"))
      BY <1>7, <2>3 DEF ListedUpTo, Empty
    <3>2. /\ ListedUpTo(db, "el", selectionCount("el"))' = ListedUpTo(db, "el", selectionCount("el"))
          /\ ListedUpTo(db, "rb", selectionCount("rb"))' = ListedUpTo(db, "rb", selectionCount("rb"))
      BY <1>1 DEF ListedUpTo, selectionCount
    <3> QED
      BY <1>1, <1>9, <3>1, <3>2 DEF InOneGo, Idle
  <2> QED
    BY <1>5, <1>6, <2>1, <2>2, <2>4 DEF ELIInv
<1>10. ASSUME NEW g \in Group, 1 <= selectionCount(g), weight # <<>>,
              sel' = [group |-> g, i |-> 1, at |-> "put"],
              g = "rb" => selectionCount("el") = 0
       PROVE  ELIInv'
  <2>1. sel' # Idle /\ sel'.group = g /\ sel'.i = 1 /\ sel'.at = "put" /\ sel'.i - 1 = 0
    BY <1>10 DEF Idle
  <2>2. sel' \in [group : Group, at : {"put", "name", "count"}, i : Nat]
    BY <1>10
  <2>3. 1 \in 1 .. selectionCount(g)
    BY <1>10, Counts
  <2>4. Shape'
    BY <1>1, <1>2, <1>5, <1>10, <2>1, <2>2, <2>3 DEF ELIInv, Shape, selectionCount
  <2>5. SelectionRight'
    BY <2>1 DEF SelectionRight
  <2>6. InOneGo'
    <3> SUFFICES ASSUME crashes = 0
                 PROVE  /\ ListedUpTo(db, g, 0)
                        /\ \A j \in 1 .. selectionCount(g) : db[g].value[j] = None
                        /\ g = "el" => Empty(db, "rb")
                        /\ g = "rb" => ListedUpTo(db, "el", selectionCount("el"))
      BY <1>1, <2>1 DEF InOneGo, ListedUpTo, Empty, selectionCount
    <3> QED
      BY <1>7, <1>10 DEF ListedUpTo, Empty, Group
  <2> QED
    BY <1>5, <1>6, <2>4, <2>5, <2>6 DEF ELIInv
<1> QED
  <2>1. CASE sel' # Idle
    <3>1. weight # <<>> /\ sel' = From("el", 1)
      BY <1>4, <2>1
    <3>2. \/ 1 <= selectionCount("el") /\ sel' = [group |-> "el", i |-> 1, at |-> "put"]
          \/ /\ 1 > selectionCount("el") /\ selectionCount("rb") > 0
             /\ sel' = [group |-> "rb", i |-> 1, at |-> "put"]
      BY <1>8, <2>1, <3>1, FromCases
    <3>3. CASE 1 <= selectionCount("el") /\ sel' = [group |-> "el", i |-> 1, at |-> "put"]
      BY <1>8, <1>10, <3>1, <3>3
    <3>4. CASE /\ 1 > selectionCount("el") /\ selectionCount("rb") > 0
               /\ sel' = [group |-> "rb", i |-> 1, at |-> "put"]
      <4>1. selectionCount("el") = 0 /\ 1 <= selectionCount("rb")
        BY <1>8, <3>4
      <4> QED
        BY <1>8, <1>10, <3>1, <3>4, <4>1
    <3> QED
      BY <3>2, <3>3, <3>4
  <2> QED
    BY <1>9, <2>1

\* The epoch ends.
LEMMA StepEpochEnds == ASSUME ELIInv, EpochEnds PROVE ELIInv'
<1>1. UNCHANGED <<weight, draw, db, sel, selected, crashes>>
  BY DEF EpochEnds
<1>2. ended' \in BOOLEAN
  BY Zenon DEF EpochEnds
<1>3. N' = N /\ DrawOK' /\ \A h \in Group : Picks(h)' = Picks(h)
  BY <1>1, PicksFixed DEF ELIInv
<1>4. Shape'
  BY <1>1, <1>2, <1>3 DEF ELIInv, Shape, selectionCount
<1>5. ValuesRight' /\ KeysRight' /\ SelectionRight'
  BY <1>1, <1>3 DEF ELIInv, ValuesRight, KeysRight, SelectionRight, selectionCount
<1>6. InOneGo'
  BY <1>1 DEF ELIInv, InOneGo, ListedUpTo, Empty, selectionCount
<1> QED
  BY <1>3, <1>4, <1>5, <1>6 DEF ELIInv

\* What a crash leaves behind: values that are the drawn ones up to some
\* place, of which some are not listed.
LEMMA StepCrash == ASSUME ELIInv, Crash PROVE ELIInv'
<1>1. UNCHANGED <<weight, draw, db, ended>> /\ sel' = Idle
  BY DEF Crash
<1>2. selected' \in BOOLEAN
  BY Zenon DEF Crash
<1>3. crashes' \in 0 .. MaxCrashes /\ crashes' # 0
  BY EpochLeaderAssumption DEF Crash, ELIInv, Shape
<1>4. N' = N /\ DrawOK' /\ \A h \in Group : Picks(h)' = Picks(h)
  BY <1>1, PicksFixed DEF ELIInv
<1>5. Shape'
  BY <1>1, <1>2, <1>3, <1>4 DEF ELIInv, Shape, selectionCount
<1>6. ValuesRight' /\ KeysRight' /\ SelectionRight'
  BY <1>1, <1>4 DEF ELIInv, ValuesRight, KeysRight, SelectionRight, selectionCount
<1>7. InOneGo'
  BY <1>3 DEF InOneGo
<1> QED
  BY <1>4, <1>5, <1>6, <1>7 DEF ELIInv

\* A step that changes nothing.
LEMMA StepStutter == ASSUME ELIInv, UNCHANGED elvars PROVE ELIInv'
<1>1. UNCHANGED <<weight, draw, db, sel, selected, ended, crashes>>
  BY DEF elvars
<1>2. N' = N /\ DrawOK' /\ \A h \in Group : Picks(h)' = Picks(h)
  BY <1>1, PicksFixed DEF ELIInv
<1>3. Shape'
  BY <1>1, <1>2 DEF ELIInv, Shape, selectionCount
<1>4. ValuesRight' /\ KeysRight' /\ SelectionRight'
  BY <1>1, <1>2 DEF ELIInv, ValuesRight, KeysRight, SelectionRight, selectionCount
<1>5. InOneGo'
  BY <1>1 DEF ELIInv, InOneGo, ListedUpTo, Empty, selectionCount
<1> QED
  BY <1>2, <1>3, <1>4, <1>5 DEF ELIInv

\* The invariant holds in every reachable state.
LEMMA ELAlways == ELSpec => []ELIInv
<1>1. ELIInv /\ [ELNext]_elvars => ELIInv'
  BY StepUpdateEpochBlock, StepPutValue, StepPutKeyName, StepPutKeyCount, StepEpochEnds,
     StepCrash, StepStutter DEF ELNext
<1> QED
  BY ELInitInv, <1>1, PTL DEF ELSpec
-----------------------------------------------------------------------------
(***************************************************************************)
(* What follows for those who read the databases.                          *)
(***************************************************************************)

\* In any state the selection can be in, whoever draws gets each validator
\* for as many residues as its probability; the databases have their types.
THEOREM AlwaysFairDraw == ELSpec => []FairDraw
<1>1. ASSUME ELIInv PROVE FairDraw
  <2>1. FairShare
    BY <1>1, ShareIsFair DEF ELIInv, DrawOK
  <2>2. ASSUME sel # Idle
        PROVE  sel \in [group : Group, at : {"put", "name", "count"},
                        i : 1 .. (EpochLeaderCount + RandomProperCount)]
    <3>1. /\ sel \in [group : Group, at : {"put", "name", "count"}, i : Nat]
          /\ sel.i \in 1 .. selectionCount(sel.group)
      BY <1>1, <2>2 DEF ELIInv, Shape
    <3>2. selectionCount(sel.group) \in 0 .. (EpochLeaderCount + RandomProperCount)
      BY EpochLeaderAssumption DEF selectionCount
    <3>3. sel.i \in 1 .. (EpochLeaderCount + RandomProperCount)
      BY <3>1, <3>2, EpochLeaderAssumption
    <3> QED
      BY <3>1, <3>3
  <2>3. ELTypeOK
    BY <1>1, <2>2 DEF ELIInv, Shape, ELTypeOK, N
  <2> QED
    BY <2>1, <2>3 DEF FairDraw
<1> QED
  BY ELAlways, <1>1, PTL

\* What is read of a group is its list of keys, each with its value.
LEMMA ReadGroup ==
    ASSUME ELIInv, NEW g \in Group
    PROVE  /\ db[g].keyCount \in 0 .. selectionCount(g)
           /\ DOMAIN getAllKeys(g) = 1 .. db[g].keyCount
           /\ DOMAIN GetStorageByteArray(g) = 1 .. db[g].keyCount
           /\ \A k \in 1 .. db[g].keyCount :
                 /\ getAllKeys(g)[k] = db[g].keyName[k]
                 /\ db[g].keyName[k] \in 1 .. selectionCount(g)
                 /\ GetStorageByteArray(g)[k] = Picks(g)[db[g].keyName[k]]
                 /\ GetStorageByteArray(g)[k] \in 1 .. N
           /\ GetStorageByteArray(g) \in Seq(1 .. N)
           /\ Len(GetStorageByteArray(g)) = db[g].keyCount
<1>1. db[g].keyCount \in 0 .. selectionCount(g) /\ selectionCount(g) \in Nat
  BY Counts DEF ELIInv, Shape
<1>2. ASSUME NEW k \in 1 .. db[g].keyCount
      PROVE  /\ getAllKeys(g)[k] = db[g].keyName[k]
             /\ db[g].keyName[k] \in 1 .. selectionCount(g)
             /\ GetStorageByteArray(g)[k] = Picks(g)[db[g].keyName[k]]
             /\ GetStorageByteArray(g)[k] \in 1 .. N
  <2>1. getAllKeys(g)[k] = db[g].keyName[k]
    BY DEF getAllKeys
  <2>2. db[g].keyName[k] \in k .. selectionCount(g) /\ db[g].value[db[g].keyName[k]] # None
    BY DEF ELIInv, KeysRight
  <2>3. db[g].keyName[k] \in 1 .. selectionCount(g)
    BY <1>1, <2>2
  <2>4. db[g].value[db[g].keyName[k]] = Picks(g)[db[g].keyName[k]] /\ weight # <<>>
    BY <2>2, <2>3 DEF ELIInv, ValuesRight
  <2>5. GetStorageByteArray(g)[k] = Picks(g)[db[g].keyName[k]]
    BY <2>1, <2>4 DEF GetStorageByteArray
  <2> QED
    BY <2>1, <2>3, <2>4, <2>5, PicksRight DEF ELIInv
<1>3. DOMAIN getAllKeys(g) = 1 .. db[g].keyCount /\ DOMAIN GetStorageByteArray(g) = 1 .. db[g].keyCount
  BY DEF getAllKeys, GetStorageByteArray
<1>4. GetStorageByteArray(g) \in [1 .. db[g].keyCount -> 1 .. N]
  BY <1>2 DEF GetStorageByteArray
<1>5. GetStorageByteArray(g) \in Seq(1 .. N)
  <2>1. db[g].keyCount \in Nat
    BY <1>1
  <2> QED
    BY <1>4, <2>1, SeqDef
<1>6. Len(GetStorageByteArray(g)) = db[g].keyCount
  BY <1>1, <1>3, <1>5, LenProperties
<1> QED
  BY <1>1, <1>2, <1>3, <1>5, <1>6

\* A list with all the keys is the list of all places in order: the last
\* key can only be the last place, and each key is below the next one.
LEMMA FullKeys ==
    ASSUME ELIInv, NEW g \in Group, db[g].keyCount = selectionCount(g)
    PROVE  ListedUpTo(db, g, selectionCount(g))
<1> DEFINE n == selectionCount(g)
           C == {m \in Nat : m < n /\ db[g].keyName[n - m] # n - m}
<1>1. n \in Nat
  BY Counts
<1>2. ASSUME NEW k \in 1 .. n
      PROVE  /\ db[g].keyName[k] \in k .. n
             /\ \A l \in 1 .. (k - 1) : db[g].keyName[l] < db[g].keyName[k]
  BY DEF ELIInv, KeysRight
<1>3. C = {}
  <2> SUFFICES ASSUME C # {} PROVE FALSE
    OBVIOUS
  <2>1. PICK m \in C : \A j \in C : m <= j
    <3>1. C \in SUBSET Nat
      OBVIOUS
    <3> HIDE DEF C
    <3> QED
      BY <3>1, LeastNatural
  <2> DEFINE k == n - m
  <2>2. m \in Nat /\ m < n /\ k \in 1 .. n /\ db[g].keyName[k] # k
    BY <1>1
  <2>3. db[g].keyName[k] \in k .. n
    BY <1>2, <2>2
  <2>4. CASE m = 0
    BY <1>1, <2>2, <2>3, <2>4
  <2>5. CASE m # 0
    <3>1. m - 1 \in Nat /\ m - 1 < n /\ m - 1 \notin C
      BY <1>1, <2>1, <2>2, <2>5
    <3>2. k + 1 \in 1 .. n /\ n - (m - 1) = k + 1 /\ k \in 1 .. ((k + 1) - 1)
      BY <1>1, <2>2, <2>5
    <3>3. db[g].keyName[k + 1] = k + 1
      BY <3>1, <3>2
    <3>4. db[g].keyName[k] < k + 1
      BY <1>2, <3>2, <3>3
    <3> QED
      BY <1>1, <2>2, <2>3, <3>4
  <2> QED
    BY <2>4, <2>5
<1>4. ASSUME NEW k \in 1 .. n PROVE db[g].keyName[k] = k
  <2>1. n - k \in Nat /\ n - k < n /\ n - (n - k) = k
    BY <1>1
  <2>2. n - k \notin C
    BY <1>3
  <2> QED
    BY <2>1, <2>2
<1> QED
  BY <1>4 DEF ListedUpTo

\* A group that is listed to the last place is read as it was drawn.
LEMMA ReadFull ==
    ASSUME ELIInv, NEW g \in Group, ListedUpTo(db, g, selectionCount(g))
    PROVE  GetStorageByteArray(g) = Picks(g)
<1>1. db[g].keyCount = selectionCount(g) /\ \A k \in 1 .. selectionCount(g) : db[g].keyName[k] = k
  BY DEF ListedUpTo
<1>2. DOMAIN Picks(g) = 1 .. selectionCount(g)
  BY DEF Picks
<1>3. DOMAIN GetStorageByteArray(g) = 1 .. selectionCount(g)
  BY <1>1, ReadGroup
<1>4. \A k \in 1 .. selectionCount(g) : GetStorageByteArray(g)[k] = Picks(g)[k]
  BY <1>1, ReadGroup
<1>5. /\ GetStorageByteArray(g) = [k \in DOMAIN GetStorageByteArray(g) |-> GetStorageByteArray(g)[k]]
      /\ Picks(g) = [k \in DOMAIN Picks(g) |-> Picks(g)[k]]
  BY DEF GetStorageByteArray, Picks
<1> QED
  BY <1>2, <1>3, <1>4, <1>5

\* Also in the middle of a write and after crashes, a group is read in the
\* order of the draw, without repetition and with the validators drawn; a
\* group of the full size is the group that was drawn (posdb's put and
\* saveKey, GetEpochLeaders and its white list).
THEOREM AlwaysReadsRight == ELSpec => []ReadsRight
<1>1. ASSUME ELIInv PROVE ReadsRight
  <2>1. ListedInOrder
    <3> SUFFICES ASSUME NEW g \in Group
                 PROVE  /\ \A a, b \in DOMAIN getAllKeys(g) :
                              a < b => getAllKeys(g)[a] < getAllKeys(g)[b]
                        /\ \A a \in DOMAIN getAllKeys(g) :
                              GetStorageByteArray(g)[a] = Picks(g)[getAllKeys(g)[a]]
      BY DEF ListedInOrder
    <3>1. ASSUME NEW a \in 1 .. db[g].keyCount, NEW b \in 1 .. db[g].keyCount, a < b
          PROVE  db[g].keyName[a] < db[g].keyName[b]
      <4>1. a \in 1 .. (b - 1)
        BY <1>1, <3>1, ReadGroup, Counts
      <4> QED
        BY <1>1, <4>1 DEF ELIInv, KeysRight
    <3> QED
      BY <1>1, <3>1, ReadGroup
  <2>2. FullIsRight
    <3> SUFFICES ASSUME Len(GetEpochLeaders) = EpochLeaderCount
                 PROVE  GetEpochLeaders = Picks("el") \o White
      BY DEF FullIsRight
    <3> DEFINE ep == GetStorageByteArray("el")
    <3>1. "el" \in Group /\ selectionCount("el") = EpochLeaderCount - Len(White) /\ Len(White) \in Nat
      BY EpochLeaderAssumption, Counts DEF Group
    <3>2. Len(ep) = db["el"].keyCount /\ db["el"].keyCount \in 0 .. selectionCount("el")
      BY <1>1, <3>1, ReadGroup
    <3>3. GetEpochLeaders = IF Len(ep) = EpochLeaderCount - Len(White) THEN ep \o White ELSE ep
      BY DEF GetEpochLeaders
    <3> HIDE DEF ep
    <3>4. Len(ep) = EpochLeaderCount - Len(White)
      <4> SUFFICES ASSUME Len(ep) # EpochLeaderCount - Len(White) PROVE FALSE
        OBVIOUS
      <4>1. Len(ep) = EpochLeaderCount
        BY <3>3
      <4> QED
        BY <3>1, <3>2, <4>1, EpochLeaderAssumption
    <3>5. ep = Picks("el")
      BY <1>1, <3>1, <3>2, <3>4, FullKeys, ReadFull DEF ep
    <3> QED
      BY <3>3, <3>4, <3>5
  <2> QED
    BY <2>1, <2>2 DEF ReadsRight
<1> QED
  BY ELAlways, <1>1, PTL

\* A node that did not crash has, once its selection has ended, the groups
\* every other node draws from the same state (SelectLeadersLoop).
THEOREM AlwaysAgreeUnlessCrashed == ELSpec => []AgreeUnlessCrashed
<1>1. ASSUME ELIInv PROVE AgreeUnlessCrashed
  <2> SUFFICES ASSUME crashes = 0, selected, sel = Idle, weight # <<>>
               PROVE  GetEpochLeaders = Picks("el") \o White /\ GetRBProposerGroup = Picks("rb")
    BY DEF AgreeUnlessCrashed, SelectedAgree
  <2>1. "el" \in Group /\ "rb" \in Group
    BY DEF Group
  <2>2. ListedUpTo(db, "el", selectionCount("el")) /\ ListedUpTo(db, "rb", selectionCount("rb"))
    BY <1>1 DEF ELIInv, InOneGo
  <2>3. GetStorageByteArray("el") = Picks("el") /\ GetStorageByteArray("rb") = Picks("rb")
    BY <1>1, <2>1, <2>2, ReadFull
  <2>4. Len(GetStorageByteArray("el")) = EpochLeaderCount - Len(White)
    BY <1>1, <2>1, <2>2, ReadGroup, Counts DEF ListedUpTo
  <2> QED
    BY <2>3, <2>4 DEF GetEpochLeaders, GetRBProposerGroup
<1> QED
  BY ELAlways, <1>1, PTL
=============================================================================
