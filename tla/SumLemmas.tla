----------------------------- MODULE SumLemmas ------------------------------
(***************************************************************************)
(* Facts about least numbers, smallest sets and the sums of module         *)
(* Functions that the proofs about the components rest on.  The sum of a   *)
(* function over a set is defined by picking one element after the other;  *)
(* that it depends neither on the order nor on the set it was picked from  *)
(* is proved by taking a smallest counterexample, whose smaller subsets    *)
(* are no counterexamples.                                                 *)
(***************************************************************************)
EXTENDS Integers, FiniteSets, FiniteSetsExt, Functions, FiniteSetTheorems, TLAPS

\* Every nonempty set of natural numbers has a least element.
LEMMA LeastNatural ==
    ASSUME NEW S \in SUBSET Nat, S # {}
    PROVE  \E m \in S : \A n \in S : m <= n
<1> DEFINE R == OpToRel(<, Nat)
<1>1. IsWellFoundedOn(R, Nat)
  BY NatLessThanWellFounded
<1> HIDE DEF R
<1>2. PICK m \in S : \A n \in S : ~ (<<n, m>> \in R)
  BY <1>1, WFMin
<1>3. ASSUME NEW n \in S, n < m PROVE <<n, m>> \in R
  BY <1>3 DEF R, OpToRel
<1>4. ASSUME NEW n \in S PROVE m <= n
  <2>1. n \in Int /\ m \in Int
    OBVIOUS
  <2>2. ~ (n < m)
    BY <1>2, <1>3
  <2> QED
    BY <2>1, <2>2
<1> QED
  BY <1>4

\* So the Min of such a set is what it says.
LEMMA MinOfNaturals ==
    ASSUME NEW S \in SUBSET Nat, S # {}
    PROVE  Min(S) \in S /\ \A n \in S : Min(S) <= n
  BY LeastNatural DEF Min

\* The greater of two numbers.
LEMMA MaxOfTwo ==
    ASSUME NEW a \in Int, NEW b \in Int
    PROVE  Max({a, b}) = IF a >= b THEN a ELSE b
  BY DEF Max

\* Among the subsets of a finite set, a nonempty collection has a member
\* none of whose proper subsets is in it.
LEMMA SmallestSet ==
    ASSUME NEW S, IsFiniteSet(S), NEW C \in SUBSET (SUBSET S), C # {}
    PROVE  \E T \in C : \A U \in SUBSET T : U # T => U \notin C
<1> DEFINE R == StrictSubsetOrdering(S)
<1>1. IsWellFoundedOn(R, SUBSET S)
  BY FS_StrictSubsetOrderingWellFounded, FS_FiniteSubsetsOfFinite
<1> HIDE DEF R
<1>2. PICK T \in C : \A U \in C : ~ (<<U, T>> \in R)
  BY <1>1, WFMin
<1>3. ASSUME NEW U \in SUBSET T, U # T PROVE U \notin C
  <2> SUFFICES ASSUME U \in C PROVE FALSE
    OBVIOUS
  <2>1. <<U, T>> \in R
    BY <1>3 DEF R, StrictSubsetOrdering
  <2> QED
    BY <1>2, <2>1
<1> QED
  BY <1>3
-----------------------------------------------------------------------------
\* g adds up the values of f over every subset of S.
AddsUp(f, S, g) ==
    g = [s \in SUBSET S |->
            IF s = {} THEN 0
            ELSE f[CHOOSE x \in s : TRUE] + g[s \ {CHOOSE x \in s : TRUE}]]

\* The sum is the value at S of a function that adds up.
LEMMA SumDef ==
    ASSUME NEW f, NEW S
    PROVE  SumFunctionOnSet(f, S) = (CHOOSE g : AddsUp(f, S, g))[S]
  BY DEF SumFunctionOnSet, FoldFunctionOnSet, MapThenFoldSet, AddsUp

\* There is such a g: for the subsets with at most n elements by induction
\* on n.
LEMMA AddsUpExists ==
    ASSUME NEW f, NEW S, IsFiniteSet(S)
    PROVE  \E g : AddsUp(f, S, g)
<1> DEFINE el(s) == CHOOSE x \in s : TRUE
           Upto(n) == {s \in SUBSET S : Cardinality(s) <= n}
           val(h, s) == IF s = {} THEN 0 ELSE f[el(s)] + h[s \ {el(s)}]
           Good(n) == \E g : g = [s \in Upto(n) |-> val(g, s)]
           Bad == {n \in Nat : ~Good(n)}
<1>1. ASSUME NEW s \in SUBSET S
      PROVE  /\ Cardinality(s) \in Nat
             /\ s = {} <=> Cardinality(s) = 0
             /\ s # {} => /\ el(s) \in s /\ s \ {el(s)} \in SUBSET S
                          /\ Cardinality(s \ {el(s)}) = Cardinality(s) - 1
  <2>1. IsFiniteSet(s) /\ Cardinality(s) \in Nat
    BY FS_Subset, FS_CardinalityType
  <2>2. s = {} <=> Cardinality(s) = 0
    BY <2>1, FS_EmptySet
  <2>3. s # {} => el(s) \in s
    OBVIOUS
  <2> HIDE DEF el
  <2>4. ASSUME s # {} PROVE Cardinality(s \ {el(s)}) = Cardinality(s) - 1
    BY <2>1, <2>3, <2>4, FS_RemoveElement
  <2> QED
    BY <2>1, <2>2, <2>3, <2>4
<1> HIDE DEF el
<1>2. Good(0)
  <2>1. ASSUME NEW s \in Upto(0) PROVE s = {}
    <3>1. s \in SUBSET S /\ Cardinality(s) <= 0
      OBVIOUS
    <3>2. Cardinality(s) \in Nat /\ (s = {} <=> Cardinality(s) = 0)
      BY <1>1, <3>1
    <3> QED
      BY <3>1, <3>2
  <2> DEFINE g == [s \in Upto(0) |-> 0]
  <2>2. g = [s \in Upto(0) |-> val(g, s)]
    BY <2>1
  <2> QED
    BY <2>2
<1>3. ASSUME NEW n \in Nat, Good(n) PROVE Good(n + 1)
  <2>1. PICK g : g = [s \in Upto(n) |-> val(g, s)]
    BY <1>3
  <2> DEFINE h == [s \in Upto(n + 1) |-> val(g, s)]
  <2>2. ASSUME NEW s \in Upto(n + 1), s # {} PROVE h[s \ {el(s)}] = g[s \ {el(s)}]
    <3>1. s \ {el(s)} \in Upto(n) /\ s \ {el(s)} \in Upto(n + 1)
      BY <1>1, <2>2
    <3>2. h[s \ {el(s)}] = val(g, s \ {el(s)})
      BY <3>1
    <3>3. g[s \ {el(s)}] = val(g, s \ {el(s)})
      BY <2>1, <3>1
    <3> QED
      BY <3>2, <3>3
  <2>3. h = [s \in Upto(n + 1) |-> val(h, s)]
    <3>1. \A s \in Upto(n + 1) : val(g, s) = val(h, s)
      BY <2>2
    <3> HIDE DEF val
    <3> QED
      BY <3>1
  <2> QED
    BY <2>3
<1>4. Bad = {}
  <2> SUFFICES ASSUME Bad # {} PROVE FALSE
    OBVIOUS
  <2>1. PICK m \in Bad : \A n \in Bad : m <= n
    BY LeastNatural
  <2> HIDE DEF Good
  <2>2. m # 0 /\ m - 1 \in Nat /\ m - 1 \notin Bad
    BY <1>2, <2>1
  <2> QED
    BY <1>3, <2>1, <2>2, m - 1 + 1 = m
<1>5. Cardinality(S) \in Nat /\ Upto(Cardinality(S)) = SUBSET S
  BY FS_CardinalityType, FS_Subset
<1>6. Good(Cardinality(S))
  BY <1>4, <1>5
<1> QED
  BY <1>5, <1>6 DEF AddsUp, el

\* What was picked from a larger set adds up to the same: any g that adds up
\* f over S gives the sum over each subset of S.
LEMMA SumOfSubset ==
    ASSUME NEW f, NEW S, IsFiniteSet(S), NEW g, AddsUp(f, S, g), NEW T \in SUBSET S
    PROVE  SumFunctionOnSet(f, T) = g[T]
<1> DEFINE el(s) == CHOOSE x \in s : TRUE
           h == CHOOSE h : AddsUp(f, T, h)
           C == {s \in SUBSET T : h[s] # g[s]}
<1>1. IsFiniteSet(T)
  BY FS_Subset
<1>2. AddsUp(f, T, h)
  BY <1>1, AddsUpExists
<1>3. \A s \in SUBSET T : h[s] = IF s = {} THEN 0 ELSE f[el(s)] + h[s \ {el(s)}]
  BY <1>2 DEF AddsUp
<1>4. \A s \in SUBSET T : g[s] = IF s = {} THEN 0 ELSE f[el(s)] + g[s \ {el(s)}]
  BY DEF AddsUp
<1>5. \A s : s # {} => el(s) \in s
  OBVIOUS
<1> HIDE DEF h, el
<1>6. C = {}
  <2> SUFFICES ASSUME C # {} PROVE FALSE
    OBVIOUS
  <2>1. PICK s \in C : \A u \in SUBSET s : u # s => u \notin C
    <3>1. C \in SUBSET (SUBSET T)
      OBVIOUS
    <3> HIDE DEF C
    <3> QED
      BY <1>1, <3>1, SmallestSet
  <2>2. s # {}
    BY <1>3, <1>4
  <2>3. s \ {el(s)} \in SUBSET s /\ s \ {el(s)} # s
    BY <1>5, <2>2
  <2>4. h[s \ {el(s)}] = g[s \ {el(s)}]
    BY <2>1, <2>3
  <2> QED
    BY <1>3, <1>4, <2>2, <2>4
<1>7. h[T] = g[T]
  BY <1>6
<1> QED
  BY <1>7, SumDef DEF h

\* The sum over nothing, and the first element picked.
LEMMA SumUnfold ==
    ASSUME NEW f, NEW S, IsFiniteSet(S)
    PROVE  /\ SumFunctionOnSet(f, {}) = 0
           /\ S # {} =>
                \E c \in S : SumFunctionOnSet(f, S) = f[c] + SumFunctionOnSet(f, S \ {c})
<1>1. PICK g : AddsUp(f, S, g)
  BY AddsUpExists
<1>2. \A T \in SUBSET S : SumFunctionOnSet(f, T) = g[T]
  BY <1>1, SumOfSubset
<1> DEFINE c == CHOOSE x \in S : TRUE
<1>3. g[{}] = 0 /\ (S # {} => g[S] = f[c] + g[S \ {c}])
  BY <1>1 DEF AddsUp
<1>4. S # {} => c \in S
  OBVIOUS
<1> HIDE DEF c
<1> QED
  BY <1>2, <1>3, <1>4

\* A sum of integers is one, a sum of natural numbers is one.
LEMMA SumType ==
    ASSUME NEW f, NEW S, IsFiniteSet(S), \A x \in S : f[x] \in Int
    PROVE  /\ SumFunctionOnSet(f, S) \in Int
           /\ (\A x \in S : f[x] \in Nat) => SumFunctionOnSet(f, S) \in Nat
<1> DEFINE Typed(T) == /\ SumFunctionOnSet(f, T) \in Int
                       /\ (\A x \in T : f[x] \in Nat) => SumFunctionOnSet(f, T) \in Nat
           C == {T \in SUBSET S : ~Typed(T)}
<1>1. C = {}
  <2> SUFFICES ASSUME C # {} PROVE FALSE
    OBVIOUS
  <2>1. PICK T \in C : \A U \in SUBSET T : U # T => U \notin C
    <3>1. C \in SUBSET (SUBSET S)
      OBVIOUS
    <3> HIDE DEF C
    <3> QED
      BY <3>1, SmallestSet
  <2>2. IsFiniteSet(T)
    BY FS_Subset
  <2>3. T # {}
    <3>1. SumFunctionOnSet(f, {}) = 0
      BY FS_EmptySet, SumUnfold
    <3> QED
      BY <3>1
  <2>4. PICK c \in T : SumFunctionOnSet(f, T) = f[c] + SumFunctionOnSet(f, T \ {c})
    BY <2>2, <2>3, SumUnfold
  <2>5. Typed(T \ {c})
    BY <2>1, <2>4
  <2>6. Typed(T)
    BY <2>4, <2>5
  <2> QED
    BY <2>6
<1> QED
  BY <1>1

\* Any element may be picked first.
LEMMA SumPick ==
    ASSUME NEW f, NEW S, IsFiniteSet(S), \A x \in S : f[x] \in Int, NEW y \in S
    PROVE  SumFunctionOnSet(f, S) = f[y] + SumFunctionOnSet(f, S \ {y})
<1> DEFINE sum(T) == SumFunctionOnSet(f, T)
           Any(T) == \A x \in T : sum(T) = f[x] + sum(T \ {x})
           C == {T \in SUBSET S : ~Any(T)}
<1>1. \A T \in SUBSET S : IsFiniteSet(T) /\ sum(T) \in Int
  BY FS_Subset, SumType
<1>2. C = {}
  <2> SUFFICES ASSUME C # {} PROVE FALSE
    OBVIOUS
  <2>1. PICK T \in C : \A U \in SUBSET T : U # T => U \notin C
    <3>1. C \in SUBSET (SUBSET S)
      OBVIOUS
    <3> HIDE DEF C
    <3> QED
      BY <3>1, SmallestSet
  <2>2. PICK x \in T : sum(T) # f[x] + sum(T \ {x})
    OBVIOUS
  <2>3. PICK c \in T : sum(T) = f[c] + sum(T \ {c})
    BY <1>1, <2>2, SumUnfold, ZenonT(60)
  <2>4. x # c
    BY <2>2, <2>3
  <2>5. Any(T \ {x}) /\ Any(T \ {c})
    BY <2>1, <2>2, <2>3
  <2>6. sum(T \ {x}) = f[c] + sum((T \ {x}) \ {c})
    BY <2>4, <2>5
  <2>7. sum(T \ {c}) = f[x] + sum((T \ {c}) \ {x})
    BY <2>4, <2>5
  <2>8. (T \ {x}) \ {c} = (T \ {c}) \ {x} /\ (T \ {x}) \ {c} \in SUBSET S
    OBVIOUS
  <2>9. f[x] \in Int /\ f[c] \in Int /\ sum((T \ {x}) \ {c}) \in Int
    BY <1>1, <2>8
  <2> DEFINE rest == sum((T \ {x}) \ {c})
  <2>10. sum(T) = f[c] + (f[x] + rest) /\ sum(T \ {x}) = f[c] + rest
    BY <2>3, <2>6, <2>7, <2>8
  <2> HIDE DEF sum, rest
  <2>11. f[c] + (f[x] + rest) = f[x] + (f[c] + rest)
    BY <2>9 DEF rest
  <2> QED
    BY <2>2, <2>10, <2>11
<1> QED
  BY <1>2

\* One more element adds its value.
LEMMA SumAdd ==
    ASSUME NEW f, NEW S, IsFiniteSet(S), NEW y, y \notin S, \A x \in S \cup {y} : f[x] \in Int
    PROVE  SumFunctionOnSet(f, S \cup {y}) = SumFunctionOnSet(f, S) + f[y]
<1>1. IsFiniteSet(S \cup {y}) /\ (S \cup {y}) \ {y} = S
  BY FS_AddElement
<1>2. SumFunctionOnSet(f, S \cup {y}) = f[y] + SumFunctionOnSet(f, S)
  BY <1>1, SumPick
<1>3. f[y] \in Int /\ SumFunctionOnSet(f, S) \in Int
  BY SumType
<1> QED
  BY <1>2, <1>3

\* Functions that agree on the set have the same sum, and one that is
\* nowhere greater has no greater sum.
LEMMA SumCompare ==
    ASSUME NEW f, NEW g, NEW S, IsFiniteSet(S),
           \A x \in S : f[x] \in Int /\ g[x] \in Int /\ f[x] <= g[x]
    PROVE  SumFunctionOnSet(f, S) <= SumFunctionOnSet(g, S)
<1> DEFINE C == {T \in SUBSET S : ~(SumFunctionOnSet(f, T) <= SumFunctionOnSet(g, T))}
<1>1. \A T \in SUBSET S : /\ IsFiniteSet(T)
                          /\ SumFunctionOnSet(f, T) \in Int /\ SumFunctionOnSet(g, T) \in Int
  BY FS_Subset, SumType
<1>2. C = {}
  <2> SUFFICES ASSUME C # {} PROVE FALSE
    OBVIOUS
  <2>1. PICK T \in C : \A U \in SUBSET T : U # T => U \notin C
    <3>1. C \in SUBSET (SUBSET S)
      OBVIOUS
    <3> HIDE DEF C
    <3> QED
      BY <3>1, SmallestSet
  <2>2. T # {}
    <3>1. SumFunctionOnSet(f, {}) = 0 /\ SumFunctionOnSet(g, {}) = 0
      BY FS_EmptySet, SumUnfold
    <3> QED
      BY <3>1
  <2>3. PICK c \in T : TRUE
    BY <2>2
  <2>4. SumFunctionOnSet(f, T \ {c}) <= SumFunctionOnSet(g, T \ {c})
    BY <2>1
  <2>5. /\ SumFunctionOnSet(f, T) = f[c] + SumFunctionOnSet(f, T \ {c})
        /\ SumFunctionOnSet(g, T) = g[c] + SumFunctionOnSet(g, T \ {c})
    BY <1>1, SumPick
  <2>6. /\ SumFunctionOnSet(f, T \ {c}) \in Int /\ SumFunctionOnSet(g, T \ {c}) \in Int
        /\ f[c] \in Int /\ g[c] \in Int /\ f[c] <= g[c]
    BY <1>1
  <2> QED
    BY <2>4, <2>5, <2>6
<1> QED
  BY <1>2

\* Functions that agree on the set have the same sum.
LEMMA SumSame ==
    ASSUME NEW f, NEW g, NEW S, IsFiniteSet(S), \A x \in S : f[x] \in Int /\ f[x] = g[x]
    PROVE  SumFunctionOnSet(f, S) = SumFunctionOnSet(g, S)
<1>1. /\ SumFunctionOnSet(f, S) <= SumFunctionOnSet(g, S)
      /\ SumFunctionOnSet(g, S) <= SumFunctionOnSet(f, S)
  BY SumCompare
<1>2. SumFunctionOnSet(f, S) \in Int /\ SumFunctionOnSet(g, S) \in Int
  BY SumType
<1> QED
  BY <1>1, <1>2

\* What is zero does not count.
LEMMA SumZeros ==
    ASSUME NEW f, NEW S, IsFiniteSet(S), NEW T \in SUBSET S,
           \A x \in S : f[x] \in Int, \A x \in S \ T : f[x] = 0
    PROVE  SumFunctionOnSet(f, S) = SumFunctionOnSet(f, T)
<1> DEFINE sum(U) == SumFunctionOnSet(f, U)
           C == {U \in SUBSET S : T \subseteq U /\ sum(U) # sum(T)}
<1>1. SUFFICES ASSUME C # {} PROVE FALSE
  OBVIOUS
<1>2. PICK U \in C : \A V \in SUBSET U : V # U => V \notin C
  <2> HIDE DEF C
  <2>1. C \in SUBSET (SUBSET S)
    BY DEF C
  <2> QED
    BY <1>1, <2>1, SmallestSet
<1>3. PICK y \in U \ T : TRUE
  BY <1>2
<1>4. IsFiniteSet(U) /\ IsFiniteSet(T)
  BY <1>2, FS_Subset
<1>5. sum(U) = f[y] + sum(U \ {y}) /\ f[y] = 0
  BY <1>2, <1>3, <1>4, SumPick
<1>6. sum(U \ {y}) = sum(T)
  BY <1>2, <1>3
<1>7. sum(T) \in Int
  BY <1>4, SumType
<1> QED
  BY <1>2, <1>5, <1>6, <1>7

\* A change at one place changes the sum by as much.
LEMMA SumChange ==
    ASSUME NEW f, NEW g, NEW S, IsFiniteSet(S), NEW y \in S,
           \A x \in S : f[x] \in Int /\ g[x] \in Int, \A x \in S \ {y} : f[x] = g[x]
    PROVE  SumFunctionOnSet(g, S) = SumFunctionOnSet(f, S) + (g[y] - f[y])
<1>1. IsFiniteSet(S \ {y})
  BY FS_Subset
<1>2. SumFunctionOnSet(g, S \ {y}) = SumFunctionOnSet(f, S \ {y})
  BY <1>1, SumSame
<1>3. /\ SumFunctionOnSet(g, S) = g[y] + SumFunctionOnSet(g, S \ {y})
      /\ SumFunctionOnSet(f, S) = f[y] + SumFunctionOnSet(f, S \ {y})
  BY SumPick
<1>4. SumFunctionOnSet(f, S \ {y}) \in Int /\ f[y] \in Int /\ g[y] \in Int
  BY <1>1, SumType
<1> QED
  BY <1>2, <1>3, <1>4

\* The sum over two sets without a common element.
LEMMA SumUnion ==
    ASSUME NEW f, NEW A, NEW B, IsFiniteSet(A), IsFiniteSet(B), A \cap B = {},
           \A x \in A \cup B : f[x] \in Int
    PROVE  SumFunctionOnSet(f, A \cup B) = SumFunctionOnSet(f, A) + SumFunctionOnSet(f, B)
<1> DEFINE sum(U) == SumFunctionOnSet(f, U)
           C == {U \in SUBSET B : sum(A \cup U) # sum(A) + sum(U)}
<1>1. SUFFICES ASSUME C # {} PROVE FALSE
  OBVIOUS
<1>2. PICK U \in C : \A V \in SUBSET U : V # U => V \notin C
  <2> HIDE DEF C
  <2>1. C \in SUBSET (SUBSET B)
    BY DEF C
  <2> QED
    BY <1>1, <2>1, SmallestSet
<1>3. IsFiniteSet(U) /\ IsFiniteSet(A \cup U) /\ IsFiniteSet(U \ {})
  BY <1>2, FS_Subset, FS_Union
<1>4. sum(A) \in Int /\ sum(U) \in Int /\ sum({}) = 0
  BY <1>2, <1>3, SumType, SumUnfold
<1>5. U # {}
  <2>1. A \cup {} = A
    OBVIOUS
  <2>2. sum(A \cup {}) = sum(A) + sum({})
    BY <1>4, <2>1
  <2> HIDE DEF sum
  <2> QED
    BY <1>2, <2>2
<1>6. PICK y \in U : TRUE
  BY <1>5
<1>7. sum(U) = f[y] + sum(U \ {y})
  BY <1>2, <1>3, SumPick
<1>8. sum(A \cup U) = f[y] + sum(A \cup (U \ {y}))
  <2>1. (A \cup U) \ {y} = A \cup (U \ {y})
    BY <1>2, <1>6
  <2> QED
    BY <1>2, <1>3, <2>1, SumPick
<1>9. sum(A \cup (U \ {y})) = sum(A) + sum(U \ {y})
  BY <1>2, <1>6
<1>10. sum(U \ {y}) \in Int /\ f[y] \in Int
  <2>1. IsFiniteSet(U \ {y})
    BY <1>3, FS_Subset
  <2> QED
    BY <1>2, <2>1, SumType
<1> QED
  BY <1>2, <1>4, <1>7, <1>8, <1>9, <1>10

\* The sum of what the elements of A are sent to is that over A, if no two
\* are sent to the same.
LEMMA SumImage ==
    ASSUME NEW f, NEW g, NEW h, NEW A, IsFiniteSet(A),
           \A x, y \in A : h[x] = h[y] => x = y,
           \A x \in A : g[x] \in Int /\ g[x] = f[h[x]]
    PROVE  SumFunctionOnSet(f, {h[x] : x \in A}) = SumFunctionOnSet(g, A)
<1> DEFINE Img(U) == {h[x] : x \in U}
           C == {U \in SUBSET A : SumFunctionOnSet(f, Img(U)) # SumFunctionOnSet(g, U)}
<1>1. SUFFICES ASSUME C # {} PROVE FALSE
  OBVIOUS
<1>2. PICK U \in C : \A V \in SUBSET U : V # U => V \notin C
  <2> HIDE DEF C
  <2>1. C \in SUBSET (SUBSET A)
    BY DEF C
  <2> QED
    BY <1>1, <2>1, SmallestSet
<1>3. IsFiniteSet(U) /\ IsFiniteSet(Img(U))
  <2>1. IsFiniteSet(U)
    BY <1>2, FS_Subset
  <2> DEFINE k == [x \in U |-> h[x]]
  <2>2. k \in Surjection(U, Img(U))
    BY DEF Surjection
  <2> QED
    BY <2>1, <2>2, FS_Surjection
<1>4. SumFunctionOnSet(f, {}) = 0 /\ SumFunctionOnSet(g, {}) = 0
  BY <1>3, SumUnfold
<1>5. U # {}
  <2>1. Img({}) = {}
    OBVIOUS
  <2> QED
    BY <1>2, <1>4, <2>1
<1>6. PICK y \in U : TRUE
  BY <1>5
<1>7. SumFunctionOnSet(g, U) = g[y] + SumFunctionOnSet(g, U \ {y})
  BY <1>2, <1>3, SumPick
<1>8. SumFunctionOnSet(f, Img(U)) = f[h[y]] + SumFunctionOnSet(f, Img(U) \ {h[y]})
  <2>1. h[y] \in Img(U) /\ \A z \in Img(U) : f[z] \in Int
    BY <1>2, <1>6
  <2> HIDE DEF Img
  <2> QED
    BY <1>3, <2>1, SumPick
<1>9. Img(U) \ {h[y]} = Img(U \ {y})
  BY <1>2, <1>6
<1>10. SumFunctionOnSet(f, Img(U \ {y})) = SumFunctionOnSet(g, U \ {y})
  BY <1>2, <1>6
<1>11. f[h[y]] = g[y]
  BY <1>2, <1>6
<1> HIDE DEF Img
<1> QED
  BY <1>2, <1>7, <1>8, <1>9, <1>10, <1>11

\* The sum over P is the sum of the sums over its elements with one key.
LEMMA SumByKey ==
    ASSUME NEW f, NEW P, IsFiniteSet(P), NEW key, NEW Keys, IsFiniteSet(Keys),
           \A q \in P : key[q] \in Keys /\ f[q] \in Int
    PROVE  SumFunctionOnSet(f, P)
             = SumFunctionOnSet([k \in Keys |-> SumFunctionOnSet(f, {q \in P : key[q] = k})],
                                Keys)
<1> DEFINE sum(U) == SumFunctionOnSet(f, U)
           With(U, k) == {q \in U : key[q] = k}
           by(U) == [k \in Keys |-> sum(With(U, k))]
           C == {U \in SUBSET P : sum(U) # SumFunctionOnSet(by(U), Keys)}
<1>1. SUFFICES ASSUME C # {} PROVE FALSE
  OBVIOUS
<1>2. PICK U \in C : \A V \in SUBSET U : V # U => V \notin C
  <2> HIDE DEF C
  <2>1. C \in SUBSET (SUBSET P)
    BY DEF C
  <2> QED
    BY <1>1, <2>1, SmallestSet
<1>3. \A V \in SUBSET P : IsFiniteSet(V) /\ sum(V) \in Int /\ \A k \in Keys : by(V)[k] \in Int
  <2>1. \A V \in SUBSET P : IsFiniteSet(V) /\ sum(V) \in Int
    BY FS_Subset, SumType
  <2> HIDE DEF sum
  <2> QED
    BY <2>1
<1>4. sum({}) = 0 /\ SumFunctionOnSet(by({}), {}) = 0
  BY <1>3, SumUnfold
<1>5. U # {}
  <2>1. \A k \in Keys : With({}, k) = {}
    OBVIOUS
  <2>2. \A k \in Keys : by({})[k] = 0
    <3> HIDE DEF sum, With
    <3> QED
      BY <1>4, <2>1
  <2>3. SumFunctionOnSet(by({}), Keys) = SumFunctionOnSet(by({}), {})
    <3> HIDE DEF by
    <3> QED
      BY <2>2, SumZeros
  <2> QED
    BY <1>2, <1>4, <2>3
<1>6. PICK y \in U : TRUE
  BY <1>5
<1> DEFINE V == U \ {y}
           ky == key[y]
<1>7. V \in SUBSET P /\ V \in SUBSET U /\ V # U /\ U \in SUBSET P /\ ky \in Keys /\ y \in U /\ f[y] \in Int
  BY <1>2, <1>6
<1>8. sum(U) = f[y] + sum(V)
  BY <1>2, <1>3, <1>7, SumPick
<1>9. sum(V) = SumFunctionOnSet(by(V), Keys)
  BY <1>2, <1>7
<1>10. \A k \in Keys \ {ky} : by(V)[k] = by(U)[k]
  <2>1. \A k \in Keys \ {ky} : With(V, k) = With(U, k)
    OBVIOUS
  <2> HIDE DEF With, sum, V, ky
  <2> QED
    BY <2>1
<1>11. by(U)[ky] = f[y] + by(V)[ky]
  <2>1. With(V, ky) = With(U, ky) \ {y} /\ y \in With(U, ky) /\ With(U, ky) \in SUBSET P
    BY <1>7
  <2>2. sum(With(U, ky)) = f[y] + sum(With(U, ky) \ {y})
    <3> DEFINE W == With(U, ky)
    <3>1. IsFiniteSet(W) /\ y \in W /\ \A q \in W : f[q] \in Int
      BY <1>3, <2>1
    <3> HIDE DEF W
    <3>2. sum(W) = f[y] + sum(W \ {y})
      BY <3>1, SumPick
    <3> QED
      BY <3>2 DEF W
  <2> HIDE DEF With, sum, V, ky
  <2> QED
    BY <1>7, <2>1, <2>2
<1>12. SumFunctionOnSet(by(U), Keys) = SumFunctionOnSet(by(V), Keys) + (by(U)[ky] - by(V)[ky])
  <2>1. \A k \in Keys : by(V)[k] \in Int /\ by(U)[k] \in Int
    BY <1>3, <1>7
  <2> HIDE DEF by, V, ky
  <2> QED
    BY <1>7, <1>10, <2>1, SumChange
<1>13. by(V)[ky] \in Int /\ sum(V) \in Int /\ sum(U) # SumFunctionOnSet(by(U), Keys)
  BY <1>2, <1>3, <1>7
<1> HIDE DEF by, V, ky, sum
<1> QED
  BY <1>7, <1>8, <1>9, <1>11, <1>12, <1>13

\* The sum of sums.
LEMMA SumPlus ==
    ASSUME NEW f, NEW g, NEW h, NEW S, IsFiniteSet(S),
           \A x \in S : f[x] \in Int /\ g[x] \in Int /\ h[x] = f[x] + g[x]
    PROVE  SumFunctionOnSet(h, S) = SumFunctionOnSet(f, S) + SumFunctionOnSet(g, S)
<1> DEFINE F(U) == SumFunctionOnSet(f, U)
           G(U) == SumFunctionOnSet(g, U)
           H(U) == SumFunctionOnSet(h, U)
           C == {U \in SUBSET S : H(U) # F(U) + G(U)}
<1>1. SUFFICES ASSUME C # {} PROVE FALSE
  OBVIOUS
<1>2. PICK U \in C : \A V \in SUBSET U : V # U => V \notin C
  <2> HIDE DEF C
  <2>1. C \in SUBSET (SUBSET S)
    BY DEF C
  <2> QED
    BY <1>1, <2>1, SmallestSet
<1>3. IsFiniteSet(U) /\ U \in SUBSET S
  BY <1>2, FS_Subset
<1>4. U # {}
  <2>1. F({}) = 0 /\ G({}) = 0 /\ H({}) = 0
    BY <1>3, SumUnfold
  <2>2. H({}) = F({}) + G({})
    BY <2>1
  <2> HIDE DEF F, G, H
  <2> QED
    BY <1>2, <2>2
<1>5. PICK y \in U : TRUE
  BY <1>4
<1>6. /\ F(U) = f[y] + F(U \ {y}) /\ G(U) = g[y] + G(U \ {y}) /\ H(U) = h[y] + H(U \ {y})
  BY <1>3, <1>5, SumPick
<1>7. F(U \ {y}) \in Int /\ G(U \ {y}) \in Int
  <2>1. IsFiniteSet(U \ {y})
    BY <1>3, FS_Subset
  <2> QED
    BY <1>3, <2>1, SumType
<1>8. H(U \ {y}) = F(U \ {y}) + G(U \ {y})
  BY <1>2, <1>5
<1>9. f[y] \in Int /\ g[y] \in Int /\ h[y] = f[y] + g[y] /\ H(U) # F(U) + G(U)
  BY <1>2, <1>3, <1>5
<1> HIDE DEF F, G, H
<1> QED
  BY <1>6, <1>7, <1>8, <1>9

\* A sum of natural numbers over fewer elements is no greater.
LEMMA SumFewer ==
    ASSUME NEW f, NEW S, IsFiniteSet(S), NEW T \in SUBSET S, \A x \in S : f[x] \in Nat
    PROVE  /\ SumFunctionOnSet(f, T) <= SumFunctionOnSet(f, S)
           /\ SumFunctionOnSet(f, T) \in Nat /\ SumFunctionOnSet(f, S) \in Nat
<1>1. IsFiniteSet(T) /\ IsFiniteSet(S \ T) /\ T \cap (S \ T) = {} /\ S = T \cup (S \ T)
  BY FS_Subset
<1>2. SumFunctionOnSet(f, S) = SumFunctionOnSet(f, T) + SumFunctionOnSet(f, S \ T)
  BY <1>1, SumUnion
<1>3. SumFunctionOnSet(f, T) \in Nat /\ SumFunctionOnSet(f, S \ T) \in Nat
  BY <1>1, SumType
<1> QED
  BY <1>2, <1>3

\* The same number everywhere.
LEMMA SumConstant ==
    ASSUME NEW f, NEW S, IsFiniteSet(S), NEW c \in Nat, \A x \in S : f[x] = c
    PROVE  SumFunctionOnSet(f, S) = c * Cardinality(S)
<1> DEFINE F(U) == SumFunctionOnSet(f, U)
           C == {U \in SUBSET S : F(U) # c * Cardinality(U)}
<1>1. SUFFICES ASSUME C # {} PROVE FALSE
  OBVIOUS
<1>2. PICK U \in C : \A V \in SUBSET U : V # U => V \notin C
  <2> HIDE DEF C
  <2>1. C \in SUBSET (SUBSET S)
    BY DEF C
  <2> QED
    BY <1>1, <2>1, SmallestSet
<1>3. IsFiniteSet(U) /\ U \in SUBSET S /\ F(U) # c * Cardinality(U)
  BY <1>2, FS_Subset
<1>4. U # {}
  <2>1. F({}) = 0 /\ Cardinality({}) = 0
    BY <1>3, SumUnfold, FS_EmptySet
  <2> HIDE DEF F
  <2> QED
    BY <1>3, <2>1
<1>5. PICK y \in U : TRUE
  BY <1>4
<1>6. F(U) = f[y] + F(U \ {y}) /\ f[y] = c
  BY <1>3, <1>5, SumPick
<1>7. F(U \ {y}) = c * Cardinality(U \ {y})
  BY <1>2, <1>5
<1>8. Cardinality(U \ {y}) = Cardinality(U) - 1 /\ Cardinality(U) \in Nat
  BY <1>3, <1>5, FS_RemoveElement, FS_CardinalityType
<1> DEFINE m == Cardinality(U) - 1
<1>9. m \in Int /\ Cardinality(U) = m + 1 /\ Cardinality(U \ {y}) = m
  BY <1>8
<1> HIDE DEF F, m
<1>10. c * (m + 1) = c * m + c
  BY <1>9
<1>11. c * m \in Int
  BY <1>9
<1> QED
  BY <1>3, <1>6, <1>7, <1>9, <1>10, <1>11

-----------------------------------------------------------------------------
(* Quotients and greatest elements.                                        *)

\* The quotient rounded down.
LEMMA Quotient ==
    ASSUME NEW a \in Int, NEW b \in Nat \ {0}
    PROVE  /\ a \div b \in Int
           /\ (a \div b) * b <= a /\ a < (a \div b) * b + b
OBVIOUS

\* Of a natural number it is one, and no greater than any bound b * c.
LEMMA QuotientOfNat ==
    ASSUME NEW a \in Nat, NEW b \in Nat \ {0}
    PROVE  /\ a \div b \in Nat
           /\ \A c \in Nat : a <= c * b => a \div b <= c
<1> DEFINE q == a \div b
<1>1. q \in Int /\ q * b <= a /\ a < q * b + b
  BY Quotient
<1> HIDE DEF q
<1>2. q \in Nat
  <2> SUFFICES ASSUME q <= -1 PROVE FALSE
    BY <1>1
  <2>1. q * b <= -b
    BY <1>1
  <2> QED
    BY <1>1, <2>1
<1>3. ASSUME NEW c \in Nat, a <= c * b PROVE q <= c
  <2> SUFFICES ASSUME q >= c + 1 PROVE FALSE
    BY <1>1
  <2>1. q * b >= (c + 1) * b /\ (c + 1) * b = c * b + b /\ c * b \in Nat
    BY <1>1
  <2> QED
    BY <1>1, <1>3, <2>1
<1> QED
  BY <1>2, <1>3 DEF q

\* Quotients grow with the dividend.
LEMMA QuotientGrows ==
    ASSUME NEW a \in Nat, NEW c \in Nat, a <= c, NEW b \in Nat \ {0}
    PROVE  a \div b <= c \div b
<1> DEFINE q == a \div b
           r == c \div b
<1>1. q \in Nat /\ r \in Nat /\ q * b <= a /\ c < r * b + b
  BY Quotient, QuotientOfNat
<1> HIDE DEF q, r
<1>2. ASSUME q >= r + 1 PROVE FALSE
  <2>1. q * b >= (r + 1) * b /\ (r + 1) * b = r * b + b /\ r * b \in Nat /\ q * b \in Nat
    BY <1>1, <1>2
  <2> QED
    BY <1>1, <2>1
<1> QED
  BY <1>1, <1>2 DEF q, r

\* A nonempty set of numbers up to n has a greatest.
LEMMA GreatestUpTo ==
    ASSUME NEW n \in Nat, NEW S \in SUBSET (0..n), S # {}
    PROVE  \E y \in S : \A x \in S : x <= y
<1> DEFINE T == {n - x : x \in S}
<1>1. T \in SUBSET Nat /\ T # {}
  <2>1. \A x \in S : n - x \in Nat
    OBVIOUS
  <2> QED
    BY <2>1
<1>2. PICK t \in T : \A u \in T : t <= u
  BY <1>1, LeastNatural
<1>3. PICK y \in S : t = n - y
  BY <1>2
<1>4. \A x \in S : x <= y
  <2> SUFFICES ASSUME NEW x \in S PROVE x <= y
    OBVIOUS
  <2>1. n - y <= n - x
    BY <1>2, <1>3
  <2>2. x \in Nat /\ y \in Nat
    OBVIOUS
  <2> QED
    BY <2>1, <2>2
<1> QED
  BY <1>4

=============================================================================
