--------------------------- MODULE IncentiveProofs ----------------------------
(***************************************************************************)
(* Proofs about the payment of an epoch, for every number of validators,   *)
(* delegators, slots and epochs, every distribution of stake and every     *)
(* choice of scales.                                                       *)
(*                                                                         *)
(* No division gives out more than it is given: the fractions are rounded  *)
(* down, the members of a group are counted, and the blocks of an epoch    *)
(* are no more than its slots.  So the remainder that Run computes is what *)
(* was not paid, its last check holds, and the epoch is paid by the first  *)
(* block that may.  The shares of the roles alone are rounded to the       *)
(* nearest, so that money is conserved as long as they fit in the whole.   *)
(***************************************************************************)
EXTENDS Incentive, SumLemmas

\* The elements of a sequence.
LEMMA ElementsOf ==
    ASSUME NEW S, NEW s \in Seq(S)
    PROVE  Len(s) \in Nat /\ DOMAIN s = 1 .. Len(s) /\ \A i \in DOMAIN s : s[i] \in S
OBVIOUS

\* A function on the first numbers is one.
LEMMA SequenceOf ==
    ASSUME NEW S, NEW n \in Nat, NEW s \in [1..n -> S]
    PROVE  s \in Seq(S)
OBVIOUS

\* A sum of multiples.
LEMMA SumScaled ==
    ASSUME NEW f, NEW g, NEW S, IsFiniteSet(S), NEW c \in Int,
           \A x \in S : f[x] \in Int /\ g[x] = c * f[x]
    PROVE  SumFunctionOnSet(g, S) = c * SumFunctionOnSet(f, S)
<1> DEFINE F(U) == SumFunctionOnSet(f, U)
           G(U) == SumFunctionOnSet(g, U)
           C == {U \in SUBSET S : G(U) # c * F(U)}
<1>1. SUFFICES ASSUME C # {} PROVE FALSE
  OBVIOUS
<1>2. PICK U \in C : \A V \in SUBSET U : V # U => V \notin C
  <2> HIDE DEF C
  <2>1. C \in SUBSET (SUBSET S)
    BY DEF C
  <2> QED
    BY <1>1, <2>1, SmallestSet
<1>3. IsFiniteSet(U) /\ U \in SUBSET S /\ G(U) # c * F(U) /\ \A x \in U : g[x] \in Int
  BY <1>2, FS_Subset
<1>4. U # {}
  <2>1. F({}) = 0 /\ G({}) = 0
    BY <1>3, SumUnfold
  <2> HIDE DEF F, G
  <2>2. G({}) = c * F({})
    BY <2>1
  <2> QED
    BY <1>3, <2>2
<1>5. PICK y \in U : TRUE
  BY <1>4
<1>6. F(U) = f[y] + F(U \ {y}) /\ G(U) = g[y] + G(U \ {y})
  BY <1>3, <1>5, SumPick
<1>7. G(U \ {y}) = c * F(U \ {y})
  BY <1>2, <1>5
<1>8. F(U \ {y}) \in Int /\ f[y] \in Int /\ g[y] = c * f[y]
  <2>1. IsFiniteSet(U \ {y})
    BY <1>3, FS_Subset
  <2> QED
    BY <1>3, <1>5, <2>1, SumType
<1> DEFINE a == F(U \ {y})
<1> HIDE DEF F, G
<1>9. c * (f[y] + a) = c * f[y] + c * a
  BY <1>8
<1> QED
  BY <1>3, <1>6, <1>7, <1>8, <1>9

\* What is divided in proportion and rounded down is no more than there was.
LEMMA SumQuotients ==
    ASSUME NEW f, NEW h, NEW S, IsFiniteSet(S), NEW x \in Nat, \A i \in S : f[i] \in Nat,
           \A i \in S : h[i] = IF x * f[i] = 0 THEN 0
                               ELSE (x * f[i]) \div SumFunctionOnSet(f, S)
    PROVE  (\A i \in S : h[i] \in Nat) /\ SumFunctionOnSet(h, S) <= x
<1> DEFINE t == SumFunctionOnSet(f, S)
<1>1. t \in Nat
  BY SumType
<1>2. ASSUME NEW i \in S PROVE f[i] <= t
  <2>1. SumFunctionOnSet(f, S) = f[i] + SumFunctionOnSet(f, S \ {i})
    BY SumPick
  <2>2. IsFiniteSet(S \ {i})
    BY FS_Subset
  <2>3. SumFunctionOnSet(f, S \ {i}) \in Nat
    BY <2>2, SumType
  <2> QED
    BY <1>1, <2>1, <2>3
<1> HIDE DEF t
<1>3. ASSUME NEW i \in S PROVE h[i] \in Nat /\ t * h[i] <= x * f[i]
  <2>1. CASE x * f[i] = 0
    BY <1>1, <2>1
  <2>2. CASE x * f[i] # 0
    <3>1. f[i] \in Nat /\ f[i] # 0
      BY <2>2
    <3>2. t \in Nat \ {0}
      BY <1>1, <1>2, <3>1
    <3>3. x * f[i] \in Nat
      BY <3>1
    <3> DEFINE p == x * f[i]
    <3>4. h[i] = p \div t
      BY <2>2 DEF t
    <3>5. p \in Nat
      BY <3>3
    <3> HIDE DEF p
    <3>6. h[i] \in Nat /\ h[i] * t <= p
      BY <3>2, <3>4, <3>5, Quotient, QuotientOfNat
    <3>7. t * h[i] = h[i] * t
      BY <3>2, <3>6
    <3> QED
      BY <3>6, <3>7 DEF p
  <2> QED
    BY <2>1, <2>2
<1> DEFINE sum == SumFunctionOnSet(h, S)
<1>4. sum \in Nat
  BY <1>3, SumType
<1>5. t * sum <= x * t
  <2> DEFINE th == [i \in S |-> t * h[i]]
             xf == [i \in S |-> x * f[i]]
  <2>1. \A i \in S : th[i] \in Int /\ xf[i] \in Int /\ th[i] <= xf[i]
    BY <1>1, <1>3
  <2>2. \A i \in S : th[i] = t * h[i] /\ xf[i] = x * f[i]
    OBVIOUS
  <2> HIDE DEF th, xf
  <2>3. SumFunctionOnSet(th, S) <= SumFunctionOnSet(xf, S)
    BY <2>1, SumCompare
  <2>4. SumFunctionOnSet(th, S) = t * sum
    BY <1>1, <1>3, <2>2, SumScaled
  <2>5. SumFunctionOnSet(xf, S) = x * t
    BY <2>2, SumScaled DEF t
  <2> QED
    BY <2>3, <2>4, <2>5
<1>6. CASE t = 0
  <2>1. \A i \in S : h[i] = 0
    BY <1>2, <1>6
  <2>2. SumFunctionOnSet(h, S) = 0 * Cardinality(S)
    BY <2>1, SumConstant
  <2>3. Cardinality(S) \in Nat
    BY FS_CardinalityType
  <2> QED
    BY <1>3, <2>2, <2>3
<1>7. CASE t # 0
  <2> HIDE DEF sum
  <2>1. sum <= x
    <3> SUFFICES ASSUME sum >= x + 1 PROVE FALSE
      BY <1>4
    <3>1. t * sum >= t * (x + 1) /\ t * (x + 1) = x * t + t
      BY <1>1, <1>4
    <3> QED
      BY <1>1, <1>4, <1>5, <1>7, <3>1
  <2> QED
    BY <1>3, <2>1 DEF sum
<1> QED
  BY <1>6, <1>7

\* Sums may be swapped.
LEMMA SumSwap ==
    ASSUME NEW D, IsFiniteSet(D), NEW W, IsFiniteSet(W), NEW p,
           \A i \in D : \A w \in W : p[i][w] \in Int
    PROVE  SumFunctionOnSet([w \in W |-> SumFunctionOnSet([i \in D |-> p[i][w]], D)], W)
             = SumFunctionOnSet([i \in D |-> SumFunctionOnSet(p[i], W)], D)
<1> DEFINE col(w) == [i \in D |-> p[i][w]]
           cols(U) == [w \in W |-> SumFunctionOnSet(col(w), U)]
           rows == [i \in D |-> SumFunctionOnSet(p[i], W)]
           C == {U \in SUBSET D : SumFunctionOnSet(cols(U), W) # SumFunctionOnSet(rows, U)}
<1>1. SUFFICES ASSUME C # {} PROVE FALSE
  OBVIOUS
<1>2. PICK U \in C : \A V \in SUBSET U : V # U => V \notin C
  <2> HIDE DEF C
  <2>1. C \in SUBSET (SUBSET D)
    BY DEF C
  <2> QED
    BY <1>1, <2>1, SmallestSet
<1>3. /\ IsFiniteSet(U) /\ U \in SUBSET D
      /\ SumFunctionOnSet(cols(U), W) # SumFunctionOnSet(rows, U)
  BY <1>2, FS_Subset
<1>4. ASSUME NEW w \in W, NEW V \in SUBSET D PROVE SumFunctionOnSet(col(w), V) \in Int
  <2>1. IsFiniteSet(V) /\ \A i \in V : col(w)[i] \in Int
    BY <1>4, FS_Subset
  <2> HIDE DEF col
  <2> QED
    BY <2>1, SumType
<1>5. \A i \in D : rows[i] \in Int /\ rows[i] = SumFunctionOnSet(p[i], W)
  BY SumType
<1>6. U # {}
  <2>1. \A w \in W : cols({})[w] = 0
    <3>1. \A w \in W : SumFunctionOnSet(col(w), {}) = 0
      <4> HIDE DEF col
      <4> QED
        BY <1>3, SumUnfold
    <3> QED
      BY <3>1
  <2>2. SumFunctionOnSet(rows, {}) = 0
    <3> HIDE DEF rows
    <3> QED
      BY <1>3, SumUnfold
  <2>3. SumFunctionOnSet(cols({}), W) = 0
    <3> HIDE DEF cols
    <3>1. SumFunctionOnSet(cols({}), W) = 0 * Cardinality(W)
      BY <2>1, SumConstant
    <3>2. Cardinality(W) \in Nat
      BY FS_CardinalityType
    <3> QED
      BY <3>1, <3>2
  <2> QED
    BY <1>3, <2>2, <2>3
<1>7. PICK y \in U : TRUE
  BY <1>6
<1> DEFINE V == U \ {y}
<1>8. V \in SUBSET D /\ SumFunctionOnSet(cols(V), W) = SumFunctionOnSet(rows, V)
  BY <1>2, <1>3, <1>7
<1>9. SumFunctionOnSet(rows, U) = rows[y] + SumFunctionOnSet(rows, V)
  <2> HIDE DEF rows
  <2> QED
    BY <1>3, <1>5, <1>7, SumPick
<1>10. ASSUME NEW w \in W PROVE cols(U)[w] = p[y][w] + cols(V)[w]
  <2>1. \A i \in U : col(w)[i] \in Int
    BY <1>3
  <2>2. col(w)[y] = p[y][w]
    BY <1>3, <1>7
  <2>3. SumFunctionOnSet(col(w), U) = col(w)[y] + SumFunctionOnSet(col(w), V)
    <3> HIDE DEF col
    <3> QED
      BY <1>3, <1>7, <2>1, SumPick
  <2> QED
    BY <2>2, <2>3
<1>11. \A w \in W : p[y][w] \in Int /\ cols(V)[w] \in Int
  <2> HIDE DEF V
  <2> QED
    BY <1>3, <1>4, <1>7, <1>8
<1>12. SumFunctionOnSet(cols(U), W) = SumFunctionOnSet(p[y], W) + SumFunctionOnSet(cols(V), W)
  <2> HIDE DEF cols, V
  <2> QED
    BY <1>10, <1>11, SumPlus
<1>13. rows[y] = SumFunctionOnSet(p[y], W)
  BY <1>3, <1>7
<1> HIDE DEF cols, rows, V
<1> QED
  BY <1>3, <1>8, <1>9, <1>12, <1>13

-----------------------------------------------------------------------------
\* The wallets that a validator's income is divided among.
StakersOf(v) == {Stakers[v][i].wallet : i \in DOMAIN Stakers[v]}

\* Amounts by wallet.
Payment == [Wallet -> Nat]

LEMMA NothingPaid == Nothing \in Payment /\ Total(Nothing) = 0
<1>1. Nothing \in Payment /\ DOMAIN Nothing = Wallet /\ \A w \in Wallet : Nothing[w] = 0
  BY DEF Nothing, Payment
<1>2. IsFiniteSet(Wallet) /\ Cardinality(Wallet) \in Nat
  BY IncentiveAssumption, FS_CardinalityType
<1>3. SumFunctionOnSet(Nothing, Wallet) = 0 * Cardinality(Wallet)
  BY <1>1, <1>2, SumConstant
<1> QED
  BY <1>1, <1>2, <1>3 DEF Total

\* The total of a payment is a natural number, and that of the sum of two is
\* the sum of the totals.
LEMMA TotalOf ==
    ASSUME NEW p \in Payment, NEW q \in Payment
    PROVE  /\ Total(p) \in Nat /\ Total(p) = SumFunctionOnSet(p, Wallet)
           /\ Plus(p, q) \in Payment /\ Total(Plus(p, q)) = Total(p) + Total(q)
<1>1. DOMAIN p = Wallet /\ DOMAIN q = Wallet /\ \A w \in Wallet : p[w] \in Nat /\ q[w] \in Nat
  BY DEF Payment
<1>2. IsFiniteSet(Wallet)
  BY IncentiveAssumption
<1> DEFINE r == Plus(p, q)
<1>3. r \in Payment /\ DOMAIN r = Wallet /\ \A w \in Wallet : r[w] = p[w] + q[w]
  BY <1>1 DEF Plus, Payment
<1> HIDE DEF r
<1>4. SumFunctionOnSet(p, Wallet) \in Nat
  BY <1>1, <1>2, SumType
<1>5. SumFunctionOnSet(r, Wallet) = SumFunctionOnSet(p, Wallet) + SumFunctionOnSet(q, Wallet)
  BY <1>1, <1>2, <1>3, SumPlus
<1> QED
  BY <1>1, <1>3, <1>4, <1>5 DEF Total, r

\* delegateDivision pays no more than the value, and only the validator's
\* stakers.
LEMMA DivisionRight ==
    ASSUME NEW v \in Validator, NEW value \in Nat, NEW feeRate \in 0..FeeUnit
    PROVE  LET d == delegateDivision(v, value, feeRate)
           IN  /\ d \in Payment /\ Total(d) <= value
               /\ \A w \in Wallet : d[w] > 0 => w \in StakersOf(v)
<1> DEFINE s == Stakers[v]
           D == DOMAIN s
           commission == (value * feeRate) \div FeeUnit
           rest == value - commission
           prob == [i \in D |-> s[i].prob]
           part == [i \in D |-> IF rest * s[i].prob = 0 THEN 0 ELSE (rest * s[i].prob) \div Total(prob)]
           extra == [i \in D |-> IF i = 1 THEN commission ELSE 0]
           share == [i \in D |-> (IF rest * s[i].prob = 0 THEN 0 ELSE (rest * s[i].prob) \div Total(prob))
                                 + (IF i = 1 THEN commission ELSE 0)]
           incentive == [i \in D |-> Max({0, share[i]})]
           d == delegateDivision(v, value, feeRate)
<1>1. d = [w \in Wallet |-> SumFunctionOnSet(incentive, {i \in D : s[i].wallet = w})]
  BY DEF delegateDivision
<1>2. /\ s \in Seq([wallet : Wallet, prob : Nat]) /\ Len(s) \in Nat /\ Len(s) > 0 /\ D = 1 .. Len(s)
      /\ \A i \in D : s[i].wallet \in Wallet /\ s[i].prob \in Nat
  <2>1. s \in Seq([wallet : Wallet, prob : Nat]) /\ Len(s) > 0
    BY IncentiveAssumption
  <2> HIDE DEF s
  <2>2. Len(s) \in Nat /\ D = 1 .. Len(s) /\ \A i \in D : s[i] \in [wallet : Wallet, prob : Nat]
    BY <2>1, ElementsOf
  <2> QED
    BY <2>1, <2>2
<1>3. IsFiniteSet(D) /\ IsFiniteSet(Wallet) /\ 1 \in D
  BY <1>2, FS_Interval, IncentiveAssumption
<1>4. commission \in Nat /\ commission <= value /\ rest \in Nat
  <2>1. FeeUnit \in Nat \ {0} /\ feeRate \in Nat /\ feeRate <= FeeUnit
    BY IncentiveAssumption
  <2> DEFINE vf == value * feeRate
  <2>2. vf \in Nat /\ vf <= value * FeeUnit
    BY <2>1
  <2> HIDE DEF vf
  <2>3. vf \div FeeUnit \in Nat /\ vf \div FeeUnit <= value
    BY <2>1, <2>2, QuotientOfNat
  <2> QED
    BY <2>3 DEF vf
<1>5. /\ DOMAIN prob = D /\ \A i \in D : prob[i] = s[i].prob /\ prob[i] \in Nat
  BY <1>2
<1>6. Total(prob) = SumFunctionOnSet(prob, D)
  BY <1>5 DEF Total
<1>7. \A i \in D : part[i] = IF rest * prob[i] = 0 THEN 0 ELSE (rest * prob[i]) \div SumFunctionOnSet(prob, D)
  BY <1>5, <1>6
<1>8. \A i \in D : extra[i] \in Nat /\ (i # 1 => extra[i] = 0)
  BY <1>4
<1>9. extra[1] = commission
  BY <1>3
<1>10. \A i \in D : share[i] = part[i] + extra[i]
  OBVIOUS
<1>11. \A i \in D : incentive[i] = Max({0, share[i]})
  OBVIOUS
<1> HIDE DEF s, D, commission, rest, prob, part, extra, share, incentive
<1>12. (\A i \in D : part[i] \in Nat) /\ SumFunctionOnSet(part, D) <= rest
  BY <1>3, <1>4, <1>5, <1>7, SumQuotients
<1>13. \A i \in D : incentive[i] \in Nat /\ incentive[i] = part[i] + extra[i]
  <2> SUFFICES ASSUME NEW i \in D
               PROVE  incentive[i] \in Nat /\ incentive[i] = part[i] + extra[i]
    OBVIOUS
  <2>1. part[i] \in Nat /\ extra[i] \in Nat /\ share[i] = part[i] + extra[i]
    BY <1>8, <1>10, <1>12
  <2>2. share[i] \in Nat
    BY <2>1
  <2>3. Max({0, share[i]}) = IF 0 >= share[i] THEN 0 ELSE share[i]
    BY <2>2, MaxOfTwo
  <2>4. incentive[i] = share[i]
    BY <1>11, <2>2, <2>3
  <2> QED
    BY <2>1, <2>2, <2>4
<1>14. SumFunctionOnSet(extra, D) = commission
  <2>1. SumFunctionOnSet(extra, D) = SumFunctionOnSet(extra, {1})
    BY <1>3, <1>8, SumZeros
  <2>2. IsFiniteSet({}) /\ IsFiniteSet({1}) /\ {1} \ {1} = {} /\ 1 \in {1}
    BY FS_EmptySet, FS_Singleton
  <2>3. SumFunctionOnSet(extra, {1}) = extra[1] + SumFunctionOnSet(extra, {1} \ {1})
    BY <1>3, <1>8, <2>2, SumPick
  <2>4. SumFunctionOnSet(extra, {}) = 0
    BY <2>2, SumUnfold
  <2> QED
    BY <1>4, <1>9, <2>1, <2>2, <2>3, <2>4
<1>15. SumFunctionOnSet(incentive, D) <= value /\ SumFunctionOnSet(incentive, D) \in Nat
  <2>1. SumFunctionOnSet(incentive, D) = SumFunctionOnSet(part, D) + SumFunctionOnSet(extra, D)
    BY <1>3, <1>8, <1>12, <1>13, SumPlus
  <2>2. SumFunctionOnSet(part, D) \in Nat
    BY <1>3, <1>12, SumType
  <2>3. rest + commission = value
    BY <1>4 DEF rest
  <2> QED
    BY <1>4, <1>12, <1>14, <2>1, <2>2, <2>3
<1> DEFINE key == [i \in D |-> s[i].wallet]
<1>16. d = [w \in Wallet |-> SumFunctionOnSet(incentive, {i \in D : key[i] = w})]
  <2>1. \A w \in Wallet : {i \in D : s[i].wallet = w} = {i \in D : key[i] = w}
    OBVIOUS
  <2> QED
    BY <1>1, <2>1
<1>17. \A i \in D : key[i] \in Wallet /\ key[i] = s[i].wallet
  BY <1>2
<1> HIDE DEF key
<1>18. SumFunctionOnSet(d, Wallet) = SumFunctionOnSet(incentive, D)
  BY <1>3, <1>13, <1>16, <1>17, SumByKey
<1>19. ASSUME NEW w \in Wallet PROVE d[w] \in Nat /\ (d[w] > 0 => w \in StakersOf(v))
  <2> DEFINE mine == {i \in D : key[i] = w}
  <2>1. d[w] = SumFunctionOnSet(incentive, mine) /\ IsFiniteSet(mine)
    BY <1>3, <1>16, FS_Subset
  <2>2. \A i \in mine : incentive[i] \in Nat
    BY <1>13
  <2>3. mine # {} => w \in StakersOf(v)
    BY <1>17 DEF StakersOf, D, s
  <2> HIDE DEF mine
  <2>4. d[w] \in Nat
    BY <2>1, <2>2, SumType
  <2>5. mine = {} => d[w] = 0
    BY <2>1, SumUnfold
  <2> QED
    BY <2>3, <2>4, <2>5
<1>20. d \in Payment /\ DOMAIN d = Wallet
  BY <1>16, <1>19 DEF Payment
<1> QED
  BY <1>15, <1>18, <1>19, <1>20 DEF Total

\* So does delegate, which may pay nothing at all.
LEMMA DelegateRight ==
    ASSUME NEW v \in Validator, NEW value \in Nat, NEW known, NEW cur,
           cur.st.fee \in [Validator -> 0..FeeUnit]
    PROVE  LET d == delegate(v, value, known, cur)
           IN  /\ d \in Payment /\ Total(d) <= value
               /\ \A w \in Wallet : d[w] > 0 => w \in StakersOf(v)
<1>1. CASE v \in known
  <2>1. cur.st.fee[v] \in 0..FeeUnit
    OBVIOUS
  <2> QED
    BY <1>1, <2>1, DivisionRight DEF delegate
<1>2. CASE v \notin known
  <2>1. \A w \in Wallet : ~(Nothing[w] > 0)
    BY DEF Nothing
  <2> QED
    BY <1>2, <2>1, NothingPaid DEF delegate
<1> QED
  BY <1>1, <1>2

\* The sum of payments that are each within a bound is within the sum of the
\* bounds, and a wallet is paid only by one of them.
LEMMA SumPayRight ==
    ASSUME NEW D, IsFiniteSet(D), NEW pays \in [D -> Payment], NEW bound,
           \A i \in D : bound[i] \in Nat /\ Total(pays[i]) <= bound[i]
    PROVE  /\ SumPay(pays) \in Payment /\ Total(SumPay(pays)) <= SumFunctionOnSet(bound, D)
           /\ \A w \in Wallet : SumPay(pays)[w] > 0 => \E i \in D : pays[i][w] > 0
<1>1. DOMAIN pays = D /\ \A i \in D : pays[i] \in Payment /\ \A w \in Wallet : pays[i][w] \in Nat
  BY DEF Payment
<1>2. IsFiniteSet(Wallet)
  BY IncentiveAssumption
<1> DEFINE col(w) == [i \in D |-> pays[i][w]]
           sum == [w \in Wallet |-> SumFunctionOnSet(col(w), D)]
           totals == [i \in D |-> SumFunctionOnSet(pays[i], Wallet)]
<1>3. SumPay(pays) = sum
  BY <1>1 DEF SumPay, Total
<1>4. ASSUME NEW w \in Wallet
      PROVE  sum[w] \in Nat /\ (sum[w] > 0 => \E i \in D : pays[i][w] > 0)
  <2>1. \A i \in D : col(w)[i] \in Nat /\ col(w)[i] = pays[i][w]
    BY <1>1
  <2>2. sum[w] = SumFunctionOnSet(col(w), D)
    OBVIOUS
  <2> HIDE DEF col, sum
  <2>3. sum[w] \in Nat
    BY <2>1, <2>2, SumType
  <2>4. ASSUME \A i \in D : ~(pays[i][w] > 0) PROVE sum[w] = 0
    <3>1. \A i \in D : col(w)[i] = 0
      BY <2>1, <2>4
    <3>2. sum[w] = 0 * Cardinality(D)
      BY <2>2, <3>1, SumConstant
    <3>3. Cardinality(D) \in Nat
      BY FS_CardinalityType
    <3> QED
      BY <3>2, <3>3
  <2> QED
    BY <2>3, <2>4
<1>5. sum \in Payment /\ DOMAIN sum = Wallet
  <2>1. \A w \in Wallet : sum[w] \in Nat
    BY <1>4
  <2> HIDE DEF col
  <2> QED
    BY <2>1 DEF Payment
<1>6. SumFunctionOnSet(sum, Wallet) = SumFunctionOnSet(totals, D)
  BY <1>1, <1>2, SumSwap
<1>7. \A i \in D : totals[i] \in Nat /\ totals[i] <= bound[i]
  BY <1>1, TotalOf
<1> HIDE DEF sum, totals
<1>8. SumFunctionOnSet(totals, D) <= SumFunctionOnSet(bound, D)
  BY <1>7, SumCompare
<1> QED
  BY <1>3, <1>4, <1>5, <1>6, <1>8 DEF Total

\* What an allocation from funds must be: the payment and what remains are no
\* more than the funds, and only stakers of the earners are paid.
Allocated(r, funds, earners) ==
    /\ r.pay \in Payment /\ r.remains \in Nat
    /\ Total(r.pay) + r.remains <= funds
    /\ \A w \in Wallet : r.pay[w] > 0 => \E v \in earners : w \in StakersOf(v)

LEMMA NoneAllocated ==
    ASSUME NEW funds \in Nat, NEW earners
    PROVE  Allocated([pay |-> Nothing, remains |-> funds], funds, earners)
<1>1. \A w \in Wallet : ~(Nothing[w] > 0)
  BY DEF Nothing
<1> QED
  BY <1>1, NothingPaid DEF Allocated

\* The members of a group that were active have the same each, the part of
\* the others remains.
LEMMA GroupAllocated ==
    ASSUME NEW funds \in Nat, NEW group \in Seq([addr : Validator, act : BOOLEAN]), NEW known,
           NEW cur, cur.st.fee \in [Validator -> 0..FeeUnit]
    PROVE  Allocated(protocalRunerAllocate(funds, group, known, cur), funds,
                     {group[i].addr : i \in {j \in DOMAIN group : group[j].act}})
<1> DEFINE one == funds \div Len(group)
           active == {i \in DOMAIN group : group[i].act}
           pays == [i \in active |-> delegate(group[i].addr, one, known, cur)]
           earners == {group[i].addr : i \in active}
           r == protocalRunerAllocate(funds, group, known, cur)
<1>1. CASE group = << >>
  BY <1>1, NoneAllocated DEF protocalRunerAllocate
<1>2. CASE group # << >>
  <2>1. Len(group) \in Nat \ {0} /\ DOMAIN group = 1 .. Len(group)
    BY <1>2
  <2>2. \A i \in active : group[i].addr \in Validator
    <3>1. \A i \in DOMAIN group : group[i] \in [addr : Validator, act : BOOLEAN]
      BY ElementsOf
    <3> QED
      BY <3>1
  <2>3. /\ IsFiniteSet(DOMAIN group) /\ Cardinality(DOMAIN group) = Len(group)
        /\ IsFiniteSet(active) /\ Cardinality(active) \in Nat /\ Cardinality(active) <= Len(group)
    <3>1. IsFiniteSet(1 .. Len(group)) /\ Cardinality(1 .. Len(group)) = Len(group)
      BY <2>1, FS_Interval
    <3>2. active \in SUBSET (1 .. Len(group))
      BY <2>1
    <3> HIDE DEF active
    <3> QED
      BY <2>1, <3>1, <3>2, FS_Subset, FS_CardinalityType
  <2>4. one \in Nat /\ one * Len(group) <= funds
    BY <2>1, Quotient, QuotientOfNat
  <2>5. r = [pay |-> SumPay(pays), remains |-> one * (Len(group) - Cardinality(active))]
    BY <1>2 DEF protocalRunerAllocate
  <2> HIDE DEF one
  <2>6. ASSUME NEW i \in active
        PROVE  /\ pays[i] \in Payment /\ Total(pays[i]) <= one
               /\ \A w \in Wallet : pays[i][w] > 0 => w \in StakersOf(group[i].addr)
    <3>1. pays[i] = delegate(group[i].addr, one, known, cur) /\ group[i].addr \in Validator
      BY <2>2
    <3> QED
      BY <2>4, <3>1, DelegateRight
  <2>7. pays \in [active -> Payment]
    <3>1. \A i \in active : delegate(group[i].addr, one, known, cur) \in Payment
      BY <2>6
    <3> QED
      BY <3>1
  <2> DEFINE bound == [i \in active |-> one]
  <2>8. \A i \in active : bound[i] \in Nat /\ Total(pays[i]) <= bound[i] /\ bound[i] = one
    BY <2>4, <2>6
  <2> HIDE DEF pays, bound, active, r
  <2>9. SumFunctionOnSet(bound, active) = one * Cardinality(active)
    BY <2>3, <2>4, <2>8, SumConstant
  <2>10. /\ SumPay(pays) \in Payment /\ Total(SumPay(pays)) <= one * Cardinality(active)
         /\ \A w \in Wallet : SumPay(pays)[w] > 0 => \E i \in active : pays[i][w] > 0
    BY <2>3, <2>7, <2>8, <2>9, SumPayRight
  <2>11. Total(SumPay(pays)) \in Nat
    BY <2>10, TotalOf
  <2> DEFINE n == Len(group)
             c == Cardinality(active)
  <2>12. one * (n - c) = one * n - one * c /\ one * (n - c) \in Nat /\ one * n \in Nat /\ one * c \in Nat
    <3>1. n \in Nat /\ c \in Nat /\ n - c \in Nat
      BY <2>1, <2>3
    <3> HIDE DEF n, c
    <3> QED
      BY <2>4, <3>1
  <2>13. Total(r.pay) + r.remains <= funds /\ r.remains \in Nat /\ r.pay = SumPay(pays)
    <3>1. r.pay = SumPay(pays) /\ r.remains = one * (n - c)
      BY <2>5
    <3> QED
      BY <2>4, <2>10, <2>11, <2>12, <3>1
  <2>14. ASSUME NEW w \in Wallet, r.pay[w] > 0 PROVE \E v \in earners : w \in StakersOf(v)
    <3>1. PICK i \in active : pays[i][w] > 0
      BY <2>10, <2>13, <2>14
    <3> QED
      BY <2>6, <3>1
  <2>15. Allocated(r, funds, earners)
    BY <2>10, <2>13, <2>14 DEF Allocated
  <2> QED
    BY <2>15 DEF r, active
<1> QED
  BY <1>1, <1>2

\* The slot leaders have the same for each block, reduced by the activity of
\* all; there are no more blocks than slots.
LEMMA SlotsAllocated ==
    ASSUME NEW funds \in Nat, NEW blocks \in [Miner -> Nat], Total(blocks) <= SlotCount, NEW known,
           NEW cur, cur.st.fee \in [Validator -> 0..FeeUnit]
    PROVE  Allocated(slotLeaderAllocate(funds, blocks, known, cur), funds,
                     {v \in Validator : blocks[v] > 0})
<1> DEFINE slotCount == SlotCount - blocks[White]
           miners == {v \in Validator : blocks[v] > 0}
           act == (Min({Total(blocks), SlotCount}) * ActScale) \div SlotCount
           ofSlot == funds \div slotCount
           active == (ofSlot * act) \div ActScale
           pays == [v \in miners |-> delegate(v, active * blocks[v], known, cur)]
           r == slotLeaderAllocate(funds, blocks, known, cur)
           mined == SumFunctionOnSet(blocks, miners)
<1>0. /\ SlotCount \in Nat \ {0} /\ ActScale \in Nat \ {0} /\ IsFiniteSet(Validator)
      /\ White \notin Validator /\ White \in Miner /\ Validator \subseteq Miner
  BY IncentiveAssumption DEF Miner
<1>1. /\ IsFiniteSet(Miner) /\ DOMAIN blocks = Miner /\ \A m \in Miner : blocks[m] \in Nat
      /\ IsFiniteSet(miners)
  BY <1>0, FS_AddElement, FS_Subset DEF Miner
<1>2. Total(blocks) \in Nat /\ mined \in Nat /\ mined + blocks[White] <= Total(blocks)
  <2>1. miners \subseteq Validator
    OBVIOUS
  <2> HIDE DEF miners
  <2> DEFINE some == miners \cup {White}
  <2>2. IsFiniteSet(some) /\ some \in SUBSET Miner /\ White \notin miners
    BY <1>0, <1>1, <2>1, FS_AddElement
  <2>3. SumFunctionOnSet(blocks, some) = mined + blocks[White]
    BY <1>0, <1>1, <2>1, <2>2, SumAdd
  <2>4. mined \in Nat
    <3>1. \A v \in miners : blocks[v] \in Nat
      BY <1>0, <1>1, <2>1
    <3> QED
      BY <1>1, <3>1, SumType
  <2> HIDE DEF some
  <2>5. SumFunctionOnSet(blocks, some) <= SumFunctionOnSet(blocks, Miner) /\ SumFunctionOnSet(blocks, Miner) \in Nat
    BY <1>1, <2>2, SumFewer
  <2> QED
    BY <1>1, <2>3, <2>4, <2>5 DEF Total
<1>3. CASE miners = {} \/ slotCount = 0
  BY <1>3, NoneAllocated DEF slotLeaderAllocate
<1>4. CASE ~(miners = {} \/ slotCount = 0)
  <2>1. slotCount \in Nat \ {0} /\ mined <= slotCount
    BY <1>0, <1>1, <1>2, <1>4
  <2>2. act \in Nat /\ act <= ActScale
    <3> DEFINE b == Min({Total(blocks), SlotCount})
    <3>1. b = Total(blocks)
      <4>1. {Total(blocks), SlotCount} \in SUBSET Nat
        BY <1>0, <1>2
      <4>2. b \in {Total(blocks), SlotCount} /\ b <= Total(blocks) /\ b <= SlotCount
        BY <4>1, MinOfNaturals
      <4> QED
        BY <1>0, <1>2, <4>2
    <3>2. b \in Nat /\ b <= SlotCount
      BY <1>2, <3>1
    <3> DEFINE ba == b * ActScale
    <3> HIDE DEF b
    <3>3. ba \in Nat /\ ba <= ActScale * SlotCount
      BY <1>0, <3>2
    <3> HIDE DEF ba
    <3>4. ba \div SlotCount \in Nat /\ ba \div SlotCount <= ActScale
      BY <1>0, <3>3, QuotientOfNat
    <3> QED
      BY <3>4 DEF ba, b
  <2>3. ofSlot \in Nat /\ ofSlot * slotCount <= funds
    <3> HIDE DEF slotCount
    <3>1. (funds \div slotCount) * slotCount <= funds
      BY <2>1, Quotient
    <3>2. funds \div slotCount \in Nat
      BY <2>1, QuotientOfNat
    <3> QED
      BY <3>1, <3>2
  <2>4. active \in Nat /\ active <= ofSlot
    <3> HIDE DEF act, ofSlot
    <3> DEFINE oa == ofSlot * act
    <3>1. oa \in Nat /\ oa <= ofSlot * ActScale
      BY <1>0, <2>2, <2>3
    <3> HIDE DEF oa
    <3>2. oa \div ActScale \in Nat /\ oa \div ActScale <= ofSlot
      BY <1>0, <2>3, <3>1, QuotientOfNat
    <3> QED
      BY <3>2 DEF oa
  <2>5. r = [pay |-> SumPay(pays), remains |-> (ofSlot - active) * slotCount]
    BY <1>4 DEF slotLeaderAllocate
  <2>6. miners \subseteq Validator
    OBVIOUS
  <2> HIDE DEF slotCount, act, ofSlot, active, miners, r, mined
  <2>7. ASSUME NEW v \in miners
        PROVE  /\ pays[v] \in Payment /\ Total(pays[v]) <= active * blocks[v]
               /\ active * blocks[v] \in Nat /\ blocks[v] \in Nat
               /\ \A w \in Wallet : pays[v][w] > 0 => w \in StakersOf(v)
    <3>1. v \in Validator /\ blocks[v] \in Nat
      BY <1>0, <1>1, <2>6
    <3>2. active * blocks[v] \in Nat
      BY <2>4, <3>1
    <3> DEFINE value == active * blocks[v]
    <3>3. pays[v] = delegate(v, value, known, cur)
      OBVIOUS
    <3> HIDE DEF value, pays
    <3>4. /\ pays[v] \in Payment /\ Total(pays[v]) <= value
          /\ \A w \in Wallet : pays[v][w] > 0 => w \in StakersOf(v)
      BY <3>1, <3>2, <3>3, DelegateRight DEF value
    <3> QED
      BY <3>1, <3>2, <3>4 DEF value
  <2>8. pays \in [miners -> Payment]
    <3>1. \A v \in miners : delegate(v, active * blocks[v], known, cur) \in Payment
      BY <2>7
    <3> QED
      BY <3>1
  <2> DEFINE bound == [v \in miners |-> active * blocks[v]]
  <2>9. \A v \in miners : bound[v] \in Nat /\ Total(pays[v]) <= bound[v] /\ bound[v] = active * blocks[v]
    BY <2>7
  <2> HIDE DEF pays, bound
  <2>10. SumFunctionOnSet(bound, miners) = active * mined
    <3>1. \A v \in miners : blocks[v] \in Int /\ bound[v] = active * blocks[v]
      BY <2>7, <2>9
    <3> QED
      BY <1>1, <2>4, <3>1, SumScaled DEF mined
  <2>11. /\ SumPay(pays) \in Payment /\ Total(SumPay(pays)) <= active * mined
         /\ \A w \in Wallet : SumPay(pays)[w] > 0 => \E v \in miners : pays[v][w] > 0
    BY <1>1, <2>8, <2>9, <2>10, SumPayRight
  <2>12. Total(SumPay(pays)) \in Nat
    BY <2>11, TotalOf
  <2>13. /\ active * mined <= active * slotCount /\ active * mined \in Nat
         /\ active * slotCount \in Nat /\ ofSlot * slotCount \in Nat
         /\ (ofSlot - active) * slotCount = ofSlot * slotCount - active * slotCount
         /\ (ofSlot - active) * slotCount \in Nat
    <3>1. active * mined <= active * slotCount /\ active * mined \in Nat /\ active * slotCount \in Nat
      BY <1>2, <2>1, <2>4
    <3>2. (ofSlot - active) * slotCount = ofSlot * slotCount - active * slotCount
      BY <2>1, <2>3, <2>4
    <3> DEFINE diff == ofSlot - active
    <3>3. diff \in Nat
      BY <2>3, <2>4
    <3> HIDE DEF diff
    <3>4. diff * slotCount \in Nat /\ ofSlot * slotCount \in Nat
      BY <2>1, <2>3, <3>3
    <3> QED
      BY <3>1, <3>2, <3>4 DEF diff
  <2>14. r.pay = SumPay(pays) /\ r.remains = (ofSlot - active) * slotCount
    BY <2>5
  <2>15. Total(r.pay) + r.remains <= funds /\ r.remains \in Nat
    BY <2>3, <2>11, <2>12, <2>13, <2>14
  <2>16. ASSUME NEW w \in Wallet, r.pay[w] > 0 PROVE \E v \in miners : w \in StakersOf(v)
    <3>1. PICK v \in miners : pays[v][w] > 0
      BY <2>11, <2>14, <2>16
    <3> QED
      BY <2>7, <3>1
  <2>17. Allocated(r, funds, miners)
    BY <2>11, <2>14, <2>15, <2>16 DEF Allocated
  <2> QED
    BY <2>17 DEF r, miners
<1> QED
  BY <1>3, <1>4

-----------------------------------------------------------------------------
\* The entries of the owner's contract, one for an epoch.
Info == [EpochId : Nat, WlIndex : {0}, WlCount : 0..EpochLeaderCount]

OneEach(infos) ==
    \A i, j \in infos \cup {UpgradeWhiteEpochLeaderDefault} : i.EpochId = j.EpochId => i = j

\* The types of the state and of the current block.
State ==
    [gas : [Epochs -> Nat], pool : [0..(Period(MaxEpoch) + 1) -> Nat], paid : Payment,
     finished : SUBSET Epochs, fee : [Validator -> 0..FeeUnit], infos : SUBSET Info]

Heads ==
    [e : Epochs, s : 0..(SlotCount - 1), m : Miner, during : [Miner -> Nat],
     before : [Miner -> Nat], st : State]

\* There are no more blocks than slots, and who made one has worked.
BlocksCounted ==
    /\ Total(head.during) <= head.s + 1 /\ Total(head.before) <= SlotCount
    /\ head.during[head.m] >= 1
    /\ \A v \in Validator : head.during[v] > 0 \/ head.before[v] > 0 => v \in worked

\* The inductive invariant.
IIInv ==
    /\ head \in Heads /\ head.e >= FirstEpochId + 2 /\ OneEach(head.st.infos)
    /\ work \in Work /\ worked \subseteq Validator /\ refused \in BOOLEAN
    /\ BlocksCounted
    /\ \A e \in head.st.finished : e < head.e
    /\ NoWorkNoPay /\ PaidOnTime

\* With c places for the white list the rounded shares are no more than the
\* whole.
Fits(c) ==
    LET elCnt == EpochLeaderCount - c
        all == RandomProperCount + elCnt
    IN  2 * round(elCnt * Scale, 2 * all) + round(RandomProperCount * Scale, all) <= Scale

\* So it is for every entry that was made, and without any.
SharesFit ==
    \A i \in head.st.infos \cup {UpgradeWhiteEpochLeaderDefault} : Fits(i.WlCount)

\* The numbers of the assumptions in one place.
LEMMA Numbers ==
    /\ EpochLeaderCount \in Nat /\ RandomProperCount \in Nat \ {0}
    /\ SlotCount \in Nat \ {0} /\ FirstEpochId \in Nat \ {0} /\ MaxEpoch \in Nat
    /\ subsidyReductionInterval \in Nat \ {0} /\ Scale \in Nat \ {0}
    /\ IsFiniteSet(Validator) /\ IsFiniteSet(Miner) /\ IsFiniteSet(Wallet)
    /\ White \notin Validator /\ White \in Miner /\ Validator \subseteq Miner
    /\ \A e \in Epochs : e \in Nat /\ FirstEpochId <= e /\ e <= MaxEpoch
    /\ UpgradeWhiteEpochLeaderDefault \in Info /\ UpgradeWhiteEpochLeaderDefault.EpochId = 0
<1>1. EpochLeaderCount \in Nat /\ RandomProperCount \in Nat
  BY IncentiveAssumption, ElementsOf DEF EpochLeaderCount, RandomProperCount
<1>2. RandomProperCount # 0
  <2>1. RandomProposers \in Seq(Validator) /\ RandomProposers # << >>
    BY IncentiveAssumption
  <2> QED
    BY <2>1 DEF RandomProperCount
<1>3. /\ IsFiniteSet(Validator) /\ IsFiniteSet(Miner) /\ IsFiniteSet(Wallet)
      /\ White \notin Validator /\ White \in Miner /\ Validator \subseteq Miner
  BY IncentiveAssumption, FS_AddElement DEF Miner
<1>4. \A e \in Epochs : e \in Nat /\ FirstEpochId <= e /\ e <= MaxEpoch
  BY IncentiveAssumption DEF Epochs
<1>5. WlDefault \in 0..EpochLeaderCount
  BY <1>1, PosControlAssumption, WhiteListAssumption
<1>6. UpgradeWhiteEpochLeaderDefault \in Info /\ UpgradeWhiteEpochLeaderDefault.EpochId = 0
  BY <1>5 DEF UpgradeWhiteEpochLeaderDefault, Info
<1> QED
  BY <1>1, <1>2, <1>3, <1>4, <1>6, IncentiveAssumption

\* A nonempty set of numbers up to n has a greatest.
LEMMA MaxUpTo ==
    ASSUME NEW n \in Nat, NEW S \in SUBSET (0..n), S # {}
    PROVE  Max(S) \in S /\ \A x \in S : x <= Max(S)
BY GreatestUpTo DEF Max

\* The entry in force is an entry, for an epoch not after this one.
LEMMA EntryInForce ==
    ASSUME NEW infos \in SUBSET Info, NEW e \in Nat
    PROVE  LET all == infos \cup {UpgradeWhiteEpochLeaderDefault}
               ids == {i.EpochId : i \in {j \in all : j.EpochId <= e}}
               entry == GetEpochWLInfo(infos, e)
           IN  /\ entry \in all /\ entry.EpochId = Max(ids) /\ Max(ids) <= e
               /\ entry.WlCount \in 0..EpochLeaderCount
<1> DEFINE all == infos \cup {UpgradeWhiteEpochLeaderDefault}
           ids == {i.EpochId : i \in {j \in all : j.EpochId <= e}}
<1>1. UpgradeWhiteEpochLeaderDefault \in all /\ UpgradeWhiteEpochLeaderDefault.EpochId = 0
      /\ \A i \in all : i.EpochId \in Nat /\ i.WlCount \in 0..EpochLeaderCount
  BY Numbers DEF Info
<1> HIDE DEF all
<1>2. ids \in SUBSET (0..e) /\ 0 \in ids
  BY <1>1
<1>3. Max(ids) \in ids /\ Max(ids) \in 0..e
  BY <1>2, MaxUpTo
<1>4. \E i \in all : i.EpochId = Max(ids)
  <2> DEFINE top == Max(ids)
  <2>1. top \in ids
    BY <1>3
  <2> HIDE DEF top
  <2>2. \E i \in all : i.EpochId = top
    BY <2>1
  <2> QED
    BY <2>2 DEF top
<1>5. GetEpochWLInfo(infos, e) = CHOOSE i \in all : i.EpochId = Max(ids)
  BY DEF GetEpochWLInfo, all
<1> HIDE DEF ids
<1>6. GetEpochWLInfo(infos, e) \in all /\ GetEpochWLInfo(infos, e).EpochId = Max(ids)
  BY <1>4, <1>5
<1>7. Max(ids) <= e
  BY <1>3
<1> QED
  BY <1>1, <1>6, <1>7 DEF all, ids

\* A new entry for a later epoch is not in force yet.
LEMMA EntrySettled ==
    ASSUME NEW infos \in SUBSET Info, OneEach(infos), NEW info \in Info, NEW e \in Nat, e < info.EpochId
    PROVE  /\ OneEach(upgradeWhiteEpochLeader(infos, info))
           /\ upgradeWhiteEpochLeader(infos, info) \in SUBSET Info
           /\ GetEpochWLInfo(upgradeWhiteEpochLeader(infos, info), e) = GetEpochWLInfo(infos, e)
<1> DEFINE new == upgradeWhiteEpochLeader(infos, info)
           default == UpgradeWhiteEpochLeaderDefault
           all == infos \cup {default}
           all2 == new \cup {default}
           ids == {i.EpochId : i \in {j \in all : j.EpochId <= e}}
           ids2 == {i.EpochId : i \in {j \in all2 : j.EpochId <= e}}
<1>1. new \in SUBSET Info /\ new = {i \in infos : i.EpochId # info.EpochId} \cup {info}
  BY DEF upgradeWhiteEpochLeader
<1>2. default.EpochId = 0 /\ info.EpochId \in Nat /\ \A i \in infos : i.EpochId \in Nat
  BY Numbers DEF Info
<1>3. \A i, j \in all : i.EpochId = j.EpochId => i = j
  BY DEF OneEach
<1> HIDE DEF new, default
<1>4. OneEach(new)
  BY <1>1, <1>2, <1>3 DEF OneEach, default
<1>5. {j \in all : j.EpochId <= e} = {j \in all2 : j.EpochId <= e}
  BY <1>1, <1>2
<1>6. ids = ids2
  BY <1>5
<1>7. /\ GetEpochWLInfo(infos, e) \in all /\ GetEpochWLInfo(infos, e).EpochId = Max(ids)
      /\ GetEpochWLInfo(new, e) \in all2 /\ GetEpochWLInfo(new, e).EpochId = Max(ids2)
      /\ Max(ids) <= e
  BY <1>1, EntryInForce DEF default
<1> DEFINE a == GetEpochWLInfo(infos, e)
           b == GetEpochWLInfo(new, e)
<1> HIDE DEF a, b, ids, ids2
<1>8. a \in all /\ b \in all2 /\ a.EpochId = b.EpochId /\ b.EpochId <= e
  BY <1>6, <1>7 DEF a, b
<1>9. b \in all
  BY <1>5, <1>8
<1>10. a = b
  BY <1>3, <1>8, <1>9
<1> QED
  BY <1>1, <1>4, <1>10 DEF new, a, b

\* Periods follow each other, and a period is that of an epoch of the model.
LEMMA Periods ==
    ASSUME NEW n \in Nat
    PROVE  /\ Period(n) \in Nat
           /\ Period(n + subsidyReductionInterval) = Period(n) + 1
           /\ \A m \in Nat : m <= n => Period(m) <= Period(n)
<1> DEFINE k == subsidyReductionInterval
<1>0. k \in Nat \ {0}
  BY Numbers
<1> HIDE DEF k
<1>1. Period(n) \in Nat /\ Period(n) * k <= n /\ n < Period(n) * k + k
  BY <1>0, Quotient, QuotientOfNat DEF Period, k
<1>2. ASSUME NEW m \in Nat, m <= n PROVE Period(m) <= Period(n)
  <2>1. Period(m) \in Nat /\ Period(m) * k <= m
    BY <1>0, Quotient, QuotientOfNat DEF Period, k
  <2> SUFFICES ASSUME Period(m) >= Period(n) + 1 PROVE FALSE
    BY <1>1, <2>1
  <2> DEFINE a == Period(m)
             b == Period(n)
  <2> HIDE DEF a, b
  <2>2. a \in Nat /\ b \in Nat /\ a >= b + 1 /\ a * k <= m /\ n < b * k + k
    BY <1>1, <2>1 DEF a, b
  <2>3. a * k >= (b + 1) * k /\ (b + 1) * k = b * k + k /\ b * k \in Nat /\ a * k \in Nat
    BY <1>0, <2>2
  <2> QED
    BY <1>0, <1>2, <2>2, <2>3
<1>3. Period(n + k) = Period(n) + 1
  <2> DEFINE a == Period(n + k)
             b == Period(n)
  <2>0. n + k \in Nat
    BY <1>0
  <2>1. a \in Nat /\ a * k <= n + k /\ n + k < a * k + k
    BY <1>0, <2>0, Quotient, QuotientOfNat DEF Period, k
  <2> HIDE DEF a, b
  <2>2. b \in Nat /\ b * k <= n /\ n < b * k + k
    BY <1>1 DEF b
  <2>3. (b + 1) * k = b * k + k /\ (b + 2) * k = b * k + k + k /\ b * k \in Nat /\ a * k \in Nat
    BY <1>0, <2>1, <2>2
  <2>4. ~(a <= b)
    <3> SUFFICES ASSUME a <= b PROVE FALSE
      OBVIOUS
    <3>1. a * k <= b * k
      BY <1>0, <2>1, <2>2
    <3> QED
      BY <1>0, <2>1, <2>2, <2>3, <3>1
  <2>5. ~(a >= b + 2)
    <3> SUFFICES ASSUME a >= b + 2 PROVE FALSE
      OBVIOUS
    <3>1. a * k >= (b + 2) * k
      BY <1>0, <2>1, <2>2
    <3> QED
      BY <1>0, <2>1, <2>2, <2>3, <3>1
  <2>6. a = b + 1
    BY <2>1, <2>2, <2>4, <2>5
  <2> QED
    BY <2>6 DEF a, b
<1> QED
  BY <1>1, <1>2, <1>3 DEF k

\* The pool of the epochs of the model.
LEMMA PeriodsOf ==
    ASSUME NEW e \in Epochs
    PROVE  /\ Period(e) \in Nat /\ Period(e) + 1 \in 0..(Period(MaxEpoch) + 1)
           /\ e - FirstEpochId \in Nat /\ Period(e - FirstEpochId) \in 0..Period(MaxEpoch)
           /\ Period(e - FirstEpochId) \in 0..(Period(MaxEpoch) + 1)
           /\ Period(e + subsidyReductionInterval) = Period(e) + 1
           /\ \A f \in Epochs : f <= e => Period(f - FirstEpochId) <= Period(e)
<1>1. /\ e \in Nat /\ e <= MaxEpoch /\ MaxEpoch \in Nat /\ FirstEpochId \in Nat
      /\ e - FirstEpochId \in Nat /\ e - FirstEpochId <= MaxEpoch
  BY Numbers
<1>2. /\ Period(e) \in Nat /\ Period(e) <= Period(MaxEpoch) /\ Period(MaxEpoch) \in Nat
      /\ Period(e - FirstEpochId) \in Nat /\ Period(e - FirstEpochId) <= Period(MaxEpoch)
      /\ Period(e + subsidyReductionInterval) = Period(e) + 1
  BY <1>1, Periods
<1>3. ASSUME NEW f \in Epochs, f <= e PROVE Period(f - FirstEpochId) <= Period(e)
  <2>1. f - FirstEpochId \in Nat /\ f - FirstEpochId <= e
    BY <1>1, <1>3, Numbers
  <2> QED
    BY <1>1, <2>1, Periods
<1> QED
  BY <1>1, <1>2, <1>3

\* What there is to pay for an epoch is an amount.
LEMMA PoolIs ==
    ASSUME NEW st \in State, NEW e \in Epochs
    PROVE  calculateIncentivePool(st, e) \in Nat
<1>1. /\ e \in Nat /\ e >= FirstEpochId /\ FirstEpochId \in Nat
      /\ subsidyReductionInterval \in Nat \ {0}
  BY Numbers
<1> DEFINE n == Period(e - FirstEpochId)
<1>2. n \in 0..Period(MaxEpoch) /\ n \in 0..(Period(MaxEpoch) + 1)
  BY PeriodsOf
<1>3. Reduced(n) \in Nat
  BY <1>2, ReducedAssumption
<1>4. st.pool[n] \in Nat /\ st.gas[e] \in Nat
  BY <1>2 DEF State
<1>5. st.pool[n] \div subsidyReductionInterval \in Nat
  BY <1>1, <1>4, QuotientOfNat
<1>6. getBaseSubsidyTotalForEpoch(st, e) \in Nat
  <2> HIDE DEF n
  <2>1. getBaseSubsidyTotalForEpoch(st, e)
          = Reduced(n) + (IF n >= 1 THEN st.pool[n] \div subsidyReductionInterval ELSE 0)
    BY <1>1 DEF getBaseSubsidyTotalForEpoch, getRemainIncentivePool, n
  <2> QED
    BY <1>3, <1>5, <2>1
<1> QED
  BY <1>4, <1>6 DEF calculateIncentivePool

\* A rounded fraction is a natural number, a share of an amount an amount.
LEMMA ShareIs ==
    ASSUME NEW total \in Nat, NEW num \in Nat, NEW den \in Nat \ {0}
    PROVE  /\ round(num * Scale, den) \in Nat
           /\ calcPercent(total, num, den) \in Nat
           /\ calcPercent(total, num, den) * Scale <= total * round(num * Scale, den)
<1>1. Scale \in Nat \ {0} /\ num * Scale \in Nat
  BY Numbers
<1> DEFINE a == 2 * (num * Scale) + den
           b == 2 * den
           r == round(num * Scale, den)
<1>2. a \in Nat /\ b \in Nat \ {0}
  BY <1>1
<1>3. r = a \div b
  BY DEF round
<1> HIDE DEF a, b, r
<1>4. r \in Nat
  BY <1>2, <1>3, QuotientOfNat
<1> DEFINE t == total * r
<1>5. t \in Nat
  BY <1>4
<1> HIDE DEF t
<1>6. t \div Scale \in Nat /\ (t \div Scale) * Scale <= t
  BY <1>1, <1>5, Quotient, QuotientOfNat
<1>7. calcPercent(total, num, den) = t \div Scale
  BY DEF calcPercent, t, r
<1> QED
  BY <1>4, <1>6, <1>7 DEF t, r

\* The shares of the roles, and when they are no more than the whole.
LEMMA SharesAre ==
    ASSUME NEW st \in State, NEW e \in Nat, NEW total \in Nat
    PROVE  LET share == calcIncentivePercent(st, e, total)
           IN  /\ share.el \in Nat /\ share.rp \in Nat /\ share.sl \in Nat
               /\ Fits(WlCount(st, e)) => share.el + share.rp + share.sl <= total
<1> DEFINE c == WlCount(st, e)
           elCnt == EpochLeaderCount - c
           all == RandomProperCount + elCnt
           a == round(elCnt * Scale, 2 * all)
           b == round(RandomProperCount * Scale, all)
           el == calcPercent(total, elCnt, 2 * all)
           rp == calcPercent(total, RandomProperCount, all)
           share == calcIncentivePercent(st, e, total)
<1>1. c \in 0..EpochLeaderCount
  <2>1. st.infos \in SUBSET Info
    BY DEF State
  <2> QED
    BY <2>1, EntryInForce DEF WlCount
<1>2. elCnt \in Nat /\ all \in Nat \ {0} /\ 2 * all \in Nat \ {0} /\ RandomProperCount \in Nat /\ Scale \in Nat \ {0}
  BY <1>1, Numbers
<1>3. share = [el |-> el, rp |-> rp, sl |-> el]
  BY DEF calcIncentivePercent
<1>4. Fits(c) <=> 2 * a + b <= Scale
  BY DEF Fits
<1> HIDE DEF c, share
<1>5. /\ a \in Nat /\ b \in Nat /\ el \in Nat /\ rp \in Nat
      /\ el * Scale <= total * a /\ rp * Scale <= total * b
  <2> HIDE DEF elCnt, all
  <2> QED
    BY <1>2, ShareIs
<1> HIDE DEF elCnt, all, a, b, el, rp
<1>6. ASSUME 2 * a + b <= Scale PROVE el + rp + el <= total
  <2> SUFFICES ASSUME el + rp + el >= total + 1 PROVE FALSE
    BY <1>5
  <2> DEFINE x == el + rp + el
  <2>1. x * Scale = el * Scale + rp * Scale + el * Scale
    BY <1>2, <1>5
  <2>2. total * (2 * a + b) = total * a + total * b + total * a
    BY <1>5
  <2>3. total * (2 * a + b) <= total * Scale
    BY <1>2, <1>5, <1>6
  <2>4. x * Scale >= (total + 1) * Scale /\ (total + 1) * Scale = total * Scale + Scale
    BY <1>2, <1>5
  <2>5. /\ el * Scale \in Nat /\ rp * Scale \in Nat /\ total * a \in Nat /\ total * b \in Nat
        /\ total * Scale \in Nat
    BY <1>2, <1>5
  <2> DEFINE xS == x * Scale
             tS == total * Scale
             eS == el * Scale
             rS == rp * Scale
             ta == total * a
             tb == total * b
  <2>6. /\ xS = eS + rS + eS /\ ta + tb + ta <= tS /\ xS >= tS + Scale
        /\ eS \in Nat /\ rS \in Nat /\ ta \in Nat /\ tb \in Nat /\ tS \in Nat
        /\ eS <= ta /\ rS <= tb
    BY <1>5, <2>1, <2>2, <2>3, <2>4, <2>5
  <2> HIDE DEF xS, tS, eS, rS, ta, tb
  <2> QED
    BY <1>2, <2>6
<1>7. share.el = el /\ share.rp = rp /\ share.sl = el
  BY <1>3
<1> QED
  BY <1>4, <1>5, <1>6, <1>7 DEF share, c

\* The groups whose activity counts, and who was active in them.
LEMMA GroupsAre ==
    ASSUME NEW st \in State, NEW e \in Nat, NEW w \in Work
    PROVE  LET el == getEpochLeaderActivity(st, e, w)
               rp == getRandomProposerActivity(w)
           IN  /\ el \in Seq([addr : Validator, act : BOOLEAN])
               /\ rp \in Seq([addr : Validator, act : BOOLEAN])
               /\ {el[i].addr : i \in {j \in DOMAIN el : el[j].act}} \subseteq Doers(w)
               /\ {rp[i].addr : i \in {j \in DOMAIN rp : rp[j].act}} \subseteq Doers(w)
<1> DEFINE wl == WlCount(st, e)
           raw == LeadersRead(wl, w)
           n == IF raw > wl THEN raw - wl ELSE raw
           k == IF w.rp THEN RandomProperCount ELSE 0
           el == getEpochLeaderActivity(st, e, w)
           rp == getRandomProposerActivity(w)
<1>1. WlCount(st, e) \in 0..EpochLeaderCount
  <2>1. st.infos \in SUBSET Info
    BY DEF State
  <2> QED
    BY <2>1, EntryInForce DEF WlCount
<1>2. /\ n \in Nat /\ n <= EpochLeaderCount /\ k \in Nat /\ k <= RandomProperCount
      /\ EpochLeaderCount \in Nat /\ RandomProperCount \in Nat
  BY <1>1, Numbers, WorkAssumption DEF LeadersRead
<1>3. /\ el = [i \in 1..n |-> [addr |-> EpochLeaders[i], act |-> i \in w.elAct]]
      /\ rp = [i \in 1..k |-> [addr |-> RandomProposers[i], act |-> i \in w.rpAct]]
  BY DEF getEpochLeaderActivity, getRandomProposerActivity
<1>4. /\ \A i \in 1..EpochLeaderCount : EpochLeaders[i] \in Validator
      /\ \A i \in 1..RandomProperCount : RandomProposers[i] \in Validator
  BY IncentiveAssumption, ElementsOf DEF EpochLeaderCount, RandomProperCount
<1>5. w.elAct \subseteq 1..EpochLeaderCount /\ w.rpAct \subseteq 1..RandomProperCount
  BY WorkAssumption
<1> HIDE DEF wl, raw, n, k, el, rp
<1>6. /\ \A i \in 1..n : el[i] \in [addr : Validator, act : BOOLEAN]
      /\ \A i \in 1..k : rp[i] \in [addr : Validator, act : BOOLEAN]
  <2>1. \A i \in 1..n : i \in 1..EpochLeaderCount
    BY <1>2
  <2>2. \A i \in 1..k : i \in 1..RandomProperCount
    BY <1>2
  <2>3. \A i \in 1..n : el[i] \in [addr : Validator, act : BOOLEAN]
    BY <1>3, <1>4, <2>1
  <2>4. \A i \in 1..k : rp[i] \in [addr : Validator, act : BOOLEAN]
    BY <1>3, <1>4, <2>2
  <2> QED
    BY <2>3, <2>4
<1>7. el \in Seq([addr : Validator, act : BOOLEAN]) /\ rp \in Seq([addr : Validator, act : BOOLEAN])
  <2> DEFINE R == [addr : Validator, act : BOOLEAN]
  <2>1. el \in [1..n -> R] /\ rp \in [1..k -> R]
    BY <1>3, <1>6
  <2> HIDE DEF R
  <2>2. el \in Seq(R) /\ rp \in Seq(R)
    BY <1>2, <2>1, SequenceOf
  <2> QED
    BY <2>2 DEF R
<1>8. \A i \in DOMAIN el : el[i].act => el[i].addr \in Doers(w)
  BY <1>3, <1>5 DEF Doers
<1>9. \A i \in DOMAIN rp : rp[i].act => rp[i].addr \in Doers(w)
  BY <1>3, <1>5 DEF Doers
<1> QED
  BY <1>7, <1>8, <1>9 DEF el, rp

\* The blocks of an epoch that the current block follows: no more than the
\* slots, made by validators that have worked.
LEMMA BlocksOfHead ==
    ASSUME IIInv, NEW e \in Int
    PROVE  /\ BlocksOf(head, e) \in [Miner -> Nat] /\ Total(BlocksOf(head, e)) <= SlotCount
           /\ Total(BlocksOf(head, e)) \in Nat
           /\ \A v \in Validator : BlocksOf(head, e)[v] > 0 => v \in worked
<1>1. /\ head.during \in [Miner -> Nat] /\ head.before \in [Miner -> Nat] /\ head.s \in 0..(SlotCount - 1)
      /\ BlocksCounted
  BY DEF IIInv, Heads
<1>2. IsFiniteSet(Miner) /\ Validator \subseteq Miner /\ SlotCount \in Nat \ {0}
  BY Numbers
<1> DEFINE b == BlocksOf(head, e)
<1>3. b \in {head.during, head.before, NoBlocks}
  BY DEF BlocksOf
<1>4. NoBlocks \in [Miner -> Nat] /\ Total(NoBlocks) = 0 /\ \A m \in Miner : NoBlocks[m] = 0
  <2>1. NoBlocks \in [Miner -> Nat] /\ DOMAIN NoBlocks = Miner /\ \A m \in Miner : NoBlocks[m] = 0
    BY DEF NoBlocks
  <2>2. SumFunctionOnSet(NoBlocks, Miner) = 0 * Cardinality(Miner) /\ Cardinality(Miner) \in Nat
    BY <1>2, <2>1, SumConstant, FS_CardinalityType
  <2>3. Total(NoBlocks) = 0
    BY <2>1, <2>2 DEF Total
  <2> QED
    BY <2>1, <2>3
<1> HIDE DEF b
<1>5. b \in [Miner -> Nat]
  BY <1>1, <1>3, <1>4
<1>6. Total(b) \in Nat
  BY <1>2, <1>5, SumType DEF Total
<1>7. Total(b) <= SlotCount
  <2>1. b = head.during => Total(b) <= SlotCount
    BY <1>1, <1>2, <1>6 DEF BlocksCounted
  <2>2. b = head.before => Total(b) <= SlotCount
    BY <1>1 DEF BlocksCounted
  <2>3. b = NoBlocks => Total(b) <= SlotCount
    BY <1>2, <1>4
  <2> QED
    BY <1>3, <2>1, <2>2, <2>3
<1>8. ASSUME NEW v \in Validator, b[v] > 0 PROVE v \in worked
  <2>1. v \in Miner /\ NoBlocks[v] = 0
    BY <1>2, <1>4
  <2>2. b # NoBlocks
    BY <1>8, <2>1
  <2> QED
    BY <1>1, <1>3, <1>8, <2>2 DEF BlocksCounted
<1> QED
  BY <1>5, <1>6, <1>7, <1>8 DEF b

LEMMA SlotActivityIs ==
    ASSUME IIInv, NEW e \in Epochs
    PROVE  LET blocks == getSlotLeaderActivity(head, e)
           IN  /\ blocks \in [Miner -> Nat] /\ Total(blocks) <= SlotCount
               /\ {v \in Validator : blocks[v] > 0} \subseteq worked
<1> DEFINE b == BlocksOf(head, e)
           blocks == getSlotLeaderActivity(head, e)
<1>1. blocks = [m \in Miner |-> b[m] - (IF head.e = e /\ head.m = m THEN 1 ELSE 0)]
  BY DEF getSlotLeaderActivity
<1>2. /\ b \in [Miner -> Nat] /\ Total(b) <= SlotCount /\ Total(b) \in Nat
      /\ \A v \in Validator : b[v] > 0 => v \in worked
  BY Numbers, BlocksOfHead
<1>3. head.e = e => b = head.during
  BY DEF BlocksOf
<1>4. head.m \in Miner /\ head.during[head.m] >= 1
  BY DEF IIInv, Heads, BlocksCounted
<1> HIDE DEF b, blocks
<1>5. \A m \in Miner : blocks[m] \in Nat /\ blocks[m] <= b[m]
  BY <1>1, <1>2, <1>3, <1>4
<1>6. blocks \in [Miner -> Nat] /\ DOMAIN blocks = Miner /\ DOMAIN b = Miner
  BY <1>1, <1>2, <1>5
<1>7. Total(blocks) <= Total(b) /\ Total(blocks) \in Nat
  <2>1. IsFiniteSet(Miner)
    BY Numbers
  <2>2. \A m \in Miner : blocks[m] \in Nat /\ b[m] \in Nat
    BY <1>2, <1>6
  <2> QED
    BY <1>5, <1>6, <2>1, <2>2, SumCompare, SumType DEF Total
<1>8. SlotCount \in Nat /\ Validator \subseteq Miner
  BY Numbers
<1>9. Total(blocks) <= SlotCount
  BY <1>2, <1>7, <1>8
<1>10. {v \in Validator : blocks[v] > 0} \subseteq worked
  BY <1>2, <1>5, <1>8
<1> QED
  BY <1>6, <1>9, <1>10 DEF blocks

\* What Run makes of a state when it pays for epoch e.
After(st, e, pay, rem) ==
    [addRemainIncentivePool(st, e, rem) EXCEPT !.paid = Plus(@, pay), !.finished = @ \cup {e}]

\* A payment and the remainder are all there is for the epoch; the remainder
\* is not negative when the shares fit; only stakers of the earners are paid.
Pays(st, e, pay, rem, earners) ==
    /\ pay \in Payment /\ rem \in Int
    /\ calculateIncentivePool(st, e) = Total(pay) + rem
    /\ Fits(WlCount(st, e)) => rem >= 0
    /\ \A w \in Wallet : pay[w] > 0 => \E v \in earners : w \in StakersOf(v)

\* Run pays for an epoch that was not paid yet; its last check never fails.
LEMMA RunPays ==
    ASSUME IIInv, NEW st \in State, NEW e \in Epochs, NEW w \in Work
    PROVE  \/ e \in st.finished /\ Run(st, head, e, w) = st
           \/ /\ e \notin st.finished
              /\ \E pay \in Payment, rem \in Int :
                    /\ Run(st, head, e, w) = After(st, e, pay, rem)
                    /\ Pays(st, e, pay, rem, Doers(w) \cup worked)
<1>1. CASE e \in st.finished
  BY <1>1 DEF Run, isFinished
<1>2. CASE e \notin st.finished
  <2> DEFINE total == calculateIncentivePool(st, e)
             share == calcIncentivePercent(st, e, total)
             elGroup == getEpochLeaderActivity(st, e, w)
             rpGroup == getRandomProposerActivity(w)
             blocks == getSlotLeaderActivity(head, e)
             el == protocalRunerAllocate(share.el, elGroup, w.known, head)
             rp == protocalRunerAllocate(share.rp, rpGroup, w.known, head)
             sl == slotLeaderAllocate(share.sl, blocks, w.knownPrev, head)
             pay == Plus(Plus(el.pay, rp.pay), sl.pay)
             remains == (total - share.el - share.rp - share.sl)
                        + el.remains + rp.remains + sl.remains
             extraRemain == Max({0, total - Total(pay) - remains})
             remainsAll == remains + extraRemain
             check == total >= Total(pay) + remainsAll
             earners == Doers(w) \cup worked
  <2>1. Run(st, head, e, w) =
          IF isFinished(st, e) \/ ~check THEN st ELSE After(st, e, pay, remainsAll)
    BY DEF Run, After
  <2>2. ~isFinished(st, e)
    BY <1>2 DEF isFinished
  <2>3. total \in Nat
    BY PoolIs
  <2>4. e \in Nat /\ head.st.fee \in [Validator -> 0..FeeUnit]
    BY Numbers DEF IIInv, Heads, State
  <2> HIDE DEF total
  <2>5. /\ share.el \in Nat /\ share.rp \in Nat /\ share.sl \in Nat
        /\ Fits(WlCount(st, e)) => share.el + share.rp + share.sl <= total
    BY <2>3, <2>4, SharesAre
  <2>6. /\ elGroup \in Seq([addr : Validator, act : BOOLEAN])
        /\ rpGroup \in Seq([addr : Validator, act : BOOLEAN])
        /\ {elGroup[i].addr : i \in {j \in DOMAIN elGroup : elGroup[j].act}} \subseteq earners
        /\ {rpGroup[i].addr : i \in {j \in DOMAIN rpGroup : rpGroup[j].act}} \subseteq earners
    BY <2>4, GroupsAre
  <2>7. /\ blocks \in [Miner -> Nat] /\ Total(blocks) <= SlotCount
        /\ {v \in Validator : blocks[v] > 0} \subseteq earners
    BY SlotActivityIs
  <2> HIDE DEF share, elGroup, rpGroup, blocks, earners
  <2>8. Allocated(el, share.el, earners)
    BY <2>4, <2>5, <2>6, GroupAllocated DEF Allocated
  <2>9. Allocated(rp, share.rp, earners)
    BY <2>4, <2>5, <2>6, GroupAllocated DEF Allocated
  <2>10. Allocated(sl, share.sl, earners)
    BY <2>4, <2>5, <2>7, SlotsAllocated DEF Allocated
  <2> HIDE DEF el, rp, sl
  <2>11. /\ el.pay \in Payment /\ rp.pay \in Payment /\ sl.pay \in Payment
         /\ el.remains \in Nat /\ rp.remains \in Nat /\ sl.remains \in Nat
         /\ Total(el.pay) + el.remains <= share.el
         /\ Total(rp.pay) + rp.remains <= share.rp
         /\ Total(sl.pay) + sl.remains <= share.sl
    BY <2>8, <2>9, <2>10 DEF Allocated
  <2>12. /\ pay \in Payment /\ Total(pay) = Total(el.pay) + Total(rp.pay) + Total(sl.pay)
         /\ Total(el.pay) \in Nat /\ Total(rp.pay) \in Nat /\ Total(sl.pay) \in Nat
    <3> DEFINE two == Plus(el.pay, rp.pay)
    <3>1. two \in Payment /\ Total(two) = Total(el.pay) + Total(rp.pay)
      BY <2>11, TotalOf
    <3> HIDE DEF two
    <3>2. /\ Plus(two, sl.pay) \in Payment
          /\ Total(Plus(two, sl.pay)) = Total(two) + Total(sl.pay)
      BY <2>11, <3>1, TotalOf
    <3>3. Total(el.pay) \in Nat /\ Total(rp.pay) \in Nat /\ Total(sl.pay) \in Nat
      BY <2>11, TotalOf
    <3> QED
      BY <3>1, <3>2, <3>3 DEF two
  <2>13. ASSUME NEW x \in Wallet, pay[x] > 0 PROVE \E v \in earners : x \in StakersOf(v)
    <3>1. pay[x] = el.pay[x] + rp.pay[x] + sl.pay[x]
      BY <2>11, <2>13 DEF Plus, Payment
    <3>2. el.pay[x] \in Nat /\ rp.pay[x] \in Nat /\ sl.pay[x] \in Nat
      BY <2>11, <2>13 DEF Payment
    <3>3. el.pay[x] > 0 \/ rp.pay[x] > 0 \/ sl.pay[x] > 0
      <4> HIDE DEF pay
      <4> QED
        BY <2>13, <3>1, <3>2
    <3> QED
      BY <2>8, <2>9, <2>10, <2>13, <3>3 DEF Allocated
  <2> HIDE DEF pay
  <2>14. /\ Total(pay) \in Nat /\ remains \in Int /\ total - Total(pay) - remains >= 0
         /\ total - Total(pay) - remains \in Int
    BY <2>3, <2>5, <2>11, <2>12
  <2> HIDE DEF remains
  <2>15. extraRemain = total - Total(pay) - remains
    <3> DEFINE x == total - Total(pay) - remains
    <3>1. x \in Int /\ x >= 0
      BY <2>14
    <3> HIDE DEF x
    <3>2. Max({0, x}) = IF 0 >= x THEN 0 ELSE x
      BY <3>1, MaxOfTwo
    <3>3. Max({0, x}) = x
      BY <3>1, <3>2
    <3> QED
      BY <3>3 DEF x
  <2> HIDE DEF extraRemain
  <2>16. remainsAll \in Int /\ total = Total(pay) + remainsAll
    BY <2>3, <2>14, <2>15
  <2>17. check
    BY <2>3, <2>14, <2>16
  <2>18. Fits(WlCount(st, e)) => remainsAll >= 0
    <3> SUFFICES ASSUME Fits(WlCount(st, e)) PROVE remainsAll >= 0
      OBVIOUS
    <3>1. Total(pay) <= total
      BY <2>3, <2>5, <2>11, <2>12
    <3> HIDE DEF remainsAll
    <3> QED
      BY <2>3, <2>14, <2>16, <3>1
  <2> HIDE DEF remainsAll, check
  <2>19. Run(st, head, e, w) = After(st, e, pay, remainsAll)
    BY <2>1, <2>2, <2>17
  <2>20. Pays(st, e, pay, remainsAll, earners)
    BY <2>12, <2>13, <2>16, <2>18 DEF Pays, total
  <2> QED
    BY <1>2, <2>12, <2>16, <2>19, <2>20 DEF earners
<1> QED
  BY <1>1, <1>2

-----------------------------------------------------------------------------
\* A transaction adds to the fees of its epoch, and an entry that it makes is
\* for an epoch that nobody looks up yet.
LEMMA TxRight ==
    ASSUME NEW st \in State, OneEach(st.infos), NEW e \in Epochs, NEW tx \in Tx
    PROVE  LET t == ApplyTx(st, e, tx)
           IN  /\ t \in State /\ OneEach(t.infos)
               /\ t.paid = st.paid /\ t.pool = st.pool /\ t.finished = st.finished
               /\ \A f \in Epochs \ {e} : t.gas[f] = st.gas[f]
               /\ \A f \in Nat : f < e + 2 => GetEpochWLInfo(t.infos, f) = GetEpochWLInfo(st.infos, f)
<1> DEFINE g == AddEpochGas(st, e)
           Same(t) == /\ t \in State /\ t.paid = st.paid /\ t.pool = st.pool /\ t.finished = st.finished
                      /\ \A f \in Epochs \ {e} : t.gas[f] = st.gas[f]
           info == [EpochId |-> e + tx.ahead, WlIndex |-> 0, WlCount |-> tx.count]
           t == ApplyTx(st, e, tx)
<1>1. Same(st)
  OBVIOUS
<1>2. Same(g) /\ g.infos = st.infos /\ g.fee = st.fee
  <2>1. Gas \in Nat /\ st.gas \in [Epochs -> Nat] /\ st.gas[e] \in Nat
    BY IncentiveAssumption DEF State
  <2>2. g = [st EXCEPT !.gas = [st.gas EXCEPT ![e] = st.gas[e] + Gas]]
    BY DEF AddEpochGas, State
  <2>3. [st.gas EXCEPT ![e] = st.gas[e] + Gas] \in [Epochs -> Nat]
    BY <2>1
  <2>4. g \in State /\ g.gas = [st.gas EXCEPT ![e] = st.gas[e] + Gas]
    BY <2>2, <2>3 DEF State
  <2>5. g.paid = st.paid /\ g.pool = st.pool /\ g.finished = st.finished /\ g.infos = st.infos /\ g.fee = st.fee
    BY <2>2 DEF State
  <2> HIDE DEF g
  <2> QED
    BY <2>1, <2>4, <2>5
<1> HIDE DEF g, Same
<1>3. CASE tx.kind = "none"
  <2>1. t = st
    BY <1>3 DEF ApplyTx
  <2> QED
    BY <1>1, <2>1 DEF Same
<1>4. CASE tx.kind = "plain"
  <2>1. t = g
    BY <1>4 DEF ApplyTx, g
  <2> QED
    BY <1>2, <2>1 DEF Same
<1>5. CASE tx.kind = "fee"
  <2>1. t = [g EXCEPT !.fee[tx.v] = tx.rate]
    BY <1>5 DEF ApplyTx, g
  <2>2. tx.v \in Validator /\ tx.rate \in 0..FeeUnit
    BY <1>5, TxAssumption
  <2>3. t \in State /\ t.paid = g.paid /\ t.pool = g.pool /\ t.finished = g.finished /\ t.gas = g.gas
        /\ t.infos = g.infos
    <3> DEFINE fee == [g.fee EXCEPT ![tx.v] = tx.rate]
    <3>1. g \in State
      BY <1>2 DEF Same
    <3>2. t = [g EXCEPT !.fee = fee]
      BY <2>1, <3>1 DEF State
    <3>3. fee \in [Validator -> 0..FeeUnit]
      BY <2>2, <3>1 DEF State
    <3> HIDE DEF fee, t
    <3> QED
      BY <3>1, <3>2, <3>3 DEF State
  <2> QED
    BY <1>2, <2>3 DEF Same
<1>6. CASE tx.kind = "wl"
  <2>0. t = IF upgradeWhiteEpochLeaderParseAndValid(info, e)
            THEN [g EXCEPT !.infos = upgradeWhiteEpochLeader(g.infos, info)] ELSE g
    <3>1. t = IF upgradeWhiteEpochLeaderParseAndValid(info, e)
              THEN [g EXCEPT !.infos = upgradeWhiteEpochLeader(@, info)] ELSE g
      BY <1>6 DEF ApplyTx, g
    <3> QED
      BY <3>1
  <2>1. CASE ~upgradeWhiteEpochLeaderParseAndValid(info, e)
    <3>1. t = g
      BY <2>0, <2>1
    <3> QED
      BY <1>2, <3>1 DEF Same
  <2>2. CASE upgradeWhiteEpochLeaderParseAndValid(info, e)
    <3>1. t = [g EXCEPT !.infos = upgradeWhiteEpochLeader(g.infos, info)]
      BY <2>0, <2>2
    <3>2. info.EpochId = e + tx.ahead /\ info.WlCount = tx.count /\ info.WlIndex = 0
          /\ e \in Nat /\ tx.ahead \in Nat /\ tx.count \in Nat
      BY <1>6, TxAssumption, Numbers
    <3>3. info.WlCount \in MinEpHold..MaxEpHold /\ e + PosUpgradeEpochID <= info.EpochId
      BY <2>2 DEF upgradeWhiteEpochLeaderParseAndValid, posControlCheckEpoch
    <3>4. tx.count \in 0..EpochLeaderCount /\ e + 2 <= info.EpochId /\ e + tx.ahead \in Nat
      BY <3>2, <3>3, PosControlAssumption, WhiteListAssumption, Numbers
    <3>5. info \in Info
      BY <3>4 DEF Info
    <3>6. info.EpochId \in Nat
      BY <3>2
    <3> HIDE DEF info
    <3> DEFINE new == upgradeWhiteEpochLeader(st.infos, info)
    <3>7. st.infos \in SUBSET Info
      BY DEF State
    <3>8. \A f \in Nat : f < e + 2 => f < info.EpochId
      BY <3>2, <3>4, <3>6
    <3>9. 0 < info.EpochId
      BY <3>2, <3>4, <3>6
    <3>10. OneEach(new) /\ new \in SUBSET Info
      BY <3>5, <3>7, <3>9, EntrySettled
    <3>11. \A f \in Nat : f < e + 2 => GetEpochWLInfo(new, f) = GetEpochWLInfo(st.infos, f)
      BY <3>5, <3>7, <3>8, EntrySettled
    <3> HIDE DEF new
    <3>12. t = [g EXCEPT !.infos = new]
      BY <1>2, <3>1 DEF new
    <3>13. t \in State /\ t.paid = g.paid /\ t.pool = g.pool /\ t.finished = g.finished /\ t.gas = g.gas
           /\ t.infos = new
      BY <1>2, <3>10, <3>12 DEF State, Same
    <3> QED
      BY <1>2, <3>10, <3>11, <3>13 DEF Same
  <2> QED
    BY <2>1, <2>2
<1> QED
  BY <1>3, <1>4, <1>5, <1>6, TxAssumption

\* The state after a payment.
LEMMA AfterIs ==
    ASSUME NEW st \in State, NEW e \in Epochs, NEW pay \in Payment, NEW rem \in Int
    PROVE  LET t == After(st, e, pay, rem)
               k == Period(e) + 1
           IN  /\ t \in State /\ t.gas = st.gas /\ t.infos = st.infos
               /\ t.paid = Plus(st.paid, pay) /\ t.finished = st.finished \cup {e}
               /\ k \in 0..(Period(MaxEpoch) + 1)
               /\ t.pool = [st.pool EXCEPT ![k] = Abs(st.pool[k] + rem)]
<1> DEFINE k == Period(e) + 1
           a == Abs(st.pool[k] + rem)
           pool == [st.pool EXCEPT ![k] = a]
           paid == Plus(st.paid, pay)
           t == After(st, e, pay, rem)
<1>1. k \in 0..(Period(MaxEpoch) + 1) /\ Period(e + subsidyReductionInterval) = k
  BY PeriodsOf
<1>2. st.pool \in [0..(Period(MaxEpoch) + 1) -> Nat] /\ st.pool[k] \in Nat
  BY <1>1 DEF State
<1>3. a \in Nat
  BY <1>2 DEF Abs
<1>4. paid \in Payment
  <2>1. st.paid \in Payment
    BY DEF State
  <2> QED
    BY <2>1, TotalOf
<1>5. addRemainIncentivePool(st, e, rem) = [st EXCEPT !.pool = pool]
  <2>1. addRemainIncentivePool(st, e, rem) = [st EXCEPT !.pool[k] = a]
    BY <1>1 DEF addRemainIncentivePool, getRemainIncentivePool
  <2> HIDE DEF k, a
  <2> QED
    BY <2>1 DEF State
<1>6. pool \in [0..(Period(MaxEpoch) + 1) -> Nat]
  <2> HIDE DEF k, a
  <2> QED
    BY <1>1, <1>2, <1>3
<1> HIDE DEF k, a, pool, paid
<1>7. t = [[st EXCEPT !.pool = pool] EXCEPT !.paid = paid, !.finished = st.finished \cup {e}]
  BY <1>5 DEF After, State, paid
<1> HIDE DEF t
<1>8. t \in State /\ t.gas = st.gas /\ t.infos = st.infos /\ t.paid = paid
      /\ t.finished = st.finished \cup {e} /\ t.pool = pool
  BY <1>4, <1>6, <1>7 DEF State
<1> QED
  BY <1>1, <1>8 DEF t, k, a, pool, paid

\* The same without the pools.
LEMMA AfterFields ==
    ASSUME NEW st \in State, NEW e \in Epochs, NEW pay \in Payment, NEW rem \in Int
    PROVE  /\ After(st, e, pay, rem) \in State
           /\ After(st, e, pay, rem).infos = st.infos
           /\ After(st, e, pay, rem).paid = Plus(st.paid, pay)
           /\ After(st, e, pay, rem).finished = st.finished \cup {e}
<1> DEFINE t == After(st, e, pay, rem)
           k == Period(e) + 1
<1>1. /\ t \in State /\ t.gas = st.gas /\ t.infos = st.infos
      /\ t.paid = Plus(st.paid, pay) /\ t.finished = st.finished \cup {e}
      /\ k \in 0..(Period(MaxEpoch) + 1)
      /\ t.pool = [st.pool EXCEPT ![k] = Abs(st.pool[k] + rem)]
  BY AfterIs
<1> QED
  BY <1>1

\* What Extend makes of the state: a transaction, and a payment if it is due.
Extended(e, w, t) ==
    \/ /\ head'.st = t
       /\ ~(e > FirstEpochId + 2 /\ head'.s > IncentiveStartStage) \/ e - 1 \in t.finished
    \/ \E pay \in Payment, rem \in Int :
          /\ e - 1 \in Epochs \ t.finished /\ head'.st = After(t, e - 1, pay, rem)
          /\ Pays(t, e - 1, pay, rem, Doers(w) \cup worked)

LEMMA ExtendIs ==
    ASSUME IIInv, NEW e \in Epochs, NEW s \in 0..(SlotCount - 1), NEW m \in Miner, NEW tx \in Tx,
           NEW w \in Work, Extend(e, s, m, tx, w)
    PROVE  /\ ApplyTx(head.st, e, tx) \in State /\ Extended(e, w, ApplyTx(head.st, e, tx))
           /\ head'.e = e /\ head'.s = s /\ head' = Child(head, head, e, s, m, tx, w)
           /\ head.e \in Nat /\ head.e <= e /\ e \in Nat
<1> DEFINE t == ApplyTx(head.st, e, tx)
<1>1. head.st \in State /\ OneEach(head.st.infos)
  BY DEF IIInv, Heads
<1>2. t \in State
  BY <1>1, TxRight
<1>3. /\ head' = Child(head, head, e, s, m, tx, w) /\ head'.e = e /\ head'.s = s
      /\ head'.st = Finalize(t, head, e, s, w)
  BY DEF Extend, Child
<1>4. head.e \in Nat /\ head.e <= e /\ e \in Nat
  BY Numbers DEF IIInv, Heads, Extend
<1> HIDE DEF t
<1>5. CASE ~(e > FirstEpochId + 2 /\ s > IncentiveStartStage)
  <2>1. head'.st = t
    BY <1>3, <1>5 DEF Finalize
  <2>2. Extended(e, w, t)
    BY <1>3, <1>5, <2>1 DEF Extended
  <2> QED
    BY <1>2, <1>3, <1>4, <2>2 DEF t
<1>6. CASE e > FirstEpochId + 2 /\ s > IncentiveStartStage
  <2>1. head'.st = Run(t, head, e - 1, w)
    BY <1>3, <1>6 DEF Finalize, IncentiveDelayEpochs
  <2>2. e - 1 \in Epochs
    BY <1>4, <1>6, Numbers DEF Epochs
  <2>3. Extended(e, w, t)
    BY <1>2, <2>1, <2>2, RunPays DEF Extended
  <2> QED
    BY <1>2, <1>3, <1>4, <2>3 DEF t
<1> QED
  BY <1>5, <1>6

\* The blocks that are counted after one more.
LEMMA BlocksStep ==
    ASSUME IIInv, NEW e \in Epochs, NEW s \in 0..(SlotCount - 1), NEW m \in Miner, NEW tx \in Tx,
           NEW w \in Work, Extend(e, s, m, tx, w)
    PROVE  /\ head'.during \in [Miner -> Nat] /\ head'.before \in [Miner -> Nat] /\ head'.m = m
           /\ BlocksCounted'
<1> DEFINE own == [NoBlocks EXCEPT ![m] = 1]
           during == head'.during
<1>1. /\ during = (IF e = head.e THEN Plus(head.during, own) ELSE own)
      /\ head'.before = BlocksOf(head, e - 1) /\ head'.m = m /\ head'.s = s /\ head'.e = e
      /\ worked' = worked \cup Doers(w) \cup ({m} \ {White})
      /\ e > head.e \/ (e = head.e /\ s > head.s)
  BY DEF Extend, Child
<1>2. /\ IsFiniteSet(Miner) /\ Validator \subseteq Miner /\ White \notin Validator
      /\ SlotCount \in Nat \ {0} /\ e - 1 \in Int
  BY Numbers
<1>3. /\ head.during \in [Miner -> Nat] /\ head.s \in Nat /\ s \in Nat
      /\ Total(head.during) <= head.s + 1 /\ \A v \in Validator : head.during[v] > 0 => v \in worked
  BY <1>2 DEF IIInv, Heads, BlocksCounted
<1>4. /\ head'.before \in [Miner -> Nat] /\ Total(head'.before) <= SlotCount
      /\ \A v \in Validator : head'.before[v] > 0 => v \in worked
  BY <1>1, <1>2, BlocksOfHead
<1>5. own \in [Miner -> Nat] /\ DOMAIN own = Miner /\ own[m] = 1 /\ \A k \in Miner \ {m} : own[k] = 0
  BY DEF NoBlocks
<1> HIDE DEF own, during
<1>6. SumFunctionOnSet(own, Miner) = 1
  <2>1. SumFunctionOnSet(own, Miner) = SumFunctionOnSet(own, {m})
    BY <1>2, <1>5, SumZeros
  <2>2. IsFiniteSet({}) /\ IsFiniteSet({m}) /\ {m} \ {m} = {} /\ m \in {m}
    BY FS_EmptySet, FS_Singleton
  <2>3. SumFunctionOnSet(own, {m}) = own[m] + SumFunctionOnSet(own, {m} \ {m})
    BY <1>5, <2>2, SumPick
  <2>4. SumFunctionOnSet(own, {m} \ {m}) = 0
    BY <2>2, SumUnfold
  <2>5. SumFunctionOnSet(own, {m}) = 1 + 0
    BY <1>5, <2>3, <2>4
  <2> QED
    BY <2>1, <2>5
<1>7. CASE e # head.e
  <2>1. during = own
    BY <1>1, <1>7
  <2>2. Total(during) = 1
    BY <1>5, <1>6, <2>1 DEF Total
  <2>3. \A v \in Validator : during[v] > 0 => v = m
    BY <1>2, <1>5, <2>1
  <2>4. during \in [Miner -> Nat] /\ Total(during) <= s + 1 /\ during[m] >= 1
    BY <1>3, <1>5, <2>1, <2>2
  <2> QED
    BY <1>1, <1>2, <1>4, <2>3, <2>4 DEF BlocksCounted, during
<1>8. CASE e = head.e
  <2>1. during = [k \in Miner |-> head.during[k] + own[k]]
    BY <1>1, <1>3, <1>8 DEF Plus
  <2>2. \A k \in Miner : /\ head.during[k] \in Nat /\ own[k] \in Nat /\ during[k] \in Nat
                         /\ during[k] = head.during[k] + own[k]
    BY <1>3, <1>5, <2>1
  <2>3. during \in [Miner -> Nat] /\ DOMAIN during = Miner /\ DOMAIN head.during = Miner
    BY <1>3, <2>1, <2>2
  <2>4. SumFunctionOnSet(during, Miner) = SumFunctionOnSet(head.during, Miner) + SumFunctionOnSet(own, Miner)
    BY <1>2, <2>2, SumPlus
  <2>5. SumFunctionOnSet(head.during, Miner) \in Nat
    BY <1>2, <2>2, SumType
  <2>6. Total(during) <= s + 1
    <3>1. head.s + 1 <= s
      <4>1. head.e \in Nat
        BY Numbers DEF IIInv, Heads
      <4> QED
        BY <1>1, <1>3, <1>8, <4>1
    <3>2. SumFunctionOnSet(head.during, Miner) <= head.s + 1
      BY <1>3, <2>3 DEF Total
    <3> QED
      BY <1>3, <1>6, <2>3, <2>4, <2>5, <3>1, <3>2 DEF Total
  <2>7. during[m] >= 1 /\ \A v \in Validator : during[v] > 0 => v = m \/ head.during[v] > 0
    BY <1>2, <1>5, <2>2
  <2> QED
    BY <1>1, <1>2, <1>3, <1>4, <2>3, <2>6, <2>7 DEF BlocksCounted, during
<1> QED
  BY <1>7, <1>8

\* One more block keeps the invariant.
LEMMA ExtendStep ==
    ASSUME IIInv, NEW e \in Epochs, NEW s \in 0..(SlotCount - 1), NEW m \in Miner, NEW tx \in Tx,
           NEW w \in Work, Extend(e, s, m, tx, w), refused' \in BOOLEAN
    PROVE  IIInv'
<1> DEFINE t == ApplyTx(head.st, e, tx)
           earners == Doers(w) \cup worked
<1>1. /\ t \in State /\ Extended(e, w, t) /\ head' = Child(head, head, e, s, m, tx, w)
      /\ head'.e = e /\ head'.s = s /\ head.e \in Nat /\ head.e <= e /\ e \in Nat
  BY ExtendIs
<1>2. /\ OneEach(t.infos) /\ t.paid = head.st.paid /\ t.finished = head.st.finished
  <2>1. head.st \in State /\ OneEach(head.st.infos)
    BY DEF IIInv, Heads
  <2> QED
    BY <2>1, TxRight
<1>3. /\ work' = w /\ worked' = worked \cup Doers(w) \cup ({m} \ {White})
  BY DEF Extend
<1>4. worked' \subseteq Validator
  <2>1. Doers(w) \subseteq Validator
    <3>1. w.elAct \subseteq 1..EpochLeaderCount /\ w.rpAct \subseteq 1..RandomProperCount
      BY WorkAssumption
    <3>2. /\ \A i \in 1..EpochLeaderCount : EpochLeaders[i] \in Validator
          /\ \A i \in 1..RandomProperCount : RandomProposers[i] \in Validator
      BY IncentiveAssumption, ElementsOf DEF EpochLeaderCount, RandomProperCount
    <3> QED
      BY <3>1, <3>2 DEF Doers
  <2> QED
    BY <1>3, <2>1 DEF IIInv, Miner
<1>5. head'.during \in [Miner -> Nat] /\ head'.before \in [Miner -> Nat] /\ head'.m = m /\ BlocksCounted'
  BY BlocksStep
<1> HIDE DEF t
<1> DEFINE u == head'.st
<1>6. \/ u = t /\ (~(e > FirstEpochId + 2 /\ head'.s > IncentiveStartStage) \/ e - 1 \in t.finished)
      \/ \E pay \in Payment, rem \in Int :
            /\ e - 1 \in Epochs \ t.finished /\ u = After(t, e - 1, pay, rem)
            /\ Pays(t, e - 1, pay, rem, earners)
  BY <1>1 DEF Extended
<1>7. /\ u \in State /\ OneEach(u.infos)
      /\ u.finished \subseteq t.finished \cup {e - 1}
      /\ ~(e > FirstEpochId + 2 /\ head'.s > IncentiveStartStage) \/ e - 1 \in u.finished
      /\ \A x \in Wallet : u.paid[x] > 0 =>
            t.paid[x] > 0 \/ \E v \in earners : x \in StakersOf(v)
  <2> HIDE DEF u, earners
  <2>1. CASE u = t /\ (~(e > FirstEpochId + 2 /\ head'.s > IncentiveStartStage) \/ e - 1 \in t.finished)
    BY <1>1, <1>2, <2>1
  <2>2. ASSUME NEW pay \in Payment, NEW rem \in Int, e - 1 \in Epochs \ t.finished,
               u = After(t, e - 1, pay, rem), Pays(t, e - 1, pay, rem, earners)
        PROVE  /\ u \in State /\ OneEach(u.infos) /\ u.finished \subseteq t.finished \cup {e - 1}
               /\ e - 1 \in u.finished
               /\ \A x \in Wallet : u.paid[x] > 0 =>
                     t.paid[x] > 0 \/ \E v \in earners : x \in StakersOf(v)
    <3>1. /\ u \in State /\ u.infos = t.infos /\ u.paid = Plus(t.paid, pay)
          /\ u.finished = t.finished \cup {e - 1}
      <4> DEFINE d == e - 1
      <4>1. d \in Epochs /\ u = After(t, d, pay, rem)
        BY <2>2
      <4> HIDE DEF d
      <4>2. /\ u \in State /\ u.infos = t.infos /\ u.paid = Plus(t.paid, pay)
            /\ u.finished = t.finished \cup {d}
        BY <1>1, <4>1, AfterFields
      <4> QED
        BY <4>2 DEF d
    <3>2. ASSUME NEW x \in Wallet, u.paid[x] > 0
          PROVE  t.paid[x] > 0 \/ \E v \in earners : x \in StakersOf(v)
      <4>1. t.paid \in Payment
        BY <1>1 DEF State
      <4>2. u.paid[x] = t.paid[x] + pay[x] /\ t.paid[x] \in Nat /\ pay[x] \in Nat
        BY <3>1, <4>1 DEF Plus, Payment
      <4>3. t.paid[x] > 0 \/ pay[x] > 0
        BY <3>2, <4>2
      <4> QED
        BY <2>2, <4>3 DEF Pays
    <3> QED
      BY <1>2, <3>1, <3>2
  <2> QED
    BY <1>6, <2>1, <2>2
<1>8. head' \in Heads
  <2>1. head' = [e |-> e, s |-> s, m |-> m, during |-> head'.during, before |-> head'.before, st |-> u]
    BY <1>1 DEF Child
  <2> HIDE DEF u
  <2> QED
    BY <1>5, <1>7, <2>1 DEF Heads
<1>9. head'.e >= FirstEpochId + 2
  BY <1>1, Numbers DEF IIInv
<1>10. \A f \in u.finished : f < head'.e
  <2>1. \A f \in t.finished : f < head.e /\ f \in Nat
    BY <1>1, <1>2, Numbers DEF IIInv, State
  <2> HIDE DEF u
  <2> QED
    BY <1>1, <1>7, <2>1
<1>11. NoWorkNoPay'
  <2> SUFFICES ASSUME NEW x \in Wallet, u.paid[x] > 0
               PROVE  \E v \in worked' : \E i \in DOMAIN Stakers[v] : Stakers[v][i].wallet = x
    BY DEF NoWorkNoPay
  <2> HIDE DEF u
  <2>1. t.paid[x] > 0 => \E v \in worked : \E i \in DOMAIN Stakers[v] : Stakers[v][i].wallet = x
    BY <1>2 DEF IIInv, NoWorkNoPay
  <2> QED
    BY <1>3, <1>7, <2>1 DEF StakersOf
<1>12. PaidOnTime'
  BY <1>1, <1>7 DEF PaidOnTime
<1> QED
  BY <1>3, <1>4, <1>5, <1>7, <1>8, <1>9, <1>10, <1>11, <1>12 DEF IIInv

\* The first state.
LEMMA IncentiveStart == ASSUME IInit PROVE IIInv
<1>1. /\ head = Genesis /\ worked = {} /\ refused = FALSE /\ work \in Work
  BY WorkAssumption DEF IInit
<1>2. /\ FirstEpochId + 2 \in Epochs /\ 0 \in 0..(SlotCount - 1) /\ White \in Miner
      /\ FeeRate \in 0..FeeUnit /\ IsFiniteSet(Miner) /\ SlotCount \in Nat \ {0} /\ FirstEpochId \in Nat
      /\ White \notin Validator
  BY Numbers, IncentiveAssumption DEF Epochs
<1> DEFINE own == [NoBlocks EXCEPT ![White] = 1]
           st == Genesis.st
<1>3. /\ own \in [Miner -> Nat] /\ DOMAIN own = Miner /\ own[White] = 1
      /\ \A k \in Miner \ {White} : own[k] = 0 
      /\ NoBlocks \in [Miner -> Nat] /\ DOMAIN NoBlocks = Miner /\ \A k \in Miner : NoBlocks[k] = 0
  BY <1>2 DEF NoBlocks
<1>4. /\ Genesis.e = FirstEpochId + 2 /\ Genesis.s = 0 /\ Genesis.m = White /\ Genesis.during = own
      /\ Genesis.before = NoBlocks /\ st.paid = Nothing /\ st.finished = {} /\ st.infos = {}
  BY DEF Genesis
<1>5. st \in State
  BY <1>2, NothingPaid DEF Genesis, State
<1>6. Genesis \in Heads
  <2>1. Genesis = [e |-> FirstEpochId + 2, s |-> 0, m |-> White, during |-> own, before |-> NoBlocks, st |-> st]
    BY DEF Genesis
  <2> HIDE DEF own, st
  <2> QED
    BY <1>2, <1>3, <1>5, <2>1 DEF Heads
<1> HIDE DEF own, st
<1>7. Total(own) = 1 /\ Total(NoBlocks) = 0
  <2>1. SumFunctionOnSet(own, Miner) = SumFunctionOnSet(own, {White})
    BY <1>2, <1>3, SumZeros
  <2>2. IsFiniteSet({}) /\ IsFiniteSet({White}) /\ {White} \ {White} = {} /\ White \in {White}
    BY FS_EmptySet, FS_Singleton
  <2>3. SumFunctionOnSet(own, {White}) = own[White] + SumFunctionOnSet(own, {White} \ {White})
    BY <1>3, <2>2, SumPick
  <2>4. SumFunctionOnSet(own, {}) = 0
    BY <2>2, SumUnfold
  <2>5. SumFunctionOnSet(NoBlocks, Miner) = 0 * Cardinality(Miner) /\ Cardinality(Miner) \in Nat
    BY <1>2, <1>3, SumConstant, FS_CardinalityType
  <2>6. SumFunctionOnSet(NoBlocks, Miner) = 0
    BY <2>5
  <2> QED
    BY <1>3, <2>1, <2>2, <2>3, <2>4, <2>6 DEF Total
<1>8. BlocksCounted
  <2>1. \A v \in Validator : ~(own[v] > 0) /\ ~(NoBlocks[v] > 0)
    BY <1>2, <1>3 DEF Miner
  <2> QED
    BY <1>1, <1>2, <1>3, <1>4, <1>7, <2>1 DEF BlocksCounted
<1>9. OneEach({})
  BY DEF OneEach
<1>10. NoWorkNoPay
  <2>1. \A x \in Wallet : ~(Nothing[x] > 0)
    BY DEF Nothing
  <2> QED
    BY <1>1, <1>4, <2>1 DEF NoWorkNoPay, st
<1>11. PaidOnTime
  BY <1>1, <1>2, <1>4 DEF PaidOnTime
<1>12. head \in Heads /\ head.e >= FirstEpochId + 2
  BY <1>1, <1>2, <1>4, <1>6
<1>13. head.st.infos = {} /\ head.st.finished = {}
  BY <1>1, <1>4 DEF st
<1> QED
  BY <1>1, <1>8, <1>9, <1>10, <1>11, <1>12, <1>13 DEF IIInv

\* A step is one more block or none.
LEMMA Steps ==
    ASSUME IIInv, INext
    PROVE  \E e \in Epochs, s \in 0..(SlotCount - 1), m \in Miner, tx \in Tx, w \in Work :
              Extend(e, s, m, tx, w) /\ refused' \in BOOLEAN
<1>1. PICK e \in Epochs, s \in 0..(SlotCount - 1), m \in Miner, tx \in Tx, w \in Work :
         \/ Seal(e, s, m, tx, w)
         \/ \E late \in 0..(SlotCount - 1) : Fork(e, s, m, tx, w, late)
  BY DEF INext
<1>2. CASE Seal(e, s, m, tx, w)
  BY <1>2 DEF Seal, IIInv
<1>3. ASSUME NEW late \in 0..(SlotCount - 1), Fork(e, s, m, tx, w, late)
      PROVE  Extend(e, s, m, tx, w) /\ refused' \in BOOLEAN
  BY <1>3 DEF Fork
<1> QED
  BY <1>1, <1>2, <1>3

LEMMA IncentiveStep == IIInv /\ [INext]_ivars => IIInv'
<1> SUFFICES ASSUME IIInv, [INext]_ivars PROVE IIInv'
  OBVIOUS
<1>1. CASE INext
  BY <1>1, Steps, ExtendStep
<1>2. CASE UNCHANGED ivars
  BY <1>2 DEF ivars, IIInv, BlocksCounted, NoWorkNoPay, PaidOnTime
<1> QED
  BY <1>1, <1>2

\* Blocks, entries, payments and records keep the inductive invariant,
\* whatever the miners, the empty slots, the activity and the transactions.
THEOREM IncentiveInductive == ISpec => []IIInv
<1>1. IInit => IIInv
  BY IncentiveStart
<1> QED
  BY <1>1, IncentiveStep, PTL DEF ISpec

\* The records have their types, and only those behind a validator that
\* worked are paid (protocalRunerAllocate, slotLeaderAllocate, delegate).
THEOREM PaymentsRightAlways == ISpec => []PaymentsRight
<1>1. IIInv => PaymentsRight
  <2> SUFFICES ASSUME IIInv PROVE ITypeOK
    BY DEF IIInv, PaymentsRight
  <2>1. head \in Heads /\ head.st \in State
    BY DEF IIInv, Heads
  <2>2. /\ head.e \in Epochs /\ head.s \in 0..(SlotCount - 1) /\ head.m \in Miner
    BY <2>1 DEF Heads
  <2>3. /\ head.st.gas \in [Epochs -> Nat] /\ head.st.paid \in [Wallet -> Nat]
        /\ head.st.finished \subseteq Epochs /\ \A k \in DOMAIN head.st.pool : head.st.pool[k] \in Nat
    BY <2>1 DEF State, Payment
  <2> QED
    BY <2>2, <2>3 DEF IIInv, ITypeOK
<1> QED
  BY <1>1, IncentiveInductive, PTL

\* An epoch is paid by the first block after the stage in the next epoch:
\* the check at the end of Run never fails, so Finalize never reverts it.
THEOREM PaidOnTimeAlways == ISpec => []PaidOnTime
<1>1. IIInv => PaidOnTime
  BY DEF IIInv
<1> QED
  BY <1>1, IncentiveInductive, PTL

\* A call of the owner leaves the white list of the epoch under way and of
\* the next as it is (posControlCheckEpoch).
THEOREM WlSettledAlways == ISpec => WlSettled
<1>1. ASSUME IIInv, [INext]_ivars
      PROVE  [\A e \in Epochs : e < head'.e + 2 =>
                 GetEpochWLInfo(head'.st.infos, e) = GetEpochWLInfo(head.st.infos, e)]_ivars
  <2>1. CASE UNCHANGED ivars
    BY <2>1
  <2>2. CASE INext
    <3>1. PICK e \in Epochs, s \in 0..(SlotCount - 1), m \in Miner, tx \in Tx, w \in Work :
             Extend(e, s, m, tx, w)
      BY <1>1, <2>2, Steps
    <3> DEFINE t == ApplyTx(head.st, e, tx)
    <3>2. t \in State /\ Extended(e, w, t) /\ head'.e = e
      BY <1>1, <3>1, ExtendIs
    <3>3. head.st \in State /\ OneEach(head.st.infos)
      BY <1>1 DEF IIInv, Heads
    <3>4. \A f \in Nat : f < e + 2 => GetEpochWLInfo(t.infos, f) = GetEpochWLInfo(head.st.infos, f)
      BY <3>3, TxRight
    <3> HIDE DEF t
    <3>5. head'.st.infos = t.infos
      <4>1. ASSUME NEW d \in Epochs, NEW pay \in Payment, NEW rem \in Int
            PROVE  After(t, d, pay, rem).infos = t.infos
        BY <3>2, AfterFields
      <4> QED
        BY <3>2, <4>1 DEF Extended
    <3> QED
      BY <3>2, <3>4, <3>5, Numbers
  <2> QED
    BY <1>1, <2>1, <2>2
<1> QED
  BY <1>1, IncentiveInductive, PTL DEF ISpec, WlSettled

-----------------------------------------------------------------------------
\* What the finished epochs had to give, and the books of a state.
Owed(st) == Total([e \in st.finished |-> calculateIncentivePool(st, e)])

Balanced(st) == Total(st.paid) + Total(st.pool) = Owed(st)

\* What an epoch has to give does not change with the fees of another epoch
\* or with the pool of a later period.
LEMMA PoolStays ==
    ASSUME NEW st \in State, NEW t \in State, NEW e \in Epochs, t.gas[e] = st.gas[e],
           t.pool[Period(e - FirstEpochId)] = st.pool[Period(e - FirstEpochId)]
    PROVE  calculateIncentivePool(t, e) = calculateIncentivePool(st, e)
BY DEF calculateIncentivePool, getBaseSubsidyTotalForEpoch, getRemainIncentivePool

\* The sum over the finished epochs.
LEMMA OwedIs ==
    ASSUME NEW st \in State, NEW t \in State,
           \A e \in st.finished : calculateIncentivePool(t, e) = calculateIncentivePool(st, e)
    PROVE  /\ Owed(st) \in Nat
           /\ t.finished = st.finished => Owed(t) = Owed(st)
           /\ \A d \in Epochs : d \notin st.finished /\ t.finished = st.finished \cup {d}
                 => Owed(t) = Owed(st) + calculateIncentivePool(t, d)
<1> DEFINE f == [e \in st.finished |-> calculateIncentivePool(st, e)]
           g == [e \in t.finished |-> calculateIncentivePool(t, e)]
           S == st.finished
           T == t.finished
<1>1. S \subseteq Epochs /\ T \subseteq Epochs
  BY DEF State
<1>2. IsFiniteSet(Epochs) /\ IsFiniteSet(S)
  <2>1. IsFiniteSet(Epochs)
    BY Numbers, FS_Interval DEF Epochs
  <2> HIDE DEF S
  <2> QED
    BY <1>1, <2>1, FS_Subset
<1>3. (\A e \in S : f[e] \in Nat) /\ (\A e \in T : g[e] \in Nat)
  BY <1>1, PoolIs
<1>4. Owed(st) = SumFunctionOnSet(f, S) /\ Owed(t) = SumFunctionOnSet(g, T)
  BY DEF Owed, Total
<1>5. S \subseteq T => \A e \in S : f[e] = g[e]
  OBVIOUS
<1>6. \A d \in T : g[d] = calculateIncentivePool(t, d)
  OBVIOUS
<1> HIDE DEF f, g, S, T
<1>7. Owed(st) \in Nat
  BY <1>2, <1>3, <1>4, SumType
<1>8. S \subseteq T => SumFunctionOnSet(g, S) = Owed(st)
  BY <1>2, <1>3, <1>4, <1>5, SumSame
<1>9. ASSUME NEW d \in Epochs, d \notin S, T = S \cup {d}
      PROVE  Owed(t) = Owed(st) + calculateIncentivePool(t, d)
  <2>1. SumFunctionOnSet(g, S \cup {d}) = SumFunctionOnSet(g, S) + g[d]
    BY <1>2, <1>3, <1>9, SumAdd
  <2> QED
    BY <1>4, <1>6, <1>8, <1>9, <2>1
<1>10. T = S => Owed(t) = Owed(st)
  BY <1>4, <1>8
<1> QED
  BY <1>7, <1>9, <1>10 DEF S, T

\* The total of the pools.
LEMMA TotalOfChange ==
    ASSUME NEW D, IsFiniteSet(D), NEW p, DOMAIN p = D, \A x \in D : p[x] \in Nat,
           NEW k \in D, NEW a \in Nat
    PROVE  /\ Total(p) \in Nat
           /\ Total([p EXCEPT ![k] = a]) = Total(p) + (a - p[k])
<1> DEFINE q == [p EXCEPT ![k] = a]
<1>1. DOMAIN q = D
  OBVIOUS
<1>2. /\ q[k] = a
      /\ \A x \in D : p[x] \in Int /\ q[x] \in Int
      /\ \A x \in D \ {k} : p[x] = q[x]
  OBVIOUS
<1> HIDE DEF q
<1>3. SumFunctionOnSet(p, D) \in Nat
  BY <1>2, SumType
<1>4. SumFunctionOnSet(q, D) = SumFunctionOnSet(p, D) + (q[k] - p[k])
  BY <1>2, SumChange
<1> QED
  BY <1>1, <1>2, <1>3, <1>4 DEF Total, q

LEMMA PoolTotal ==
    ASSUME NEW p \in [0..(Period(MaxEpoch) + 1) -> Nat], NEW k \in 0..(Period(MaxEpoch) + 1),
           NEW a \in Nat
    PROVE  /\ Total(p) \in Nat
           /\ Total([p EXCEPT ![k] = a]) = Total(p) + (a - p[k])
<1> DEFINE D == 0..(Period(MaxEpoch) + 1)
<1>1. IsFiniteSet(D)
  <2>1. Period(MaxEpoch) \in Nat
    BY Numbers, Periods
  <2> QED
    BY <2>1, FS_Interval
<1>2. DOMAIN p = D /\ (\A x \in D : p[x] \in Nat) /\ k \in D
  OBVIOUS
<1> HIDE DEF D
<1> QED
  BY <1>1, <1>2, TotalOfChange

\* A payment with a remainder that is not negative keeps the books.
LEMMA PaymentBalanced ==
    ASSUME NEW st \in State, NEW d \in Epochs, d \notin st.finished, \A f \in st.finished : f <= d,
           NEW pay \in Payment, NEW rem \in Nat, calculateIncentivePool(st, d) = Total(pay) + rem,
           Balanced(st)
    PROVE  Balanced(After(st, d, pay, rem))
<1> DEFINE t == After(st, d, pay, rem)
           k == Period(d) + 1
<1>1. /\ t \in State /\ t.gas = st.gas /\ t.paid = Plus(st.paid, pay)
      /\ t.finished = st.finished \cup {d} /\ k \in 0..(Period(MaxEpoch) + 1)
      /\ t.pool = [st.pool EXCEPT ![k] = Abs(st.pool[k] + rem)]
  BY AfterIs
<1>2. st.paid \in Payment /\ st.pool \in [0..(Period(MaxEpoch) + 1) -> Nat] /\ st.finished \subseteq Epochs
  BY DEF State
<1>3. st.pool[k] \in Nat /\ Abs(st.pool[k] + rem) = st.pool[k] + rem
  <2>1. k \in 0..(Period(MaxEpoch) + 1)
    BY <1>1
  <2>2. \A x \in Nat : Abs(x) = x
    BY DEF Abs
  <2> HIDE DEF k
  <2>3. st.pool[k] \in Nat
    BY <1>2, <2>1
  <2>4. st.pool[k] + rem \in Nat
    BY <2>3
  <2> QED
    BY <2>2, <2>3, <2>4
<1>4. Total(t.pool) = Total(st.pool) + rem /\ Total(st.pool) \in Nat
  <2> DEFINE a == st.pool[k] + rem
             p == st.pool
  <2>1. a \in Nat /\ t.pool = [p EXCEPT ![k] = a] /\ a - p[k] = rem
    BY <1>1, <1>3
  <2> HIDE DEF a, k, p
  <2>2. Total([p EXCEPT ![k] = a]) = Total(p) + (a - p[k]) /\ Total(p) \in Nat
    <3>1. p \in [0..(Period(MaxEpoch) + 1) -> Nat]
      BY <1>2 DEF p
    <3>2. k \in 0..(Period(MaxEpoch) + 1)
      BY <1>1
    <3>3. a \in Nat
      BY <2>1
    <3> QED
      BY <3>1, <3>2, <3>3, PoolTotal
  <2> QED
    BY <2>1, <2>2 DEF p
<1>5. Total(t.paid) = Total(st.paid) + Total(pay) /\ Total(st.paid) \in Nat /\ Total(pay) \in Nat
  BY <1>1, <1>2, TotalOf
<1>6. ASSUME NEW f \in Epochs, f <= d
      PROVE  calculateIncentivePool(t, f) = calculateIncentivePool(st, f)
  <2> DEFINE n == Period(f - FirstEpochId)
  <2>1. n \in 0..(Period(MaxEpoch) + 1) /\ n <= Period(d) /\ Period(d) \in Nat
    BY <1>6, PeriodsOf
  <2>2. n # k
    BY <2>1
  <2>3. t.pool[n] = st.pool[n]
    <3> HIDE DEF n, k
    <3> QED
      BY <1>1, <1>2, <2>1, <2>2
  <2> QED
    BY <1>1, <2>3, PoolStays
<1>7. d <= d
  BY Numbers
<1> HIDE DEF t
<1>8. Owed(t) = Owed(st) + calculateIncentivePool(st, d) /\ Owed(st) \in Nat
  <2>1. \A f \in st.finished : calculateIncentivePool(t, f) = calculateIncentivePool(st, f)
    BY <1>2, <1>6
  <2>2. Owed(t) = Owed(st) + calculateIncentivePool(t, d) /\ Owed(st) \in Nat
    BY <1>1, <2>1, OwedIs
  <2> QED
    BY <1>6, <1>7, <2>2
<1>9. Total(t.paid) + Total(t.pool) = Owed(t)
  BY <1>4, <1>5, <1>8 DEF Balanced
<1> QED
  BY <1>9 DEF Balanced, t

\* One more block keeps the books when the shares fit.
LEMMA BalanceStep ==
    ASSUME IIInv, Balanced(head.st), SharesFit', INext
    PROVE  Balanced(head.st)'
<1>1. PICK e \in Epochs, s \in 0..(SlotCount - 1), m \in Miner, tx \in Tx, w \in Work :
         Extend(e, s, m, tx, w)
  BY Steps
<1> DEFINE t == ApplyTx(head.st, e, tx)
<1>2. t \in State /\ Extended(e, w, t) /\ head.e \in Nat /\ head.e <= e /\ e \in Nat
  BY <1>1, ExtendIs
<1>3. head.st \in State /\ OneEach(head.st.infos)
  BY DEF IIInv, Heads
<1>4. /\ t.paid = head.st.paid /\ t.pool = head.st.pool /\ t.finished = head.st.finished
      /\ \A f \in Epochs \ {e} : t.gas[f] = head.st.gas[f]
  BY <1>3, TxRight
<1> HIDE DEF t
<1>5. \A f \in t.finished : f \in Epochs /\ f < e /\ f <= e - 1
  <2>1. \A f \in t.finished : f \in Nat /\ f \in Epochs /\ f < head.e
    BY <1>2, <1>4, Numbers DEF IIInv, State
  <2> QED
    BY <1>2, <2>1
<1>6. Balanced(t)
  <2>1. \A f \in head.st.finished : calculateIncentivePool(t, f) = calculateIncentivePool(head.st, f)
    <3> SUFFICES ASSUME NEW f \in head.st.finished
                 PROVE  calculateIncentivePool(t, f) = calculateIncentivePool(head.st, f)
      OBVIOUS
    <3>1. f \in Epochs \ {e}
      BY <1>2, <1>4, <1>5
    <3> QED
      BY <1>2, <1>3, <1>4, <3>1, PoolStays
  <2>2. Owed(t) = Owed(head.st)
    BY <1>2, <1>3, <1>4, <2>1, OwedIs
  <2> QED
    BY <1>4, <2>2 DEF Balanced
<1>7. CASE head'.st = t
  BY <1>6, <1>7 DEF Balanced, Owed
<1>8. ASSUME NEW pay \in Payment, NEW rem \in Int, NEW d \in Epochs, d = e - 1, d \notin t.finished,
             head'.st = After(t, d, pay, rem), Pays(t, d, pay, rem, Doers(w) \cup worked)
      PROVE  Balanced(head'.st)
  <2>1. t.infos \in SUBSET Info /\ d \in Nat /\ head'.st.infos = t.infos
    <3>1. t.infos \in SUBSET Info
      BY <1>2 DEF State
    <3>2. d \in Nat
      BY <1>8, Numbers
    <3>3. t \in State
      BY <1>2
    <3>4. After(t, d, pay, rem).infos = t.infos
      BY <3>3, AfterFields
    <3>5. head'.st = After(t, d, pay, rem)
      BY <1>8
    <3> QED
      BY <3>1, <3>2, <3>4, <3>5
  <2>2. Fits(WlCount(t, d))
    <3>1. GetEpochWLInfo(t.infos, d) \in t.infos \cup {UpgradeWhiteEpochLeaderDefault}
      BY <2>1, EntryInForce
    <3> QED
      BY <2>1, <3>1 DEF SharesFit, WlCount
  <2>3. rem \in Nat /\ calculateIncentivePool(t, d) = Total(pay) + rem
    BY <1>8, <2>2 DEF Pays
  <2>4. \A f \in t.finished : f <= d
    BY <1>5, <1>8
  <2>5. Balanced(After(t, d, pay, rem))
    BY <1>2, <1>6, <1>8, <2>3, <2>4, PaymentBalanced
  <2> QED
    BY <1>8, <2>5
<1>9. Balanced(head'.st)
  BY <1>2, <1>7, <1>8 DEF Extended
<1> QED
  BY <1>9 DEF Balanced, Owed

\* Every coin of the epochs that were paid was paid out or is in a pool, as
\* long as no entry of the owner has shares that round above the whole
\* (calcPercent, addRemainIncentivePool, Run).
THEOREM ConservedAlways == ISpec /\ []SharesFit => []Conserved
<1>1. ASSUME IInit PROVE Balanced(head.st)
  <2> DEFINE st == head.st
             D == 0..(Period(MaxEpoch) + 1)
  <2>1. st.paid = Nothing /\ st.pool = [k \in D |-> 0] /\ st.finished = {}
    BY <1>1 DEF IInit, Genesis
  <2> HIDE DEF st
  <2>2. Total(st.pool) = 0
    <3>1. Period(MaxEpoch) \in Nat
      BY Numbers, Periods
    <3>2. IsFiniteSet(D) /\ Cardinality(D) \in Nat
      <4>1. IsFiniteSet(D)
        BY <3>1, FS_Interval
      <4> HIDE DEF D
      <4> QED
        BY <4>1, FS_CardinalityType
    <3> DEFINE z == [k \in D |-> 0]
    <3>3. DOMAIN z = D /\ \A k \in D : z[k] = 0
      OBVIOUS
    <3> HIDE DEF z, D
    <3>4. SumFunctionOnSet(z, D) = 0 * Cardinality(D)
      BY <3>2, <3>3, SumConstant
    <3>5. Total(z) = 0
      BY <3>2, <3>3, <3>4 DEF Total
    <3> QED
      BY <2>1, <3>5 DEF z
  <2>3. Owed(st) = 0
    <3> DEFINE f == [e \in st.finished |-> calculateIncentivePool(st, e)]
    <3>1. DOMAIN f = {} /\ IsFiniteSet({})
      BY <2>1, FS_EmptySet
    <3> HIDE DEF f
    <3>2. SumFunctionOnSet(f, {}) = 0
      BY <3>1, SumUnfold
    <3> QED
      BY <3>1, <3>2 DEF Owed, Total, f
  <2>4. Total(st.paid) = 0
    BY <2>1, NothingPaid
  <2> QED
    BY <2>2, <2>3, <2>4 DEF Balanced, st
<1>2. IIInv /\ Balanced(head.st) /\ SharesFit' /\ [INext]_ivars => Balanced(head.st)'
  <2> SUFFICES ASSUME IIInv, Balanced(head.st), SharesFit', [INext]_ivars PROVE Balanced(head.st)'
    OBVIOUS
  <2>1. CASE INext
    BY <2>1, BalanceStep
  <2>2. CASE UNCHANGED ivars
    BY <2>2 DEF ivars, Balanced, Owed
  <2> QED
    BY <2>1, <2>2
<1>3. Balanced(head.st) => Conserved
  BY DEF Balanced, Owed, Conserved
<1> QED
  BY <1>1, <1>2, <1>3, IncentiveInductive, PTL DEF ISpec

=============================================================================
