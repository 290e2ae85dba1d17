--------------------------- MODULE StakingProofs ----------------------------
(***************************************************************************)
(* The safety of the staking contract for any number of validators,        *)
(* accounts, epochs and missed refunds.                                    *)
(*                                                                         *)
(* The record of a validator is judged by itself (Fit); every call leaves  *)
(* a fit record fit, and what it adds to the record it takes from the      *)
(* caller.  On top of that come what the selected leaders rely on (Bonds)  *)
(* and the accounts (Books).                                               *)
(***************************************************************************)
EXTENDS Staking, SumLemmas

-----------------------------------------------------------------------------
(***************************************************************************)
(* Arithmetic of the weights.                                              *)
(***************************************************************************)

\* Multiplication is monotone.
LEMMA TimesMonotone ==
    ASSUME NEW v \in Nat, NEW x \in Nat, NEW y \in Nat, x <= y
    PROVE  v * x <= v * y /\ v * x \in Nat /\ v * y \in Nat
<1>1. y = x + (y - x) /\ y - x \in Nat
  OBVIOUS
<1>2. v * (y - x) \in Nat
  BY <1>1
<1>3. v * y = v * x + v * (y - x)
  BY <1>1
<1> QED
  BY <1>2, <1>3

\* The weight of a term grows with the term.
LEMMA WeightRight ==
    ASSUME NEW l \in Nat
    PROVE  /\ CalLocktimeWeight(l) \in Nat
           /\ \A m \in Nat : l <= m /\ (l = 0 => m = 0 \/ m >= PSMinEpochNum)
                 => CalLocktimeWeight(l) <= CalLocktimeWeight(m)
  BY StakingAssumption DEF CalLocktimeWeight

\* The value of a stake grows with its amount and its term.
LEMMA StakeValueRight ==
    ASSUME NEW v \in Nat, NEW l \in Nat
    PROVE  /\ StakeValue(v, l) \in Nat
           /\ \A w \in Nat : StakeValue(v + w, l) = StakeValue(v, l) + StakeValue(w, l)
           /\ \A m \in Nat : l <= m /\ (l = 0 => m = 0 \/ m >= PSMinEpochNum)
                 => StakeValue(v, l) <= StakeValue(v, m)
<1>1. CalLocktimeWeight(l) \in Nat
  BY WeightRight
<1>2. StakeValue(v, l) \in Nat
  BY <1>1 DEF StakeValue
<1>3. ASSUME NEW w \in Nat PROVE StakeValue(v + w, l) = StakeValue(v, l) + StakeValue(w, l)
  BY <1>1 DEF StakeValue
<1>4. ASSUME NEW m \in Nat, l <= m, l = 0 => m = 0 \/ m >= PSMinEpochNum
      PROVE  StakeValue(v, l) <= StakeValue(v, m)
  <2>1. CalLocktimeWeight(m) \in Nat /\ CalLocktimeWeight(l) <= CalLocktimeWeight(m)
    BY <1>4, WeightRight
  <2> QED
    BY <1>1, <2>1, TimesMonotone DEF StakeValue
<1> QED
  BY <1>2, <1>3, <1>4

-----------------------------------------------------------------------------
(***************************************************************************)
(* Sums of amounts.                                                        *)
(***************************************************************************)

\* A list of clients or partners.
IsBook(f) == DOMAIN f = Account /\ \A a \in Account : f[a] # None => f[a].Amount \in Nat

Column(f) == [a \in Account |-> AmountOf(f, a)]

\* The amounts of a book are a sum over all accounts, those absent counting 0.
LEMMA AmountsRight ==
    ASSUME NEW f, IsBook(f)
    PROVE  /\ Amounts(f) = SumFunctionOnSet(Column(f), Account)
           /\ Amounts(f) \in Nat
           /\ \A a \in Account : AmountOf(f, a) \in Nat /\ Column(f)[a] = AmountOf(f, a)
<1> DEFINE P == Present(f)
           h == [x \in P |-> f[x].Amount]
<1>1. \A a \in Account : AmountOf(f, a) \in Nat /\ Column(f)[a] = AmountOf(f, a)
  BY DEF IsBook, AmountOf, Column
<1>2. P \in SUBSET Account /\ IsFiniteSet(P) /\ IsFiniteSet(Account)
  BY FS_Subset, StakingAssumption DEF IsBook, Present
<1>3. \A a \in P : h[a] = Column(f)[a] /\ h[a] \in Nat
  BY DEF IsBook, Present, Column, AmountOf
<1>4. \A a \in Account \ P : Column(f)[a] = 0
  BY DEF IsBook, Present, Column, AmountOf
<1>5. Amounts(f) = SumFunctionOnSet(h, P)
  BY DEF Amounts, SumFunction
<1> HIDE DEF h, P
<1>6. SumFunctionOnSet(h, P) = SumFunctionOnSet(Column(f), P)
  BY <1>2, <1>3, SumSame
<1>7. SumFunctionOnSet(Column(f), Account) = SumFunctionOnSet(Column(f), P)
  BY <1>1, <1>2, <1>4, SumZeros
<1>8. SumFunctionOnSet(Column(f), Account) \in Nat
  BY <1>1, <1>2, SumType
<1> QED
  BY <1>1, <1>5, <1>6, <1>7, <1>8

\* One entry changes.
LEMMA AmountsChange ==
    ASSUME NEW f, NEW g, IsBook(f), IsBook(g), NEW a \in Account,
           \A b \in Account \ {a} : AmountOf(f, b) = AmountOf(g, b)
    PROVE  Amounts(g) = Amounts(f) + (AmountOf(g, a) - AmountOf(f, a))
<1>1. \A b \in Account : Column(f)[b] \in Int /\ Column(g)[b] \in Int
  BY AmountsRight
<1>2. \A b \in Account \ {a} : Column(f)[b] = Column(g)[b]
  BY AmountsRight
<1>3. SumFunctionOnSet(Column(g), Account)
        = SumFunctionOnSet(Column(f), Account) + (Column(g)[a] - Column(f)[a])
  BY <1>1, <1>2, SumChange, StakingAssumption
<1> QED
  BY <1>3, AmountsRight

\* No entry grows, and no entry changes.
LEMMA AmountsCompare ==
    ASSUME NEW f, NEW g, IsBook(f), IsBook(g)
    PROVE  /\ (\A a \in Account : AmountOf(f, a) <= AmountOf(g, a)) => Amounts(f) <= Amounts(g)
           /\ (\A a \in Account : AmountOf(f, a) = AmountOf(g, a)) => Amounts(f) = Amounts(g)
<1>1. \A b \in Account : Column(f)[b] \in Int /\ Column(g)[b] \in Int
  BY AmountsRight
<1>2. ASSUME \A a \in Account : AmountOf(f, a) <= AmountOf(g, a) PROVE Amounts(f) <= Amounts(g)
  <2>1. \A b \in Account : Column(f)[b] <= Column(g)[b]
    BY <1>2, AmountsRight
  <2> QED
    BY <1>1, <2>1, SumCompare, AmountsRight, StakingAssumption
<1>3. ASSUME \A a \in Account : AmountOf(f, a) = AmountOf(g, a) PROVE Amounts(f) = Amounts(g)
  <2>1. \A b \in Account : Column(f)[b] = Column(g)[b]
    BY <1>3, AmountsRight
  <2> QED
    BY <1>1, <2>1, SumSame, AmountsRight, StakingAssumption
<1> QED
  BY <1>2, <1>3

\* An empty book holds nothing.
LEMMA AmountsNone ==
    ASSUME NEW f, DOMAIN f = Account, \A a \in Account : f[a] = None
    PROVE  IsBook(f) /\ Amounts(f) = 0
<1>1. IsBook(f)
  BY DEF IsBook
<1>2. \A a \in Account : Column(f)[a] = 0
  BY DEF Column, AmountOf
<1>3. SumFunctionOnSet(Column(f), Account) = SumFunctionOnSet(Column(f), {})
  BY <1>2, SumZeros, StakingAssumption
<1>4. SumFunctionOnSet(Column(f), {}) = 0
  BY SumUnfold, StakingAssumption
<1> QED
  BY <1>1, <1>3, <1>4, AmountsRight

\* What is in a record.
LEMMA RecordRight ==
    ASSUME NEW s \in StakerInfo
    PROVE  /\ IsBook(s.Clients) /\ IsBook(s.Partners) /\ s # None
           /\ Own(s) \in Nat /\ Total(s) \in Nat
           /\ Own(s) = s.Amount + Amounts(s.Partners)
           /\ Total(s) = s.Amount + Amounts(s.Partners) + Amounts(s.Clients)
<1>1. \A c \in ClientInfo : c.Amount \in Nat
  BY DEF ClientInfo
<1>2. \A c \in PartnerInfo : c.Amount \in Nat
  BY DEF PartnerInfo
<1>3. IsBook(s.Clients) /\ IsBook(s.Partners) /\ s.Amount \in Nat
  BY <1>1, <1>2 DEF IsBook, StakerInfo
<1>4. s # None
  BY NoneAssumption
<1> QED
  BY <1>3, <1>4, AmountsRight DEF Own, Total

-----------------------------------------------------------------------------
(***************************************************************************)
(* A fit record, and what the calls do to one.                             *)
(***************************************************************************)

\* Terms have begun or begin within the two epochs of a join, and are none
\* (a validator of the genesis block) or not shorter than the shortest.
Terms(s, e) ==
    /\ s.StakingEpoch <= e + JoinDelay
    /\ s.LockEpochs = 0 => s.StakingEpoch = 0
    /\ s.LockEpochs # 0 => s.LockEpochs >= PSMinEpochNum
    /\ s.NextLockEpochs # 0 => s.NextLockEpochs >= PSMinEpochNum
    /\ \A a \in Account : s.Partners[a] # None => s.Partners[a].StakingEpoch <= e + JoinDelay

\* A partner's stake weighs what its term gives and the term ends with the
\* validator's, or it ends too soon to count in any selection to come.
PartnerWeighs(s, p, e) ==
    \/ /\ p.StakeAmount <= StakeValue(p.Amount, p.LockEpochs)
       /\ IF s.StakingEpoch = 0 THEN p.LockEpochs = s.LockEpochs ELSE End(p) = End(s)
    \/ s.StakingEpoch # 0 /\ End(p) <= e + 3

Weighs(s, e) ==
    /\ s.StakeAmount <= StakeValue(s.Amount, s.LockEpochs)
    /\ \A a \in Account : s.Partners[a] # None => PartnerWeighs(s, s.Partners[a], e)

Fit(s, e) == Terms(s, e) /\ Weighs(s, e) /\ Total(s) <= maxTotalStake

\* Of s, which becomes r by a call in epoch e, nobody leaves.
Grows(s, r, e) ==
    /\ r.Amount >= s.Amount /\ r.LockEpochs = s.LockEpochs /\ r.StakingEpoch = s.StakingEpoch
    /\ \A a \in Account : s.Partners[a] # None =>
          /\ r.Partners[a] # None /\ r.Partners[a].Amount >= s.Partners[a].Amount
          /\ r.Partners[a].LockEpochs = s.Partners[a].LockEpochs
          /\ r.Partners[a].StakingEpoch = s.Partners[a].StakingEpoch
    /\ \A a \in Account : s.Partners[a] = None /\ r.Partners[a] # None =>
          r.Partners[a].StakingEpoch = e + JoinDelay
    /\ \A a \in Account : s.Clients[a] # None =>
          /\ r.Clients[a] # None /\ r.Clients[a].Amount >= s.Clients[a].Amount
          /\ r.Clients[a].QuitEpoch \in {s.Clients[a].QuitEpoch, e + QuitDelay}
    /\ \A a \in Account : s.Clients[a] = None /\ r.Clients[a] # None =>
          r.Clients[a].QuitEpoch = 0

\* What an account has in a record.
Holding(s, a) ==
    (IF s.From = a THEN s.Amount ELSE 0) + AmountOf(s.Partners, a) + AmountOf(s.Clients, a)

\* Account a, and nobody else, gets x more in r than in s.
Credits(s, r, a, x) ==
    /\ Total(r) = Total(s) + x
    /\ \A b \in Account : Holding(r, b) = Holding(s, b) + (IF b = a THEN x ELSE 0)

\* A record that StakeIn or StakeRegister makes.
Fresh(r, a, x, e) ==
    /\ r.StakingEpoch = e + JoinDelay /\ r.LockEpochs # 0
    /\ \A b \in Account : r.Partners[b] = None /\ r.Clients[b] = None
    /\ Total(r) = x
    /\ \A b \in Account : Holding(r, b) = IF b = a THEN x ELSE 0

Valid(v) == stakers[v] # None => Fit(stakers[v], epoch)

\* A validator's record is a staker's record.
LEMMA TypeOfRecord ==
    ASSUME STypeOK, NEW v \in Validator, stakers[v] # None
    PROVE  stakers[v] \in StakerInfo
  BY DEF STypeOK

\* The fields of a record.
LEMMA FieldTypes ==
    ASSUME NEW s \in StakerInfo
    PROVE  /\ s.Amount \in Nat /\ s.StakeAmount \in Nat /\ s.LockEpochs \in 0 .. PSMaxEpochNum
           /\ s.NextLockEpochs \in 0 .. PSMaxEpochNum /\ s.From \in Account \cup Validator
           /\ s.StakingEpoch \in Nat /\ s.FeeRate \in 0 .. PSMaxFeeRate
           /\ s.Clients \in [Account -> ClientInfo \cup {None}]
           /\ s.Partners \in [Account -> PartnerInfo \cup {None}]
           /\ \A a \in Account : s.Clients[a] # None => s.Clients[a] \in ClientInfo
           /\ \A a \in Account : s.Partners[a] # None => s.Partners[a] \in PartnerInfo
           /\ DOMAIN s.Clients = Account /\ DOMAIN s.Partners = Account
           /\ s.LockEpochs \in Nat /\ s.NextLockEpochs \in Nat
  BY StakingAssumption DEF StakerInfo

\* The fields of a client's and of a partner's entry.
LEMMA EntryTypes ==
    /\ \A c \in ClientInfo : c.Amount \in Nat /\ c.StakeAmount \in Nat /\ c.QuitEpoch \in Nat /\ c # None
    /\ \A p \in PartnerInfo :
          /\ p.Amount \in Nat /\ p.StakeAmount \in Nat /\ p.Renewal \in BOOLEAN
          /\ p.LockEpochs \in 0 .. PSMaxEpochNum /\ p.LockEpochs \in Nat
          /\ p.StakingEpoch \in Nat /\ p # None
<1>1. \A c \in ClientInfo : c.Amount \in Nat /\ c.StakeAmount \in Nat /\ c.QuitEpoch \in Nat /\ c # None
  BY NoneAssumption DEF ClientInfo
<1>2. \A p \in PartnerInfo :
          /\ p.Amount \in Nat /\ p.StakeAmount \in Nat /\ p.Renewal \in BOOLEAN
          /\ p.LockEpochs \in 0 .. PSMaxEpochNum /\ p.LockEpochs \in Nat
          /\ p.StakingEpoch \in Nat
  BY StakingAssumption DEF PartnerInfo
<1>3. \A p \in PartnerInfo : p # None
  BY NoneAssumption
<1> QED
  BY <1>1, <1>2, <1>3

\* What is left of the term.
LEMMA LockLeftRight ==
    ASSUME STypeOK, NEW s \in StakerInfo, Terms(s, epoch), LockLeft(s)
    PROVE  /\ realLockEpoch(s) \in 0 .. PSMaxEpochNum /\ realLockEpoch(s) \in Nat
           /\ realLockEpoch(s) <= s.LockEpochs
           /\ IF s.StakingEpoch = 0 THEN realLockEpoch(s) = s.LockEpochs
              ELSE epoch + JoinDelay + realLockEpoch(s) = End(s)
<1>1. epoch \in Nat /\ s.LockEpochs \in Nat /\ s.StakingEpoch \in Nat
  BY FieldTypes, StakingAssumption DEF STypeOK
<1> QED
  BY <1>1, StakingAssumption DEF Terms, LockLeft, realLockEpoch, End, JoinDelay

\* stakeIn makes a record of its own for the validator.
LEMMA StakeInMakes ==
    ASSUME STypeOK, NEW a \in Account, NEW v \in Validator, NEW value \in Nat, NEW lock \in Nat,
           NEW fee \in Nat, doStakeInParseAndValid(lock, fee), doStakeIn(a, v, value, lock, fee)
    PROVE  \E r \in StakerInfo :
              /\ stakers' = [stakers EXCEPT ![v] = r] /\ Fit(r, epoch)
              /\ Fresh(r, a, value, epoch) /\ r.FeeRate = fee
<1> DEFINE none == [c \in Account |-> None]
           r == [Amount |-> value, StakeAmount |-> StakeValue(value, lock),
                 LockEpochs |-> lock, NextLockEpochs |-> lock, From |-> a,
                 StakingEpoch |-> epoch + JoinDelay, FeeRate |-> fee,
                 Clients |-> none, Partners |-> none]
<1>1. stakers' = [stakers EXCEPT ![v] = r]
  BY DEF doStakeIn
<1>2. StakeValue(value, lock) \in Nat /\ epoch \in Nat
  BY StakeValueRight, StakingAssumption DEF STypeOK
<1>3. /\ lock \in PSMinEpochNum .. PSMaxEpochNum /\ fee <= PSMaxFeeRate
      /\ value <= maxTotalStake /\ lock # 0 /\ lock >= PSMinEpochNum
  BY StakingAssumption DEF doStakeInParseAndValid, doStakeIn, QuitDelay
<1>4. /\ none \in [Account -> ClientInfo \cup {None}]
      /\ none \in [Account -> PartnerInfo \cup {None}]
      /\ DOMAIN none = Account /\ \A c \in Account : none[c] = None
  OBVIOUS
<1>5. Amounts(none) = 0 /\ IsBook(none)
  BY <1>4, AmountsNone
<1> HIDE DEF none
<1>6. r \in StakerInfo
  BY <1>2, <1>3, <1>4, StakingAssumption DEF StakerInfo, JoinDelay
<1>7. Total(r) = value
  BY <1>5 DEF Total, Own
<1>8. Terms(r, epoch)
  BY <1>2, <1>3, <1>4 DEF Terms, JoinDelay
<1>9. Weighs(r, epoch)
  BY <1>2, <1>4 DEF Weighs
<1>10. \A b \in Account : Holding(r, b) = IF b = a THEN value ELSE 0
  BY <1>4 DEF Holding, AmountOf
<1>11. Fresh(r, a, value, epoch)
  BY <1>3, <1>4, <1>7, <1>10 DEF Fresh
<1> QED
  BY <1>1, <1>3, <1>6, <1>7, <1>8, <1>9, <1>11 DEF Fit

\* A call that leaves amounts and entries alone.
LEMMA UpdateKeeps ==
    ASSUME STypeOK, NEW s \in StakerInfo, NEW r \in StakerInfo, Fit(s, epoch), NEW a \in Account,
           r.Amount = s.Amount, r.StakeAmount = s.StakeAmount, r.LockEpochs = s.LockEpochs,
           r.From = s.From, r.StakingEpoch = s.StakingEpoch, r.Clients = s.Clients,
           r.Partners = s.Partners, r.NextLockEpochs # 0 => r.NextLockEpochs >= PSMinEpochNum
    PROVE  Fit(r, epoch) /\ Grows(s, r, epoch) /\ Credits(s, r, a, 0)
<1>1. Terms(r, epoch)
  BY DEF Fit, Terms
<1>2. \A b \in Account : s.Partners[b] # None => PartnerWeighs(r, r.Partners[b], epoch)
  BY DEF Fit, Weighs, PartnerWeighs, End
<1>3. Weighs(r, epoch)
  BY <1>2 DEF Fit, Weighs
<1>4. Total(r) = Total(s) /\ Total(s) \in Nat
  BY RecordRight
<1>5. \A b \in Account : Holding(r, b) = Holding(s, b) /\ Holding(s, b) \in Nat
  <2>1. \A b \in Account : AmountOf(s.Partners, b) \in Nat /\ AmountOf(s.Clients, b) \in Nat
    BY RecordRight, AmountsRight
  <2> QED
    BY <2>1, FieldTypes DEF Holding
<1>6. Credits(s, r, a, 0)
  BY <1>4, <1>5 DEF Credits
<1>7. Grows(s, r, epoch)
  BY FieldTypes, EntryTypes DEF Grows
<1> QED
  BY <1>1, <1>3, <1>4, <1>6, <1>7 DEF Fit

\* Totals of records that differ in one of their parts.
LEMMA TotalGrows ==
    ASSUME NEW s \in StakerInfo, NEW r \in StakerInfo, NEW x \in Nat
    PROVE  /\ r.Amount = s.Amount + x /\ r.Partners = s.Partners /\ r.Clients = s.Clients
                => Total(r) = Total(s) + x
           /\ r.Amount = s.Amount /\ Amounts(r.Partners) = Amounts(s.Partners) + x /\ r.Clients = s.Clients
                => Total(r) = Total(s) + x
           /\ r.Amount = s.Amount /\ r.Partners = s.Partners /\ Amounts(r.Clients) = Amounts(s.Clients) + x
                => Total(r) = Total(s) + x
<1>1. /\ Amounts(s.Partners) \in Nat /\ Amounts(s.Clients) \in Nat /\ s.Amount \in Nat
      /\ Total(s) = s.Amount + Amounts(s.Partners) + Amounts(s.Clients)
      /\ Total(r) = r.Amount + Amounts(r.Partners) + Amounts(r.Clients)
  BY RecordRight, AmountsRight, FieldTypes
<1> QED
  BY <1>1

\* A call that adds x to the validator's own stake.
LEMMA AppendKeeps ==
    ASSUME STypeOK, NEW s \in StakerInfo, Fit(s, epoch), NEW x \in Nat, NEW w \in Nat,
           NEW stake \in Nat, stake <= StakeValue(s.Amount + x, s.LockEpochs),
           Total(s) + x <= maxTotalStake,
           NEW r, r = [s EXCEPT !.Amount = @ + x, !.StakeAmount = stake]
    PROVE  r \in StakerInfo /\ Fit(r, epoch) /\ Grows(s, r, epoch) /\ Credits(s, r, s.From, x)
<1>1. r \in StakerInfo
  <2>1. s.Amount \in Nat /\ s.Amount + x \in Nat
    BY FieldTypes
  <2>2. r = [s EXCEPT !.Amount = s.Amount + x, !.StakeAmount = stake]
    BY DEF StakerInfo
  <2> QED
    BY <2>1, <2>2 DEF StakerInfo
<1>2. /\ r.Amount = s.Amount + x /\ r.StakeAmount = stake /\ r.LockEpochs = s.LockEpochs
      /\ r.From = s.From /\ r.StakingEpoch = s.StakingEpoch /\ r.Clients = s.Clients
      /\ r.Partners = s.Partners /\ r.NextLockEpochs = s.NextLockEpochs
  BY DEF StakerInfo
<1>3. Terms(r, epoch)
  BY <1>2 DEF Fit, Terms
<1>4. \A b \in Account : s.Partners[b] # None => PartnerWeighs(r, r.Partners[b], epoch)
  BY <1>2 DEF Fit, Weighs, PartnerWeighs, End
<1>5. Weighs(r, epoch)
  BY <1>2, <1>4 DEF Weighs
<1>6. Total(r) = Total(s) + x
  <2>1. Amounts(s.Partners) \in Nat /\ Amounts(s.Clients) \in Nat /\ s.Amount \in Nat
    BY RecordRight, AmountsRight, FieldTypes
  <2> QED
    BY <1>1, <1>2, TotalGrows
<1>7. \A b \in Account : Holding(r, b) = Holding(s, b) + (IF b = s.From THEN x ELSE 0)
  <2>1. \A b \in Account : AmountOf(s.Partners, b) \in Nat /\ AmountOf(s.Clients, b) \in Nat
    BY RecordRight, AmountsRight
  <2> QED
    BY <1>2, <2>1, FieldTypes DEF Holding
<1>8. Grows(s, r, epoch)
  BY <1>2, FieldTypes, EntryTypes DEF Grows
<1> QED
  BY <1>1, <1>3, <1>5, <1>6, <1>7, <1>8 DEF Fit, Credits

\* A call that adds x to a partner's stake.
LEMMA PartnerKeeps ==
    ASSUME STypeOK, NEW s \in StakerInfo, Fit(s, epoch), NEW x \in Nat, NEW a \in Account,
           NEW p \in PartnerInfo, p.Amount = AmountOf(s.Partners, a) + x,
           p.StakingEpoch <= epoch + JoinDelay,
           s.Partners[a] = None => p.StakingEpoch = epoch + JoinDelay,
           s.Partners[a] # None => /\ p.LockEpochs = s.Partners[a].LockEpochs
                                   /\ p.StakingEpoch = s.Partners[a].StakingEpoch,
           PartnerWeighs(s, p, epoch), Total(s) + x <= maxTotalStake,
           NEW r, r = [s EXCEPT !.Partners = [s.Partners EXCEPT ![a] = p]]
    PROVE  r \in StakerInfo /\ Fit(r, epoch) /\ Grows(s, r, epoch) /\ Credits(s, r, a, x)
<1> DEFINE ps == [s.Partners EXCEPT ![a] = p]
<1>1. /\ ps \in [Account -> PartnerInfo \cup {None}] /\ ps[a] = p
      /\ \A b \in Account \ {a} : ps[b] = s.Partners[b]
  BY FieldTypes
<1> HIDE DEF ps
<1>2. r \in StakerInfo
  BY <1>1 DEF StakerInfo, ps
<1>3. /\ r.Amount = s.Amount /\ r.StakeAmount = s.StakeAmount /\ r.LockEpochs = s.LockEpochs
      /\ r.From = s.From /\ r.StakingEpoch = s.StakingEpoch /\ r.Clients = s.Clients
      /\ r.Partners = ps /\ r.NextLockEpochs = s.NextLockEpochs
  BY DEF StakerInfo, ps
<1>4. p # None /\ p.Amount \in Nat /\ AmountOf(s.Partners, a) \in Nat
  BY EntryTypes, RecordRight, AmountsRight
<1>5. Terms(r, epoch)
  BY <1>1, <1>3 DEF Fit, Terms
<1>6. \A b \in Account : r.Partners[b] # None => PartnerWeighs(r, r.Partners[b], epoch)
  BY <1>1, <1>3 DEF Fit, Weighs, PartnerWeighs, End
<1>7. Weighs(r, epoch)
  BY <1>3, <1>6 DEF Fit, Weighs
<1>8. AmountOf(ps, a) = AmountOf(s.Partners, a) + x /\ \A b \in Account \ {a} : AmountOf(ps, b) = AmountOf(s.Partners, b)
  BY <1>1, <1>4 DEF AmountOf
<1>9. Total(r) = Total(s) + x
  <2>1. IsBook(ps) /\ IsBook(s.Partners) /\ Amounts(s.Clients) \in Nat /\ s.Amount \in Nat
    BY <1>2, <1>3, RecordRight, AmountsRight, FieldTypes
  <2>2. Amounts(ps) = Amounts(s.Partners) + (AmountOf(ps, a) - AmountOf(s.Partners, a))
    BY <1>8, <2>1, AmountsChange
  <2>3. Amounts(s.Partners) \in Nat
    BY <2>1, AmountsRight
  <2>4. Amounts(ps) = Amounts(s.Partners) + x
    BY <1>4, <1>8, <2>2, <2>3
  <2> QED
    BY <1>2, <1>3, <2>4, TotalGrows
<1>10. \A b \in Account : Holding(r, b) = Holding(s, b) + (IF b = a THEN x ELSE 0)
  <2>1. \A b \in Account : AmountOf(s.Partners, b) \in Nat /\ AmountOf(s.Clients, b) \in Nat
    BY RecordRight, AmountsRight
  <2> QED
    BY <1>3, <1>8, <2>1, FieldTypes DEF Holding
<1>11. Grows(s, r, epoch)
  <2>1. \A b \in Account \ {a} : r.Partners[b] = s.Partners[b] /\ (s.Partners[b] # None => s.Partners[b].Amount \in Nat)
    BY <1>1, <1>3, FieldTypes, EntryTypes
  <2>2. s.Partners[a] # None => p.Amount >= s.Partners[a].Amount
    BY <1>4 DEF AmountOf
  <2> QED
    BY <1>1, <1>3, <1>4, <2>1, <2>2, FieldTypes, EntryTypes DEF Grows
<1> QED
  BY <1>2, <1>5, <1>7, <1>9, <1>10, <1>11 DEF Fit, Credits

\* A call that adds x to a delegator's stake, or lets it quit.
LEMMA ClientKeeps ==
    ASSUME STypeOK, NEW s \in StakerInfo, Fit(s, epoch), NEW x \in Nat, NEW a \in Account,
           NEW c \in ClientInfo, c.Amount = AmountOf(s.Clients, a) + x,
           s.Clients[a] = None => c.QuitEpoch = 0,
           s.Clients[a] # None => c.QuitEpoch \in {s.Clients[a].QuitEpoch, epoch + QuitDelay},
           Total(s) + x <= maxTotalStake,
           NEW r, r = [s EXCEPT !.Clients = [s.Clients EXCEPT ![a] = c]]
    PROVE  r \in StakerInfo /\ Fit(r, epoch) /\ Grows(s, r, epoch) /\ Credits(s, r, a, x)
<1> DEFINE cs == [s.Clients EXCEPT ![a] = c]
<1>1. /\ cs \in [Account -> ClientInfo \cup {None}] /\ cs[a] = c
      /\ \A b \in Account \ {a} : cs[b] = s.Clients[b]
  BY FieldTypes
<1> HIDE DEF cs
<1>2. r \in StakerInfo
  BY <1>1 DEF StakerInfo, cs
<1>3. /\ r.Amount = s.Amount /\ r.StakeAmount = s.StakeAmount /\ r.LockEpochs = s.LockEpochs
      /\ r.From = s.From /\ r.StakingEpoch = s.StakingEpoch /\ r.Partners = s.Partners
      /\ r.Clients = cs /\ r.NextLockEpochs = s.NextLockEpochs
  BY DEF StakerInfo, cs
<1>4. c # None /\ c.Amount \in Nat /\ AmountOf(s.Clients, a) \in Nat
  BY EntryTypes, RecordRight, AmountsRight
<1>5. Terms(r, epoch)
  BY <1>3 DEF Fit, Terms
<1>6. \A b \in Account : r.Partners[b] # None => PartnerWeighs(r, r.Partners[b], epoch)
  BY <1>3 DEF Fit, Weighs, PartnerWeighs, End
<1>7. Weighs(r, epoch)
  BY <1>3, <1>6 DEF Fit, Weighs
<1>8. AmountOf(cs, a) = AmountOf(s.Clients, a) + x /\ \A b \in Account \ {a} : AmountOf(cs, b) = AmountOf(s.Clients, b)
  BY <1>1, <1>4 DEF AmountOf
<1>9. Total(r) = Total(s) + x
  <2>1. IsBook(cs) /\ IsBook(s.Clients) /\ Amounts(s.Partners) \in Nat /\ s.Amount \in Nat
    BY <1>2, <1>3, RecordRight, AmountsRight, FieldTypes
  <2>2. Amounts(cs) = Amounts(s.Clients) + (AmountOf(cs, a) - AmountOf(s.Clients, a))
    BY <1>8, <2>1, AmountsChange
  <2>3. Amounts(s.Clients) \in Nat
    BY <2>1, AmountsRight
  <2>4. Amounts(cs) = Amounts(s.Clients) + x
    BY <1>4, <1>8, <2>2, <2>3
  <2> QED
    BY <1>2, <1>3, <2>4, TotalGrows
<1>10. \A b \in Account : Holding(r, b) = Holding(s, b) + (IF b = a THEN x ELSE 0)
  <2>1. \A b \in Account : AmountOf(s.Partners, b) \in Nat /\ AmountOf(s.Clients, b) \in Nat
    BY RecordRight, AmountsRight
  <2> QED
    BY <1>3, <1>8, <2>1, FieldTypes DEF Holding
<1>11. Grows(s, r, epoch)
  <2>1. \A b \in Account \ {a} : r.Clients[b] = s.Clients[b] /\ (s.Clients[b] # None => s.Clients[b].Amount \in Nat)
    BY <1>1, <1>3, FieldTypes, EntryTypes
  <2>2. s.Clients[a] # None => c.Amount >= s.Clients[a].Amount
    BY <1>4 DEF AmountOf
  <2> QED
    BY <1>1, <1>3, <1>4, <2>1, <2>2, FieldTypes, EntryTypes DEF Grows
<1> QED
  BY <1>2, <1>5, <1>7, <1>9, <1>10, <1>11 DEF Fit, Credits

\* What a call of account a does for validator v: value leaves the wallet,
\* x of it is recorded in the validator's record r.
CallDoes(a, v, value, x, r) ==
    /\ stakers' = [stakers EXCEPT ![v] = r] /\ Fit(r, epoch)
    /\ IF stakers[v] = None THEN Fresh(r, a, x, epoch)
       ELSE Grows(stakers[v], r, epoch) /\ Credits(stakers[v], r, a, x)
    /\ value <= wallet[a] /\ x \in {0, value}
    /\ wallet' = [wallet EXCEPT ![a] = @ - value] /\ balance' = balance + value
    /\ spilled' = [spilled EXCEPT ![a] = @ + (value - x)]
    /\ UNCHANGED <<epoch, outEpoch, missed, chosen>>

\* The money of a call.
LEMMA SendRight ==
    ASSUME STypeOK, NEW a \in Account, NEW value \in Nat, Send(a, value)
    PROVE  /\ value <= wallet[a]
           /\ wallet' = [wallet EXCEPT ![a] = @ - value] /\ balance' = balance + value
           /\ Recorded => spilled' = [spilled EXCEPT ![a] = @ + (value - value)]
           /\ Unrecorded(a, value) => spilled' = [spilled EXCEPT ![a] = @ + (value - 0)]
<1>1. spilled = [spilled EXCEPT ![a] = @ + (value - value)]
  BY DEF STypeOK
<1> QED
  BY <1>1 DEF Send, Recorded, Unrecorded

\* What each call of the contract does, in the form CallDoes: the value that
\* reaches the contract and the record it leaves. First stakeIn.
LEMMA StakeInDoes ==
    ASSUME STypeOK, NEW a \in Account, NEW v \in Validator, NEW value \in Nat, NEW lock \in Nat,
           NEW fee \in Nat, doStakeInParseAndValid(lock, fee), doStakeIn(a, v, value, lock, fee)
    PROVE  \E r \in StakerInfo : CallDoes(a, v, value, value, r)
<1>1. PICK r \in StakerInfo : /\ stakers' = [stakers EXCEPT ![v] = r] /\ Fit(r, epoch)
                              /\ Fresh(r, a, value, epoch)
  BY StakeInMakes
<1>2. stakers[v] = None /\ Send(a, value) /\ Recorded /\ Timeless
  BY DEF doStakeIn
<1> QED
  BY <1>1, <1>2, SendRight DEF CallDoes, Timeless

\* stakeUpdate.
LEMMA StakeUpdateDoes ==
    ASSUME STypeOK, NEW a \in Account, NEW v \in Validator, Valid(v), NEW value \in Nat,
           NEW lock \in Nat, StakeUpdate(a, v, value, lock)
    PROVE  \E r \in StakerInfo : CallDoes(a, v, value, 0, r)
<1> DEFINE s == stakers[v]
           r == [s EXCEPT !.NextLockEpochs = lock]
<1>1. s # None /\ s \in StakerInfo /\ Fit(s, epoch)
  BY TypeOfRecord DEF StakeUpdate, Valid
<1>2. lock \in 0 .. PSMaxEpochNum /\ (lock # 0 => lock >= PSMinEpochNum)
  BY StakingAssumption DEF StakeUpdate, stakeUpdateParseAndValid
<1>3. stakers' = [stakers EXCEPT ![v] = r]
  BY DEF StakeUpdate
<1>4. r \in StakerInfo
  BY <1>1, <1>2 DEF StakerInfo
<1>5. Fit(r, epoch) /\ Grows(s, r, epoch) /\ Credits(s, r, a, 0)
  <2>1. /\ r.Amount = s.Amount /\ r.StakeAmount = s.StakeAmount /\ r.LockEpochs = s.LockEpochs
        /\ r.From = s.From /\ r.StakingEpoch = s.StakingEpoch /\ r.Clients = s.Clients
        /\ r.Partners = s.Partners /\ r.NextLockEpochs = lock
    BY <1>1 DEF StakerInfo
  <2> HIDE DEF r, s
  <2> QED
    BY <1>1, <1>2, <1>4, <2>1, UpdateKeeps
<1>6. Send(a, value) /\ Unrecorded(a, value) /\ Timeless
  BY DEF StakeUpdate
<1> HIDE DEF r
<1> QED
  BY <1>1, <1>3, <1>4, <1>5, <1>6, SendRight DEF CallDoes, Timeless

\* stakeAppend.
LEMMA StakeAppendDoes ==
    ASSUME STypeOK, NEW a \in Account, NEW v \in Validator, Valid(v), NEW value \in Nat,
           StakeAppend(a, v, value)
    PROVE  \E r \in StakerInfo : CallDoes(a, v, value, value, r)
<1> DEFINE s == stakers[v]
           w == realLockEpoch(s)
           stake == IF epoch < VenusEpochId THEN StakeValue(s.Amount + value, w)
                    ELSE s.StakeAmount + StakeValue(value, w)
           r == [s EXCEPT !.Amount = @ + value, !.StakeAmount = stake]
<1>1. s # None /\ s \in StakerInfo /\ Fit(s, epoch) /\ s.From = a
  BY TypeOfRecord DEF StakeAppend, Valid
<1>2. stakers' = [stakers EXCEPT ![v] = r]
  <2>1. stakers \in [Validator -> StakerInfo \cup {None}]
    BY DEF STypeOK
  <2>2. stakers' = [stakers EXCEPT
                 ![v].Amount = @ + value,
                 ![v].StakeAmount = IF epoch < VenusEpochId
                                    THEN StakeValue(s.Amount + value, w)
                                    ELSE @ + StakeValue(value, w)]
    BY DEF StakeAppend
  <2> HIDE DEF w
  <2> QED
    BY <1>1, <2>1, <2>2 DEF StakerInfo
<1>3. LockLeft(s) /\ Total(s) + value <= maxTotalStake /\ Send(a, value) /\ Recorded /\ Timeless
  BY DEF StakeAppend
<1>4. /\ w \in Nat /\ w <= s.LockEpochs /\ s.LockEpochs \in Nat
      /\ w = 0 => s.LockEpochs = 0 \/ s.LockEpochs >= PSMinEpochNum
  BY <1>1, <1>3, LockLeftRight, FieldTypes DEF Fit, Terms
<1> HIDE DEF w
<1>5. stake \in Nat /\ stake <= StakeValue(s.Amount + value, s.LockEpochs)
  <2>1. s.Amount \in Nat /\ s.Amount + value \in Nat /\ s.StakeAmount \in Nat
    BY <1>1, FieldTypes
  <2>2. /\ StakeValue(s.Amount + value, w) <= StakeValue(s.Amount + value, s.LockEpochs)
        /\ StakeValue(value, w) <= StakeValue(value, s.LockEpochs)
        /\ StakeValue(s.Amount + value, w) \in Nat /\ StakeValue(value, w) \in Nat
    BY <1>4, <2>1, StakeValueRight
  <2>3. /\ StakeValue(s.Amount + value, s.LockEpochs)
             = StakeValue(s.Amount, s.LockEpochs) + StakeValue(value, s.LockEpochs)
        /\ StakeValue(s.Amount, s.LockEpochs) \in Nat /\ StakeValue(value, s.LockEpochs) \in Nat
    BY <1>4, <2>1, StakeValueRight, ZenonT(60)
  <2>4. s.StakeAmount <= StakeValue(s.Amount, s.LockEpochs)
    BY <1>1 DEF Fit, Weighs
  <2> HIDE DEF s
  <2> QED
    BY <2>1, <2>2, <2>3, <2>4
<1> HIDE DEF stake
<1>6. r \in StakerInfo /\ Fit(r, epoch) /\ Grows(s, r, epoch) /\ Credits(s, r, s.From, value)
  <2> HIDE DEF s
  <2> QED
    BY <1>1, <1>3, <1>4, <1>5, AppendKeeps
<1> HIDE DEF r
<1> QED
  BY <1>1, <1>2, <1>3, <1>6, SendRight DEF CallDoes, Timeless

\* partnerIn.
LEMMA PartnerInDoes ==
    ASSUME STypeOK, NEW a \in Account, NEW v \in Validator, Valid(v), NEW value \in Nat,
           NEW renewal \in BOOLEAN, PartnerIn(a, v, value, renewal)
    PROVE  \E r \in StakerInfo : CallDoes(a, v, value, value, r)
<1> DEFINE s == stakers[v]
           w == realLockEpoch(s)
           p == s.Partners[a]
           q == IF p = None
                 THEN [Amount |-> value, StakeAmount |-> StakeValue(value, w),
                       Renewal |-> renewal, LockEpochs |-> w,
                       StakingEpoch |-> epoch + JoinDelay]
                 ELSE [p EXCEPT !.Amount = @ + value,
                                !.StakeAmount = @ + StakeValue(value, w),
                                !.Renewal = renewal]
           r == [s EXCEPT !.Partners = [s.Partners EXCEPT ![a] = q]]
<1>1. s # None /\ s \in StakerInfo /\ Fit(s, epoch)
  BY TypeOfRecord DEF PartnerIn, Valid
<1>2. stakers' = [stakers EXCEPT ![v] = r]
  <2>1. stakers \in [Validator -> StakerInfo \cup {None}]
    BY DEF STypeOK
  <2>2. stakers' = [stakers EXCEPT ![v].Partners[a] = q]
    BY DEF PartnerIn
  <2> HIDE DEF q
  <2> QED
    BY <1>1, <2>1, <2>2
<1>3. LockLeft(s) /\ Total(s) + value <= maxTotalStake /\ Send(a, value) /\ Recorded /\ Timeless
  BY DEF PartnerIn, PartnerTotal
<1>4. /\ w \in 0 .. PSMaxEpochNum /\ w \in Nat /\ w <= s.LockEpochs
      /\ IF s.StakingEpoch = 0 THEN w = s.LockEpochs ELSE epoch + JoinDelay + w = End(s)
  BY <1>1, <1>3, LockLeftRight DEF Fit
<1>5. epoch \in Nat /\ StakeValue(value, w) \in Nat /\ (p # None => p \in PartnerInfo)
  <2>1. epoch \in Nat
    BY StakingAssumption DEF STypeOK
  <2>2. p # None => p \in PartnerInfo
    BY <1>1, FieldTypes
  <2> HIDE DEF w, p
  <2> QED
    BY <1>4, <2>1, <2>2, StakeValueRight
<1>6. CASE p = None
  <2>1. q = [Amount |-> value, StakeAmount |-> StakeValue(value, w),
             Renewal |-> renewal, LockEpochs |-> w, StakingEpoch |-> epoch + JoinDelay]
    BY <1>6
  <2> HIDE DEF q, p, w, s
  <2>2. q \in PartnerInfo
    BY <1>4, <1>5, <2>1 DEF PartnerInfo, JoinDelay
  <2>3. q.Amount = AmountOf(s.Partners, a) + value
    BY <1>6, <2>1 DEF AmountOf, p
  <2>4. PartnerWeighs(s, q, epoch)
    BY <1>4, <1>5, <2>1 DEF PartnerWeighs, End
  <2>5. r \in StakerInfo /\ Fit(r, epoch) /\ Grows(s, r, epoch) /\ Credits(s, r, a, value)
    <3>1. /\ q.StakingEpoch <= epoch + JoinDelay
          /\ s.Partners[a] = None => q.StakingEpoch = epoch + JoinDelay
      BY <1>5, <2>1 DEF JoinDelay
    <3>2. s.Partners[a] # None => /\ q.LockEpochs = s.Partners[a].LockEpochs
                                  /\ q.StakingEpoch = s.Partners[a].StakingEpoch
      BY <1>6 DEF p
    <3> QED
      BY <1>1, <1>3, <2>2, <2>3, <2>4, <3>1, <3>2, PartnerKeeps
  <2> HIDE DEF r
  <2>6. stakers[v] # None /\ s = stakers[v]
    BY <1>1 DEF s
  <2> QED
    BY <1>2, <1>3, <2>5, <2>6, SendRight DEF CallDoes, Timeless
<1>7. CASE p # None
  <2>0. p \in PartnerInfo /\ p.Amount \in Nat /\ p.StakeAmount \in Nat /\ p.LockEpochs \in Nat
        /\ p.StakingEpoch \in Nat
    BY <1>5, <1>7, EntryTypes
  <2>1. q = [p EXCEPT !.Amount = p.Amount + value,
                      !.StakeAmount = p.StakeAmount + StakeValue(value, w), !.Renewal = renewal]
    BY <1>7, <2>0 DEF PartnerInfo
  <2> HIDE DEF q, w
  <2>2. q \in PartnerInfo
    <3> DEFINE am == p.Amount + value
               st == p.StakeAmount + StakeValue(value, w)
    <3>1. am \in Nat /\ st \in Nat
      BY <1>5, <2>0
    <3>2. q = [p EXCEPT !.Amount = am, !.StakeAmount = st, !.Renewal = renewal]
      BY <2>1
    <3> HIDE DEF am, st, p
    <3> QED
      BY <2>0, <3>1, <3>2 DEF PartnerInfo
  <2>3. /\ q.Amount = p.Amount + value /\ q.StakeAmount = p.StakeAmount + StakeValue(value, w)
        /\ q.LockEpochs = p.LockEpochs /\ q.StakingEpoch = p.StakingEpoch
    BY <2>0, <2>1 DEF PartnerInfo
  <2>4. q.Amount = AmountOf(s.Partners, a) + value
    BY <1>7, <2>3 DEF AmountOf
  <2>5. PartnerWeighs(s, p, epoch) /\ p.StakingEpoch <= epoch + JoinDelay
    BY <1>1, <1>7 DEF Fit, Weighs, Terms
  <2>6. PartnerWeighs(s, q, epoch)
    <3>1. CASE s.StakingEpoch # 0 /\ End(p) <= epoch + 3
      BY <2>3, <3>1 DEF PartnerWeighs, End
    <3>2. CASE ~(s.StakingEpoch # 0 /\ End(p) <= epoch + 3)
      <4>1. /\ p.StakeAmount <= StakeValue(p.Amount, p.LockEpochs)
            /\ IF s.StakingEpoch = 0 THEN p.LockEpochs = s.LockEpochs ELSE End(p) = End(s)
        BY <2>5, <3>2 DEF PartnerWeighs
      <4>2. w <= p.LockEpochs /\ (w = 0 => p.LockEpochs = 0 \/ p.LockEpochs >= PSMinEpochNum)
        <5>1. CASE s.StakingEpoch = 0
          BY <1>1, <1>4, <4>1, <5>1 DEF Fit, Terms
        <5>2. CASE s.StakingEpoch # 0
          <6>1. p.StakingEpoch + p.LockEpochs = epoch + JoinDelay + w
            BY <1>4, <4>1, <5>2 DEF End
          <6>2. p.StakingEpoch + p.LockEpochs > epoch + 3
            BY <1>5, <2>0, <3>2, <5>2 DEF End
          <6> HIDE DEF p, s
          <6> QED
            BY <1>4, <1>5, <2>0, <2>5, <6>1, <6>2 DEF JoinDelay
        <5> QED
          BY <5>1, <5>2
      <4>3. StakeValue(value, w) <= StakeValue(value, p.LockEpochs)
        BY <1>4, <2>0, <4>2, StakeValueRight
      <4>4. /\ StakeValue(p.Amount + value, p.LockEpochs)
                = StakeValue(p.Amount, p.LockEpochs) + StakeValue(value, p.LockEpochs)
            /\ StakeValue(p.Amount, p.LockEpochs) \in Nat /\ StakeValue(value, p.LockEpochs) \in Nat
        BY <2>0, StakeValueRight, ZenonT(40)
      <4>5. q.StakeAmount <= StakeValue(q.Amount, q.LockEpochs)
        <5> HIDE DEF p, s
        <5> QED
          BY <1>5, <2>0, <2>3, <4>1, <4>3, <4>4
      <4>6. End(q) = End(p)
        BY <2>3 DEF End
      <4> QED
        BY <2>3, <4>1, <4>5, <4>6 DEF PartnerWeighs
    <3> QED
      BY <3>1, <3>2
  <2>7. s.Partners[a] # None /\ p = s.Partners[a]
    BY <1>7
  <2> HIDE DEF p, s
  <2>8. r \in StakerInfo /\ Fit(r, epoch) /\ Grows(s, r, epoch) /\ Credits(s, r, a, value)
    BY <1>1, <1>3, <2>2, <2>3, <2>4, <2>5, <2>6, <2>7, PartnerKeeps
  <2> HIDE DEF r
  <2>9. stakers[v] # None /\ s = stakers[v]
    BY <1>1 DEF s
  <2> QED
    BY <1>2, <1>3, <2>8, <2>9, SendRight DEF CallDoes, Timeless
<1> QED
  BY <1>6, <1>7

\* delegateIn.
LEMMA DelegateInDoes ==
    ASSUME STypeOK, NEW a \in Account, NEW v \in Validator, Valid(v), NEW value \in Nat,
           DelegateIn(a, v, value)
    PROVE  \E r \in StakerInfo : CallDoes(a, v, value, value, r)
<1> DEFINE s == stakers[v]
           c == s.Clients[a]
           w == StakeValue(value, PSMinEpochNum)
           d == IF c = None
                THEN [Amount |-> value, StakeAmount |-> w, QuitEpoch |-> 0]
                ELSE [c EXCEPT !.Amount = @ + value, !.StakeAmount = @ + w]
           r == [s EXCEPT !.Clients = [s.Clients EXCEPT ![a] = d]]
<1>1. s # None /\ s \in StakerInfo /\ Fit(s, epoch)
  BY TypeOfRecord DEF DelegateIn, Valid
<1>2. stakers' = [stakers EXCEPT ![v] = r]
  <2>1. stakers \in [Validator -> StakerInfo \cup {None}]
    BY DEF STypeOK
  <2>2. stakers' = [stakers EXCEPT ![v].Clients[a] = d]
    BY DEF DelegateIn
  <2> HIDE DEF d
  <2> QED
    BY <1>1, <2>1, <2>2
<1>3. Total(s) + value <= maxTotalStake /\ Send(a, value) /\ Recorded /\ Timeless
  BY DEF DelegateIn
<1>4. w \in Nat /\ (c # None => c \in ClientInfo)
  <2>1. w \in Nat
    BY StakeValueRight, StakingAssumption
  <2> QED
    BY <1>1, <2>1, FieldTypes
<1> HIDE DEF w
<1>5. /\ d \in ClientInfo /\ d.Amount = AmountOf(s.Clients, a) + value
      /\ s.Clients[a] = None => d.QuitEpoch = 0
      /\ s.Clients[a] # None => d.QuitEpoch = s.Clients[a].QuitEpoch
  <2>1. CASE c = None
    BY <1>4, <2>1 DEF ClientInfo, AmountOf
  <2>2. CASE c # None
    <3> DEFINE am == c.Amount + value
               st == c.StakeAmount + w
    <3>1. c \in ClientInfo /\ am \in Nat /\ st \in Nat
      BY <1>4, <2>2, EntryTypes
    <3>2. d = [c EXCEPT !.Amount = am, !.StakeAmount = st]
      BY <2>2, <3>1 DEF ClientInfo
    <3>3. am = AmountOf(s.Clients, a) + value
      BY <2>2 DEF AmountOf
    <3> HIDE DEF am, st, d
    <3> QED
      BY <2>2, <3>1, <3>2, <3>3 DEF ClientInfo
  <2> QED
    BY <2>1, <2>2
<1> HIDE DEF d
<1>6. r \in StakerInfo /\ Fit(r, epoch) /\ Grows(s, r, epoch) /\ Credits(s, r, a, value)
  <2> HIDE DEF s
  <2> QED
    BY <1>1, <1>3, <1>5, ClientKeeps
<1> HIDE DEF r
<1> QED
  BY <1>1, <1>2, <1>3, <1>6, SendRight DEF CallDoes, Timeless

\* delegateOut.
LEMMA DelegateOutDoes ==
    ASSUME STypeOK, NEW a \in Account, NEW v \in Validator, Valid(v), NEW value \in Nat,
           DelegateOut(a, v, value)
    PROVE  \E r \in StakerInfo : CallDoes(a, v, value, 0, r)
<1> DEFINE s == stakers[v]
           c == s.Clients[a]
           d == [c EXCEPT !.QuitEpoch = QuitEpoch]
           r == [s EXCEPT !.Clients = [s.Clients EXCEPT ![a] = d]]
<1>1. s # None /\ s \in StakerInfo /\ Fit(s, epoch) /\ c # None
  BY TypeOfRecord DEF DelegateOut, Valid
<1>2. c \in ClientInfo /\ epoch \in Nat
  BY <1>1, FieldTypes, StakingAssumption DEF STypeOK
<1>3. stakers' = [stakers EXCEPT ![v] = r]
  <2>1. stakers \in [Validator -> StakerInfo \cup {None}]
    BY DEF STypeOK
  <2>2. stakers' = [stakers EXCEPT ![v].Clients[a].QuitEpoch = QuitEpoch]
    BY DEF DelegateOut
  <2> QED
    BY <1>1, <2>1, <2>2
<1>4. /\ d \in ClientInfo /\ d.Amount = AmountOf(s.Clients, a) + 0
      /\ d.QuitEpoch = epoch + QuitDelay
  BY <1>1, <1>2 DEF ClientInfo, AmountOf, QuitEpoch, QuitDelay
<1>5. Total(s) + 0 <= maxTotalStake
  BY <1>1, RecordRight DEF Fit
<1>6. Send(a, value) /\ Unrecorded(a, value) /\ Timeless
  BY DEF DelegateOut
<1>7. s.Clients[a] # None
  BY <1>1
<1> HIDE DEF d
<1>8. r \in StakerInfo /\ Fit(r, epoch) /\ Grows(s, r, epoch) /\ Credits(s, r, a, 0)
  <2> HIDE DEF s
  <2> QED
    BY <1>1, <1>4, <1>5, <1>7, ClientKeeps
<1> HIDE DEF r
<1> QED
  BY <1>1, <1>3, <1>6, <1>8, SendRight DEF CallDoes, Timeless

\* stakeUpdateFeeRate.
LEMMA FeeRateDoes ==
    ASSUME STypeOK, NEW a \in Account, NEW v \in Validator, Valid(v), NEW value \in Nat,
           NEW fee \in Nat, StakeUpdateFeeRate(a, v, value, fee)
    PROVE  \E r \in StakerInfo : CallDoes(a, v, value, 0, r)
<1> DEFINE s == stakers[v]
           r == [s EXCEPT !.FeeRate = fee]
<1>1. s # None /\ s \in StakerInfo /\ Fit(s, epoch)
  BY TypeOfRecord DEF StakeUpdateFeeRate, Valid
<1>2. fee \in 0 .. PSMaxFeeRate
  BY StakingAssumption DEF StakeUpdateFeeRate
<1>3. stakers' = [stakers EXCEPT ![v] = r]
  BY DEF StakeUpdateFeeRate
<1>4. r \in StakerInfo
  BY <1>1, <1>2 DEF StakerInfo
<1>5. Fit(r, epoch) /\ Grows(s, r, epoch) /\ Credits(s, r, a, 0)
  <2>1. /\ r.Amount = s.Amount /\ r.StakeAmount = s.StakeAmount /\ r.LockEpochs = s.LockEpochs
        /\ r.From = s.From /\ r.StakingEpoch = s.StakingEpoch /\ r.Clients = s.Clients
        /\ r.Partners = s.Partners /\ r.NextLockEpochs = s.NextLockEpochs
    BY <1>1 DEF StakerInfo
  <2>2. s.NextLockEpochs # 0 => s.NextLockEpochs >= PSMinEpochNum
    BY <1>1 DEF Fit, Terms
  <2> HIDE DEF r, s
  <2> QED
    BY <1>1, <1>4, <2>1, <2>2, UpdateKeeps
<1>6. Send(a, value) /\ Unrecorded(a, value) /\ Timeless
  BY DEF StakeUpdateFeeRate
<1> HIDE DEF r
<1> QED
  BY <1>1, <1>3, <1>4, <1>5, <1>6, SendRight DEF CallDoes, Timeless

\* Every call does what CallDoes says.
LEMMA CallEffect ==
    ASSUME STypeOK, NEW a \in Account, NEW v \in Validator, Valid(v), Call(a, v)
    PROVE  \E r \in StakerInfo, value \in Nat, x \in Nat : CallDoes(a, v, value, x, r)
<1>0. Value \subseteq Nat /\ Lock \subseteq Nat /\ Rate \subseteq Nat
  BY StakingAssumption
<1>1. CASE \E value \in Value, lock \in Lock, fee \in Rate :
              \/ StakeIn(a, v, value, lock, fee)
              \/ \E max \in Rate : StakeRegister(a, v, value, lock, fee, max)
  <2>1. PICK value \in Value, lock \in Lock, fee \in Rate :
              \/ StakeIn(a, v, value, lock, fee)
              \/ \E max \in Rate : StakeRegister(a, v, value, lock, fee, max)
    BY <1>1
  <2>2. doStakeInParseAndValid(lock, fee) /\ doStakeIn(a, v, value, lock, fee)
    BY <2>1 DEF StakeIn, StakeRegister, stakeRegisterParseAndValid
  <2>3. value \in Nat /\ lock \in Nat /\ fee \in Nat
    BY <1>0
  <2> QED
    BY <2>2, <2>3, StakeInDoes
<1>2. CASE \E value \in Value :
              \/ StakeAppend(a, v, value)
              \/ \E renewal \in BOOLEAN : PartnerIn(a, v, value, renewal)
              \/ DelegateIn(a, v, value)
  <2>1. PICK value \in Nat :
              \/ StakeAppend(a, v, value)
              \/ \E renewal \in BOOLEAN : PartnerIn(a, v, value, renewal)
              \/ DelegateIn(a, v, value)
    BY <1>0, <1>2
  <2> QED
    BY <2>1, StakeAppendDoes, PartnerInDoes, DelegateInDoes
<1>3. CASE \E value \in Value \cup {0} :
              \/ \E lock \in Lock \cup {0} : StakeUpdate(a, v, value, lock)
              \/ DelegateOut(a, v, value)
              \/ \E fee \in Rate : StakeUpdateFeeRate(a, v, value, fee)
  <2>1. PICK value \in Nat :
              \/ \E lock \in Nat : StakeUpdate(a, v, value, lock)
              \/ DelegateOut(a, v, value)
              \/ \E fee \in Nat : StakeUpdateFeeRate(a, v, value, fee)
    BY <1>0, <1>3
  <2> QED
    BY <2>1, StakeUpdateDoes, DelegateOutDoes, FeeRateDoes
<1> QED
  BY <1>1, <1>2, <1>3 DEF Call

-----------------------------------------------------------------------------
(***************************************************************************)
(* What the refunds of an epoch do to a fit record.                        *)
(***************************************************************************)

\* r has what s has, except for the entries that left.
Remains(s, r) ==
    /\ r.Amount = s.Amount /\ r.From = s.From /\ r.FeeRate = s.FeeRate
    /\ \A a \in Account : /\ r.Partners[a] # None =>
                                s.Partners[a] # None /\ r.Partners[a].Amount = s.Partners[a].Amount
                          /\ r.Clients[a] # None => r.Clients[a] = s.Clients[a]

\* Starting the stakes that wait for their first epoch keeps record and amounts.
LEMMA StartedRight ==
    ASSUME STypeOK, NEW s \in StakerInfo, Fit(s, epoch), s.LockEpochs # 0, NEW t, t = Started(s)
    PROVE  /\ t \in StakerInfo /\ Fit(t, epoch) /\ t.StakingEpoch # 0 /\ Remains(s, t)
           /\ t.LockEpochs = s.LockEpochs /\ t.StakeAmount = s.StakeAmount
           /\ t.NextLockEpochs = s.NextLockEpochs /\ t.Clients = s.Clients
           /\ \A a \in Account : s.Partners[a] # None =>
                 /\ t.Partners[a] # None /\ t.Partners[a].LockEpochs = s.Partners[a].LockEpochs
                 /\ t.Partners[a].StakeAmount = s.Partners[a].StakeAmount
           /\ Total(t) = Total(s)
<1> DEFINE began == FirstEpochId + 2
           ps == [a \in Account |-> IF s.Partners[a] = None THEN None
                                    ELSE [s.Partners[a] EXCEPT !.StakingEpoch = began]]
<1>0. epoch \in Nat /\ began \in Nat /\ began # 0 /\ began <= epoch + JoinDelay
  BY StakingAssumption DEF STypeOK, JoinDelay
<1> HIDE DEF began
<1>1. CASE s.StakingEpoch # 0
  <2>1. t = s
    BY <1>1 DEF Started
  <2>2. Remains(s, s)
    BY FieldTypes, EntryTypes DEF Remains
  <2> QED
    BY <1>1, <2>1, <2>2
<1>2. CASE s.StakingEpoch = 0
  <2>1. t = [s EXCEPT !.StakingEpoch = began, !.Partners = ps]
    BY <1>2 DEF Started, began
  <2>2. ASSUME NEW a \in Account, s.Partners[a] # None
        PROVE  /\ ps[a] \in PartnerInfo /\ ps[a].Amount = s.Partners[a].Amount /\ ps[a] # None
               /\ ps[a].LockEpochs = s.Partners[a].LockEpochs
               /\ ps[a].StakeAmount = s.Partners[a].StakeAmount /\ ps[a].StakingEpoch = began
    <3>1. s.Partners[a] \in PartnerInfo
      BY <2>2, FieldTypes
    <3>2. ps[a] = [s.Partners[a] EXCEPT !.StakingEpoch = began]
      BY <2>2
    <3>3. ps[a] \in PartnerInfo
      BY <1>0, <3>1, <3>2 DEF PartnerInfo
    <3> QED
      BY <3>1, <3>2, <3>3, EntryTypes DEF PartnerInfo
  <2>3. \A a \in Account : s.Partners[a] = None => ps[a] = None
    OBVIOUS
  <2>4. ps \in [Account -> PartnerInfo \cup {None}]
    BY <2>2, <2>3
  <2> HIDE DEF ps
  <2>5. t \in StakerInfo
    BY <1>0, <2>1, <2>4 DEF StakerInfo
  <2>6. /\ t.Amount = s.Amount /\ t.StakeAmount = s.StakeAmount /\ t.LockEpochs = s.LockEpochs
        /\ t.From = s.From /\ t.StakingEpoch = began /\ t.Clients = s.Clients
        /\ t.Partners = ps /\ t.NextLockEpochs = s.NextLockEpochs /\ t.FeeRate = s.FeeRate
    BY <2>1 DEF StakerInfo
  <2>7. Terms(t, epoch)
    BY <1>0, <2>2, <2>3, <2>6 DEF Fit, Terms
  <2>8. ASSUME NEW a \in Account, t.Partners[a] # None
        PROVE  PartnerWeighs(t, t.Partners[a], epoch)
    <3>1. s.Partners[a] # None
      BY <2>3, <2>6, <2>8
    <3>2. /\ s.Partners[a].StakeAmount <= StakeValue(s.Partners[a].Amount, s.Partners[a].LockEpochs)
          /\ s.Partners[a].LockEpochs = s.LockEpochs
      BY <1>2, <3>1 DEF Fit, Weighs, PartnerWeighs
    <3> QED
      BY <1>0, <2>2, <2>6, <3>1, <3>2 DEF PartnerWeighs, End
  <2>9. Weighs(t, epoch)
    BY <2>6, <2>8 DEF Fit, Weighs
  <2>10. Total(t) = Total(s)
    <3>1. \A a \in Account : AmountOf(ps, a) = AmountOf(s.Partners, a)
      BY <2>2, <2>3 DEF AmountOf
    <3>2. Amounts(ps) = Amounts(s.Partners)
      BY <2>5, <2>6, <3>1, AmountsCompare, RecordRight
    <3> QED
      BY <2>5, <2>6, <3>2, RecordRight
  <2>11. Remains(s, t)
    BY <2>2, <2>3, <2>6 DEF Remains
  <2> QED
    BY <1>0, <2>2, <2>5, <2>6, <2>7, <2>9, <2>10, <2>11 DEF Fit
<1> QED
  BY <1>1, <1>2

\* What is kept of a record once partners and clients that are due are paid.
LEMMA KeptRight ==
    ASSUME STypeOK, NEW t \in StakerInfo, Fit(t, epoch), t.StakingEpoch # 0, NEW k, k = Kept(t)
    PROVE  /\ k \in StakerInfo /\ Fit(k, epoch) /\ Remains(t, k)
           /\ k.StakingEpoch = t.StakingEpoch
           /\ k.LockEpochs = t.LockEpochs /\ k.NextLockEpochs = t.NextLockEpochs
           /\ \A a \in Account :
                 /\ k.Partners[a] = IF t.Partners[a] # None /\ TermOver(t.Partners[a])
                                    THEN None ELSE t.Partners[a]
                 /\ k.Clients[a] = IF t.Clients[a] # None /\ QuitDue(t.Clients[a])
                                   THEN None ELSE t.Clients[a]
<1> DEFINE cs == Without(t.Clients, QuitDue)
           ps == Without(t.Partners, TermOver)
<1>1. \A a \in Account :
          /\ ps[a] = IF t.Partners[a] # None /\ TermOver(t.Partners[a]) THEN None ELSE t.Partners[a]
          /\ cs[a] = IF t.Clients[a] # None /\ QuitDue(t.Clients[a]) THEN None ELSE t.Clients[a]
  BY FieldTypes DEF Without, Due, Present
<1>2. DOMAIN cs = Account /\ DOMAIN ps = Account
  BY DEF Without
<1>3. cs = [a \in Account |-> cs[a]] /\ ps = [a \in Account |-> ps[a]]
  BY DEF Without
<1> HIDE DEF cs, ps
<1>4. cs \in [Account -> ClientInfo \cup {None}] /\ ps \in [Account -> PartnerInfo \cup {None}]
  BY <1>1, <1>3, FieldTypes
<1>5. k = [t EXCEPT !.Clients = cs, !.Partners = ps]
  BY DEF Kept, cs, ps
<1>6. k \in StakerInfo
  BY <1>4, <1>5 DEF StakerInfo
<1>7. /\ k.Amount = t.Amount /\ k.StakeAmount = t.StakeAmount /\ k.LockEpochs = t.LockEpochs
      /\ k.From = t.From /\ k.StakingEpoch = t.StakingEpoch /\ k.Clients = cs
      /\ k.Partners = ps /\ k.NextLockEpochs = t.NextLockEpochs /\ k.FeeRate = t.FeeRate
  BY <1>5 DEF StakerInfo
<1>8. Terms(k, epoch)
  BY <1>1, <1>7 DEF Fit, Terms
<1>9. \A a \in Account : k.Partners[a] # None => PartnerWeighs(k, k.Partners[a], epoch)
  BY <1>1, <1>7 DEF Fit, Weighs, PartnerWeighs, End
<1>10. Weighs(k, epoch)
  BY <1>7, <1>9 DEF Fit, Weighs
<1>11. Total(k) <= Total(t) /\ Total(k) \in Nat /\ Total(t) \in Nat
  <2>1. IsBook(cs) /\ IsBook(ps) /\ IsBook(t.Clients) /\ IsBook(t.Partners)
    BY <1>6, <1>7, RecordRight
  <2>2. \A a \in Account : /\ AmountOf(t.Partners, a) \in Nat /\ AmountOf(t.Clients, a) \in Nat
    BY <2>1, AmountsRight
  <2>3. \A a \in Account : /\ AmountOf(ps, a) <= AmountOf(t.Partners, a)
                           /\ AmountOf(cs, a) <= AmountOf(t.Clients, a)
    BY <1>1, <2>2 DEF AmountOf
  <2>4. Amounts(ps) <= Amounts(t.Partners) /\ Amounts(cs) <= Amounts(t.Clients)
    BY <2>1, <2>3, AmountsCompare
  <2>5. /\ Amounts(ps) \in Nat /\ Amounts(t.Partners) \in Nat
        /\ Amounts(cs) \in Nat /\ Amounts(t.Clients) \in Nat /\ t.Amount \in Nat
    BY <2>1, AmountsRight, FieldTypes
  <2> QED
    BY <1>6, <1>7, <2>4, <2>5, RecordRight
<1>12. Fit(k, epoch)
  BY <1>8, <1>10, <1>11, StakingAssumption DEF Fit
<1>13. Remains(t, k)
  BY <1>1, <1>7 DEF Remains
<1> QED
  BY <1>1, <1>6, <1>7, <1>12, <1>13

\* A renewal keeps the amounts and moves the end of the term out.
LEMMA RenewedRight ==
    ASSUME STypeOK, NEW k \in StakerInfo, Fit(k, epoch), k.StakingEpoch # 0, k.LockEpochs # 0,
           Renewing(k), NEW n, n = Renewed(k)
    PROVE  /\ n \in StakerInfo /\ Fit(n, epoch) /\ Remains(k, n) /\ n.StakingEpoch # 0
           /\ n.LockEpochs # 0 /\ n.Clients = k.Clients
           /\ End(n) = End(k) \/ End(n) > epoch + 5
           /\ \A a \in Account : k.Partners[a] # None =>
                 /\ n.Partners[a] # None
                 /\ End(n.Partners[a]) = End(k.Partners[a]) \/ End(n.Partners[a]) >= epoch + 2
           /\ Total(n) = Total(k)
<1> DEFINE next == k.NextLockEpochs
           soon == epoch + JoinDelay
           own == IF next = 0 THEN k
                  ELSE [k EXCEPT !.LockEpochs = next, !.StakeAmount = StakeValue(k.Amount, next),
                                 !.StakingEpoch = soon]
           ren(p) == [p EXCEPT !.LockEpochs = next, !.StakeAmount = StakeValue(p.Amount, next),
                               !.StakingEpoch = soon]
           ps == [a \in Account |-> IF k.Partners[a] # None /\ k.Partners[a].Renewal
                                    THEN ren(k.Partners[a]) ELSE k.Partners[a]]
<1>0. /\ epoch \in Nat /\ soon \in Nat /\ soon # 0 /\ soon = epoch + 2
      /\ next \in 0 .. PSMaxEpochNum /\ next \in Nat /\ (next # 0 => next > 3 /\ next >= PSMinEpochNum)
      /\ k.StakingEpoch \in Nat /\ k.LockEpochs \in Nat /\ k.Amount \in Nat
      /\ End(k) <= epoch + 3
  BY FieldTypes, StakingAssumption DEF STypeOK, JoinDelay, Fit, Terms, QuitDelay, Renewing, End
<1>1. n = [own EXCEPT !.Partners = ps]
  BY DEF Renewed
<1>2. ASSUME NEW a \in Account, k.Partners[a] # None
      PROVE  /\ ps[a] \in PartnerInfo /\ ps[a] # None /\ ps[a].Amount = k.Partners[a].Amount
             /\ \/ ps[a] = k.Partners[a]
                \/ /\ ps[a].LockEpochs = next /\ ps[a].StakingEpoch = soon
                   /\ ps[a].StakeAmount = StakeValue(ps[a].Amount, next)
  <2>1. k.Partners[a] \in PartnerInfo /\ k.Partners[a].Amount \in Nat
    BY <1>2, FieldTypes, EntryTypes
  <2>2. CASE ~k.Partners[a].Renewal
    <3>1. ps[a] = k.Partners[a]
      BY <2>2
    <3> HIDE DEF ps
    <3> QED
      BY <1>2, <2>1, <3>1
  <2>3. CASE k.Partners[a].Renewal
    <3> DEFINE p == k.Partners[a]
               st == StakeValue(p.Amount, next)
    <3>1. st \in Nat
      <4> HIDE DEF p, next
      <4> QED
        BY <1>0, <2>1, StakeValueRight DEF p
    <3>2. ps[a] = [p EXCEPT !.LockEpochs = next, !.StakeAmount = st, !.StakingEpoch = soon]
      BY <1>2, <2>3
    <3>3. st = StakeValue(p.Amount, next)
      OBVIOUS
    <3> HIDE DEF ps, st, next, soon
    <3>4. ps[a] \in PartnerInfo
      BY <1>0, <2>1, <3>1, <3>2 DEF PartnerInfo
    <3>5. /\ ps[a].LockEpochs = next /\ ps[a].StakingEpoch = soon /\ ps[a].StakeAmount = st
          /\ ps[a].Amount = p.Amount
      BY <2>1, <3>2 DEF PartnerInfo
    <3> QED
      BY <3>3, <3>4, <3>5, EntryTypes
  <2> QED
    BY <2>2, <2>3
<1>3. \A a \in Account : k.Partners[a] = None => ps[a] = None
  OBVIOUS
<1>4. ps \in [Account -> PartnerInfo \cup {None}]
  BY <1>2, <1>3
<1>5. /\ own \in StakerInfo /\ own.Amount = k.Amount /\ own.From = k.From /\ own.FeeRate = k.FeeRate
      /\ own.Clients = k.Clients /\ own.NextLockEpochs = next
      /\ IF next = 0 THEN /\ own.LockEpochs = k.LockEpochs /\ own.StakingEpoch = k.StakingEpoch
                          /\ own.StakeAmount = k.StakeAmount
         ELSE /\ own.LockEpochs = next /\ own.StakingEpoch = soon
              /\ own.StakeAmount = StakeValue(k.Amount, next)
  <2> DEFINE st == StakeValue(k.Amount, next)
  <2>1. st \in Nat
    <3> HIDE DEF next
    <3> QED
      BY <1>0, StakeValueRight
  <2>2. own = IF next = 0 THEN k
              ELSE [k EXCEPT !.LockEpochs = next, !.StakeAmount = st, !.StakingEpoch = soon]
    OBVIOUS
  <2>3. st = StakeValue(k.Amount, next) /\ next = k.NextLockEpochs
    OBVIOUS
  <2> HIDE DEF st, own, soon, next
  <2> QED
    BY <1>0, <2>1, <2>2, <2>3 DEF StakerInfo
<1> HIDE DEF own, ps
<1>6. n \in StakerInfo
  BY <1>1, <1>4, <1>5 DEF StakerInfo
<1>7. /\ n.Amount = k.Amount /\ n.From = k.From /\ n.FeeRate = k.FeeRate
      /\ n.Clients = k.Clients /\ n.NextLockEpochs = next /\ n.Partners = ps
      /\ n.LockEpochs = own.LockEpochs /\ n.StakingEpoch = own.StakingEpoch
      /\ n.StakeAmount = own.StakeAmount
  BY <1>1, <1>5 DEF StakerInfo
<1> HIDE DEF soon, next
<1>8. Terms(n, epoch)
  <2>1. \A a \in Account : ps[a] # None => ps[a].StakingEpoch <= epoch + JoinDelay
    <3>1. \A a \in Account : k.Partners[a] # None => k.Partners[a].StakingEpoch <= epoch + JoinDelay
      BY DEF Fit, Terms
    <3>2. soon <= epoch + JoinDelay
      BY <1>0 DEF JoinDelay
    <3> QED
      BY <1>2, <1>3, <3>1, <3>2
  <2>2. k.StakingEpoch <= epoch + JoinDelay /\ k.LockEpochs >= PSMinEpochNum
    BY DEF Fit, Terms
  <2> QED
    BY <1>0, <1>5, <1>7, <2>1, <2>2 DEF Terms, JoinDelay
<1>9. End(n) = IF next = 0 THEN End(k) ELSE soon + next
  BY <1>5, <1>7 DEF End
<1>10. n.StakingEpoch # 0 /\ n.LockEpochs # 0
  BY <1>0, <1>5, <1>7
<1>11. ASSUME NEW a \in Account, n.Partners[a] # None
       PROVE  PartnerWeighs(n, n.Partners[a], epoch)
  <2>1. k.Partners[a] # None /\ n.Partners[a] = ps[a]
    BY <1>3, <1>7, <1>11
  <2>2. CASE ps[a] = k.Partners[a]
    <3>1. PartnerWeighs(k, ps[a], epoch)
      BY <2>1, <2>2 DEF Fit, Weighs
    <3>2. End(ps[a]) <= epoch + 3
      BY <1>0, <3>1 DEF PartnerWeighs
    <3> QED
      BY <1>10, <2>1, <3>2 DEF PartnerWeighs
  <2>3. CASE /\ ps[a].LockEpochs = next /\ ps[a].StakingEpoch = soon
             /\ ps[a].StakeAmount = StakeValue(ps[a].Amount, next)
    <3>1. CASE next = 0
      <4>1. End(ps[a]) <= epoch + 3
        BY <1>0, <2>3, <3>1 DEF End
      <4> QED
        BY <1>10, <2>1, <4>1 DEF PartnerWeighs
    <3>2. CASE next # 0
      <4>1. End(ps[a]) = End(n)
        BY <1>9, <2>3, <3>2 DEF End
      <4>2. ps[a].StakeAmount <= StakeValue(ps[a].Amount, ps[a].LockEpochs)
        <5>1. ps[a].StakeAmount \in Nat
          BY <1>2, <2>1, EntryTypes
        <5> QED
          BY <2>3, <5>1
      <4> QED
        BY <1>10, <2>1, <4>1, <4>2 DEF PartnerWeighs
    <3> QED
      BY <3>1, <3>2
  <2> QED
    BY <1>2, <2>1, <2>2, <2>3
<1>12. Weighs(n, epoch)
  <2>1. n.StakeAmount <= StakeValue(n.Amount, n.LockEpochs)
    <3>1. k.StakeAmount <= StakeValue(k.Amount, k.LockEpochs)
      BY DEF Fit, Weighs
    <3>2. StakeValue(k.Amount, next) \in Nat
      BY <1>0, StakeValueRight
    <3> QED
      BY <1>5, <1>7, <3>1, <3>2
  <2> QED
    BY <1>11, <2>1 DEF Weighs
<1>13. Total(n) = Total(k)
  <2>1. \A a \in Account : AmountOf(ps, a) = AmountOf(k.Partners, a)
    BY <1>2, <1>3 DEF AmountOf
  <2>2. Amounts(ps) = Amounts(k.Partners)
    BY <1>6, <1>7, <2>1, AmountsCompare, RecordRight
  <2> QED
    BY <1>6, <1>7, <2>2, RecordRight
<1>14. Remains(k, n)
  BY <1>2, <1>3, <1>7 DEF Remains
<1>15. \A a \in Account : k.Partners[a] # None =>
          /\ n.Partners[a] # None
          /\ End(n.Partners[a]) = End(k.Partners[a]) \/ End(n.Partners[a]) >= epoch + 2
  BY <1>0, <1>2, <1>7 DEF End
<1>16. End(n) = End(k) \/ End(n) > epoch + 5
  BY <1>0, <1>9
<1> QED
  BY <1>6, <1>7, <1>8, <1>10, <1>12, <1>13, <1>14, <1>15, <1>16 DEF Fit

-----------------------------------------------------------------------------
(***************************************************************************)
(* What is refunded.                                                       *)
(***************************************************************************)

\* A book without the entries in A.
LEMMA AmountsWithout ==
    ASSUME NEW f, NEW g, IsBook(f), IsBook(g), NEW A \in SUBSET Account,
           \A a \in A : AmountOf(g, a) = 0, \A a \in Account \ A : AmountOf(g, a) = AmountOf(f, a)
    PROVE  /\ Amounts(f) = SumFunctionOnSet(Column(f), A) + Amounts(g)
           /\ SumFunctionOnSet(Column(f), A) \in Nat /\ Amounts(g) \in Nat
<1> DEFINE B == Account \ A
<1>1. IsFiniteSet(A) /\ IsFiniteSet(B) /\ A \cap B = {} /\ A \cup B = Account
      /\ B \in SUBSET Account /\ IsFiniteSet(Account)
  BY FS_Subset, StakingAssumption
<1>2. /\ \A a \in Account : Column(f)[a] \in Nat /\ Column(g)[a] \in Nat
      /\ \A a \in A : Column(g)[a] = 0
      /\ \A b \in B : Column(g)[b] = Column(f)[b]
  BY AmountsRight
<1>3. \A a \in Account \ B : Column(g)[a] = 0
  BY <1>2
<1> HIDE DEF B
<1>4. SumFunctionOnSet(Column(f), A \cup B)
        = SumFunctionOnSet(Column(f), A) + SumFunctionOnSet(Column(f), B)
  BY <1>1, <1>2, SumUnion
<1>5. SumFunctionOnSet(Column(g), Account) = SumFunctionOnSet(Column(g), B)
  BY <1>1, <1>2, <1>3, SumZeros
<1>6. SumFunctionOnSet(Column(g), B) = SumFunctionOnSet(Column(f), B)
  <2>1. \A b \in B : Column(g)[b] \in Int /\ Column(g)[b] = Column(f)[b]
    BY <1>1, <1>2
  <2> QED
    BY <1>1, <2>1, SumSame
<1>7. SumFunctionOnSet(Column(f), A) \in Nat
  BY <1>1, <1>2, SumType
<1> QED
  BY <1>1, <1>4, <1>5, <1>6, <1>7, AmountsRight

\* Refunds to clients A and partners B, and the owner's if O has it.
Paid(v, s, A, B, O) ==
    ClientRefunds(v, s, A) \cup PartnerRefunds(v, s, B)
    \cup O

\* Payments P of validator v that come to x.
ComeTo(P, v, x) ==
    /\ IsFiniteSet(P)
    /\ \A q \in P : q.of = v /\ q.amount \in Nat
    /\ SumRefunds(P) = x

\* The refunds of a record go to its owners, and come to the amounts it held.
LEMMA PaidShape ==
    ASSUME NEW v \in Validator, NEW s \in StakerInfo, NEW O, O = {} \/ O = {OwnRefund(v, s)},
           NEW A \in SUBSET Account, \A a \in A : s.Clients[a] # None,
           NEW B \in SUBSET Account, \A a \in B : s.Partners[a] # None
    PROVE  ComeTo(Paid(v, s, A, B, O), v,
                  SumFunctionOnSet(Column(s.Clients), A) + SumFunctionOnSet(Column(s.Partners), B)
                  + (IF O = {} THEN 0 ELSE s.Amount))
<1> DEFINE P == Paid(v, s, A, B, O)
           hc == [a \in A |-> [of |-> v, entry |-> <<"client", a>>, to |-> a, amount |-> s.Clients[a].Amount]]
           hp == [a \in B |-> [of |-> v, entry |-> <<"partner", a>>, to |-> a, amount |-> s.Partners[a].Amount]]
           C == ClientRefunds(v, s, A)
           D == PartnerRefunds(v, s, B)
           f == [q \in P |-> q.amount]
<1>1. IsFiniteSet(A) /\ IsFiniteSet(B)
  BY FS_Subset, StakingAssumption
<1>2. C = {hc[a] : a \in A} /\ D = {hp[a] : a \in B} /\ P = (C \cup D) \cup O
  BY DEF ClientRefunds, PartnerRefunds, Paid
<1>3. /\ \A a \in A : s.Clients[a].Amount \in Nat /\ Column(s.Clients)[a] = s.Clients[a].Amount
      /\ \A a \in B : s.Partners[a].Amount \in Nat /\ Column(s.Partners)[a] = s.Partners[a].Amount
      /\ s.Amount \in Nat
  <2>1. IsBook(s.Clients) /\ IsBook(s.Partners) /\ s.Amount \in Nat
    BY RecordRight, FieldTypes
  <2> QED
    BY <2>1 DEF IsBook, Column, AmountOf
<1>4. /\ \A a \in A : hc[a].amount = Column(s.Clients)[a] /\ hc[a].of = v /\ hc[a].entry = <<"client", a>>
      /\ \A a \in B : hp[a].amount = Column(s.Partners)[a] /\ hp[a].of = v /\ hp[a].entry = <<"partner", a>>
      /\ OwnRefund(v, s).amount = s.Amount /\ OwnRefund(v, s).of = v
      /\ OwnRefund(v, s).entry = <<"self", s.From>>
  BY <1>3 DEF OwnRefund
<1>5. /\ \A x, y \in A : hc[x] = hc[y] => x = y
      /\ \A x, y \in B : hp[x] = hp[y] => x = y
  BY <1>4
<1> HIDE DEF C, D, hc, hp
<1>6. IsFiniteSet(C) /\ IsFiniteSet(D) /\ IsFiniteSet(O)
  <2>1. hc \in Surjection(A, C)
    BY <1>2 DEF Surjection, hc
  <2>2. hp \in Surjection(B, D)
    BY <1>2 DEF Surjection, hp
  <2>3. IsFiniteSet(O)
    BY FS_EmptySet, FS_Singleton
  <2> QED
    BY <1>1, <2>1, <2>2, <2>3, FS_Surjection
<1>7. C \cap D = {} /\ (C \cup D) \cap O = {}
  <2>1. \A q \in C : \E a \in A : q.entry = <<"client", a>>
    BY <1>2, <1>4
  <2>2. \A q \in D : \E a \in B : q.entry = <<"partner", a>>
    BY <1>2, <1>4
  <2>3. \A q \in O : q.entry = <<"self", s.From>>
    BY <1>4
  <2>4. \A x, y : <<"client", x>> # <<"partner", y>> /\ <<"client", x>> # <<"self", y>> /\ <<"partner", x>> # <<"self", y>>
    OBVIOUS
  <2> QED
    BY <2>1, <2>2, <2>3, <2>4
<1>8. \A q \in P : q.of = v /\ q.amount \in Nat
  BY <1>2, <1>3, <1>4
<1>9. IsFiniteSet(P) /\ IsFiniteSet(C \cup D)
  <2> HIDE DEF P
  <2>1. IsFiniteSet(C \cup D)
    BY <1>6, FS_Union
  <2>2. IsFiniteSet((C \cup D) \cup O)
    BY <1>6, <2>1, FS_Union
  <2> QED
    BY <1>2, <2>1, <2>2
<1>10. SumRefunds(P) = SumFunctionOnSet(f, P)
  BY DEF SumRefunds, SumFunction
<1>11. \A q \in P : f[q] = q.amount /\ f[q] \in Int
  BY <1>8
<1> HIDE DEF f, P
<1>12. SumFunctionOnSet(f, P) = SumFunctionOnSet(f, C \cup D) + SumFunctionOnSet(f, O)
  <2> QED
    BY <1>2, <1>6, <1>7, <1>9, <1>11, SumUnion
<1>13. SumFunctionOnSet(f, C \cup D) = SumFunctionOnSet(f, C) + SumFunctionOnSet(f, D)
  BY <1>2, <1>6, <1>7, <1>11, SumUnion
<1>14. SumFunctionOnSet(f, C) = SumFunctionOnSet(Column(s.Clients), A)
  <2>1. \A a \in A : Column(s.Clients)[a] \in Int /\ Column(s.Clients)[a] = f[hc[a]]
    BY <1>2, <1>3, <1>4, <1>11
  <2> QED
    BY <1>1, <1>2, <1>5, <2>1, SumImage
<1>15. SumFunctionOnSet(f, D) = SumFunctionOnSet(Column(s.Partners), B)
  <2>1. \A a \in B : Column(s.Partners)[a] \in Int /\ Column(s.Partners)[a] = f[hp[a]]
    BY <1>2, <1>3, <1>4, <1>11
  <2> QED
    BY <1>1, <1>2, <1>5, <2>1, SumImage
<1>16. SumFunctionOnSet(f, O) = IF O = {} THEN 0 ELSE s.Amount
  <2>1. CASE O = {}
    BY <1>6, <2>1, SumUnfold
  <2>2. CASE O # {}
    <3> DEFINE o == OwnRefund(v, s)
    <3>1. O = {o} /\ o \in P /\ f[o] = s.Amount
      BY <1>2, <1>4, <1>11, <2>2
    <3> HIDE DEF o
    <3>2. SumFunctionOnSet(f, O) = f[o] + SumFunctionOnSet(f, O \ {o})
      BY <1>3, <1>6, <3>1, SumPick
    <3>3. O \ {o} = {} /\ SumFunctionOnSet(f, {}) = 0
      BY <1>6, <3>1, SumUnfold
    <3> QED
      BY <1>3, <2>2, <3>1, <3>2, <3>3
  <2> QED
    BY <2>1, <2>2
<1>17. SumFunctionOnSet(f, C) \in Int /\ SumFunctionOnSet(f, D) \in Int
  BY <1>2, <1>6, <1>11, SumType
<1> QED
  BY <1>8, <1>9, <1>10, <1>12, <1>13, <1>14, <1>15, <1>16, <1>17 DEF P, ComeTo

\* What one account gets of it.
LEMMA PaidTo ==
    ASSUME NEW v \in Validator, NEW s \in StakerInfo, NEW O, O = {} \/ O = {OwnRefund(v, s)}, NEW a \in Account,
           NEW A \in SUBSET Account, \A b \in A : s.Clients[b] # None,
           NEW B \in SUBSET Account, \A b \in B : s.Partners[b] # None
    PROVE  SumRefunds({q \in Paid(v, s, A, B, O) : q.to = a})
             = (IF a \in A THEN AmountOf(s.Clients, a) ELSE 0)
               + (IF a \in B THEN AmountOf(s.Partners, a) ELSE 0)
               + (IF O # {} /\ s.From = a THEN s.Amount ELSE 0)
<1> DEFINE P == Paid(v, s, A, B, O)
           Aa == A \cap {a}
           Ba == B \cap {a}
           Oa == IF s.From = a THEN O ELSE {}
<1>1. {q \in P : q.to = a} = Paid(v, s, Aa, Ba, Oa)
  <2>1. {q \in ClientRefunds(v, s, A) : q.to = a} = ClientRefunds(v, s, Aa)
    BY DEF ClientRefunds
  <2>2. {q \in PartnerRefunds(v, s, B) : q.to = a} = PartnerRefunds(v, s, Ba)
    BY DEF PartnerRefunds
  <2>3. {q \in O : q.to = a} = Oa
    BY DEF OwnRefund
  <2> HIDE DEF Aa, Ba, Oa
  <2> QED
    BY <2>1, <2>2, <2>3 DEF Paid
<1>2. /\ Oa = {} \/ Oa = {OwnRefund(v, s)}
      /\ Aa \in SUBSET Account /\ Ba \in SUBSET Account
      /\ \A b \in Aa : s.Clients[b] # None
      /\ \A b \in Ba : s.Partners[b] # None
  OBVIOUS
<1>3. SumRefunds(Paid(v, s, Aa, Ba, Oa))
        = SumFunctionOnSet(Column(s.Clients), Aa) + SumFunctionOnSet(Column(s.Partners), Ba)
          + (IF Oa = {} THEN 0 ELSE s.Amount)
  <2> HIDE DEF Aa, Ba, Oa
  <2>1. ComeTo(Paid(v, s, Aa, Ba, Oa), v,
               SumFunctionOnSet(Column(s.Clients), Aa) + SumFunctionOnSet(Column(s.Partners), Ba)
               + (IF Oa = {} THEN 0 ELSE s.Amount))
    BY <1>2, PaidShape
  <2> QED
    BY <2>1 DEF ComeTo
<1>4. ASSUME NEW f, IsBook(f), NEW X \in SUBSET Account
      PROVE  SumFunctionOnSet(Column(f), X \cap {a}) = IF a \in X THEN AmountOf(f, a) ELSE 0
  <2>1. Column(f)[a] \in Nat /\ Column(f)[a] = AmountOf(f, a)
    BY <1>4, AmountsRight
  <2>2. IsFiniteSet({a}) /\ SumFunctionOnSet(Column(f), {}) = 0
    BY FS_Singleton, SumUnfold, FS_EmptySet
  <2>3. SumFunctionOnSet(Column(f), {a}) = Column(f)[a] + SumFunctionOnSet(Column(f), {a} \ {a})
    BY <2>1, <2>2, SumPick
  <2>4. {a} \ {a} = {}
    OBVIOUS
  <2>5. CASE a \in X
    <3>1. X \cap {a} = {a}
      BY <2>5
    <3>2. SumFunctionOnSet(Column(f), {a}) = Column(f)[a] + 0
      BY <2>2, <2>3, <2>4
    <3>3. SumFunctionOnSet(Column(f), X \cap {a}) = SumFunctionOnSet(Column(f), {a})
      BY <3>1
    <3>4. Column(f)[a] + 0 = AmountOf(f, a)
      BY <2>1
    <3> QED
      BY <2>5, <3>2, <3>3, <3>4
  <2>6. CASE a \notin X
    <3>1. X \cap {a} = {}
      BY <2>6
    <3> QED
      BY <2>2, <2>6, <3>1
  <2> QED
    BY <2>5, <2>6
<1>5. IsBook(s.Clients) /\ IsBook(s.Partners)
  BY RecordRight
<1>7. Oa = {} <=> ~(O # {} /\ s.From = a)
  OBVIOUS
<1>6. /\ SumFunctionOnSet(Column(s.Clients), Aa) = IF a \in A THEN AmountOf(s.Clients, a) ELSE 0
      /\ SumFunctionOnSet(Column(s.Partners), Ba) = IF a \in B THEN AmountOf(s.Partners, a) ELSE 0
  BY <1>4, <1>5
<1> HIDE DEF Aa, Ba, Oa
<1> QED
  BY <1>1, <1>3, <1>6, <1>7

\* What is left in a record, or in the place of one that was removed.
Left(r) == IF r = None THEN 0 ELSE Total(r)
LeftOf(r, a) == IF r = None THEN 0 ELSE Holding(r, a)

\* R pays out what record s has more than r.
PaysOut(R, v, s, r) ==
    /\ IsFiniteSet(R) /\ \A q \in R : q.of = v /\ q.amount \in Nat
    /\ Left(s) = SumRefunds(R) + Left(r)
    /\ \A a \in Account : LeftOf(s, a) = SumRefunds({q \in R : q.to = a}) + LeftOf(r, a)

\* What an account holds in a record is a number.
LEMMA HoldingType ==
    ASSUME NEW s \in StakerInfo, NEW a \in Account
    PROVE  /\ AmountOf(s.Partners, a) \in Nat /\ AmountOf(s.Clients, a) \in Nat
           /\ s.Amount \in Nat /\ Holding(s, a) \in Nat
<1>1. AmountOf(s.Partners, a) \in Nat /\ AmountOf(s.Clients, a) \in Nat /\ s.Amount \in Nat
  BY RecordRight, AmountsRight, FieldTypes
<1> QED
  BY <1>1 DEF Holding

\* Everything is paid out.
LEMMA AllRefundsPay ==
    ASSUME NEW v \in Validator, NEW s \in StakerInfo
    PROVE  /\ AllRefunds(v, s) = Paid(v, s, Present(s.Clients), Present(s.Partners), {OwnRefund(v, s)})
           /\ PaysOut(AllRefunds(v, s), v, s, None)
<1> DEFINE A == Present(s.Clients)
           B == Present(s.Partners)
           O == {OwnRefund(v, s)}
           R == Paid(v, s, A, B, O)
<1>1. AllRefunds(v, s) = R
  BY DEF AllRefunds, Paid
<1>2. /\ A \in SUBSET Account /\ B \in SUBSET Account
      /\ \A a \in A : s.Clients[a] # None
      /\ \A a \in B : s.Partners[a] # None
      /\ O = {} \/ O = {OwnRefund(v, s)}
      /\ O # {}
  BY FieldTypes DEF Present
<1>3. /\ \A a \in Account : a \notin A => AmountOf(s.Clients, a) = 0
      /\ \A a \in Account : a \notin B => AmountOf(s.Partners, a) = 0
  BY FieldTypes DEF Present, AmountOf
<1> HIDE DEF A, B, O
<1>4. /\ IsFiniteSet(R)
      /\ \A q \in R : q.of = v /\ q.amount \in Nat
      /\ SumRefunds(R)
           = SumFunctionOnSet(Column(s.Clients), A) + SumFunctionOnSet(Column(s.Partners), B)
             + (IF O = {} THEN 0 ELSE s.Amount)
  <2>1. ComeTo(R, v,
               SumFunctionOnSet(Column(s.Clients), A) + SumFunctionOnSet(Column(s.Partners), B)
               + (IF O = {} THEN 0 ELSE s.Amount))
    BY <1>2, PaidShape
  <2> QED
    BY <2>1 DEF ComeTo
<1>5. SumRefunds(R) = SumFunctionOnSet(Column(s.Clients), A) + SumFunctionOnSet(Column(s.Partners), B) + s.Amount
  BY <1>2, <1>4
<1>6. /\ SumFunctionOnSet(Column(s.Clients), A) = Amounts(s.Clients)
      /\ SumFunctionOnSet(Column(s.Partners), B) = Amounts(s.Partners)
      /\ Amounts(s.Clients) \in Nat /\ Amounts(s.Partners) \in Nat
  <2>1. IsBook(s.Clients) /\ IsBook(s.Partners) /\ IsFiniteSet(Account)
    BY RecordRight, StakingAssumption
  <2>2. /\ \A a \in Account : Column(s.Clients)[a] \in Int /\ Column(s.Partners)[a] \in Int
        /\ \A a \in Account \ A : Column(s.Clients)[a] = 0
        /\ \A a \in Account \ B : Column(s.Partners)[a] = 0
    BY <1>3, <2>1, AmountsRight
  <2> QED
    BY <1>2, <2>1, <2>2, SumZeros, AmountsRight
<1>7. Left(s) = SumRefunds(R) + Left(None)
  <2>1. s # None /\ Total(s) = s.Amount + Amounts(s.Partners) + Amounts(s.Clients) /\ s.Amount \in Nat
    BY RecordRight, FieldTypes
  <2> QED
    BY <1>5, <1>6, <2>1 DEF Left
<1>8. ASSUME NEW a \in Account
      PROVE  LeftOf(s, a) = SumRefunds({q \in R : q.to = a}) + LeftOf(None, a)
  <2>1. SumRefunds({q \in R : q.to = a})
             = (IF a \in A THEN AmountOf(s.Clients, a) ELSE 0)
               + (IF a \in B THEN AmountOf(s.Partners, a) ELSE 0)
               + (IF O # {} /\ s.From = a THEN s.Amount ELSE 0)
    BY <1>2, PaidTo
  <2>2. s # None
    BY RecordRight
  <2> HIDE DEF R
  <2> QED
    BY <1>2, <1>3, <2>1, <2>2, HoldingType DEF LeftOf, Holding
<1> HIDE DEF R
<1>9. PaysOut(R, v, s, None)
  BY <1>4, <1>7, <1>8 DEF PaysOut
<1> QED
  BY <1>1, <1>9 DEF R, A, B, O

\* Those who are due are paid out.
LEMMA KeptPays ==
    ASSUME STypeOK, NEW v \in Validator, NEW t \in StakerInfo, Fit(t, epoch), t.StakingEpoch # 0
    PROVE  PaysOut(Paid(v, t, Due(t.Clients, QuitDue), Due(t.Partners, TermOver), {}),
                   v, t, Kept(t))
<1> DEFINE A == Due(t.Clients, QuitDue)
           B == Due(t.Partners, TermOver)
           O == {}
           R == Paid(v, t, A, B, O)
           k == Kept(t)
<1>1. /\ A \in SUBSET Account /\ B \in SUBSET Account
      /\ \A a \in A : t.Clients[a] # None
      /\ \A a \in B : t.Partners[a] # None
      /\ O = {} \/ O = {OwnRefund(v, t)}
      /\ O = {}
  BY FieldTypes DEF Due, Present
<1>2. /\ k \in StakerInfo /\ k.Amount = t.Amount /\ k.From = t.From
      /\ \A a \in A : k.Clients[a] = None
      /\ \A a \in B : k.Partners[a] = None
      /\ \A a \in Account \ A : k.Clients[a] = t.Clients[a]
      /\ \A a \in Account \ B : k.Partners[a] = t.Partners[a]
  BY KeptRight, FieldTypes DEF Remains, Due, Present
<1> HIDE DEF A, B, O, k
<1>3. /\ \A a \in A : AmountOf(k.Clients, a) = 0
      /\ \A a \in B : AmountOf(k.Partners, a) = 0
      /\ \A a \in Account \ A : AmountOf(k.Clients, a) = AmountOf(t.Clients, a)
      /\ \A a \in Account \ B : AmountOf(k.Partners, a) = AmountOf(t.Partners, a)
  BY <1>2 DEF AmountOf
<1>4. /\ IsFiniteSet(R)
      /\ \A q \in R : q.of = v /\ q.amount \in Nat
      /\ SumRefunds(R)
           = SumFunctionOnSet(Column(t.Clients), A) + SumFunctionOnSet(Column(t.Partners), B)
             + (IF O = {} THEN 0 ELSE t.Amount)
  <2>1. ComeTo(R, v,
               SumFunctionOnSet(Column(t.Clients), A) + SumFunctionOnSet(Column(t.Partners), B)
               + (IF O = {} THEN 0 ELSE t.Amount))
    BY <1>1, PaidShape
  <2> QED
    BY <2>1 DEF ComeTo
<1>5. SumRefunds(R) = SumFunctionOnSet(Column(t.Clients), A) + SumFunctionOnSet(Column(t.Partners), B) + 0
  BY <1>1, <1>4
<1>6. Left(t) = SumRefunds(R) + Left(k)
  <2>1. IsBook(t.Clients) /\ IsBook(k.Clients) /\ IsBook(t.Partners) /\ IsBook(k.Partners)
        /\ t # None /\ k # None /\ t.Amount \in Nat
    BY <1>2, RecordRight, FieldTypes
  <2>2. /\ Amounts(t.Clients) = SumFunctionOnSet(Column(t.Clients), A) + Amounts(k.Clients)
        /\ SumFunctionOnSet(Column(t.Clients), A) \in Nat /\ Amounts(k.Clients) \in Nat
    BY <1>1, <1>3, <2>1, AmountsWithout
  <2>3. /\ Amounts(t.Partners) = SumFunctionOnSet(Column(t.Partners), B) + Amounts(k.Partners)
        /\ SumFunctionOnSet(Column(t.Partners), B) \in Nat /\ Amounts(k.Partners) \in Nat
    BY <1>1, <1>3, <2>1, AmountsWithout
  <2>4. /\ Total(t) = t.Amount + Amounts(t.Partners) + Amounts(t.Clients)
        /\ Total(k) = t.Amount + Amounts(k.Partners) + Amounts(k.Clients)
    BY <1>2, RecordRight
  <2> HIDE DEF R
  <2> QED
    BY <1>5, <2>1, <2>2, <2>3, <2>4 DEF Left
<1>7. ASSUME NEW a \in Account
      PROVE  LeftOf(t, a) = SumRefunds({q \in R : q.to = a}) + LeftOf(k, a)
  <2>1. SumRefunds({q \in R : q.to = a})
             = (IF a \in A THEN AmountOf(t.Clients, a) ELSE 0)
               + (IF a \in B THEN AmountOf(t.Partners, a) ELSE 0)
               + (IF O # {} /\ t.From = a THEN t.Amount ELSE 0)
    BY <1>1, PaidTo
  <2>2. t # None /\ k # None
    BY <1>2, RecordRight
  <2> HIDE DEF R
  <2>3. /\ AmountOf(t.Partners, a) \in Nat /\ AmountOf(t.Clients, a) \in Nat /\ t.Amount \in Nat
        /\ AmountOf(k.Partners, a) \in Nat /\ AmountOf(k.Clients, a) \in Nat
    BY <1>2, HoldingType
  <2> QED
    BY <1>1, <1>2, <1>3, <2>1, <2>2, <2>3 DEF LeftOf, Holding
<1> HIDE DEF R
<1>8. PaysOut(R, v, t, k)
  BY <1>4, <1>6, <1>7 DEF PaysOut
<1> QED
  BY <1>8 DEF R, A, B, O, k

\* Nothing of s is overdue in epoch e.
OnTime(s, e) ==
    s.LockEpochs # 0 =>
        /\ End(s) > e
        /\ \A a \in Account : s.Partners[a] # None => End(s.Partners[a]) > e
        /\ \A a \in Account : s.Clients[a] # None =>
              s.Clients[a].QuitEpoch = 0 \/ s.Clients[a].QuitEpoch > e

\* What StakeOutRun makes of a fit record s: it is unchanged if it has no
\* end, removed if its term is over, and otherwise keeps who is not due.
StaysOrLeaves(s, r) ==
    /\ s.LockEpochs = 0 => r = s
    /\ r = None => s.LockEpochs # 0 /\ End(Started(s)) <= epoch
    /\ r # None => /\ r \in StakerInfo /\ Fit(r, epoch) /\ OnTime(r, epoch) /\ Remains(s, r)
                   /\ r.LockEpochs = 0 <=> s.LockEpochs = 0
    /\ r # None /\ s.LockEpochs # 0 =>
          /\ r.StakingEpoch # 0 /\ (End(r) = End(Started(s)) \/ End(r) > epoch + 5)
          /\ \A a \in Account : s.Clients[a] # None /\ ~QuitDue(s.Clients[a]) =>
                r.Clients[a] = s.Clients[a]
          /\ \A a \in Account : s.Partners[a] # None /\ End(Started(s).Partners[a]) > epoch =>
                /\ r.Partners[a] # None
                /\ \/ End(r.Partners[a]) = End(Started(s).Partners[a])
                   \/ End(r.Partners[a]) >= epoch + 2

\* StakeOutRun keeps a record in order, or removes it and refunds it whole.
LEMMA AfterRight ==
    ASSUME STypeOK, NEW s \in StakerInfo, Fit(s, epoch), NEW r, r = AfterStakeOut(s)
    PROVE  StaysOrLeaves(s, r)
<1>0. epoch \in Nat /\ s # None
  BY RecordRight, StakingAssumption DEF STypeOK
<1>1. CASE s.LockEpochs = 0
  <2>1. r = s
    BY <1>1 DEF AfterStakeOut
  <2>2. Remains(s, s) /\ OnTime(s, epoch)
    BY <1>1, FieldTypes, EntryTypes DEF Remains, OnTime
  <2> QED
    BY <1>0, <1>1, <2>1, <2>2 DEF StaysOrLeaves
<1>2. CASE s.LockEpochs # 0
  <2> DEFINE t == Started(s)
             k == Kept(t)
             n == Renewed(k)
  <2>1. /\ t \in StakerInfo /\ Fit(t, epoch) /\ t.StakingEpoch # 0 /\ Remains(s, t)
        /\ t.LockEpochs = s.LockEpochs /\ t.Clients = s.Clients
        /\ \A a \in Account : s.Partners[a] # None => t.Partners[a] # None
    BY <1>2, StartedRight
  <2>2. /\ k \in StakerInfo /\ Fit(k, epoch) /\ Remains(t, k)
        /\ k.StakingEpoch = t.StakingEpoch /\ k.LockEpochs = t.LockEpochs
        /\ \A a \in Account :
                 /\ k.Partners[a] = IF t.Partners[a] # None /\ TermOver(t.Partners[a])
                                    THEN None ELSE t.Partners[a]
                 /\ k.Clients[a] = IF t.Clients[a] # None /\ QuitDue(t.Clients[a])
                                   THEN None ELSE t.Clients[a]
    <3> HIDE DEF t
    <3> QED
      BY <2>1, KeptRight
  <2>3. r = IF TermOver(k) THEN None ELSE IF Renewing(k) THEN n ELSE k
    BY <1>2 DEF AfterStakeOut
  <2>4. t = Started(s)
    OBVIOUS
  <2> HIDE DEF t, k
  <2>5. End(k) = End(t) /\ End(k) \in Nat /\ (TermOver(k) <=> epoch >= End(k)) /\ k.LockEpochs # 0 /\ k.StakingEpoch # 0
    BY <1>2, <2>1, <2>2, FieldTypes DEF End, TermOver
  <2>6. \A a \in Account : /\ t.Partners[a] # None => End(t.Partners[a]) \in Nat
                           /\ k.Partners[a] # None => End(k.Partners[a]) \in Nat
                           /\ k.Clients[a] # None => k.Clients[a].QuitEpoch \in Nat
    BY <2>1, <2>2, FieldTypes, EntryTypes DEF End
  <2>7. \A a \in Account : /\ k.Partners[a] # None => End(k.Partners[a]) > epoch
                           /\ k.Clients[a] # None =>
                                k.Clients[a].QuitEpoch = 0 \/ k.Clients[a].QuitEpoch > epoch
    BY <1>0, <2>2, <2>6 DEF TermOver, QuitDue
  <2>8. CASE TermOver(k)
    BY <1>2, <2>3, <2>4, <2>5, <2>8 DEF StaysOrLeaves
  <2>9. ASSUME NEW a \in Account, s.Partners[a] # None, End(t.Partners[a]) > epoch
        PROVE  k.Partners[a] = t.Partners[a] /\ k.Partners[a] # None
    BY <1>0, <2>1, <2>2, <2>6, <2>9 DEF TermOver
  <2>10. ASSUME NEW a \in Account, s.Clients[a] # None, ~QuitDue(s.Clients[a])
         PROVE  k.Clients[a] = s.Clients[a]
    BY <2>1, <2>2, <2>10
  <2>11. Remains(s, k)
    BY <2>1, <2>2 DEF Remains
  <2>12. CASE ~TermOver(k) /\ ~Renewing(k)
    <3>1. r = k /\ k # None /\ OnTime(k, epoch)
      BY <1>0, <2>2, <2>3, <2>5, <2>7, <2>12, RecordRight DEF OnTime
    <3> QED
      BY <1>2, <2>2, <2>4, <2>5, <2>9, <2>10, <2>11, <3>1 DEF StaysOrLeaves
  <2>13. CASE ~TermOver(k) /\ Renewing(k)
    <3>1. /\ n \in StakerInfo /\ Fit(n, epoch) /\ Remains(k, n) /\ n.StakingEpoch # 0
          /\ n.LockEpochs # 0 /\ n.Clients = k.Clients
          /\ End(n) = End(k) \/ End(n) > epoch + 5
          /\ \A a \in Account : k.Partners[a] # None =>
                 /\ n.Partners[a] # None
                 /\ End(n.Partners[a]) = End(k.Partners[a]) \/ End(n.Partners[a]) >= epoch + 2
      BY <2>2, <2>5, <2>13, RenewedRight
    <3>2. r = n
      BY <2>3, <2>13
    <3> HIDE DEF n
    <3>3. n # None /\ End(n) \in Nat
      BY <3>1, RecordRight, FieldTypes DEF End
    <3>4. OnTime(n, epoch)
      <4>1. End(n) > epoch
        BY <1>0, <2>5, <2>13, <3>1, <3>3
      <4>2. \A a \in Account : n.Partners[a] # None => k.Partners[a] # None /\ End(n.Partners[a]) \in Nat
        BY <3>1, FieldTypes, EntryTypes DEF Remains, End
      <4>3. \A a \in Account : n.Partners[a] # None => End(n.Partners[a]) > epoch
        BY <1>0, <2>6, <2>7, <3>1, <4>2
      <4> QED
        BY <2>7, <3>1, <4>1, <4>3 DEF OnTime
    <3>5. Remains(s, n)
      BY <2>11, <3>1 DEF Remains
    <3> QED
      BY <1>2, <2>4, <2>5, <2>9, <2>10, <3>1, <3>2, <3>3, <3>4, <3>5 DEF StaysOrLeaves
  <2> QED
    BY <2>8, <2>12, <2>13
<1> QED
  BY <1>1, <1>2

\* What StakeOutRun pays for a record is what the record has more before.
LEMMA RefundsPay ==
    ASSUME STypeOK, NEW v \in Validator, NEW s \in StakerInfo, Fit(s, epoch)
    PROVE  PaysOut(Refunds(v, s), v, s, AfterStakeOut(s))
<1>1. CASE s.LockEpochs = 0
  <2>1. Refunds(v, s) = {} /\ AfterStakeOut(s) = s
    BY <1>1 DEF Refunds, AfterStakeOut
  <2>2. SumRefunds({}) = 0 /\ IsFiniteSet({})
    BY SumUnfold, FS_EmptySet DEF SumRefunds, SumFunction
  <2>3. \A a \in Account : {q \in {} : q.to = a} = {}
    OBVIOUS
  <2>4. s # None /\ Total(s) \in Nat /\ \A a \in Account : Holding(s, a) \in Nat
    BY RecordRight, HoldingType
  <2> QED
    BY <2>1, <2>2, <2>3, <2>4 DEF PaysOut, Left, LeftOf
<1>2. CASE s.LockEpochs # 0
  <2> DEFINE t == Started(s)
             k == Kept(t)
             A == Due(t.Clients, QuitDue)
             B == Due(t.Partners, TermOver)
  <2>1. /\ t \in StakerInfo /\ Fit(t, epoch) /\ t.StakingEpoch # 0 /\ Remains(s, t)
        /\ t.LockEpochs = s.LockEpochs /\ t.Clients = s.Clients
        /\ \A a \in Account : s.Partners[a] # None => t.Partners[a] # None
        /\ Total(t) = Total(s)
    BY <1>2, StartedRight
  <2>2. /\ k \in StakerInfo /\ Fit(k, epoch) /\ Remains(t, k)
        /\ k.StakingEpoch = t.StakingEpoch /\ k.LockEpochs = t.LockEpochs
        /\ \A a \in Account :
                 /\ k.Partners[a] = IF t.Partners[a] # None /\ TermOver(t.Partners[a])
                                    THEN None ELSE t.Partners[a]
                 /\ k.Clients[a] = IF t.Clients[a] # None /\ QuitDue(t.Clients[a])
                                   THEN None ELSE t.Clients[a]
    <3> HIDE DEF t
    <3> QED
      BY <2>1, KeptRight
  <2>3. Left(s) = Left(t) /\ \A a \in Account : LeftOf(s, a) = LeftOf(t, a)
    <3>1. s # None /\ t # None
      BY <2>1, RecordRight
    <3> HIDE DEF t
    <3>2. \A a \in Account : AmountOf(s.Partners, a) = AmountOf(t.Partners, a)
      BY <2>1 DEF Remains, AmountOf
    <3> QED
      BY <2>1, <3>1, <3>2 DEF Left, LeftOf, Holding, Remains
  <2>4. TermOver(t) <=> TermOver(k)
    <3> HIDE DEF t, k
    <3> QED
      BY <2>2 DEF TermOver, End
  <2>5. Refunds(v, s) = ClientRefunds(v, t, A) \cup PartnerRefunds(v, t, B)
                        \cup (IF TermOver(t) THEN AllRefunds(v, k) ELSE {})
    BY <1>2 DEF Refunds
  <2>6. AfterStakeOut(s) = IF TermOver(k) THEN None ELSE IF Renewing(k) THEN Renewed(k) ELSE k
    BY <1>2 DEF AfterStakeOut
  <2> HIDE DEF t, k
  <2>7. CASE TermOver(t)
    <3> DEFINE O == {OwnRefund(v, t)}
    <3>1. Refunds(v, s) = AllRefunds(v, t)
      <4>1. A \cup Present(k.Clients) = Present(t.Clients)
        BY <2>1, <2>2, FieldTypes DEF Due, Present
      <4>2. B \cup Present(k.Partners) = Present(t.Partners)
        BY <2>1, <2>2, FieldTypes DEF Due, Present
      <4>3. ClientRefunds(v, k, Present(k.Clients)) = ClientRefunds(v, t, Present(k.Clients))
        <5>1. \A a \in Present(k.Clients) : k.Clients[a] = t.Clients[a]
          BY <2>2, FieldTypes DEF Present
        <5> QED
          BY <5>1 DEF ClientRefunds
      <4>4. PartnerRefunds(v, k, Present(k.Partners)) = PartnerRefunds(v, t, Present(k.Partners))
        <5>1. \A a \in Present(k.Partners) : k.Partners[a] = t.Partners[a]
          BY <2>2, FieldTypes DEF Present
        <5> QED
          BY <5>1 DEF PartnerRefunds
      <4>5. OwnRefund(v, k) = OwnRefund(v, t)
        BY <2>2 DEF OwnRefund, Remains
      <4>6. ClientRefunds(v, t, A) \cup ClientRefunds(v, t, Present(k.Clients))
              = ClientRefunds(v, t, A \cup Present(k.Clients))
        BY DEF ClientRefunds
      <4>7. PartnerRefunds(v, t, B) \cup PartnerRefunds(v, t, Present(k.Partners))
              = PartnerRefunds(v, t, B \cup Present(k.Partners))
        BY DEF PartnerRefunds
      <4> HIDE DEF A, B
      <4>8. AllRefunds(v, k) = {OwnRefund(v, t)} \cup ClientRefunds(v, t, Present(k.Clients))
                               \cup PartnerRefunds(v, t, Present(k.Partners))
        BY <4>3, <4>4, <4>5 DEF AllRefunds
      <4>9. AllRefunds(v, t) = {OwnRefund(v, t)} \cup ClientRefunds(v, t, A \cup Present(k.Clients))
                               \cup PartnerRefunds(v, t, B \cup Present(k.Partners))
        BY <4>1, <4>2 DEF AllRefunds
      <4>10. Refunds(v, s) = ClientRefunds(v, t, A) \cup PartnerRefunds(v, t, B) \cup AllRefunds(v, k)
        BY <2>5, <2>7
      <4> QED
        BY <4>6, <4>7, <4>8, <4>9, <4>10
    <3>2. AfterStakeOut(s) = None
      BY <2>4, <2>6, <2>7
    <3>3. PaysOut(AllRefunds(v, t), v, t, None)
      BY <2>1, AllRefundsPay
    <3> QED
      BY <2>3, <3>1, <3>2, <3>3 DEF PaysOut
  <2>8. CASE ~TermOver(t)
    <3>1. Refunds(v, s) = Paid(v, t, A, B, {})
      BY <2>5, <2>8 DEF Paid
    <3>2. PaysOut(Paid(v, t, A, B, {}), v, t, k)
      BY <2>1, KeptPays DEF k
    <3>3. /\ Left(AfterStakeOut(s)) = Left(k)
          /\ \A a \in Account : LeftOf(AfterStakeOut(s), a) = LeftOf(k, a)
      <4>1. CASE ~Renewing(k)
        BY <2>4, <2>6, <2>8, <4>1
      <4>2. CASE Renewing(k)
        <5> DEFINE n == Renewed(k)
        <5>1. AfterStakeOut(s) = n
          BY <2>4, <2>6, <2>8, <4>2
        <5>2. /\ n \in StakerInfo /\ Remains(k, n) /\ n.Clients = k.Clients /\ Total(n) = Total(k)
              /\ \A a \in Account : k.Partners[a] # None => n.Partners[a] # None
          BY <1>2, <2>1, <2>2, <4>2, RenewedRight
        <5> HIDE DEF n
        <5>3. n # None /\ k # None
          BY <2>2, <5>2, RecordRight
        <5>4. \A a \in Account : AmountOf(n.Partners, a) = AmountOf(k.Partners, a)
          BY <5>2 DEF Remains, AmountOf
        <5> QED
          BY <5>1, <5>2, <5>3, <5>4 DEF Left, LeftOf, Holding, Remains
      <4> QED
        BY <4>1, <4>2
    <3> QED
      BY <2>3, <3>1, <3>2, <3>3 DEF PaysOut
  <2> QED
    BY <2>7, <2>8
<1> QED
  BY <1>1, <1>2

-----------------------------------------------------------------------------
(***************************************************************************)
(* Payments of all validators together.                                    *)
(***************************************************************************)

\* The refunds of a set are a sum over any larger set.
LEMMA SumRefundsRight ==
    ASSUME NEW P, IsFiniteSet(P), \A q \in P : q.amount \in Nat, NEW T \in SUBSET P
    PROVE  /\ SumRefunds(T) = SumFunctionOnSet([q \in P |-> q.amount], T)
           /\ SumRefunds(T) \in Nat /\ IsFiniteSet(T)
<1> DEFINE f == [q \in P |-> q.amount]
           g == [q \in T |-> q.amount]
<1>1. IsFiniteSet(T)
  BY FS_Subset
<1>2. SumRefunds(T) = SumFunctionOnSet(g, T)
  BY DEF SumRefunds, SumFunction
<1>3. \A q \in T : g[q] \in Nat /\ g[q] = f[q]
  OBVIOUS
<1> HIDE DEF f, g
<1>4. SumFunctionOnSet(g, T) = SumFunctionOnSet(f, T)
  BY <1>1, <1>3, SumSame
<1>5. SumFunctionOnSet(g, T) \in Nat
  BY <1>1, <1>3, SumType
<1> QED
  BY <1>1, <1>2, <1>4, <1>5 DEF f

\* pay[v] is what is paid of validator v.
LEMMA PaymentsSum ==
    ASSUME NEW pay, \A v \in Validator : /\ IsFiniteSet(pay[v])
                                         /\ \A q \in pay[v] : q.of = v /\ q.amount \in Nat,
           NEW P, P = UNION {pay[v] : v \in Validator}
    PROVE  /\ IsFiniteSet(P)
           /\ \A q \in P : q.amount \in Nat
           /\ SumRefunds(P) = SumFunctionOnSet([v \in Validator |-> SumRefunds(pay[v])], Validator)
<1> DEFINE f == [q \in P |-> q.amount]
           key == [q \in P |-> q.of]
           a == [v \in Validator |-> SumFunctionOnSet(f, {q \in P : key[q] = v})]
           b == [v \in Validator |-> SumRefunds(pay[v])]
<1>1. IsFiniteSet({pay[v] : v \in Validator})
  <2> DEFINE h == [v \in Validator |-> pay[v]]
             S == {pay[v] : v \in Validator}
  <2>1. h \in Surjection(Validator, S)
    BY DEF Surjection
  <2> QED
    BY <2>1, FS_Surjection, StakingAssumption
<1>2. IsFiniteSet(P) /\ \A q \in P : q.amount \in Nat /\ q.of \in Validator
  <2>1. \A T \in {pay[v] : v \in Validator} : IsFiniteSet(T)
    OBVIOUS
  <2>2. IsFiniteSet(P)
    BY <1>1, <2>1, FS_UNION
  <2> QED
    BY <2>2
<1>3. \A v \in Validator : {q \in P : key[q] = v} = pay[v]
  OBVIOUS
<1>4. \A q \in P : key[q] \in Validator /\ f[q] \in Int
  BY <1>2
<1>5. \A v \in Validator : pay[v] \in SUBSET P
  OBVIOUS
<1>6. SumRefunds(P) = SumFunctionOnSet(f, P)
  BY DEF SumRefunds, SumFunction
<1>7. \A T \in SUBSET P : SumRefunds(T) = SumFunctionOnSet(f, T) /\ SumRefunds(T) \in Nat
  BY <1>2, SumRefundsRight
<1> HIDE DEF f, key
<1>8. SumFunctionOnSet(f, P) = SumFunctionOnSet(a, Validator)
  <2>1. IsFiniteSet(Validator)
    BY StakingAssumption
  <2> QED
    BY <1>2, <1>4, <2>1, SumByKey
<1>9. ASSUME NEW v \in Validator PROVE a[v] = b[v] /\ a[v] \in Int
  <2>1. a[v] = SumFunctionOnSet(f, {q \in P : key[q] = v})
    OBVIOUS
  <2>2. a[v] = SumFunctionOnSet(f, pay[v])
    BY <1>3, <2>1, Zenon
  <2>3. SumRefunds(pay[v]) = SumFunctionOnSet(f, pay[v]) /\ SumRefunds(pay[v]) \in Nat
    BY <1>5, <1>7
  <2>4. b[v] = SumRefunds(pay[v])
    OBVIOUS
  <2> HIDE DEF a, b
  <2> QED
    BY <2>2, <2>3, <2>4
<1> HIDE DEF a, b
<1>10. SumFunctionOnSet(a, Validator) = SumFunctionOnSet(b, Validator)
  BY <1>9, SumSame, StakingAssumption
<1> QED
  BY <1>2, <1>6, <1>8, <1>10 DEF b

\* Payments the contract can make are all made.
LEMMA AllPaid ==
    ASSUME STypeOK, NEW P, IsFiniteSet(P), \A q \in P : q.amount \in Nat, SumRefunds(P) <= balance,
           Pay(P)
    PROVE  /\ balance' = balance - SumRefunds(P)
           /\ wallet' = [a \in Account |-> wallet[a] + SumRefunds({q \in P : q.to = a})]
<1>1. PICK made \in SUBSET P :
        /\ SumRefunds(made) <= balance
        /\ \A q \in P \ made : q.amount > balance - SumRefunds(made)
        /\ balance' = balance - SumRefunds(made)
        /\ wallet' = [a \in Account |-> wallet[a] + SumRefunds({q \in made : q.to = a})]
  BY DEF Pay
<1>2. ASSUME NEW q \in P \ made PROVE FALSE
  <2> DEFINE f == [x \in P |-> x.amount]
             more == made \cup {q}
  <2>1. /\ SumRefunds(made) = SumFunctionOnSet(f, made) /\ SumRefunds(made) \in Nat
        /\ SumRefunds(P) = SumFunctionOnSet(f, P) /\ SumRefunds(P) \in Nat /\ IsFiniteSet(made)
    BY SumRefundsRight
  <2>2. f[q] = q.amount /\ \A x \in P : f[x] \in Nat
    BY <1>2
  <2> HIDE DEF f
  <2>3. SumFunctionOnSet(f, more) = SumFunctionOnSet(f, made) + f[q]
    BY <1>2, <2>1, <2>2, SumAdd
  <2>4. more \in SUBSET P
    BY <1>2
  <2> HIDE DEF more
  <2>5. SumFunctionOnSet(f, more) <= SumFunctionOnSet(f, P)
    BY <2>2, <2>4, SumFewer
  <2>6. q.amount > balance - SumRefunds(made) /\ balance \in Nat /\ q.amount \in Nat
    BY <1>1, <1>2 DEF STypeOK
  <2> QED
    BY <2>1, <2>2, <2>3, <2>5, <2>6
<1>3. made = P
  BY <1>2
<1> QED
  BY <1>1, <1>3

\* Without knowing what the contract owns: what is paid it had.
LEMMA PayTypes ==
    ASSUME STypeOK, NEW P, IsFiniteSet(P), \A q \in P : q.amount \in Nat, Pay(P)
    PROVE  balance' \in Nat /\ wallet' \in [Account -> Nat]
<1>1. PICK made \in SUBSET P :
        /\ SumRefunds(made) <= balance
        /\ balance' = balance - SumRefunds(made)
        /\ wallet' = [a \in Account |-> wallet[a] + SumRefunds({q \in made : q.to = a})]
  BY DEF Pay
<1>2. SumRefunds(made) \in Nat
  BY SumRefundsRight
<1>3. \A a \in Account : SumRefunds({q \in made : q.to = a}) \in Nat
  BY SumRefundsRight
<1> QED
  BY <1>1, <1>2, <1>3 DEF STypeOK

-----------------------------------------------------------------------------
(***************************************************************************)
(* What is owed.                                                           *)
(***************************************************************************)

Owed(st) == [v \in Validator |-> Left(st[v])]
OwedTo(st, a) == [v \in Validator |-> LeftOf(st[v], a)]

\* What the records owe is a number.
LEMMA OwedRight ==
    ASSUME NEW st \in [Validator -> StakerInfo \cup {None}], NEW a \in Account
    PROVE  /\ \A v \in Validator : Owed(st)[v] \in Nat /\ OwedTo(st, a)[v] \in Nat
           /\ SumFunctionOnSet(Owed(st), Validator) \in Nat
           /\ SumFunctionOnSet(OwedTo(st, a), Validator) \in Nat
<1>1. \A v \in Validator : Left(st[v]) \in Nat /\ LeftOf(st[v], a) \in Nat
  BY RecordRight, HoldingType DEF Left, LeftOf
<1>2. \A v \in Validator : Owed(st)[v] \in Nat /\ OwedTo(st, a)[v] \in Nat
  BY <1>1 DEF Owed, OwedTo
<1> QED
  BY <1>2, SumType, StakingAssumption

\* The sums of the properties, over all validators.
LEMMA OwedIsTotal ==
    ASSUME NEW st \in [Validator -> StakerInfo \cup {None}]
    PROVE  SumFunction([v \in Present(st) |-> Total(st[v])]) = SumFunctionOnSet(Owed(st), Validator)
<1> DEFINE P == Present(st)
           f == [v \in P |-> Total(st[v])]
<1>1. P \in SUBSET Validator /\ IsFiniteSet(P) /\ IsFiniteSet(Validator)
  BY FS_Subset, StakingAssumption DEF Present
<1>2. \A v \in P : f[v] \in Int /\ f[v] = Owed(st)[v]
  BY RecordRight DEF Present, Owed, Left
<1>3. /\ \A v \in Validator : Owed(st)[v] \in Int
      /\ \A v \in Validator \ P : Owed(st)[v] = 0
  <2>1. \A v \in Validator : Left(st[v]) \in Nat
    BY RecordRight DEF Left
  <2> QED
    BY <2>1 DEF Present, Owed, Left
<1>4. SumFunction(f) = SumFunctionOnSet(f, P)
  BY DEF SumFunction
<1> HIDE DEF f, P
<1>5. SumFunctionOnSet(f, P) = SumFunctionOnSet(Owed(st), P)
  BY <1>1, <1>2, SumSame
<1>6. SumFunctionOnSet(Owed(st), Validator) = SumFunctionOnSet(Owed(st), P)
  BY <1>1, <1>3, SumZeros
<1> QED
  BY <1>4, <1>5, <1>6 DEF f, P

\* What the records owe an account is what the account has staked in them.
LEMMA OwedIsStaked ==
    ASSUME NEW st \in [Validator -> StakerInfo \cup {None}], NEW a \in Account
    PROVE  SumFunction([v \in Present(st) |->
               (IF st[v].From = a THEN st[v].Amount ELSE 0)
               + AmountOf(st[v].Partners, a) + AmountOf(st[v].Clients, a)])
             = SumFunctionOnSet(OwedTo(st, a), Validator)
<1> DEFINE P == Present(st)
           f == [v \in P |-> (IF st[v].From = a THEN st[v].Amount ELSE 0)
                             + AmountOf(st[v].Partners, a) + AmountOf(st[v].Clients, a)]
<1>1. P \in SUBSET Validator /\ IsFiniteSet(P) /\ IsFiniteSet(Validator)
  BY FS_Subset, StakingAssumption DEF Present
<1>2. \A v \in P : st[v] \in StakerInfo /\ st[v] # None
  BY DEF Present
<1>3. \A v \in P : f[v] = Holding(st[v], a)
  BY DEF Holding
<1>4. \A v \in P : OwedTo(st, a)[v] = Holding(st[v], a) /\ Holding(st[v], a) \in Int
  BY <1>1, <1>2, HoldingType DEF OwedTo, LeftOf
<1>5. /\ \A v \in Validator : OwedTo(st, a)[v] \in Int
      /\ \A v \in Validator \ P : OwedTo(st, a)[v] = 0
  <2>1. \A v \in Validator \ P : OwedTo(st, a)[v] = 0
    BY DEF OwedTo, LeftOf, Present
  <2> QED
    BY <2>1, OwedRight
<1>6. SumFunction(f) = SumFunctionOnSet(f, P)
  BY DEF SumFunction
<1> HIDE DEF f, P
<1>7. SumFunctionOnSet(f, P) = SumFunctionOnSet(OwedTo(st, a), P)
  BY <1>1, <1>3, <1>4, SumSame
<1>8. SumFunctionOnSet(OwedTo(st, a), Validator) = SumFunctionOnSet(OwedTo(st, a), P)
  BY <1>1, <1>5, SumZeros
<1> QED
  BY <1>6, <1>7, <1>8 DEF f, P

\* P pays out what the records st have more than su.
PaysAll(P, st, su) ==
    /\ IsFiniteSet(P) /\ \A q \in P : q.amount \in Nat
    /\ SumFunctionOnSet(Owed(st), Validator) = SumRefunds(P) + SumFunctionOnSet(Owed(su), Validator)
    /\ \A a \in Account :
          SumFunctionOnSet(OwedTo(st, a), Validator)
            = SumRefunds({q \in P : q.to = a}) + SumFunctionOnSet(OwedTo(su, a), Validator)

\* If every validator's payments are what its record has more in st than in
\* su, all payments together are what the records have more.
LEMMA PaymentsAreOwed ==
    ASSUME NEW st \in [Validator -> StakerInfo \cup {None}],
           NEW su \in [Validator -> StakerInfo \cup {None}],
           NEW pay, \A v \in Validator : PaysOut(pay[v], v, st[v], su[v]),
           NEW P, P = UNION {pay[v] : v \in Validator}
    PROVE  PaysAll(P, st, su)
<1> DEFINE b == [v \in Validator |-> SumRefunds(pay[v])]
<1>1. \A v \in Validator : /\ IsFiniteSet(pay[v])
                           /\ \A q \in pay[v] : q.of = v /\ q.amount \in Nat
  BY DEF PaysOut
<1>2. /\ IsFiniteSet(P)
      /\ \A q \in P : q.amount \in Nat
      /\ SumRefunds(P) = SumFunctionOnSet(b, Validator)
  BY <1>1, PaymentsSum, SMTT(40)
<1>3. \A v \in Validator : Owed(st)[v] \in Int /\ Owed(su)[v] \in Int
  <2>1. \A v \in Validator : Left(st[v]) \in Nat /\ Left(su[v]) \in Nat
    BY RecordRight DEF Left
  <2> QED
    BY <2>1 DEF Owed
<1>4. \A v \in Validator : b[v] \in Int /\ Owed(st)[v] = b[v] + Owed(su)[v]
  <2>1. \A v \in Validator : SumRefunds(pay[v]) \in Nat
    BY <1>1, SumRefundsRight
  <2>2. \A v \in Validator : Left(st[v]) = SumRefunds(pay[v]) + Left(su[v])
    BY DEF PaysOut
  <2> QED
    BY <2>1, <2>2 DEF Owed
<1> HIDE DEF b
<1>5. SumFunctionOnSet(Owed(st), Validator) = SumFunctionOnSet(b, Validator) + SumFunctionOnSet(Owed(su), Validator)
  BY <1>3, <1>4, SumPlus, StakingAssumption
<1>6. ASSUME NEW a \in Account
      PROVE  SumFunctionOnSet(OwedTo(st, a), Validator)
               = SumRefunds({q \in P : q.to = a}) + SumFunctionOnSet(OwedTo(su, a), Validator)
  <2> DEFINE pa == [v \in Validator |-> {q \in pay[v] : q.to = a}]
             Pa == UNION {pa[v] : v \in Validator}
             c == [v \in Validator |-> SumRefunds(pa[v])]
  <2>1. Pa = {q \in P : q.to = a}
    OBVIOUS
  <2>2. \A v \in Validator : /\ IsFiniteSet(pa[v])
                             /\ \A q \in pa[v] : q.of = v /\ q.amount \in Nat
    BY <1>1, FS_Subset
  <2>3. \A v \in Validator : LeftOf(st[v], a) = SumRefunds(pa[v]) + LeftOf(su[v], a)
    BY DEF PaysOut
  <2> HIDE DEF pa
  <2>4. SumRefunds(Pa) = SumFunctionOnSet(c, Validator)
    BY <2>2, PaymentsSum
  <2>5. \A v \in Validator : c[v] \in Int /\ OwedTo(su, a)[v] \in Int
    <3>1. ASSUME NEW v \in Validator PROVE c[v] \in Int
      <4> DEFINE T == pa[v]
      <4>1. IsFiniteSet(T) /\ \A q \in T : q.amount \in Nat
        BY <2>2
      <4>2. c[v] = SumRefunds(T)
        OBVIOUS
      <4> HIDE DEF T, c
      <4>3. SumRefunds(T) \in Nat
        BY <4>1, SumRefundsRight
      <4> QED
        BY <4>2, <4>3
    <3>2. \A v \in Validator : OwedTo(su, a)[v] \in Nat
      BY OwedRight
    <3> QED
      BY <3>1, <3>2
  <2>6. \A v \in Validator : OwedTo(st, a)[v] = c[v] + OwedTo(su, a)[v]
    BY <2>3 DEF OwedTo
  <2> HIDE DEF c
  <2>7. SumFunctionOnSet(OwedTo(st, a), Validator)
          = SumFunctionOnSet(c, Validator) + SumFunctionOnSet(OwedTo(su, a), Validator)
    BY <2>5, <2>6, SumPlus, StakingAssumption
  <2> QED
    BY <2>1, <2>4, <2>7
<1> QED
  BY <1>2, <1>5, <1>6 DEF PaysAll

-----------------------------------------------------------------------------
(***************************************************************************)
(* The inductive invariant.                                                *)
(***************************************************************************)

\* The stakes c of record s that were counted for epoch e - 2 + k stay in the
\* contract until their owners have done their work: who has asked to leave
\* does so later.  A partner's stake is held one epoch less.
Bonded(s, c, e, k) ==
    /\ s # None /\ c.self \in Nat /\ s.Amount >= c.self
    /\ s.LockEpochs = 0 \/ End(Started(s)) > e - 1 + k
    /\ \A a \in DOMAIN c.clients :
          /\ a \in Account /\ c.clients[a] \in Nat
          /\ s.Clients[a] # None /\ s.Clients[a].Amount >= c.clients[a]
          /\ s.Clients[a].QuitEpoch = 0 \/ s.Clients[a].QuitEpoch > e - 1 + k
    /\ k # 1 => \A a \in DOMAIN c.partners :
          /\ a \in Account /\ c.partners[a].Amount \in Nat
          /\ s.Partners[a] # None /\ s.Partners[a].Amount >= c.partners[a].Amount
          /\ s.LockEpochs = 0 \/ End(Started(s).Partners[a]) > e - 2 + k

Bonds ==
    BeforeCleaning =>
        \A v \in Validator, k \in 1 .. 3 :
            chosen[k][v] # None => Bonded(stakers[v], chosen[k][v], epoch, k)

\* A validator asks for at most what it announced, and no fee record, that
\* of a validator which was removed included, allows more.
FeeFits(v) ==
    /\ stakers[v] # None => stakers[v].FeeRate <= announced[v]
    /\ fees[v] # None => fees[v].MaxFeeRate <= announced[v]

FeesFit ==
    /\ announced \in [Validator -> Nat]
    /\ \A v \in Validator : FeeFits(v)

\* After the refunds of an epoch nothing is overdue, and they are not done
\* ahead of time.
InTime ==
    /\ outEpoch <= epoch
    /\ outEpoch = epoch =>
          \A v \in Validator : stakers[v] # None => OnTime(stakers[v], epoch)

\* The books balance, written over all validators.
Balanced ==
    /\ balance = SumFunctionOnSet(Owed(stakers), Validator) + SumFunctionOnSet(spilled, Account)
    /\ \A a \in Account :
          wallet[a] + SumFunctionOnSet(OwedTo(stakers, a), Validator) + spilled[a] = Initially(a)

\* The inductive invariant.
SIInv ==
    /\ STypeOK
    /\ \A v \in Validator : Valid(v)
    /\ Bonds
    /\ FeesFit
    /\ InTime
    /\ Balanced
    /\ WeightEarned

-----------------------------------------------------------------------------
(***************************************************************************)
(* Bonds.                                                                  *)
(***************************************************************************)

\* When terms end, those of the proof-of-work phase included.
LEMMA EndsRight ==
    ASSUME NEW s \in StakerInfo
    PROVE  /\ End(Started(s)) = (IF s.StakingEpoch = 0 THEN FirstEpochId + 2 ELSE s.StakingEpoch) + s.LockEpochs
           /\ End(Started(s)) \in Nat
           /\ \A a \in Account : s.Partners[a] # None =>
                 /\ End(Started(s).Partners[a])
                      = (IF s.StakingEpoch = 0 THEN FirstEpochId + 2 ELSE s.Partners[a].StakingEpoch)
                        + s.Partners[a].LockEpochs
                 /\ End(Started(s).Partners[a]) \in Nat
<1>0. s.StakingEpoch \in Nat /\ s.LockEpochs \in Nat /\ FirstEpochId + 2 \in Nat
  BY FieldTypes, StakingAssumption
<1>1. CASE s.StakingEpoch # 0
  <2>1. Started(s) = s
    BY <1>1 DEF Started
  <2>2. \A a \in Account : s.Partners[a] # None =>
           s.Partners[a].StakingEpoch \in Nat /\ s.Partners[a].LockEpochs \in Nat
    BY FieldTypes, EntryTypes
  <2> QED
    BY <1>0, <1>1, <2>1, <2>2 DEF End
<1>2. CASE s.StakingEpoch = 0
  <2> DEFINE began == FirstEpochId + 2
             ps == [a \in Account |-> IF s.Partners[a] = None THEN None
                                      ELSE [s.Partners[a] EXCEPT !.StakingEpoch = began]]
             t == [s EXCEPT !.StakingEpoch = began, !.Partners = ps]
  <2>1. Started(s) = t
    BY <1>2 DEF Started
  <2>2. ASSUME NEW a \in Account, s.Partners[a] # None
        PROVE  /\ ps[a].LockEpochs = s.Partners[a].LockEpochs /\ ps[a].StakingEpoch = began
               /\ s.Partners[a].LockEpochs \in Nat
    <3>1. s.Partners[a] \in PartnerInfo
      BY <2>2, FieldTypes
    <3>2. ps[a] = [s.Partners[a] EXCEPT !.StakingEpoch = began]
      BY <2>2
    <3> QED
      BY <3>1, <3>2, EntryTypes DEF PartnerInfo
  <2> HIDE DEF ps
  <2>3. t.StakingEpoch = began /\ t.LockEpochs = s.LockEpochs /\ t.Partners = ps
    BY DEF StakerInfo
  <2> HIDE DEF t
  <2>4. \A a \in Account : s.Partners[a] # None => ps[a].LockEpochs = s.Partners[a].LockEpochs /\ ps[a].StakingEpoch = began
               /\ s.Partners[a].LockEpochs \in Nat
    BY <2>2
  <2> QED
    BY <1>0, <1>2, <2>1, <2>3, <2>4 DEF End
<1> QED
  BY <1>1, <1>2

\* A call keeps every bond.
LEMMA BondedGrows ==
    ASSUME NEW s \in StakerInfo, NEW r \in StakerInfo, NEW e \in Nat, NEW k \in 1 .. 3, NEW c,
           Grows(s, r, e), Bonded(s, c, e, k)
    PROVE  Bonded(r, c, e, k)
<1>1. r # None /\ r.Amount >= c.self /\ c.self \in Nat
  BY RecordRight, FieldTypes DEF Grows, Bonded
<1>2. s.LockEpochs = 0 <=> r.LockEpochs = 0
  BY DEF Grows
<1>3. End(Started(r)) = End(Started(s))
  BY EndsRight DEF Grows
<1>4. ASSUME NEW a \in DOMAIN c.clients
      PROVE  /\ a \in Account /\ c.clients[a] \in Nat
             /\ r.Clients[a] # None /\ r.Clients[a].Amount >= c.clients[a]
             /\ r.Clients[a].QuitEpoch = 0 \/ r.Clients[a].QuitEpoch > e - 1 + k
  <2>1. /\ a \in Account /\ c.clients[a] \in Nat
        /\ s.Clients[a] # None /\ s.Clients[a].Amount >= c.clients[a]
        /\ s.Clients[a].QuitEpoch = 0 \/ s.Clients[a].QuitEpoch > e - 1 + k
    BY <1>4 DEF Bonded
  <2>2. /\ r.Clients[a] # None /\ r.Clients[a].Amount >= s.Clients[a].Amount
        /\ r.Clients[a].QuitEpoch \in {s.Clients[a].QuitEpoch, e + 3}
    BY <2>1 DEF Grows, QuitDelay
  <2>3. s.Clients[a].Amount \in Nat /\ r.Clients[a].Amount \in Nat
    BY <2>1, <2>2, FieldTypes, EntryTypes
  <2> QED
    BY <2>1, <2>2, <2>3
<1>5. ASSUME k # 1, NEW a \in DOMAIN c.partners
      PROVE  /\ a \in Account /\ c.partners[a].Amount \in Nat
             /\ r.Partners[a] # None /\ r.Partners[a].Amount >= c.partners[a].Amount
             /\ r.LockEpochs = 0 \/ End(Started(r).Partners[a]) > e - 2 + k
  <2>1. /\ a \in Account /\ c.partners[a].Amount \in Nat
        /\ s.Partners[a] # None /\ s.Partners[a].Amount >= c.partners[a].Amount
        /\ s.LockEpochs = 0 \/ End(Started(s).Partners[a]) > e - 2 + k
    BY <1>5 DEF Bonded
  <2>2. /\ r.Partners[a] # None /\ r.Partners[a].Amount >= s.Partners[a].Amount
        /\ r.Partners[a].LockEpochs = s.Partners[a].LockEpochs
        /\ r.Partners[a].StakingEpoch = s.Partners[a].StakingEpoch
        /\ r.StakingEpoch = s.StakingEpoch
    BY <2>1 DEF Grows
  <2>3. s.Partners[a].Amount \in Nat /\ r.Partners[a].Amount \in Nat
    BY <2>1, <2>2, FieldTypes, EntryTypes
  <2>4. End(Started(r).Partners[a]) = End(Started(s).Partners[a])
    BY <2>1, <2>2, EndsRight
  <2> QED
    BY <1>2, <2>1, <2>2, <2>3, <2>4
<1>6. s.LockEpochs = 0 \/ End(Started(s)) > e - 1 + k
  BY DEF Bonded
<1> QED
  BY <1>1, <1>2, <1>3, <1>4, <1>5, <1>6 DEF Bonded

\* The refunds of an epoch keep every bond.
LEMMA BondedStays ==
    ASSUME STypeOK, NEW s \in StakerInfo, NEW r, StaysOrLeaves(s, r), NEW k \in 1 .. 3, NEW c,
           Bonded(s, c, epoch, k)
    PROVE  Bonded(r, c, epoch, k)
<1>0. epoch \in Nat /\ End(Started(s)) \in Nat
  BY EndsRight, StakingAssumption DEF STypeOK
<1>1. CASE s.LockEpochs = 0
  <2>1. r = s
    BY <1>1 DEF StaysOrLeaves
  <2> QED
    BY <2>1
<1>2. CASE s.LockEpochs # 0
  <2>1. End(Started(s)) > epoch - 1 + k
    BY <1>2 DEF Bonded
  <2>2. r # None
    BY <1>0, <2>1 DEF StaysOrLeaves
  <2>3. /\ r \in StakerInfo /\ Remains(s, r) /\ r.LockEpochs # 0
        /\ r.StakingEpoch # 0 /\ (End(r) = End(Started(s)) \/ End(r) > epoch + 5)
    BY <1>2, <2>2 DEF StaysOrLeaves
  <2>4. Started(r) = r
    BY <2>3 DEF Started
  <2>5. r.Amount >= c.self /\ c.self \in Nat /\ End(Started(r)) > epoch - 1 + k
    <3>1. End(r) \in Nat
      BY <2>3, <2>4, EndsRight
    <3> QED
      BY <1>0, <2>1, <2>3, <2>4, <3>1 DEF Bonded, Remains
  <2>6. ASSUME NEW a \in DOMAIN c.clients
        PROVE  /\ a \in Account /\ c.clients[a] \in Nat
               /\ r.Clients[a] # None /\ r.Clients[a].Amount >= c.clients[a]
               /\ r.Clients[a].QuitEpoch = 0 \/ r.Clients[a].QuitEpoch > epoch - 1 + k
    <3>1. /\ a \in Account /\ c.clients[a] \in Nat
          /\ s.Clients[a] # None /\ s.Clients[a].Amount >= c.clients[a]
          /\ s.Clients[a].QuitEpoch = 0 \/ s.Clients[a].QuitEpoch > epoch - 1 + k
      BY <2>6 DEF Bonded
    <3>2. s.Clients[a].QuitEpoch \in Nat
      BY <3>1, FieldTypes, EntryTypes
    <3>3. ~QuitDue(s.Clients[a])
      BY <1>0, <3>1, <3>2 DEF QuitDue
    <3>4. r.Clients[a] = s.Clients[a]
      BY <1>2, <2>2, <3>1, <3>3 DEF StaysOrLeaves
    <3> QED
      BY <3>1, <3>4
  <2>7. ASSUME k # 1, NEW a \in DOMAIN c.partners
        PROVE  /\ a \in Account /\ c.partners[a].Amount \in Nat
               /\ r.Partners[a] # None /\ r.Partners[a].Amount >= c.partners[a].Amount
               /\ r.LockEpochs = 0 \/ End(Started(r).Partners[a]) > epoch - 2 + k
    <3>1. /\ a \in Account /\ c.partners[a].Amount \in Nat
          /\ s.Partners[a] # None /\ s.Partners[a].Amount >= c.partners[a].Amount
          /\ End(Started(s).Partners[a]) > epoch - 2 + k
      BY <1>2, <2>7 DEF Bonded
    <3>2. End(Started(s).Partners[a]) \in Nat
      BY <3>1, EndsRight
    <3>3. End(Started(s).Partners[a]) > epoch
      BY <1>0, <2>7, <3>1, <3>2
    <3>4. /\ r.Partners[a] # None
          /\ \/ End(r.Partners[a]) = End(Started(s).Partners[a])
             \/ End(r.Partners[a]) >= epoch + 2
      BY <1>2, <2>2, <3>1, <3>3 DEF StaysOrLeaves
    <3>5. r.Partners[a].Amount = s.Partners[a].Amount
      BY <2>3, <3>1, <3>4 DEF Remains
    <3>6. End(r.Partners[a]) \in Nat
      BY <2>3, <2>4, <3>1, <3>4, EndsRight
    <3>7. End(r.Partners[a]) > epoch - 2 + k
      BY <1>0, <3>1, <3>2, <3>4, <3>6
    <3> QED
      BY <2>4, <3>1, <3>4, <3>5, <3>7
  <2> QED
    BY <2>2, <2>5, <2>6, <2>7 DEF Bonded
<1> QED
  BY <1>1, <1>2

\* An epoch later the bond is one epoch shorter.
LEMMA BondedNext ==
    ASSUME NEW s, NEW e \in Nat, NEW k \in 1 .. 2, NEW c, Bonded(s, c, e, k + 1)
    PROVE  Bonded(s, c, e + 1, k)
<1>1. e + 1 - 1 + k = e - 1 + (k + 1) /\ e + 1 - 2 + k = e - 2 + (k + 1) /\ k + 1 # 1
  OBVIOUS
<1> QED
  BY <1>1 DEF Bonded

\* What is counted weighs no more than its term gives.
Earned(c) ==
    /\ c.weight <= StakeValue(c.self, c.lock)
    /\ \A a \in DOMAIN c.partners :
          c.partners[a].StakeAmount
              <= StakeValue(c.partners[a].Amount, c.partners[a].LockEpochs)

\* What is counted at the end of an epoch is bound from then on.
LEMMA BondedNew ==
    ASSUME STypeOK, NEW s0 \in StakerInfo, Fit(s0, epoch), NEW c,
           c = CalEpochProbabilityStaker(s0, epoch + 2), c # None
    PROVE  Bonded(s0, c, epoch + 1, 3) /\ Earned(c)
<1> DEFINE s == IF s0.LockEpochs = 0 THEN s0 ELSE Started(s0)
           B == PartnersIn(s, epoch + 2)
           A == ClientsIn(s, epoch + 2)
<1>0. epoch \in Nat
  BY StakingAssumption DEF STypeOK
<1>1. /\ s \in StakerInfo /\ Fit(s, epoch) /\ s.Amount = s0.Amount /\ s.LockEpochs = s0.LockEpochs
      /\ s.Clients = s0.Clients
      /\ \A a \in Account : s.Partners[a] # None =>
            s0.Partners[a] # None /\ s.Partners[a].Amount = s0.Partners[a].Amount
      /\ s.LockEpochs # 0 => s.StakingEpoch # 0 /\ s = Started(s0)
      /\ s.LockEpochs = 0 => s.StakingEpoch = 0
  <2>1. CASE s0.LockEpochs = 0
    BY <2>1 DEF Fit, Terms
  <2>2. CASE s0.LockEpochs # 0
    <3>1. s = Started(s0)
      BY <2>2
    <3> QED
      BY <2>2, <3>1, StartedRight DEF Remains
  <2> QED
    BY <2>1, <2>2
<1>2. /\ c = [self |-> s.Amount, weight |-> s.StakeAmount, lock |-> s.LockEpochs,
              partners |-> [a \in B |-> s.Partners[a]],
              clients |-> [a \in A |-> s.Clients[a].Amount]]
      /\ s.LockEpochs # 0 => CountsIn(s, epoch + 2)
  BY DEF CalEpochProbabilityStaker
<1>3. /\ c.self = s.Amount /\ c.weight = s.StakeAmount /\ c.lock = s.LockEpochs
      /\ DOMAIN c.partners = B /\ DOMAIN c.clients = A
      /\ \A a \in B : c.partners[a] = s.Partners[a]
      /\ \A a \in A : c.clients[a] = s.Clients[a].Amount
  BY <1>2
<1>4. \A a \in B : /\ a \in Account /\ s.Partners[a] # None /\ s.Partners[a] \in PartnerInfo
                   /\ CountsIn(s.Partners[a], epoch + 2)
  BY <1>1, FieldTypes DEF PartnersIn, Present
<1>5. \A a \in A : /\ a \in Account /\ s.Clients[a] # None /\ s.Clients[a] \in ClientInfo
                   /\ s.Clients[a].QuitEpoch = 0 \/ epoch + 2 < s.Clients[a].QuitEpoch - 1
  BY <1>1, FieldTypes DEF ClientsIn, Present
<1> HIDE DEF s, A, B
<1>6. s0 # None /\ s0.Amount >= c.self /\ c.self \in Nat
  BY <1>1, <1>3, RecordRight, FieldTypes
<1>7. s0.LockEpochs = 0 \/ End(Started(s0)) > epoch + 1 - 1 + 3
  <2>1. End(Started(s0)) \in Nat
    BY EndsRight
  <2> QED
    BY <1>0, <1>1, <1>2, <2>1 DEF CountsIn
<1>8. ASSUME NEW a \in A
      PROVE  /\ a \in Account /\ c.clients[a] \in Nat
             /\ s0.Clients[a] # None /\ s0.Clients[a].Amount >= c.clients[a]
             /\ s0.Clients[a].QuitEpoch = 0 \/ s0.Clients[a].QuitEpoch > epoch + 1 - 1 + 3
  <2>1. s.Clients[a].QuitEpoch \in Nat /\ s.Clients[a].Amount \in Nat
    BY <1>5, <1>8, EntryTypes
  <2> QED
    BY <1>0, <1>1, <1>3, <1>5, <1>8, <2>1
<1>9. ASSUME NEW a \in B
      PROVE  /\ a \in Account /\ c.partners[a].Amount \in Nat
             /\ s0.Partners[a] # None /\ s0.Partners[a].Amount >= c.partners[a].Amount
             /\ s0.LockEpochs = 0 \/ End(Started(s0).Partners[a]) > epoch + 1 - 2 + 3
             /\ End(s.Partners[a]) > epoch + 3
  <2>1. s.Partners[a].Amount \in Nat /\ s.Partners[a].LockEpochs \in Nat /\ s.Partners[a].StakingEpoch \in Nat
    BY <1>4, <1>9, EntryTypes
  <2>2. End(s.Partners[a]) \in Nat /\ End(s.Partners[a]) > epoch + 3
    BY <1>0, <1>4, <1>9, <2>1 DEF End, CountsIn
  <2>3. s0.LockEpochs = 0 \/ End(Started(s0).Partners[a]) > epoch + 1 - 2 + 3
    BY <1>0, <1>1, <2>2
  <2> QED
    BY <1>1, <1>3, <1>4, <1>9, <2>1, <2>2, <2>3
<1>10. Bonded(s0, c, epoch + 1, 3)
  <2>1. \A a \in DOMAIN c.clients :
          /\ a \in Account /\ c.clients[a] \in Nat
          /\ s0.Clients[a] # None /\ s0.Clients[a].Amount >= c.clients[a]
          /\ s0.Clients[a].QuitEpoch = 0 \/ s0.Clients[a].QuitEpoch > epoch + 1 - 1 + 3
    <3>1. DOMAIN c.clients = A
      BY <1>3
    <3> QED
      BY <1>8, <3>1, Zenon
  <2>2. \A a \in DOMAIN c.partners :
          /\ a \in Account /\ c.partners[a].Amount \in Nat
          /\ s0.Partners[a] # None /\ s0.Partners[a].Amount >= c.partners[a].Amount
          /\ s0.LockEpochs = 0 \/ End(Started(s0).Partners[a]) > epoch + 1 - 2 + 3
    <3>1. DOMAIN c.partners = B
      BY <1>3
    <3> QED
      BY <1>9, <3>1, Zenon
  <2> QED
    BY <1>0, <1>6, <1>7, <2>1, <2>2 DEF Bonded
<1>11. Earned(c)
  <2>1. c.weight <= StakeValue(c.self, c.lock)
    BY <1>1, <1>3 DEF Fit, Weighs
  <2>2. ASSUME NEW a \in B
        PROVE  s.Partners[a].StakeAmount <= StakeValue(s.Partners[a].Amount, s.Partners[a].LockEpochs)
    <3>1. PartnerWeighs(s, s.Partners[a], epoch)
      BY <1>1, <1>4, <2>2 DEF Fit, Weighs
    <3>2. End(s.Partners[a]) \in Nat
      BY <1>4, <2>2, EntryTypes DEF End
    <3>3. ~(End(s.Partners[a]) <= epoch + 3)
      BY <1>0, <1>9, <2>2, <3>2
    <3> QED
      BY <3>1, <3>3 DEF PartnerWeighs
  <2> QED
    BY <1>3, <2>1, <2>2 DEF Earned
<1> QED
  BY <1>10, <1>11

\* A fit record stays fit in the next epoch.
LEMMA FitNext ==
    ASSUME NEW s \in StakerInfo, NEW e \in Nat, Fit(s, e)
    PROVE  Fit(s, e + 1)
<1>1. s.StakingEpoch \in Nat /\ e + JoinDelay \in Nat /\ e + 1 + JoinDelay = e + JoinDelay + 1
  BY FieldTypes DEF JoinDelay
<1>2. \A a \in Account : s.Partners[a] # None => s.Partners[a].StakingEpoch \in Nat /\ End(s.Partners[a]) \in Nat
  BY FieldTypes, EntryTypes DEF End
<1>3. Terms(s, e + 1)
  BY <1>1, <1>2 DEF Fit, Terms
<1>4. \A a \in Account : s.Partners[a] # None => PartnerWeighs(s, s.Partners[a], e + 1)
  BY <1>2 DEF Fit, Weighs, PartnerWeighs
<1> QED
  BY <1>3, <1>4 DEF Fit, Weighs

\* Nothing becomes overdue by a call.
LEMMA OnTimeGrows ==
    ASSUME NEW s \in StakerInfo, NEW r \in StakerInfo, NEW e \in Nat, Grows(s, r, e), OnTime(s, e)
    PROVE  OnTime(r, e)
<1>1. CASE r.LockEpochs = 0
  BY <1>1 DEF OnTime
<1>2. CASE r.LockEpochs # 0
  <2>1. s.LockEpochs # 0 /\ End(r) = End(s) /\ End(r) > e
    BY <1>2 DEF Grows, OnTime, End
  <2>2. ASSUME NEW a \in Account, r.Partners[a] # None PROVE End(r.Partners[a]) > e
    <3>1. r.Partners[a].StakingEpoch \in Nat /\ r.Partners[a].LockEpochs \in Nat
      BY <2>2, FieldTypes, EntryTypes
    <3>2. CASE s.Partners[a] = None
      BY <2>2, <3>1, <3>2 DEF Grows, End, JoinDelay
    <3>3. CASE s.Partners[a] # None
      BY <2>1, <2>2, <3>3 DEF Grows, End, OnTime
    <3> QED
      BY <3>2, <3>3
  <2>3. ASSUME NEW a \in Account, r.Clients[a] # None
        PROVE  r.Clients[a].QuitEpoch = 0 \/ r.Clients[a].QuitEpoch > e
    <3>1. CASE s.Clients[a] = None
      BY <2>3, <3>1 DEF Grows
    <3>2. CASE s.Clients[a] # None
      BY <2>1, <2>3, <3>2 DEF Grows, OnTime, QuitDelay
    <3> QED
      BY <3>1, <3>2
  <2> QED
    BY <2>1, <2>2, <2>3 DEF OnTime
<1> QED
  BY <1>1, <1>2

\* A new record is in time.
LEMMA OnTimeFresh ==
    ASSUME NEW r \in StakerInfo, NEW e \in Nat, NEW a, NEW x, Fresh(r, a, x, e)
    PROVE  OnTime(r, e)
<1>1. r.LockEpochs \in Nat
  BY FieldTypes
<1> QED
  BY <1>1 DEF Fresh, OnTime, End, JoinDelay

-----------------------------------------------------------------------------
(***************************************************************************)
(* Calls keep the invariant.                                               *)
(***************************************************************************)

\* The calls that leave the fee rate alone.
LEMMA RateKept ==
    ASSUME STypeOK, NEW a \in Account, NEW v \in Validator, NEW value,
           \/ \E lock : StakeUpdate(a, v, value, lock)
           \/ StakeAppend(a, v, value)
           \/ \E renewal : PartnerIn(a, v, value, renewal)
           \/ DelegateIn(a, v, value)
           \/ DelegateOut(a, v, value)
    PROVE  /\ stakers[v] # None /\ stakers'[v].FeeRate = stakers[v].FeeRate
           /\ UNCHANGED <<fees, announced>>
<1>0. stakers[v] # None /\ UNCHANGED <<fees, announced>>
  BY DEF StakeUpdate, StakeAppend, PartnerIn, DelegateIn, DelegateOut
<1>1. stakers[v] \in StakerInfo /\ v \in DOMAIN stakers
  BY <1>0, TypeOfRecord DEF STypeOK
<1>2. CASE \E lock : StakeUpdate(a, v, value, lock)
  <2>1. PICK lock : stakers' = [stakers EXCEPT ![v].NextLockEpochs = lock]
    BY <1>2 DEF StakeUpdate
  <2> QED
    BY <1>0, <1>1, <2>1 DEF StakerInfo
<1>3. CASE StakeAppend(a, v, value)
  <2>1. PICK n, w : stakers' = [stakers EXCEPT ![v].Amount = n, ![v].StakeAmount = w]
    <3> DEFINE n == stakers[v].Amount + value
               w == IF epoch < VenusEpochId
                    THEN StakeValue(stakers[v].Amount + value, realLockEpoch(stakers[v]))
                    ELSE stakers[v].StakeAmount + StakeValue(value, realLockEpoch(stakers[v]))
    <3>1. stakers' = [stakers EXCEPT ![v].Amount = n, ![v].StakeAmount = w]
      BY <1>1, <1>3 DEF StakeAppend, StakerInfo
    <3> QED
      BY <3>1
  <2> QED
    BY <1>0, <1>1, <2>1 DEF StakerInfo
<1>4. CASE \E renewal : PartnerIn(a, v, value, renewal)
  <2>1. PICK p : stakers' = [stakers EXCEPT ![v].Partners[a] = p]
    BY <1>4 DEF PartnerIn
  <2> QED
    BY <1>0, <1>1, <2>1 DEF StakerInfo
<1>5. CASE DelegateIn(a, v, value)
  <2>1. PICK c : stakers' = [stakers EXCEPT ![v].Clients[a] = c]
    BY <1>5 DEF DelegateIn
  <2> QED
    BY <1>0, <1>1, <2>1 DEF StakerInfo
<1>6. CASE DelegateOut(a, v, value)
  <2>1. PICK q : stakers' = [stakers EXCEPT ![v].Clients[a].QuitEpoch = q]
    BY <1>6 DEF DelegateOut
  <2> QED
    BY <1>0, <1>1, <2>1 DEF StakerInfo
<1> QED
  BY <1>2, <1>3, <1>4, <1>5, <1>6

\* What a call does to the fee rates of validator v.
FeesDo(v) ==
    /\ fees' \in [Validator -> FeeInfo \cup {None}] /\ announced' \in [Validator -> Nat]
    /\ \A u \in Validator \ {v} : fees'[u] = fees[u] /\ announced'[u] = announced[u]
    /\ stakers'[v].FeeRate <= announced'[v]
    /\ fees'[v] # None => fees'[v].MaxFeeRate <= announced'[v]

\* A call changes its own validator's fees only, and announces the rate it sets.
LEMMA CallFees ==
    ASSUME STypeOK, FeesFit, NEW a \in Account, NEW v \in Validator, Call(a, v)
    PROVE  FeesDo(v)
<1>0. Value \subseteq Nat /\ Lock \subseteq Nat /\ Rate \subseteq Nat /\ PSMaxFeeRate \in Nat
  BY StakingAssumption
<1>1. /\ fees \in [Validator -> FeeInfo \cup {None}] /\ announced \in [Validator -> Nat]
      /\ stakers \in [Validator -> StakerInfo \cup {None}] /\ epoch \in Nat
  BY StakingAssumption DEF STypeOK, FeesFit
<1>2. ASSUME NEW value \in Nat, NEW lock \in Nat, NEW fee \in Nat, StakeIn(a, v, value, lock, fee)
      PROVE  FeesDo(v)
  <2>1. /\ stakers[v] = None /\ stakers'[v].FeeRate = fee
        /\ announced' = [announced EXCEPT ![v] = IF announced[v] > fee THEN announced[v] ELSE fee]
        /\ fees' = fees
    BY <1>1, <1>2 DEF StakeIn, doStakeIn
  <2>2. fees[v] # None => fees[v] \in FeeInfo /\ fees[v].MaxFeeRate <= announced[v]
    BY <1>1 DEF FeesFit, FeeFits
  <2>3. fees[v] # None => fees[v].MaxFeeRate \in Nat
    BY <1>0, <2>2 DEF FeeInfo
  <2>4. announced[v] \in Nat /\ announced'[v] \in Nat /\ fee <= announced'[v] /\ announced[v] <= announced'[v]
    BY <1>1, <2>1
  <2>5. announced' \in [Validator -> Nat]
    BY <1>1, <2>1
  <2> QED
    BY <1>1, <2>1, <2>2, <2>3, <2>4, <2>5 DEF FeesDo
<1>3. ASSUME NEW value \in Nat, NEW lock \in Nat, NEW fee \in Nat, NEW max \in Nat,
             StakeRegister(a, v, value, lock, fee, max)
      PROVE  FeesDo(v)
  <2> DEFINE f == [MaxFeeRate |-> max, FeeRate |-> fee, ChangedEpoch |-> 0]
  <2>1. /\ stakers'[v].FeeRate = fee /\ fee <= max /\ max <= PSMaxFeeRate
        /\ announced' = [announced EXCEPT ![v] = max] /\ fees' = [fees EXCEPT ![v] = f]
    BY <1>1, <1>3 DEF StakeRegister, doStakeIn, stakeRegisterParseAndValid
  <2>2. f \in FeeInfo /\ f.MaxFeeRate = max
    BY <1>0, <2>1 DEF FeeInfo
  <2> HIDE DEF f
  <2> QED
    BY <1>1, <2>1, <2>2 DEF FeesDo
<1>4. ASSUME NEW value,
             \/ \E lock : StakeUpdate(a, v, value, lock)
             \/ StakeAppend(a, v, value)
             \/ \E renewal : PartnerIn(a, v, value, renewal)
             \/ DelegateIn(a, v, value)
             \/ DelegateOut(a, v, value)
      PROVE  FeesDo(v)
  <2>1. /\ stakers[v] # None /\ stakers'[v].FeeRate = stakers[v].FeeRate
        /\ fees' = fees /\ announced' = announced
    BY <1>4, RateKept
  <2> QED
    BY <1>1, <2>1 DEF FeesDo, FeesFit, FeeFits
<1>5. ASSUME NEW value, NEW fee \in Nat, StakeUpdateFeeRate(a, v, value, fee)
      PROVE  FeesDo(v)
  <2> DEFINE f == [MaxFeeRate |-> MaxFeeRate(v), FeeRate |-> fee, ChangedEpoch |-> epoch]
  <2>1. /\ stakers[v] # None /\ fee <= PSMaxFeeRate /\ fee <= MaxFeeRate(v)
        /\ stakers' = [stakers EXCEPT ![v].FeeRate = fee]
        /\ announced' = announced /\ fees' = [fees EXCEPT ![v] = f]
    BY <1>5 DEF StakeUpdateFeeRate
  <2>2. stakers[v] \in StakerInfo /\ stakers[v].FeeRate \in 0 .. PSMaxFeeRate
    BY <2>1, TypeOfRecord, FieldTypes
  <2>3. stakers'[v].FeeRate = fee
    BY <1>1, <2>1, <2>2 DEF StakerInfo
  <2>4. MaxFeeRate(v) \in 0 .. PSMaxFeeRate
    BY <1>1, <2>2 DEF MaxFeeRate, FeeInfo
  <2>5. MaxFeeRate(v) <= announced[v]
    BY <2>1 DEF FeesFit, FeeFits, MaxFeeRate
  <2>6. f \in FeeInfo /\ f.MaxFeeRate = MaxFeeRate(v)
    BY <1>0, <1>1, <2>1, <2>4 DEF FeeInfo
  <2> HIDE DEF f
  <2>7. announced[v] \in Nat /\ MaxFeeRate(v) \in Int
    BY <1>0, <1>1, <2>4
  <2>8. fees'[v] = f
    BY <1>1, <2>1
  <2>9. fees' \in [Validator -> FeeInfo \cup {None}] /\ \A u \in Validator \ {v} : fees'[u] = fees[u]
    BY <1>1, <2>1, <2>6
  <2>10. stakers'[v].FeeRate <= announced'[v]
    BY <2>1, <2>3, <2>5, <2>7
  <2> QED
    BY <1>1, <2>1, <2>5, <2>6, <2>8, <2>9, <2>10 DEF FeesDo
<1> QED
  BY <1>0, <1>2, <1>3, <1>4, <1>5 DEF Call

\* Account a gets x more in the record of validator v, and nothing else changes.
LEMMA OwedChange ==
    ASSUME NEW st \in [Validator -> StakerInfo \cup {None}],
           NEW su \in [Validator -> StakerInfo \cup {None}],
           NEW v \in Validator, \A u \in Validator \ {v} : su[u] = st[u],
           NEW a \in Account, NEW x \in Nat, Left(su[v]) = Left(st[v]) + x,
           \A b \in Account : LeftOf(su[v], b) = LeftOf(st[v], b) + (IF b = a THEN x ELSE 0)
    PROVE  /\ SumFunctionOnSet(Owed(su), Validator) = SumFunctionOnSet(Owed(st), Validator) + x
           /\ \A b \in Account : SumFunctionOnSet(OwedTo(su, b), Validator)
                 = SumFunctionOnSet(OwedTo(st, b), Validator) + (IF b = a THEN x ELSE 0)
<1>1. \A u \in Validator : Owed(st)[u] \in Nat /\ Owed(su)[u] \in Nat
  BY OwedRight
<1>2. \A u \in Validator \ {v} : Owed(st)[u] = Owed(su)[u]
  BY DEF Owed
<1>3. Owed(su)[v] = Owed(st)[v] + x
  BY DEF Owed
<1>4. SumFunctionOnSet(Owed(su), Validator)
        = SumFunctionOnSet(Owed(st), Validator) + (Owed(su)[v] - Owed(st)[v])
  BY <1>1, <1>2, SumChange, StakingAssumption
<1>5. SumFunctionOnSet(Owed(st), Validator) \in Nat
  BY OwedRight
<1>6. SumFunctionOnSet(Owed(su), Validator) = SumFunctionOnSet(Owed(st), Validator) + x
  BY <1>1, <1>3, <1>4, <1>5
<1>7. ASSUME NEW b \in Account
      PROVE  SumFunctionOnSet(OwedTo(su, b), Validator)
                 = SumFunctionOnSet(OwedTo(st, b), Validator) + (IF b = a THEN x ELSE 0)
  <2> DEFINE y == IF b = a THEN x ELSE 0
  <2>1. \A u \in Validator : OwedTo(st, b)[u] \in Nat /\ OwedTo(su, b)[u] \in Nat
    BY OwedRight
  <2>2. \A u \in Validator \ {v} : OwedTo(st, b)[u] = OwedTo(su, b)[u]
    BY DEF OwedTo
  <2>3. OwedTo(su, b)[v] = OwedTo(st, b)[v] + y /\ y \in Nat
    BY DEF OwedTo
  <2> HIDE DEF y
  <2>4. SumFunctionOnSet(OwedTo(su, b), Validator)
          = SumFunctionOnSet(OwedTo(st, b), Validator) + (OwedTo(su, b)[v] - OwedTo(st, b)[v])
    BY <2>1, <2>2, SumChange, StakingAssumption
  <2>5. SumFunctionOnSet(OwedTo(st, b), Validator) \in Nat
    BY OwedRight
  <2>6. SumFunctionOnSet(OwedTo(su, b), Validator) = SumFunctionOnSet(OwedTo(st, b), Validator) + y
    BY <2>1, <2>3, <2>4, <2>5
  <2> QED
    BY <2>6 DEF y
<1> QED
  BY <1>6, <1>7

\* Every call keeps the invariant.
LEMMA CallKeeps ==
    ASSUME SIInv, NEW a \in Account, NEW v \in Validator, Call(a, v)
    PROVE  SIInv'
<1>0. /\ STypeOK /\ FeesFit /\ InTime /\ Bonds /\ Balanced /\ WeightEarned
      /\ \A u \in Validator : Valid(u)
  BY DEF SIInv
<1>1. PICK r \in StakerInfo, value \in Nat, x \in Nat : CallDoes(a, v, value, x, r)
  BY <1>0, CallEffect
<1>2. FeesDo(v)
  BY <1>0, CallFees
<1>3. /\ epoch \in Nat /\ stakers \in [Validator -> StakerInfo \cup {None}] /\ balance \in Nat
      /\ wallet \in [Account -> Nat] /\ spilled \in [Account -> Nat]
  BY <1>0, StakingAssumption DEF STypeOK
<1>4. /\ stakers'[v] = r /\ r # None /\ \A u \in Validator \ {v} : stakers'[u] = stakers[u]
      /\ stakers' \in [Validator -> StakerInfo \cup {None}]
      /\ epoch' = epoch /\ outEpoch' = outEpoch /\ missed' = missed /\ chosen' = chosen
  BY <1>1, <1>3, RecordRight DEF CallDoes
<1>5. /\ value <= wallet[a] /\ x \in {0, value} /\ value - x \in Nat
      /\ wallet' = [wallet EXCEPT ![a] = wallet[a] - value] /\ balance' = balance + value
      /\ spilled' = [spilled EXCEPT ![a] = spilled[a] + (value - x)]
  BY <1>1 DEF CallDoes
<1>6. Fit(r, epoch) /\ IF stakers[v] = None THEN Fresh(r, a, x, epoch)
                       ELSE Grows(stakers[v], r, epoch) /\ Credits(stakers[v], r, a, x)
  BY <1>1 DEF CallDoes
<1>7. /\ wallet' \in [Account -> Nat] /\ spilled' \in [Account -> Nat] /\ balance' \in Nat
  <2>1. wallet[a] - value \in Nat /\ spilled[a] + (value - x) \in Nat
    BY <1>3, <1>5
  <2> QED
    BY <1>3, <1>5, <2>1
<1>8. STypeOK'
  BY <1>0, <1>2, <1>4, <1>7 DEF STypeOK, FeesDo
<1>9. ASSUME NEW u \in Validator PROVE Valid(u)'
  <2>1. stakers'[u] # None => Fit(stakers'[u], epoch')
    BY <1>0, <1>4, <1>6 DEF Valid
  <2> QED
    BY <2>1 DEF Valid
<1>10. Bonds'
  <2> SUFFICES ASSUME BeforeCleaning', NEW u \in Validator, NEW k \in 1 .. 3, chosen'[k][u] # None
               PROVE  Bonded(stakers'[u], chosen'[k][u], epoch', k)
    BY DEF Bonds
  <2>1. Bonded(stakers[u], chosen[k][u], epoch, k)
    BY <1>0, <1>4 DEF Bonds, BeforeCleaning
  <2>2. CASE u # v
    BY <1>4, <2>1, <2>2
  <2>3. CASE u = v
    <3>1. stakers[v] # None
      BY <2>1, <2>3 DEF Bonded
    <3>2. stakers[v] \in StakerInfo /\ Grows(stakers[v], r, epoch)
      BY <1>3, <1>6, <3>1
    <3>3. Bonded(r, chosen[k][u], epoch, k)
      BY <1>3, <2>1, <2>3, <3>2, BondedGrows
    <3> QED
      BY <1>4, <2>3, <3>3
  <2> QED
    BY <2>2, <2>3
<1>11. FeesFit'
  <2>1. announced' \in [Validator -> Nat]
    BY <1>2 DEF FeesDo
  <2>2. ASSUME NEW u \in Validator PROVE FeeFits(u)'
    <3>1. FeeFits(u)
      BY <1>0 DEF FeesFit
    <3>2. CASE u # v
      BY <1>2, <1>4, <3>1, <3>2 DEF FeeFits, FeesDo
    <3>3. CASE u = v
      BY <1>2, <1>4, <3>1, <3>3 DEF FeeFits, FeesDo
    <3> QED
      BY <3>2, <3>3
  <2> QED
    BY <2>1, <2>2 DEF FeesFit
<1>12. InTime'
  <2>1. ASSUME outEpoch' = epoch', NEW u \in Validator, stakers'[u] # None
        PROVE  OnTime(stakers'[u], epoch')
    <3>1. stakers[u] # None => OnTime(stakers[u], epoch)
      BY <1>0, <1>4, <2>1 DEF InTime
    <3>2. CASE u # v
      BY <1>4, <2>1, <3>1, <3>2
    <3>3. CASE u = v /\ stakers[v] = None
      <4>1. OnTime(r, epoch)
        BY <1>3, <1>6, <3>3, OnTimeFresh
      <4> QED
        BY <1>4, <3>3, <4>1
    <3>4. CASE u = v /\ stakers[v] # None
      <4>1. OnTime(r, epoch)
        BY <1>3, <1>6, <3>1, <3>4, OnTimeGrows
      <4> QED
        BY <1>4, <3>4, <4>1
    <3> QED
      BY <3>2, <3>3, <3>4
  <2> QED
    BY <1>0, <1>4, <2>1 DEF InTime
<1>13. Balanced'
  <2>1. /\ Left(stakers'[v]) = Left(stakers[v]) + x
        /\ \A b \in Account : LeftOf(stakers'[v], b) = LeftOf(stakers[v], b) + (IF b = a THEN x ELSE 0)
    BY <1>4, <1>6 DEF Left, LeftOf, Fresh, Credits
  <2>2. /\ SumFunctionOnSet(Owed(stakers'), Validator) = SumFunctionOnSet(Owed(stakers), Validator) + x
        /\ \A b \in Account : SumFunctionOnSet(OwedTo(stakers', b), Validator)
              = SumFunctionOnSet(OwedTo(stakers, b), Validator) + (IF b = a THEN x ELSE 0)
    <3> DEFINE st == stakers
               su == stakers'
    <3>1. /\ st \in [Validator -> StakerInfo \cup {None}] /\ su \in [Validator -> StakerInfo \cup {None}]
          /\ \A u \in Validator \ {v} : su[u] = st[u]
          /\ Left(su[v]) = Left(st[v]) + x
          /\ \A b \in Account : LeftOf(su[v], b) = LeftOf(st[v], b) + (IF b = a THEN x ELSE 0)
      BY <1>3, <1>4, <2>1
    <3> HIDE DEF st, su
    <3>2. /\ SumFunctionOnSet(Owed(su), Validator) = SumFunctionOnSet(Owed(st), Validator) + x
          /\ \A b \in Account : SumFunctionOnSet(OwedTo(su, b), Validator)
                = SumFunctionOnSet(OwedTo(st, b), Validator) + (IF b = a THEN x ELSE 0)
      BY <3>1, OwedChange
    <3> QED
      BY <3>2 DEF st, su
  <2>3. SumFunctionOnSet(spilled', Account) = SumFunctionOnSet(spilled, Account) + (value - x)
    <3>1. /\ \A b \in Account : spilled[b] \in Int /\ spilled'[b] \in Int
          /\ \A b \in Account \ {a} : spilled[b] = spilled'[b]
          /\ spilled'[a] = spilled[a] + (value - x)
      BY <1>3, <1>5, <1>7
    <3>2. SumFunctionOnSet(spilled', Account)
            = SumFunctionOnSet(spilled, Account) + (spilled'[a] - spilled[a])
      BY <3>1, SumChange, StakingAssumption
    <3> QED
      BY <1>5, <3>1, <3>2
  <2>4. /\ SumFunctionOnSet(Owed(stakers), Validator) \in Nat
        /\ \A b \in Account : SumFunctionOnSet(OwedTo(stakers, b), Validator) \in Nat
        /\ SumFunctionOnSet(spilled, Account) \in Nat
    BY <1>3, OwedRight, SumType, StakingAssumption
  <2>5. balance' = SumFunctionOnSet(Owed(stakers'), Validator) + SumFunctionOnSet(spilled', Account)
    BY <1>0, <1>3, <1>5, <2>2, <2>3, <2>4 DEF Balanced
  <2>6. ASSUME NEW b \in Account
        PROVE  wallet'[b] + SumFunctionOnSet(OwedTo(stakers', b), Validator) + spilled'[b] = Initially(b)
    <3>1. wallet[b] + SumFunctionOnSet(OwedTo(stakers, b), Validator) + spilled[b] = Initially(b)
      BY <1>0 DEF Balanced
    <3>2. wallet[b] \in Nat /\ spilled[b] \in Nat /\ SumFunctionOnSet(OwedTo(stakers, b), Validator) \in Nat
      BY <1>3, <2>4
    <3>3. CASE b = a
      BY <1>3, <1>5, <2>2, <3>1, <3>2, <3>3
    <3>4. CASE b # a
      BY <1>3, <1>5, <2>2, <3>1, <3>2, <3>4
    <3> QED
      BY <3>3, <3>4
  <2>7. \A b \in Account : Initially(b)' = Initially(b)
    BY DEF Initially, PowOwner
  <2> QED
    BY <2>5, <2>6, <2>7 DEF Balanced
<1>14. WeightEarned'
  BY <1>0, <1>4 DEF WeightEarned
<1> QED
  BY <1>8, <1>9, <1>10, <1>11, <1>12, <1>13, <1>14 DEF SIInv

-----------------------------------------------------------------------------
(***************************************************************************)
(* Refunds keep the invariant.                                             *)
(***************************************************************************)

\* Sums over all accounts and validators.
LEMMA SumsRight ==
    ASSUME STypeOK
    PROVE  /\ SumFunctionOnSet(Owed(stakers), Validator) \in Nat
           /\ SumFunctionOnSet(spilled, Account) \in Nat
<1>1. stakers \in [Validator -> StakerInfo \cup {None}] /\ spilled \in [Account -> Nat]
  BY DEF STypeOK
<1>2. \A v \in Validator : Owed(stakers)[v] \in Nat
  BY <1>1, RecordRight DEF Owed, Left
<1> QED
  BY <1>1, <1>2, SumType, StakingAssumption

\* Payments of what the records lose are all made, and the books balance
\* when they are.
LEMMA PayBalances ==
    ASSUME STypeOK, Balanced, stakers' \in [Validator -> StakerInfo \cup {None}],
           NEW pay, \A v \in Validator : PaysOut(pay[v], v, stakers[v], stakers'[v]),
           NEW P, P = UNION {pay[v] : v \in Validator}, Pay(P), UNCHANGED spilled
    PROVE  balance' \in Nat /\ wallet' \in [Account -> Nat] /\ Balanced'
<1> DEFINE st == stakers
           su == stakers'
<1>1. /\ st \in [Validator -> StakerInfo \cup {None}] /\ su \in [Validator -> StakerInfo \cup {None}]
      /\ \A v \in Validator : PaysOut(pay[v], v, st[v], su[v])
  BY DEF STypeOK
<1> HIDE DEF st, su
<1>2. /\ IsFiniteSet(P) /\ \A q \in P : q.amount \in Nat
      /\ SumFunctionOnSet(Owed(st), Validator) = SumRefunds(P) + SumFunctionOnSet(Owed(su), Validator)
      /\ \A a \in Account :
            SumFunctionOnSet(OwedTo(st, a), Validator)
              = SumRefunds({q \in P : q.to = a}) + SumFunctionOnSet(OwedTo(su, a), Validator)
  <2>1. PaysAll(P, st, su)
    BY <1>1, PaymentsAreOwed
  <2> QED
    BY <2>1 DEF PaysAll
<1>3. balance' \in Nat /\ wallet' \in [Account -> Nat]
  BY <1>2, PayTypes
<1>4. SumRefunds(P) \in Nat /\ SumFunctionOnSet(Owed(su), Validator) \in Nat
  <2>1. SumRefunds(P) \in Nat
    BY <1>2, SumRefundsRight
  <2>2. \A v \in Validator : Owed(su)[v] \in Nat
    BY <1>1, RecordRight DEF Owed, Left
  <2> QED
    BY <2>1, <2>2, SumType, StakingAssumption
<1>5. /\ balance = SumFunctionOnSet(Owed(st), Validator) + SumFunctionOnSet(spilled, Account)
      /\ SumFunctionOnSet(spilled, Account) \in Nat
  BY SumsRight DEF Balanced, st
<1>6. SumRefunds(P) <= balance
  BY <1>2, <1>4, <1>5
<1>7. /\ balance' = balance - SumRefunds(P)
      /\ wallet' = [a \in Account |-> wallet[a] + SumRefunds({q \in P : q.to = a})]
  BY <1>2, <1>6, AllPaid
<1>8. balance' = SumFunctionOnSet(Owed(su), Validator) + SumFunctionOnSet(spilled, Account)
  BY <1>2, <1>4, <1>5, <1>7
<1>9. ASSUME NEW a \in Account
      PROVE  wallet'[a] + SumFunctionOnSet(OwedTo(su, a), Validator) + spilled[a] = Initially(a)
  <2> DEFINE got == SumRefunds({q \in P : q.to = a})
             before == SumFunctionOnSet(OwedTo(st, a), Validator)
             after == SumFunctionOnSet(OwedTo(su, a), Validator)
  <2>1. wallet[a] + before + spilled[a] = Initially(a)
    BY DEF Balanced, st
  <2>2. wallet'[a] = wallet[a] + got /\ before = got + after
    BY <1>2, <1>7
  <2>3. got \in Nat
    <3>1. {q \in P : q.to = a} \in SUBSET P
      OBVIOUS
    <3> QED
      BY <1>2, <3>1, SumRefundsRight
  <2>4. before \in Nat /\ after \in Nat
    BY <1>1, OwedRight
  <2>5. wallet[a] \in Nat /\ spilled[a] \in Nat
    BY DEF STypeOK
  <2> HIDE DEF got, before, after
  <2>6. wallet'[a] + after + spilled[a] = Initially(a)
    BY <2>1, <2>2, <2>3, <2>4, <2>5
  <2> QED
    BY <2>6 DEF after
<1>10. \A b \in Account : Initially(b)' = Initially(b)
  BY DEF Initially, PowOwner
<1>11. Balanced'
  BY <1>8, <1>9, <1>10 DEF Balanced, su
<1> QED
  BY <1>3, <1>11

\* Nobody is paid for a validator that is not there.
LEMMA NothingPays ==
    ASSUME NEW v, NEW s
    PROVE  s = None \/ s \in StakerInfo => PaysOut({}, v, s, s)
<1>1. SumRefunds({}) = 0 /\ IsFiniteSet({}) /\ \A a \in Account : {q \in {} : q.to = a} = {}
  BY SumUnfold, FS_EmptySet DEF SumRefunds, SumFunction
<1>2. s = None \/ s \in StakerInfo => Left(s) \in Nat /\ \A a \in Account : LeftOf(s, a) \in Nat
  BY RecordRight, HoldingType DEF Left, LeftOf
<1> QED
  BY <1>1, <1>2 DEF PaysOut

\* The refunds of an epoch keep the invariant.
LEMMA StakeOutKeeps ==
    ASSUME SIInv, StakeOutRun
    PROVE  SIInv'
<1> DEFINE after(v) == IF stakers[v] = None THEN None ELSE AfterStakeOut(stakers[v])
           pay == [v \in Validator |-> IF stakers[v] = None THEN {} ELSE Refunds(v, stakers[v])]
           P == UNION {pay[v] : v \in Validator}
<1>0. /\ STypeOK /\ FeesFit /\ InTime /\ Bonds /\ Balanced /\ WeightEarned
      /\ \A u \in Validator : Valid(u)
  BY DEF SIInv
<1>1. /\ epoch \in Nat /\ stakers \in [Validator -> StakerInfo \cup {None}]
      /\ fees \in [Validator -> FeeInfo \cup {None}] /\ epoch \in 0 .. LastEpochId
  BY <1>0, StakingAssumption DEF STypeOK
<1>2. /\ stakers' = [v \in Validator |-> after(v)]
      /\ Pay(UNION {Refunds(v, stakers[v]) : v \in Present(stakers)})
      /\ fees' = [v \in Validator |->
                    IF stakers[v] # None /\ stakers'[v] = None THEN None ELSE fees[v]]
      /\ announced' = [v \in Validator |->
                    IF stakers[v] # None /\ stakers'[v] = None THEN 0 ELSE announced[v]]
      /\ outEpoch' = epoch /\ epoch' = epoch /\ missed' = missed /\ spilled' = spilled
      /\ chosen' = chosen
  BY <1>1 DEF StakeOutRun, Recorded, Present
<1>3. ASSUME NEW v \in Validator, stakers[v] # None
      PROVE  /\ stakers[v] \in StakerInfo /\ stakers'[v] = AfterStakeOut(stakers[v])
             /\ StaysOrLeaves(stakers[v], stakers'[v])
             /\ PaysOut(Refunds(v, stakers[v]), v, stakers[v], stakers'[v])
  <2>1. stakers[v] \in StakerInfo /\ Fit(stakers[v], epoch)
    BY <1>0, <1>1, <1>3 DEF Valid
  <2>2. stakers'[v] = AfterStakeOut(stakers[v])
    BY <1>2, <1>3
  <2> QED
    BY <1>0, <2>1, <2>2, AfterRight, RefundsPay
<1>4. \A v \in Validator : stakers[v] = None => stakers'[v] = None
  BY <1>2
<1>5. /\ stakers' \in [Validator -> StakerInfo \cup {None}]
  <2>1. \A v \in Validator : stakers'[v] \in StakerInfo \cup {None}
    BY <1>3, <1>4 DEF StaysOrLeaves
  <2>2. stakers' = [v \in Validator |-> stakers'[v]]
    BY <1>2
  <2> QED
    BY <2>1, <2>2
<1>6. \A v \in Validator : PaysOut(pay[v], v, stakers[v], stakers'[v])
  <2>1. ASSUME NEW v \in Validator, stakers[v] = None PROVE PaysOut(pay[v], v, stakers[v], stakers'[v])
    <3>1. pay[v] = {} /\ stakers'[v] = None
      BY <1>4, <2>1
    <3> QED
      BY <2>1, <3>1, NothingPays
  <2>2. ASSUME NEW v \in Validator, stakers[v] # None PROVE PaysOut(pay[v], v, stakers[v], stakers'[v])
    <3>1. pay[v] = Refunds(v, stakers[v])
      BY <2>2
    <3> HIDE DEF pay
    <3> QED
      BY <1>3, <2>2, <3>1
  <2> QED
    BY <2>1, <2>2
<1>7. UNION {Refunds(v, stakers[v]) : v \in Present(stakers)} = P
  BY <1>1 DEF Present
<1> HIDE DEF pay, after
<1>8. balance' \in Nat /\ wallet' \in [Account -> Nat] /\ Balanced'
  BY <1>0, <1>2, <1>5, <1>6, <1>7, PayBalances
<1>9. fees' \in [Validator -> FeeInfo \cup {None}]
  BY <1>1, <1>2
<1>10. STypeOK'
  BY <1>0, <1>1, <1>2, <1>5, <1>8, <1>9 DEF STypeOK
<1>11. ASSUME NEW v \in Validator PROVE Valid(v)'
  <2>1. stakers'[v] # None => Fit(stakers'[v], epoch')
    BY <1>2, <1>3, <1>4 DEF StaysOrLeaves
  <2> QED
    BY <2>1 DEF Valid
<1>12. Bonds'
  <2> SUFFICES ASSUME BeforeCleaning', NEW u \in Validator, NEW k \in 1 .. 3, chosen'[k][u] # None
               PROVE  Bonded(stakers'[u], chosen'[k][u], epoch', k)
    BY DEF Bonds
  <2>1. Bonded(stakers[u], chosen[k][u], epoch, k)
    BY <1>0, <1>2 DEF Bonds, BeforeCleaning
  <2>2. stakers[u] # None
    BY <2>1 DEF Bonded
  <2>3. Bonded(stakers'[u], chosen[k][u], epoch, k)
    BY <1>0, <1>3, <2>1, <2>2, BondedStays
  <2> QED
    BY <1>2, <2>3
<1>13. FeesFit'
  <2>1. ASSUME NEW u \in Validator PROVE FeeFits(u)'
    <3>1. FeeFits(u)
      BY <1>0 DEF FeesFit
    <3>2. /\ fees'[u] = IF stakers[u] # None /\ stakers'[u] = None THEN None ELSE fees[u]
          /\ announced'[u] = IF stakers[u] # None /\ stakers'[u] = None THEN 0 ELSE announced[u]
      BY <1>2
    <3>3. stakers'[u] # None => stakers[u] # None /\ stakers'[u].FeeRate = stakers[u].FeeRate
      BY <1>3, <1>4 DEF StaysOrLeaves, Remains
    <3> QED
      BY <3>1, <3>2, <3>3, <1>4 DEF FeeFits
  <2>2. announced' \in [Validator -> Nat]
    BY <1>0, <1>2 DEF FeesFit
  <2> QED
    BY <2>1, <2>2 DEF FeesFit
<1>14. InTime'
  <2>1. \A u \in Validator : stakers'[u] # None => OnTime(stakers'[u], epoch')
    BY <1>2, <1>3, <1>4 DEF StaysOrLeaves
  <2> QED
    BY <1>1, <1>2, <2>1 DEF InTime
<1>15. WeightEarned'
  BY <1>0, <1>2 DEF WeightEarned
<1> QED
  BY <1>8, <1>10, <1>11, <1>12, <1>13, <1>14, <1>15 DEF SIInv

\* The removal of inactive validators keeps the invariant.
LEMMA CleanKeeps ==
    ASSUME SIInv, CleanInactiveValidator
    PROVE  SIInv'
<1>0. /\ STypeOK /\ FeesFit /\ InTime /\ Bonds /\ Balanced /\ WeightEarned
      /\ \A u \in Validator : Valid(u)
  BY DEF SIInv
<1>1. /\ epoch \in Nat /\ stakers \in [Validator -> StakerInfo \cup {None}]
  BY <1>0, StakingAssumption DEF STypeOK
<1>2. /\ epoch \in CleanEpochs
      /\ UNCHANGED <<epoch, outEpoch, missed, fees, announced, chosen, spilled>>
  BY DEF CleanInactiveValidator, Recorded, history
<1>3. PICK inactive \in SUBSET Present(stakers) :
          /\ stakers' = [v \in Validator |-> IF v \in inactive THEN None ELSE stakers[v]]
          /\ Pay(UNION {AllRefunds(v, stakers[v]) : v \in inactive})
  BY DEF CleanInactiveValidator
<1> DEFINE pay == [v \in Validator |-> IF v \in inactive THEN AllRefunds(v, stakers[v]) ELSE {}]
           P == UNION {pay[v] : v \in Validator}
<1>4. \A v \in inactive : v \in Validator /\ stakers[v] # None /\ stakers[v] \in StakerInfo
  BY <1>1, <1>3 DEF Present
<1>5. /\ stakers' \in [Validator -> StakerInfo \cup {None}]
      /\ \A v \in Validator : stakers'[v] = IF v \in inactive THEN None ELSE stakers[v]
  BY <1>1, <1>3
<1>6. \A v \in Validator : PaysOut(pay[v], v, stakers[v], stakers'[v])
  <2>1. ASSUME NEW v \in Validator, v \notin inactive
        PROVE  PaysOut(pay[v], v, stakers[v], stakers'[v])
    <3>1. pay[v] = {} /\ stakers'[v] = stakers[v] /\ (stakers[v] = None \/ stakers[v] \in StakerInfo)
      BY <1>1, <1>5, <2>1
    <3> QED
      BY <3>1, NothingPays
  <2>2. ASSUME NEW v \in Validator, v \in inactive
        PROVE  PaysOut(pay[v], v, stakers[v], stakers'[v])
    <3>1. pay[v] = AllRefunds(v, stakers[v]) /\ stakers'[v] = None
      BY <1>5, <2>2
    <3> HIDE DEF pay
    <3> QED
      BY <1>4, <2>2, <3>1, AllRefundsPay
  <2> QED
    BY <2>1, <2>2
<1>7. UNION {AllRefunds(v, stakers[v]) : v \in inactive} = P
  BY <1>4
<1> HIDE DEF pay
<1>8. balance' \in Nat /\ wallet' \in [Account -> Nat] /\ Balanced'
  BY <1>0, <1>2, <1>3, <1>5, <1>6, <1>7, PayBalances
<1>9. STypeOK'
  BY <1>0, <1>2, <1>5, <1>8 DEF STypeOK
<1>10. ASSUME NEW v \in Validator PROVE Valid(v)'
  <2>1. stakers'[v] # None => Fit(stakers'[v], epoch')
    BY <1>0, <1>2, <1>5 DEF Valid
  <2> QED
    BY <2>1 DEF Valid
<1>11. ~BeforeCleaning'
  BY <1>1, <1>2 DEF BeforeCleaning
<1>12. Bonds' /\ FeesFit'
  <2>1. Bonds'
    BY <1>11 DEF Bonds
  <2>2. FeesFit'
    BY <1>0, <1>2, <1>5 DEF FeesFit, FeeFits
  <2> QED
    BY <2>1, <2>2
<1>13. InTime'
  BY <1>0, <1>2, <1>5 DEF InTime
<1>14. WeightEarned'
  BY <1>0, <1>2 DEF WeightEarned
<1> QED
  BY <1>8, <1>9, <1>10, <1>12, <1>13, <1>14 DEF SIInv

\* The next epoch, with the stakes counted for the one after it, keeps the
\* invariant.
LEMMA NextEpochKeeps ==
    ASSUME SIInv, NextEpoch
    PROVE  SIInv'
<1>0. /\ STypeOK /\ FeesFit /\ InTime /\ Bonds /\ Balanced /\ WeightEarned
      /\ \A u \in Validator : Valid(u)
  BY DEF SIInv
<1>1. /\ epoch \in Nat /\ stakers \in [Validator -> StakerInfo \cup {None}]
      /\ outEpoch \in Nat /\ missed \in Nat
  BY <1>0, StakingAssumption DEF STypeOK
<1> DEFINE count == [v \in Validator |-> IF stakers[v] = None THEN None
                                         ELSE CalEpochProbabilityStaker(stakers[v], epoch + 2)]
<1>2. /\ epoch' = epoch + 1 /\ epoch < LastEpochId
      /\ chosen' = <<chosen[2], chosen[3], count>>
      /\ UNCHANGED <<outEpoch, stakers, fees, balance, wallet, spilled, announced>>
  BY DEF NextEpoch
<1>3. missed' \in 0 .. MaxMissed
  <2>1. missed' = missed \/ (missed < MaxMissed /\ missed' = missed + 1)
    BY DEF NextEpoch
  <2> QED
    BY <1>0, <2>1, StakingAssumption DEF STypeOK
<1>4. STypeOK'
  <2>1. epoch' \in FirstEpochId .. LastEpochId
    BY <1>0, <1>2, StakingAssumption DEF STypeOK
  <2> QED
    BY <1>0, <1>2, <1>3, <2>1 DEF STypeOK
<1>5. ASSUME NEW v \in Validator PROVE Valid(v)'
  <2>1. stakers[v] # None => Fit(stakers[v], epoch + 1)
    BY <1>0, <1>1, FitNext DEF Valid
  <2>2. stakers'[v] # None => Fit(stakers'[v], epoch')
    BY <1>2, <2>1
  <2> QED
    BY <2>2 DEF Valid
<1>6. ASSUME NEW v \in Validator, count[v] # None
      PROVE  Bonded(stakers[v], count[v], epoch + 1, 3) /\ Earned(count[v])
  <2>1. stakers[v] # None /\ count[v] = CalEpochProbabilityStaker(stakers[v], epoch + 2)
    BY <1>6
  <2>2. stakers[v] \in StakerInfo /\ Fit(stakers[v], epoch)
    BY <1>0, <1>1, <2>1 DEF Valid
  <2> HIDE DEF count
  <2> QED
    BY <1>0, <1>6, <2>1, <2>2, BondedNew
<1>7. chosen'[1] = chosen[2] /\ chosen'[2] = chosen[3] /\ chosen'[3] = count
  BY <1>2
<1> HIDE DEF count
<1>8. BeforeCleaning' => BeforeCleaning
  BY <1>1, <1>2, StakingAssumption DEF BeforeCleaning
<1>9. Bonds'
  <2> SUFFICES ASSUME BeforeCleaning', NEW u \in Validator, NEW k \in 1 .. 3, chosen'[k][u] # None
               PROVE  Bonded(stakers'[u], chosen'[k][u], epoch', k)
    BY DEF Bonds
  <2>1. CASE k = 3
    BY <1>2, <1>6, <1>7, <2>1
  <2>2. CASE k = 1
    <3>1. Bonded(stakers[u], chosen[2][u], epoch, 1 + 1)
      BY <1>0, <1>7, <1>8, <2>2 DEF Bonds
    <3>2. Bonded(stakers[u], chosen[2][u], epoch + 1, 1)
      BY <1>1, <3>1, BondedNext
    <3> QED
      BY <1>2, <1>7, <2>2, <3>2
  <2>3. CASE k = 2
    <3>1. Bonded(stakers[u], chosen[3][u], epoch, 2 + 1)
      BY <1>0, <1>7, <1>8, <2>3 DEF Bonds
    <3>2. Bonded(stakers[u], chosen[3][u], epoch + 1, 2)
      BY <1>1, <3>1, BondedNext
    <3> QED
      BY <1>2, <1>7, <2>3, <3>2
  <2> QED
    BY <2>1, <2>2, <2>3
<1>10. FeesFit'
  BY <1>0, <1>2 DEF FeesFit, FeeFits
<1>11. InTime'
  BY <1>0, <1>1, <1>2 DEF InTime
<1>12. Balanced'
  <2>1. \A b \in Account : Initially(b)' = Initially(b)
    BY DEF Initially, PowOwner
  <2> QED
    BY <1>0, <1>2, <2>1 DEF Balanced
<1>13. WeightEarned'
  BY <1>6, <1>7 DEF WeightEarned, Earned
<1> QED
  BY <1>4, <1>5, <1>9, <1>10, <1>11, <1>12, <1>13 DEF SIInv

-----------------------------------------------------------------------------
(***************************************************************************)
(* The start, and the theorems.                                            *)
(***************************************************************************)

\* A validator of the genesis block or of the proof-of-work phase.
LEMMA NewStakerRight ==
    ASSUME NEW v \in Builtin \cup PowStakers, NEW n, n = NewStaker(v)
    PROVE  /\ n \in StakerInfo /\ n # None /\ Fit(n, FirstEpochId) /\ Total(n) = BuiltinStake
           /\ \A a \in Account : Holding(n, a) = IF n.From = a THEN BuiltinStake ELSE 0
           /\ n.From = (IF v \in Builtin THEN v ELSE PowOwner)
           /\ v \notin Builtin => n.FeeRate = 0
<1> DEFINE none == [c \in Account |-> None]
           lock == IF v \in Builtin THEN 0 ELSE PSMinEpochNum
           stake == StakeValue(BuiltinStake, PSMinEpochNum)
           from == IF v \in Builtin THEN v ELSE PowOwner
           fee == IF v \in Builtin THEN PSMaxFeeRate ELSE 0
<1>1. /\ PSMinEpochNum \in Nat /\ PSMinEpochNum # 0 /\ BuiltinStake \in Nat
      /\ BuiltinStake <= maxTotalStake /\ FirstEpochId \in Nat /\ maxTotalStake \in Nat
      /\ lock \in 0 .. PSMaxEpochNum /\ fee \in 0 .. PSMaxFeeRate
  BY StakingAssumption DEF QuitDelay
<1>2. from \in Account \cup Validator
  <2>1. CASE v \in Builtin
    BY <2>1, StakingAssumption
  <2>2. CASE v \notin Builtin
    <3>1. Account # {}
      BY <2>2, StakingAssumption
    <3> QED
      BY <2>2, <3>1 DEF PowOwner
  <2> QED
    BY <2>1, <2>2
<1>3. stake \in Nat /\ stake = StakeValue(BuiltinStake, lock)
  BY <1>1, StakeValueRight DEF StakeValue, CalLocktimeWeight
<1>4. /\ none \in [Account -> ClientInfo \cup {None}] /\ none \in [Account -> PartnerInfo \cup {None}]
      /\ DOMAIN none = Account /\ \A a \in Account : none[a] = None
  OBVIOUS
<1>5. n = [Amount |-> BuiltinStake, LockEpochs |-> lock, StakeAmount |-> stake,
           NextLockEpochs |-> lock, From |-> from, StakingEpoch |-> 0, FeeRate |-> fee,
           Clients |-> none, Partners |-> none]
  BY DEF NewStaker
<1>6. lock = 0 \/ lock = PSMinEpochNum
  OBVIOUS
<1>7. v \notin Builtin => fee = 0
  OBVIOUS
<1> HIDE DEF none, lock, stake, fee
<1>8. n \in StakerInfo
  <2> HIDE DEF from
  <2> QED
    BY <1>1, <1>2, <1>3, <1>4, <1>5 DEF StakerInfo
<1>9. /\ n.Amount = BuiltinStake /\ n.LockEpochs = lock /\ n.StakeAmount = stake
      /\ n.NextLockEpochs = lock /\ n.From = from /\ n.StakingEpoch = 0 /\ n.FeeRate = fee
      /\ n.Clients = none /\ n.Partners = none
  BY <1>5
<1>10. Total(n) = BuiltinStake
  BY <1>1, <1>4, <1>8, <1>9, AmountsNone, RecordRight
<1>11. Terms(n, FirstEpochId)
  BY <1>1, <1>4, <1>6, <1>9 DEF Terms, JoinDelay
<1>12. Weighs(n, FirstEpochId)
  <2>1. stake <= StakeValue(BuiltinStake, lock)
    BY <1>3
  <2> QED
    BY <1>4, <1>9, <2>1 DEF Weighs
<1>13. ASSUME NEW a \in Account PROVE Holding(n, a) = IF n.From = a THEN BuiltinStake ELSE 0
  BY <1>1, <1>4, <1>9, <1>13 DEF Holding, AmountOf
<1> QED
  BY <1>1, <1>7, <1>8, <1>9, <1>10, <1>11, <1>12, <1>13, RecordRight DEF Fit

\* What the contract owes at the start.
LEMMA OwedInit ==
    ASSUME SInit, stakers \in [Validator -> StakerInfo \cup {None}]
    PROVE  /\ SumFunctionOnSet(Owed(stakers), Validator)
                = BuiltinStake * Cardinality(Builtin \cup PowStakers)
           /\ \A a \in Account : Endowment + SumFunctionOnSet(OwedTo(stakers, a), Validator) = Initially(a)
<1> DEFINE W == Builtin \cup PowStakers
<1>1. /\ W \in SUBSET Validator /\ IsFiniteSet(Validator) /\ IsFiniteSet(W)
      /\ Builtin \in SUBSET Validator /\ PowStakers \in SUBSET Validator
      /\ IsFiniteSet(Builtin) /\ IsFiniteSet(PowStakers)
      /\ BuiltinStake \in Nat /\ Endowment \in Nat /\ Builtin \cap PowStakers = {}
  BY FS_Subset, StakingAssumption
<1>2. \A v \in Validator : stakers[v] = IF v \in W THEN NewStaker(v) ELSE None
  BY DEF SInit
<1>3. /\ \A v \in Validator \ W : Owed(stakers)[v] = 0
      /\ \A v \in W : Owed(stakers)[v] = BuiltinStake
  BY <1>1, <1>2, NewStakerRight DEF Owed, Left
<1> HIDE DEF W
<1>4. \A v \in Validator : Owed(stakers)[v] \in Int
  BY <1>1, <1>3
<1>5. SumFunctionOnSet(Owed(stakers), Validator) = SumFunctionOnSet(Owed(stakers), W)
  BY <1>1, <1>3, <1>4, SumZeros
<1>6. SumFunctionOnSet(Owed(stakers), W) = BuiltinStake * Cardinality(W)
  BY <1>1, <1>3, SumConstant
<1>7. ASSUME NEW a \in Account
      PROVE  Endowment + SumFunctionOnSet(OwedTo(stakers, a), Validator) = Initially(a)
  <2> DEFINE own == Builtin \cap {a}
             pow == IF a = PowOwner THEN PowStakers ELSE {}
             f == OwedTo(stakers, a)
  <2>1. own \in SUBSET Validator /\ pow \in SUBSET Validator /\ own \cap pow = {}
        /\ IsFiniteSet(own) /\ IsFiniteSet(pow)
    BY <1>1, FS_Subset, FS_EmptySet
  <2>2. ASSUME NEW v \in Validator PROVE f[v] = IF v \in own \cup pow THEN BuiltinStake ELSE 0
    <3>1. f[v] = LeftOf(stakers[v], a)
      BY DEF OwedTo
    <3>2. CASE v \notin W
      <4>1. f[v] = 0
        BY <1>2, <3>1, <3>2 DEF LeftOf
      <4> QED
        BY <3>2, <4>1 DEF W
    <3>3. CASE v \in W
      <4>1. f[v] = IF (IF v \in Builtin THEN v ELSE PowOwner) = a THEN BuiltinStake ELSE 0
        BY <1>2, <3>1, <3>3, NewStakerRight DEF LeftOf, W
      <4>2. v \in own \cup pow <=> (IF v \in Builtin THEN v ELSE PowOwner) = a
        BY <1>1, <3>3 DEF W
      <4> QED
        BY <4>1, <4>2
    <3> QED
      BY <3>2, <3>3
  <2> DEFINE U == own \cup pow
  <2>3. /\ U \in SUBSET Validator /\ \A v \in Validator : f[v] \in Int
        /\ \A v \in Validator \ U : f[v] = 0 /\ \A w \in U : f[w] = BuiltinStake
    BY <1>1, <2>1, <2>2
  <2>4. U = own \cup pow
    OBVIOUS
  <2> HIDE DEF f, U
  <2>5. SumFunctionOnSet(f, Validator) = SumFunctionOnSet(f, U)
    BY <1>1, <2>3, SumZeros
  <2>6. SumFunctionOnSet(f, U) = SumFunctionOnSet(f, own) + SumFunctionOnSet(f, pow)
    <3>1. \A v \in own \cup pow : f[v] \in Int
      BY <2>3, <2>4
    <3> HIDE DEF own, pow
    <3>2. SumFunctionOnSet(f, own \cup pow) = SumFunctionOnSet(f, own) + SumFunctionOnSet(f, pow)
      BY <2>1, <3>1, SumUnion
    <3> QED
      BY <2>4, <3>2, Zenon
  <2>7. SumFunctionOnSet(f, own) = BuiltinStake * Cardinality(own)
    <3>1. \A v \in own : f[v] = BuiltinStake
      BY <1>1, <2>2
    <3> HIDE DEF own
    <3> QED
      BY <1>1, <2>1, <3>1, SumConstant
  <2>8. SumFunctionOnSet(f, pow) = BuiltinStake * Cardinality(pow)
    <3>1. \A v \in pow : f[v] = BuiltinStake
      BY <1>1, <2>2
    <3> HIDE DEF pow
    <3> QED
      BY <1>1, <2>1, <3>1, SumConstant
  <2>9. BuiltinStake * Cardinality(own) = IF a \in Builtin THEN BuiltinStake ELSE 0
    <3>1. CASE a \in Builtin
      <4>1. own = {a}
        BY <3>1
      <4>2. Cardinality({a}) = 1
        BY FS_Singleton
      <4> HIDE DEF own
      <4> QED
        BY <1>1, <3>1, <4>1, <4>2
    <3>2. CASE a \notin Builtin
      <4>1. own = {}
        BY <3>2
      <4>2. Cardinality({}) = 0
        BY FS_EmptySet
      <4> HIDE DEF own
      <4> QED
        BY <1>1, <3>2, <4>1, <4>2
    <3> QED
      BY <3>1, <3>2
  <2>10. /\ BuiltinStake * Cardinality(pow)
             = IF a = PowOwner THEN BuiltinStake * Cardinality(PowStakers) ELSE 0
    <3>1. CASE a = PowOwner
      <4>1. pow = PowStakers
        BY <3>1
      <4> QED
        BY <3>1, <4>1
    <3>2. CASE a # PowOwner
      <4>1. pow = {}
        BY <3>2
      <4>2. Cardinality({}) = 0
        BY FS_EmptySet
      <4> HIDE DEF pow
      <4> QED
        BY <1>1, <3>2, <4>1, <4>2
    <3> QED
      BY <3>1, <3>2
  <2> DEFINE x == IF a = PowOwner THEN BuiltinStake * Cardinality(PowStakers) ELSE 0
             y == IF a \in Builtin THEN BuiltinStake ELSE 0
  <2>11. x \in Int /\ y \in Int
    <3>1. Cardinality(PowStakers) \in Nat
      BY <1>1, FS_CardinalityType
    <3> QED
      BY <1>1, <3>1
  <2>12. SumFunctionOnSet(f, Validator) = y + x
    BY <2>5, <2>6, <2>7, <2>8, <2>9, <2>10
  <2>13. Initially(a) = Endowment + x + y
    BY DEF Initially
  <2> HIDE DEF x, y
  <2>14. Endowment + SumFunctionOnSet(f, Validator) = Initially(a)
    BY <1>1, <2>11, <2>12, <2>13
  <2> QED
    BY <2>14 DEF f
<1> QED
  BY <1>5, <1>6, <1>7 DEF W

\* The invariant holds at the start.
LEMMA InitRight ==
    ASSUME SInit
    PROVE  SIInv
<1> DEFINE W == Builtin \cup PowStakers
<1>1. \A v \in Validator : stakers[v] = IF v \in W THEN NewStaker(v) ELSE None
  BY DEF SInit
<1>2. stakers \in [Validator -> StakerInfo \cup {None}]
  <2>1. \A v \in Validator : stakers[v] \in StakerInfo \cup {None}
    BY <1>1, NewStakerRight
  <2>2. stakers = [v \in Validator |-> stakers[v]]
    BY DEF SInit
  <2> QED
    BY <2>1, <2>2
<1>3. BuiltinStake * Cardinality(W) \in Nat
  <2>1. IsFiniteSet(W)
    BY FS_Subset, StakingAssumption
  <2> HIDE DEF W
  <2>2. Cardinality(W) \in Nat
    BY <2>1, FS_CardinalityType
  <2>3. BuiltinStake \in Nat
    BY StakingAssumption
  <2> QED
    BY <2>2, <2>3
<1>4. STypeOK
  <2>1. balance \in Nat
    BY <1>3 DEF SInit
  <2> QED
    BY <1>2, <2>1, StakingAssumption DEF STypeOK, SInit
<1>5. ASSUME NEW v \in Validator PROVE Valid(v)
  <2>1. epoch = FirstEpochId
    BY DEF SInit
  <2> QED
    BY <1>1, <2>1, NewStakerRight DEF Valid
<1>6. \A k \in 1 .. 3, v \in Validator : chosen[k][v] = None
  BY DEF SInit
<1>7. Bonds /\ WeightEarned
  BY <1>6 DEF Bonds, WeightEarned
<1>8. FeesFit
  <2>1. /\ announced = [v \in Validator |-> IF v \in Builtin THEN PSMaxFeeRate ELSE 0]
        /\ fees = [v \in Validator |-> None] /\ PSMaxFeeRate \in Nat
    BY StakingAssumption DEF SInit
  <2>2. ASSUME NEW v \in Validator, stakers[v] # None
        PROVE  stakers[v].FeeRate = announced[v]
    <3>1. stakers[v] = NewStaker(v)
      BY <1>1, <2>2
    <3>2. NewStaker(v).FeeRate = IF v \in Builtin THEN PSMaxFeeRate ELSE 0
      BY DEF NewStaker
    <3>3. announced[v] = IF v \in Builtin THEN PSMaxFeeRate ELSE 0
      BY <2>1
    <3> QED
      BY <3>1, <3>2, <3>3
  <2>3. \A v \in Validator : announced[v] \in Nat /\ fees[v] = None
    BY <2>1
  <2>4. announced \in [Validator -> Nat]
    BY <2>1
  <2> QED
    BY <2>2, <2>3, <2>4 DEF FeesFit, FeeFits
<1>9. InTime
  BY StakingAssumption DEF SInit, InTime
<1>10. Balanced
  <2>1. /\ spilled = [a \in Account |-> 0] /\ wallet = [a \in Account |-> Endowment]
        /\ balance = BuiltinStake * Cardinality(W)
    BY DEF SInit
  <2>2. SumFunctionOnSet(spilled, Account) = SumFunctionOnSet(spilled, {})
    BY <2>1, SumZeros, StakingAssumption
  <2>3. SumFunctionOnSet(spilled, {}) = 0
    BY SumUnfold, StakingAssumption
  <2>4. SumFunctionOnSet(Owed(stakers), Validator) = BuiltinStake * Cardinality(W)
    BY <1>2, OwedInit
  <2>5. \A a \in Account : /\ Endowment + SumFunctionOnSet(OwedTo(stakers, a), Validator) = Initially(a)
                           /\ SumFunctionOnSet(OwedTo(stakers, a), Validator) \in Nat
    BY <1>2, OwedInit, OwedRight
  <2> HIDE DEF W
  <2>6. balance = SumFunctionOnSet(Owed(stakers), Validator) + SumFunctionOnSet(spilled, Account)
    BY <1>3, <2>1, <2>2, <2>3, <2>4
  <2>7. \A a \in Account : wallet[a] = Endowment /\ spilled[a] = 0 /\ Endowment \in Nat
    BY <2>1, StakingAssumption
  <2>8. \A a \in Account : wallet[a] + SumFunctionOnSet(OwedTo(stakers, a), Validator) + spilled[a] = Initially(a)
    BY <2>5, <2>7
  <2> QED
    BY <2>6, <2>8 DEF Balanced
<1> QED
  BY <1>4, <1>5, <1>7, <1>8, <1>9, <1>10 DEF SIInv

\* Every step of the contract, of the refunds and of the selection keeps the
\* invariant.
THEOREM StakingInductive == SSpec => []SIInv
<1>1. SInit => SIInv
  BY InitRight
<1>2. ASSUME SIInv, [SNext]_svars PROVE SIInv'
  <2>1. ASSUME NEW a \in Account, NEW v \in Validator, Call(a, v) PROVE SIInv'
    BY <1>2, <2>1, CallKeeps
  <2>2. CASE StakeOutRun
    BY <1>2, <2>2, StakeOutKeeps
  <2>3. CASE CleanInactiveValidator
    BY <1>2, <2>3, CleanKeeps
  <2>4. CASE NextEpoch
    BY <1>2, <2>4, NextEpochKeeps
  <2>5. CASE UNCHANGED svars
    <3>1. \A b \in Account : Initially(b)' = Initially(b)
      BY DEF Initially, PowOwner
    <3> QED
      BY <1>2, <2>5, <3>1 DEF svars, SIInv, STypeOK, Valid, Bonds, BeforeCleaning, FeesFit,
                            FeeFits, InTime, Balanced, WeightEarned
  <2> QED
    BY <1>2, <2>1, <2>2, <2>3, <2>4, <2>5 DEF SNext
<1> QED
  BY <1>1, <1>2, PTL DEF SSpec

\* RecordsRight for any number of validators and accounts: no call, renewal or
\* refund makes a record that cannot be decoded, a stake above the limit, or
\* a count in the selection above what the term of the stake gives.
THEOREM AlwaysRecordsRight == SSpec => []RecordsRight
<1>1. SIInv => RecordsRight
  <2> SUFFICES ASSUME SIInv PROVE RecordsRight
    OBVIOUS
  <2>1. STypeOK /\ WeightEarned /\ \A v \in Validator : Valid(v)
    BY DEF SIInv
  <2>2. WithinMaxStake
    BY <2>1 DEF WithinMaxStake, Valid, Fit, Present, STypeOK
  <2> QED
    BY <2>1, <2>2 DEF RecordsRight
<1> QED
  BY <1>1, StakingInductive, PTL

\* StakesSafe for any number of validators, accounts and epochs: what an
\* account staked is in its record or was refunded, coreTransfer never skips
\* a refund, and after StakeOutRun nothing that is due is left.
THEOREM AlwaysStakesSafe == SSpec => []StakesSafe
<1>1. SIInv => StakesSafe
  <2> SUFFICES ASSUME SIInv PROVE StakesSafe
    OBVIOUS
  <2>0. STypeOK /\ Balanced /\ InTime
    BY DEF SIInv
  <2>1. /\ stakers \in [Validator -> StakerInfo \cup {None}] /\ spilled \in [Account -> Nat]
    BY <2>0 DEF STypeOK
  <2>2. NobodyLoses
    <3>1. \A a \in Account : Staked(a) = SumFunctionOnSet(OwedTo(stakers, a), Validator)
      BY <2>1, OwedIsStaked DEF Staked
    <3> QED
      BY <2>0, <3>1 DEF NobodyLoses, Balanced
  <2>3. ContractSolvent
    <3>1. SumFunction([v \in Present(stakers) |-> Total(stakers[v])])
            = SumFunctionOnSet(Owed(stakers), Validator)
      BY <2>1, OwedIsTotal
    <3>2. SumFunction(spilled) = SumFunctionOnSet(spilled, Account)
      <4>1. DOMAIN spilled = Account
        BY <2>1
      <4> QED
        BY <4>1, Zenon DEF SumFunction
    <3> QED
      BY <2>0, <3>1, <3>2 DEF ContractSolvent, Balanced
  <2>4. NothingOverdue
    <3> SUFFICES ASSUME outEpoch = epoch, NEW v \in Present(stakers), stakers[v].LockEpochs # 0
                 PROVE  /\ End(stakers[v]) > epoch
                        /\ \A a \in Present(stakers[v].Partners) : End(stakers[v].Partners[a]) > epoch
                        /\ \A a \in Present(stakers[v].Clients) :
                              LET q == stakers[v].Clients[a].QuitEpoch IN q = 0 \/ q > epoch
      BY DEF NothingOverdue
    <3>1. v \in Validator /\ stakers[v] # None /\ stakers[v] \in StakerInfo
      BY <2>1 DEF Present
    <3>2. OnTime(stakers[v], epoch)
      BY <2>0, <3>1 DEF InTime
    <3>3. DOMAIN stakers[v].Partners = Account /\ DOMAIN stakers[v].Clients = Account
      BY <3>1, FieldTypes
    <3> QED
      BY <3>2, <3>3 DEF OnTime, Present
  <2> QED
    BY <2>2, <2>3, <2>4 DEF StakesSafe
<1> QED
  BY <1>1, StakingInductive, PTL

\* BondedWhileWorking for every choice of the constants: the stake on which
\* leaders of an epoch were selected cannot leave before they have done their
\* work, whoever asks to leave in between.
THEOREM AlwaysBondedWhileWorking == SSpec => []BondedWhileWorking
<1>1. SIInv => BondedWhileWorking
  <2> SUFFICES ASSUME SIInv, BeforeCleaning, NEW v \in Validator
               PROVE  /\ OwnInContract(v, chosen[1][v])
                      /\ OwnInContract(v, chosen[2][v])
                      /\ PartnersInContract(v, chosen[2][v])
    BY DEF BondedWhileWorking
  <2>1. \A k \in 1 .. 3 : chosen[k][v] # None => Bonded(stakers[v], chosen[k][v], epoch, k)
    BY DEF SIInv, Bonds
  <2>2. ASSUME NEW k \in 1 .. 2 PROVE OwnInContract(v, chosen[k][v])
    BY <2>1, <2>2 DEF OwnInContract, Bonded, AmountOf
  <2>3. PartnersInContract(v, chosen[2][v])
    <3>1. chosen[2][v] # None => Bonded(stakers[v], chosen[2][v], epoch, 2)
      BY <2>1
    <3> QED
      BY <3>1 DEF PartnersInContract, Bonded, AmountOf
  <2> QED
    BY <2>2, <2>3
<1> QED
  BY <1>1, StakingInductive, PTL

\* FeeAsAnnounced for every choice of the constants: no sequence of fee
\* changes, departures, cleanings and new stakes of a key raises its rate above
\* what its owner announced.
THEOREM AlwaysFeeAsAnnounced == SSpec => []FeeAsAnnounced
<1>1. SIInv => FeeAsAnnounced
  <2> SUFFICES ASSUME SIInv, NEW v \in Present(stakers)
               PROVE  stakers[v].FeeRate <= announced[v]
    BY DEF FeeAsAnnounced
  <2>1. v \in Validator /\ stakers[v] # None
    BY DEF SIInv, STypeOK, Present
  <2>2. FeeFits(v)
    BY <2>1 DEF SIInv, FeesFit
  <2> QED
    BY <2>1, <2>2 DEF FeeFits
<1> QED
  BY <1>1, StakingInductive, PTL

=============================================================================
