------------------------- MODULE RandomBeaconProofs -------------------------
(***************************************************************************)
(* Proofs about the random beacon contract and, in the second half, about  *)
(* the nodes on top of it, for every number of proposers and of nodes,     *)
(* every threshold, every number of epochs and every length of the stages. *)
(***************************************************************************)
EXTENDS BeaconNode, FiniteSetTheorems, SequenceTheorems, TLAPS

\* Every step of the contract keeps the types.
LEMMA TypeStep == ASSUME TypeOK, [Next]_vars PROVE TypeOK'
<1> USE ConstantsAssumption, ThresholdAssumption, GroupAssumption DEF Epochs, TypeOK
<1>1. ASSUME NEW e \in Epochs, NEW p \in Pid, NEW caller \in Address,
             NEW c \in Poly \cup {BadPoly}, dkg1(e, p, caller, c)
      PROVE  TypeOK'
  BY <1>1 DEF dkg1, validDkg1, RScodeVerify
<1>2. ASSUME NEW e \in Epochs, NEW p \in Pid, NEW caller \in Address,
             NEW d \in Poly \cup {BadPoly}, dkg2(e, p, caller, d)
      PROVE  TypeOK'
  <2>1. d \in Poly \cup {None}
    BY <1>2 DEF dkg2, validDkg2
  <2> QED
    BY <1>2, <2>1 DEF dkg2
<1>3. ASSUME NEW e \in Epochs, NEW p \in Pid, NEW caller \in Address,
             NEW s \in Shares, sigShare(e, p, caller, s)
      PROVE  TypeOK'
  <2>1. getSignorsNum(e) \in Nat /\ getSignorsNum(e) + 1 \in 0 .. MaxSignors
    BY <1>3, SMTT(40) DEF sigShare, getSignorsNum
  <2>2. signors' \in [epoch : Nat, num : 0 .. MaxSignors]
    BY <1>3, <2>1 DEF sigShare
  <2>3. DOMAIN R' = FirstEpochId .. LastEpochId + 1 /\ R'[FirstEpochId] = GenesisR
    BY <1>3 DEF sigShare, RandomEpoch
  <2>4. DOMAIN sig' = Epochs /\ \A x \in Epochs : DOMAIN sig'[x] = Pid
    BY <1>3 DEF sigShare, RandomEpoch
  <2> QED
    BY <1>3, <2>2, <2>3, <2>4 DEF sigShare
<1>4. CASE NextSlot
  BY <1>4 DEF NextSlot, store, SlotCount
<1>5. CASE UNCHANGED vars
  BY <1>5 DEF vars
<1> QED
  BY <1>1, <1>2, <1>3, <1>4, <1>5 DEF Next, Transaction

\* The contract's storage keeps its shape under every transaction, valid or
\* not, and block time stays within the modelled epochs.
THEOREM TypeCorrect == Spec => []TypeOK
<1>1. Init => TypeOK
  BY ConstantsAssumption, ThresholdAssumption, GroupAssumption DEF Init, SlotCount, Epochs, TypeOK
<1>2. TypeOK /\ [Next]_vars => TypeOK'
  BY TypeStep
<1> QED
  BY <1>1, <1>2, PTL DEF Spec
-----------------------------------------------------------------------------
(***************************************************************************)
(* The inductive invariant.  SharesAgree and the quorum properties are not *)
(* inductive alone: they need to know that data is stored only in its own  *)
(* stage, so that nothing a stored share depends on can still change, and  *)
(* that the counter of signers never lags behind the stored shares.        *)
(***************************************************************************)

\* Whether epoch e has reached slot s.
Reached(e, s) == e < epoch \/ (e = epoch /\ slot >= s)

Timely ==
    \A e \in Epochs :
        /\ \A p \in Pid : cij[e][p] # None => Reached(e, 0)
        /\ \A p \in Pid : ens[e][p] # None => Reached(e, Dkg2Begin)
        /\ \A p \in Pid : sig[e][p] # NoShare => Reached(e, SignBegin)
        /\ R[e + 1] # NoShare => Reached(e, SignBegin)

CounterCovers ==
    /\ signors.epoch <= epoch
    /\ \A e \in Epochs : Signers(e) # {} => signors.epoch >= e
    /\ \A e \in Epochs :
          signors.epoch = e => Cardinality(Signers(e)) <= signors.num

IInv ==
    /\ TypeOK
    /\ Timely
    /\ CounterCovers
    /\ SharesAgree
    /\ RandomFromQuorum
    /\ QuorumYieldsRandom

\* A finite set with enough elements has a subset of every smaller size.
LEMMA SubsetOfSize ==
    ASSUME NEW S, IsFiniteSet(S), NEW n \in Nat, n <= Cardinality(S)
    PROVE  \E T \in SUBSET S : Cardinality(T) = n
<1> DEFINE m == Cardinality(S)
<1>1. m \in Nat /\ ExistsBijection(1 .. m, S)
  BY FS_CardinalityType
<1>2. PICK f \in Bijection(1 .. m, S) : TRUE
  BY <1>1 DEF ExistsBijection
<1> DEFINE T == {f[i] : i \in 1 .. n}
           g == [i \in 1 .. n |-> f[i]]
<1>3. 1 .. n \subseteq 1 .. m
  BY <1>1
<1>4. T \subseteq S
  BY <1>2, <1>3 DEF Bijection, Injection
<1>5. g \in Bijection(1 .. n, T)
  BY <1>2, <1>3, <1>4 DEF Bijection, Injection, Surjection, IsInjective
<1>6. Cardinality(T) = n
  BY <1>5, FS_CountingElements DEF ExistsBijection
<1> QED
  BY <1>4, <1>6

\* Sets of proposers are finite and their cardinalities are numbers.
LEMMA PidSubsets ==
    ASSUME NEW S \in SUBSET Pid
    PROVE  IsFiniteSet(S) /\ Cardinality(S) \in Nat
BY ThresholdAssumption, FS_Subset, FS_CardinalityType

\* Each transaction of the protocol is confined to its own slots.
LEMMA StageSlots ==
    ASSUME TypeOK
    PROVE  /\ GetRBStage(slot) = RbDkg1Stage => slot < Dkg2Begin
           /\ GetRBStage(slot) = RbDkg2Stage => slot >= Dkg2Begin /\ slot <= Dkg2End
           /\ GetRBStage(slot) = RbSignStage => slot >= SignBegin
           /\ Dkg2End < SignBegin
           /\ Dkg2Begin \in Nat /\ SignBegin \in Nat /\ Dkg2End \in Nat
           /\ slot \in Nat /\ epoch \in Nat
BY ConstantsAssumption
   DEF TypeOK, GetRBStage, Dkg1End, Dkg2Begin, Dkg2End, SignBegin, SignEnd,
       SlotCount, Epochs, RbDkg1Stage, RbDkg1ConfirmStage, RbDkg2Stage,
       RbDkg2ConfirmStage, RbSignStage, RbSignConfirmStage

\* A commitment changes no group key: nobody has dealt yet.
LEMMA StepDkg1 ==
    ASSUME IInv, TypeOK',
           NEW e \in Epochs, NEW p \in Pid, NEW caller \in Address,
           NEW c \in Poly \cup {BadPoly}, dkg1(e, p, caller, c)
    PROVE  IInv'
<1>1. e = epoch /\ slot < Dkg2Begin
  BY StageSlots DEF dkg1, validDkg1, isValidEpochStage, IInv
<1>2. cij' = [cij EXCEPT ![e][p] = c] /\ UNCHANGED <<epoch, slot, ens, sig, signors, R>>
  BY DEF dkg1
<1>3. \A q \in Pid : ens[e][q] = None
  BY <1>1, StageSlots DEF IInv, Timely, Reached
<1>4. ASSUME NEW x \in Epochs
      PROVE  Dealers(x)' = Dealers(x) /\ GroupSignature(x)' = GroupSignature(x)
  <2>1. CASE x = e
    <3>1. Dealers(x) = {} /\ Dealers(x)' = {}
      BY <2>1, <1>2, <1>3 DEF Dealers, IsJoinDKG2
    <3> QED
      BY <3>1, <1>2 DEF GroupSignature, GroupKey, GetRBM, GetR
  <2>2. CASE x # e
    <3>1. cij'[x] = cij[x]
      BY <2>2, <1>2 DEF IInv, TypeOK
    <3> QED
      BY <3>1, <1>2 DEF Dealers, IsJoinDKG2, GroupSignature, GroupKey, GetRBM, GetR
  <2> QED
    BY <2>1, <2>2
<1>5. \A x \in Epochs : Signers(x)' = Signers(x)
  BY <1>2 DEF Signers
<1>6. Timely'
  <2>1. \A x \in Epochs, q \in Pid : cij'[x][q] # None => cij[x][q] # None \/ x = e
    BY <1>2 DEF IInv, TypeOK
  <2> QED
    BY <2>1, <1>1, <1>2, StageSlots DEF IInv, Timely, Reached
<1>7. CounterCovers'
  BY <1>2, <1>5 DEF IInv, CounterCovers
<1>8. SharesAgree'
  BY <1>2, <1>4 DEF IInv, SharesAgree
<1>9. RandomFromQuorum'
  BY <1>2, <1>4, <1>5 DEF IInv, RandomFromQuorum
<1>10. QuorumYieldsRandom'
  BY <1>2, <1>5 DEF IInv, QuorumYieldsRandom
<1> QED
  BY <1>6, <1>7, <1>8, <1>9, <1>10 DEF IInv

\* A dealing changes the group key of an epoch nobody has signed in yet.
LEMMA StepDkg2 ==
    ASSUME IInv, TypeOK',
           NEW e \in Epochs, NEW p \in Pid, NEW caller \in Address,
           NEW d \in Poly \cup {BadPoly}, dkg2(e, p, caller, d)
    PROVE  IInv'
<1>1. e = epoch /\ slot >= Dkg2Begin /\ slot < SignBegin
  BY StageSlots DEF dkg2, validDkg2, isValidEpochStage, IInv
<1>2. ens' = [ens EXCEPT ![e][p] = d] /\ UNCHANGED <<epoch, slot, cij, sig, signors, R>>
  BY DEF dkg2
<1>3. (\A q \in Pid : sig[e][q] = NoShare) /\ R[e + 1] = NoShare
  BY <1>1, StageSlots DEF IInv, Timely, Reached
<1>4. ASSUME NEW x \in Epochs, x # e
      PROVE  Dealers(x)' = Dealers(x) /\ GroupSignature(x)' = GroupSignature(x)
  <2>1. ens'[x] = ens[x]
    BY <1>2, <1>4 DEF IInv, TypeOK
  <2> QED
    BY <2>1, <1>2 DEF Dealers, IsJoinDKG2, GroupSignature, GroupKey, GetRBM, GetR
<1>5. \A x \in Epochs : Signers(x)' = Signers(x)
  BY <1>2 DEF Signers
<1>6. Timely'
  <2>1. \A x \in Epochs, q \in Pid : ens'[x][q] # None => ens[x][q] # None \/ x = e
    BY <1>2 DEF IInv, TypeOK
  <2> QED
    BY <2>1, <1>1, <1>2, StageSlots DEF IInv, Timely, Reached
<1>7. CounterCovers'
  BY <1>2, <1>5 DEF IInv, CounterCovers
<1>8. SharesAgree'
  BY <1>2, <1>3, <1>4 DEF IInv, SharesAgree
<1>9. RandomFromQuorum'
  BY <1>2, <1>3, <1>4, <1>5 DEF IInv, RandomFromQuorum
<1>10. QuorumYieldsRandom'
  BY <1>2, <1>5 DEF IInv, QuorumYieldsRandom
<1> QED
  BY <1>6, <1>7, <1>8, <1>9, <1>10 DEF IInv

\* A share is counted, stored, and completes the random number if it is the
\* one that makes a quorum.
LEMMA StepSigShare ==
    ASSUME IInv, TypeOK',
           NEW e \in Epochs, NEW p \in Pid, NEW caller \in Address,
           NEW s \in Shares, sigShare(e, p, caller, s)
    PROVE  IInv'
<1> DEFINE done == getSignorsNum(e) + 1 >= RBThres /\ computeRandom(e, sig'[e])
<1>1. e = epoch /\ slot >= SignBegin
  BY StageSlots DEF sigShare, validSigShare, isValidEpochStage, IInv
<1>2. /\ sig' = [sig EXCEPT ![e][p] = s]
      /\ signors' = [epoch |-> e, num |-> getSignorsNum(e) + 1]
      /\ R' = IF done THEN [R EXCEPT ![e + 1] = GroupSignature(e)] ELSE R
      /\ UNCHANGED <<epoch, slot, cij, ens>>
  BY DEF sigShare, RandomEpoch
<1>3. s = GroupSignature(e) /\ Cardinality(Dealers(e)) >= RBThres
  BY DEF sigShare, validSigShare
<1>4. \A x \in Epochs : GroupSignature(x) # NoShare
  <2> SUFFICES ASSUME NEW x \in Epochs PROVE GroupSignature(x).key # None
    BY DEF GroupSignature, NoShare
  <2>1. Dealers(x) \in SUBSET Pid /\ GroupKey(x) \in [Dealers(x) -> Poly]
    BY DEF IInv, TypeOK, Dealers, GroupKey
  <2> QED
    BY <2>1, ValuesAssumption DEF GroupSignature, Keys
<1>5. \A x \in Epochs : Dealers(x)' = Dealers(x) /\ GroupKey(x)' = GroupKey(x)
  BY <1>2 DEF Dealers, IsJoinDKG2, GroupKey
<1>6. /\ \A x \in Epochs : x # e => R'[x + 1] = R[x + 1]
      /\ R'[e + 1] = IF done THEN GroupSignature(e) ELSE R[e + 1]
  BY <1>2, ConstantsAssumption, SMTT(40) DEF IInv, TypeOK, Epochs
<1>7. ASSUME NEW x \in Epochs, x <= e
      PROVE  GroupSignature(x)' = GroupSignature(x)
  <2>1. R'[x] = R[x]
    BY <1>2, <1>7, ConstantsAssumption DEF IInv, TypeOK, Epochs
  <2> QED
    BY <2>1, <1>5 DEF GroupSignature, GetRBM, GetR
<1>8. ASSUME NEW x \in Epochs, x > e
      PROVE  /\ \A q \in Pid : sig[x][q] = NoShare /\ sig'[x][q] = NoShare
             /\ R[x + 1] = NoShare /\ R'[x + 1] = NoShare
  <2>1. (\A q \in Pid : sig[x][q] = NoShare) /\ R[x + 1] = NoShare
    BY <1>1, <1>8, StageSlots DEF IInv, Timely, Reached, Epochs
  <2>2. sig'[x] = sig[x] /\ R'[x + 1] = R[x + 1]
    BY <1>2, <1>6, <1>8, ConstantsAssumption DEF IInv, TypeOK, Epochs
  <2> QED
    BY <2>1, <2>2
<1>9. /\ \A x \in Epochs : x # e => sig'[x] = sig[x]
      /\ \A q \in Pid : sig'[e][q] = IF q = p THEN s ELSE sig[e][q]
  BY <1>2 DEF IInv, TypeOK
<1>10. /\ \A x \in Epochs : x # e => Signers(x)' = Signers(x)
       /\ Signers(e)' = Signers(e) \cup {p}
  BY <1>3, <1>4, <1>9 DEF Signers
<1>11. Timely'
  <2>1. \A x \in Epochs, q \in Pid : sig'[x][q] # NoShare => sig[x][q] # NoShare \/ x = e
    BY <1>9
  <2>2. \A x \in Epochs : R'[x + 1] # NoShare => R[x + 1] # NoShare \/ x = e
    BY <1>6
  <2> QED
    BY <2>1, <2>2, <1>1, <1>2, StageSlots DEF IInv, Timely, Reached
<1>12. SharesAgree'
  BY <1>3, <1>7, <1>8, <1>9 DEF IInv, SharesAgree, Epochs
<1>13. Cardinality(Signers(e)') <= getSignorsNum(e) + 1
  <2> DEFINE S == Signers(e)
  <2>0. S \in SUBSET Pid /\ S \cup {p} \in SUBSET Pid
    BY DEF Signers
  <2>1. /\ IsFiniteSet(S) /\ Cardinality(S) \in Nat
        /\ Cardinality(S \cup {p}) \in Nat
    BY <2>0, PidSubsets
  <2>4. Cardinality(S \cup {p}) = IF p \in S THEN Cardinality(S) ELSE Cardinality(S) + 1
    <3> HIDE DEF S
    <3> QED
      BY <2>1, FS_AddElement
  <2>5. Cardinality(S \cup {p}) <= Cardinality(S) + 1
    <3> HIDE DEF S
    <3> QED
      BY <2>1, <2>4
  <2>2. Cardinality(Signers(e)) <= getSignorsNum(e)
    <3>1. CASE Signers(e) = {}
      BY <3>1, FS_EmptySet DEF getSignorsNum, IInv, TypeOK
    <3>2. CASE Signers(e) # {}
      BY <3>2, <1>1 DEF getSignorsNum, IInv, CounterCovers, TypeOK, Epochs
    <3> QED
      BY <3>1, <3>2
  <2>3. getSignorsNum(e) \in Nat
    BY DEF getSignorsNum, IInv, TypeOK
  <2> QED
    <3>1. Signers(e)' = S \cup {p}
      BY <1>10
    <3> HIDE DEF S
    <3>2. Cardinality(S) <= getSignorsNum(e)
      BY <2>2 DEF S
    <3>3. Cardinality(S \cup {p}) <= getSignorsNum(e) + 1
      BY <2>1, <2>3, <2>5, <3>2
    <3> QED
      BY <3>1, <3>3
<1>14. CounterCovers'
  <2>1. signors'.epoch = e /\ signors'.num = getSignorsNum(e) + 1
    BY <1>2
  <2>2. signors'.epoch <= epoch'
    BY <2>1, <1>1, <1>2, StageSlots DEF IInv
  <2>3. \A x \in Epochs : Signers(x)' # {} => e >= x
    BY <1>8 DEF Signers, Epochs
  <2>4. \A x \in Epochs : e = x => Cardinality(Signers(x)') <= signors'.num
    BY <2>1, <1>13
  <2> QED
    BY <2>1, <2>2, <2>3, <2>4 DEF CounterCovers
<1>15. RandomFromQuorum'
  <2> SUFFICES ASSUME NEW x \in Epochs, R'[x + 1] # NoShare
               PROVE  /\ R'[x + 1] = GroupSignature(x)'
                      /\ Cardinality(Dealers(x)') >= RBThres
                      /\ Cardinality(Signers(x)') >= RBThres
    BY DEF RandomFromQuorum
  <2>1. x <= e
    BY <1>8 DEF Epochs
  <2>2. CASE x # e
    BY <2>1, <2>2, <1>5, <1>6, <1>7, <1>10 DEF IInv, RandomFromQuorum
  <2>3. CASE x = e /\ done
    BY <2>1, <2>3, <1>3, <1>5, <1>6, <1>7 DEF computeRandom, Signers
  <2>4. CASE x = e /\ ~done
    <3>1. /\ R[e + 1] = GroupSignature(e)
          /\ Cardinality(Dealers(e)) >= RBThres
          /\ Cardinality(Signers(e)) >= RBThres
      BY <2>4, <1>6 DEF IInv, RandomFromQuorum
    <3>2. Signers(e)' \in SUBSET Pid /\ Signers(e) \in SUBSET Signers(e)'
      BY <1>10 DEF Signers
    <3>3. Cardinality(Signers(e)') >= Cardinality(Signers(e))
      BY <3>2, PidSubsets, FS_Subset
    <3>4. Cardinality(Signers(e)') >= RBThres
      BY <3>1, <3>2, <3>3, PidSubsets, ThresholdAssumption
    <3> QED
      BY <2>1, <2>4, <3>1, <3>4, <1>5, <1>6, <1>7
  <2> QED
    BY <2>2, <2>3, <2>4
<1>16. QuorumYieldsRandom'
  <2> SUFFICES ASSUME NEW x \in Epochs, Cardinality(Signers(x)') >= RBThres
               PROVE  R'[x + 1] # NoShare
    BY DEF QuorumYieldsRandom
  <2>1. CASE x # e
    BY <2>1, <1>6, <1>10 DEF IInv, QuorumYieldsRandom
  <2>2. CASE x = e /\ R[e + 1] # NoShare
    BY <2>2, <1>4, <1>6
  <2>3. CASE x = e /\ R[e + 1] = NoShare
    <3> DEFINE stored == {q \in Pid : sig'[e][q] # NoShare}
    <3>1. stored = Signers(e)'
      BY DEF Signers
    <3>2. stored \in SUBSET Pid /\ Cardinality(stored) >= RBThres
      BY <2>3, <3>1
    <3>3. PICK used \in SUBSET stored : Cardinality(used) = PolymDegree + 1
      BY <3>2, SubsetOfSize, PidSubsets, ThresholdAssumption
    <3>4. \A q \in used : sig'[e][q] = GroupSignature(e)
      BY <3>3, <1>7, <1>12, <2>3 DEF SharesAgree, Epochs
    <3>5. computeRandom(e, sig'[e])
      BY <2>3, <3>2, <3>3, <3>4 DEF computeRandom
    <3>6. getSignorsNum(e) + 1 >= RBThres
      <4>1. getSignorsNum(e) \in Nat /\ Cardinality(stored) \in Nat
        BY <3>2, PidSubsets DEF getSignorsNum, IInv, TypeOK
      <4> QED
        BY <4>1, <3>1, <3>2, <1>13, ThresholdAssumption
    <3> QED
      BY <2>3, <3>5, <3>6, <1>4, <1>6
  <2> QED
    BY <2>1, <2>2, <2>3
<1> QED
  BY <1>11, <1>12, <1>14, <1>15, <1>16 DEF IInv

\* A new slot changes nothing in storage and only adds to what is reached.
LEMMA StepNextSlot ==
    ASSUME IInv, TypeOK', NextSlot
    PROVE  IInv'
<1>1. UNCHANGED <<cij, ens, sig, signors, R>>
  BY DEF NextSlot, store
<1>2. \A x \in Epochs, t \in Nat : Reached(x, t) => Reached(x, t)'
  BY StageSlots, ConstantsAssumption DEF NextSlot, Reached, IInv, TypeOK, Epochs
<1>3. Timely'
  BY <1>1, <1>2, StageSlots DEF IInv, Timely, Dkg2Begin, SignBegin
<1>4. epoch <= epoch'
  BY StageSlots DEF NextSlot, IInv
<1>5. CounterCovers'
  BY <1>1, <1>4, StageSlots DEF IInv, CounterCovers, Signers, TypeOK, Epochs
<1>6. SharesAgree' /\ RandomFromQuorum' /\ QuorumYieldsRandom'
  BY <1>1 DEF IInv, SharesAgree, RandomFromQuorum, QuorumYieldsRandom, Signers,
         Dealers, IsJoinDKG2, GroupSignature, GroupKey, GetRBM, GetR
<1> QED
  BY <1>3, <1>5, <1>6 DEF IInv

\* The invariant holds in every reachable state.
THEOREM Inductive == Spec => []IInv
<1>1. Init => IInv
  <2> SUFFICES ASSUME Init PROVE IInv
    OBVIOUS
  <2>1. TypeOK
    BY ConstantsAssumption DEF Init, TypeOK, Epochs, SlotCount
  <2>2. \A e \in Epochs : Signers(e) = {} /\ R[e + 1] = NoShare
    BY ConstantsAssumption DEF Init, Signers, Epochs
  <2>3. Timely
    BY <2>2 DEF Init, Timely
  <2>4. CounterCovers
    <3>1. signors.epoch = 0 /\ epoch = FirstEpochId /\ \A e \in Epochs : e # 0
      BY ConstantsAssumption DEF Init, Epochs
    <3> QED
      BY <3>1, <2>2, ConstantsAssumption DEF CounterCovers
  <2>5. SharesAgree /\ RandomFromQuorum
    BY <2>2 DEF Init, SharesAgree, RandomFromQuorum
  <2>6. QuorumYieldsRandom
    BY <2>2, FS_EmptySet, ThresholdAssumption DEF QuorumYieldsRandom
  <2> QED
    BY <2>1, <2>3, <2>4, <2>5, <2>6 DEF IInv
<1>2. IInv /\ TypeOK' /\ [Next]_vars => IInv'
  <2> SUFFICES ASSUME IInv, TypeOK', [Next]_vars PROVE IInv'
    OBVIOUS
  <2>1. CASE Transaction
    BY <2>1, StepDkg1, StepDkg2, StepSigShare DEF Transaction
  <2>2. CASE NextSlot
    BY <2>2, StepNextSlot
  <2>3. CASE UNCHANGED vars
    <3>1. Timely'
      BY <2>3 DEF vars, IInv, Timely, Reached
    <3>2. CounterCovers'
      BY <2>3 DEF vars, IInv, CounterCovers, Signers
    <3>3. SharesAgree' /\ RandomFromQuorum' /\ QuorumYieldsRandom'
      BY <2>3 DEF vars, IInv, SharesAgree, RandomFromQuorum, QuorumYieldsRandom,
             Signers, Dealers, IsJoinDKG2, GroupSignature, GroupKey, GetRBM, GetR
    <3> QED
      BY <3>1, <3>2, <3>3 DEF IInv
  <2> QED
    BY <2>1, <2>2, <2>3 DEF Next
<1> QED
  BY <1>1, <1>2, TypeCorrect, PTL DEF Spec

\* All stored shares of an epoch are shares of one key and one message.
THEOREM SharesAlwaysAgree == Spec => []SharesAgree
<1>1. IInv => SharesAgree
  BY DEF IInv
<1> QED
  BY <1>1, Inductive, PTL

\* A random number comes from RBThres dealers and RBThres signers and is the
\* signature of their key.
THEOREM RandomAlwaysFromQuorum == Spec => []RandomFromQuorum
<1>1. IInv => RandomFromQuorum
  BY DEF IInv
<1> QED
  BY <1>1, Inductive, PTL

\* As soon as RBThres different proposers have signed the number is stored.
THEOREM QuorumAlwaysYieldsRandom == Spec => []QuorumYieldsRandom
<1>1. IInv => QuorumYieldsRandom
  BY DEF IInv
<1> QED
  BY <1>1, Inductive, PTL

\* From the end of the second stage on, no transaction changes the key.
THEOREM KeyStaysFixed == Spec => KeyFixedBeforeSigning
<1> DEFINE Fixed == \A e \in Epochs : e < epoch \/ (e = epoch /\ slot > Dkg2End)
                       => GroupKey(e)' = GroupKey(e)
<1>1. ASSUME TypeOK, [Next]_vars PROVE [Fixed]_vars
  <2> SUFFICES ASSUME NEW x \in Epochs, x < epoch \/ (x = epoch /\ slot > Dkg2End)
               PROVE  GroupKey(x)' = GroupKey(x)
    OBVIOUS
  <2>1. ASSUME NEW e \in Epochs, NEW p \in Pid, NEW caller \in Address,
               NEW c \in Poly \cup {BadPoly}, dkg1(e, p, caller, c)
        PROVE  GroupKey(x)' = GroupKey(x)
    <3>1. x # e
      BY <1>1, <2>1, StageSlots, ConstantsAssumption
         DEF dkg1, validDkg1, isValidEpochStage, Dkg2Begin, Dkg2End, Epochs
    <3>2. cij'[x] = cij[x] /\ ens' = ens
      BY <1>1, <2>1, <3>1 DEF dkg1, TypeOK
    <3> QED
      BY <3>2 DEF GroupKey, Dealers, IsJoinDKG2
  <2>2. ASSUME NEW e \in Epochs, NEW p \in Pid, NEW caller \in Address,
               NEW d \in Poly \cup {BadPoly}, dkg2(e, p, caller, d)
        PROVE  GroupKey(x)' = GroupKey(x)
    <3>1. x # e
      BY <1>1, <2>2, StageSlots, ConstantsAssumption
         DEF dkg2, validDkg2, isValidEpochStage, Dkg2Begin, Dkg2End, Epochs
    <3>2. ens'[x] = ens[x] /\ cij' = cij
      BY <1>1, <2>2, <3>1 DEF dkg2, TypeOK
    <3> QED
      BY <3>2 DEF GroupKey, Dealers, IsJoinDKG2
  <2>3. ASSUME NEW e \in Epochs, NEW p \in Pid, NEW caller \in Address,
               NEW s \in Shares, sigShare(e, p, caller, s)
        PROVE  GroupKey(x)' = GroupKey(x)
    BY <2>3 DEF sigShare, GroupKey, Dealers, IsJoinDKG2
  <2>4. CASE NextSlot \/ UNCHANGED vars
    BY <2>4 DEF NextSlot, store, vars, GroupKey, Dealers, IsJoinDKG2
  <2> QED
    BY <1>1, <2>1, <2>2, <2>3, <2>4 DEF Next, Transaction
<1> QED
  BY <1>1, TypeCorrect, PTL DEF Spec, KeyFixedBeforeSigning

\* What GetR returns for an epoch that has begun is settled: a transaction
\* writes at most the number of the epoch after its own, and its own is the
\* epoch of the block.
THEOREM RandomStaysSettled == Spec => RandomSettled
<1> DEFINE Settled == \A e \in Epochs : e <= epoch => GetR(e)' = GetR(e)
<1>1. ASSUME TypeOK, [Next]_vars PROVE [Settled]_vars
  <2> SUFFICES ASSUME NEW x \in Epochs, x <= epoch PROVE R'[x] = R[x]
    BY DEF GetR
  <2>1. ASSUME NEW e \in Epochs, NEW p \in Pid, NEW caller \in Address,
               NEW s \in Shares, sigShare(e, p, caller, s)
        PROVE  R'[x] = R[x]
    <3>1. e = epoch /\ x # RandomEpoch(e)
      BY <2>1, ConstantsAssumption
         DEF sigShare, validSigShare, isValidEpochStage, RandomEpoch, Epochs
    <3>2. x \in DOMAIN R
      BY <1>1, ConstantsAssumption DEF TypeOK, Epochs
    <3> QED
      BY <2>1, <3>1, <3>2 DEF sigShare
  <2>2. ASSUME NEW e \in Epochs, NEW p \in Pid, NEW caller \in Address,
               (\E c \in Poly \cup {BadPoly} : dkg1(e, p, caller, c)) \/
               (\E d \in Poly \cup {BadPoly} : dkg2(e, p, caller, d))
        PROVE  R' = R
    BY <2>2 DEF dkg1, dkg2
  <2>3. ASSUME NextSlot \/ UNCHANGED vars PROVE R' = R
    BY <2>3 DEF NextSlot, store, vars
  <2> QED
    BY <1>1, <2>1, <2>2, <2>3 DEF Next, Transaction
<1>2. [][Settled]_vars => RandomSettled
  BY PTL DEF RandomSettled
<1> QED
  BY <1>1, <1>2, TypeCorrect, PTL DEF Spec

\* Every stored dealing is one of the stored commitment of its proposer.
\* Neither can be replaced: dkg1 and dkg2 refuse a second transaction of the
\* same proposer, and dkg2 one without a commitment.
DealingsCommitted ==
    \A e \in Epochs, p \in Pid :
        IsJoinDKG2(e, p) => cij[e][p] # None /\ ens[e][p] = cij[e][p]

\* Whoever is paid as active in an epoch committed, dealt what it committed
\* to and signed in that epoch.
THEOREM ActiveAlwaysTookPart == Spec => []ActiveTookPart
<1> USE DEF DealingsCommitted, IsJoinDKG2
<1>1. Init => DealingsCommitted
  BY DEF Init
<1>2. TypeOK /\ DealingsCommitted /\ [Next]_vars => DealingsCommitted'
  <2> SUFFICES ASSUME TypeOK, DealingsCommitted, [Next]_vars,
                      NEW x \in Epochs, NEW q \in Pid
               PROVE  (IsJoinDKG2(x, q) => cij[x][q] # None /\ ens[x][q] = cij[x][q])'
    OBVIOUS
  <2>1. ASSUME NEW e \in Epochs, NEW p \in Pid, NEW caller \in Address,
               NEW c \in Poly \cup {BadPoly}, dkg1(e, p, caller, c)
        PROVE  (IsJoinDKG2(x, q) => cij[x][q] # None /\ ens[x][q] = cij[x][q])'
    <3>1. cij[e][p] = None /\ ens[e][p] = None
      BY <2>1 DEF dkg1, validDkg1
    <3>2. x # e \/ q # p => cij'[x][q] = cij[x][q]
      BY <2>1 DEF dkg1, TypeOK
    <3> QED
      BY <2>1, <3>1, <3>2 DEF dkg1
  <2>2. ASSUME NEW e \in Epochs, NEW p \in Pid, NEW caller \in Address,
               NEW d \in Poly \cup {BadPoly}, dkg2(e, p, caller, d)
        PROVE  (IsJoinDKG2(x, q) => cij[x][q] # None /\ ens[x][q] = cij[x][q])'
    <3>1. ens'[e][p] = cij[e][p] /\ cij[e][p] # None
      BY <2>2 DEF dkg2, validDkg2, TypeOK
    <3>2. x # e \/ q # p => ens'[x][q] = ens[x][q]
      BY <2>2 DEF dkg2, TypeOK
    <3> QED
      BY <2>2, <3>1, <3>2 DEF dkg2
  <2>3. ASSUME NEW e \in Epochs, NEW p \in Pid, NEW caller \in Address,
               NEW s \in Shares, sigShare(e, p, caller, s)
        PROVE  UNCHANGED <<cij, ens>>
    BY <2>3 DEF sigShare
  <2>4. ASSUME NextSlot \/ UNCHANGED vars PROVE UNCHANGED <<cij, ens>>
    BY <2>4 DEF NextSlot, store, vars
  <2> QED
    BY <2>1, <2>2, <2>3, <2>4 DEF Next, Transaction
<1>3. DealingsCommitted => ActiveTookPart
  BY DEF ActiveTookPart, IsRBActive, Dealers
<1> QED
  BY <1>1, <1>2, <1>3, TypeCorrect, PTL DEF Spec

\* A group key is a key of the abstract beacon.
LEMMA GroupKeyIsKey ==
    ASSUME TypeOK, NEW e \in Epochs
    PROVE  GroupKey(e) \in Keys /\ GroupKey(e) # None
<1>1. Dealers(e) \in SUBSET Pid /\ GroupKey(e) \in [Dealers(e) -> Poly]
  BY DEF TypeOK, Dealers, GroupKey
<1> QED
  BY <1>1, ValuesAssumption DEF Keys

\* The contract implements the abstract beacon: one key per epoch, fixed
\* before signing; at most one number, determined by it.
THEOREM ContractImplementsBeacon == Spec => ImplementsBeacon
<1> USE DEF AbstractKey
<1>1. Init => B!BInit
  BY ConstantsAssumption DEF Init, B!BInit, Dkg2End
<1>2. ASSUME TypeOK, TypeOK', [Next]_vars PROVE [B!BNext]_(B!bvars)
  <2> USE <1>2
  <2>0. Dkg2End \in Nat /\ slot \in Nat /\ epoch \in Nat /\ epoch \in Epochs /\ Dkg2End < SlotCount - 1
    <3>1. K \in Nat /\ K > 0 /\ SlotCount = 12 * K /\ Dkg2End = 6 * K - 1
      BY ConstantsAssumption DEF SlotCount, Dkg2End
    <3>2. Dkg2End \in Nat /\ Dkg2End < SlotCount - 1 /\ SlotCount \in Nat
      BY <3>1
    <3>3. epoch \in Epochs /\ slot \in Nat
      BY <3>2 DEF TypeOK
    <3>4. epoch \in Nat
      BY <3>3, ConstantsAssumption DEF Epochs
    <3> QED
      BY <3>2, <3>3, <3>4
  <2>1. ASSUME NEW e \in Epochs, NEW p \in Pid, NEW caller \in Address,
               NEW c \in Poly \cup {BadPoly}, dkg1(e, p, caller, c)
        PROVE  UNCHANGED B!bvars
    <3>1. slot <= Dkg2End /\ UNCHANGED <<epoch, slot, R>>
      BY <2>1, StageSlots, ConstantsAssumption
         DEF dkg1, validDkg1, isValidEpochStage, Dkg2Begin, Dkg2End
    <3> QED
      BY <3>1, <2>0 DEF B!bvars
  <2>2. ASSUME NEW e \in Epochs, NEW p \in Pid, NEW caller \in Address,
               NEW d \in Poly \cup {BadPoly}, dkg2(e, p, caller, d)
        PROVE  UNCHANGED B!bvars
    <3>1. slot <= Dkg2End /\ UNCHANGED <<epoch, slot, R>>
      BY <2>2, StageSlots DEF dkg2, validDkg2, isValidEpochStage
    <3> QED
      BY <3>1, <2>0 DEF B!bvars
  <2>3. ASSUME NEW e \in Epochs, NEW p \in Pid, NEW caller \in Address,
               NEW s \in Shares, sigShare(e, p, caller, s)
        PROVE  B!Reveal \/ UNCHANGED B!bvars
    <3>1. e = epoch /\ slot > Dkg2End /\ UNCHANGED <<epoch, slot, cij, ens>>
      BY <2>3, <2>0, StageSlots DEF sigShare, validSigShare, isValidEpochStage, SignBegin
    <3>2. AbstractKey = GroupKey(epoch) /\ UNCHANGED AbstractKey
      BY <3>1 DEF GroupKey, Dealers, IsJoinDKG2
    <3>3. CASE R' = R
      BY <3>1, <3>2, <3>3 DEF B!bvars
    <3>4. CASE R' # R
      <4>1. R[e + 1] = NoShare /\ R' = [R EXCEPT ![e + 1] = GroupSignature(e)]
        BY <2>3, <3>4 DEF sigShare, RandomEpoch, computeRandom
      <4>2. GroupSignature(epoch) = B!Outcome
        BY <3>2 DEF GroupSignature, GetRBM, GetR, B!Outcome, B!Used
      <4> QED
        BY <4>1, <4>2, <3>1, <3>2, GroupKeyIsKey DEF B!Reveal
    <3> QED
      BY <3>3, <3>4
  <2>4. CASE NextSlot
    <3>1. UNCHANGED R /\ \A x \in Epochs : GroupKey(x)' = GroupKey(x)
      BY <2>4 DEF NextSlot, store, GroupKey, Dealers, IsJoinDKG2
    <3>2. CASE slot < SlotCount - 1
      <4>1. slot' = slot + 1 /\ epoch' = epoch
        BY <2>4, <3>2, <2>0 DEF NextSlot
      <4>2. CASE slot = Dkg2End
        BY <4>1, <4>2, <3>1, <2>0, GroupKeyIsKey DEF B!BNext, B!Fix
      <4>3. CASE slot # Dkg2End
        BY <4>1, <4>3, <3>1, <2>0 DEF B!bvars
      <4> QED
        BY <4>2, <4>3
    <3>3. CASE slot = SlotCount - 1
      <4>1. slot' = 0 /\ epoch' = epoch + 1 /\ epoch < LastEpochId
        BY <2>4, <3>3, <2>0 DEF NextSlot
      <4> QED
        BY <4>1, <3>1, <3>3, <2>0, GroupKeyIsKey DEF B!BNext, B!Advance
    <3> QED
      BY <2>4, <3>2, <3>3 DEF NextSlot
  <2>5. CASE UNCHANGED vars
    BY <2>5 DEF vars, B!bvars, GroupKey, Dealers, IsJoinDKG2
  <2> QED
    BY <2>1, <2>2, <2>3, <2>4, <2>5 DEF Next, Transaction, B!BNext
<1> QED
  BY <1>1, <1>2, TypeCorrect, PTL DEF Spec, ImplementsBeacon, B!BSpec

-----------------------------------------------------------------------------
(***************************************************************************)
(* The nodes and a chain that replaces branches.                           *)
(*                                                                         *)
(* The states the chain is in or can fall back to lie on one line: each is *)
(* a slot after the next, and none is more than MaxReorg slots behind the  *)
(* clock.  So what a stage has settled is the same in all of them once the *)
(* confirmation stage after it is over by the clock, and a node that reads *)
(* any of them then reads what the others have.                            *)
(***************************************************************************)

\* Slots counted over the epochs, for the chain and for the clock.
Time(e, s) == e * SlotCount + s
Now == Time(epoch, slot)
Clock == Time(clockEpoch, clockSlot)

\* The state of the chain and the states it can fall back to.
Line(i) == IF i = 0 THEN Snapshot ELSE hist[i]

\* State S is past slot s of epoch e.
Past(S, e, s) == S.epoch > e \/ (S.epoch = e /\ S.slot > s)

\* The elements of a sequence.
Elements(h) == {h[i] : i \in 1 .. Len(h)}

\* The places of the states: the chain's is no later than the clock, the
\* earlier ones each a slot behind the next, none more than MaxReorg behind.
Placed ==
    /\ hist \in Seq(Elements(hist))
    /\ clockEpoch \in Epochs /\ clockSlot \in 0 .. SlotCount - 1
    /\ Now <= Clock /\ Len(hist) + Clock <= MaxReorg + Now
    /\ \A i \in 1 .. Len(hist) : Time(hist[i].epoch, hist[i].slot) + i = Now + 1

\* What the contract guarantees of each state: its types, and that dealings
\* fit commitments, which nodes have sent.
SoundState(S) ==
    /\ S.epoch \in Epochs /\ S.slot \in 0 .. SlotCount - 1
    /\ S.cij \in [Epochs -> [Pid -> Poly \cup {None}]]
    /\ S.ens \in [Epochs -> [Pid -> Poly \cup {None}]]
    /\ DOMAIN S.sig = Epochs /\ \A e \in Epochs : DOMAIN S.sig[e] = Pid
    /\ S.signors \in [epoch : Nat, num : 0 .. MaxSignors]
    /\ DOMAIN S.R = FirstEpochId .. LastEpochId + 1 /\ S.R[FirstEpochId] = GenesisR
    /\ \A e \in Epochs, p \in Pid : S.ens[e][p] # None => S.ens[e][p] = S.cij[e][p]

\* Every commitment in S was sent by the proposer it is stored for.
Committed(S) ==
    \A e \in Epochs, p \in Pid :
        S.cij[e][p] # None => Tx("dkg1", e, p, Group[e][p], S.cij[e][p]) \in sent

\* All states of the line are sound.
Sound == \A i \in 0 .. Len(hist) : SoundState(Line(i)) /\ Committed(Line(i))

\* A stage that is over is the same in S and T.
SameSettled(S, T) ==
    \A e \in Epochs :
        /\ Past(S, e, Dkg1End) => S.cij[e] = T.cij[e]
        /\ Past(S, e, Dkg2End) => S.ens[e] = T.ens[e]
        /\ S.epoch >= e => S.R[e] = T.R[e]

\* The states of the line agree on what is settled.
LineSettled == \A i \in 0 .. Len(hist) : SameSettled(Line(i), Snapshot)

\* No node is ahead of the clock.
Follows ==
    \A n \in Node : epochId[n] \in Epochs => epochId[n] <= clockEpoch

\* A transaction is that of a member of the epoch's group, and of no later
\* epoch than the one its sender follows.
Member(tx) ==
    /\ tx = Tx(tx.type, tx.epoch, tx.pid, tx.from, tx.data)
    /\ tx.type \in {"dkg1", "dkg2", "sig"} /\ tx.epoch \in Epochs /\ tx.pid \in Pid
    /\ tx.from \in Node /\ tx.from = Group[tx.epoch][tx.pid]
    /\ tx.type \in {"dkg1", "dkg2"} => tx.data \in Poly
    /\ tx.epoch <= clockEpoch
    /\ epochId[tx.from] \in Epochs => tx.epoch <= epochId[tx.from]

\* A node has the polynomial it committed to, in its database and, in the
\* epoch it works on, in its memory.
Keeps(tx) ==
    tx.type = "dkg1" /\ <<tx.epoch, tx.pid>> \notin torn =>
        /\ rbPolys[tx.from][tx.epoch][tx.pid] = tx.data
        /\ epochId[tx.from] = tx.epoch => polys[tx.from][tx.pid] = tx.data

\* The dealing fits the commitment on every branch.
Deals(tx, S) ==
    tx.type = "dkg2" /\ <<tx.epoch, tx.pid>> \notin torn =>
        Past(S, tx.epoch, Dkg1End) /\ S.cij[tx.epoch][tx.pid] = tx.data

\* The signature a state accepts in epoch e.
SignatureAt(S, e) ==
    [key |-> [p \in {q \in Pid : S.ens[e][q] # None /\ S.cij[e][q] # None} |-> S.cij[e][p]],
     msg |-> [next |-> e + 1, prev |-> IF S.R[e] # NoShare THEN S.R[e] ELSE GenesisR]]

\* The share verifies on every branch.
Signs(tx, S) ==
    tx.type = "sig" => Past(S, tx.epoch, Dkg2End) /\ tx.data = SignatureAt(S, tx.epoch)

\* What holds of every transaction sent.
Sendings ==
    \A tx \in sent :
        /\ Member(tx) /\ Keeps(tx)
        /\ \A i \in 0 .. Len(hist) : Deals(tx, Line(i)) /\ Signs(tx, Line(i))

\* The inductive invariant of the nodes.
NIInv == NTypeOK /\ Placed /\ Sound /\ LineSettled /\ Follows /\ Sendings

\* The stages of an epoch in slots.
LEMMA StageNumbers ==
    /\ K \in Nat \ {0} /\ SlotCount \in Nat \ {0} /\ SlotCount = 12 * K
    /\ Dkg1End \in Nat /\ Dkg2End \in Nat /\ Dkg1End = 2 * K - 1 /\ Dkg2End = 6 * K - 1
    /\ Dkg1End < Dkg2End /\ Dkg2End < SlotCount
    /\ \A e \in Epochs : e \in Nat
BY ConstantsAssumption DEF SlotCount, Dkg1End, Dkg2End, Epochs

\* Times are ordered by epoch and slot.
LEMMA TimeOrder ==
    ASSUME NEW e \in Nat, NEW s \in 0 .. SlotCount - 1,
           NEW f \in Nat, NEW t \in 0 .. SlotCount - 1, Time(e, s) <= Time(f, t)
    PROVE  e < f \/ (e = f /\ s <= t)
<1> DEFINE L == SlotCount
<1>1. L \in Nat \ {0}
  BY StageNumbers
<1>2. e * L \in Nat /\ f * L \in Nat /\ e * L + s <= f * L + t /\ s \in Nat /\ t \in Nat /\ t < L
  BY <1>1 DEF Time
<1> HIDE DEF L
<1>3. CASE f < e
  <2>1. (f + 1) * L <= e * L
    <3>1. e - (f + 1) \in Nat
      BY <1>3
    <3>2. (e - (f + 1)) * L \in Nat
      BY <3>1, <1>1
    <3>3. (e - (f + 1)) * L = e * L - (f + 1) * L
      BY <1>1
    <3>4. (f + 1) * L \in Nat
      BY <1>1
    <3> QED
      BY <3>2, <3>3, <3>4, <1>2
  <2>2. (f + 1) * L = f * L + L
    BY <1>1
  <2> QED
    BY <1>1, <1>2, <2>1, <2>2
<1>4. CASE e = f
  BY <1>2, <1>4
<1> QED
  BY <1>3, <1>4

\* A time is a number.
LEMMA TimeNat ==
    ASSUME NEW e \in Epochs, NEW s \in 0 .. SlotCount - 1
    PROVE  Time(e, s) \in Nat
BY StageNumbers DEF Time

\* S is no later than T.
NotAfter(S, T) == S.epoch < T.epoch \/ (S.epoch = T.epoch /\ S.slot <= T.slot)

\* T is a state after S in which what is settled in S is the same.
Later(S, T) == NotAfter(S, T) /\ SameSettled(S, T)

\* The time of S is one of the modelled epochs.
InTime(S) == S.epoch \in Epochs /\ S.slot \in 0 .. SlotCount - 1

\* What is past stays so.
LEMMA PastStays ==
    ASSUME NEW S, NEW T, InTime(S), InTime(T), NotAfter(S, T), NEW e \in Epochs, NEW s \in Nat,
           Past(S, e, s)
    PROVE  Past(T, e, s)
BY StageNumbers DEF InTime, NotAfter, Past

\* Being later is transitive.
LEMMA LaterTransitive ==
    ASSUME NEW S, NEW T, NEW U, InTime(S), InTime(T), InTime(U), Later(S, T), Later(T, U)
    PROVE  Later(S, U)
<1>1. NotAfter(S, U)
  BY StageNumbers DEF InTime, Later, NotAfter
<1>2. ASSUME NEW e \in Epochs
      PROVE  /\ Past(S, e, Dkg1End) => S.cij[e] = U.cij[e]
             /\ Past(S, e, Dkg2End) => S.ens[e] = U.ens[e]
             /\ S.epoch >= e => S.R[e] = U.R[e]
  <2>1. Past(S, e, Dkg1End) => Past(T, e, Dkg1End)
    BY PastStays, StageNumbers DEF Later
  <2>2. Past(S, e, Dkg2End) => Past(T, e, Dkg2End)
    BY PastStays, StageNumbers DEF Later
  <2>3. S.epoch >= e => T.epoch >= e
    BY StageNumbers DEF InTime, Later, NotAfter
  <2> QED
    BY <2>1, <2>2, <2>3 DEF Later, SameSettled
<1> QED
  BY <1>1, <1>2 DEF Later, SameSettled

\* Of two states that are settled as a third, the later is settled as the
\* earlier.
LEMMA LaterOfTwo ==
    ASSUME NEW S, NEW T, NEW U, InTime(S), InTime(T), NotAfter(S, T),
           SameSettled(S, U), SameSettled(T, U)
    PROVE  Later(S, T)
<1>1. ASSUME NEW e \in Epochs
      PROVE  /\ Past(S, e, Dkg1End) => S.cij[e] = T.cij[e]
             /\ Past(S, e, Dkg2End) => S.ens[e] = T.ens[e]
             /\ S.epoch >= e => S.R[e] = T.R[e]
  <2>1. Past(S, e, Dkg1End) => Past(T, e, Dkg1End)
    BY PastStays, StageNumbers
  <2>2. Past(S, e, Dkg2End) => Past(T, e, Dkg2End)
    BY PastStays, StageNumbers
  <2>3. S.epoch >= e => T.epoch >= e
    BY StageNumbers DEF InTime, NotAfter
  <2> QED
    BY <2>1, <2>2, <2>3 DEF SameSettled
<1> QED
  BY <1>1 DEF Later, SameSettled

\* A dealing and a share that fit a state fit every later one.
LEMMA LaterFits ==
    ASSUME NEW S, NEW T, InTime(S), InTime(T), Later(S, T),
           NEW tx, tx.epoch \in Epochs, Deals(tx, S), Signs(tx, S)
    PROVE  Deals(tx, T) /\ Signs(tx, T)
<1> DEFINE e == tx.epoch
<1>1. e \in Epochs /\ Dkg1End \in Nat /\ Dkg2End \in Nat /\ SameSettled(S, T) /\ NotAfter(S, T)
  BY StageNumbers DEF Later
<1>2. Deals(tx, T)
  <2> SUFFICES ASSUME tx.type = "dkg2" /\ <<tx.epoch, tx.pid>> \notin torn
               PROVE  Past(T, e, Dkg1End) /\ T.cij[e][tx.pid] = tx.data
    BY DEF Deals
  <2>1. Past(S, e, Dkg1End) /\ S.cij[e][tx.pid] = tx.data
    BY DEF Deals
  <2>2. S.cij[e] = T.cij[e]
    BY <1>1, <2>1 DEF SameSettled
  <2> QED
    BY <1>1, <2>1, <2>2, PastStays
<1>3. Signs(tx, T)
  <2> SUFFICES ASSUME tx.type = "sig"
               PROVE  Past(T, e, Dkg2End) /\ tx.data = SignatureAt(T, e)
    BY DEF Signs
  <2>1. Past(S, e, Dkg2End) /\ tx.data = SignatureAt(S, e)
    BY DEF Signs
  <2>2. Past(S, e, Dkg1End) /\ S.epoch >= e
    BY <2>1, StageNumbers DEF Past, InTime
  <2>3. S.cij[e] = T.cij[e] /\ S.ens[e] = T.ens[e] /\ S.R[e] = T.R[e]
    BY <1>1, <2>1, <2>2 DEF SameSettled
  <2>4. SignatureAt(S, e) = SignatureAt(T, e)
    BY <2>3 DEF SignatureAt
  <2> QED
    BY <1>1, <2>1, <2>4, PastStays
<1> QED
  BY <1>2, <1>3

\* The slots of the stages.
LEMMA SlotsOfStage ==
    ASSUME NEW s \in Nat
    PROVE  /\ GetRBStage(s) \in 1 .. 6
           /\ GetRBStage(s) = RbDkg1Stage <=> s <= 2 * K - 1
           /\ GetRBStage(s) = RbDkg2Stage <=> s >= 4 * K /\ s <= 6 * K - 1
           /\ GetRBStage(s) >= RbDkg2Stage <=> s >= 4 * K
           /\ GetRBStage(s) = RbSignStage <=> s >= 8 * K /\ s <= 10 * K - 1
           /\ GetRBStage(s) >= RbSignStage <=> s >= 8 * K
BY ConstantsAssumption
   DEF GetRBStage, Dkg1End, Dkg2Begin, Dkg2End, SignBegin, SignEnd, RbDkg1Stage,
       RbDkg1ConfirmStage, RbDkg2Stage, RbDkg2ConfirmStage, RbSignStage, RbSignConfirmStage

\* The fields of the chain's state, before and after a step.
LEMMA SnapshotIs ==
    /\ Snapshot.epoch = epoch /\ Snapshot.slot = slot /\ Snapshot.cij = cij /\ Snapshot.ens = ens
    /\ Snapshot.sig = sig /\ Snapshot.signors = signors /\ Snapshot.R = R
    /\ Snapshot'.epoch = epoch' /\ Snapshot'.slot = slot' /\ Snapshot'.cij = cij'
    /\ Snapshot'.ens = ens' /\ Snapshot'.sig = sig' /\ Snapshot'.signors = signors'
    /\ Snapshot'.R = R'
BY DEF Snapshot

\* A sound state of the chain has the types of the contract, and the other
\* way round.
LEMMA SoundTypes ==
    /\ SoundState(Snapshot) <=>
          TypeOK /\ \A e \in Epochs, p \in Pid : ens[e][p] # None => ens[e][p] = cij[e][p]
    /\ SoundState(Snapshot') <=>
          TypeOK' /\ \A e \in Epochs, p \in Pid : ens'[e][p] # None => ens'[e][p] = cij'[e][p]
BY SnapshotIs DEF SoundState, TypeOK

\* The line of states is sound, and the chain's state is its latest.
LEMMA LineRight ==
    ASSUME NIInv
    PROVE  /\ Len(hist) \in Nat
           /\ \A i \in 0 .. Len(hist) :
                 /\ SoundState(Line(i)) /\ InTime(Line(i)) /\ Committed(Line(i))
                 /\ Time(Line(i).epoch, Line(i).slot) <= Now
                 /\ Later(Line(i), Snapshot)
           /\ Now \in Nat /\ Clock \in Nat /\ TypeOK
<1>1. Len(hist) \in Nat
  BY LenProperties DEF NIInv, Placed
<1>2. \A i \in 0 .. Len(hist) : SoundState(Line(i)) /\ InTime(Line(i)) /\ Committed(Line(i))
  BY DEF NIInv, Sound, SoundState, InTime
<1>3. SoundState(Snapshot) /\ InTime(Snapshot) /\ TypeOK
  BY <1>1, <1>2, SoundTypes DEF Line
<1>4. Now \in Nat /\ Clock \in Nat
  BY <1>3, TimeNat, SnapshotIs DEF InTime, Now, Clock, NIInv, Placed
<1>5. ASSUME NEW i \in 0 .. Len(hist)
      PROVE  Time(Line(i).epoch, Line(i).slot) <= Now /\ Later(Line(i), Snapshot)
  <2>1. Time(Line(i).epoch, Line(i).slot) <= Now
    <3>1. CASE i = 0
      BY <1>4, <3>1, SnapshotIs DEF Line, Now
    <3>2. CASE i # 0
      <4>1. i \in 1 .. Len(hist) /\ Line(i) = hist[i]
        BY <1>1, <3>2 DEF Line
      <4>2. Time(hist[i].epoch, hist[i].slot) + i = Now + 1
        BY <4>1 DEF NIInv, Placed
      <4>3. Time(hist[i].epoch, hist[i].slot) \in Nat
        BY <1>2, <4>1, TimeNat DEF InTime
      <4> QED
        BY <1>1, <1>4, <4>1, <4>2, <4>3
    <3> QED
      BY <3>1, <3>2
  <2>2. InTime(Line(i))
    BY <1>2
  <2>3. NotAfter(Line(i), Snapshot)
    BY <1>3, <2>1, <2>2, TimeOrder, SnapshotIs, StageNumbers DEF InTime, Now, NotAfter
  <2> QED
    BY <2>1, <2>3 DEF Later, NIInv, LineSettled
<1> QED
  BY <1>1, <1>2, <1>3, <1>4, <1>5

\* What was sent fits the line of states after a step of the chain, whose
\* states are old ones or follow them.
LEMMA SendingsFit ==
    ASSUME NIInv, UNCHANGED <<sent, torn, rbPolys, epochId, polys>>,
           clockEpoch' \in Epochs, clockEpoch <= clockEpoch',
           NEW m \in Nat, Len(hist') = m,
           \A i \in 0 .. m : InTime(Line(i)') /\ \E j \in 0 .. Len(hist) : Later(Line(j), Line(i)')
    PROVE  Sendings'
<1> SUFFICES ASSUME NEW tx \in sent, NEW i \in 0 .. m
             PROVE  Member(tx)' /\ Keeps(tx)' /\ Deals(tx, Line(i))' /\ Signs(tx, Line(i))'
  <2>1. sent' = sent /\ Len(hist)' = m
    OBVIOUS
  <2>2. 0 \in 0 .. m
    OBVIOUS
  <2> QED
    BY <2>1, <2>2 DEF Sendings
<1>1. Member(tx) /\ Keeps(tx)
  BY DEF NIInv, Sendings
<1>2. tx.epoch \in Epochs /\ tx.epoch <= clockEpoch'
  BY <1>1, StageNumbers DEF Member, NIInv, Placed
<1>3. Member(tx)' /\ Keeps(tx)'
  BY <1>1, <1>2 DEF Member, Keeps
<1>4. PICK j \in 0 .. Len(hist) : Later(Line(j), Line(i)')
  OBVIOUS
<1>5. Deals(tx, Line(j)) /\ Signs(tx, Line(j)) /\ InTime(Line(j)) /\ InTime(Line(i)')
  BY LineRight DEF NIInv, Sendings
<1>6. Deals(tx, Line(i)') /\ Signs(tx, Line(i)')
  BY <1>2, <1>4, <1>5, LaterFits
<1>7. Deals(tx, Line(i))' /\ Signs(tx, Line(i))'
  BY <1>6 DEF Deals, Signs, SignatureAt, Past
<1> QED
  BY <1>3, <1>7

\* A transaction in a block changes nothing that is settled.
LEMMA IncludeSettles ==
    ASSUME TypeOK, NEW tx, Include(tx)
    PROVE  SameSettled(Snapshot, Snapshot') /\ UNCHANGED <<epoch, slot>>
<1>1. UNCHANGED <<epoch, slot>> /\ slot \in Nat /\ epoch \in Nat
  BY StageNumbers, SMTT(20) DEF Include, dkg1, dkg2, sigShare, TypeOK
<1>2. ASSUME NEW e \in Epochs, Past(Snapshot, e, Dkg1End) PROVE cij'[e] = cij[e]
  <2>1. ASSUME dkg1(tx.epoch, tx.pid, tx.from, tx.data) PROVE tx.epoch # e
    <3>1. tx.epoch = epoch /\ slot <= Dkg1End
      BY <1>1, <2>1, SlotsOfStage, StageNumbers DEF dkg1, validDkg1, isValidEpochStage
    <3> QED
      BY <1>1, <1>2, <3>1, StageNumbers, SnapshotIs DEF Past
  <2>2. cij' = cij \/ (dkg1(tx.epoch, tx.pid, tx.from, tx.data)
                       /\ cij' = [cij EXCEPT ![tx.epoch][tx.pid] = tx.data])
    BY DEF Include, dkg1, dkg2, sigShare
  <2> QED
    BY <2>1, <2>2 DEF TypeOK
<1>3. ASSUME NEW e \in Epochs, Past(Snapshot, e, Dkg2End) PROVE ens'[e] = ens[e]
  <2>1. ASSUME dkg2(tx.epoch, tx.pid, tx.from, tx.data) PROVE tx.epoch # e
    <3>1. tx.epoch = epoch /\ slot <= Dkg2End
      BY <1>1, <2>1, SlotsOfStage, StageNumbers DEF dkg2, validDkg2, isValidEpochStage
    <3> QED
      BY <1>1, <1>3, <3>1, StageNumbers, SnapshotIs DEF Past
  <2>2. ens' = ens \/ (dkg2(tx.epoch, tx.pid, tx.from, tx.data)
                       /\ ens' = [ens EXCEPT ![tx.epoch][tx.pid] = tx.data])
    BY DEF Include, dkg1, dkg2, sigShare
  <2> QED
    BY <2>1, <2>2 DEF TypeOK
<1>4. ASSUME NEW e \in Epochs, epoch >= e PROVE R'[e] = R[e]
  <2>1. R' = R \/ (tx.epoch = epoch /\ R' = [R EXCEPT ![tx.epoch + 1] = GroupSignature(tx.epoch)])
    BY DEF Include, dkg1, dkg2, sigShare, validSigShare, isValidEpochStage, RandomEpoch
  <2>2. e \in DOMAIN R /\ e # epoch + 1
    BY <1>1, <1>4, ConstantsAssumption, StageNumbers DEF TypeOK, Epochs
  <2> QED
    BY <2>1, <2>2
<1> QED
  BY <1>1, <1>2, <1>3, <1>4, SnapshotIs DEF SameSettled

\* A transaction in a block keeps the invariant.
LEMMA IncludeStep == ASSUME NIInv, NEW tx \in sent, Include(tx) PROVE NIInv'
<1>1. Member(tx)
  BY DEF NIInv, Sendings
<1>2. UNCHANGED <<clock, hist, nodeVars>> /\ TypeOK
  BY LineRight DEF Include
<1>3. SameSettled(Snapshot, Snapshot') /\ UNCHANGED <<epoch, slot>>
  BY <1>2, IncludeSettles
<1>4. TypeOK'
  <2>1. tx.epoch \in Epochs /\ tx.pid \in Pid /\ tx.from \in Address
        /\ (tx.type \in {"dkg1", "dkg2"} => tx.data \in Poly)
    BY <1>1, NodeAssumption DEF Member
  <2>2. ASSUME sigShare(tx.epoch, tx.pid, tx.from, tx.data) PROVE tx.data \in Shares
    BY <2>1, <2>2 DEF sigShare, validSigShare, Shares
  <2>3. Transaction
    BY <2>1, <2>2 DEF Include, Transaction
  <2> QED
    BY <1>2, <2>3, TypeStep DEF Next
<1>5. ASSUME NEW e \in Epochs, NEW p \in Pid
      PROVE  /\ cij'[e][p] = cij[e][p]
                \/ (tx = Tx("dkg1", e, p, Group[e][p], cij'[e][p]) /\ cij[e][p] = None)
             /\ ens'[e][p] = ens[e][p] \/ ens'[e][p] = cij'[e][p]
  <2>1. CASE tx.type = "dkg1" /\ dkg1(tx.epoch, tx.pid, tx.from, tx.data)
    <3>1. /\ cij' = [cij EXCEPT ![tx.epoch][tx.pid] = tx.data] /\ ens' = ens
          /\ cij[tx.epoch][tx.pid] = None
      BY <2>1 DEF dkg1, validDkg1
    <3>2. CASE e = tx.epoch /\ p = tx.pid
      <4>1. cij'[e][p] = tx.data
        BY <1>2, <3>1, <3>2 DEF TypeOK
      <4> QED
        BY <1>1, <2>1, <3>1, <3>2, <4>1 DEF Member
    <3>3. CASE ~(e = tx.epoch /\ p = tx.pid)
      BY <1>2, <3>1, <3>3 DEF TypeOK
    <3> QED
      BY <3>2, <3>3
  <2>2. CASE tx.type = "dkg2" /\ dkg2(tx.epoch, tx.pid, tx.from, tx.data)
    <3>1. /\ ens' = [ens EXCEPT ![tx.epoch][tx.pid] = tx.data] /\ cij' = cij
          /\ tx.data = cij[tx.epoch][tx.pid]
      BY <2>2 DEF dkg2, validDkg2
    <3> QED
      BY <1>2, <3>1 DEF TypeOK
  <2>3. CASE tx.type = "sig" /\ sigShare(tx.epoch, tx.pid, tx.from, tx.data)
    BY <2>3 DEF sigShare
  <2> QED
    BY <2>1, <2>2, <2>3 DEF Include
<1>6. SoundState(Snapshot') /\ Committed(Snapshot)' /\ InTime(Snapshot')
  <2>1. \A e \in Epochs, p \in Pid : ens[e][p] # None => ens[e][p] = cij[e][p]
    BY LineRight, SoundTypes DEF Line
  <2>2. \A e \in Epochs, p \in Pid : ens'[e][p] # None => ens'[e][p] = cij'[e][p]
    BY <1>5, <2>1
  <2>3. SoundState(Snapshot')
    BY <1>4, <2>2, SoundTypes
  <2>4. Committed(Snapshot)
    BY LineRight DEF Line
  <2>5. sent' = sent
    BY <1>2 DEF nodeVars
  <2>6. Committed(Snapshot)'
    BY <1>5, <2>4, <2>5, SnapshotIs DEF Committed
  <2> QED
    BY <2>3, <2>6 DEF SoundState, InTime
<1>7. Len(hist) \in Nat /\ Len(hist)' = Len(hist)
      /\ \A i \in 1 .. Len(hist) : Line(i)' = Line(i) /\ Line(i) = hist[i]
  BY <1>2, LineRight DEF Line
<1>8. Line(0) = Snapshot /\ Line(0)' = Snapshot'
  BY DEF Line
<1>9. Later(Snapshot, Snapshot')
  BY <1>3, LineRight, SnapshotIs, StageNumbers DEF Later, NotAfter, TypeOK
<1>10. \A i \in 0 .. Len(hist) : Later(Line(i), Snapshot')
  BY <1>6, <1>9, LineRight, LaterTransitive, <1>8, <1>7
<1>11. Placed'
  BY <1>2, <1>3 DEF NIInv, Placed, Now, Clock, Time, clock, Elements
<1>12. Sound'
  <2>1. ASSUME NEW i \in 0 .. Len(hist) PROVE SoundState(Line(i))' /\ Committed(Line(i))'
    <3>1. CASE i = 0
      <4>1. SoundState(Snapshot)' /\ Committed(Snapshot)'
        BY <1>6 DEF SoundState
      <4> QED
        BY <3>1, <4>1 DEF Line
    <3>2. CASE i # 0
      <4>1. Line(i)' = Line(i) /\ SoundState(Line(i)) /\ Committed(Line(i)) /\ sent' = sent
        BY <1>2, <1>7, <3>2, LineRight DEF nodeVars
      <4> QED
        BY <4>1 DEF SoundState, Committed
    <3> QED
      BY <3>1, <3>2
  <2> QED
    BY <1>7, <2>1 DEF Sound
<1>13. LineSettled'
  <2>1. ASSUME NEW i \in 0 .. Len(hist) PROVE SameSettled(Line(i), Snapshot)'
    <3>1. CASE i = 0
      <4>1. SameSettled(Snapshot, Snapshot)'
        BY DEF SameSettled
      <4> QED
        BY <3>1, <4>1 DEF Line
    <3>2. CASE i # 0
      <4>1. SameSettled(Line(i), Snapshot') /\ Line(i)' = Line(i)
        BY <1>7, <1>10, <3>2 DEF Later
      <4> QED
        BY <4>1 DEF SameSettled, Past
    <3> QED
      BY <3>1, <3>2
  <2> QED
    BY <1>7, <2>1 DEF LineSettled
<1>14. NTypeOK' /\ Follows'
  BY <1>2 DEF NIInv, NTypeOK, Follows, nodeVars, clock
<1>15. Sendings'
  <2>1. UNCHANGED <<sent, torn, rbPolys, epochId, polys, clockEpoch>>
    BY <1>2 DEF nodeVars, clock
  <2>2. clockEpoch' \in Epochs /\ clockEpoch <= clockEpoch'
    BY <2>1, StageNumbers DEF NIInv, Placed
  <2>3. ASSUME NEW i \in 0 .. Len(hist)
        PROVE  InTime(Line(i)') /\ \E j \in 0 .. Len(hist) : Later(Line(j), Line(i)')
    <3>1. CASE i = 0
      BY <1>6, <1>7, <1>8, <1>9, <3>1
    <3>2. CASE i # 0
      <4>1. Line(i)' = Line(i) /\ InTime(Line(i))
        BY <1>7, <3>2, LineRight
      <4>2. Later(Line(i), Line(i))
        BY <4>1, StageNumbers DEF Later, NotAfter, SameSettled, InTime
      <4> QED
        BY <4>1, <4>2
    <3> QED
      BY <3>1, <3>2
  <2> QED
    BY <1>7, <2>1, <2>2, <2>3, SendingsFit
<1> QED
  BY <1>11, <1>12, <1>13, <1>14, <1>15 DEF NIInv

\* A sequence is one of its own elements.
LEMMA OwnElements ==
    ASSUME NEW T, NEW r \in Seq(T)
    PROVE  r \in Seq(Elements(r))
<1>1. Len(r) \in Nat /\ r \in [1 .. Len(r) -> T]
  BY LenProperties
<1>2. r \in [1 .. Len(r) -> Elements(r)]
  BY <1>1 DEF Elements
<1> QED
  BY <1>1, <1>2, SeqDef

\* The sequence of states after a slot.
LEMMA Remembered ==
    ASSUME NEW x, NEW h, h \in Seq(Elements(h)), NEW r, r = Remember(<<x>> \o h)
    PROVE  /\ Len(h) \in Nat /\ Len(r) \in Nat /\ r \in Seq(Elements(r))
           /\ Len(r) <= Len(h) + 1 /\ Len(r) <= MaxReorg
           /\ \A i \in 1 .. Len(r) : r[i] = IF i = 1 THEN x ELSE h[i - 1]
<1> DEFINE T == Elements(h) \cup {x}
           a == <<x>> \o h
           n == IF Len(a) < MaxReorg THEN Len(a) ELSE MaxReorg
<1>1. h \in Seq(T) /\ <<x>> \in Seq(T) /\ Len(h) \in Nat
  BY SeqMonotonic, LenProperties
<1>2. /\ a \in Seq(T) /\ Len(a) = Len(h) + 1
      /\ \A i \in 1 .. Len(h) + 1 : a[i] = IF i = 1 THEN x ELSE h[i - 1]
  <2> HIDE DEF T
  <2>1. /\ a \in Seq(T) /\ Len(a) = Len(<<x>>) + Len(h)
        /\ \A i \in 1 .. Len(<<x>>) + Len(h) :
              a[i] = IF i <= Len(<<x>>) THEN <<x>>[i] ELSE h[i - Len(<<x>>)]
    BY <1>1, ConcatProperties
  <2>2. Len(<<x>>) = 1 /\ <<x>>[1] = x
    OBVIOUS
  <2> QED
    BY <1>1, <2>1, <2>2
<1> HIDE DEF T, a
<1>3. n \in Nat /\ n <= Len(h) + 1 /\ n <= MaxReorg /\ r = SubSeq(a, 1, n)
  BY <1>1, <1>2, NodeAssumption DEF Remember, a
<1> HIDE DEF n
<1>4. \A i \in 1 .. n : a[i] \in T
  BY <1>1, <1>2, <1>3, ElementOfSeq
<1>5. /\ r \in Seq(T) /\ Len(r) = IF 1 <= n THEN n - 1 + 1 ELSE 0
      /\ \A i \in 1 .. n - 1 + 1 : r[i] = a[1 + i - 1]
  BY <1>3, <1>4, SubSeqProperties
<1>6. Len(r) = n /\ \A i \in 1 .. n : r[i] = a[i]
  BY <1>3, <1>5
<1>8. r \in Seq(Elements(r))
  BY <1>5, OwnElements
<1>9. ASSUME NEW i \in 1 .. Len(r) PROVE r[i] = IF i = 1 THEN x ELSE h[i - 1]
  <2>1. i \in 1 .. n /\ i \in 1 .. Len(h) + 1
    BY <1>1, <1>3, <1>6
  <2> QED
    BY <1>2, <1>6, <2>1
<1>10. Len(h) \in Nat /\ Len(r) \in Nat /\ Len(r) <= Len(h) + 1 /\ Len(r) <= MaxReorg
  BY <1>1, <1>3, <1>6
<1> QED
  BY <1>8, <1>9, <1>10

\* The next slot is one step of time.
LEMMA NextTime ==
    ASSUME TypeOK, NextSlot
    PROVE  Now' = Now + 1 /\ NotAfter(Snapshot, Snapshot') /\ TypeOK'
<1>1. TypeOK'
  BY TypeStep DEF Next
<1>2. epoch \in Nat /\ slot \in Nat /\ SlotCount \in Nat \ {0}
  BY StageNumbers DEF TypeOK
<1>3. CASE slot' = slot + 1 /\ epoch' = epoch
  <2>1. epoch * SlotCount \in Nat
    BY <1>2
  <2> QED
    BY <1>1, <1>2, <1>3, <2>1, SnapshotIs DEF Now, Time, NotAfter
<1>4. CASE slot = SlotCount - 1 /\ slot' = 0 /\ epoch' = epoch + 1
  <2>1. (epoch + 1) * SlotCount = epoch * SlotCount + SlotCount /\ epoch * SlotCount \in Nat
    BY <1>2
  <2> QED
    BY <1>1, <1>2, <1>4, <2>1, SnapshotIs DEF Now, Time, NotAfter
<1> QED
  BY <1>3, <1>4 DEF NextSlot

\* The next slot of the chain, on the branch it has or on a new one, keeps
\* the invariant.
LEMMA AdvanceStep == ASSUME NIInv, Tick \/ CatchUp PROVE NIInv'
<1>1. /\ NextSlot /\ hist' = Remember(<<Snapshot'>> \o hist)
      /\ UNCHANGED <<epochId, epochStage, polys, taskTags, rbPolys, sent, gen, crashes, torn>>
  BY DEF Tick, CatchUp, memory, nodeVars
<1>2. Now' = Now + 1 /\ NotAfter(Snapshot, Snapshot') /\ TypeOK' /\ Now' \in Nat /\ Now \in Nat
  BY <1>1, LineRight, NextTime
<1>3. UNCHANGED <<cij, ens, sig, signors, R>>
  BY <1>1 DEF NextSlot, store
<1>4. hist \in Seq(Elements(hist))
  BY DEF NIInv, Placed
<1> DEFINE m == Len(hist')
<1>5. /\ Len(hist) \in Nat /\ m \in Nat /\ hist' \in Seq(Elements(hist'))
      /\ m <= Len(hist) + 1 /\ m <= MaxReorg
      /\ \A i \in 1 .. m : hist'[i] = IF i = 1 THEN Snapshot' ELSE hist[i - 1]
  BY <1>1, <1>4, Remembered
<1> HIDE DEF m
<1>6. ASSUME NEW i \in 0 .. m
      PROVE  \/ i \in {0, 1} /\ Line(i)' = Snapshot'
             \/ i - 1 \in 1 .. Len(hist) /\ Line(i)' = Line(i - 1) /\ Line(i - 1) = hist[i - 1]
  BY <1>5 DEF Line
<1>7. SoundState(Snapshot') /\ InTime(Snapshot') /\ Committed(Snapshot)'
  <2>1. SoundState(Snapshot) /\ Committed(Snapshot)
    BY LineRight DEF Line
  <2>2. SoundState(Snapshot')
    BY <1>2, <1>3, <2>1, SoundTypes
  <2> QED
    BY <1>1, <1>3, <2>1, <2>2, SnapshotIs DEF SoundState, InTime, Committed
<1>8. Later(Snapshot, Snapshot')
  BY <1>2, <1>3, SnapshotIs DEF Later, SameSettled
<1>9. \A i \in 0 .. Len(hist) : Later(Line(i), Snapshot')
  <2>1. InTime(Snapshot)
    BY LineRight DEF Line
  <2> QED
    BY <1>7, <1>8, <2>1, LineRight, LaterTransitive
<1>10. /\ clockEpoch' \in Epochs /\ clockSlot' \in 0 .. SlotCount - 1 /\ clockEpoch <= clockEpoch'
       /\ Now' <= Clock' /\ m + Clock' <= MaxReorg + Now'
  <2>0. /\ clockEpoch \in Epochs /\ clockSlot \in 0 .. SlotCount - 1 /\ Now <= Clock
        /\ Len(hist) + Clock <= MaxReorg + Now /\ MaxReorg \in Nat /\ Clock \in Nat
    BY LineRight, NodeAssumption DEF NIInv, Placed
  <2>1. CASE Tick
    <3>1. clockEpoch' = epoch' /\ clockSlot' = slot' /\ Now = Clock /\ clockEpoch = epoch
      BY <2>1 DEF Tick, CaughtUp, Now, Clock
    <3>2. Clock' = Now'
      BY <3>1 DEF Now, Clock
    <3>3. epoch' \in Epochs /\ slot' \in 0 .. SlotCount - 1 /\ epoch <= epoch'
      BY <1>2, LineRight, SnapshotIs, StageNumbers DEF TypeOK, NotAfter
    <3> QED
      BY <1>2, <1>5, <2>0, <3>1, <3>2, <3>3
  <2>2. CASE CatchUp
    <3>1. clockEpoch' = clockEpoch /\ clockSlot' = clockSlot /\ ~CaughtUp
      BY <2>2 DEF CatchUp, clock
    <3>2. Clock' = Clock
      BY <3>1 DEF Clock
    <3>3. Now # Clock
      <4> SUFFICES ASSUME Now = Clock PROVE FALSE
        OBVIOUS
      <4>1. epoch \in Nat /\ slot \in 0 .. SlotCount - 1 /\ clockEpoch \in Nat
        BY <2>0, LineRight, StageNumbers DEF TypeOK
      <4>2. Time(epoch, slot) <= Time(clockEpoch, clockSlot)
            /\ Time(clockEpoch, clockSlot) <= Time(epoch, slot)
        BY <1>2 DEF Now, Clock
      <4>3. epoch < clockEpoch \/ (epoch = clockEpoch /\ slot <= clockSlot)
        BY <2>0, <4>1, <4>2, TimeOrder
      <4>4. clockEpoch < epoch \/ (clockEpoch = epoch /\ clockSlot <= slot)
        BY <2>0, <4>1, <4>2, TimeOrder
      <4> QED
        BY <2>0, <3>1, <4>1, <4>3, <4>4, StageNumbers DEF CaughtUp
    <3>4. clockEpoch <= clockEpoch
      BY <2>0, StageNumbers
    <3> QED
      BY <1>2, <1>5, <2>0, <3>1, <3>2, <3>3, <3>4
  <2> QED
    BY <2>1, <2>2
<1>11. Placed'
  <2>1. ASSUME NEW i \in 1 .. m
        PROVE  Time(hist'[i].epoch, hist'[i].slot) + i = Now' + 1
    <3>1. CASE i = 1
      BY <1>2, <1>5, <3>1, SnapshotIs DEF Now
    <3>2. CASE i # 1
      <4>1. i - 1 \in 1 .. Len(hist) /\ hist'[i] = hist[i - 1]
        BY <1>5, <3>2
      <4>2. Time(hist[i - 1].epoch, hist[i - 1].slot) + (i - 1) = Now + 1
        BY <4>1 DEF NIInv, Placed
      <4>3. Time(hist[i - 1].epoch, hist[i - 1].slot) \in Nat
        <5>1. InTime(hist[i - 1])
          <6>1. InTime(Line(i - 1)) /\ Line(i - 1) = hist[i - 1]
            BY <4>1, <1>5, LineRight DEF Line
          <6> QED
            BY <6>1
        <5> QED
          BY <5>1, TimeNat DEF InTime
      <4>4. Time(hist'[i].epoch, hist'[i].slot) = Time(hist[i - 1].epoch, hist[i - 1].slot)
        BY <4>1
      <4>5. i \in Nat
        BY <1>5
      <4> QED
        BY <1>2, <4>2, <4>3, <4>4, <4>5
    <3> QED
      BY <3>1, <3>2
  <2>2. \A i \in 1 .. m : (Time(hist[i].epoch, hist[i].slot) + i = Now + 1)'
    BY <2>1 DEF Time
  <2>3. (hist \in Seq(Elements(hist)))'
    BY <1>5
  <2> QED
    BY <1>5, <1>10, <2>2, <2>3 DEF Placed, m
<1>12. Sound'
  <2>1. ASSUME NEW i \in 0 .. m PROVE SoundState(Line(i))' /\ Committed(Line(i))'
    <3>1. CASE Line(i)' = Snapshot'
      <4>1. SoundState(Snapshot)' /\ Committed(Snapshot)'
        BY <1>7 DEF SoundState
      <4> QED
        BY <3>1, <4>1 DEF SoundState, Committed
    <3>2. CASE i - 1 \in 1 .. Len(hist) /\ Line(i)' = Line(i - 1)
      <4>1. SoundState(Line(i - 1)) /\ Committed(Line(i - 1)) /\ sent' = sent
        BY <1>1, <1>5, <3>2, LineRight
      <4> QED
        BY <3>2, <4>1 DEF SoundState, Committed
    <3> QED
      BY <1>6, <3>1, <3>2
  <2> QED
    BY <1>5, <2>1 DEF Sound, m
<1>13. LineSettled'
  <2>1. ASSUME NEW i \in 0 .. m PROVE SameSettled(Line(i), Snapshot)'
    <3>1. CASE Line(i)' = Snapshot'
      BY <3>1 DEF SameSettled
    <3>2. CASE i - 1 \in 1 .. Len(hist) /\ Line(i)' = Line(i - 1)
      <4>1. SameSettled(Line(i - 1), Snapshot')
        BY <1>5, <1>9, <3>2 DEF Later
      <4> QED
        BY <3>2, <4>1 DEF SameSettled, Past
    <3> QED
      BY <1>6, <3>1, <3>2
  <2> QED
    BY <1>5, <2>1 DEF LineSettled, m
<1>14. NTypeOK'
  BY <1>1, <1>5 DEF NIInv, NTypeOK, m
<1>15. Follows'
  BY <1>1, <1>10, StageNumbers DEF NIInv, Placed, Follows
<1>16. Sendings'
  <2>1. ASSUME NEW i \in 0 .. m
        PROVE  InTime(Line(i)') /\ \E j \in 0 .. Len(hist) : Later(Line(j), Line(i)')
    <3>1. CASE Line(i)' = Snapshot'
      <4>1. 0 \in 0 .. Len(hist) /\ Line(0) = Snapshot
        BY <1>5 DEF Line
      <4> QED
        BY <1>7, <1>8, <3>1, <4>1
    <3>2. CASE i - 1 \in 1 .. Len(hist) /\ Line(i)' = Line(i - 1)
      <4>0. i - 1 \in 0 .. Len(hist)
        BY <1>5, <3>2
      <4>1. i - 1 \in 0 .. Len(hist) /\ InTime(Line(i - 1))
        BY <4>0, LineRight
      <4>2. Later(Line(i - 1), Line(i - 1))
        BY <4>1, StageNumbers DEF Later, NotAfter, SameSettled, InTime
      <4> QED
        BY <3>2, <4>1, <4>2
    <3> QED
      BY <1>6, <3>1, <3>2
  <2> QED
    BY <1>1, <1>5, <1>10, <2>1, SendingsFit DEF m
<1> QED
  BY <1>11, <1>12, <1>13, <1>14, <1>15, <1>16 DEF NIInv

\* r is h from its d-th element on.
IsSuffix(r, h, d) ==
    /\ Len(h) \in Nat /\ Len(r) \in Nat /\ Len(r) + d = Len(h) + 1 /\ r \in Seq(Elements(r))
    /\ \A i \in 1 .. Len(r) : i + d - 1 \in d .. Len(h) /\ r[i] = h[i + d - 1]

\* The states below a fork.
LEMMA FallenBack ==
    ASSUME NEW h, h \in Seq(Elements(h)), NEW d \in 1 .. Len(h), NEW r, r = SubSeq(h, d, Len(h))
    PROVE  IsSuffix(r, h, d)
<1> DEFINE T == Elements(h)
           n == Len(h) - d + 1
<1>1. h \in Seq(T) /\ Len(h) \in Nat /\ d \in Nat /\ d >= 1 /\ d <= Len(h)
  BY LenProperties
<1> HIDE DEF T
<1>2. \A i \in d .. Len(h) : h[i] \in T
  BY <1>1, ElementOfSeq
<1>3. /\ r \in Seq(T) /\ Len(r) = IF d <= Len(h) THEN Len(h) - d + 1 ELSE 0
      /\ \A i \in 1 .. Len(h) - d + 1 : r[i] = h[d + i - 1]
  BY <1>1, <1>2, SubSeqProperties
<1>4. n \in Nat /\ Len(r) = n /\ n + d = Len(h) + 1
  BY <1>1, <1>3
<1>5. ASSUME NEW i \in 1 .. n PROVE i + d - 1 \in d .. Len(h) /\ r[i] = h[i + d - 1]
  BY <1>1, <1>3
<1> HIDE DEF n
<1>6. r \in Seq(Elements(r))
  BY <1>3, OwnElements
<1> QED
  BY <1>1, <1>4, <1>5, <1>6 DEF IsSuffix

\* The same state, field by field.
Alike(S, T) ==
    /\ S.epoch = T.epoch /\ S.slot = T.slot /\ S.cij = T.cij /\ S.ens = T.ens /\ S.sig = T.sig
    /\ S.signors = T.signors /\ S.R = T.R

\* The return to an earlier state keeps the invariant.
LEMMA ReorgStep == ASSUME NIInv, Reorg PROVE NIInv'
<1>1. CaughtUp /\ UNCHANGED <<clock, nodeVars>>
  BY DEF Reorg
<1>2. PICK d \in 1 .. Len(hist) : Alike(hist[d], Snapshot') /\ hist' = SubSeq(hist, d, Len(hist))
  BY SnapshotIs DEF Reorg, Alike
<1>3. hist \in Seq(Elements(hist))
  BY DEF NIInv, Placed
<1> DEFINE m == Len(hist')
<1>4a. IsSuffix(hist', hist, d)
  BY <1>2, <1>3, FallenBack
<1>4. Len(hist) \in Nat /\ m \in Nat /\ m + d = Len(hist) + 1 /\ hist' \in Seq(Elements(hist'))
  BY <1>4a DEF IsSuffix
<1>4b. \A i \in 1 .. m : i + d - 1 \in d .. Len(hist) /\ hist'[i] = hist[i + d - 1]
  BY <1>4a DEF IsSuffix
<1> HIDE DEF m
<1>5. d \in Nat /\ d >= 1 /\ d <= Len(hist) /\ d \in 0 .. Len(hist) /\ Line(d) = hist[d]
  BY <1>4 DEF Line
<1>6. ASSUME NEW i \in 1 .. m
      PROVE  /\ i + d - 1 \in 1 .. Len(hist) /\ i + d - 1 \in 0 .. Len(hist) /\ i \in Nat
             /\ Line(i)' = Line(i + d - 1) /\ Line(i + d - 1) = hist[i + d - 1]
  <2>1. i + d - 1 \in d .. Len(hist) /\ hist'[i] = hist[i + d - 1] /\ i # 0 /\ i \in Nat
    BY <1>4, <1>4b
  <2>2. i + d - 1 \in 1 .. Len(hist) /\ i + d - 1 \in 0 .. Len(hist) /\ i + d - 1 # 0
    BY <1>4, <1>5, <2>1
  <2> QED
    BY <2>1, <2>2 DEF Line
<1>7. Line(0)' = Snapshot'
  BY DEF Line
<1>8. SoundState(hist[d]) /\ Committed(hist[d]) /\ InTime(hist[d]) /\ SameSettled(hist[d], Snapshot)
  BY <1>5, LineRight DEF Later
<1>9. SoundState(Snapshot') /\ Committed(Snapshot)' /\ InTime(Snapshot')
  <2>1. sent' = sent
    BY <1>1 DEF nodeVars
  <2> QED
    BY <1>2, <1>8, <2>1 DEF SoundState, InTime, Committed, Alike
<1>10. Later(hist[d], Snapshot')
  BY <1>2, <1>8, StageNumbers DEF Later, NotAfter, SameSettled, Alike, InTime
<1>11. Time(hist[d].epoch, hist[d].slot) + d = Now + 1 /\ Time(hist[d].epoch, hist[d].slot) \in Nat
  BY <1>8, TimeNat DEF NIInv, Placed, InTime
<1>12. Now' = Time(hist[d].epoch, hist[d].slot)
  BY <1>2, SnapshotIs DEF Alike, Now, Time
<1>13. Now \in Nat /\ Clock \in Nat /\ Now' \in Nat /\ Now' + d = Now + 1
  BY <1>11, <1>12, LineRight
<1>14. ASSUME NEW i \in 1 .. m PROVE Later(Line(i + d - 1), Snapshot')
  <2> DEFINE j == i + d - 1
  <2>1. j \in 1 .. Len(hist) /\ j \in 0 .. Len(hist) /\ Line(j) = hist[j] /\ j >= d /\ j \in Nat
    <3>1. j \in 1 .. Len(hist) /\ j \in 0 .. Len(hist) /\ Line(j) = hist[j] /\ i \in Nat /\ i >= 1
      <4>1. i \in Nat /\ i >= 1
        BY <1>4
      <4> QED
        BY <1>6, <4>1
    <3> QED
      BY <1>5, <3>1
  <2> HIDE DEF j
  <2>2. InTime(hist[j]) /\ SameSettled(hist[j], Snapshot)
    BY <2>1, LineRight DEF Later
  <2>3. Time(hist[j].epoch, hist[j].slot) + j = Now + 1 /\ Time(hist[j].epoch, hist[j].slot) \in Nat
    BY <2>1, <2>2, TimeNat DEF NIInv, Placed, InTime
  <2>4. Time(hist[j].epoch, hist[j].slot) <= Time(hist[d].epoch, hist[d].slot)
    BY <1>5, <1>11, <1>13, <2>1, <2>3
  <2>5. NotAfter(hist[j], hist[d])
    BY <1>8, <2>2, <2>4, TimeOrder, StageNumbers, SMTT(20) DEF InTime, NotAfter
  <2>6. Later(hist[j], hist[d])
    BY <1>8, <2>2, <2>5, LaterOfTwo
  <2>7. Later(hist[j], Snapshot')
    BY <1>8, <1>9, <1>10, <2>2, <2>6, LaterTransitive
  <2> QED
    BY <2>1, <2>7 DEF j
<1>15. Placed'
  <2>1. /\ clockEpoch \in Epochs /\ clockSlot \in 0 .. SlotCount - 1 /\ Now <= Clock
        /\ Len(hist) + Clock <= MaxReorg + Now /\ MaxReorg \in Nat
    BY NodeAssumption DEF NIInv, Placed
  <2>2. clockEpoch' = clockEpoch /\ clockSlot' = clockSlot /\ Clock' = Clock
    BY <1>1 DEF clock, Clock, Time
  <2>3. Now' <= Clock' /\ m + Clock' <= MaxReorg + Now'
    <3>1. m \in Nat /\ Len(hist) \in Nat /\ m + d = Len(hist) + 1 /\ d \in Nat /\ d >= 1
      BY <1>4, <1>5
    <3> DEFINE l == Len(hist)
               c == Clock
               n == Now
               k == Now'
    <3>a. c \in Nat /\ n \in Nat /\ k \in Nat /\ k + d = n + 1 /\ l \in Nat
      BY <1>13, <3>1
    <3>b. l + c <= MaxReorg + n /\ n <= c /\ MaxReorg \in Nat /\ m + d = l + 1 /\ m \in Nat
      BY <2>1, <3>1
    <3>d. d \in Nat /\ d >= 1
      BY <3>1
    <3> HIDE DEF l, c, n, k
    <3>e. m + c <= MaxReorg + k /\ k <= c
      BY <3>a, <3>b, <3>d
    <3>2. m + Clock <= MaxReorg + Now' /\ Now' <= Clock
      BY <3>e DEF c, k
    <3> QED
      BY <2>2, <3>2
  <2>4. ASSUME NEW i \in 1 .. m
        PROVE  Time(hist'[i].epoch, hist'[i].slot) + i = Now' + 1
    <3> DEFINE j == i + d - 1
    <3>1. j \in 1 .. Len(hist) /\ hist'[i] = hist[j] /\ i \in Nat /\ j = i + d - 1
      BY <1>4b, <1>6
    <3> HIDE DEF j
    <3>2. Time(hist[j].epoch, hist[j].slot) + j = Now + 1
      BY <3>1 DEF NIInv, Placed
    <3>3. j \in 0 .. Len(hist) /\ Line(j) = hist[j]
      BY <1>4, <3>1 DEF Line
    <3>4. Time(hist[j].epoch, hist[j].slot) \in Nat
      <4>1. InTime(hist[j])
        BY <3>3, LineRight
      <4> QED
        BY <4>1, TimeNat DEF InTime
    <3>5. Time(hist'[i].epoch, hist'[i].slot) = Time(hist[j].epoch, hist[j].slot)
      BY <3>1
    <3> DEFINE t == Time(hist[j].epoch, hist[j].slot)
               n == Now
               k == Now'
    <3>6. /\ t \in Nat /\ n \in Nat /\ k \in Nat /\ d \in Nat /\ i \in Nat
          /\ j = i + d - 1 /\ t + j = n + 1 /\ k + d = n + 1
      BY <1>5, <1>13, <3>1, <3>2, <3>4
    <3>7. t + i = k + 1
      <4> HIDE DEF t, n, k
      <4> QED
        BY <3>6
    <3> QED
      BY <3>5, <3>7
  <2>5. \A i \in 1 .. m : (Time(hist[i].epoch, hist[i].slot) + i = Now + 1)'
    BY <2>4 DEF Time
  <2>6. (hist \in Seq(Elements(hist)))'
    BY <1>4
  <2> QED
    BY <2>1, <2>2, <2>3, <2>5, <2>6 DEF Placed, m
<1>16. Sound'
  <2>1. ASSUME NEW i \in 0 .. m PROVE SoundState(Line(i))' /\ Committed(Line(i))'
    <3>1. CASE i = 0
      <4>1. SoundState(Snapshot)' /\ Committed(Snapshot)'
        BY <1>9 DEF SoundState
      <4> QED
        BY <3>1, <4>1 DEF Line
    <3>2. CASE i # 0
      <4>1. i \in 1 .. m
        BY <1>4, <3>2
      <4>2. i + d - 1 \in 0 .. Len(hist) /\ Line(i)' = Line(i + d - 1)
        BY <1>6, <4>1
      <4>3. SoundState(Line(i + d - 1)) /\ Committed(Line(i + d - 1))
        BY <4>2, LineRight
      <4>4. sent' = sent
        BY <1>1 DEF nodeVars
      <4> QED
        BY <4>2, <4>3, <4>4 DEF SoundState, Committed
    <3> QED
      BY <3>1, <3>2
  <2> QED
    BY <2>1 DEF Sound, m
<1>17. LineSettled'
  <2>1. ASSUME NEW i \in 0 .. m PROVE SameSettled(Line(i), Snapshot)'
    <3>1. CASE i = 0
      BY <1>7, <3>1 DEF SameSettled
    <3>2. CASE i # 0
      <4>1. i \in 1 .. m
        BY <1>4, <3>2
      <4>2. Line(i)' = Line(i + d - 1) /\ SameSettled(Line(i + d - 1), Snapshot')
        BY <1>6, <1>14, <4>1 DEF Later
      <4> QED
        BY <4>2 DEF SameSettled, Past
    <3> QED
      BY <3>1, <3>2
  <2> QED
    BY <2>1 DEF LineSettled, m
<1>18. NTypeOK' /\ Follows'
  <2>1. Len(hist) <= MaxReorg /\ m <= Len(hist)
    BY <1>4, <1>5 DEF NIInv, NTypeOK
  <2>2. Len(hist') <= MaxReorg
    BY <1>4, <2>1, NodeAssumption DEF m
  <2> QED
    BY <1>1, <2>2 DEF NIInv, NTypeOK, Follows, nodeVars, clock
<1>19. Sendings'
  <2>1. UNCHANGED <<sent, torn, rbPolys, epochId, polys, clockEpoch>>
    BY <1>1 DEF nodeVars, clock
  <2>2. clockEpoch' \in Epochs /\ clockEpoch <= clockEpoch'
    BY <2>1, StageNumbers DEF NIInv, Placed
  <2>3. ASSUME NEW i \in 0 .. m
        PROVE  InTime(Line(i)') /\ \E j \in 0 .. Len(hist) : Later(Line(j), Line(i)')
    <3>1. CASE i = 0
      BY <1>5, <1>7, <1>9, <1>10, <3>1
    <3>2. CASE i # 0
      <4>1. i \in 1 .. m
        BY <1>4, <3>2
      <4>2. i + d - 1 \in 0 .. Len(hist) /\ Line(i)' = Line(i + d - 1)
        BY <1>6, <4>1
      <4>3. InTime(Line(i + d - 1))
        BY <4>2, LineRight
      <4>4. Later(Line(i + d - 1), Line(i + d - 1))
        BY <4>3, StageNumbers, SMTT(40) DEF Later, NotAfter, SameSettled, InTime
      <4> QED
        BY <4>2, <4>3, <4>4
    <3> QED
      BY <3>1, <3>2
  <2> QED
    BY <1>4, <2>1, <2>2, <2>3, SendingsFit DEF m
<1> QED
  BY <1>15, <1>16, <1>17, <1>18, <1>19 DEF NIInv

\* The polynomials ps are those to which node n has committed in the epoch
\* of the clock.
Holds(n, ps) ==
    \A tx \in sent :
        tx.type = "dkg1" /\ tx.from = n /\ tx.epoch = clockEpoch /\ <<tx.epoch, tx.pid>> \notin torn
            => ps[tx.pid] = tx.data

\* What the loop of node n works with.
LoopOK(n, l) ==
    /\ l.epoch = clockEpoch
    /\ l.ids \in SUBSET Pid /\ \A p \in l.ids : Group[clockEpoch][p] = n
    /\ l.stage \in {RbDkg1Stage, RbDkg2Stage, RbSignStage, RbSignConfirmStage}
    /\ l.polys \in [Pid -> Poly \cup {None}] /\ Holds(n, l.polys)
    /\ l.tags \in SUBSET Pid
    /\ l.works => l.stage = GetRBStage(clockSlot)

\* The loop works on the clock's epoch with the polynomials committed to.
LEMMA LoopRight ==
    ASSUME NIInv, NEW n \in Node
    PROVE  LoopOK(n, LoopState(n))
<1> DEFINE e == clockEpoch
           mem == updateEpochId(n, e)
           l == LoopState(n)
<1>1. e \in Epochs /\ clockSlot \in Nat
  BY StageNumbers DEF NIInv, Placed
<1>2. NTypeOK
  BY DEF NIInv
<1>3. /\ mem.stage \in {RbDkg1Stage, RbDkg2Stage, RbSignStage, RbSignConfirmStage}
      /\ mem.polys \in [Pid -> Poly \cup {None}] /\ mem.tags \in SUBSET Pid
  BY <1>1, <1>2 DEF updateEpochId, NTypeOK, NoPolys
<1>4. Holds(n, mem.polys)
  <2> SUFFICES ASSUME NEW tx \in sent, tx.type = "dkg1", tx.from = n, tx.epoch = e,
                      <<tx.epoch, tx.pid>> \notin torn
               PROVE  mem.polys[tx.pid] = tx.data
    BY DEF Holds
  <2>1. Member(tx) /\ Keeps(tx)
    BY DEF NIInv, Sendings
  <2>2. CASE epochId[n] = e
    BY <2>1, <2>2 DEF Keeps, updateEpochId
  <2>3. CASE epochId[n] = NoEpoch /\ epochId[n] # e
    BY <2>1, <2>3 DEF Keeps, updateEpochId
  <2>4. CASE epochId[n] # NoEpoch /\ epochId[n] # e
    <3>1. epochId[n] \in Epochs
      BY <1>2, <2>4 DEF NTypeOK
    <3>2. epochId[n] <= e /\ e <= epochId[n]
      BY <2>1, <3>1 DEF Member, NIInv, Follows
    <3> QED
      BY <1>1, <2>4, <3>1, <3>2, StageNumbers
  <2> QED
    BY <2>2, <2>3, <2>4
<1> HIDE DEF mem
<1>5. /\ l.epoch = e /\ l.ids = getMyRBProposerId(n, e) /\ l.polys = mem.polys
      /\ l.stage = StageReached(mem.stage, GetRBStage(clockSlot))
      /\ l.tags = IF l.stage = mem.stage THEN mem.tags ELSE {}
      /\ l.works <=> (l.stage = GetRBStage(clockSlot) /\ ~AtStageEdge(clockSlot))
  BY DEF LoopState, mem
<1> HIDE DEF l
<1>6. l.stage \in {RbDkg1Stage, RbDkg2Stage, RbSignStage, RbSignConfirmStage}
  <2>1. GetRBStage(clockSlot) \in 1 .. 6
    BY <1>1, SlotsOfStage
  <2> QED
    BY <1>3, <1>5, <2>1
       DEF StageReached, RbDkg1Stage, RbDkg1ConfirmStage, RbDkg2Stage, RbDkg2ConfirmStage,
           RbSignStage, RbSignConfirmStage
<1>7. LoopOK(n, l)
  BY <1>3, <1>4, <1>5, <1>6 DEF LoopOK, getMyRBProposerId
<1> QED
  BY <1>7 DEF l

\* Every state of the line has passed what the clock passed 2 * K slots ago.
LEMMA LinePast ==
    ASSUME NIInv, NEW i \in 0 .. Len(hist), NEW s \in Nat, clockSlot >= s + 1 + 2 * K
    PROVE  Past(Line(i), clockEpoch, s)
<1> DEFINE t == Time(Line(i).epoch, Line(i).slot)
           c == Clock
           n == Now
           h == Len(hist)
<1>1. /\ K \in Nat /\ SlotCount \in Nat /\ clockEpoch \in Nat /\ clockSlot \in 0 .. SlotCount - 1
      /\ MaxReorg \in Nat /\ MaxReorg <= 2 * K
  BY StageNumbers, NodeAssumption, ReorgAssumption DEF NIInv, Placed
<1>2. InTime(Line(i)) /\ t \in Nat /\ c \in Nat /\ n \in Nat /\ h \in Nat
  BY LineRight, TimeNat DEF InTime
<1>3. h + c <= MaxReorg + n
  BY DEF NIInv, Placed
<1>4. t + MaxReorg >= c
  <2>1. CASE i = 0
    <3>1. t = n
      BY <2>1, SnapshotIs DEF Line, Now
    <3> QED
      <4> HIDE DEF t, c, n, h
      <4> QED
        BY <1>1, <1>2, <1>3, <3>1
  <2>2. CASE i # 0
    <3>1. i \in 1 .. Len(hist) /\ Line(i) = hist[i]
      BY <1>2, <2>2 DEF Line
    <3>2. Time(hist[i].epoch, hist[i].slot) + i = Now + 1
      BY <3>1 DEF NIInv, Placed
    <3>3. t + i = n + 1 /\ i \in Nat /\ i <= h
      BY <1>2, <3>1, <3>2
    <3> QED
      <4> HIDE DEF t, c, n, h
      <4> QED
        BY <1>1, <1>2, <1>3, <3>3
  <2> QED
    BY <2>1, <2>2
<1>5. s + 1 \in 0 .. SlotCount - 1 /\ clockSlot \in Nat
  BY <1>1
<1>6. Time(clockEpoch, s + 1) <= t
  <2> DEFINE b == clockEpoch * SlotCount
  <2>1. b \in Nat /\ c = b + clockSlot /\ Time(clockEpoch, s + 1) = b + (s + 1)
    BY <1>1 DEF Clock, Time
  <2> HIDE DEF b, t, c
  <2> QED
    BY <1>1, <1>2, <1>4, <1>5, <2>1
<1>7. clockEpoch < Line(i).epoch \/ (clockEpoch = Line(i).epoch /\ s + 1 <= Line(i).slot)
  BY <1>1, <1>2, <1>5, <1>6, TimeOrder, StageNumbers DEF InTime
<1> QED
  BY <1>1, <1>2, <1>7, StageNumbers DEF InTime, Past

\* Only node n's memory and database change, and it keeps its polynomials.
NodeMoves(n) ==
    /\ \A v \in Node \ {n} :
          epochId'[v] = epochId[v] /\ polys'[v] = polys[v] /\ rbPolys'[v] = rbPolys[v]
    /\ epochId'[n] = NoEpoch \/ (epochId'[n] = clockEpoch /\ Holds(n, polys'[n]))
    /\ \A e \in Epochs \ {clockEpoch} : rbPolys'[n][e] = rbPolys[n][e]
    /\ Holds(n, rbPolys'[n][clockEpoch])

\* A node that moves and sends transactions that are in order keeps the
\* invariant.
LEMMA NodeStep ==
    ASSUME NIInv, NEW n \in Node, UNCHANGED <<vars, clock, hist>>, NodeMoves(n), NTypeOK',
           torn \subseteq torn', NEW New, sent' = sent \cup New,
           \A tx \in New :
               /\ Member(tx)' /\ Keeps(tx)'
               /\ \A i \in 0 .. Len(hist) : Deals(tx, Line(i)) /\ Signs(tx, Line(i))
    PROVE  NIInv'
<1>1. /\ Snapshot' = Snapshot /\ hist' = hist /\ clockEpoch' = clockEpoch /\ clockSlot' = clockSlot
      /\ epoch' = epoch /\ slot' = slot
  BY DEF vars, clock, Snapshot
<1>2. \A i \in 0 .. Len(hist) : Line(i)' = Line(i)
  BY <1>1 DEF Line
<1>3. Placed'
  BY <1>1 DEF NIInv, Placed, Now, Clock, Time, Elements
<1>4. Sound'
  <2>1. ASSUME NEW i \in 0 .. Len(hist) PROVE SoundState(Line(i))' /\ Committed(Line(i))'
    <3>1. SoundState(Line(i)) /\ Committed(Line(i)) /\ Line(i)' = Line(i) /\ sent \subseteq sent'
      BY <1>2, LineRight
    <3> QED
      BY <3>1 DEF SoundState, Committed
  <2> QED
    BY <1>1, <2>1 DEF Sound
<1>5. LineSettled'
  <2>1. ASSUME NEW i \in 0 .. Len(hist) PROVE SameSettled(Line(i), Snapshot)'
    BY <1>1, <1>2 DEF NIInv, LineSettled, SameSettled, Past
  <2> QED
    BY <1>1, <2>1 DEF LineSettled
<1>6. clockEpoch \in Epochs /\ \A e \in Epochs : e \in Nat
  BY StageNumbers DEF NIInv, Placed
<1>7. Follows'
  <2> SUFFICES ASSUME NEW v \in Node, epochId'[v] \in Epochs PROVE epochId'[v] <= clockEpoch
    BY <1>1 DEF Follows
  <2>1. CASE v = n
    BY <1>6, <2>1, NodeAssumption DEF NodeMoves
  <2>2. CASE v # n
    BY <1>6, <2>2 DEF NodeMoves, NIInv, Follows
  <2> QED
    BY <2>1, <2>2
<1>8. ASSUME NEW tx \in sent PROVE Member(tx)' /\ Keeps(tx)'
  <2>1. Member(tx) /\ Keeps(tx)
    BY DEF NIInv, Sendings
  <2>2. tx.epoch \in Epochs /\ tx.from \in Node /\ tx.epoch <= clockEpoch
    BY <2>1 DEF Member
  <2>3. epochId'[tx.from] \in Epochs => tx.epoch <= epochId'[tx.from]
    <3>1. CASE tx.from = n
      BY <2>2, <3>1, NodeAssumption DEF NodeMoves
    <3>2. CASE tx.from # n
      BY <2>1, <2>2, <3>2 DEF NodeMoves, Member
    <3> QED
      BY <3>1, <3>2
  <2>4. Member(tx)'
    BY <1>1, <2>1, <2>3 DEF Member
  <2>5. ASSUME tx.type = "dkg1", <<tx.epoch, tx.pid>> \notin torn'
        PROVE  /\ rbPolys'[tx.from][tx.epoch][tx.pid] = tx.data
               /\ epochId'[tx.from] = tx.epoch => polys'[tx.from][tx.pid] = tx.data
    <3>1. <<tx.epoch, tx.pid>> \notin torn
      BY <2>5
    <3>2. CASE tx.from # n
      BY <2>1, <2>2, <2>5, <3>1, <3>2 DEF NodeMoves, Keeps
    <3>3. CASE tx.from = n /\ tx.epoch = clockEpoch
      <4>1. rbPolys'[n][clockEpoch][tx.pid] = tx.data
        BY <2>5, <3>1, <3>3 DEF NodeMoves, Holds
      <4>2. epochId'[n] = clockEpoch => polys'[n][tx.pid] = tx.data
        BY <1>6, <2>5, <3>1, <3>3, NodeAssumption DEF NodeMoves, Holds
      <4> QED
        BY <3>3, <4>1, <4>2
    <3>4. CASE tx.from = n /\ tx.epoch # clockEpoch
      <4>1. rbPolys'[n][tx.epoch][tx.pid] = tx.data
        BY <2>1, <2>2, <2>5, <3>1, <3>4 DEF NodeMoves, Keeps
      <4>2. epochId'[n] # tx.epoch
        BY <2>2, <3>4, NodeAssumption DEF NodeMoves
      <4> QED
        BY <3>4, <4>1, <4>2
    <3> QED
      BY <3>2, <3>3, <3>4
  <2>6. Keeps(tx)'
    BY <2>5 DEF Keeps
  <2> QED
    BY <2>4, <2>6
<1>9. ASSUME NEW tx \in sent', NEW i \in 0 .. Len(hist)
      PROVE  Deals(tx, Line(i))' /\ Signs(tx, Line(i))'
  <2>1. Deals(tx, Line(i)) /\ Signs(tx, Line(i))
    BY DEF NIInv, Sendings
  <2> QED
    BY <1>2, <2>1 DEF Deals, Signs, SignatureAt, Past
<1>10. Sendings'
  <2>1. \A tx \in sent' : Member(tx)' /\ Keeps(tx)'
    BY <1>8
  <2> QED
    BY <1>1, <1>9, <2>1 DEF Sendings
<1> QED
  BY <1>3, <1>4, <1>5, <1>7, <1>10 DEF NIInv

\* The database holds what the node has committed to.
LEMMA StoredHolds == ASSUME NIInv, NEW n \in Node PROVE Holds(n, rbPolys[n][clockEpoch])
BY DEF NIInv, Sendings, Keeps, Holds

\* The memory of node n after a loop: its types, and the epoch and the
\* polynomials in it.
Finished(n, ps) ==
    /\ epochId' \in [Node -> Epochs \cup {NoEpoch}]
    /\ epochStage' \in [Node -> {RbDkg1Stage, RbDkg2Stage, RbSignStage, RbSignConfirmStage}]
    /\ polys' \in [Node -> [Pid -> Poly \cup {None}]] /\ taskTags' \in [Node -> SUBSET Pid]
    /\ epochId'[n] = clockEpoch /\ polys'[n] = ps
    /\ \A v \in Node \ {n} : epochId'[v] = epochId[v] /\ polys'[v] = polys[v]

\* The end of a loop.
LEMMA FinishRight ==
    ASSUME NIInv, NEW n \in Node, NEW stage,
           stage \in {RbDkg1Stage, RbDkg2Stage, RbSignStage, RbSignConfirmStage},
           NEW ps \in [Pid -> Poly \cup {None}], NEW tags \in SUBSET Pid,
           Finish(n, clockEpoch, stage, ps, tags)
    PROVE  Finished(n, ps)
<1>1. NTypeOK /\ clockEpoch \in Epochs
  BY DEF NIInv, Placed
<1>2. StageAfter(stage) \in {RbDkg1Stage, RbDkg2Stage, RbSignStage, RbSignConfirmStage}
  BY DEF StageAfter, RbDkg1Stage, RbDkg2Stage, RbSignStage, RbSignConfirmStage
<1>3. epochStage' \in [Node -> {RbDkg1Stage, RbDkg2Stage, RbSignStage, RbSignConfirmStage}]
  BY <1>1, <1>2 DEF Finish, NTypeOK
<1>4. taskTags' \in [Node -> SUBSET Pid]
  BY <1>1 DEF Finish, NTypeOK
<1>5. epochId' = [epochId EXCEPT ![n] = clockEpoch] /\ polys' = [polys EXCEPT ![n] = ps]
  BY DEF Finish
<1> QED
  BY <1>1, <1>3, <1>4, <1>5 DEF NTypeOK, Finished

\* A commitment is made once: an id with a polynomial is passed over.
LEMMA Dkg1Step ==
    ASSUME NIInv, NEW n \in Node, UNCHANGED <<vars, clock, hist>>, doDKG1s(n)
    PROVE  NIInv'
<1> DEFINE l == LoopState(n)
           e == clockEpoch
           todo == {p \in l.ids \ l.tags : l.polys[p] = None}
<1>1. LoopOK(n, l)
  BY LoopRight
<1>2. PICK ok \in Generated(todo) :
         /\ \A p \in ok : gen[p] + 1 \in Poly
         /\ gen' = [p \in Pid |-> IF p \in ok THEN gen[p] + 1 ELSE gen[p]]
         /\ sent' = sent \cup {Tx("dkg1", l.epoch, p, n, gen'[p]) : p \in ok}
         /\ LET ps == [p \in Pid |-> IF p \in ok THEN gen'[p] ELSE l.polys[p]]
            IN  /\ Finish(n, l.epoch, l.stage, ps, l.ids \ (todo \ ok))
                /\ rbPolys' = IF ok = {} THEN rbPolys ELSE [rbPolys EXCEPT ![n][l.epoch] = ps]
  BY DEF doDKG1s
<1>3. torn' = torn
  BY DEF doDKG1s
<1> DEFINE ps == [p \in Pid |-> IF p \in ok THEN gen'[p] ELSE l.polys[p]]
           New == {Tx("dkg1", e, p, n, gen'[p]) : p \in ok}
           tags == l.ids \ (todo \ ok)
<1> HIDE DEF l
<1>4. l.epoch = e /\ e \in Epochs
  BY <1>1 DEF LoopOK, NIInv, Placed
<1>5. ok \subseteq todo /\ ok \subseteq Pid /\ \A p \in ok : p \in l.ids /\ l.polys[p] = None
  BY <1>1 DEF Generated, LoopOK
<1>6. \A p \in ok : gen'[p] \in Poly
  BY <1>2, <1>5
<1>7. ps \in [Pid -> Poly \cup {None}] /\ tags \in SUBSET Pid
  BY <1>1, <1>6 DEF LoopOK
<1>8. Holds(n, ps)
  <2> SUFFICES ASSUME NEW tx \in sent, tx.type = "dkg1", tx.from = n, tx.epoch = e,
                      <<tx.epoch, tx.pid>> \notin torn
               PROVE  ps[tx.pid] = tx.data
    BY DEF Holds
  <2>1. l.polys[tx.pid] = tx.data
    BY <1>1 DEF LoopOK, Holds
  <2>2. tx.data \in Poly /\ tx.pid \in Pid
    BY DEF NIInv, Sendings, Member
  <2>3. tx.pid \notin ok
    BY <1>5, <2>1, <2>2, ValuesAssumption
  <2> QED
    BY <2>1, <2>2, <2>3
<1>9. /\ sent' = sent \cup New /\ Finish(n, e, l.stage, ps, tags)
      /\ rbPolys' = IF ok = {} THEN rbPolys ELSE [rbPolys EXCEPT ![n][e] = ps]
  BY <1>2, <1>4
<1> HIDE DEF e, todo, ps, tags, New
<1>10. Finished(n, ps)
  <2>1. l.stage \in {RbDkg1Stage, RbDkg2Stage, RbSignStage, RbSignConfirmStage}
    BY <1>1 DEF LoopOK
  <2> QED
    BY <1>7, <1>9, <2>1, FinishRight DEF e
<1>11. /\ rbPolys' \in [Node -> [Epochs -> [Pid -> Poly \cup {None}]]]
       /\ \A v \in Node \ {n} : rbPolys'[v] = rbPolys[v]
       /\ \A x \in Epochs \ {e} : rbPolys'[n][x] = rbPolys[n][x]
       /\ ok # {} => rbPolys'[n][e] = ps
       /\ ok = {} => rbPolys'[n][e] = rbPolys[n][e]
  <2>1. rbPolys \in [Node -> [Epochs -> [Pid -> Poly \cup {None}]]]
    BY DEF NIInv, NTypeOK
  <2>2. CASE ok = {}
    BY <1>9, <2>1, <2>2
  <2>3. CASE ok # {}
    BY <1>4, <1>7, <1>9, <2>1, <2>3
  <2> QED
    BY <2>2, <2>3
<1>12. NodeMoves(n)
  <2>1. Holds(n, rbPolys'[n][e])
    BY <1>8, <1>11, StoredHolds DEF e
  <2> QED
    BY <1>8, <1>10, <1>11, <2>1 DEF NodeMoves, Finished, e
<1>13. ASSUME NEW tx \in New
       PROVE  /\ Member(tx)' /\ Keeps(tx)'
              /\ \A i \in 0 .. Len(hist) : Deals(tx, Line(i)) /\ Signs(tx, Line(i))
  <2>1. PICK p \in ok : tx = Tx("dkg1", e, p, n, gen'[p])
    BY DEF New
  <2>2. tx.type = "dkg1" /\ tx.epoch = e /\ tx.pid = p /\ tx.from = n /\ tx.data = gen'[p]
    BY <2>1 DEF Tx
  <2>3. p \in Pid /\ Group[e][p] = n /\ clockEpoch' = e /\ e <= e
    BY <1>1, <1>4, <1>5, StageNumbers DEF LoopOK, clock, e
  <2>4. tx = Tx(tx.type, tx.epoch, tx.pid, tx.from, tx.data)
    BY <2>1, <2>2
  <2>5. Member(tx)'
    BY <1>4, <1>6, <1>10, <2>2, <2>3, <2>4 DEF Member, Tx, Finished, e
  <2>6. ps[p] = gen'[p] /\ ok # {}
    BY <2>3 DEF ps
  <2>7. Keeps(tx)'
    BY <1>10, <1>11, <2>2, <2>6 DEF Keeps, Finished
  <2> QED
    BY <2>2, <2>5, <2>7 DEF Deals, Signs
<1>14. NTypeOK'
  <2>1. \A tx \in sent' : tx.type \in {"dkg1", "dkg2", "sig"} /\ tx.pid \in Pid
    <3>1. \A tx \in sent : tx.type \in {"dkg1", "dkg2", "sig"} /\ tx.pid \in Pid
      BY DEF NIInv, NTypeOK
    <3>2. \A tx \in New : tx.type \in {"dkg1", "dkg2", "sig"} /\ tx.pid \in Pid
      BY <1>13 DEF Member
    <3> QED
      BY <1>9, <3>1, <3>2
  <2>2. Len(hist') <= MaxReorg
    BY DEF NIInv, NTypeOK
  <2> QED
    BY <1>10, <1>11, <2>1, <2>2 DEF NTypeOK, Finished
<1> QED
  BY <1>3, <1>9, <1>12, <1>13, <1>14, NodeStep

\* The node sends transactions in order and leaves its database alone.
LEMMA SendStep ==
    ASSUME NIInv, NEW n \in Node, UNCHANGED <<vars, clock, hist>>, UNCHANGED <<rbPolys, torn>>,
           Finished(n, LoopState(n).polys), NEW New, sent' = sent \cup New,
           \A tx \in New :
               /\ tx = Tx(tx.type, clockEpoch, tx.pid, n, tx.data)
               /\ tx.type \in {"dkg2", "sig"} /\ tx.pid \in LoopState(n).ids
               /\ tx.type = "dkg2" => tx.data \in Poly
               /\ \A i \in 0 .. Len(hist) : Deals(tx, Line(i)) /\ Signs(tx, Line(i))
    PROVE  NIInv'
<1> DEFINE l == LoopState(n)
<1>1. LoopOK(n, l) /\ clockEpoch \in Epochs /\ clockEpoch' = clockEpoch
  BY LoopRight DEF NIInv, Placed, clock
<1> HIDE DEF l
<1>2. NodeMoves(n)
  <2>1. Holds(n, l.polys) /\ Holds(n, rbPolys[n][clockEpoch])
    BY <1>1, StoredHolds DEF LoopOK
  <2> QED
    BY <2>1 DEF NodeMoves, Finished, l
<1>3. ASSUME NEW tx \in New PROVE Member(tx)' /\ Keeps(tx)'
  <2>1. tx.epoch = clockEpoch /\ tx.from = n
    BY DEF Tx
  <2>2. tx.pid \in Pid /\ Group[clockEpoch][tx.pid] = n
    BY <1>1 DEF LoopOK, l
  <2>3. clockEpoch <= clockEpoch
    BY <1>1, StageNumbers
  <2>4. tx = Tx(tx.type, tx.epoch, tx.pid, tx.from, tx.data)
    BY <2>1
  <2>5. Member(tx)'
    BY <1>1, <2>1, <2>2, <2>3, <2>4 DEF Member, Finished, Tx
  <2> QED
    BY <2>5 DEF Keeps
<1>4. NTypeOK'
  <2>1. \A tx \in sent' : tx.type \in {"dkg1", "dkg2", "sig"} /\ tx.pid \in Pid
    <3>1. \A tx \in sent : tx.type \in {"dkg1", "dkg2", "sig"} /\ tx.pid \in Pid
      BY DEF NIInv, NTypeOK
    <3>2. \A tx \in New : tx.type \in {"dkg1", "dkg2", "sig"} /\ tx.pid \in Pid
      BY <1>3 DEF Member
    <3> QED
      BY <3>1, <3>2
  <2>2. Len(hist') <= MaxReorg /\ rbPolys' \in [Node -> [Epochs -> [Pid -> Poly \cup {None}]]]
    BY DEF NIInv, NTypeOK
  <2> QED
    BY <2>1, <2>2 DEF NTypeOK, Finished
<1> QED
  BY <1>2, <1>3, <1>4, NodeStep

\* A dealing is sent when the commitments are the same on every branch.
LEMMA Dkg2Step ==
    ASSUME NIInv, NEW n \in Node, UNCHANGED <<vars, clock, hist>>, doDKG2s(n)
    PROVE  NIInv'
<1> DEFINE l == LoopState(n)
           e == clockEpoch
           todo == l.ids \ l.tags
           lacking == {p \in todo : cij[l.epoch][p] = None}
           ready == {p \in todo \ lacking : l.polys[p] # None}
<1>1. LoopOK(n, l) /\ e \in Epochs /\ l.epoch = e /\ l.works /\ l.stage = RbDkg2Stage
  BY LoopRight DEF NIInv, Placed, LoopOK, doDKG2s
<1>2. PICK ok \in Generated(ready) :
         /\ sent' = sent \cup {Tx("dkg2", l.epoch, p, n, l.polys[p]) : p \in ok}
         /\ Finish(n, l.epoch, l.stage, l.polys, l.tags \cup lacking \cup ok)
  BY DEF doDKG2s
<1>3. UNCHANGED <<rbPolys, torn>>
  BY DEF doDKG2s
<1> DEFINE New == {Tx("dkg2", e, p, n, l.polys[p]) : p \in ok}
           tags == l.tags \cup lacking \cup ok
<1>4. ok \subseteq ready
  BY DEF Generated
<1>5. \A p \in ok : p \in l.ids /\ p \in Pid /\ l.polys[p] \in Poly /\ cij[e][p] # None
  BY <1>1, <1>4 DEF LoopOK
<1>6. tags \in SUBSET Pid /\ l.polys \in [Pid -> Poly \cup {None}]
  BY <1>1, <1>4 DEF LoopOK
<1>7. sent' = sent \cup New /\ Finish(n, e, l.stage, l.polys, tags)
  BY <1>1, <1>2
<1>8. Finished(n, l.polys)
  <2>1. l.stage \in {RbDkg1Stage, RbDkg2Stage, RbSignStage, RbSignConfirmStage}
    BY <1>1 DEF LoopOK
  <2> HIDE DEF l, tags
  <2> QED
    BY <1>6, <1>7, <2>1, FinishRight
<1>9. \A i \in 0 .. Len(hist) : Past(Line(i), e, Dkg1End) /\ Line(i).cij[e] = cij[e]
  <2>1. clockSlot \in Nat /\ GetRBStage(clockSlot) = RbDkg2Stage
    BY <1>1, StageNumbers DEF NIInv, Placed, LoopOK
  <2>2. clockSlot >= Dkg1End + 1 + 2 * K /\ Dkg1End \in Nat
    BY <2>1, SlotsOfStage, StageNumbers
  <2>3. \A i \in 0 .. Len(hist) : Past(Line(i), e, Dkg1End)
    BY <2>2, LinePast
  <2>4. \A i \in 0 .. Len(hist) : SameSettled(Line(i), Snapshot)
    BY DEF NIInv, LineSettled
  <2> QED
    BY <1>1, <2>3, <2>4, SnapshotIs DEF SameSettled
<1>10. ASSUME NEW p \in ok, <<e, p>> \notin torn PROVE cij[e][p] = l.polys[p]
  <2> DEFINE tx == Tx("dkg1", e, p, Group[e][p], cij[e][p])
  <2>1. Committed(Snapshot) /\ Group[e][p] = n
    BY <1>1, <1>5, LineRight DEF Line, LoopOK
  <2>2. tx \in sent
    BY <1>1, <1>5, <2>1, SnapshotIs DEF Committed
  <2>3. tx.type = "dkg1" /\ tx.from = n /\ tx.epoch = e /\ tx.pid = p /\ tx.data = cij[e][p]
    BY <2>1 DEF Tx
  <2>4. Holds(n, l.polys)
    BY <1>1 DEF LoopOK
  <2> HIDE DEF tx, l
  <2> QED
    BY <1>10, <2>2, <2>3, <2>4 DEF Holds
<1> HIDE DEF todo, lacking, ready
<1>11. ASSUME NEW tx \in New
       PROVE  /\ tx = Tx(tx.type, e, tx.pid, n, tx.data)
              /\ tx.type \in {"dkg2", "sig"} /\ tx.pid \in l.ids
              /\ tx.type = "dkg2" => tx.data \in Poly
              /\ \A i \in 0 .. Len(hist) : Deals(tx, Line(i)) /\ Signs(tx, Line(i))
  <2>1. PICK p \in ok : tx = Tx("dkg2", e, p, n, l.polys[p])
    OBVIOUS
  <2>2. tx.type = "dkg2" /\ tx.epoch = e /\ tx.pid = p /\ tx.from = n /\ tx.data = l.polys[p]
    BY <2>1 DEF Tx
  <2>3. tx = Tx(tx.type, e, tx.pid, n, tx.data)
    BY <2>1, <2>2
  <2>4. \A i \in 0 .. Len(hist) : Deals(tx, Line(i)) /\ Signs(tx, Line(i))
    BY <1>9, <1>10, <2>2 DEF Deals, Signs
  <2> QED
    BY <1>5, <2>2, <2>3, <2>4
<1> HIDE DEF New, tags
<1> QED
  BY <1>3, <1>7, <1>8, <1>11, SendStep

\* The share a node computes is the one every branch accepts.
LEMMA ShareRight ==
    ASSUME NIInv, NEW i \in 0 .. Len(hist), clockSlot >= 8 * K
    PROVE  /\ Past(Line(i), clockEpoch, Dkg2End)
           /\ generateSIG(clockEpoch) = SignatureAt(Line(i), clockEpoch)
<1> DEFINE e == clockEpoch
<1>1. e \in Epochs /\ clockSlot \in Nat /\ Dkg2End \in Nat /\ clockSlot >= Dkg2End + 1 + 2 * K
  BY StageNumbers DEF NIInv, Placed
<1>2. Past(Line(i), e, Dkg2End)
  BY <1>1, LinePast
<1>3. InTime(Line(i)) /\ SameSettled(Line(i), Snapshot)
  BY LineRight DEF Later
<1>4. Past(Line(i), e, Dkg1End) /\ Line(i).epoch >= e
  BY <1>1, <1>2, <1>3, StageNumbers DEF Past, InTime
<1>5. Line(i).cij[e] = cij[e] /\ Line(i).ens[e] = ens[e] /\ Line(i).R[e] = R[e]
  BY <1>1, <1>2, <1>3, <1>4, SnapshotIs DEF SameSettled
<1>6. \A p \in Pid : ens[e][p] # None => ens[e][p] = cij[e][p]
  BY <1>1, LineRight, SoundTypes DEF Line
<1>7. /\ {p \in Pid : ens[e][p] # None} = {q \in Pid : ens[e][q] # None /\ cij[e][q] # None}
      /\ [p \in {p \in Pid : ens[e][p] # None} |-> ens[e][p]]
           = [p \in {q \in Pid : ens[e][q] # None /\ cij[e][q] # None} |-> cij[e][p]]
  BY <1>6
<1> QED
  BY <1>2, <1>5, <1>7 DEF generateSIG, SignatureAt, GetRBM, GetR

\* A share is sent when key and message are the same on every branch.
LEMMA SigStep ==
    ASSUME NIInv, NEW n \in Node, UNCHANGED <<vars, clock, hist>>, doSIGs(n)
    PROVE  NIInv'
<1> DEFINE l == LoopState(n)
           e == clockEpoch
           todo == l.ids \ l.tags
<1>1. LoopOK(n, l) /\ e \in Epochs /\ l.epoch = e /\ l.works /\ l.stage = RbSignStage
  BY LoopRight DEF NIInv, Placed, LoopOK, doSIGs
<1>2. clockSlot >= 8 * K
  <2>1. clockSlot \in Nat /\ GetRBStage(clockSlot) = RbSignStage
    BY <1>1, StageNumbers DEF NIInv, Placed, LoopOK
  <2> QED
    BY <2>1, SlotsOfStage
<1>3. UNCHANGED <<rbPolys, torn>>
  BY DEF doSIGs
<1>4. PICK ok \in SUBSET l.ids : \E tags \in SUBSET Pid :
         /\ sent' = sent \cup {Tx("sig", e, p, n, generateSIG(e)) : p \in ok}
         /\ Finish(n, e, l.stage, l.polys, tags)
  <2>1. CASE EnoughDealt(l.epoch)
    <3>1. PICK ok \in Generated(todo) :
             /\ sent' = sent \cup {Tx("sig", l.epoch, p, n, generateSIG(l.epoch)) : p \in ok}
             /\ Finish(n, l.epoch, l.stage, l.polys, l.tags \cup ok)
      BY <2>1 DEF doSIGs
    <3>2. ok \in SUBSET l.ids /\ l.tags \cup ok \in SUBSET Pid
      BY <1>1 DEF Generated, LoopOK
    <3> HIDE DEF l
    <3> QED
      BY <1>1, <3>1, <3>2
  <2>2. CASE ~EnoughDealt(l.epoch)
    <3>1. Finish(n, l.epoch, l.stage, l.polys, l.ids) /\ sent' = sent
      BY <2>2 DEF doSIGs
    <3>2. {} \in SUBSET l.ids /\ l.ids \in SUBSET Pid
          /\ sent = sent \cup {Tx("sig", e, p, n, generateSIG(e)) : p \in {}}
      BY <1>1 DEF LoopOK
    <3> HIDE DEF l
    <3> QED
      BY <1>1, <3>1, <3>2
  <2> QED
    BY <2>1, <2>2
<1> DEFINE New == {Tx("sig", e, p, n, generateSIG(e)) : p \in ok}
<1>5. sent' = sent \cup New
  BY <1>4
<1> HIDE DEF l
<1>6. Finished(n, l.polys)
  <2>1. l.stage \in {RbDkg1Stage, RbDkg2Stage, RbSignStage, RbSignConfirmStage}
        /\ l.polys \in [Pid -> Poly \cup {None}]
    BY <1>1 DEF LoopOK
  <2>2. PICK tags \in SUBSET Pid : Finish(n, e, l.stage, l.polys, tags)
    BY <1>4
  <2> QED
    BY <2>1, <2>2, FinishRight
<1>7. ASSUME NEW tx \in New
      PROVE  /\ tx = Tx(tx.type, e, tx.pid, n, tx.data)
             /\ tx.type \in {"dkg2", "sig"} /\ tx.pid \in l.ids
             /\ tx.type = "dkg2" => tx.data \in Poly
             /\ \A i \in 0 .. Len(hist) : Deals(tx, Line(i)) /\ Signs(tx, Line(i))
  <2>1. PICK p \in ok : tx = Tx("sig", e, p, n, generateSIG(e))
    OBVIOUS
  <2>2. tx.type = "sig" /\ tx.epoch = e /\ tx.pid = p /\ tx.from = n /\ tx.data = generateSIG(e)
    BY <2>1 DEF Tx
  <2>3. tx = Tx(tx.type, e, tx.pid, n, tx.data)
    BY <2>1, <2>2
  <2>4. \A i \in 0 .. Len(hist) : Deals(tx, Line(i)) /\ Signs(tx, Line(i))
    BY <1>2, <2>2, ShareRight DEF Deals, Signs
  <2> QED
    BY <2>2, <2>3, <2>4
<1> HIDE DEF New
<1> QED
  BY <1>3, <1>5, <1>6, <1>7, SendStep DEF l

\* A loop without work only follows the epoch and the stage.
LEMMA NothingStep ==
    ASSUME NIInv, NEW n \in Node, UNCHANGED <<vars, clock, hist>>, doNothing(n)
    PROVE  NIInv'
<1> DEFINE l == LoopState(n)
           stage == IF l.ids = {} THEN RbDkg1Stage ELSE l.stage
<1>1. LoopOK(n, l) /\ NTypeOK /\ clockEpoch \in Epochs /\ l.epoch = clockEpoch
  BY LoopRight DEF NIInv, Placed, LoopOK
<1>2. /\ epochId' = [epochId EXCEPT ![n] = clockEpoch]
      /\ epochStage' = [epochStage EXCEPT ![n] = stage]
      /\ taskTags' = [taskTags EXCEPT ![n] = l.tags]
      /\ polys' = [polys EXCEPT ![n] = l.polys]
      /\ UNCHANGED <<rbPolys, sent, torn>>
  BY <1>1 DEF doNothing
<1>3. /\ stage \in {RbDkg1Stage, RbDkg2Stage, RbSignStage, RbSignConfirmStage}
      /\ l.polys \in [Pid -> Poly \cup {None}] /\ l.tags \in SUBSET Pid
  BY <1>1 DEF LoopOK
<1> HIDE DEF l, stage
<1>4. Finished(n, l.polys)
  BY <1>1, <1>2, <1>3 DEF NTypeOK, Finished
<1> DEFINE New == {}
<1>5. /\ sent' = sent \cup New
      /\ \A tx \in New :
            /\ tx = Tx(tx.type, clockEpoch, tx.pid, n, tx.data)
            /\ tx.type \in {"dkg2", "sig"} /\ tx.pid \in LoopState(n).ids
            /\ tx.type = "dkg2" => tx.data \in Poly
            /\ \A i \in 0 .. Len(hist) : Deals(tx, Line(i)) /\ Signs(tx, Line(i))
  BY <1>2
<1> HIDE DEF New
<1> QED
  BY <1>2, <1>4, <1>5, SendStep DEF l

\* What a crash leaves in memory, and that nobody else is concerned.
LEMMA RestartRight ==
    ASSUME NIInv, NEW n \in Node, Restarted(n)
    PROVE  /\ epochId' \in [Node -> Epochs \cup {NoEpoch}]
           /\ epochStage' \in [Node -> {RbDkg1Stage, RbDkg2Stage, RbSignStage, RbSignConfirmStage}]
           /\ polys' \in [Node -> [Pid -> Poly \cup {None}]] /\ taskTags' \in [Node -> SUBSET Pid]
           /\ epochId'[n] = NoEpoch
           /\ \A v \in Node \ {n} : epochId'[v] = epochId[v] /\ polys'[v] = polys[v]
<1>1. NTypeOK
  BY DEF NIInv
<1>2. NoPolys \in [Pid -> Poly \cup {None}]
  BY DEF NoPolys
<1> QED
  BY <1>1, <1>2 DEF Restarted, NTypeOK

\* A crash loses what is in memory, which the database has too.
LEMMA CrashStep ==
    ASSUME NIInv, NEW n \in Node, Crash(n, {})
    PROVE  NIInv'
<1>1. UNCHANGED <<vars, clock, hist>> /\ UNCHANGED <<rbPolys, torn>> /\ Restarted(n)
  BY DEF Crash
<1> DEFINE New == {}
<1>2. /\ sent' = sent \cup New /\ sent' = sent
      /\ \A tx \in New :
            /\ Member(tx)' /\ Keeps(tx)'
            /\ \A i \in 0 .. Len(hist) : Deals(tx, Line(i)) /\ Signs(tx, Line(i))
  BY DEF Crash
<1> HIDE DEF New
<1>3. NodeMoves(n)
  BY <1>1, RestartRight, StoredHolds DEF NodeMoves
<1>4. NTypeOK'
  BY <1>1, <1>2, RestartRight DEF NIInv, NTypeOK
<1> QED
  BY <1>1, <1>2, <1>3, <1>4, NodeStep

\* A crash in the commitment stage: the commitment whose polynomial is not
\* stored is recorded as torn, the others are kept.
LEMMA CrashInDKG1Step ==
    ASSUME NIInv, NEW n \in Node, CrashInDKG1(n, {})
    PROVE  NIInv'
<1> DEFINE l == LoopState(n)
           e == clockEpoch
           todo == {p \in l.ids \ l.tags : l.polys[p] = None}
<1>1. LoopOK(n, l)
  BY LoopRight
<1>2. PICK x \in todo : \E stored \in SUBSET (todo \ {x}) :
         /\ \A p \in stored \cup {x} : gen[p] + 1 \in Poly
         /\ gen' = [p \in Pid |-> IF p \in stored \cup {x} THEN gen[p] + 1 ELSE gen[p]]
         /\ sent' = sent \cup {Tx("dkg1", l.epoch, p, n, gen'[p]) : p \in (stored \cup {x}) \ {}}
         /\ rbPolys' = IF stored = {} THEN rbPolys
                       ELSE [rbPolys EXCEPT ![n][l.epoch] =
                               [p \in Pid |-> IF p \in stored THEN gen'[p] ELSE l.polys[p]]]
         /\ torn' = torn \cup {<<l.epoch, x>>}
  BY DEF CrashInDKG1
<1>3. PICK stored \in SUBSET (todo \ {x}) :
         /\ \A p \in stored \cup {x} : gen[p] + 1 \in Poly
         /\ gen' = [p \in Pid |-> IF p \in stored \cup {x} THEN gen[p] + 1 ELSE gen[p]]
         /\ sent' = sent \cup {Tx("dkg1", l.epoch, p, n, gen'[p]) : p \in (stored \cup {x}) \ {}}
         /\ rbPolys' = IF stored = {} THEN rbPolys
                       ELSE [rbPolys EXCEPT ![n][l.epoch] =
                               [p \in Pid |-> IF p \in stored THEN gen'[p] ELSE l.polys[p]]]
         /\ torn' = torn \cup {<<l.epoch, x>>}
  BY <1>2
<1>4. Restarted(n) /\ UNCHANGED <<vars, clock, hist>>
  BY DEF CrashInDKG1
<1> DEFINE made == stored \cup {x}
           ps == [p \in Pid |-> IF p \in stored THEN gen'[p] ELSE l.polys[p]]
           New == {Tx("dkg1", e, p, n, gen'[p]) : p \in made}
<1> HIDE DEF l
<1>5. l.epoch = e /\ e \in Epochs
  BY <1>1 DEF LoopOK, NIInv, Placed
<1>6. made \subseteq Pid /\ x \notin stored /\ \A p \in made : p \in l.ids /\ l.polys[p] = None
  BY <1>1 DEF LoopOK
<1>7. \A p \in made : gen'[p] \in Poly
  BY <1>3, <1>6
<1>8. ps \in [Pid -> Poly \cup {None}]
  BY <1>1, <1>7 DEF LoopOK
<1>9. Holds(n, ps)
  <2> SUFFICES ASSUME NEW tx \in sent, tx.type = "dkg1", tx.from = n, tx.epoch = e,
                      <<tx.epoch, tx.pid>> \notin torn
               PROVE  ps[tx.pid] = tx.data
    BY DEF Holds
  <2>1. l.polys[tx.pid] = tx.data
    BY <1>1 DEF LoopOK, Holds
  <2>2. tx.data \in Poly /\ tx.pid \in Pid
    BY DEF NIInv, Sendings, Member
  <2>3. tx.pid \notin made
    BY <1>6, <2>1, <2>2, ValuesAssumption
  <2> QED
    BY <2>1, <2>2, <2>3
<1>10. /\ sent' = sent \cup New /\ torn' = torn \cup {<<e, x>>}
       /\ rbPolys' = IF stored = {} THEN rbPolys ELSE [rbPolys EXCEPT ![n][e] = ps]
  <2>1. (stored \cup {x}) \ {} = made
    OBVIOUS
  <2> QED
    BY <1>3, <1>5, <2>1
<1> HIDE DEF e, todo, ps, New
<1>11. /\ rbPolys' \in [Node -> [Epochs -> [Pid -> Poly \cup {None}]]]
       /\ \A v \in Node \ {n} : rbPolys'[v] = rbPolys[v]
       /\ \A y \in Epochs \ {e} : rbPolys'[n][y] = rbPolys[n][y]
       /\ stored # {} => rbPolys'[n][e] = ps
       /\ stored = {} => rbPolys'[n][e] = rbPolys[n][e]
  <2>1. rbPolys \in [Node -> [Epochs -> [Pid -> Poly \cup {None}]]]
    BY DEF NIInv, NTypeOK
  <2>2. CASE stored = {}
    BY <1>10, <2>1, <2>2
  <2>3. CASE stored # {}
    BY <1>5, <1>8, <1>10, <2>1, <2>3
  <2> QED
    BY <2>2, <2>3
<1>12. NodeMoves(n)
  <2>1. Holds(n, rbPolys'[n][e])
    BY <1>9, <1>11, StoredHolds DEF e
  <2>2. epochId'[n] = NoEpoch /\ \A v \in Node \ {n} : epochId'[v] = epochId[v] /\ polys'[v] = polys[v]
    BY <1>4, RestartRight
  <2> QED
    BY <1>11, <2>1, <2>2 DEF NodeMoves, e
<1>13. ASSUME NEW tx \in New
       PROVE  /\ Member(tx)' /\ Keeps(tx)'
              /\ \A i \in 0 .. Len(hist) : Deals(tx, Line(i)) /\ Signs(tx, Line(i))
  <2>1. PICK p \in made : tx = Tx("dkg1", e, p, n, gen'[p])
    BY DEF New
  <2>2. tx.type = "dkg1" /\ tx.epoch = e /\ tx.pid = p /\ tx.from = n /\ tx.data = gen'[p]
    BY <2>1 DEF Tx
  <2>3. p \in Pid /\ Group[e][p] = n /\ clockEpoch' = e /\ e <= e
    BY <1>1, <1>4, <1>5, <1>6, StageNumbers DEF LoopOK, clock, e
  <2>4. tx = Tx(tx.type, tx.epoch, tx.pid, tx.from, tx.data)
    BY <2>1, <2>2
  <2>5. epochId'[n] = NoEpoch /\ NoEpoch \notin Epochs
    BY <1>4, RestartRight, NodeAssumption
  <2>6. Member(tx)'
    BY <1>5, <1>7, <2>2, <2>3, <2>4, <2>5 DEF Member, Tx
  <2>7. Keeps(tx)'
    <3>1. CASE p = x
      BY <1>10, <2>2, <3>1 DEF Keeps
    <3>2. CASE p # x
      <4>1. p \in stored /\ ps[p] = gen'[p]
        BY <2>3, <3>2 DEF ps
      <4>2. rbPolys'[n][e] = ps
        BY <1>11, <4>1
      <4>3. e # NoEpoch
        BY <1>5, <2>5
      <4> QED
        BY <2>2, <2>5, <4>1, <4>2, <4>3 DEF Keeps
    <3> QED
      BY <3>1, <3>2
  <2> QED
    BY <2>2, <2>6, <2>7 DEF Deals, Signs
<1>14. NTypeOK'
  <2>1. \A tx \in sent' : tx.type \in {"dkg1", "dkg2", "sig"} /\ tx.pid \in Pid
    <3>1. \A tx \in sent : tx.type \in {"dkg1", "dkg2", "sig"} /\ tx.pid \in Pid
      BY DEF NIInv, NTypeOK
    <3>2. \A tx \in New : tx.type \in {"dkg1", "dkg2", "sig"} /\ tx.pid \in Pid
      BY <1>13 DEF Member
    <3> QED
      BY <1>10, <3>1, <3>2
  <2>2. Len(hist') <= MaxReorg
    BY <1>4 DEF NIInv, NTypeOK
  <2> QED
    BY <1>4, <1>11, <2>1, <2>2, RestartRight DEF NTypeOK
<1>15. torn \subseteq torn'
  BY <1>10
<1> QED
  BY <1>4, <1>10, <1>12, <1>13, <1>14, <1>15, NodeStep

\* The nodes start without transactions and without a past.
LEMMA NodesStart == ASSUME NInit PROVE NIInv
<1>1. /\ hist = <<>> /\ Len(hist) = 0 /\ sent = {} /\ clockEpoch = epoch /\ clockSlot = slot
      /\ epochId = [n \in Node |-> NoEpoch] /\ epoch = FirstEpochId /\ slot = 0
      /\ FirstEpochId \in Epochs /\ 0 \in 0 .. SlotCount - 1 /\ MaxReorg \in Nat
  BY ConstantsAssumption, NodeAssumption, StageNumbers DEF NInit, Init, Epochs
<1>2. \A i \in 0 .. Len(hist) : i = 0 /\ Line(i) = Snapshot
  BY <1>1 DEF Line
<1>3. NTypeOK
  BY <1>1 DEF NInit, NTypeOK, NoPolys
<1>4. Placed
  <2>1. Now = Clock /\ Now \in Nat
    BY <1>1, TimeNat DEF Now, Clock
  <2>2. hist \in Seq(Elements(hist))
    BY <1>1, EmptySeq
  <2>3. \A i \in 1 .. Len(hist) : FALSE
    BY <1>1
  <2> QED
    BY <1>1, <2>1, <2>2, <2>3 DEF Placed
<1>5. Sound
  <2>1. SoundState(Snapshot)
    <3>1. /\ cij \in [Epochs -> [Pid -> Poly \cup {None}]] /\ ens \in [Epochs -> [Pid -> Poly \cup {None}]]
          /\ DOMAIN sig = Epochs /\ \A e \in Epochs : DOMAIN sig[e] = Pid
          /\ \A e \in Epochs, p \in Pid : ens[e][p] = None
      BY DEF NInit, Init
    <3>2. signors \in [epoch : Nat, num : 0 .. MaxSignors]
      BY ConstantsAssumption DEF NInit, Init
    <3>3. DOMAIN R = FirstEpochId .. LastEpochId + 1 /\ R[FirstEpochId] = GenesisR
      BY ConstantsAssumption DEF NInit, Init
    <3> QED
      BY <1>1, <3>1, <3>2, <3>3, SnapshotIs DEF SoundState
  <2>2. Committed(Snapshot)
    BY SnapshotIs DEF Committed, NInit, Init
  <2> QED
    BY <1>2, <2>1, <2>2 DEF Sound
<1>6. LineSettled
  BY <1>2 DEF LineSettled, SameSettled
<1>7. Follows
  BY <1>1, NodeAssumption DEF Follows
<1>8. Sendings
  BY <1>1 DEF Sendings
<1> QED
  BY <1>3, <1>4, <1>5, <1>6, <1>7, <1>8 DEF NIInv

\* A step that changes nothing.
LEMMA NodesStutter == ASSUME NIInv, UNCHANGED nvars PROVE NIInv'
<1>1. /\ UNCHANGED <<epoch, slot, cij, ens, sig, signors, R>> /\ UNCHANGED <<clockEpoch, clockSlot, hist>>
      /\ UNCHANGED <<epochId, epochStage, polys, taskTags, looped, rbPolys, sent, gen, crashes, torn>>
  BY DEF nvars, vars, clock, nodeVars
<1>2. Snapshot' = Snapshot /\ \A i \in 0 .. Len(hist) : Line(i)' = Line(i)
  BY <1>1 DEF Line, Snapshot
<1>3. NTypeOK' /\ Follows'
  BY <1>1 DEF NIInv, NTypeOK, Follows
<1>4. Placed'
  BY <1>1 DEF NIInv, Placed, Now, Clock, Time, Elements
<1>5. Sound'
  BY <1>1, <1>2 DEF NIInv, Sound, SoundState, Committed
<1>6. LineSettled'
  BY <1>1, <1>2 DEF NIInv, LineSettled, SameSettled, Past
<1>7. Sendings'
  <2>1. ASSUME NEW tx \in sent PROVE Member(tx)' /\ Keeps(tx)'
    <3>1. Member(tx) /\ Keeps(tx)
      BY DEF NIInv, Sendings
    <3> QED
      BY <1>1, <3>1 DEF Member, Keeps, Tx
  <2>2. ASSUME NEW tx \in sent, NEW i \in 0 .. Len(hist)
        PROVE  Deals(tx, Line(i))' /\ Signs(tx, Line(i))'
    <3>1. Deals(tx, Line(i)) /\ Signs(tx, Line(i)) /\ Line(i)' = Line(i)
      BY <1>2 DEF NIInv, Sendings
    <3> QED
      BY <1>1, <3>1 DEF Deals, Signs, Past, SignatureAt
  <2> QED
    BY <1>1, <2>1, <2>2 DEF Sendings
<1> QED
  BY <1>3, <1>4, <1>5, <1>6, <1>7 DEF NIInv

\* The invariant holds however the nodes, the chain and the crashes
\* interleave, for every group of nodes and every length of the stages.
THEOREM NodesInductive == NSpec => []NIInv
<1>1. NInit => NIInv
  BY NodesStart
<1>2. NIInv /\ [NNext]_nvars => NIInv'
  <2> SUFFICES ASSUME NIInv, [NNext]_nvars PROVE NIInv'
    OBVIOUS
  <2>1. ASSUME NEW n \in Node, doLoop(n) PROVE NIInv'
    <3>1. UNCHANGED <<vars, clock, hist>>
      BY <2>1 DEF doLoop
    <3>2. doDKG1s(n) \/ doDKG2s(n) \/ doSIGs(n) \/ doNothing(n)
      BY <2>1 DEF doLoop
    <3> QED
      BY <3>1, <3>2, Dkg1Step, Dkg2Step, SigStep, NothingStep
  <2>2. ASSUME NEW n \in Node, Crash(n, {}) PROVE NIInv'
    BY <2>2, CrashStep
  <2>3. ASSUME NEW n \in Node, CrashInDKG1(n, {}) PROVE NIInv'
    BY <2>3, CrashInDKG1Step
  <2>4. ASSUME NEW tx \in sent, Include(tx) PROVE NIInv'
    BY <2>4, IncludeStep
  <2>5. CASE Tick \/ CatchUp
    BY <2>5, AdvanceStep
  <2>6. CASE Reorg
    BY <2>6, ReorgStep
  <2>7. CASE UNCHANGED nvars
    BY <2>7, NodesStutter
  <2> QED
    BY <2>1, <2>2, <2>3, <2>4, <2>5, <2>6, <2>7 DEF NNext
<1> QED
  BY <1>1, <1>2, PTL DEF NSpec

\* The share a proposer sent (doSIGs) verifies on every branch the chain can
\* be on when its block time has come to the signing stage: the confirmation
\* stages are long enough for every group, threshold and number of nodes.
THEOREM AlwaysSharesSentVerify == NSpec => []SharesSentVerify
<1>1. ASSUME NIInv PROVE SharesSentVerify
  <2> SUFFICES ASSUME NEW tx \in sent, tx.type = "sig" PROVE tx.data = GroupSignature(tx.epoch)
    BY DEF SharesSentVerify
  <2>1. 0 \in 0 .. Len(hist) /\ Line(0) = Snapshot
    BY LineRight, LenProperties DEF NIInv, Placed, Line
  <2>2. Signs(tx, Snapshot)
    BY <1>1, <2>1 DEF NIInv, Sendings
  <2>3. SignatureAt(Snapshot, tx.epoch) = GroupSignature(tx.epoch)
    BY SnapshotIs DEF SignatureAt, GroupSignature, GroupKey, Dealers, IsJoinDKG2, GetRBM, GetR
  <2> QED
    BY <2>2, <2>3 DEF Signs
<1> QED
  BY <1>1, NodesInductive, PTL

\* A dealing a proposer sent (doDKG2s) fits the commitment on the chain
\* after any sequence of crashes, restarts and replaced branches, and the
\* node's memory and database keep their types.
THEOREM AlwaysNodeRecordsFit == NSpec => []NodeRecordsFit
<1>1. ASSUME NIInv PROVE NodeRecordsFit
  <2>1. NTypeOK
    BY <1>1 DEF NIInv
  <2>2. 0 \in 0 .. Len(hist) /\ Line(0) = Snapshot
    BY LenProperties DEF NIInv, Placed, Line
  <2>3. ASSUME NEW tx \in sent, tx.type = "dkg2", <<tx.epoch, tx.pid>> \notin torn
        PROVE  cij[tx.epoch][tx.pid] = tx.data
    <3>1. Deals(tx, Snapshot)
      BY <1>1, <2>2 DEF NIInv, Sendings
    <3> QED
      BY <2>3, <3>1, SnapshotIs DEF Deals
  <2> QED
    BY <2>1, <2>3 DEF NodeRecordsFit, DealingsFit
<1> QED
  BY <1>1, NodesInductive, PTL

\* A proposer never sends two commitments for an id and epoch (doDKG1s),
\* whatever restarts came between, unless it crashed between sending one and
\* storing its polynomial.
THEOREM AlwaysOneCommitment == NSpec => []OneCommitment
<1>1. ASSUME NIInv PROVE OneCommitment
  <2> SUFFICES ASSUME NEW t1 \in sent, NEW t2 \in sent, t1.type = "dkg1", t2.type = "dkg1",
                      <<t1.epoch, t1.pid>> \notin torn, <<t2.epoch, t2.pid>> \notin torn,
                      t1.epoch = t2.epoch, t1.pid = t2.pid
               PROVE  t1 = t2
    BY DEF OneCommitment
  <2>1. Member(t1) /\ Member(t2) /\ Keeps(t1) /\ Keeps(t2)
    BY <1>1 DEF NIInv, Sendings
  <2>2. t1.from = t2.from
    BY <2>1 DEF Member
  <2>3. t1.data = t2.data
    BY <2>1, <2>2 DEF Keeps
  <2> QED
    BY <2>1, <2>2, <2>3 DEF Member
<1> QED
  BY <1>1, NodesInductive, PTL

=============================================================================
