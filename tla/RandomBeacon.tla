---------------------------- MODULE RandomBeacon ----------------------------
(***************************************************************************)
(* The random beacon precompiled contract,                                 *)
(* core/vm/random_beacon_contract.go.                                      *)
(*                                                                         *)
(* In every epoch the proposers of that epoch run a distributed key        *)
(* generation and a threshold signature through three transactions: dkg1   *)
(* (commit to a polynomial), dkg2 (deal encrypted shares of it), sigShare  *)
(* (sign with the group key share).  The contract stores what they send    *)
(* and, once enough shares are in, the random number of the next epoch.    *)
(*                                                                         *)
(* Cryptography is abstracted to what its checks tell apart.  A commitment *)
(* stands for the polynomial it commits to, a dealing for the polynomial   *)
(* it deals.  The group key of an epoch is the function from the dealers   *)
(* (the proposers with a stored dealing) to their polynomials: the code    *)
(* adds their commitments.  A signature share, and the group signature     *)
(* that shares interpolate to, is the pair of that key and the message.    *)
(***************************************************************************)
EXTENDS Naturals, FiniteSets

CONSTANTS
    Pid,            \* proposer ids, the indices 0 .. RandomProperCount-1
    Address,        \* accounts that may call the contract
    Group,          \* Group[e][p]: address of proposer p of epoch e
    GroupEpochs,    \* epochs whose proposer group is in the local database
    Poly,           \* polynomials of degree at most PolymDegree
    BadPoly,        \* a commitment that is no low-degree code word
    K,              \* posconfig.K: an epoch has 12 * K slots
    RBThres,        \* posconfig.Cfg().RBThres
    PolymDegree,    \* posconfig.Cfg().PolymDegree
    FirstEpochId,   \* posconfig.FirstEpochId
    LastEpochId,    \* bound: the last epoch modelled
    MaxSignors,     \* bound on the stored number of signers
    BadShare,       \* a share that verifies under no group key
    None,           \* no data under a storage key
    GenesisR        \* hash(1), the random number of the first epoch

Epochs == FirstEpochId .. LastEpochId

ASSUME ConstantsAssumption ==
    /\ K \in Nat \ {0}
    /\ FirstEpochId \in Nat \ {0}
    /\ LastEpochId \in Nat
    /\ FirstEpochId <= LastEpochId
    /\ MaxSignors \in Nat

ASSUME ThresholdAssumption ==
    /\ IsFiniteSet(Pid)
    /\ PolymDegree \in Nat
    /\ RBThres = PolymDegree + 1

ASSUME GroupAssumption ==
    /\ Group \in [Epochs -> [Pid -> Address]]
    /\ GroupEpochs \subseteq Epochs

\* The possible group keys.
Keys == UNION {[D -> Poly] : D \in SUBSET Pid}

\* No share, or no random number, under a storage key.
NoShare == [key |-> None, msg |-> None]

ASSUME ValuesAssumption ==
    /\ None \notin Poly
    /\ BadPoly \notin Poly
    /\ None \notin Keys
    /\ GenesisR # NoShare

VARIABLES
    epoch, slot,    \* the time of the block being executed
    cij,            \* kindCij: commitments, by epoch and proposer
    ens,            \* kindEns: encrypted shares
    sig,            \* sigShareId: signature shares
    signors,        \* the one storage slot Hash{0} with (epoch, number)
    R               \* kindR: the random number of each epoch

store == <<cij, ens, sig, signors, R>>
vars == <<epoch, slot, cij, ens, sig, signors, R>>
-----------------------------------------------------------------------------
(***************************************************************************)
(* Stages of an epoch.                                                     *)
(***************************************************************************)
SlotCount == 12 * K
Dkg1End   == 2 * K - 1
Dkg2Begin == 4 * K
Dkg2End   == 6 * K - 1
SignBegin == 8 * K
SignEnd   == 10 * K - 1

RbDkg1Stage        == 1
RbDkg1ConfirmStage == 2
RbDkg2Stage        == 3
RbDkg2ConfirmStage == 4
RbSignStage        == 5
RbSignConfirmStage == 6

\* Deviation: the second stage ends one slot late.
GetRBStageLate(s) ==
    IF s <= Dkg1End THEN RbDkg1Stage
    ELSE IF s < Dkg2Begin THEN RbDkg1ConfirmStage
    ELSE IF s <= Dkg2End + 1 THEN RbDkg2Stage
    ELSE IF s < SignBegin THEN RbDkg2ConfirmStage
    ELSE IF s <= SignEnd THEN RbSignStage
    ELSE RbSignConfirmStage

\* Deviation: no confirmation stage between the stages.
GetRBStageNoConfirm(s) ==
    IF s < Dkg2Begin THEN RbDkg1Stage
    ELSE IF s < SignBegin THEN RbDkg2Stage
    ELSE IF s <= SignEnd THEN RbSignStage
    ELSE RbSignConfirmStage

\* The stage of a slot.
GetRBStage(s) ==
    IF s <= Dkg1End THEN RbDkg1Stage
    ELSE IF s < Dkg2Begin THEN RbDkg1ConfirmStage
    ELSE IF s <= Dkg2End THEN RbDkg2Stage
    ELSE IF s < SignBegin THEN RbDkg2ConfirmStage
    ELSE IF s <= SignEnd THEN RbSignStage
    ELSE RbSignConfirmStage

\* Deviation: the epoch of the transaction is not compared with the block's.
isValidStageOfAnyEpoch(e, stage) == GetRBStage(slot) = stage

isValidEpochStage(e, stage) == e = epoch /\ GetRBStage(slot) = stage

\* The caller must be the proposer with that id in the epoch's group, and
\* the group must be known.
isInRandomGroup(e, p, caller) ==
    /\ e \in GroupEpochs
    /\ Group[e][p] = caller
-----------------------------------------------------------------------------
(***************************************************************************)
(* What the contract reads from its storage.                               *)
(***************************************************************************)
IsJoinDKG2(e, p) == ens[e][p] # None

\* The proposers whose commitments make up the group key (dkgData).
Dealers(e) == {p \in Pid : IsJoinDKG2(e, p) /\ cij[e][p] # None}

GroupKey(e) == [p \in Dealers(e) |-> cij[e][p]]

\* An epoch without a random number of its own uses that of the first.
GetR(e) == IF R[e] # NoShare THEN R[e] ELSE GenesisR

\* The message signed in epoch e: hash(e + 1, GetR(e)).
GetRBM(e) == [next |-> e + 1, prev |-> GetR(e)]

\* The share, or interpolated signature, that the pairing checks accept.
GroupSignature(e) == [key |-> GroupKey(e), msg |-> GetRBM(e)]

Signers(e) == {p \in Pid : sig[e][p] # NoShare}

\* A proposer that took part in every stage, for the incentive.
IsRBActive(e, p) == sig[e][p] # NoShare /\ IsJoinDKG2(e, p)

\* Deviation: the counter is looked up under the epoch it is computed for.
getSignorsNumOfNext(e) == IF signors.epoch = e + 1 THEN signors.num ELSE 0

getSignorsNum(e) == IF signors.epoch = e THEN signors.num ELSE 0

\* Deviation: the code word check passes everything.
RScodeUnchecked(c) == Cardinality(Pid) > PolymDegree + 2

\* A commitment is a code word of a polynomial of degree at most
\* PolymDegree.  The check refuses every commitment of a group that is too
\* small for it.
RScodeVerify(c) == c \in Poly /\ Cardinality(Pid) > PolymDegree + 2
-----------------------------------------------------------------------------
Init ==
    /\ epoch = FirstEpochId
    /\ slot = 0
    /\ cij = [e \in Epochs |-> [p \in Pid |-> None]]
    /\ ens = [e \in Epochs |-> [p \in Pid |-> None]]
    /\ sig = [e \in Epochs |-> [p \in Pid |-> NoShare]]
    /\ signors = [epoch |-> 0, num |-> 0]
    /\ R = [e \in FirstEpochId .. LastEpochId + 1 |->
              IF e = FirstEpochId THEN GenesisR ELSE NoShare]

\* A transaction is refused unless its epoch is that of the block.
validDkg1(e, p, caller, c) ==
    /\ isValidEpochStage(e, RbDkg1Stage)
    /\ isInRandomGroup(e, p, caller)
    /\ cij[e][p] = None
    /\ RScodeVerify(c)

dkg1(e, p, caller, c) ==
    /\ validDkg1(e, p, caller, c)
    /\ cij' = [cij EXCEPT ![e][p] = c]
    /\ UNCHANGED <<epoch, slot, ens, sig, signors, R>>

\* Deviation: a dealing is accepted in any stage.
validDkg2AnyStage(e, p, caller, d) ==
    /\ e = epoch
    /\ isInRandomGroup(e, p, caller)
    /\ ens[e][p] = None
    /\ cij[e][p] # None
    /\ d = cij[e][p]

\* Deviation: a dealing need not fit the commitment.
validDkg2NoProof(e, p, caller, d) ==
    /\ isValidEpochStage(e, RbDkg2Stage)
    /\ isInRandomGroup(e, p, caller)
    /\ ens[e][p] = None
    /\ cij[e][p] # None

\* The DLEQ proofs hold exactly if the dealt shares are those the stored
\* commitment of the same proposer commits to.
validDkg2(e, p, caller, d) ==
    /\ isValidEpochStage(e, RbDkg2Stage)
    /\ isInRandomGroup(e, p, caller)
    /\ ens[e][p] = None
    /\ cij[e][p] # None
    /\ d = cij[e][p]

dkg2(e, p, caller, d) ==
    /\ validDkg2(e, p, caller, d)
    /\ ens' = [ens EXCEPT ![e][p] = d]
    /\ UNCHANGED <<epoch, slot, cij, sig, signors, R>>

\* The pairing check compares the share with the key share the dealers'
\* commitments give proposer p.  Nothing refuses a second share.
validSigShare(e, p, caller, s) ==
    /\ isValidEpochStage(e, RbSignStage)
    /\ isInRandomGroup(e, p, caller)
    /\ Cardinality(Dealers(e)) >= RBThres
    /\ s = GroupSignature(e)

\* Deviation: the number is stored for the epoch that computed it.
RandomEpochSame(e) == e

\* The epoch whose random number the proposers of epoch e compute.
RandomEpoch(e) == e + 1

\* Deviation: the stored shares are not counted, the counter is trusted.
computeRandomTrustingCounter(e, sigs) ==
    /\ R[e + 1] = NoShare
    /\ \A p \in Pid : sigs[p] \in {NoShare, GroupSignature(e)}

\* LagrangeSig interpolates PolymDegree + 1 of the stored shares; the result
\* passes the final pairing check if each is a share of the group key over
\* the current message.  The code takes the first ones in id order, the
\* model any of them.
computeRandom(e, sigs) ==
    /\ R[e + 1] = NoShare
    /\ Cardinality({p \in Pid : sigs[p] # NoShare}) >= RBThres
    /\ \E used \in SUBSET {p \in Pid : sigs[p] # NoShare} :
          /\ Cardinality(used) = PolymDegree + 1
          /\ \A p \in used : sigs[p] = GroupSignature(e)

\* Store the share, count it, and try to compute the random number with it.
sigShare(e, p, caller, s) ==
    /\ validSigShare(e, p, caller, s)
    /\ getSignorsNum(e) < MaxSignors
    /\ sig' = [sig EXCEPT ![e][p] = s]
    /\ signors' = [epoch |-> e, num |-> getSignorsNum(e) + 1]
    /\ R' = IF getSignorsNum(e) + 1 >= RBThres /\ computeRandom(e, sig'[e])
            THEN [R EXCEPT ![RandomEpoch(e)] = GroupSignature(e)]
            ELSE R
    /\ UNCHANGED <<epoch, slot, cij, ens>>

\* The next slot.  A slot may pass without a block or without transactions.
NextSlot ==
    /\ \/ /\ slot < SlotCount - 1
          /\ slot' = slot + 1
          /\ UNCHANGED epoch
       \/ /\ slot = SlotCount - 1
          /\ epoch < LastEpochId
          /\ slot' = 0
          /\ epoch' = epoch + 1
    /\ UNCHANGED store

\* The shares a caller can present: that of the key and message of some
\* epoch as they are now, or one that does not verify.
Shares == {GroupSignature(e) : e \in Epochs} \cup {BadShare}

Transaction ==
    \E e \in Epochs, p \in Pid, caller \in Address :
        \/ \E c \in Poly \cup {BadPoly} : dkg1(e, p, caller, c)
        \/ \E d \in Poly \cup {BadPoly} : dkg2(e, p, caller, d)
        \/ \E s \in Shares : sigShare(e, p, caller, s)

Next == Transaction \/ NextSlot

Spec == Init /\ [][Next]_vars
-----------------------------------------------------------------------------
(***************************************************************************)
(* Properties.                                                             *)
(***************************************************************************)

\* The storage has the shape the accessors expect, and block time is a slot
\* of a modelled epoch.
TypeOK ==
    /\ epoch \in Epochs
    /\ slot \in 0 .. SlotCount - 1
    /\ cij \in [Epochs -> [Pid -> Poly \cup {None}]]
    /\ ens \in [Epochs -> [Pid -> Poly \cup {None}]]
    /\ DOMAIN sig = Epochs
    /\ \A e \in Epochs : DOMAIN sig[e] = Pid
    /\ signors \in [epoch : Nat, num : 0 .. MaxSignors]
    /\ DOMAIN R = FirstEpochId .. LastEpochId + 1
    /\ R[FirstEpochId] = GenesisR

\* Every share the contract has stored for an epoch, whenever it was stored
\* and whatever was stored since, is a share of the group key and message as
\* they are now.  So any RBThres of them interpolate to the same signature
\* and the final pairing check of computeRandom cannot fail.
SharesAgree ==
    \A e \in Epochs, p \in Pid :
        sig[e][p] # NoShare => sig[e][p] = GroupSignature(e)

\* The random number stored for an epoch is the signature of the previous
\* epoch's group key, and at least RBThres different proposers dealt and at
\* least RBThres different proposers signed for it: shares sent twice, which
\* sigShare accepts and counts, never make up a quorum.
RandomFromQuorum ==
    \A e \in Epochs :
        R[e + 1] # NoShare =>
            /\ R[e + 1] = GroupSignature(e)
            /\ Cardinality(Dealers(e)) >= RBThres
            /\ Cardinality(Signers(e)) >= RBThres

\* No random number is missed: when RBThres different proposers of an epoch
\* have signed, the random number of the next epoch is there.  The counter
\* that triggers computeRandom is a single storage slot shared by all
\* epochs, so it must not lag behind the shares.
QuorumYieldsRandom ==
    \A e \in Epochs :
        Cardinality(Signers(e)) >= RBThres => R[e + 1] # NoShare

\* What GetR returns for an epoch that has begun never changes, although the
\* contract falls back on the first epoch's number: leader selection and the
\* beacon's own message may read it at any time of the epoch.
RandomSettled ==
    [][\A e \in Epochs : e <= epoch => GetR(e)' = GetR(e)]_vars

\* From the end of the second stage on the group key is fixed: nobody can
\* change the random number after the first share of it was published.
KeyFixedBeforeSigning ==
    [][\A e \in Epochs :
          e < epoch \/ (e = epoch /\ slot > Dkg2End)
            => GroupKey(e)' = GroupKey(e)]_vars

\* No proposer counts as active for the incentive without having committed,
\* dealt and signed in that epoch, one after the other.
ActiveTookPart ==
    \A e \in Epochs, p \in Pid :
        IsRBActive(e, p) => p \in Dealers(e) /\ ens[e][p] = cij[e][p]

(***************************************************************************)
(* The contract implements the abstract beacon.  The key of the current    *)
(* epoch counts as fixed from the end of the second stage on.              *)
(***************************************************************************)
AbstractKey == IF slot > Dkg2End THEN GroupKey(epoch) ELSE None

B == INSTANCE Beacon WITH
        NoKey <- None, NoRandom <- NoShare, Genesis <- GenesisR,
        First <- FirstEpochId, Last <- LastEpochId,
        now <- epoch, key <- AbstractKey, random <- R

\* Every behaviour of the contract is one of the abstract beacon: whatever
\* the proposers send, and whenever, the outcome of an epoch is fixed before
\* the signing stage and revealed at most once, within the epoch.
ImplementsBeacon == B!BSpec
=============================================================================
