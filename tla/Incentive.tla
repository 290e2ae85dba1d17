----------------------------- MODULE Incentive -------------------------------
(***************************************************************************)
(* pos/incentive and Finalize of consensus/pluto: the fees of an epoch and *)
(* the foundation's subsidy are split between epoch leaders, random number *)
(* proposers and slot leaders, and by them among their delegators, in the  *)
(* first block after the second stage of the next epoch.                   *)
(*                                                                         *)
(* A block is its epoch, slot and miner, the blocks each miner has in its  *)
(* epoch and in the one before, and the state after it.  head is the       *)
(* current block of a node.                                                *)
(***************************************************************************)
EXTENDS PosControl, Sequences, Functions

CONSTANTS
    Validator, Wallet,
    White,              \* any miner of the white list
    Stakers,            \* per validator: its staker infos, itself first
    EpochLeaders,       \* the validators drawn as epoch leaders, in order
    RandomProposers,    \* the validators drawn as proposers, in order
    Work,               \* what an epoch's leaders may have done, see below
    Tx,                 \* the transactions
    FeeRate,            \* the fee rate a validator starts with
    Gas,                \* the fee of a transaction
    SlotCount, IncentiveStartStage, FirstEpochId,
    subsidyReductionInterval, firstPeriodReward,
    Scale,              \* of percentages, 10^9 in the code
    ActScale,           \* of the activity, 10^5 in the code
    FeeUnit,            \* of fee rates, 10^4 in the code
    MaxEpoch            \* bound on the epochs

(* An element of Work: el is how many of the drawn epoch leaders the       *)
(* node's database has, rp tells if it has the proposers, elAct and rpAct  *)
(* which of their members were active, known and knownPrev whose staker    *)
(* info can be read for the epoch and for the one before.                  *)

ASSUME IncentiveAssumption ==
    /\ White \notin Validator /\ IsFiniteSet(Validator) /\ IsFiniteSet(Wallet)
    /\ \A v \in Validator :
          Stakers[v] \in Seq([wallet : Wallet, prob : Nat]) /\ Len(Stakers[v]) > 0
    /\ EpochLeaders \in Seq(Validator)
    /\ RandomProposers \in Seq(Validator) /\ RandomProposers # <<>>
    /\ SlotCount \in Nat \ {0} /\ FirstEpochId \in Nat \ {0} /\ IncentiveStartStage \in Nat
    /\ subsidyReductionInterval \in Nat \ {0} /\ firstPeriodReward \in Nat /\ Gas \in Nat
    /\ Scale \in Nat \ {0} /\ ActScale \in Nat \ {0} /\ FeeUnit \in Nat \ {0}
    /\ FeeRate \in 0..FeeUnit
    /\ MaxEpoch \in Nat /\ MaxEpoch >= FirstEpochId + 2

EpochLeaderCount == Len(EpochLeaders)
RandomProperCount == Len(RandomProposers)
IncentiveDelayEpochs == 1
Miner == Validator \cup {White}
Epochs == FirstEpochId..MaxEpoch

ASSUME WorkAssumption ==
    /\ Work # {}
    /\ \A w \in Work :
          /\ w.el \in 0..EpochLeaderCount /\ w.elAct \subseteq 1..EpochLeaderCount
          /\ w.rp \in BOOLEAN /\ w.rpAct \subseteq 1..RandomProperCount

\* A fee rate is at most the whole.
ASSUME TxAssumption ==
    \A tx \in Tx :
        \/ tx.kind \in {"none", "plain"}
        \/ tx.kind = "fee" /\ tx.v \in Validator /\ tx.rate \in 0..FeeUnit
        \/ tx.kind = "wl" /\ tx.ahead \in Nat /\ tx.count \in Nat

\* The white list never has all the places (at most 30 of 50 in the code),
\* and a call is two epochs ahead.
ASSUME WhiteListAssumption ==
    /\ MaxEpHold < EpochLeaderCount /\ WlDefault < EpochLeaderCount
    /\ PosUpgradeEpochID >= 2

VARIABLES
    head,
    work,       \* what the leaders of the epoch before head's have done
    worked,     \* history: validators that were active or made a block
    refused     \* history: a correct block on a fork was refused

ivars == <<head, work, worked, refused>>
-----------------------------------------------------------------------------
(***************************************************************************)
(* Amounts                                                                 *)
(***************************************************************************)

Total(f) == SumFunctionOnSet(f, DOMAIN f)
Plus(f, g) == [x \in DOMAIN f |-> f[x] + g[x]]
Abs(n) == IF n < 0 THEN -n ELSE n

round(num, den) == (2 * num + den) \div (2 * den)

\* The share num / den of total, rounded to a multiple of 1 / Scale first.
calcPercent(total, num, den) == (total * round(num * Scale, den)) \div Scale

Period(n) == n \div subsidyReductionInterval

getRemainIncentivePool(st, epochID) == st.pool[Period(epochID)]

addRemainIncentivePoolNow(st, epochID, remains) ==
    [st EXCEPT !.pool[Period(epochID) + 1] = remains]

\* Bytes() of a negative number are those of its absolute value.
addRemainIncentivePool(st, epochID, remains) ==
    [st EXCEPT !.pool[Period(epochID) + 1] =
        Abs(getRemainIncentivePool(st, epochID + subsidyReductionInterval) + remains)]

\* 88% of the year before.
Reduced(n) ==
    calcPercent(firstPeriodReward \div subsidyReductionInterval, 88 ^ n, 100 ^ n)

\* The subsidy is an amount; powers are beyond the provers.
ASSUME ReducedAssumption == \A n \in 0..Period(MaxEpoch) : Reduced(n) \in Nat

getBaseSubsidyTotalForEpoch(st, epochID) ==
    LET offset == epochID - FirstEpochId
        n == Period(offset)
    IN  IF epochID < FirstEpochId THEN 0
        ELSE Reduced(n) +
             (IF n >= 1
              THEN getRemainIncentivePool(st, offset) \div subsidyReductionInterval
              ELSE 0)

calculateIncentivePool(st, epochID) ==
    getBaseSubsidyTotalForEpoch(st, epochID) + st.gas[epochID]
-----------------------------------------------------------------------------
(***************************************************************************)
(* Activity                                                                *)
(***************************************************************************)

WlCount(st, epochID) == GetEpochWLInfo(st.infos, epochID).WlCount

\* GetEpochLeaders appends the white list only to a group stored whole.
LeadersRead(wl, w) ==
    IF w.el >= EpochLeaderCount - wl THEN EpochLeaderCount ELSE w.el

\* The members of the white list come last and get nothing.  As many places
\* are cut off a group stored in part, unless it is not longer than that.
getEpochLeaderActivity(st, epochID, w) ==
    LET wl == WlCount(st, epochID)
        raw == LeadersRead(wl, w)
    IN  [i \in 1..(IF raw > wl THEN raw - wl ELSE raw) |->
            [addr |-> EpochLeaders[i], act |-> i \in w.elAct]]

getRandomProposerActivity(w) ==
    [i \in 1..(IF w.rp THEN RandomProperCount ELSE 0) |->
        [addr |-> RandomProposers[i], act |-> i \in w.rpAct]]

NoBlocks == [m \in Miner |-> 0]

BlocksOf(b, epochID) ==
    IF b.e = epochID THEN b.during
    ELSE IF b.e = epochID + 1 THEN b.before ELSE NoBlocks

\* From the parent of the current header backwards.
getSlotLeaderActivity(cur, epochID) ==
    [m \in Miner |-> BlocksOf(cur, epochID)[m]
                     - (IF cur.e = epochID /\ cur.m = m THEN 1 ELSE 0)]
-----------------------------------------------------------------------------
(***************************************************************************)
(* Division                                                                *)
(***************************************************************************)

Nothing == [w \in Wallet |-> 0]

\* The commission goes to the validator, which is in the first place.
delegateDivision(v, value, feeRate) ==
    LET s == Stakers[v]
        commission == (value * feeRate) \div FeeUnit
        rest == value - commission
        tp == Total([i \in DOMAIN s |-> s[i].prob])
        share == [i \in DOMAIN s |->
                     (IF rest * s[i].prob = 0 THEN 0 ELSE (rest * s[i].prob) \div tp)
                     + (IF i = 1 THEN commission ELSE 0)]
        incentive == [i \in DOMAIN s |-> Max({0, share[i]})]
    IN  [w \in Wallet |-> SumFunctionOnSet(incentive, {i \in DOMAIN s : s[i].wallet = w})]

\* Rates are those of the current block.  Who has no info is passed over.
delegate(v, value, known, cur) ==
    IF v \in known THEN delegateDivision(v, value, cur.st.fee[v]) ELSE Nothing

SumPay(pays) ==
    [w \in Wallet |-> Total([i \in DOMAIN pays |-> pays[i][w]])]

protocalRunerAllocateAll(funds, group, known, cur) ==
    IF group = <<>> THEN [pay |-> Nothing, remains |-> funds]
    ELSE LET one == funds \div Len(group)
         IN  [pay |-> SumPay([i \in DOMAIN group |->
                          delegate(group[i].addr, one, known, cur)]),
              remains |-> 0]

protocalRunerAllocate(funds, group, known, cur) ==
    IF group = <<>> THEN [pay |-> Nothing, remains |-> funds]
    ELSE LET one == funds \div Len(group)
             active == {i \in DOMAIN group : group[i].act}
         IN  [pay |-> SumPay([i \in active |->
                          delegate(group[i].addr, one, known, cur)]),
              remains |-> one * (Len(group) - Cardinality(active))]

slotLeaderAllocateAll(funds, blocks, known, cur) ==
    LET miners == {v \in Validator : blocks[v] > 0}
        ofSlot == funds \div Max({1, Total([v \in miners |-> blocks[v]])})
    IN  IF miners = {} THEN [pay |-> Nothing, remains |-> funds]
        ELSE [pay |-> SumPay([v \in miners |->
                          delegate(v, ofSlot * blocks[v], known, cur)]),
              remains |-> ofSlot * blocks[White]]

\* slotCount without the blocks of the white list.
slotLeaderAllocate(funds, blocks, known, cur) ==
    LET slotCount == SlotCount - blocks[White]
        miners == {v \in Validator : blocks[v] > 0}
        act == (Min({Total(blocks), SlotCount}) * ActScale) \div SlotCount
        ofSlot == funds \div slotCount
        active == (ofSlot * act) \div ActScale
    IN  IF miners = {} \/ slotCount = 0
        THEN [pay |-> Nothing, remains |-> funds]
        ELSE [pay |-> SumPay([v \in miners |->
                          delegate(v, active * blocks[v], known, cur)]),
              remains |-> (ofSlot - active) * slotCount]

\* The shares of the roles, out of the places that are not the white list's.
calcIncentivePercent(st, epochID, total) ==
    LET elCnt == EpochLeaderCount - WlCount(st, epochID)
        all == RandomProperCount + elCnt
    IN  [el |-> calcPercent(total, elCnt, 2 * all),
         rp |-> calcPercent(total, RandomProperCount, all),
         sl |-> calcPercent(total, elCnt, 2 * all)]

isFinished(st, epochID) == epochID \in st.finished

\* What Run leaves in the state; on a failed check Finalize takes the
\* snapshot back.
Run(st, cur, epochID, w) ==
    LET total == calculateIncentivePool(st, epochID)
        share == calcIncentivePercent(st, epochID, total)
        el == protocalRunerAllocate(share.el,
                  getEpochLeaderActivity(st, epochID, w), w.known, cur)
        rp == protocalRunerAllocate(share.rp,
                  getRandomProposerActivity(w), w.known, cur)
        sl == slotLeaderAllocate(share.sl,
                  getSlotLeaderActivity(cur, epochID), w.knownPrev, cur)
        pay == Plus(Plus(el.pay, rp.pay), sl.pay)
        remains == (total - share.el - share.rp - share.sl)
                   + el.remains + rp.remains + sl.remains
        extraRemain == Max({0, total - Total(pay) - remains})
        remainsAll == remains + extraRemain
        checkTotalValue == total >= Total(pay) + remainsAll
    IN  IF isFinished(st, epochID) \/ ~checkTotalValue THEN st
        ELSE [addRemainIncentivePool(st, epochID, remainsAll) EXCEPT
                 !.paid = Plus(@, pay),
                 !.finished = @ \cup {epochID}]

FinalizeSameEpoch(st, cur, e, s, w) ==
    IF e > FirstEpochId + 2 /\ s > IncentiveStartStage
    THEN Run(st, cur, e, w) ELSE st

\* w: the work in the epoch before e.
Finalize(st, cur, e, s, w) ==
    IF e > FirstEpochId + 2 /\ s > IncentiveStartStage
    THEN Run(st, cur, e - IncentiveDelayEpochs, w) ELSE st
-----------------------------------------------------------------------------
(***************************************************************************)
(* Blocks                                                                  *)
(***************************************************************************)

AddEpochGasSubtract(st, e) == [st EXCEPT !.gas[e] = @ - Gas]

AddEpochGas(st, e) == [st EXCEPT !.gas[e] = @ + Gas]

ApplyTx(st, e, tx) ==
    CASE tx.kind = "none" -> st
      [] tx.kind = "plain" -> AddEpochGas(st, e)
      [] tx.kind = "fee" -> [AddEpochGas(st, e) EXCEPT !.fee[tx.v] = tx.rate]
      [] tx.kind = "wl" ->
            LET info == [EpochId |-> e + tx.ahead, WlIndex |-> 0, WlCount |-> tx.count]
            IN  IF upgradeWhiteEpochLeaderParseAndValid(info, e)
                THEN [AddEpochGas(st, e) EXCEPT
                         !.infos = upgradeWhiteEpochLeader(@, info)]
                ELSE AddEpochGas(st, e)

\* The child of p in slot s of epoch e, executed by a node whose current
\* block is cur.
Child(p, cur, e, s, m, tx, w) ==
    LET own == [NoBlocks EXCEPT ![m] = 1]
    IN  [e |-> e, s |-> s, m |-> m,
         during |-> IF e = p.e THEN Plus(p.during, own) ELSE own,
         before |-> BlocksOf(p, e - 1),
         st |-> Finalize(ApplyTx(p.st, e, tx), cur, e, s, w)]

Doers(w) ==
    {EpochLeaders[i] : i \in w.elAct} \cup {RandomProposers[i] : i \in w.rpAct}

\* The leader of the slot extends the current block; slots may stay empty.
Extend(e, s, m, tx, w) ==
    /\ e > head.e \/ (e = head.e /\ s > head.s)
    /\ IF e = head.e THEN w = work ELSE w \in Work
    /\ head' = Child(head, head, e, s, m, tx, w)
    /\ work' = w
    /\ worked' = worked \cup Doers(w) \cup ({m} \ {White})

Seal(e, s, m, tx, w) ==
    /\ Extend(e, s, m, tx, w)
    /\ UNCHANGED refused

\* The leader of a later slot of the epoch did not have that block yet and
\* extended the same parent.  The node, which has, executes the block and
\* compares.
Fork(e, s, m, tx, w, late) ==
    /\ late > s
    /\ Extend(e, s, m, tx, w)
    /\ LET none == [kind |-> "none"]
           sealed == Child(head, head, e, late, White, none, w)
           mine == Child(head, head', e, late, White, none, w)
       IN  refused' = (refused \/ mine.st # sealed.st)

Genesis ==
    [e |-> FirstEpochId + 2, s |-> 0, m |-> White,
     during |-> [NoBlocks EXCEPT ![White] = 1], before |-> NoBlocks,
     st |-> [gas |-> [e \in Epochs |-> 0],
             pool |-> [k \in 0..(Period(MaxEpoch) + 1) |-> 0],
             paid |-> Nothing, finished |-> {},
             fee |-> [v \in Validator |-> FeeRate], infos |-> {}]]

\* Nothing is paid for the epoch before the one of the first block.
IInit ==
    /\ head = Genesis
    /\ work = CHOOSE w \in Work : TRUE
    /\ worked = {} /\ refused = FALSE

INext ==
    \E e \in Epochs, s \in 0..(SlotCount - 1), m \in Miner, tx \in Tx, w \in Work :
        \/ Seal(e, s, m, tx, w)
        \/ \E late \in 0..(SlotCount - 1) : Fork(e, s, m, tx, w, late)

ISpec == IInit /\ [][INext]_ivars
-----------------------------------------------------------------------------
(***************************************************************************)
(* Properties                                                              *)
(***************************************************************************)

\* Type: amounts are natural numbers, also the pools after a rounding that
\* gave out more than there was.
ITypeOK ==
    /\ head.e \in Epochs /\ head.s \in 0..(SlotCount - 1) /\ head.m \in Miner
    /\ head.st.gas \in [Epochs -> Nat]
    /\ \A k \in DOMAIN head.st.pool : head.st.pool[k] \in Nat
    /\ head.st.paid \in [Wallet -> Nat]
    /\ head.st.finished \subseteq Epochs
    /\ work \in Work /\ worked \subseteq Validator /\ refused \in BOOLEAN

\* Every coin of the epochs that were paid, subsidy and fees, was either
\* paid out or is in a pool for a later year: no division by Run loses or
\* makes money, no epoch is paid twice although every block after the stage
\* calls Run, and no fee comes in after its epoch was paid.
Conserved ==
    Total(head.st.paid) + Total(head.st.pool) =
        Total([e \in head.st.finished |-> calculateIncentivePool(head.st, e)])

\* An epoch is paid by the first block after the stage in the next epoch,
\* whoever was active and whatever could be read: Run's final check of the
\* sums never fails, so nothing is left to a later block or lost.
PaidOnTime ==
    head.e > FirstEpochId + 2 /\ head.s > IncentiveStartStage =>
        head.e - 1 \in head.st.finished

\* Only the wallets behind a validator that was active as a leader or made
\* a block were ever paid anything.
NoWorkNoPay ==
    \A w \in Wallet : head.st.paid[w] > 0 =>
        \E v \in worked : \E i \in DOMAIN Stakers[v] : Stakers[v][i].wallet = w

\* The records have their types and nobody is paid for nothing.
PaymentsRight == ITypeOK /\ NoWorkNoPay

\* A call of the owner never changes the places of the white list in the
\* epoch under way and the next, whose leaders are drawn or being drawn.
WlSettled ==
    [][\A e \in Epochs : e < head'.e + 2 =>
          GetEpochWLInfo(head'.st.infos, e) = GetEpochWLInfo(head.st.infos, e)]_ivars

\* What remained in the first period is given out in the second.
PoolComesBack ==
    LET e == head.e - 1
    IN  /\ e >= FirstEpochId + subsidyReductionInterval
        /\ FirstEpochId + subsidyReductionInterval - 1 \in head.st.finished
        /\ Total(head.st.pool) >= subsidyReductionInterval
        => getBaseSubsidyTotalForEpoch(head.st, e)
               > Reduced(Period(e - FirstEpochId))

\* A block that its leader sealed correctly on a block the node has is not
\* refused because the node has another current block.
ForkAccepted == ~refused
=============================================================================
