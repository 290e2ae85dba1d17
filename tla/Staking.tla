------------------------------ MODULE Staking ------------------------------
(***************************************************************************)
(* Staking: the precompiled contract of core/vm/pos_staking_contracts.go,  *)
(* the refunds and renewals that Pluto.Finalize runs once in an epoch      *)
(* (StakeOutRun of pos/epochLeader/epoch_leader_selection.go) and the      *)
(* counting of stakes for leader selection (CalEpochProbabilityStaker).    *)
(*                                                                         *)
(* The stake counted at the end of epoch e - 2 makes its owner an epoch    *)
(* leader or random proposer of epoch e, and the epoch leaders of e are    *)
(* the slot leaders of e + 1.                                              *)
(*                                                                         *)
(* A call that fails changes nothing: the EVM reverts it together with the *)
(* transfer of its value.  Clients and partners are lists in the code; an  *)
(* address occurs at most once in each, so here they are functions.        *)
(***************************************************************************)
EXTENDS Integers, FiniteSets, Functions

CONSTANTS
    Validator,          \* addresses of validators (the key that is staked)
    Account,            \* accounts that send transactions
    Builtin,            \* validators of the genesis block
    PowStakers,         \* validators registered in the proof-of-work phase
    None,               \* no record under a storage key
    FirstEpochId,       \* posconfig.FirstEpochId
    LastEpochId,        \* bound: the last epoch modelled
    MaxMissed,          \* bound: epochs without a block late enough to refund
    Endowment,          \* what an account owns at the start
    BuiltinStake,       \* what a genesis or proof-of-work validator has staked
    Value,              \* values of transactions
    Lock,               \* lock times that are asked for
    Rate,               \* fee rates that are asked for
    PSMinEpochNum, PSMaxEpochNum,
    minStakeholderStake, MinValidatorStake, minDelegatorStake, minPartnerIn,
    maxTotalStake, MaxTimeDelegate, maxPartners,
    PSMaxFeeRate, PSFeeRateStep,
    ApolloEpochID, AugustEpochID, VenusEpochId,     \* rule changes
    CleanEpochs         \* epochs whose block cleans inactive validators

JoinDelay   == 2
QuitDelay   == 3
UpdateDelay == 3

ASSUME StakingAssumption ==
    /\ Builtin \subseteq Validator
    /\ PowStakers \subseteq Validator \ Builtin
    /\ IsFiniteSet(Account) /\ IsFiniteSet(Validator)
    /\ FirstEpochId \in Nat \ {0}
    /\ LastEpochId \in Nat
    /\ MaxMissed \in Nat
    /\ Endowment \in Nat /\ BuiltinStake \in Nat
    /\ Value \subseteq Nat /\ Lock \subseteq Nat /\ Rate \subseteq Nat
    /\ PSMinEpochNum \in Nat /\ PSMinEpochNum > QuitDelay
    /\ PSMaxEpochNum \in Nat /\ PSMinEpochNum <= PSMaxEpochNum
    /\ PSMaxFeeRate \in Nat /\ PSFeeRateStep \in Nat
    /\ maxTotalStake \in Nat /\ BuiltinStake <= maxTotalStake
    /\ FirstEpochId <= LastEpochId
    /\ PowStakers # {} => Account # {}
    /\ CleanEpochs \subseteq Nat

VARIABLES
    epoch,          \* the epoch of the block being executed
    outEpoch,       \* the last epoch whose refunds are finished
    missed,         \* epochs that ended without refunds
    stakers,        \* StakersInfoAddr: the StakerInfo of each validator
    fees,           \* StakersFeeAddr: the UpdateFeeRate of each validator
    balance,        \* what the contract owns
    wallet,         \* what each account owns
    spilled,        \* history: value sent with calls that record none
    announced,      \* history: highest fee rate a validator's owner has announced
    chosen          \* history: stakes counted for the last, this, the next epoch

svars == <<epoch, outEpoch, missed, stakers, fees, balance, wallet,
           spilled, announced, chosen>>
history == <<announced, chosen>>
-----------------------------------------------------------------------------
(***************************************************************************)
(* Amounts and terms.                                                      *)
(***************************************************************************)
Present(f) == {x \in DOMAIN f : f[x] # None}

Amounts(f) == SumFunction([x \in Present(f) |-> f[x].Amount])

Own(s) == s.Amount + Amounts(s.Partners)

Total(s) == Own(s) + Amounts(s.Clients)

\* A lock of no epochs, that of the genesis validators, weighs like the
\* shortest one.
CalLocktimeWeight(l) == 960 + 6 * (IF l = 0 THEN PSMinEpochNum ELSE l)

\* Epochs left of a validator's term for a stake that comes in now.
realLockEpoch(s) ==
    IF s.StakingEpoch = 0 THEN s.LockEpochs
    ELSE s.LockEpochs - (epoch + JoinDelay - s.StakingEpoch)

\* Deviation: a stake may come in when nothing is left of the term.
LockLeftUnchecked(s) == realLockEpoch(s) <= PSMaxEpochNum

LockLeft(s) == realLockEpoch(s) \in 0 .. PSMaxEpochNum

End(x) == x.StakingEpoch + x.LockEpochs

StakeValue(v, l) == v * CalLocktimeWeight(l)
-----------------------------------------------------------------------------
(***************************************************************************)
(* The contract.                                                           *)
(***************************************************************************)

\* The value of a call goes from the sender to the contract.
Send(a, value) ==
    /\ value <= wallet[a]
    /\ wallet' = [wallet EXCEPT ![a] = @ - value]
    /\ balance' = balance + value

\* Record value sent with a call, or lose track of it.
Recorded == UNCHANGED spilled
Unrecorded(a, value) == spilled' = [spilled EXCEPT ![a] = @ + value]

Timeless == UNCHANGED <<epoch, outEpoch, missed, chosen>>

doStakeInParseAndValid(lock, fee) ==
    /\ lock \in PSMinEpochNum .. PSMaxEpochNum
    /\ fee <= PSMaxFeeRate

doStakeIn(a, v, value, lock, fee) ==
    /\ value \in minStakeholderStake .. maxTotalStake
    /\ stakers[v] = None
    /\ stakers' = [stakers EXCEPT ![v] =
          [Amount |-> value, StakeAmount |-> StakeValue(value, lock),
           LockEpochs |-> lock, NextLockEpochs |-> lock, From |-> a,
           StakingEpoch |-> epoch + JoinDelay, FeeRate |-> fee,
           Clients |-> [c \in Account |-> None],
           Partners |-> [c \in Account |-> None]]]
    /\ Send(a, value) /\ Recorded /\ Timeless

\* The rate given when staking is the highest the validator may ask for, if
\* no record that a cleaning has left allows it more.
StakeIn(a, v, value, lock, fee) ==
    /\ doStakeInParseAndValid(lock, fee)
    /\ doStakeIn(a, v, value, lock, fee)
    /\ announced' = [announced EXCEPT ![v] = IF @ > fee THEN @ ELSE fee]
    /\ UNCHANGED fees

stakeRegisterParseAndValid(lock, fee, max) ==
    /\ fee <= max /\ max <= PSMaxFeeRate
    /\ max = PSMaxFeeRate => fee = max
    /\ doStakeInParseAndValid(lock, fee)

StakeRegister(a, v, value, lock, fee, max) ==
    /\ stakeRegisterParseAndValid(lock, fee, max)
    /\ doStakeIn(a, v, value, lock, fee)
    /\ announced' = [announced EXCEPT ![v] = max]
    /\ fees' = [fees EXCEPT ![v] =
          [MaxFeeRate |-> max, FeeRate |-> fee, ChangedEpoch |-> 0]]

stakeUpdateParseAndValid(lock) == lock = 0 \/ lock \in PSMinEpochNum .. PSMaxEpochNum

\* The lock time of the next term; 0 to leave at the end of this one.  Not
\* in the last epochs of a term (the subtraction wraps for a genesis
\* validator, which may always call, without effect).
StakeUpdate(a, v, value, lock) ==
    /\ stakeUpdateParseAndValid(lock)
    /\ stakers[v] # None
    /\ stakers[v].From = a
    /\ End(stakers[v]) >= UpdateDelay => epoch <= End(stakers[v]) - UpdateDelay
    /\ stakers' = [stakers EXCEPT ![v].NextLockEpochs = lock]
    /\ Send(a, value) /\ Unrecorded(a, value) /\ Timeless
    /\ UNCHANGED <<fees, announced>>

\* Before the Venus epoch the whole amount is weighed again with the time
\* that is left; then only what comes in is.
StakeAppend(a, v, value) ==
    /\ stakers[v] # None
    /\ LET s == stakers[v]
           w == realLockEpoch(s)
       IN  /\ s.From = a
           /\ LockLeft(s)
           /\ Total(s) + value <= maxTotalStake
           /\ stakers' = [stakers EXCEPT
                 ![v].Amount = @ + value,
                 ![v].StakeAmount = IF epoch < VenusEpochId
                                    THEN StakeValue(s.Amount + value, w)
                                    ELSE @ + StakeValue(value, w)]
    /\ Send(a, value) /\ Recorded /\ Timeless
    /\ UNCHANGED <<fees, announced>>

\* Deviation: what the delegators have put in is left out of the total.
PartnerTotalOwn(s) == Own(s)

\* What a partner's stake is added to when the limit is checked.
PartnerTotal(s) == Total(s)

\* A new partner's term ends with the validator's.  One that adds to its
\* stake keeps its term.
PartnerIn(a, v, value, renewal) ==
    /\ stakers[v] # None
    /\ LET s == stakers[v]
           w == realLockEpoch(s)
           p == s.Partners[a]
       IN  /\ epoch \in ApolloEpochID .. AugustEpochID - 1 => value >= minPartnerIn
           /\ LockLeft(s)
           /\ PartnerTotal(s) + value <= maxTotalStake
           /\ p = None =>
                 /\ Cardinality(Present(s.Partners)) < maxPartners
                 /\ epoch >= ApolloEpochID => value >= minPartnerIn
           /\ stakers' = [stakers EXCEPT ![v].Partners[a] =
                 IF p = None
                 THEN [Amount |-> value, StakeAmount |-> StakeValue(value, w),
                       Renewal |-> renewal, LockEpochs |-> w,
                       StakingEpoch |-> epoch + JoinDelay]
                 ELSE [p EXCEPT !.Amount = @ + value,
                                !.StakeAmount = @ + StakeValue(value, w),
                                !.Renewal = renewal]]
    /\ Send(a, value) /\ Recorded /\ Timeless
    /\ UNCHANGED <<fees, announced>>

DelegateIn(a, v, value) ==
    /\ stakers[v] # None
    /\ LET s == stakers[v]
           c == s.Clients[a]
           w == StakeValue(value, PSMinEpochNum)
       IN  /\ s.FeeRate # PSMaxFeeRate
           /\ Own(s) >= MinValidatorStake
           /\ c # None => c.QuitEpoch = 0
           /\ Total(s) + value <= maxTotalStake
           /\ Amounts(s.Clients) + value <= MaxTimeDelegate * Own(s)
           /\ c = None => value >= minDelegatorStake
           /\ stakers' = [stakers EXCEPT ![v].Clients[a] =
                 IF c = None
                 THEN [Amount |-> value, StakeAmount |-> w, QuitEpoch |-> 0]
                 ELSE [c EXCEPT !.Amount = @ + value, !.StakeAmount = @ + w]]
    /\ Send(a, value) /\ Recorded /\ Timeless
    /\ UNCHANGED <<fees, announced>>

\* Deviation: a delegator is refunded one epoch too early.
QuitEpochSoon == epoch + QuitDelay - 1

QuitEpoch == epoch + QuitDelay

DelegateOut(a, v, value) ==
    /\ stakers[v] # None
    /\ stakers[v].Clients[a] # None
    /\ stakers[v].Clients[a].QuitEpoch = 0
    /\ stakers' = [stakers EXCEPT ![v].Clients[a].QuitEpoch = QuitEpoch]
    /\ Send(a, value) /\ Unrecorded(a, value) /\ Timeless
    /\ UNCHANGED <<fees, announced>>

\* Deviation: without a record there is no maximum.
MaxFeeRateUnset(v) == IF fees[v] = None THEN PSMaxFeeRate ELSE fees[v].MaxFeeRate

\* Without a record the rate given when staking is the maximum.
MaxFeeRate(v) == IF fees[v] = None THEN stakers[v].FeeRate ELSE fees[v].MaxFeeRate

\* Without a record the first change may come in any epoch.
StakeUpdateFeeRate(a, v, value, fee) ==
    /\ fee <= PSMaxFeeRate
    /\ stakers[v] # None
    /\ LET s == stakers[v]
       IN  /\ s.FeeRate # PSMaxFeeRate /\ fee # PSMaxFeeRate
           /\ s.FeeRate # fee
           /\ s.From = a
           /\ fees[v] # None => fees[v].ChangedEpoch # epoch
           /\ fee <= MaxFeeRate(v)
           /\ fee <= s.FeeRate + PSFeeRateStep
           /\ fees' = [fees EXCEPT ![v] =
                 [MaxFeeRate |-> MaxFeeRate(v), FeeRate |-> fee, ChangedEpoch |-> epoch]]
    /\ stakers' = [stakers EXCEPT ![v].FeeRate = fee]
    /\ Send(a, value) /\ Unrecorded(a, value) /\ Timeless
    /\ UNCHANGED announced
-----------------------------------------------------------------------------
(***************************************************************************)
(* Refunds and renewals, in the first block of an epoch after slot 2 * K.  *)
(***************************************************************************)

\* A validator of the proof-of-work phase gets its term.
Started(s) ==
    IF s.StakingEpoch = 0
    THEN [s EXCEPT !.StakingEpoch = FirstEpochId + 2,
                   !.Partners = [a \in Account |->
                       IF s.Partners[a] = None THEN None
                       ELSE [s.Partners[a] EXCEPT !.StakingEpoch = FirstEpochId + 2]]]
    ELSE s

QuitDue(c) == c.QuitEpoch # 0 /\ epoch >= c.QuitEpoch

\* Deviation: a term ends an epoch late.
TermOverLate(x) == epoch > End(x)

TermOver(x) == epoch >= End(x)

Due(f, IsDue(_)) == {a \in Present(f) : IsDue(f[a])}
Without(f, IsDue(_)) == [a \in Account |-> IF a \in Due(f, IsDue) THEN None ELSE f[a]]

\* Deviation: a delegator that was refunded stays on the list.
KeptClients(s) == [s EXCEPT !.Partners = Without(s.Partners, TermOver)]

\* What is left when those who leave are refunded.
Kept(s) ==
    [s EXCEPT !.Clients = Without(s.Clients, QuitDue),
              !.Partners = Without(s.Partners, TermOver)]

Renewing(s) == epoch + QuitDelay >= End(s)

\* Near the end of its term a validator is renewed, if it has not asked to
\* leave, and so are the partners that want to be.  A partner that wants to
\* be renewed by a validator that leaves gets a term that ends soon.
Renewed(s) ==
    LET next == s.NextLockEpochs
        own == IF next = 0 THEN s
               ELSE [s EXCEPT !.LockEpochs = next,
                              !.StakeAmount = StakeValue(s.Amount, next),
                              !.StakingEpoch = epoch + JoinDelay]
    IN  [own EXCEPT !.Partners = [a \in Account |->
            LET p == s.Partners[a]
            IN  IF p # None /\ p.Renewal
                THEN [p EXCEPT !.LockEpochs = next,
                               !.StakeAmount = StakeValue(p.Amount, next),
                               !.StakingEpoch = epoch + JoinDelay]
                ELSE p]]

\* What becomes of a validator's record.
AfterStakeOut(s) ==
    IF s.LockEpochs = 0 THEN s
    ELSE LET k == Kept(Started(s))
         IN  IF TermOver(k) THEN None
             ELSE IF Renewing(k) THEN Renewed(k) ELSE k

\* Refunds: of which validator, for which of its entries, to whom, how much.
ClientRefunds(v, s, A) ==
    {[of |-> v, entry |-> <<"client", a>>, to |-> a, amount |-> s.Clients[a].Amount] : a \in A}

PartnerRefunds(v, s, A) ==
    {[of |-> v, entry |-> <<"partner", a>>, to |-> a, amount |-> s.Partners[a].Amount] : a \in A}

OwnRefund(v, s) == [of |-> v, entry |-> <<"self", s.From>>, to |-> s.From, amount |-> s.Amount]

\* Deviation: the delegators' stakes go to the validator's owner.
AllRefundsToOwner(v, s) ==
    {OwnRefund(v, s)}
    \cup {[r EXCEPT !.to = s.From] : r \in ClientRefunds(v, s, Present(s.Clients))}
    \cup PartnerRefunds(v, s, Present(s.Partners))

\* The refunds when a validator leaves.
AllRefunds(v, s) ==
    {OwnRefund(v, s)}
    \cup ClientRefunds(v, s, Present(s.Clients))
    \cup PartnerRefunds(v, s, Present(s.Partners))

\* The refunds StakeOutRun makes for a validator.
Refunds(v, s) ==
    IF s.LockEpochs = 0 THEN {}
    ELSE LET t == Started(s)
         IN  ClientRefunds(v, t, Due(t.Clients, QuitDue))
             \cup PartnerRefunds(v, t, Due(t.Partners, TermOver))
             \cup (IF TermOver(t) THEN AllRefunds(v, Kept(t)) ELSE {})

SumRefunds(P) == SumFunction([q \in P |-> q.amount])

\* coreTransfer: a refund the contract cannot pay is silently skipped.
Pay(payments) ==
    \E made \in SUBSET payments :
        /\ SumRefunds(made) <= balance
        /\ \A q \in payments \ made : q.amount > balance - SumRefunds(made)
        /\ balance' = balance - SumRefunds(made)
        /\ wallet' = [a \in Account |-> wallet[a] + SumRefunds({q \in made : q.to = a})]

\* When Finalize runs the refunds: not in the first epochs, and once in each
\* of the others.
RefundsDue == epoch > FirstEpochId + 2 /\ outEpoch < epoch

\* Validators without an end are passed over, with all their clients and
\* partners.
StakeOutRun ==
    /\ RefundsDue
    /\ outEpoch' = epoch
    /\ LET after == [v \in Validator |->
                       IF stakers[v] = None THEN None ELSE AfterStakeOut(stakers[v])]
       IN  /\ stakers' = after
           /\ Pay(UNION {Refunds(v, stakers[v]) : v \in Present(stakers)})
           /\ LET gone == {v \in Present(stakers) : after[v] = None}
              IN  /\ fees' = [v \in Validator |-> IF v \in gone THEN None ELSE fees[v]]
                  /\ announced' = [v \in Validator |-> IF v \in gone THEN 0 ELSE announced[v]]
    /\ Recorded
    /\ UNCHANGED <<epoch, missed, chosen>>

\* One block of the test network removes the validators that were not
\* active for a long time, and leaves their fee record.
CleanInactiveValidator ==
    /\ epoch \in CleanEpochs
    /\ \E inactive \in SUBSET Present(stakers) \ {{}} :
          /\ stakers' = [v \in Validator |-> IF v \in inactive THEN None ELSE stakers[v]]
          /\ Pay(UNION {AllRefunds(v, stakers[v]) : v \in inactive})
    /\ Recorded
    /\ UNCHANGED <<epoch, outEpoch, missed, fees, history>>
-----------------------------------------------------------------------------
(***************************************************************************)
(* Counting for leader selection.                                          *)
(***************************************************************************)

\* Deviation: the last epoch of a term is not set aside for slot leading.
CountsInToTheEnd(x, e) == e < End(x)

\* The last epoch of a term is for producing blocks only.
CountsIn(x, e) == e < End(x) - 1

\* The partners and clients that count for epoch e.
PartnersIn(s, e) == {a \in Present(s.Partners) : CountsIn(s.Partners[a], e)}
ClientsIn(s, e) ==
    {a \in Present(s.Clients) :
        s.Clients[a].QuitEpoch = 0 \/ e < s.Clients[a].QuitEpoch - 1}

\* The stakes of a validator that count for epoch e: none if it is about to
\* leave or has too little to accept delegations.  The selection draws from
\* the sum of their weights, which is capped; here it is who counts.
CalEpochProbabilityStaker(s0, e) ==
    LET s == IF s0.LockEpochs = 0 THEN s0 ELSE Started(s0)
        own == s.Amount + SumFunction([a \in PartnersIn(s, e) |-> s.Partners[a].Amount])
    IN  IF \/ s.LockEpochs # 0 /\ ~CountsIn(s, e)
           \/ s.FeeRate # PSMaxFeeRate /\ own < MinValidatorStake
        THEN None
        ELSE [self |-> s.Amount, weight |-> s.StakeAmount, lock |-> s.LockEpochs,
              partners |-> [a \in PartnersIn(s, e) |-> s.Partners[a]],
              clients |-> [a \in ClientsIn(s, e) |-> s.Clients[a].Amount]]

NextEpoch ==
    /\ epoch < LastEpochId
    /\ epoch' = epoch + 1
    /\ IF RefundsDue
       THEN missed < MaxMissed /\ missed' = missed + 1
       ELSE UNCHANGED missed
    /\ chosen' = <<chosen[2], chosen[3],
                   [v \in Validator |-> IF stakers[v] = None THEN None
                                        ELSE CalEpochProbabilityStaker(stakers[v], epoch + 2)]>>
    /\ UNCHANGED <<outEpoch, stakers, fees, balance, wallet, spilled, announced>>
-----------------------------------------------------------------------------
\* The account that staked for the proof-of-work validators.
PowOwner == CHOOSE a \in Account : TRUE

\* A validator of the genesis block or of the proof-of-work phase.
NewStaker(v) ==
    [Amount |-> BuiltinStake,
     LockEpochs |-> IF v \in Builtin THEN 0 ELSE PSMinEpochNum,
     StakeAmount |-> StakeValue(BuiltinStake, PSMinEpochNum),
     NextLockEpochs |-> IF v \in Builtin THEN 0 ELSE PSMinEpochNum,
     From |-> IF v \in Builtin THEN v ELSE PowOwner,
     StakingEpoch |-> 0,
     FeeRate |-> IF v \in Builtin THEN PSMaxFeeRate ELSE 0,
     Clients |-> [c \in Account |-> None],
     Partners |-> [c \in Account |-> None]]

SInit ==
    /\ epoch = FirstEpochId
    /\ outEpoch = 0
    /\ missed = 0
    /\ stakers = [v \in Validator |->
                    IF v \in Builtin \cup PowStakers THEN NewStaker(v) ELSE None]
    /\ fees = [v \in Validator |-> None]
    /\ balance = BuiltinStake * Cardinality(Builtin \cup PowStakers)
    /\ wallet = [a \in Account |-> Endowment]
    /\ spilled = [a \in Account |-> 0]
    /\ announced = [v \in Validator |-> IF v \in Builtin THEN PSMaxFeeRate ELSE 0]
    /\ chosen = <<[v \in Validator |-> None], [v \in Validator |-> None],
                  [v \in Validator |-> None]>>

Call(a, v) ==
    \/ \E value \in Value, lock \in Lock, fee \in Rate :
          \/ StakeIn(a, v, value, lock, fee)
          \/ \E max \in Rate : StakeRegister(a, v, value, lock, fee, max)
    \/ \E value \in Value :
          \/ StakeAppend(a, v, value)
          \/ \E renewal \in BOOLEAN : PartnerIn(a, v, value, renewal)
          \/ DelegateIn(a, v, value)
    \/ \E value \in Value \cup {0} :
          \/ \E lock \in Lock \cup {0} : StakeUpdate(a, v, value, lock)
          \/ DelegateOut(a, v, value)
          \/ \E fee \in Rate : StakeUpdateFeeRate(a, v, value, fee)

SNext ==
    \/ \E a \in Account, v \in Validator : Call(a, v)
    \/ StakeOutRun
    \/ CleanInactiveValidator
    \/ NextEpoch

SSpec == SInit /\ [][SNext]_svars
-----------------------------------------------------------------------------
(***************************************************************************)
(* Properties.                                                             *)
(***************************************************************************)
ClientInfo == [Amount : Nat, StakeAmount : Nat, QuitEpoch : Nat]

PartnerInfo == [Amount : Nat, StakeAmount : Nat, Renewal : BOOLEAN,
                LockEpochs : 0 .. PSMaxEpochNum, StakingEpoch : Nat]

StakerInfo ==
    [Amount : Nat, StakeAmount : Nat, LockEpochs : 0 .. PSMaxEpochNum,
     NextLockEpochs : 0 .. PSMaxEpochNum, From : Account \cup Validator,
     StakingEpoch : Nat, FeeRate : 0 .. PSMaxFeeRate,
     Clients : [Account -> ClientInfo \cup {None}],
     Partners : [Account -> PartnerInfo \cup {None}]]

FeeInfo == [MaxFeeRate : 0 .. PSMaxFeeRate, FeeRate : 0 .. PSMaxFeeRate, ChangedEpoch : Nat]

\* An empty storage slot is none of the records.
ASSUME NoneAssumption == None \notin ClientInfo \cup PartnerInfo \cup StakerInfo \cup FeeInfo

\* The records have the shape that decoding them expects; in particular no
\* lock time is negative, which uint64 would turn into an endless one.
STypeOK ==
    /\ epoch \in FirstEpochId .. LastEpochId
    /\ outEpoch \in 0 .. LastEpochId
    /\ missed \in 0 .. MaxMissed
    /\ stakers \in [Validator -> StakerInfo \cup {None}]
    /\ fees \in [Validator -> FeeInfo \cup {None}]
    /\ balance \in Nat
    /\ wallet \in [Account -> Nat]
    /\ spilled \in [Account -> Nat]

\* What an account has in the contract.
AmountOf(f, a) == IF f[a] = None THEN 0 ELSE f[a].Amount

Staked(a) ==
    SumFunction([v \in Present(stakers) |->
        (IF stakers[v].From = a THEN stakers[v].Amount ELSE 0)
        + AmountOf(stakers[v].Partners, a) + AmountOf(stakers[v].Clients, a)])

\* What an account owned, in its wallet or staked, at the start.
Initially(a) ==
    Endowment + (IF a = PowOwner THEN BuiltinStake * Cardinality(PowStakers) ELSE 0)
              + (IF a \in Builtin THEN BuiltinStake ELSE 0)

\* Nobody loses stake or gains any: what an account has staked is what it
\* sent and was not refunded, over any number of terms, appends, renewals
\* and departures.  Only value sent along with a call that takes none
\* (stakeUpdate, delegateOut, stakeUpdateFeeRate) is not owed to anyone.
NobodyLoses == \A a \in Account : wallet[a] + Staked(a) + spilled[a] = Initially(a)

\* The contract owns what it owes to all validators together, so that no
\* refund is skipped by coreTransfer for lack of balance.
ContractSolvent ==
    balance = SumFunction([v \in Present(stakers) |-> Total(stakers[v])]) + SumFunction(spilled)

\* Own stake, partners and delegations of a validator stay within the limit,
\* whichever of the four calls that add to them is used.
WithinMaxStake == \A v \in Present(stakers) : Total(stakers[v]) <= maxTotalStake

\* The stakes that were counted as c for validator v are in the contract.
OwnInContract(v, c) ==
    c # None =>
        /\ stakers[v] # None
        /\ stakers[v].Amount >= c.self
        /\ \A a \in DOMAIN c.clients : AmountOf(stakers[v].Clients, a) >= c.clients[a]

PartnersInContract(v, c) ==
    c # None =>
        /\ stakers[v] # None
        /\ \A a \in DOMAIN c.partners :
              AmountOf(stakers[v].Partners, a) >= c.partners[a].Amount

\* The block that removes inactive validators is still to come: it refunds
\* whom it removes at once, whatever they were selected for.
BeforeCleaning == \A e \in CleanEpochs : epoch < e

\* A stake that was counted when leaders were selected stays in the contract
\* as long as the selected act on it: as epoch leaders or random proposers
\* in the epoch they were selected for and, for the validator's own and the
\* delegators' stake, as slot leaders in the next.  The selection is made on
\* the state at the end of the epoch before the last, and validators,
\* partners and delegators may ask to leave meanwhile.
BondedWhileWorking ==
    BeforeCleaning =>
        \A v \in Validator :
            /\ OwnInContract(v, chosen[1][v])
            /\ OwnInContract(v, chosen[2][v])
            /\ PartnersInContract(v, chosen[2][v])

\* The same for the partners' stake in the epoch of slot leading, the last
\* of a term that is counted down to: "the last epoch only miner".  A
\* partner that wants to be renewed by a validator that leaves gets the term
\* 0 from two epochs later on, every epoch anew, and is refunded an epoch
\* before the validator's term ends if it takes back its wish in between.
PartnersBonded ==
    \A v \in Validator : PartnersInContract(v, chosen[1][v])

\* Nobody counts with more weight than the term for which the stake is
\* locked gives, although appended value is weighed with the time left to
\* the validator and not to the partner that appends it.
WeightEarned ==
    \A v \in Validator :
        LET c == chosen[3][v]
        IN  c # None =>
              /\ c.weight <= StakeValue(c.self, c.lock)
              /\ \A a \in DOMAIN c.partners :
                    c.partners[a].StakeAmount
                        <= StakeValue(c.partners[a].Amount, c.partners[a].LockEpochs)

\* Once an epoch's refunds are done nothing that is due stays in the
\* contract, and no later call of the epoch brings in a stake whose term is
\* already over.
NothingOverdue ==
    outEpoch = epoch =>
        \A v \in {u \in Present(stakers) : stakers[u].LockEpochs # 0} :
            /\ End(stakers[v]) > epoch
            /\ \A a \in Present(stakers[v].Partners) : End(stakers[v].Partners[a]) > epoch
            /\ \A a \in Present(stakers[v].Clients) :
                  LET q == stakers[v].Clients[a].QuitEpoch IN q = 0 \/ q > epoch

\* The fee rate a delegator pays never exceeds what the owner of the key has
\* announced: the maximum it registered last, or the rate it staked with since.
\* A departure at the end of a term wipes this out.  The removal of inactive
\* validators leaves the fee record under the key, and the next stake under
\* it may ask for what the record allows, but for no more.
FeeAsAnnounced ==
    \A v \in Present(stakers) : stakers[v].FeeRate <= announced[v]

\* The records have their types, no validator takes more than the maximum and
\* a stake counts in the selection with no more weight than it earned.
RecordsRight == STypeOK /\ WithinMaxStake /\ WeightEarned

\* No stake is lost or made, the contract can pay, and pays when it is due.
StakesSafe == NobodyLoses /\ ContractSolvent /\ NothingOverdue
=============================================================================
