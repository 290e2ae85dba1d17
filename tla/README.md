# Wanchain proof of stake, in TLA+

This project specifies the proof-of-stake core of go-wanchain and the parts of
the node it runs on (chain, miner, transaction pool), checks the
specifications with TLC on small instances, and proves what matters most about
the random beacon contract with TLAPS for every value of its parameters.

Paths below are relative to the repository (`src/`). `PROJECT.json` lists for
every definition the lines it models.

## 1. The system

Wanchain is go-ethereum with a proof-of-stake engine. Time is divided into
epochs of `12 * K` slots (`pos/posconfig`). In an epoch, three groups work side
by side:

| group | selected from | works in epoch | produces |
|---|---|---|---|
| random proposers | stakes at the end of epoch e - 2 | e | the random number of e + 1 |
| epoch leaders | stakes at the end of epoch e - 2 | e | the secret messages that make them slot leaders of e + 1 |
| slot leaders | the epoch leaders of e - 1 | e | one block per slot |

All three run as transactions to precompiled contracts, so what a group agrees
on is what the chain has stored.

### 1.1 Inventory

**Random beacon contract** (`core/vm/random_beacon_contract.go`).
State: per epoch and proposer a commitment, a dealing and a signature share; one
counter of signers for all epochs; the random number of each epoch.
Operations: `dkg1`, `dkg2`, `sigShare` (which also computes the random number).
Hard: three stages with windows that are multiples of `K`; shares checked
against what is on the chain when they arrive; a counter that is reused by every
epoch and counts a share sent twice.
Correct when: all shares of an epoch fit together, a number comes from a quorum
and never changes, and a quorum never fails to give one.

**Random beacon node** (`pos/randombeacon/random_beacon.go`).
State: epoch, stage, polynomials and done-tags in memory; polynomials in the
local database.
Operations: `doLoop` once per slot, which runs `doDKG1s`, `doDKG2s` or `doSIGs`.
Hard: transactions are sent by goroutines and never repeated; it may crash
between sending a commitment and storing its polynomial; what it reads is the
head of the moment, which another branch may replace.
Correct when: what it sends stays acceptable on every branch, and enough timely
nodes give a random number.

**Staking contract** (`core/vm/pos_staking_contracts.go`) and **refunds**
(`StakeOutRun`, `CleanInactiveValidator` in
`pos/epochLeader/epoch_leader_selection.go`, called by `Finalize` in
`consensus/pluto/pluto.go`).
State: a record for each validator with its partners and delegators, a fee
record, the contract's balance.
Operations: `stakeIn`, `stakeRegister`, `stakeAppend`, `stakeUpdate`,
`stakeUpdateFeeRate`, `partnerIn`, `delegateIn`, `delegateOut`; once per epoch
the refunds and renewals.
Hard: stakes are counted two epochs ahead and used for two epochs, while their
owners ask to leave with delays of three; lock times are unsigned and may wrap;
a refund the contract cannot pay is skipped silently; entries are refunded and
rebuilt in one pass.
Correct when: nobody loses or gains stake, the contract can pay, limits hold,
and a stake that was counted stays while its owner works.

**Slot leader selection** (`core/vm/slot_leader_select_contracts.go`,
`pos/slotleader`). State: two stages of transactions per leader and epoch in the
contract; in a node's database the work stage, its secret numbers and the secret
message array (SMA) that decides the slots; in memory the leaders and the cached
random numbers. Operations: the two transactions, `Loop` once per slot, the
goroutine of the second stage, the slot proof and its verification. Hard: a
crash between sending and advancing the stage; every node computes the SMA from
its own head; the cache of random numbers is never invalidated. Correct when:
what is stored is final, arrays fit the commitments, and a proof made by one
node is accepted by all.

**Miner loop** (`miner`). State: atomic flags of miner, worker and agent, the
event channel of the beacon's routine. Operations: `Start`, `Stop`, the
downloader's events, the slot timer. Hard: the flags are set one by one by
concurrent calls; a full channel blocks its sender. Correct when: there is never
a second routine of a kind, and it settles.

**Blockchain** (`core/blockchain.go`). State: stored blocks, canonical index,
transaction lookup, head, queue of future blocks, the cache that chain quality
is computed from, restart variables, reorganisation statistics. Operations:
`InsertChain`, `WriteBlockAndState` by importer and miner, `reorg`, the future
block timer, start after a crash. Hard: writes that are not atomic, two threads,
segments cut at restart points, caches that outlive a branch. Correct when:
index and lookups are those of the head's chain and confirmed blocks stay.

**Epoch leader and random proposer selection** (`pos/epochLeader`,
`pos/util/util.go`, stored through `pos/posdb`). State: the groups of each epoch
in the local database, the number of the last block of each epoch. Hard:
selection is started once per epoch number in a goroutine and writes key by key;
the branch it read from may be replaced. Correct when: everybody draws the same
groups, each validator with its weight, and nobody takes half a group for one.

**Incentive** (`pos/incentive`) and **control contract**
(`core/vm/pos_control_contracts.go`). State: fees per epoch, pools per year, a
paid flag per epoch; the white list entries by epoch. Hard: rounded divisions;
every block after a stage tries to pay; entries take effect epochs later.
Correct when: an epoch is paid once and in time, all of it or into a pool, and
the white list does not change under a draw.

**Block confirmation** (`pos/cfm`). State: none of its own; reads the last K
blocks. Correct when: what it reports as stable cannot be overtaken.

**Transaction pool** (`core/tx_pool.go`, `tx_list.go`, `tx_journal.go`). State:
executable (`pending`) and waiting (`queue`) transactions per account, all by
hash, the next nonces, heartbeats, local accounts, a price limit, the journal of
local transactions. Operations: adding, reset on a new head, price limit,
eviction, journal rotation, restart. Hard: limits strike in the middle of every
operation; a reset takes back the transactions of a replaced branch through the
same limits; the tests reach each limit alone. Correct when: what is pending can
be executed in order and is known to the block makers, limits are fair, and
local transactions survive everything but their own invalidity and a restart
into a pool that others have filled.

**Pluto** (`consensus/pluto`), the engine: verification, sealing and `Finalize`.
**Selection cryptography** (`pos/uleaderselection`, `pos/rbselection`).
**Privacy transactions** (`core/vm/ota_storage.go`, `core/vm/contracts.go`). The
state, the virtual machine, the network, accounts and the proof-of-work engine
are go-ethereum's with small changes.

### 1.2 How the parts interact

```
 miner slot timer ──> beacon node loop ──tx──> random beacon contract ──R──┐
        │                   └── local database                             │
        └──────────> slot leader loop ──tx──> slot leader contract         │
                                                     │                     │
 accounts ──tx──> staking contract ──stakes──> leader selection <──────────┘
                        ^                            │
                        └── StakeOutRun <── Finalize <── blocks of slot leaders
```

Transactions pass the pool, which may drop or delay them; blocks pass the
blockchain, which starts leader selection and may replace branches.
Calls go one way through transactions and come back only as state read from the
head. Nothing acknowledges a transaction. A node keeps its secrets in memory and
in its local database; a crash loses the first.

## 2. Modules

| module | models |
|---|---|
| `Beacon` | what the beacon promises: a key fixed once per epoch, one outcome |
| `RandomBeacon` | the beacon contract; implements `Beacon` |
| `BeaconNode` | proposer nodes, clock and chain on top of `RandomBeacon` |
| `Staking` | the staking contract, refunds and counting of stakes |
| `SlotLeader` | the slot leader contract |
| `SlotLeaderNode` | leader nodes, clock and chain on top of `SlotLeader` |
| `Miner` | start, stop, timer loop, and the beacon's event channel |
| `BlockChain` | import, own blocks, reorganisation, chain quality, restart |
| `EpochLeader` | the draw of the groups and the store it is written to |
| `PosControl` | the white list entries of the control contract |
| `Incentive` | payment of an epoch, on top of `PosControl` |
| `BlockConfirm` | the stable block number |
| `TxPool` | the transaction pool and its journal |
| `*Proofs` | theorems about the module they are named after; `RandomBeaconProofs` about `RandomBeacon` and `BeaconNode`, `SlotLeaderProofs` about `SlotLeaderNode`, `NodeProofs` about `Miner` and `BlockConfirm` |
| `SumLemmas` | sums, least numbers and smallest sets, for the proofs |
| `MC*` | the constants of the runs (`Miner` and `BlockConfirm` need none beside their `.cfg`) |

How they compose: `BeaconNode` extends `RandomBeacon`, `SlotLeaderNode` extends
`SlotLeader`, `Incentive` extends `PosControl`; `RandomBeacon` implements
`Beacon`. Where two modules meet without one extending the other, one takes what
the other guarantees: the nodes' modules let a branch of up to `2K` slots be
replaced, while `BlockChain` shows when it is; `BeaconNode` and `SlotLeaderNode`
let a sent transaction be lost or repeated, as `TxPool` does.

Definitions named *Deviation* in a comment are altered forms of the definition
that follows them. No specification uses them. They are kept so that it can be
seen, for each property, that an error of that kind in the code would violate
it; `PROJECT.json` pairs them under `mutants`.

### 2.1 RandomBeacon

State: `cij`, `ens`, `sig`, `signors`, `R` are the storage under the kinds of
the same names; `epoch` and `slot` are the time of the block being executed.
Actions: `dkg1`, `dkg2`, `sigShare`, each the whole handler (the `valid...`
operator holds its checks in the order of the code), and `NextSlot`.

Data. A commitment stands for the polynomial it commits to, and a dealing for
the polynomial it deals; `BadPoly` is a commitment that is no code word. The
group key is the function from dealers to polynomials (the code adds group
elements, so different functions can be told apart unless sums collide). A
share, and the signature it contributes to, is the pair of key and message. A
caller may present any share that verifies for some epoch, and one that does
not. The proofs of equal discrete logarithms hold exactly for the right values.

`computeRandom` interpolates the first `PolymDegree + 1` shares in id order; the
model takes any such set, which allows more.

`GetR` of an epoch without a number of its own is the first epoch's number, as
in the code.

### 2.2 BeaconNode

State: per node `epochId`, `epochStage`, `polys`, `taskTags` (memory) and
`rbPolys` (database); `sent`, the transactions ever sent; `hist`, the states the
chain can fall back to. `gen`, `crashes` and `torn` are history.

Actions: `doLoop` (one of the three rounds, or only following epoch and stage),
`Crash` between loops, `CrashInDKG1` between sending and storing, `Include`,
`Tick`, and `Reorg` followed by `CatchUp`: the chain returns to a state of the
last `MaxReorg` slots and grows again with any of the transactions in any order.
A transaction stays in `sent`, so it may be included never, late, or again on
another branch.

The loop runs at most once in a slot, as the code skips a slot it has seen. It
sends nothing in the first and the last slot of a stage.

### 2.3 Staking

State: `stakers` and `fees` are the two storage areas; `balance` and `wallet`
the money; `epoch`, `outEpoch` (the last epoch whose refunds are done) and
`missed`. `spilled`, `announced` and `chosen` are history: value sent with calls
that take none, the highest fee rate the owner of a key has announced (by
registering or staking, until the key departs at the end of a term), and the
stakes that were counted for the last, this and the next epoch.

Actions: the eight calls; `StakeOutRun`, which for every validator starts the
term of a proof-of-work validator, refunds delegators and partners that are due,
refunds and deletes a validator whose term is over, or renews it with its
partners; `CleanInactiveValidator`; `NextEpoch`, which counts stakes as
`CalEpochProbabilityStaker` does.

A refund the contract cannot pay is skipped, as in `coreTransfer`; which ones
are skipped depends on the order of a storage walk and is left open. Weights are
the code's integers. A term's lock time is an integer and `LockLeft` is the
range check that catches the code's wrap-around.

### 2.4 SlotLeader and SlotLeaderNode

State of the contract: `stg1`, `stg2`, the data of both stages by epoch and
position. A commitment and an array are represented by the secret number they
are made from; `BadAlpha` is an array whose proof fails. State of a node: its
database (`workingEpoch`, `workStage`, `alpha`, `securityMsg`) and its memory
(`leadersOf`, `task2`, `errorRetry`, `RndCache`).

Actions: `Loop`, one turn of the workflow (init, first stage, second stage, the
SMA, with retries); `doStage2Work`, the goroutine; `ReceiveBlock`, the
verification of a proof; `GetSlotLeaderByEpochIDAndSlotID`, a user's question;
`Crash` and `CrashInStage1`; `Include`, `Reorg`, `CatchUp` and `Tick` as in
`BeaconNode`; `DeliverRandom`, the beacon's outcome. A random number is "own" or
"default", the one of the first epoch.

### 2.5 Miner

A caller of `Start` or `Stop` goes through its atomic operations one by one
(`pc`); `update` follows the downloader in steps; a goroutine in
`backendTimerLoop` waits for the first proof-of-stake block, sleeps, and sends
into the beacon's channel while it holds the mutex; `LoopRoutine` takes events
out. The agent's flag is a compare-and-swap as in the code.

### 2.6 BlockChain

A block is the sequence of slots that leads to it, so parent, number and slot
are read off it. A block is `Invalid` when its execution fails or its slot is
not after its parent's. `InsertChain` is a queue of what it still has to do (`todo`);
`thread` says where importer and miner are in `WriteBlockAndState`: the quality
check before the mutex, the write, the reorganisation inside it. `Stop` sets
`procInterrupt`; from then on `insertChain` leaves its loop without an error and
without the blocks that remain (`SkipInterrupted`), until the process has ended.

A death of the process falls in one of these places: between operations
(`DieIdle`); after the batch of a block, before or after its number is written and
before the head is (`DieWritten`, also after a reorganisation that ended); and in
`reorg` between number, head hash and lookups of any block of the branch
(`DieInReorg`). Not modelled is a death between the deletions of single lookups at
the end of `reorg`. The start after a death runs `loadLastState`. The cache that
chain quality is computed from is an ARC cache in the code; in the model any of its
slots may be the one that is dropped when it is full. Differences of unsigned
numbers wrap around.

### 2.7 EpochLeader, PosControl, Incentive

`EpochLeader` has the draw as pure operators (sorting by weight, running sums,
binary search) and the store as the steps `PutValue`, `PutKeyName`,
`PutKeyCount`, in the order of `posdb`'s `put`, with a crash between any two.
What a reader gets at any moment is `GetEpochLeaders` and `GetRBProposerGroup`.

`PosControl` takes the arguments of the owner's call as the numbers they stand for.
The code takes the low 64 bits of each and adds index and count modulo `2^64`
(`core/vm/pos_control_contracts.go:169`); the epoch check, on which `WlSettled`
rests, does not depend on that sum.

`Incentive`: `Seal` makes a block with one transaction and runs `Finalize`,
which pays the last epoch (`Run`: pool, percentages, activity, division among
delegators, rest into the pool of the year, check of the sums). `Fork` is the
verification of a block on another branch by a node with its own current block.
A node may have stored the whole group of epoch leaders, a part of it or none
(`LeadersRead`); from a part as many places are cut off as the white list has,
unless there are not more than that. Divisions are the code's, with smaller scales.

### 2.8 BlockConfirm

A block is its slot, the second of the slot its leader dated it to, and whether
the leader is on the white list. `verifySeal` compares only slots, so any second is
accepted, and a block may arrive late. `getMaxStableBlkNumber` is the loop over the
last `K` blocks as a search, and the lowest of them when one cannot be read
(`nullBlk`); `NewBlock` and `Tick` grow chain and clock in every way.

`getSlotsCount` counts slots from the second the block is dated to. With a block
dated late, the slot under way is counted only when the clock is as far into it.
`StableIsSafe` says exactly what remains: more than `SecBlkDiff` ahead when the slot
is counted, at least `SecBlkDiff` before.

### 2.9 TxPool

Every operation holds the pool's mutex, so the pool is one record and each
method an operator that takes and returns it. `AddLocal`, `AddRemotes`, `Reset`
(with `Reinject`, `demoteUnexecutables` and `promoteExecutables`), `ResetFails`,
`SetGasPrice`, `Evict`, `Rotate` and `Restart` are the actions. What Go's maps and
heaps leave open, also the order in which accounts are promoted, trimmed and written
to the journal, is a choice of `Orders`. `known` are the transactions the network
has seen; `vowed` and `crowded` are history.

Equalization is the code's loop: `Spammers` are the accounts above their guaranteed
slots that are not local, by length; `Offend` adds the next of them to the offenders
and takes a transaction from each in turn (`Rounds`) until they are as long as the
newcomer or the limit is met; a last pass goes down to the guarantee. `PendingFair`
compares what it computes with `CutFairly`, which says what is fair without a loop,
for all lengths up to 3, all sets of local accounts and several limits, and that
after every operation of the pool no equalization is missing.

A restart adds the journal account by account into a pool in which nobody is local
yet. An account is local once its first transaction is in, so the accounts before it
can fill the pool and have it refused. `LocalKept` allows that one loss, of a
transaction that pays no more than those the pool is full of.

## 3. Runs

| run | configuration | states | checks |
|---|---|---|---|
| `beacon_contract` | 4 proposers, 1 outsider, threshold 2, `K = 1`, 2 epochs | 137 000 | `TypeOK`, `SharesAgree`, `RandomFromQuorum`, `QuorumYieldsRandom`, `ActiveTookPart`, `RandomSettled`, `KeyFixedBeforeSigning`, `ImplementsBeacon` |
| `beacon_nodes` | 2 nodes with 3 ids, a fourth id nobody runs, `K = 2`, 1 crash, branches of up to 4 slots replaced | 480 000 | `NodeRecordsFit`, `SharesSentVerify`, `OneCommitment` |
| `beacon_live` | 3 nodes with one id each, 1 crash | 3 500 | `BeaconDelivers` |
| `staking_terms` | 1 validator, 2 accounts, terms of 4 and 5, 7 epochs, the weighing rule changes on the way | 780 000 | `RecordsRight`, `StakesSafe`, `BondedWhileWorking` |
| `staking_start` | a genesis and a proof-of-work validator, fee rates, one epoch without refunds, stakes and fee changes before and after a cleaning | 368 000 | `StakesSafe`, `FeeAsAnnounced` |
| `slot_leaders` | 2 nodes with 3 positions, `K = 1`, 1 crash, branches of up to 2 slots replaced | 1 237 000 | `NodeRecordsFit`, `SMAIsFinal`, `CachedRandomIsChains`, `ProofsVerify` |
| `miner` | 2 calls and a synchronisation, a channel of 2 | 37 000 | `OneOfEach`, `MinerSettles` |
| `chain` | two branches, one with a gap and one with a bad block, an own block, a `Stop`, 1 death in any place of 2.6 | 778 000 | `IndexIsHeads`, `KnownAncestors`, `SegmentStored`, `StablePrefix` |
| `leaders` | up to 3 validators, all hashes up to 3, 1 crash | 122 000 | `FairDraw`, `ReadsRight`, `AgreeUnlessCrashed` |
| `incentive` | 2 validators, a delegator, 4 kinds of activity and stored groups, 2 paid epochs, white list entries, forks | 92 000 | `PaymentsRight`, `Conserved`, `PaidOnTime`, `WlSettled` |
| `block_confirm` | all chains of up to 7 slots of 2 seconds, blocks late and dated to any second, `K = 4` | 312 000 | `StableIsSafe`, `ReportWithinK` |
| `tx_pool` | 3 accounts, 8 transactions, 3 slots, a journal of 4, 2 branches, restarts | 101 000 | `PoolReady`, `PendingFair`, `PendingKnown`, `LocalKept` |

What they show, beyond that nothing is violated: the stages of beacon and slot
leaders are laid out so that nothing a node has sent becomes wrong on a branch of
up to `2K` slots, and crashes outside the named windows change nothing; stakes
are conserved through every refund and renewal, and rewards through every division
as long as the three rounded shares of an epoch are not above the whole (item 10 of
section 5 is what happens when they are); branches, queued
blocks and own blocks in any order leave one consistent chain whose confirmed
part stays; overlapping starts and stops never double a goroutine; and the
pool's limits never break the nonce order they work on.

Each property has a comment at its definition that says what it means for the
code. Properties with *and* in them name their parts: `RecordsRight` is
`STypeOK`, `WithinMaxStake` and `WeightEarned`; `StakesSafe` is `NobodyLoses`,
`ContractSolvent` and `NothingOverdue`; and so on.

### 3.1 Bounds, and why they are enough

*Contract.* Four proposers are the fewest the code word check accepts with
threshold 2; with two dealers and two signers out of four, quorums can differ,
and a share sent twice (`MaxSignors = 3`) can make the counter run ahead of the
shares. Two epochs let the counter be taken over from one epoch to the next.
`K = 1` keeps every stage (two slots each) and every confirmation stage.
One polynomial and a bad one suffice because keys differ by their dealers.

*Nodes.* With `K = 1` a stage would have no slot in which a node sends, so
`K = 2`. A branch of `MaxReorg = 4 = 2K` slots is as long as a confirmation
stage and as `SlotSecurityParam` of `pos/posconfig`, the longest replacement
the stages are laid out for. One crash can hit
any node, before, in or after any round, and its restart may repeat each round.
The chain takes at most `MaxSignors = 2` shares there, enough for a random number.

*Staking.* The terms are 4 and 5 epochs instead of 7 to 90: what matters is that
the shortest is longer than the quit delay of 3, and that two lengths differ
when a validator is renewed with another. Seven epochs hold a whole term, its renewal and the
departure after it. Amounts are 1 and limits 1 to 3, so every limit can be
reached. Two accounts may take any role, also two roles at once. `staking_start`
runs over eight epochs: the first terms are over in time for new stakes,
registrations and fee changes before the cleaning of the last epoch, and after it
for stakes under the keys it freed.

*Slot leaders.* `K = 1` keeps all stages; a replaced branch may be `2K` slots
long. Two nodes with three positions let one node have two, and a third account
sends nothing. The second epoch is there for the proofs.

*Miner.* Two calls of any kind and one synchronisation are enough for each pair
of overlapping sequences of steps; three may overlap, with the downloader's. The
channel holds 2 events instead of 1000, so it is full in many states.

*Chain.* Branches of up to four blocks and own blocks between them with `K = 2`:
long enough to be refused for their length, to replace each other, to leave a gap
of `2K` slots (a restart point, which the code looks for from the fourth block on)
and to be refused for a bad block in the middle.

*Leaders.* Up to three validators of weights 1 and 2, three hashes; the groups
have up to three members, so a crash can come before, between and after them.

*Incentive.* Three epochs of two slots around the change of the year; scales of
100 and 10 instead of powers of ten up to 10^9, so that remainders are frequent.
What depends on 10^9 itself is in `MCIncentiveOver`.

*Confirmation.* `K = 4` and 14 seconds of 2-second slots: all chains of up to
seven blocks, so that blocks leave the window, each dated to either second.

*Pool.* Three slots in all, one guaranteed per account, one queued: every limit
is hit by the second or third transaction. Eight transactions of three accounts
include a replacement, a gap, an unpayable, an outdated and a privacy transaction;
two branches of two blocks; a journal of four entries, one more than the pool holds,
so that a restart can meet a pool filled by another account.

All runs but `tx_pool` say `CHECK_DEADLOCK FALSE`: at the last modelled epoch, or
when all calls have returned, the system really stops.

### 3.2 Fairness

`TimelySpec` of `BeaconNode` has weak fairness of `Progress`. It
stands for a slot (several seconds in the code) that is long enough for every
running node to run its loop, which the miner's timer calls in each slot, and
for a transaction that was sent to reach a block in it. `Progress` lets the
clock tick only then. Crashes, also with transactions unsent, are never assumed
to happen nor to stay away. In that network `BeaconDelivers` holds as long as
nodes that do not crash have `RBThres` ids. Without timeliness it cannot hold: a
stage ends by the clock whether or not anything arrived. `TimelySpec` of
`SlotLeaderNode` is the same for the slot leaders.

`FairMinerSpec`: goroutines that can run do, and whoever waits for a mutex that
becomes free again and again gets it (strong fairness), because Go's mutexes
hand over to a waiter that has starved. Nobody is assumed to call, to
synchronise, or to find the first block.

`FairSpec` of `BlockChain`: the importer and the clock go on, and the timer of
`update` offers each queued block again and again.

## 4. Proofs

TLC's runs are about small instances; the theorems hold for every value of the
constants that the named assumptions admit. Where a row names a property, it is
one that a run of section 3 checks too.

| module | theorem | statement |
|---|---|---|
| `RandomBeaconProofs` | `TypeCorrect`, `Inductive` | `Spec => []TypeOK`, `Spec => []IInv` |
| | `SharesAlwaysAgree` | `Spec => []SharesAgree` |
| | `RandomAlwaysFromQuorum` | `Spec => []RandomFromQuorum` |
| | `QuorumAlwaysYieldsRandom` | `Spec => []QuorumYieldsRandom` |
| | `ActiveAlwaysTookPart` | `Spec => []ActiveTookPart` |
| | `KeyStaysFixed` | `Spec => KeyFixedBeforeSigning` (action property) |
| | `RandomStaysSettled` | `Spec => RandomSettled` (action property) |
| | `ContractImplementsBeacon` | `Spec => ImplementsBeacon` (refinement) |
| | `NodesInductive` | `NSpec => []NIInv` |
| | `AlwaysSharesSentVerify` | `NSpec => []SharesSentVerify` |
| | `AlwaysNodeRecordsFit` | `NSpec => []NodeRecordsFit` |
| | `AlwaysOneCommitment` | `NSpec => []OneCommitment` |
| `StakingProofs` | `StakingInductive` | `SSpec => []SIInv` |
| | `AlwaysRecordsRight` | `SSpec => []RecordsRight` |
| | `AlwaysStakesSafe` | `SSpec => []StakesSafe` |
| | `AlwaysBondedWhileWorking` | `SSpec => []BondedWhileWorking` |
| | `AlwaysFeeAsAnnounced` | `SSpec => []FeeAsAnnounced` |
| `SlotLeaderProofs` | `SlotNodesInductive` | `SLNSpec => []SIInv` |
| | `NodeRecordsFitAlways` | `SLNSpec => []NodeRecordsFit` |
| | `SMAIsFinalAlways` | `SLNSpec => []SMAIsFinal` |
| | `CachedRandomIsChainsAlways` | `SLNSpec => []CachedRandomIsChains` |
| | `ProofsVerifyAlways` | `SLNSpec => []ProofsVerify` |
| `IncentiveProofs` | `IncentiveInductive` | `ISpec => []IIInv` |
| | `PaymentsRightAlways` | `ISpec => []PaymentsRight` |
| | `PaidOnTimeAlways` | `ISpec => []PaidOnTime` |
| | `WlSettledAlways` | `ISpec => WlSettled` (action property) |
| | `ConservedAlways` | `ISpec /\ []SharesFit => []Conserved` |
| `NodeProofs` | `AlwaysOneOfEach` | `MinerSpec => []OneOfEach` |
| `BlockChainProofs` | `AlwaysKnownAncestors` | `Spec => []KnownAncestors` |
| | `AlwaysSegmentStored` | `Spec => []SegmentStored` |
| | `AlwaysHeadsIndex` | `Spec => []HeadsIndex` |
| | `AlwaysIndexIsHeads` | `Spec => []IndexIsHeads` |
| | `AlwaysStablePrefix` | `Spec => StablePrefix` (action property) |
| `EpochLeaderProofs` | `AlwaysFairDraw` | `ELSpec => []FairDraw` |
| | `AlwaysReadsRight` | `ELSpec => []ReadsRight` |
| | `AlwaysAgreeUnlessCrashed` | `ELSpec => []AgreeUnlessCrashed` |
| `NodeProofs` | `AlwaysStableIsSafe` | `CSpec => []StableIsSafe` |
| | `AlwaysReportWithinK` | `CSpec => []ReportWithinK` |

### 4.1 Assumptions

All are stated in the module that declares the constants and evaluated by every
run on it.

| assumption | says | why the code justifies it |
|---|---|---|
| `ConstantsAssumption` | `K > 0`, at least one epoch | `posconfig.K` is 1440 |
| `ThresholdAssumption` | finitely many proposers, `RBThres = PolymDegree + 1` | `posconfig.Cfg()` |
| `GroupAssumption` | each epoch has a group | the selection writes one per epoch |
| `ValuesAssumption` | the marker of an empty entry is no value | storage of length 0 |
| `NodeAssumption` | nodes are accounts; `NoEpoch` is no epoch | `maxUint64` |
| `ReorgAssumption` (of `BeaconNode` and of `SlotLeaderNode`) | `MaxReorg <= 2 * K` | `SlotSecurityParam`; each confirmation stage is `2K` slots long |
| `SlotLeaderAssumption`, `SlotNodeAssumption` | `K > 0`, the run ends inside an epoch of `12 * K` slots, leaders at every position; `NoEpoch` is no epoch | `posconfig.SlotCount` |
| `PosControlAssumption`, `WhiteListAssumption` | the limits of a call are naturals, an entry and the default have fewer places than there are leaders, the upgrade is not before epoch 2 | the argument checks of the control contract, `posconfig` |
| `IncentiveAssumption`, `WorkAssumption`, `TxAssumption` | finitely many validators and wallets, each validator with stakers of natural weight, at least one random proposer, at most the whole group of epoch leaders stored, fee rates from 0 to the whole | what leader selection and the staking contract store |
| `ReducedAssumption` | the yearly reward reduced `n` times is a natural | it is a product and a quotient of naturals; powers are beyond the provers, TLC evaluates it |
| `MinerAssumption` | finitely many calls, a channel with room for one | `LoopEventCount` is 1000 |
| `ConfirmAssumption` | `K > 1`, a slot has a length, `SecBlkDiff > 1` | `pos/posconfig`, `pos/cfm` |
| `EpochLeaderAssumption` | no more white list leaders than leaders | `posconfig` |
| `ChainAssumption` | what the network sends is closed under parents, no slot has two leaders, `K > 0`, the clock's bound is not before the first epoch | a slot is led by one key; the stage begins with `FirstEpochId` |
| `StakingAssumption`, `NoneAssumption` | finitely many accounts; amounts, lock times and rates are naturals; the shortest term is longer than the quit delay; the marker of a missing record is no record | the argument checks of the contract and `posconfig` |

### 4.2 The arguments

**Beacon contract.** A share is accepted when it is the group signature of its
epoch *at that moment*. It stays so only if neither the key nor the message can
still change. So the properties are not inductive alone, and `IInv` adds:

- `Timely`: whatever is stored for an epoch was stored in its stage. A share
  exists only when the signing stage is reached, and then no dealing is accepted
  any more. A number for the next epoch exists only once the signing stage of
  this one is reached, so the message signed in an epoch no longer changes.
- `CounterCovers`: the shared counter never belongs to an earlier epoch than a
  stored share, and in its own epoch is at least the number of signers. So the
  share that completes a quorum always starts `computeRandom`.

Then a quorum of stored shares contains `PolymDegree + 1` that all are the group
signature (`SubsetOfSize`), and the number is stored. There is one step lemma
for each action. For the refinement, the abstract key is the group key from the
end of the second stage on. `dkg1` and `dkg2` are stutters, a slot that leaves
the second stage is `Fix`, a share that completes a quorum is `Reveal`, and the
first slot of an epoch is `Advance`. `ActiveTookPart` needs `DealingsCommitted`,
that a stored dealing has a commitment beside it.

**Beacon nodes.** A node reads one state of the chain and its transaction is
executed on another. `NIInv` puts the state of the chain and those it can return
to on one line (`Line`): each is a slot behind the next and none more than
`MaxReorg` slots behind the clock (`Placed`). All are sound states of the
contract (`Sound`), and two of them agree on every stage that is over in the
earlier (`LineSettled`). When a node deals or signs, by its clock the stage
before has been over for a whole confirmation stage, so it is over in every
state of the line (`LinePast`, the one place where `ReorgAssumption` is used),
and what the node reads is the same in all of them. `Sendings` is that conclusion for each
transaction, together with what a restart needs: the polynomial a node committed
to is in its database and, in the epoch it works on, in its memory (`Keeps`),
with the ids torn by a crash between sending and storing left out. Each way a
node moves is an instance of one lemma (`NodeStep`).

**Staking.** The record of a validator fits the limits, its weight is what its
term earned, and terms do not overlap (`Valid`, `WeightEarned`); the stakes
counted for the last, this and the next epoch are in the record for as long as
they work (`Bonds`: what `BondedWhileWorking` says of today, said of tomorrow's
records); fees stay below what was announced (`FeesFit`); refunds are on time
(`InTime`); and the money of the contract and of each account are sums over all
records (`Balanced`). The eight calls are one lemma (`CallEffect`): a call of
account `a` with value `x` changes one record so that `a`'s holding grows by
`x`, or refuses. `StakeOutRun` is the hard step: the refunds of each validator
pay exactly what leaves its record (`RefundsPay`), and if all records are owed
no more than the balance no refund is skipped.

**Slot leaders.** The line of chain states is that of the beacon's nodes
(`Placed`, `Sound`, `LineSettled`): two states of it agree on every commitment
and array of a stage that is over in the earlier. `Reads` says the same of the
random number: once an epoch has begun by the clock, every state of the line
knows whether the beacon delivered. `Records` is about one node (`Works`) and
one transaction (`Carries`): the number in the database is the one committed to,
a stored SMA is the second stage of every state of the line, and a cached random
number is the chain's. A node stores its SMA when by its clock the second stage
has been over for `2K` slots, so it is over in every state that can come back:
that is `SMAIsFinal`, and the one place where `MaxReorg <= 2 * K` is needed.
`ProofsVerify` then follows in one state, because prover and verifier read the
same stage and the same random number.

**Incentive.** `IIInv` has what one block hands to the next: the types, one entry
per epoch in the white list (`OneEach`), blocks counted per miner that are at
most the slots passed (`BlocksCounted`: otherwise slot leaders could be given
more than their share), and finished epochs that are over. The rest is
arithmetic about `Run`, in lemmas per function: a quotient loses less than its
divisor, so each division among delegators, leaders, proposers and miners gives
out at most what it was given and its `extraRemain` is the exact difference.
Hence `sumToPay + extraRemain` is the pool, the check at the end succeeds and
`PaidOnTime` holds. It does also where rounded shares exceed the whole, since
the remainder is then negative and the sum still right; `Conserved` does not, as
item 10 of section 5 shows. `ConservedAlways` therefore assumes `SharesFit`: for
each entry that the owner made, and the default, the three rounded shares are at
most the whole. That is so for the code's 26 places of 50 leaders and 25
proposers, and for the instance of the run `incentive`.

**Sums and induction.** The library's induction theorems take an operator as a
parameter, which the provers cannot instantiate. `SumLemmas` does without: a
nonempty set of counterexamples has a least number (`LeastNatural`) or a smallest set (`SmallestSet`), by the
well-foundedness theorems, and its predecessor is no counterexample. From that
it derives that the sums of module `Functions` exist, do not depend on the order
of their terms, and what adding, changing, comparing and regrouping terms does.

**Miner.** That there is never a second agent's goroutine is not inductive:
a stop signal that waits, a mutex that is held and a loop that has begun each
could let one through. `Ordered` says who holds which mutex when (`StopHoldsWorker`,
`LoopHoldsMiner`), that a call starts a loop only with its last step
(`LoopsOfStarts`), that `update` makes its calls one at a time (`UpdaterInTurn`),
and how channel and routine of the beacon follow the loop (`ChannelOfBeacon`).

**Blockchain.** `ChainIInv`: stored blocks are paths of increasing slots with all their
ancestors (`Stored`), a block that passed the checks has its parent stored until
it is written (`InWriters`: what makes the check outside the mutex harmless),
every block of a segment is stored, queued, waiting or being written
(`SegmentKept`), and index and lookups are those of the head (`HeadsIndex`). For the
last, a transaction has one home on a chain because slots increase
(`TxsDisjoint`), and what a reorganisation writes above the common ancestor
(`CommonRight`) is what changes. `StablePrefix` then follows from the two bounds
on a replacement, at most `K` new blocks and more than the old ones. `IndexIsHeads`
adds the types, in `ChainTypes`: no block is ahead of the clock, so a chain has no
more blocks than there are slots and every number and epoch is in range
(`LengthBound`, `EpochInRange`); and the quality cache never holds a slot twice or
more slots than its window, which is shown for pruning it (`CachePruned`), adding to
it (`CacheAdded`) and loading it at a start (`CacheLoaded`), all from what selecting
places of a sequence gives (`KeysAtRight`). A death within a write is excluded by
`WholeBefore`, not by the types.

**Epoch leaders.** `FairDraw` counts the hashes that pick a validator: the
running sums strictly increase (`RunningSumGrows`), the picked place is the one
between whose sums the hash falls (`PickAtPlace`), so the hashes of a validator
are an interval as long as its weight (`ShareIsFair`). For the store, `ELIInv`
says that stored values are those drawn and without gap, that the listed keys
increase, and where the selection stands relative to both; after a crash values
may be listed late or never, but a group that is read in full is the drawn one.

**Confirmation.** The invariant is only that slots increase and no block is
dated ahead of the clock (`ClockOK`). The rest is about one state: the slots since
a block that white list leaders have not used are the elapsed slots less their
blocks, because no two blocks share a slot (`SlotsNotTrusted`), and the code's count
of seconds, rounded to slots, is that number, or one less while the clock is not as
far into its slot as the block (`SlotsSince`). A block is reported only if everything
before it that is looked at is stable (`Reported`).

### 4.3 Only model-checked

- Liveness: `BeaconDelivers`, `MinerSettles`, and the configurations named at
  the end of section 5. Fairness is beyond the prover.
- `TxPool`: `PoolReady`, `PendingFair`, `PendingKnown`, `LocalKept`. Its methods
  are folds over orders of transactions, an induction over data for each.

## 5. Where the code and what is said of it differ

Each item was met while modelling, and has a configuration (run with the module it
is named after) in which TLC finds the stated property violated by what the code does.
They are not among the runs of section 3, which hold the corresponding property
with the case excluded by name, so that everything around the case stays checked.

Staking:

1. **A partner can leave before its term ends** (`MCStakingPartner`,
   `PartnersBonded`; `pos/epochLeader/epoch_leader_selection.go:885`). A partner
   that wants to be renewed by a validator that leaves gets lock time 0 from two
   epochs later on, anew in each epoch. If it takes back its wish in time, the
   next `StakeOutRun` refunds it an epoch before the validator's term ends, while
   its stake was counted for the slot leaders of that epoch. Nobody loses money,
   and in the epoch of random proposing and epoch leading the stake is still
   there (`BondedWhileWorking`).

Miner:

2. **Stop overlapping Start** (`MinerStop`, `StopStopsAll`;
   `miner/miner.go:147`). `Stop` can switch the worker off before `Start`
   switches it on and clear the miner's flag afterwards: `Mining()` is false
   while worker and agent stay on. `eth/api.go:168` says "Stop the miner".
3. **A start lost at the end of a synchronisation** (`MinerSync`,
   `StartsAfterSync`; `miner/miner.go:111`). `update` reads `shouldStart`, sets
   `canStart` and clears `shouldStart` in three steps; a `Start` between them
   leaves a wish that is cleared. `miner/miner.go:62` says "should start indicates
   whether we should start after sync".

Blockchain:

4. **A death inside a reorganisation** (`MCBlockChainReorgCrash`,
   `CanonIsHeadsChain`; `core/blockchain.go:1627`). `reorg` inserts the new blocks
   newest first, each as the head; a death in between leaves numbers of one branch
   and a head of the other. The comment at line 1610 says "insert blocks. Order
   does not matter". `IndexIsHeads` holds without such a death.
5. **Segments that begin with a restart point** (`MCBlockChainRestart`,
   `NothingDropped`; `core/blockchain.go:1268`) are imported only up to that block
   and from the next restart point on, and `InsertChain` returns no error.
   `SegmentStored` holds for all other segments, except while the process stops.
6. **Chain quality after a reorganisation** (`MCBlockChainQuality`,
   `RefusedOnlyIfLow`; `core/blockchain.go:1137`). The cache keeps the slots of
   dropped blocks and misses those of the new branch; a block whose chain has more
   than `K` blocks in the window is refused with "chain quality is too low".
7. **Leaders from the wrong block** (`MCBlockChainEpoch`,
   `SelectedFromLastBlock`; `pos/util/util.go:147`). The number of an epoch's last
   block is kept from a replaced branch; on the new one it is a block of the next
   epoch. `pos/util/util.go:136` says "there is 2K slot, so need not think about
   reorg".

Leaders and incentive:

8. **A hole in the leader store** (`MCEpochLeaderHole`, `SelectedAgree`;
    `pos/posdb/database.go:129`). `put` lists a key only if it had no value; a
    crash between value and key leaves it unlisted for good, and the node reads
    one leader less and no white list. `AgreeUnlessCrashed` and `ReadsRight` hold:
    the group read is never taken for a full one.
9. **The year's pool does not come back** (`MCIncentivePool`, `PoolComesBack`;
    `pos/incentive/subsidy.go:54`). It is stored under `epochID / interval + 1` and
    read under `(epochID - FirstEpochId) / interval`; epoch numbers are days since
    1970, so the keys never meet. `pos/incentive/subsidy.go:53`: "If 1 period
    later, need add the remain incentive pool value of last period".
10. **Rounded shares above the whole** (`MCIncentiveOver`, `Conserved`;
    `pos/incentive/common.go:14`). For some sizes of the white list the three
    shares add up to 1 + 10^-9; with everybody active more is paid than there was,
    and the absolute value of the negative rest goes into the pool.
11. **A fork is paid by the wrong block** (`MCIncentiveFork`, `ForkAccepted`;
    `pos/epochLeader/epoch_leader_selection.go:679`,
    `pos/incentive/activity.go:154`). Fee rates and the slots a leader has used
    are read from the node's current block and not from the parent of the block
    that is executed. A paying block on a sibling branch is refused when the fee
    rate differs there, or when the sibling is the first block of the epoch.
    `core/blockchain.go:1181` says that a block may "create a fork".

Confirmation:

12. **A block dated late** (`BlockConfirmLate`, `StableIsAlwaysAhead`;
    `pos/cfm/block_confirm.go:173`). The slots since a block are counted from its
    time, which its leader may set to any second of its slot
    (`consensus/pluto/pluto.go:587`), so at the beginning of a slot one too few is
    counted and a block is reported that is `SecBlkDiff` ahead and not more.
    `pos/cfm/block_confirm.go:15` calls it "security block difference between main
    block chain and side block chain". `StableIsSafe` says by how much and when.

Transaction pool:

13. **Transactions in no list** (`MCTxPoolAll`, `AllListed`;
    `core/tx_pool.go:892`). When `removeTx` takes the first pending transaction of
    an account, the list is empty at once and the later ones are not put back into
    the queue; they stay in `all` and count against the limits until a replacement
    or a discard meets them. `core/tx_pool_test.go:104` calls the difference an
    error: "total transaction count %d != %d pending + %d queued".
14. **A reset of a full pool** (`MCTxPoolFull`, `PendingExecutable`;
    `core/tx_pool.go:416`). The transactions of the old branch are added before
    those the new branch mined are taken out; when the pool is full one of the
    latter is discarded and `removeTx` lowers the next nonce below that of the
    state. It stays wrong until the next reset. `PoolReady` holds after all other
    resets.
15. **A restart into a full pool** (`MCTxPoolReload`, `LocalSurvives`;
    `core/tx_pool.go:653`). The journal is taken back account by account, and an
    account is local only once one of its transactions is in. When those before it
    have filled the pool, its first is refused as underpriced, and the next rotation
    of the journal forgets it. `core/tx_pool.go:127` says "Journal of local
    transactions to survive node restarts". `LocalKept` excludes this case alone.

Five more were read off the models without a configuration of their own.
`CleanInactiveValidator` (`pos/epochLeader/epoch_leader_selection.go:764`) deletes
the record of a validator and not that of its fee, unlike `StakeOutRun`; a new stake
under the same key may raise its rate to the old maximum, while
`docs/staking_update_feeRate.md` says that the rate given when staking is the
maximum (`FeeAsAnnounced` holds because it counts what was announced for the removed
record; the cleaning runs in one block of the test network only). `InsertChain`
returns no error for the blocks it left out because the process stops
(`core/blockchain.go:1351`). The statistics of reorganisations
(`core/blockchain.go:1998`) store the first of an epoch as number 0 and keep the length of the last, while `docs/wanpos_api.md:175`
says "return the rollback times and the maximum rollback length". In the pool, a
local transaction that replaces a pending one does not make its sender local
(`core/tx_pool.go:671`; the comment at line 633 says it does), and a local
transaction that was mined when the process was restarted is a remote one when
its block is replaced later.

Two more configurations, beside the runs of section 3, hold: `MCSlotLeaderLive`
(`EveryLeaderHasSMA`: in a timely network every leader ends
the epoch with its array, although one crashes) and `MCBlockChainLive`
(`FutureGetsIn`: a block that came before its time is stored once its parent is).

## 6. Not modelled

- Curve arithmetic, hashing, encoding and event logs: out of TLC's reach, or
  irrelevant to the properties. The models use what the checks promise.
- In staking: the local report `saveStakeOut`, the error path for a record that
  cannot be decoded (the contract wrote it), and the capping of a validator's
  probability when stakes are counted.
- In the miner: the assembly of a block (`worker.commitNewWork`) beyond its parent
  and time, remote agents, and the mutex of the beacon's routine: of it the model
  has the event channel and the wait for the routine's end.
- In the blockchain: fast synchronisation, `SetHead`, the proof-of-work stage,
  receipts, the caches that only repeat the database, and a death between the
  deletions of lookups at the end of `reorg`.
- In leader selection: `GetEpLeaderGroup`
  (`pos/epochLeader/epoch_leader_selection.go:514`), which answers a remote call and
  fills a group left incomplete by a crash up to the full size; and the branch of
  `epochLeaderSelection` in which the state it draws from, opened a moment before,
  cannot be opened to read the white list.
- In the slot leader nodes: the error branches of `getRandom`
  (`pos/slotleader`, no current block or no readable state), which a node that
  imports blocks does not reach; and `APkiCache` (`pos/slotleader/proof.go:330`). Its key
  is the hash of an epoch's last block, which a node restarted since may not have
  recorded, so that two epochs can share an entry; the model reads the second stage
  anew each time.
- In the pool: stale entries of the price heap, size and gas limits, journal
  writes that fail.
- Pluto's checks of header fields and seals; the contents of a slot proof are in
  `SlotLeaderNode`, `Finalize` in `Incentive` and `Staking`.
- Privacy transactions, and the parts that go-wanchain inherits from go-ethereum:
  virtual machine, state, network and synchronisation, accounts, remote procedure
  calls, proof of work. They are the larger part of the repository's lines; of
  most of them no state is shared with proof of stake.

## 7. Plan

Done: models of the beacon and its nodes, staking, slot leaders, miner,
blockchain, epoch leaders, incentive and control contract, confirmation and the
transaction pool; proofs about all of them but the pool. Next:

1. Proofs: the pool, method by method, once its folds can be reasoned about.
2. An abstract specification of "one leader list per epoch" that
   `SlotLeaderNode` implements.
3. Privacy transactions: key images and double spending.
4. The order of incentive, refunds and cleaning in `Finalize`, composing
   `Staking` and `Incentive`.
