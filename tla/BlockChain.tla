----------------------------- MODULE BlockChain -----------------------------
(***************************************************************************)
(* core/blockchain.go in the proof-of-stake stage: segments of blocks from *)
(* the network and the node's own blocks are verified, checked for chain   *)
(* quality and written, branches replace each other, and the canonical     *)
(* index, the transaction lookup, the last block of every epoch and the    *)
(* selection of epoch leaders follow.                                      *)
(*                                                                         *)
(* A block is the path of slots that leads to it from the last block of    *)
(* the proof-of-work stage, which is <<>>: its parent is Front(b), its     *)
(* number Len(b), its slot Last(b).  Slots are flat (epoch * SlotCount +   *)
(* slot in the epoch).  A transaction is named after the slot from which   *)
(* on the leaders know it and is in the first block after it.              *)
(***************************************************************************)
EXTENDS Integers, Sequences, FiniteSets, SequencesExt

CONSTANTS
    Tree,          \* the blocks of the other leaders, closed under Front
    Bad,           \* those of them that fail when they are executed
    Own,           \* the slots led by this node
    K,             \* posconfig.K and Cfg().K
    SlotCount,     \* slots of an epoch
    FirstEpochId,  \* the epoch of the first proof-of-stake block
    SelectSlot,    \* the slot of an epoch from which leaders are selected
    RestartLag,    \* epochs a restart takes, 2 in the code
    SyncTarget,    \* Cfg().SyncTargetBlokcNum, set by the downloader
    MaxNow,        \* bound on the clock
    MaxReorgs,     \* bound on the counted reorganisations
    Crashes,       \* where the process may die: "idle", "written", "reorg"
    MaxCrashes     \* bound on its deaths

ASSUME ChainAssumption ==
    /\ Tree \subseteq Seq(Nat)
    /\ \A b \in Tree : b # <<>> /\ (Len(b) > 1 => Front(b) \in Tree)
                         /\ Last(b) \notin Own   \* a slot has one leader
                         /\ b[1] >= FirstEpochId * SlotCount
    /\ K \in Nat \ {0} /\ SlotCount \in Nat \ {0} /\ FirstEpochId \in Nat \ {0}
    /\ MaxNow \in Nat /\ FirstEpochId * SlotCount <= MaxNow

SlotSecurityParam == 2 * K
BlockSecurityParam == K
Word == 65536      \* differences of uint64 wrap around; 2^16 is wide enough

VARIABLES
    now,        \* the current slot
    procInterrupt,  \* whether Stop was called
    blocks,     \* blocks stored with their state
    canon,      \* canonical hash of each number, <<>> if there is none
    lookup,     \* the block each transaction is looked up in, <<>> if none
    stat,       \* per epoch: the stored reorgNumber (-1: none), reorgLength
    head,       \* bc.currentBlock and the stored head hash
    future,     \* bc.futureBlocks
    cqCache,    \* keys of the cache
    cqLastSlot, restartSucess, checkCQStartSlot, stopSlot,
    lastBlockEpoch,  \* per epoch: number of the last block seen, 0 if none
    selected,   \* selectedEpochId of package util
    selecting,  \* epochs whose selection goroutine is under way
    leaders,    \* per epoch: the block its stored leaders come from, <<>>: none
    todo,       \* what InsertChain still has to do
    thread,     \* the write that the importer and the miner are in
    ret,        \* the last return of InsertChain: the segment, its error
    rolled,     \* history: per epoch, the blocks each reorganisation dropped
    crashes

db == <<blocks, canon, lookup, stat, head>>
cq == <<cqCache, cqLastSlot>>
rst == <<restartSucess, checkCQStartSlot, stopSlot>>
sel == <<lastBlockEpoch, selected, selecting, leaders>>
vars == <<now, procInterrupt, db, future, cq, rst, sel, todo, thread, ret, rolled, crashes>>

Idle == [at |-> "idle", block |-> <<>>]
Numbers == 1..MaxNow
EpochOf(s) == s \div SlotCount
Epochs == 0..EpochOf(MaxNow) + 1
SlotOf(b) == IF b = <<>> THEN FirstEpochId * SlotCount - 1 ELSE Last(b)
Parent(b) == Front(b)
Ancestor(b, n) == SubSeq(b, 1, n)
TxsOf(b) == (SlotOf(Parent(b)) + 1)..SlotOf(b)
TxsAbove(b, n) == UNION {TxsOf(Ancestor(b, i)) : i \in n + 1..Len(b)}
HomeOf(b, t) == CHOOSE a \in {Ancestor(b, i) : i \in 1..Len(b)} : t \in TxsOf(a)
Sub(a, b) == (a - b) % Word

TypeOK ==
    /\ now \in 0..MaxNow /\ head \in blocks
    /\ \A n \in Numbers : canon[n] = <<>> \/ Len(canon[n]) = n
    /\ IsFiniteSet(cqCache) /\ Cardinality(cqCache) <= SlotSecurityParam
    /\ procInterrupt \in BOOLEAN
    /\ restartSucess \in BOOLEAN /\ selecting \subseteq Epochs
    /\ \A e \in Epochs : lastBlockEpoch[e] \in 0..MaxNow
    /\ thread["import"].at \in {"idle", "write"}
    /\ thread["mine"].at \in {"idle", "check", "write"}

Init ==
    /\ now = FirstEpochId * SlotCount /\ procInterrupt = FALSE
    /\ blocks = {<<>>} /\ head = <<>>
    /\ canon = [n \in Numbers |-> <<>>]
    /\ lookup = [t \in Numbers |-> <<>>]
    /\ stat = [e \in Epochs |-> [number |-> -1, length |-> 0]]
    /\ future = {}
    /\ cqCache = {} /\ cqLastSlot = 0
    /\ restartSucess = FALSE /\ checkCQStartSlot = now /\ stopSlot = 0
    /\ lastBlockEpoch = [e \in Epochs |-> 0]
    /\ selected = 0 /\ selecting = {}
    /\ leaders = [e \in Epochs |-> <<>>]
    /\ todo = <<>>
    /\ thread = [t \in {"import", "mine"} |-> Idle]
    /\ ret = [segment |-> {}, err |-> "none"]
    /\ rolled = [e \in Epochs |-> <<>>]
    /\ crashes = <<>>

Tick == /\ now < MaxNow
        /\ now' \in now + 1..MaxNow
        /\ UNCHANGED <<procInterrupt, db, future, cq, rst, sel, todo, thread, ret, rolled, crashes>>

-----------------------------------------------------------------------------
(* Chain quality and restart.                                              *)

(* The cache after the slots that left the window were removed: only if it *)
(* holds more than K slots, and only from 2K before the last one on.       *)
PrunedFor(b) ==
    LET startId == Sub(SlotOf(b), SlotSecurityParam + 1)
        stale(s) == s \in Sub(cqLastSlot, SlotSecurityParam)..startId
    IN  IF Cardinality(cqCache) <= BlockSecurityParam THEN cqCache
        ELSE IF startId > cqLastSlot THEN {}
        ELSE {s \in cqCache : ~stale(s)}

isWriteBlockSecure(b) ==
    Cardinality(cqCache) > BlockSecurityParam /\ Cardinality(PrunedFor(b)) > K

biggerThanCriticalBlock(b) == SyncTarget - Len(b) <= 2 * SlotSecurityParam

(* The check at the beginning of WriteBlockAndState, before bc.mu is taken:*)
(* the restart may be declared over, the cache is pruned, and the block is *)
(* refused or not.                                                         *)
QualityChecked(b) == EpochOf(SlotOf(b)) > FirstEpochId + 1

RestartOver(b) ==
    /\ QualityChecked(b) /\ ~restartSucess
    /\ EpochOf(SlotOf(b)) - EpochOf(checkCQStartSlot) > RestartLag

RefusedForQuality(b) ==
    /\ QualityChecked(b) /\ ~isWriteBlockSecure(b)
    /\ restartSucess \/ RestartOver(b)
    /\ biggerThanCriticalBlock(b)

CheckEffect(b) ==
    /\ IF RestartOver(b)   \* SetChainRestartSuccess
         THEN restartSucess' = TRUE /\ checkCQStartSlot' = 0 /\ stopSlot' = 0
         ELSE UNCHANGED rst
    /\ cqCache' = IF QualityChecked(b) THEN PrunedFor(b) ELSE cqCache
    /\ UNCHANGED cqLastSlot

(* What the cache may hold once key s was added: a new key takes the place *)
(* of one of the others when there is no room.  Which one it is depends on *)
(* how often each was added and asked for.                                 *)
CacheAdds(c, s) ==
    IF s \in c \/ Cardinality(c) < SlotSecurityParam THEN {c \cup {s}}
    ELSE {(c \ {old}) \cup {s} : old \in c}

ChainRestartStatus(start, stop) ==
    /\ Sub(start, stop) > SlotSecurityParam - 1
    /\ start > 0 /\ stop > 0

SetRestartBlock(b) ==
    /\ checkCQStartSlot' = SlotOf(b)
    /\ stopSlot' = SlotOf(Parent(b))
    /\ restartSucess' = (restartSucess /\ ~ChainRestartStatus(SlotOf(b), SlotOf(Parent(b))))

-----------------------------------------------------------------------------
(* Writing a block under bc.mu.                                            *)

Common(a, b) == Len(LongestCommonPrefix({a, b}))

BecomesCanonical(b) == Len(head) = 0 \/ Len(b) > Len(head)
NeedsReorg(b) == BecomesCanonical(b) /\ Parent(b) # head
ReorgTooLongOffByOne(newLen) == newLen > K + 1
ReorgTooLong(newLen) == newLen > K

(* updateReOrg: the epoch is that of the lowest new block.                 *)
CountReorg(b) ==
    LET c == Common(head, b)
        e == EpochOf(SlotOf(Ancestor(b, c + 1)))
        n == IF stat[e].number = -1 THEN 0 ELSE stat[e].number + 1
    IN  /\ stat' = [stat EXCEPT ![e] = [number |-> n, length |-> Len(head) - c]]
        /\ rolled' = [rolled EXCEPT ![e] = Append(@, Len(head) - c)]

CanonWithHeadOnly(b, from) == [canon EXCEPT ![Len(b)] = b]

CanonWith(b, from) ==
    [n \in Numbers |-> IF n \in from..Len(b) THEN Ancestor(b, n) ELSE canon[n]]

(* The lookups after reorg and the batch: the transactions of the new      *)
(* blocks point to them, those only the dropped blocks had are deleted.    *)
LookupWith(b) ==
    LET c == Common(head, b)
        added == TxsAbove(b, c)
    IN  [t \in Numbers |-> IF t \in added THEN HomeOf(b, t)
                           ELSE IF t \in TxsAbove(head, c) THEN <<>>
                           ELSE lookup[t]]

(* UpdateEpochBlock: the last block of the block's epoch, and the start of *)
(* the selection of the next epoch's leaders.                              *)
UpdateEpochBlock(b) ==
    LET e == EpochOf(SlotOf(b))
        starts == /\ SlotOf(b) % SlotCount >= SelectSlot
                  /\ selected # e + 1 /\ e # FirstEpochId
    IN  /\ selected' = IF starts THEN e + 1 ELSE selected
        /\ selecting' = IF starts THEN selecting \cup {e + 1} ELSE selecting
        /\ lastBlockEpoch' = [lastBlockEpoch EXCEPT ![e] = Len(b)]
        /\ UNCHANGED leaders

Refuse(b) ==
    /\ NeedsReorg(b) /\ ReorgTooLong(Len(b) - Common(head, b))
    /\ CountReorg(b)
    /\ UNCHANGED <<blocks, canon, lookup, head, future, cq, sel>>

WriteSide(b) ==
    /\ ~BecomesCanonical(b)
    /\ blocks' = blocks \cup {b} /\ future' = future \ {b}
    /\ UNCHANGED <<canon, lookup, stat, rolled, head, cq, sel>>

WriteCanonical(b) ==
    /\ BecomesCanonical(b)
    /\ NeedsReorg(b) => ~ReorgTooLong(Len(b) - Common(head, b))
    /\ IF NeedsReorg(b) THEN CountReorg(b) ELSE UNCHANGED <<stat, rolled>>
    /\ canon' = CanonWith(b, Common(head, b) + 1)
    /\ lookup' = LookupWith(b)
    /\ head' = b
    /\ blocks' = blocks \cup {b} /\ future' = future \ {b}
    /\ cqCache' \in CacheAdds(cqCache, SlotOf(b)) /\ cqLastSlot' = SlotOf(b)
    /\ UpdateEpochBlock(b)

-----------------------------------------------------------------------------
(* InsertChain: a segment of the network, or a block of the future queue.  *)

Segment(b, i) == [j \in 1..Len(b) - i |-> Ancestor(b, i + j)]

Gap(b) == Sub(SlotOf(b), SlotOf(Parent(b)))

(* checkRestarting: the indices of the blocks after a long silence; the    *)
(* first three of the stage are passed over.                               *)
RestartIdxs(seg) ==
    {j \in 1..Len(seg) : Len(seg[j]) > 3 /\ Gap(seg[j]) > SlotSecurityParam - 1}

NoParent(seg) == Len(seg[1]) > 3 /\ Parent(seg[1]) \notin blocks

(* The order in which insertChainWithRestart sets restart points and       *)
(* inserts blocks.  If the first block is a restart point it is inserted   *)
(* alone and the work goes on at the next restart point.                   *)
Work(seg) ==
    LET idxs == RestartIdxs(seg)
        next == {j \in idxs : j > 1}
        resume == IF next = {} THEN Len(seg) + 1 ELSE Min(next)
        items == [j \in 1..Len(seg) |->
                    [op |-> IF j \in idxs THEN "restart" ELSE "insert", block |-> seg[j]]]
    IN  IF 1 \in idxs THEN <<items[1]>> \o SubSeq(items, resume, Len(seg)) ELSE items

InsertChain(seg) ==
    /\ todo = <<>> /\ thread["import"] = Idle
    /\ todo' = IF NoParent(seg) THEN <<>> ELSE Work(seg)
    /\ ret' = [segment |-> ToSet(seg),
               err |-> IF NoParent(seg) THEN "no parent" ELSE "none"]
    /\ UNCHANGED <<now, procInterrupt, db, future, cq, rst, sel, thread, rolled, crashes>>

MoreReorgs == \A e \in Epochs : Len(rolled[e]) < MaxReorgs

Deliver == MoreReorgs /\ \E b \in Tree : \E i \in 0..Len(b) - 1 : InsertChain(Segment(b, i))

ProcFuture(b) == MoreReorgs /\ b \in future /\ InsertChain(<<b>>)

Doing(op) == todo # <<>> /\ thread["import"] = Idle /\ Head(todo).op = op

SetRestart ==
    /\ Doing("restart")
    /\ SetRestartBlock(Head(todo).block)
    /\ todo' = [todo EXCEPT ![1].op = "insert"]
    /\ UNCHANGED <<now, procInterrupt, db, future, cq, sel, thread, ret, rolled, crashes>>

(* Stop sets procInterrupt; the process ends some time later.              *)
Stop ==
    /\ ~procInterrupt /\ Len(crashes) < MaxCrashes
    /\ procInterrupt' = TRUE
    /\ UNCHANGED <<now, db, future, cq, rst, sel, todo, thread, ret, rolled, crashes>>

(* insertChain leaves its loop without an error, and so does every further *)
(* call of insertChainWithRestart.                                         *)
SkipInterrupted ==
    /\ Doing("insert") /\ procInterrupt
    /\ todo' = Tail(todo)
    /\ UNCHANGED <<now, procInterrupt, db, future, cq, rst, sel, thread, ret, rolled, crashes>>

Inserting == Doing("insert") /\ ~procInterrupt

Fail(e) == todo' = <<>> /\ ret' = [ret EXCEPT !.err = e]

(* One block of insertChain up to the write: the verdict of the header     *)
(* verification, of ValidateBody and of the execution.                     *)
Early(b) == SlotOf(b) > now
Orphan(b) == ~Early(b) /\ b \notin blocks /\ Parent(b) \notin blocks
Known(b) == ~Early(b) /\ b \in blocks
Linked(b) == ~Early(b) /\ b \notin blocks /\ Parent(b) \in blocks
\* In the epochs after ApolloEpochID, those modelled, slots must increase.
Invalid(b) == b \in Bad \/ SlotOf(b) <= SlotOf(Parent(b))

QueueFutureDrop ==
    /\ Inserting
    /\ Early(Head(todo).block) /\ SlotOf(Head(todo).block) = now + 1
    /\ todo' = Tail(todo)
    /\ UNCHANGED <<now, procInterrupt, db, future, cq, rst, sel, thread, ret, rolled, crashes>>

(* A block at most maxTimeFutureBlocks ahead of the clock, less than a     *)
(* slot, is queued, and so is a child of a queued block.                   *)
QueueFuture ==
    /\ Inserting
    /\ LET b == Head(todo).block
       IN  /\ \/ Early(b) /\ SlotOf(b) = now + 1
              \/ Orphan(b) /\ Parent(b) \in future
           /\ future' = future \cup {b}
    /\ todo' = Tail(todo)
    /\ UNCHANGED <<now, procInterrupt, db, cq, rst, sel, thread, ret, rolled, crashes>>

SkipKnown ==
    /\ Inserting /\ Known(Head(todo).block)
    /\ todo' = Tail(todo)
    /\ UNCHANGED <<now, procInterrupt, db, future, cq, rst, sel, thread, ret, rolled, crashes>>

RejectBlock ==
    /\ Inserting
    /\ LET b == Head(todo).block
       IN  \/ Early(b) /\ Fail("future")
           \/ Orphan(b) /\ Parent(b) \notin future /\ Fail("orphan")
           \/ Linked(b) /\ Invalid(b) /\ Fail("invalid")
    /\ UNCHANGED <<now, procInterrupt, db, future, cq, rst, sel, thread, rolled, crashes>>

CheckImport ==
    /\ Inserting
    /\ LET b == Head(todo).block
       IN  /\ Linked(b) /\ ~Invalid(b)
           /\ CheckEffect(b)
           /\ IF RefusedForQuality(b)
                THEN Fail("quality") /\ UNCHANGED thread
                ELSE /\ thread' = [thread EXCEPT !["import"] = [at |-> "write", block |-> b]]
                     /\ todo' = Tail(todo) /\ UNCHANGED ret
    /\ UNCHANGED <<now, procInterrupt, db, future, sel, rolled, crashes>>

WriteImport ==
    /\ thread["import"].at = "write"
    /\ LET b == thread["import"].block
       IN  \/ Refuse(b) /\ Fail("reorg")
           \/ (WriteSide(b) \/ WriteCanonical(b)) /\ UNCHANGED <<todo, ret>>
    /\ thread' = [thread EXCEPT !["import"] = Idle]
    /\ UNCHANGED <<now, procInterrupt, rst, crashes>>

-----------------------------------------------------------------------------
(* The miner: a block on the head it saw, written without the chain lock.  *)

Mine ==
    /\ thread["mine"] = Idle /\ MoreReorgs
    /\ now \in Own /\ now > SlotOf(head)
    /\ \A b \in blocks : SlotOf(b) # now
    /\ thread' = [thread EXCEPT !["mine"] = [at |-> "check", block |-> Append(head, now)]]
    /\ UNCHANGED <<now, procInterrupt, db, future, cq, rst, sel, todo, ret, rolled, crashes>>

CheckMine ==
    /\ thread["mine"].at = "check"
    /\ CheckEffect(thread["mine"].block)
    /\ thread' = [thread EXCEPT !["mine"] =
                    IF RefusedForQuality(@.block) THEN Idle ELSE [@ EXCEPT !.at = "write"]]
    /\ UNCHANGED <<now, procInterrupt, db, future, sel, todo, ret, rolled, crashes>>

WriteMine ==
    /\ thread["mine"].at = "write"
    /\ LET b == thread["mine"].block
       IN  Refuse(b) \/ WriteSide(b) \/ WriteCanonical(b)
    /\ thread' = [thread EXCEPT !["mine"] = Idle]
    /\ UNCHANGED <<now, procInterrupt, rst, todo, ret, crashes>>

-----------------------------------------------------------------------------
(* SelectLeadersLoop(e) in its goroutine: the leaders come from the state  *)
(* of the last block of epoch e - 2, looked up by number.                  *)

(* GetEpochLastBlkNumber: back from the head to the epoch.                 *)
LastNumberOf(b, e) ==
    LET inEpoch == {n \in 1..Len(b) : EpochOf(SlotOf(canon[n])) <= e}
    IN  IF inEpoch = {} THEN 0 ELSE CHOOSE n \in inEpoch : \A k \in inEpoch : k <= n

GetEpochBlock(e) ==
    IF lastBlockEpoch[e] # 0 THEN lastBlockEpoch[e] ELSE LastNumberOf(head, e)

SelectLeaders(e) ==
    /\ e \in selecting
    /\ LET n == GetEpochBlock(e - 2)
       IN  /\ leaders' = [leaders EXCEPT ![e] = IF n = 0 THEN <<>> ELSE canon[n]]
           /\ lastBlockEpoch' =
                IF lastBlockEpoch[e - 2] = 0 /\ e - 2 < EpochOf(now) /\ e - 2 >= FirstEpochId
                  THEN [lastBlockEpoch EXCEPT ![e - 2] = n] ELSE lastBlockEpoch
    /\ selecting' = selecting \ {e}
    /\ UNCHANGED <<now, procInterrupt, db, future, cq, rst, selected, todo, thread, ret, rolled, crashes>>

-----------------------------------------------------------------------------
(* Death of the process and NewBlockChain.                                 *)

(* The slots of the head's chain down to its second block or to the first  *)
(* that is more than 2K before the head's, added newest first: the last 2K *)
(* of them stay.                                                           *)
CacheOf(h, index) ==
    LET near(n) == Sub(SlotOf(h), SlotOf(index[n])) <= SlotSecurityParam
        added   == {n \in 2..Len(h) : \A m \in n + 1..Len(h) : near(m)}
    IN  {SlotOf(index[n]) : n \in
            {k \in added : Cardinality({m \in added : m < k}) < SlotSecurityParam}}

LoadedHeadUnchecked(h, stored) == h

(* loadLastState: a head that is not stored makes the chain start again    *)
(* from genesis; its blocks and their numbers stay where they are.         *)
LoadedHead(h, stored) == IF h \in stored THEN h ELSE <<>>

NewBlockChain(h, index, where) ==
    /\ head' = h
    /\ canon' = index
    /\ cqCache' = CacheOf(h, index)
    /\ cqLastSlot' = IF Len(h) < 2 THEN 0 ELSE SlotOf(h)
    /\ procInterrupt' = FALSE
    /\ checkCQStartSlot' = now /\ restartSucess' = FALSE /\ stopSlot' = 0
    /\ future' = {} /\ todo' = <<>>
    /\ thread' = [t \in {"import", "mine"} |-> Idle]
    /\ lastBlockEpoch' = [e \in Epochs |-> 0]
    /\ selected' = 0 /\ selecting' = {}
    /\ ret' = [segment |-> {}, err |-> "none"]
    /\ Len(crashes) < MaxCrashes /\ crashes' = Append(crashes, where)
    /\ UNCHANGED <<now, leaders>>

DieIdle ==
    /\ "idle" \in Crashes
    /\ NewBlockChain(head, canon, "idle")
    /\ UNCHANGED <<blocks, lookup, stat, rolled>>

(* After batch.Write: the block and its lookups are stored.  On the head   *)
(* the number may be written, the head is the old one; after a reorg the   *)
(* numbers are written, and the head is the lowest block of the branch.    *)
DieWritten ==
    /\ "written" \in Crashes
    /\ \E t \in DOMAIN thread :
        LET b == thread[t].block
            c == Common(head, b)
        IN  /\ thread[t].at = "write" /\ BecomesCanonical(b)
            /\ blocks' = blocks \cup {b}
            /\ lookup' = LookupWith(b)
            /\ \/ /\ ~NeedsReorg(b)
                  /\ \E index \in {canon, CanonWith(b, Len(b))} : NewBlockChain(head, index, "written")
                  /\ UNCHANGED <<stat, rolled>>
               \/ /\ NeedsReorg(b) /\ ~ReorgTooLong(Len(b) - c)
                  /\ CountReorg(b)
                  /\ NewBlockChain(LoadedHead(Ancestor(b, c + 1), blocks'), CanonWith(b, c + 1), "written")

(* Within reorg, which inserts the branch from its newest block down: of   *)
(* the block at low the number is written, its head hash and its lookups   *)
(* perhaps.  Each block is the head for a moment, and the newest is not    *)
(* stored yet.                                                             *)
DieInReorg ==
    /\ "reorg" \in Crashes
    /\ \E t \in DOMAIN thread :
        LET b == thread[t].block
            c == Common(head, b)
            HeadAt(n) == IF n > Len(b) THEN head ELSE LoadedHead(Ancestor(b, n), blocks)
        IN  /\ thread[t].at = "write" /\ NeedsReorg(b) /\ ~ReorgTooLong(Len(b) - c)
            /\ CountReorg(b)
            /\ \E low \in c + 1..Len(b) : \E top \in {low, low + 1} : \E found \in {top, low + 1} :
                  /\ lookup' = [x \in Numbers |->
                        IF x \in TxsAbove(b, found - 1) THEN HomeOf(b, x) ELSE lookup[x]]
                  /\ NewBlockChain(HeadAt(top), CanonWith(b, low), "reorg")
    /\ UNCHANGED blocks

-----------------------------------------------------------------------------

Import ==
    \/ SetRestart \/ SkipInterrupted
    \/ QueueFuture \/ SkipKnown \/ RejectBlock \/ CheckImport \/ WriteImport

Next == \/ Tick \/ Deliver \/ Import
        \/ \E b \in future : ProcFuture(b)
        \/ Mine \/ CheckMine \/ WriteMine
        \/ \E e \in selecting : SelectLeaders(e)
        \/ Stop \/ DieIdle \/ DieWritten \/ DieInReorg

Spec == Init /\ [][Next]_vars

(* The importer is one goroutine that runs until it returns, the clock     *)
(* goes on, and the timer of update() offers each queued block again.      *)
FairSpec == /\ Spec /\ WF_vars(Tick) /\ WF_vars(Import)
            /\ \A b \in Tree : SF_vars(ProcFuture(b))

-----------------------------------------------------------------------------
(* Properties.                                                             *)

(* No write was cut off by a death of the process.                         *)
Whole == ToSet(crashes) \subseteq {"idle"}

(* The canonical index, which is written block by block when a branch      *)
(* replaces another, is the head's chain and nothing above it.             *)
CanonIsHeadsChain ==
    \A n \in Numbers : canon[n] = IF n <= Len(head) THEN Ancestor(head, n) ELSE <<>>

(* A transaction is found in the block of the head's chain that holds it,  *)
(* and not at all if only a replaced branch had it.                        *)
LookupsMatch ==
    \A t \in Numbers :
        lookup[t] = IF t \in TxsAbove(head, 0) THEN HomeOf(head, t) ELSE <<>>

(* As long as no write was cut off, the index and the lookups are those of *)
(* the head's chain, whatever branches, queued blocks and own blocks were  *)
(* written in whatever order.                                              *)
HeadsIndex == Whole => CanonIsHeadsChain /\ LookupsMatch

(* The same, and the state has its types.                                  *)
IndexIsHeads == HeadsIndex /\ (Whole => TypeOK)

(* Every stored block has its stored parent, so that reorg and the count   *)
(* of blocks never walk into a missing one, also when writes are cut off.  *)
KnownAncestors == head \in blocks /\ \A b \in blocks \ {<<>>} : Parent(b) \in blocks

(* What has K - 1 blocks on top of it stays canonical, whatever branches   *)
(* and own blocks arrive in whatever order: reorg refuses a branch of more *)
(* than K blocks, and a branch must be longer than what it replaces.       *)
StablePrefix ==
    [][Whole' => \A n \in 1..Len(head) - (K - 1) :
          n <= Len(head') /\ Ancestor(head', n) = Ancestor(head, n)]_vars

(* InsertChain that returns without an error has stored or queued every    *)
(* block of the segment.                                                   *)
NothingDropped ==
    todo = <<>> /\ thread["import"] = Idle /\ ret.err = "none"
        => ret.segment \subseteq blocks \cup future

(* The same for segments that do not begin with a restart point: of those  *)
(* that do, insertChainWithRestart inserts the first block and goes on at  *)
(* the next restart point.  And not while the process stops, when blocks   *)
(* are left out without an error.                                          *)
BeginsWithRestart(segment) ==
    \E b \in segment :
        /\ \A c \in segment : Len(b) <= Len(c)
        /\ Len(b) > 3 /\ Gap(b) > SlotSecurityParam - 1

SegmentStored == procInterrupt \/ BeginsWithRestart(ret.segment) \/ NothingDropped

(* A block the network sends before its time is stored once its parent is. *)
FutureGetsIn == \A b \in Tree : b \in future /\ Parent(b) \in blocks ~> b \in blocks

(* The number of blocks of b's own chain in the 2K slots before it.        *)
QualityOf(b) ==
    Cardinality({n \in 1..Len(b) - 1 :
        SlotOf(Ancestor(b, n)) \in SlotOf(b) - SlotSecurityParam..SlotOf(b) - 1})

(* ErrInsufficientCQ, "chain quality is too low", is returned only for a   *)
(* block whose chain has K blocks or fewer in the 2K slots before it.      *)
RefusedOnlyIfLow ==
    \A b \in Tree : Linked(b) /\ RefusedForQuality(b) => QualityOf(b) <= K

(* The leaders of an epoch come from the last block of the epoch two       *)
(* before it on the head's chain.                                          *)
SelectedFromLastBlock ==
    \A e \in Epochs : leaders[e] # <<>> => leaders[e] = Ancestor(head, LastNumberOf(head, e - 2))
=============================================================================
