------------------------------- MODULE TxPool -------------------------------
(***************************************************************************)
(* The transaction pool (core/tx_pool.go, tx_list.go, tx_journal.go).      *)
(*                                                                         *)
(* Every operation runs with the pool's mutex held, so one action stands   *)
(* for one call, with everything it calls.  The pool is a record that the  *)
(* operators below take and return, as the methods of TxPool do.           *)
(*                                                                         *)
(* An account's list is a set of transactions with different nonces.  The  *)
(* heap of prices is taken for what it is an index of: the transactions in *)
(* all, cheapest first; entries left behind or put in twice are left out.  *)
(* Time is only the order of the heartbeats.                               *)
(***************************************************************************)
EXTENDS Naturals, Sequences, FiniteSets, SequencesExt, FiniteSetsExt, Functions

CONSTANTS
    Account, Tx,     \* Tx: records with from, nonce, price, cost and kind
    LocalTx,         \* the transactions users hand to this node
    Batches,         \* the sequences of transactions peers send
    Block, Genesis, Parent, Body,
                     \* a tree of blocks with their transactions
    Balance,         \* Balance[b][a]: of account a in the state of block b
    Outdated,        \* Outdated[b]: protocol and privacy transactions whose
                     \* own validity check fails in the state of b
    Prices,          \* the limits SetGasPrice is called with
    Orders,          \* sequences of Tx: orders in which maps and heaps may
                     \* give what they do not order
    PriceLimit, PriceBump,
    AccountSlots, GlobalSlots, AccountQueue, GlobalQueue,
    MaxReorg,        \* 1024 in reset
    MaxJournal       \* bound on the entries of the journal

ASSUME LimitsAssumption ==
    /\ AccountSlots \in Nat \ {0}
    /\ {GlobalSlots, AccountQueue, GlobalQueue, PriceBump, MaxReorg} \subseteq Nat

VARIABLES
    pool,     \* pending, queue, all, nonce (of pendingState), beats, locals,
              \* gasPrice; cur, the block of currentState; journal, the file of
              \* local transactions; known, what the network was told or told
              \* this node; vowed (history), what this process took over by
              \* AddLocal from an account that is local since; crowded
              \* (history), whether the last reset had to drop transactions
              \* to take back those of the old branch
    head      \* the last block the loop was told of

tvars == <<pool, head>>
-----------------------------------------------------------------------------
(***************************************************************************)
(* The chain, and what is read from a state.                               *)
(***************************************************************************)
Number[b \in Block] == IF b = Genesis THEN 0 ELSE Number[Parent[b]] + 1

\* A block's ancestors, the block first.
Path[b \in Block] ==
    IF b = Genesis THEN <<b>> ELSE <<b>> \o Path[Parent[b]]

Mined[b \in Block] ==
    ToSet(Body[b]) \cup IF b = Genesis THEN {} ELSE Mined[Parent[b]]

NonceAt == [b \in Block |-> [a \in Account |->
              Cardinality({t \in Mined[b] : t.from = a})]]

StateNonce(b, a) == NonceAt[b][a]

Payable(t, b) == t.kind = "privacy" \/ t.cost <= Balance[b][t.from]

Valid(t, b) == t \notin Outdated[b]

Lowest(S) == Min({t.nonce : t \in S})

\* Flatten: the list in the order of its nonces.
Flatten(S) == SetToSortSeq(S, LAMBDA t, u : t.nonce < u.nonce)

\* Sorted by price, as the heap gives them; ties in the order ord.
ByPrice(S, ord) ==
    LET At(t) == CHOOSE i \in 1 .. Len(ord) : ord[i] = t
    IN  SetToSortSeq(S, LAMBDA t, u : \/ t.price < u.price
                                      \/ t.price = u.price /\ At(t) < At(u))

Listed(p, a) == p.pending[a] \cup p.queue[a]

NewTxPool(b) ==
    [pending |-> [a \in Account |-> {}], queue |-> [a \in Account |-> {}],
     all |-> {}, nonce |-> [a \in Account |-> StateNonce(b, a)],
     beats |-> <<>>, locals |-> {}, gasPrice |-> PriceLimit, cur |-> b,
     journal |-> <<>>, known |-> {}, vowed |-> {}, crowded |-> FALSE]
-----------------------------------------------------------------------------
(***************************************************************************)
(* One transaction in and out of the lists.                                *)
(***************************************************************************)
\* Whether a list takes t: nothing has its nonce, or t pays enough more.
Takes(list, t) ==
    \A old \in list :
        old.nonce = t.nonce =>
            (old.price * (100 + PriceBump)) \div 100 < t.price

Replaced(list, t) == {old \in list : old.nonce = t.nonce}

\* enqueueTx; what the list does not take stays where it is, in all.
enqueueTx(p, t) ==
    IF ~Takes(p.queue[t.from], t) THEN p
    ELSE LET old == Replaced(p.queue[t.from], t)
         IN  [p EXCEPT !.queue[t.from] = (@ \ old) \cup {t},
                       !.all = (@ \ old) \cup {t}]

WithoutBeat(p, a) == [p EXCEPT !.beats = SelectSeq(@, LAMBDA b : b # a)]

\* Lists find a transaction by its nonce alone.
removeTx(p, t) ==
    LET a == t.from
        q == [p EXCEPT !.all = @ \ {t}]
        rest == {u \in p.pending[a] : u.nonce < t.nonce}
        invalids == {u \in p.pending[a] : u.nonce > t.nonce}
        out == [q EXCEPT !.pending[a] = rest,
                         !.nonce[a] = IF @ > t.nonce THEN t.nonce ELSE @]
    IN  CASE t \notin p.all -> p
          [] t \in p.all /\ Replaced(p.pending[a], t) = {} ->
                [q EXCEPT !.queue[a] = @ \ Replaced(@, t)]
          [] OTHER ->
                IF rest = {} THEN WithoutBeat(out, a)
                ELSE FoldSet(LAMBDA u, s : enqueueTx(s, u), out, invalids)

removeAll(p, txs) == FoldLeft(removeTx, p, txs)

\* promoteTx.
promoteTx(p, t) ==
    LET a == t.from
        old == Replaced(p.pending[a], t)
    IN  IF ~Takes(p.pending[a], t) THEN [p EXCEPT !.all = @ \ {t}]
        ELSE [WithoutBeat(p, a) EXCEPT
                !.pending[a] = (@ \ old) \cup {t},
                !.all = (@ \ old) \cup {t},
                !.beats = Append(@, a),
                !.nonce[a] = t.nonce + 1,
                !.known = @ \cup {t}]
-----------------------------------------------------------------------------
(***************************************************************************)
(* promoteExecutables.                                                     *)
(***************************************************************************)
\* The transactions that follow each other from the lowest nonce on, if that
\* is not above start.
Ready(list, start) ==
    IF list = {} \/ Lowest(list) > start THEN {}
    ELSE {t \in list : \A n \in Lowest(list) .. t.nonce :
                          \E u \in list : u.nonce = n}

\* All but the highest nonces over the limit.
CapTo(list, n) == {t \in list : Cardinality({u \in list : u.nonce < t.nonce}) < n}

promoteAccount(p, a) ==
    LET list == {t \in p.queue[a] : /\ t.nonce >= StateNonce(p.cur, a)
                                    /\ Payable(t, p.cur)
                                    /\ Valid(t, p.cur)}
        ready == Ready(list, p.nonce[a])
        q == FoldLeft(promoteTx,
                      [p EXCEPT !.all = @ \ (p.queue[a] \ list)],
                      Flatten(ready))
        left == IF a \in p.locals THEN list \ ready
                ELSE CapTo(list \ ready, AccountQueue)
    IN  [q EXCEPT !.queue[a] = left, !.all = @ \ ((list \ ready) \ left)]

Total(lists) == Cardinality(UNION {lists[a] : a \in Account})

Sum(len) == Cardinality(UNION {{a} \X (1 .. len[a]) : a \in Account})

\* The accounts in the order a map gives them, all of them and those of a set.
AccountsBy ==
    [ord \in Orders |->
        FoldLeft(LAMBDA s, t : IF t.from \in ToSet(s) THEN s ELSE Append(s, t.from), <<>>, ord)]

InOrder(S, ord) == SelectSeq(AccountsBy[ord], LAMBDA a : a \in S)

\* The equalization works on the lengths of the pending lists.  A round takes
\* one transaction from each of some accounts; rounds go on while more than
\* slots are left and the given account is above floor.
RECURSIVE Rounds(_, _, _, _, _)
Rounds(len, accounts, last, floor, slots) ==
    IF Sum(len) > slots /\ len[last] > floor
    THEN Rounds([a \in Account |-> IF a \in accounts THEN len[a] - 1 ELSE len[a]],
                accounts, last, floor, slots)
    ELSE len

\* spammers: the accounts over their allowance that are not local, longest
\* list first.
Spammers(len, locals, own, ord) ==
    LET over == InOrder({a \in Account \ locals : len[a] > own}, ord)
        At(a) == CHOOSE i \in 1 .. Len(over) : over[i] = a
    IN  SortSeq(over, LAMBDA a, b : \/ len[a] > len[b]
                                    \/ len[a] = len[b] /\ At(a) < At(b))

\* One spammer more: the offenders before it come down to its length.
Offend(s, a, slots) ==
    IF Sum(s.len) <= slots THEN s
    ELSE [offenders |-> Append(s.offenders, a),
          len |-> IF s.offenders = <<>> THEN s.len
                  ELSE Rounds(s.len, ToSet(s.offenders), Last(s.offenders),
                              s.len[a], slots)]

\* Deviation: the offenders are not brought down to their allowance.
EqualizedOnly(len, locals, slots, own, ord) ==
    FoldLeft(LAMBDA s, a : Offend(s, a, slots),
             [offenders |-> <<>>, len |-> len], Spammers(len, locals, own, ord)).len

Equalized(len, locals, slots, own, ord) ==
    LET s == FoldLeft(LAMBDA t, a : Offend(t, a, slots),
                      [offenders |-> <<>>, len |-> len], Spammers(len, locals, own, ord))
    IN  IF s.offenders = <<>> THEN s.len
        ELSE Rounds(s.len, ToSet(s.offenders), Last(s.offenders), own, slots)

\* Deviation: the next nonce stays behind the dropped transactions.
ShortenedOnly(p, lists) ==
    [p EXCEPT !.pending = lists,
              !.all = @ \ UNION {p.pending[a] \ lists[a] : a \in Account}]

Shortened(p, lists) ==
    LET drop(a) == p.pending[a] \ lists[a]
    IN  [p EXCEPT !.pending = lists,
                  !.all = @ \ UNION {drop(a) : a \in Account},
                  !.nonce = [a \in Account |->
                       IF drop(a) # {} /\ @[a] > Lowest(drop(a))
                       THEN Lowest(drop(a)) ELSE @[a]]]

equalize(p, ord) ==
    LET len == [a \in Account |-> Cardinality(p.pending[a])]
        short == Equalized(len, p.locals, GlobalSlots, AccountSlots, ord)
    IN  Shortened(p, [a \in Account |-> CapTo(p.pending[a], short[a])])

\* The accounts in the order they lose queued transactions: the latest
\* heartbeat first, then those without one.
TrimOrder(p, ord) ==
    SelectSeq(Reverse(p.beats) \o InOrder(Account \ ToSet(p.beats), ord),
              LAMBDA a : a \notin p.locals /\ p.queue[a] # {})

\* Whole lists while they are within what is left to drop, then the highest
\* nonces.
trimQueue(p, ord) ==
    FoldLeft(LAMBDA s, a :
               LET list == Flatten(s.pool.queue[a])
                   n == Min({Len(list), s.drop})
                   out == IF n = Len(list) THEN list ELSE SubSeq(Reverse(list), 1, n)
               IN  [pool |-> removeAll(s.pool, out), drop |-> s.drop - n],
             [pool |-> p, drop |-> Max({Total(p.queue), GlobalQueue}) - GlobalQueue],
             TrimOrder(p, ord)).pool

promoteExecutables(p, accounts, ord) ==
    trimQueue(equalize(FoldLeft(promoteAccount, p, InOrder(accounts, ord)), ord), ord)
-----------------------------------------------------------------------------
(***************************************************************************)
(* Adding transactions.                                                    *)
(***************************************************************************)
validateTx(p, t, local) ==
    /\ local \/ t.from \in p.locals \/ t.price >= p.gasPrice
    /\ t.nonce >= StateNonce(p.cur, t.from)
    /\ Payable(t, p.cur)
    /\ Valid(t, p.cur)

Remotes(p) == {u \in p.all : u.from \notin p.locals}

\* Deviation: local transactions are discarded like the others.
DiscardAny(p, count, ord) ==
    SubSeq(ByPrice(p.all, ord), 1, Min({count, Cardinality(p.all)}))

Discard(p, count, ord) ==
    SubSeq(ByPrice(Remotes(p), ord), 1, Min({count, Cardinality(Remotes(p))}))

Underpriced(p, t) ==
    t.from \notin p.locals /\ Min({u.price : u \in p.all}) >= t.price

\* A full pool drops its cheapest transactions first.
Full(p) == Cardinality(p.all) >= GlobalSlots + GlobalQueue

MakeRoom(p, ord) ==
    IF ~Full(p) THEN p
    ELSE removeAll(p, Discard(p, Cardinality(p.all) + 1
                                   - (GlobalSlots + GlobalQueue), ord))

\* Only a transaction that goes to the queue makes its sender local.
Queued(p, t, local) ==
    [enqueueTx(p, t) EXCEPT !.locals = @ \cup {a \in {t.from} : local}]

Pended(p, t) ==
    LET old == Replaced(p.pending[t.from], t)
    IN  [p EXCEPT !.pending[t.from] = (@ \ old) \cup {t},
                  !.all = (@ \ old) \cup {t}]

journalTx(p, t) ==
    IF t.from \in p.locals THEN [p EXCEPT !.journal = Append(@, t)] ELSE p

Vow(p, t, local) ==
    [p EXCEPT !.vowed = @ \cup {u \in {t} : local /\ t.from \in p.locals}]

\* What add makes of the pool, and what it returns.  A transaction refused
\* by a list may have driven others out before.
add(p, t, local, ord) ==
    LET q == MakeRoom(p, ord)
        pends == Replaced(q.pending[t.from], t) # {}
        list == IF pends THEN q.pending[t.from] ELSE q.queue[t.from]
    IN  IF \/ t \in p.all
           \/ ~validateTx(p, t, local)
           \/ Full(p) /\ Underpriced(p, t)
        THEN [pool |-> p, res |-> "refused"]
        ELSE IF ~Takes(list, t) THEN [pool |-> q, res |-> "refused"]
        ELSE [pool |-> Vow(journalTx(IF pends THEN Pended(q, t)
                                              ELSE Queued(q, t, local), t), t, local),
              res |-> IF Replaced(list, t) # {} THEN "replaced" ELSE "new"]

\* Deviation: a replacement is not announced.
addTxSilent(p, t, local, ord) ==
    LET r == add(p, t, local, ord)
    IN  IF r.res = "new" THEN promoteExecutables(r.pool, {t.from}, ord) ELSE r.pool

addTx(p, t, local, ord) ==
    LET r == add(p, t, local, ord)
    IN  CASE r.res = "refused"  -> r.pool
          [] r.res = "new"      -> promoteExecutables(r.pool, {t.from}, ord)
          [] r.res = "replaced" -> [r.pool EXCEPT !.known = @ \cup {t}]

\* addTxsLocked: the batch first, then the accounts that got something new.
addTxs(p, txs, local, ord) ==
    LET r == FoldLeft(LAMBDA s, t :
                        LET x == add(s.pool, t, local, ord)
                        IN  [pool |-> x.pool,
                             dirty |-> s.dirty \cup {a \in {t.from} : x.res = "new"}],
                      [pool |-> p, dirty |-> {}], txs)
    IN  IF r.dirty = {} THEN r.pool
        ELSE promoteExecutables(r.pool, r.dirty, ord)
-----------------------------------------------------------------------------
(***************************************************************************)
(* A new head.                                                             *)
(***************************************************************************)
\* What follows a transaction that cannot be paid waits in the queue, what
\* follows one that is no longer valid is dropped with it.
demoteAccount(p, a) ==
    LET n == StateNonce(p.cur, a)
        list == {t \in p.pending[a] : t.nonce >= n}
        costly == {t \in list : ~Payable(t, p.cur)}
        behind == {t \in list \ costly : costly # {} /\ t.nonce > Lowest(costly)}
        front == list \ (costly \cup behind)
        bad == {t \in front : ~Valid(t, p.cur)}
        lost == {t \in front : bad # {} /\ t.nonce >= Lowest(bad)}
        kept == front \ lost
        gap == {t \in kept : n \notin {u.nonce : u \in kept}}
        q == FoldSet(LAMBDA t, s : enqueueTx(s, t),
                     [p EXCEPT !.pending[a] = kept \ gap,
                               !.all = @ \ ((p.pending[a] \ list) \cup costly \cup lost)],
                     behind \cup gap)
    IN  IF p.pending[a] # {} /\ kept \ gap = {} THEN WithoutBeat(q, a) ELSE q

demoteUnexecutables(p) ==
    FoldSet(LAMBDA a, q : demoteAccount(q, a), p, Account)

\* The transactions of the old branch, newest block first, that the new one
\* does not have.
Reinject(old, new) ==
    LET off == SelectSeq(Path[old], LAMBDA b : b \notin ToSet(Path[new]))
        on == SelectSeq(Path[new], LAMBDA b : b \notin ToSet(Path[old]))
        TxsOf(bs) == FlattenSeq([i \in 1 .. Len(bs) |-> Body[bs[i]]])
        depth == Max({Number[old], Number[new]}) - Min({Number[old], Number[new]})
    IN  IF old = Parent[new] \/ depth > MaxReorg THEN <<>>
        ELSE SelectSeq(TxsOf(off), LAMBDA t : t \notin ToSet(TxsOf(on)))

\* reset: the transactions of the old branch are added on the new state, ...
Reinjected(p, old, new, ord) ==
    LET reinject == Reinject(old, new)
        fresh == [p EXCEPT !.cur = new,
                           !.nonce = [a \in Account |-> StateNonce(new, a)],
                           !.crowded = Cardinality(p.all) + Len(reinject)
                                         > GlobalSlots + GlobalQueue]
    IN  addTxs(fresh, reinject, FALSE, ord)

\* ... pending is cleared of what that state does not allow and the nonces
\* are set behind it, ...
Demoted(p) ==
    LET q == demoteUnexecutables(p)
    IN  [q EXCEPT !.nonce = [a \in Account |->
            IF q.pending[a] = {} THEN @[a]
            ELSE Max({t.nonce : t \in q.pending[a]}) + 1]]

\* ... and what can be executed now is promoted.
reset(old, new, ord) ==
    \E p \in {Reinjected(pool, old, new, ord)} : \E q \in {Demoted(p)} :
        pool' = promoteExecutables(q, Account, ord)
-----------------------------------------------------------------------------
(***************************************************************************)
(* The journal.                                                            *)
(***************************************************************************)
\* local: what rotate writes, account by account.
local(p, ord) ==
    LET accounts == InOrder(p.locals, ord)
    IN  FlattenSeq([i \in 1 .. Len(accounts) |->
            Flatten(p.pending[accounts[i]]) \o Flatten(p.queue[accounts[i]])])

rotate(p, ord) == [p EXCEPT !.journal = local(p, ord)]

load(p, txs, ord) == FoldLeft(LAMBDA q, t : addTx(q, t, TRUE, ord), p, txs)

\* A new process: an empty pool on block b takes every entry of the journal
\* by AddLocal and writes the journal again.  Peers are sent what is pending
\* when they connect.
Restarted(p, b, ord) ==
    LET q == rotate(load(NewTxPool(b), p.journal, ord), ord)
    IN  [q EXCEPT !.known = @ \cup p.known]
-----------------------------------------------------------------------------
Init ==
    /\ pool = NewTxPool(Genesis)
    /\ head = Genesis

Room == Len(pool.journal) < MaxJournal

AddLocal ==
    /\ Room
    /\ \E t \in LocalTx, ord \in Orders : pool' = addTx(pool, t, TRUE, ord)
    /\ UNCHANGED head

AddRemotes ==
    /\ Room
    /\ \E txs \in Batches, ord \in Orders :
          pool' = [addTxs(pool, txs, FALSE, ord) EXCEPT !.known = @ \cup ToSet(txs)]
    /\ UNCHANGED head

\* Accounts whose transactions reach the network through this node alone.
OwnAccounts == Account \ {t.from : t \in UNION {ToSet(txs) : txs \in Batches}}

\* A block becomes the head only with a higher number than the last, and can
\* only have transactions that somebody sent.
Heads ==
    {b \in Block : /\ Number[b] > Number[head]
                   /\ {t \in Mined[b] : t.from \in OwnAccounts} \subseteq pool.known}

Reset ==
    \E b \in Heads, ord \in Orders :
        /\ reset(head, b, ord)
        /\ head' = b

\* The state of the new head cannot be opened: reset returns, the loop goes
\* on from the new head all the same.
ResetFails ==
    /\ \E b \in Heads : head' = b
    /\ UNCHANGED pool

\* Cap: the remote transactions below the new limit.
SetGasPrice ==
    /\ \E price \in Prices, ord \in Orders :
          pool' = [removeAll(pool, ByPrice({t \in Remotes(pool) : t.price < price}, ord))
                     EXCEPT !.gasPrice = price]
    /\ UNCHANGED head

\* The heartbeats of the first n accounts are older than Lifetime; an account
\* without one counts as older than any.
Evict ==
    /\ \E n \in 0 .. Len(pool.beats) :
          LET fresh == {pool.beats[i] : i \in n + 1 .. Len(pool.beats)}
              old == {a \in Account : a \notin pool.locals \cup fresh}
          IN  pool' = FoldSet(LAMBDA a, p : removeAll(p, Flatten(p.queue[a])), pool, old)
    /\ UNCHANGED head

Rotate ==
    /\ \E ord \in Orders : pool' = rotate(pool, ord)
    /\ UNCHANGED head

Restart ==
    \E b \in Heads \cup {head}, ord \in Orders :
        /\ pool' = Restarted(pool, b, ord)
        /\ head' = b

Next ==
    \/ AddLocal \/ AddRemotes \/ Reset \/ ResetFails
    \/ SetGasPrice \/ Evict \/ Rotate \/ Restart

Spec == Init /\ [][Next]_tvars
-----------------------------------------------------------------------------
(***************************************************************************)
(* Properties.                                                             *)
(***************************************************************************)
\* The lists hold known transactions of their account, every account has at
\* most one heartbeat.
PoolTypeOK ==
    /\ pool.all \subseteq Tx
    /\ \A a \in Account :
          /\ Listed(pool, a) \subseteq {t \in pool.all : t.from = a}
          /\ pool.nonce[a] \in Nat
    /\ IsInjective(pool.beats)
    /\ pool.cur \in Block /\ head \in Block

\* What the miner and the signer of new transactions rely on: the pending
\* transactions of an account carry the nonces from that of the state on
\* without a gap, every one can be paid and is valid in the state the pool
\* works on, and the next nonce handed out is the one after them.
PendingExecutable ==
    \A a \in Account :
        LET n == StateNonce(pool.cur, a) IN
        /\ {t.nonce : t \in pool.pending[a]} = n .. pool.nonce[a] - 1
        /\ Cardinality(pool.pending[a]) = pool.nonce[a] - n
        /\ \A t \in pool.pending[a] : Payable(t, pool.cur) /\ Valid(t, pool.cur)

\* No transaction waits in the queue that could be executed next, and none is
\* in both lists.
NothingReady ==
    \A a \in Account : \A t \in pool.queue[a] : t.nonce > pool.nonce[a]

\* All of this after every operation; after a reset that had to drop
\* transactions to take back those of the old branch only the types hold.
PoolReady ==
    PoolTypeOK /\ (~pool.crowded => PendingExecutable /\ NothingReady)

\* What equalization promises, for any lengths and limits: only accounts over
\* their allowance that are not local are cut, none below the allowance, all
\* of them to one length that no other account exceeds unless it is local,
\* and not by a round more than the limit asks for.
CutFairly(len, new, locals, slots, own) ==
    LET cut == {a \in Account : new[a] # len[a]}
    IN  /\ \A a \in cut : /\ a \notin locals /\ own <= new[a] /\ new[a] < len[a]
                          /\ \A b \in Account \ locals : new[b] <= new[a]
        /\ cut # {} => Sum(new) + Cardinality(cut) > slots
        /\ Sum(new) > slots => \A a \in Account \ locals : new[a] <= own

EqualizesFairly ==
    \A len \in [Account -> 0 .. 3], locals \in SUBSET Account,
       slots \in 0 .. 5, own \in 1 .. 2, ord \in Orders :
          CutFairly(len, Equalized(len, locals, slots, own, ord), locals, slots, own)

\* Equalization is fair, and it is never missed: after every operation more
\* is pending than GlobalSlots only if no account that is not local has more
\* than the AccountSlots it is guaranteed.
PendingFair ==
    /\ EqualizesFairly
    /\ Total(pool.pending) > GlobalSlots =>
          \A a \in Account \ pool.locals : Cardinality(pool.pending[a]) <= AccountSlots

\* Every pending transaction was announced or came from a peer: none waits
\* here unknown to the nodes that make the next blocks.
PendingKnown == \A a \in Account : pool.pending[a] \subseteq pool.known

\* Why a local transaction may leave the lists: mined, or its nonce used;
\* replaced by one that pays more; no longer payable or valid; or behind one
\* that is no longer valid.
MayLeave(t, p) ==
    \/ t.nonce < StateNonce(p.cur, t.from)
    \/ \E u \in Listed(p, t.from) : u.nonce = t.nonce /\ u.price > t.price
    \/ ~Payable(t, p.cur) \/ ~Valid(t, p.cur)
    \/ \E u \in Listed(pool, t.from) : u.nonce < t.nonce /\ ~Valid(u, p.cur)

\* A restart fills the pool from the journal, account by account, and an
\* account is local again only with its first transaction.
CrowdedOut(t, p) ==
    Cardinality({u \in p.all : u.price >= t.price}) >= GlobalSlots + GlobalQueue

\* Neither prices nor limits nor time lose a transaction that this node took
\* over from a local account: every step keeps it in the lists, or one in its
\* place that pays at least as much.  A restart may lose it only to a pool
\* full of transactions that pay at least as much.
LocalKept ==
    [][\A a \in Account : \A t \in pool.vowed \cap Listed(pool, a) :
          \/ t \in Listed(pool', a) \/ MayLeave(t, pool')
          \/ CrowdedOut(t, pool') /\ Restart]_tvars

\* "Journal of local transactions to survive node restarts": as LocalKept, a
\* restart into a full pool included.  It does not hold.
LocalSurvives ==
    [][\A a \in Account : \A t \in pool.vowed \cap Listed(pool, a) :
          t \in Listed(pool', a) \/ MayLeave(t, pool')]_tvars

\* What validateTxPoolInternals of the tests asserts, "total transaction count
\* != pending + queued": the pool knows no transaction that is in no list.
\* It does when removeTx takes the first pending transaction of an account:
\* the later ones are in no list afterwards.
AllListed == pool.all = UNION {Listed(pool, a) : a \in Account}
=============================================================================
