----------------------------- MODULE BeaconNode -----------------------------
(***************************************************************************)
(* The proposer side of the random beacon, pos/randombeacon/               *)
(* random_beacon.go, on top of the contract: nodes that follow the clock,  *)
(* read the state of the current head, send transactions they never hear   *)
(* of again, keep their polynomials in memory and in the local database,   *)
(* crash and restart; and a chain that includes transactions in any order, *)
(* late, never, or again after a branch was replaced.                      *)
(***************************************************************************)
EXTENDS RandomBeacon, Sequences

CONSTANTS
    Node,           \* the nodes, each an account of Address
    Faults,         \* ids for which generating a payload may fail
    MaxReorg,       \* bound: a replaced branch is at most so many slots long
    MaxCrash,       \* bound on the number of crashes
    NoEpoch         \* rb.epochId before the first loop (maxUint64)

ASSUME NodeAssumption ==
    /\ Node \subseteq Address
    /\ Faults \subseteq Pid
    /\ MaxReorg \in Nat
    /\ MaxCrash \in Nat
    /\ NoEpoch \notin Epochs

\* A confirmation stage is as long as the longest branch that is replaced,
\* SlotSecurityParam of pos/posconfig.
ASSUME ReorgAssumption == MaxReorg <= 2 * K

VARIABLES
    \* the wall clock all nodes share, and the chain's past
    clockEpoch, clockSlot,
    hist,           \* states the chain can fall back to, latest first
    \* a node's memory
    epochId, epochStage, polys, taskTags,
    looped,         \* nodes that have run their loop in this slot
    \* a node's database
    rbPolys,
    \* transactions sent
    sent,
    \* history: polynomials generated for an id, crashes, and the ids whose
    \* node crashed between sending a commitment and storing its polynomial
    gen, crashes, torn

clock == <<clockEpoch, clockSlot>>
memory == <<epochId, epochStage, polys, taskTags>>
nodeVars == <<epochId, epochStage, polys, taskTags, looped, rbPolys, sent,
              gen, crashes, torn>>
nvars == <<vars, clock, hist, nodeVars>>

NoPolys == [p \in Pid |-> None]
-----------------------------------------------------------------------------
(***************************************************************************)
(* The node's loop.                                                        *)
(***************************************************************************)

\* The ids of the proposer group of epoch e that are this node's.
getMyRBProposerId(n, e) == {p \in Pid : e \in GroupEpochs /\ Group[e][p] = n}

\* Deviation: the stored polynomials are not loaded after a restart.
updateEpochIdForgetting(n, e) ==
    IF epochId[n] = e
    THEN [stage |-> epochStage[n], polys |-> polys[n], tags |-> taskTags[n]]
    ELSE [stage |-> RbDkg1Stage, polys |-> NoPolys, tags |-> {}]

\* The memory with which doLoop works on epoch e: that of the last loop or,
\* in a new epoch, a fresh one, with the stored polynomials after a restart.
updateEpochId(n, e) ==
    IF epochId[n] = e
    THEN [stage |-> epochStage[n], polys |-> polys[n], tags |-> taskTags[n]]
    ELSE [stage |-> RbDkg1Stage,
          polys |-> IF epochId[n] = NoEpoch THEN rbPolys[n][e] ELSE NoPolys,
          tags  |-> {}]

\* The stage the node works on: stages that are over, and the confirmation
\* stages, are skipped.
StageReached(stage, rbStage) ==
    LET later == IF stage < rbStage THEN rbStage ELSE stage
    IN  CASE later = RbDkg1ConfirmStage -> RbDkg2Stage
          [] later = RbDkg2ConfirmStage -> RbSignStage
          [] OTHER -> later

\* Deviation: the stage index is simply increased.
StageAfterNext(stage) == IF stage < RbSignConfirmStage THEN stage + 1 ELSE stage

StageAfter(stage) ==
    CASE stage = RbDkg1Stage -> RbDkg2Stage
      [] stage = RbDkg2Stage -> RbSignStage
      [] stage = RbSignStage -> RbSignConfirmStage
      [] stage = RbSignConfirmStage -> RbSignConfirmStage

\* The first and the last slot of a stage, in which nothing is sent.
AtStageEdge(s) ==
    \/ s = 0 \/ GetRBStage(s - 1) # GetRBStage(s)
    \/ GetRBStage(s + 1) # GetRBStage(s)

Tx(type, e, p, n, data) ==
    [type |-> type, epoch |-> e, pid |-> p, from |-> n, data |-> data]

\* What the loop leaves in memory after the work of a stage: the tags of
\* the tasks done, dropped when all are done and the stage is left.
Finish(n, e, stage, ps, tags) ==
    LET all == getMyRBProposerId(n, e) \subseteq tags
    IN  /\ epochId' = [epochId EXCEPT ![n] = e]
        /\ epochStage' = [epochStage EXCEPT ![n] = IF all THEN StageAfter(stage) ELSE stage]
        /\ taskTags' = [taskTags EXCEPT ![n] = IF all THEN {} ELSE tags]
        /\ polys' = [polys EXCEPT ![n] = ps]

\* The loop's state when a node runs it in the present slot.
LoopState(n) ==
    LET e == clockEpoch
        mem == updateEpochId(n, e)
        stage == StageReached(mem.stage, GetRBStage(clockSlot))
    IN  [epoch |-> e, ids |-> getMyRBProposerId(n, e), stage |-> stage, polys |-> mem.polys,
         tags |-> IF stage = mem.stage THEN mem.tags ELSE {},
         works |-> stage = GetRBStage(clockSlot) /\ ~AtStageEdge(clockSlot)]

\* The ids whose payload generation succeeds.
Generated(ids) == {ok \in SUBSET ids : ids \ Faults \subseteq ok}

\* doDKG1s: an id with a polynomial counts as done, whether or not its
\* commitment was ever sent.  For the others a polynomial is drawn, the
\* commitment handed to a goroutine that sends it, and the polynomials are
\* stored afterwards.
doDKG1s(n) ==
    LET l == LoopState(n)
        todo == {p \in l.ids \ l.tags : l.polys[p] = None}
    IN  /\ l.works /\ l.stage = RbDkg1Stage
        /\ \E ok \in Generated(todo) :
              /\ \A p \in ok : gen[p] + 1 \in Poly
              /\ gen' = [p \in Pid |-> IF p \in ok THEN gen[p] + 1 ELSE gen[p]]
              /\ sent' = sent \cup {Tx("dkg1", l.epoch, p, n, gen'[p]) : p \in ok}
              /\ LET ps == [p \in Pid |-> IF p \in ok THEN gen'[p] ELSE l.polys[p]]
                 IN  /\ Finish(n, l.epoch, l.stage, ps, l.ids \ (todo \ ok))
                     /\ rbPolys' = IF ok = {} THEN rbPolys
                                   ELSE [rbPolys EXCEPT ![n][l.epoch] = ps]
        /\ UNCHANGED <<crashes, torn>>

\* doDKG2s: an id whose commitment is not on the chain is given up; one
\* without its polynomial is tried again in the next slot.
doDKG2s(n) ==
    LET l == LoopState(n)
        todo == l.ids \ l.tags
        lacking == {p \in todo : cij[l.epoch][p] = None}
        ready == {p \in todo \ lacking : l.polys[p] # None}
    IN  /\ l.works /\ l.stage = RbDkg2Stage
        /\ \E ok \in Generated(ready) :
              /\ sent' = sent \cup {Tx("dkg2", l.epoch, p, n, l.polys[p]) : p \in ok}
              /\ Finish(n, l.epoch, l.stage, l.polys, l.tags \cup lacking \cup ok)
        /\ UNCHANGED <<rbPolys, gen, crashes, torn>>

\* The share a node computes from the dealings at its head.
generateSIG(e) ==
    LET dealt == {p \in Pid : ens[e][p] # None}
    IN  [key |-> [p \in dealt |-> ens[e][p]], msg |-> GetRBM(e)]

\* Deviation: signing waits for the dealings of the whole group.
EnoughDealtAll(e) == {p \in Pid : ens[e][p] # None} = Pid

\* The dealings at the head are enough to sign.
EnoughDealt(e) == Cardinality({p \in Pid : ens[e][p] # None}) >= RBThres

\* doSIGs: with too few dealings the node gives up signing for the epoch.
doSIGs(n) ==
    LET l == LoopState(n)
        todo == l.ids \ l.tags
    IN  /\ l.works /\ l.stage = RbSignStage
        /\ IF EnoughDealt(l.epoch)
           THEN \E ok \in Generated(todo) :
                   /\ sent' = sent \cup {Tx("sig", l.epoch, p, n, generateSIG(l.epoch)) : p \in ok}
                   /\ Finish(n, l.epoch, l.stage, l.polys, l.tags \cup ok)
           ELSE Finish(n, l.epoch, l.stage, l.polys, l.ids) /\ UNCHANGED sent
        /\ UNCHANGED <<rbPolys, gen, crashes, torn>>

\* Nothing to do in this slot, but the epoch and the stage are followed.  A
\* node that is no proposer only follows the epoch.
doNothing(n) ==
    LET l == LoopState(n)
    IN  /\ ~l.works \/ l.ids = {}
        /\ epochId' = [epochId EXCEPT ![n] = l.epoch]
        /\ epochStage' = [epochStage EXCEPT ![n] = IF l.ids = {} THEN RbDkg1Stage ELSE l.stage]
        /\ taskTags' = [taskTags EXCEPT ![n] = l.tags]
        /\ polys' = [polys EXCEPT ![n] = l.polys]
        /\ UNCHANGED <<rbPolys, sent, gen, crashes, torn>>

\* The loop runs at most once in a slot.
doLoop(n) ==
    /\ n \notin looped
    /\ looped' = looped \cup {n}
    /\ \/ LoopState(n).ids # {} /\ (doDKG1s(n) \/ doDKG2s(n) \/ doSIGs(n))
       \/ doNothing(n)
    /\ UNCHANGED <<vars, clock, hist>>

\* What a crash leaves of a node: Init starts from here.
Restarted(n) ==
    /\ epochId' = [epochId EXCEPT ![n] = NoEpoch]
    /\ epochStage' = [epochStage EXCEPT ![n] = RbDkg1Stage]
    /\ taskTags' = [taskTags EXCEPT ![n] = {}]
    /\ polys' = [polys EXCEPT ![n] = NoPolys]
    /\ looped' = looped \ {n}
    /\ crashes < MaxCrash
    /\ crashes' = crashes + 1

\* A node crashes between two loops, and the goroutines that were to send
\* the transactions in lost do not get to it.
Crash(n, lost) ==
    /\ epochId[n] # NoEpoch
    /\ Restarted(n)
    /\ sent' = sent \ lost
    /\ UNCHANGED <<vars, clock, hist, rbPolys, gen, torn>>

\* A node crashes in doDKG1s: for some ids the polynomials are stored, for
\* one more the commitment is made but the polynomial is not stored.  The
\* commitments of the ids in lost are not sent.
CrashInDKG1(n, lost) ==
    LET l == LoopState(n)
        todo == {p \in l.ids \ l.tags : l.polys[p] = None}
    IN  /\ n \notin looped
        /\ l.works /\ l.stage = RbDkg1Stage
        /\ \E x \in todo : \E stored \in SUBSET (todo \ {x}) :
              /\ \A p \in stored \cup {x} : gen[p] + 1 \in Poly
              /\ gen' = [p \in Pid |-> IF p \in stored \cup {x} THEN gen[p] + 1 ELSE gen[p]]
              /\ sent' = sent \cup {Tx("dkg1", l.epoch, p, n, gen'[p]) : p \in (stored \cup {x}) \ lost}
              /\ rbPolys' = IF stored = {} THEN rbPolys
                            ELSE [rbPolys EXCEPT ![n][l.epoch] =
                                    [p \in Pid |-> IF p \in stored THEN gen'[p] ELSE l.polys[p]]]
              /\ torn' = torn \cup {<<l.epoch, x>>}
        /\ Restarted(n)
        /\ UNCHANGED <<vars, clock, hist>>
-----------------------------------------------------------------------------
(***************************************************************************)
(* The chain.  Its block time lags behind the clock only while a branch is *)
(* being replaced: then the blocks of the new branch are executed one slot *)
(* after the other, with whatever transactions they contain.               *)
(***************************************************************************)
Snapshot == [epoch |-> epoch, slot |-> slot, cij |-> cij, ens |-> ens,
             sig |-> sig, signors |-> signors, R |-> R]

CaughtUp == epoch = clockEpoch /\ slot = clockSlot

\* A transaction is executed in a block of the present block time.  It may
\* be executed again on another branch.
Include(tx) ==
    /\ \/ tx.type = "dkg1" /\ dkg1(tx.epoch, tx.pid, tx.from, tx.data)
       \/ tx.type = "dkg2" /\ dkg2(tx.epoch, tx.pid, tx.from, tx.data)
       \/ tx.type = "sig" /\ sigShare(tx.epoch, tx.pid, tx.from, tx.data)
    /\ UNCHANGED <<clock, hist, nodeVars>>

\* The states before the blocks of the last MaxReorg slots can be returned
\* to.
Remember(h) == SubSeq(h, 1, IF Len(h) < MaxReorg THEN Len(h) ELSE MaxReorg)

\* The next slot begins, for the clock and for the chain.
Tick ==
    /\ CaughtUp
    /\ NextSlot
    /\ clockEpoch' = epoch'
    /\ clockSlot' = slot'
    /\ hist' = Remember(<<Snapshot'>> \o hist)
    /\ looped' = {}
    /\ UNCHANGED <<memory, rbPolys, sent, gen, crashes, torn>>

\* The new branch has a block in a later slot.
CatchUp ==
    /\ ~CaughtUp
    /\ NextSlot
    /\ hist' = Remember(<<Snapshot'>> \o hist)
    /\ UNCHANGED <<clock, nodeVars>>

\* Another branch replaces the blocks of the last slots.
Reorg ==
    /\ CaughtUp
    /\ \E d \in 1 .. Len(hist) :
          LET h == hist[d]
          IN  /\ epoch' = h.epoch /\ slot' = h.slot
              /\ cij' = h.cij /\ ens' = h.ens /\ sig' = h.sig
              /\ signors' = h.signors /\ R' = h.R
              /\ hist' = SubSeq(hist, d, Len(hist))
    /\ UNCHANGED <<clock, nodeVars>>
-----------------------------------------------------------------------------
NInit ==
    /\ Init
    /\ clockEpoch = epoch /\ clockSlot = slot
    /\ hist = <<>>
    /\ epochId = [n \in Node |-> NoEpoch]
    /\ epochStage = [n \in Node |-> RbDkg1Stage]
    /\ polys = [n \in Node |-> NoPolys]
    /\ taskTags = [n \in Node |-> {}]
    /\ looped = {}
    /\ rbPolys = [n \in Node |-> [e \in Epochs |-> NoPolys]]
    /\ sent = {}
    /\ gen = [p \in Pid |-> 0]
    /\ crashes = 0
    /\ torn = {}

\* A transaction that is lost is one that is never included, so here nothing
\* is taken out of sent.
NNext ==
    \/ \E n \in Node : doLoop(n) \/ Crash(n, {}) \/ CrashInDKG1(n, {})
    \/ \E tx \in sent : Include(tx)
    \/ Tick \/ CatchUp \/ Reorg

NSpec == NInit /\ [][NNext]_nvars

(***************************************************************************)
(* A timely network: a slot is long enough for every node to run its loop  *)
(* and for every transaction the chain accepts to be included.  Nodes may  *)
(* still crash at any point, with transactions not yet sent, and restart   *)
(* within the slot.                                                        *)
(***************************************************************************)
Pending(tx) ==
    \/ tx.type = "dkg1" /\ validDkg1(tx.epoch, tx.pid, tx.from, tx.data)
    \/ tx.type = "dkg2" /\ validDkg2(tx.epoch, tx.pid, tx.from, tx.data)
    \/ /\ tx.type = "sig" /\ sig[tx.epoch][tx.pid] = NoShare
       /\ validSigShare(tx.epoch, tx.pid, tx.from, tx.data)

Progress ==
    \/ \E n \in Node : doLoop(n)
    \/ \E tx \in sent : Pending(tx) /\ Include(tx)
    \/ looped = Node /\ (\A tx \in sent : ~Pending(tx)) /\ Tick

TimelyNext ==
    \/ Progress
    \/ \E n \in Node :
          \/ \E lost \in SUBSET {tx \in sent : tx.from = n /\ Pending(tx)} : Crash(n, lost)
          \/ \E lost \in SUBSET LoopState(n).ids : CrashInDKG1(n, lost)

TimelySpec == NInit /\ [][TimelyNext]_nvars /\ WF_nvars(Progress)
-----------------------------------------------------------------------------
(***************************************************************************)
(* Properties.                                                             *)
(***************************************************************************)

\* The memory, database and transactions have the shape the loop expects.
NTypeOK ==
    /\ epochId \in [Node -> Epochs \cup {NoEpoch}]
    /\ epochStage \in [Node -> {RbDkg1Stage, RbDkg2Stage, RbSignStage, RbSignConfirmStage}]
    /\ polys \in [Node -> [Pid -> Poly \cup {None}]]
    /\ taskTags \in [Node -> SUBSET Pid]
    /\ rbPolys \in [Node -> [Epochs -> [Pid -> Poly \cup {None}]]]
    /\ \A tx \in sent : tx.type \in {"dkg1", "dkg2", "sig"} /\ tx.pid \in Pid
    /\ Len(hist) <= MaxReorg

\* A share that a node has sent verifies on every branch the chain can be
\* on: on a branch whose block time has reached the signing stage, the key
\* and the message are those the node read from the head it had when it
\* signed.  The confirmation stages, during which nothing is accepted, are
\* what makes this true while branches of up to 2 * K slots are replaced.
SharesSentVerify ==
    \A tx \in sent :
        tx.type = "sig" /\ epoch = tx.epoch /\ GetRBStage(slot) >= RbSignStage
            => tx.data = GroupSignature(tx.epoch)

\* A dealing that a node has sent fits the commitment on the chain, whatever
\* crashes and replaced branches came between, unless the node crashed
\* between sending a commitment and storing its polynomial.
DealingsFit ==
    \A tx \in {t \in sent : t.type = "dkg2" /\ <<t.epoch, t.pid>> \notin torn} :
        epoch = tx.epoch /\ GetRBStage(slot) >= RbDkg2Stage
            => cij[tx.epoch][tx.pid] = tx.data

\* The nodes' records have their types and what they sent fits the chain.
NodeRecordsFit == NTypeOK /\ DealingsFit

\* Two different commitments for the same id and epoch are sent only after a
\* crash between sending and storing.
OneCommitment ==
    \A t1, t2 \in {t \in sent : t.type = "dkg1" /\ <<t.epoch, t.pid>> \notin torn} :
        t1.epoch = t2.epoch /\ t1.pid = t2.pid => t1 = t2

\* In a timely network the beacon delivers: the next epoch gets its own
\* random number although a node crashes, even between sending a commitment
\* and storing its polynomial or before anything was sent, and although some
\* proposers never show up, as long as the nodes that do not crash have
\* RBThres ids.
BeaconDelivers == <>(R[FirstEpochId + 1] # NoShare)
=============================================================================
