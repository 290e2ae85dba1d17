-------------------------- MODULE SlotLeaderProofs ---------------------------
(***************************************************************************)
(* Proofs about slot leader selection, for every number of nodes and       *)
(* epochs, every leader group and every K.                                 *)
(*                                                                         *)
(* The states the chain is in or can fall back to lie on one line: each is *)
(* a slot after the next, and none is more than MaxReorg slots behind the  *)
(* clock.  So what a stage has settled is the same in all of them once the *)
(* pause after the stage is over by the clock, and a node that reads any   *)
(* of them then reads what the others have.                                *)
(***************************************************************************)
EXTENDS SlotLeaderNode, SequenceTheorems, FiniteSetTheorems, TLAPS

\* Slots counted over the epochs, for the chain and for the clock.
Time(e, s) == e * SlotCount + s
Now == Time(epoch, slot)
Clock == Time(clockEpoch, clockSlot)

\* The state of the chain and the states it can fall back to.
Line(i) == IF i = 0 THEN Snapshot ELSE hist[i]

\* State S is past slot s of epoch e.
Past(S, e, s) == S.epoch > e \/ (S.epoch = e /\ S.slot > s)

\* The last slot in which the random number of the next epoch is delivered.
SignEnd == 10 * K - 1

\* The elements of a sequence.
Elements(h) == {h[i] : i \in 1 .. Len(h)}

\* The places of the states: the chain's is no later than the clock, the
\* earlier ones each a slot behind the next, none more than MaxReorg behind.
Placed ==
    /\ hist \in Seq(Elements(hist)) /\ Len(hist) <= MaxReorg
    /\ clockEpoch \in Epochs /\ clockSlot \in 0 .. SlotCount - 1
    /\ Now <= Clock /\ Len(hist) + Clock <= MaxReorg + Now
    /\ Len(hist) = 0 => Now = Clock
    /\ \A i \in 1 .. Len(hist) : Time(hist[i].epoch, hist[i].slot) + i = Now + 1

\* The time of S is within the bounds of the model.
InTime(S) ==
    /\ S.epoch \in Epochs /\ S.slot \in 0 .. SlotCount - 1
    /\ S.epoch = LastEpochId => S.slot <= LastSlot

\* The types of the contract's state.
SoundState(S) ==
    /\ InTime(S)
    /\ S.stg1 \in [Epochs -> [Index -> Alpha \cup {None}]]
    /\ S.stg2 \in [Epochs -> [Index -> Alpha \cup {None}]]
    /\ S.delivered \subseteq Epochs

\* Every commitment in S was sent by the leader it is stored for.
Committed(S) ==
    \A e \in Epochs, i \in Index :
        S.stg1[e][i] # None =>
            e \in LeaderEpochs /\ Tx("stg1", e, i, Leaders[e][i], S.stg1[e][i]) \in sent

Sound == \A i \in 0 .. Len(hist) : SoundState(Line(i)) /\ Committed(Line(i))

\* A stage that is over is the same in S and T.
SameSettled(S, T) ==
    \A e \in Epochs :
        /\ Past(S, e, Sma2End) => S.stg2[e] = T.stg2[e]
        /\ Past(S, e - 1, SignEnd) => (e \in S.delivered <=> e \in T.delivered)

\* The states of the line agree on what is settled.
LineSettled == \A i \in 0 .. Len(hist) : SameSettled(Line(i), Snapshot)

\* The second-stage data and the random number of a state.
StageTwoAt(S, e) == [i \in {j \in Index : S.stg2[e][j] # None} |-> S.stg2[e][i]]

RandomAt(S, e) == IF e \in S.delivered THEN "own" ELSE "default"

\* An SMA stored for epoch e is the one state S yields for good.
SMAFits(S, e, sma) ==
    sma # None =>
        /\ e - 1 \in Epochs /\ DOMAIN sma # {}
        /\ Past(S, e - 1, Sma2End) /\ sma = StageTwoAt(S, e - 1)

\* A random number cached for epoch e is the one of S for good.
RandomFits(S, e, r) == r # None => Past(S, e - 1, SignEnd) /\ r = RandomAt(S, e)

\* What a node has stored and cached fits every branch.
Reads ==
    \A n \in Node, e \in Epochs : \A i \in 0 .. Len(hist) :
        /\ SMAFits(Line(i), e, securityMsg[n][e])
        /\ <<n, e>> \notin askedEarly => RandomFits(Line(i), e, RndCache[n][e])

\* The types of a node's records.
SMAs == UNION {[D -> Alpha] : D \in SUBSET Index}

Types ==
    /\ workingEpoch \in [Node -> 0 .. LastEpochId]
    /\ workStage \in [Node -> [Epochs -> Stages]]
    /\ alpha \in [Node -> [Epochs -> [Index -> Alpha \cup {None}]]]
    /\ securityMsg \in [Node -> [Epochs -> SMAs \cup {None}]]
    /\ leadersOf \in [Node -> LeaderEpochs \cup {0}]
    /\ errorRetry \in [Node -> 0 .. MaxRetry]
    /\ RndCache \in [Node -> [Epochs -> Randoms \cup {None}]]

\* The leaders in memory are those of the working epoch.  A node that has a
\* number for the epoch of the clock is past the first stage, unless it
\* crashed there.
Works(n) ==
    /\ leadersOf[n] \in {0, workingEpoch[n]} /\ workingEpoch[n] <= clockEpoch
    /\ \A e \in Epochs, i \in Index :
          alpha[n][e][i] # None =>
              /\ e <= workingEpoch[n]
              /\ e = clockEpoch /\ <<e, i>> \notin torn => workStage[n][e] \notin {"init", "stage1"}

\* A transaction is that of a leader of its epoch and carries the number the
\* leader has stored.
Carries(tx) ==
    /\ tx = Tx(tx.type, tx.epoch, tx.index, tx.from, tx.data)
    /\ tx.type \in {"stg1", "stg2"} /\ tx.epoch \in LeaderEpochs /\ tx.index \in Index
    /\ tx.from \in Node /\ tx.from = Leaders[tx.epoch][tx.index]
    /\ tx.data \in Alpha
    /\ <<tx.epoch, tx.index>> \notin torn => alpha[tx.from][tx.epoch][tx.index] = tx.data

Records == (\A n \in Node : Works(n)) /\ (\A tx \in sent : Carries(tx))

\* The inductive invariant.
SIInv == Types /\ Placed /\ Sound /\ LineSettled /\ Reads /\ Records

\* The stages of an epoch in slots.
LEMMA StageNumbers ==
    /\ K \in Nat \ {0} /\ SlotCount \in Nat \ {0} /\ SlotCount = 12 * K
    /\ Sma2End \in Nat /\ SignEnd \in Nat /\ Sma2End = 8 * K /\ SignEnd = 10 * K - 1
    /\ Sma2End < SlotCount /\ SignEnd < SlotCount
    /\ \A e \in Epochs : e \in Nat /\ e - 1 \in Nat /\ e >= 1
    /\ MaxReorg \in Nat /\ MaxReorg <= 2 * K
BY SlotLeaderAssumption, SlotNodeAssumption, ReorgAssumption
   DEF SlotCount, Sma2End, SignEnd, Epochs

\* Times are ordered by epoch and slot.
LEMMA TimeOrder ==
    ASSUME NEW e \in Nat, NEW s \in 0 .. SlotCount - 1,
           NEW f \in Nat, NEW t \in 0 .. SlotCount - 1, Time(e, s) <= Time(f, t)
    PROVE  e < f \/ (e = f /\ s <= t)
<1> DEFINE L == SlotCount
<1>1. L \in Nat \ {0}
  BY StageNumbers
<1>2. e * L \in Nat /\ f * L \in Nat /\ e * L + s <= f * L + t /\ s \in Nat /\ t \in Nat /\ t < L
  BY <1>1 DEF Time
<1> HIDE DEF L
<1>3. CASE f < e
  <2>1. (f + 1) * L <= e * L
    <3>1. e - (f + 1) \in Nat
      BY <1>3
    <3>2. (e - (f + 1)) * L \in Nat
      BY <3>1, <1>1
    <3>3. (e - (f + 1)) * L = e * L - (f + 1) * L
      BY <1>1
    <3>4. (f + 1) * L \in Nat
      BY <1>1
    <3> QED
      BY <3>2, <3>3, <3>4, <1>2
  <2>2. (f + 1) * L = f * L + L
    BY <1>1
  <2> QED
    BY <1>1, <1>2, <2>1, <2>2
<1>4. CASE e = f
  BY <1>2, <1>4
<1> QED
  BY <1>3, <1>4

\* A time is a number.
LEMMA TimeNat ==
    ASSUME NEW e \in Nat, NEW s \in 0 .. SlotCount - 1
    PROVE  Time(e, s) \in Nat
BY StageNumbers DEF Time

\* S is no later than T.
NotAfter(S, T) == S.epoch < T.epoch \/ (S.epoch = T.epoch /\ S.slot <= T.slot)

\* T is a state after S in which what is settled in S is the same.
Later(S, T) == NotAfter(S, T) /\ SameSettled(S, T)

\* What is past stays so.
LEMMA PastStays ==
    ASSUME NEW S, NEW T, InTime(S), InTime(T), NotAfter(S, T), NEW e \in Nat, NEW s \in Nat,
           Past(S, e, s)
    PROVE  Past(T, e, s)
BY StageNumbers DEF InTime, NotAfter, Past

\* Every state is later than itself.
LEMMA LaterSelf ==
    ASSUME NEW S, InTime(S)
    PROVE  Later(S, S)
BY StageNumbers DEF Later, NotAfter, SameSettled, InTime

\* Being later is transitive.
LEMMA LaterTransitive ==
    ASSUME NEW S, NEW T, NEW U, InTime(S), InTime(T), InTime(U), Later(S, T), Later(T, U)
    PROVE  Later(S, U)
<1>1. NotAfter(S, U)
  BY StageNumbers DEF InTime, Later, NotAfter
<1>2. ASSUME NEW e \in Epochs
      PROVE  /\ Past(S, e, Sma2End) => S.stg2[e] = U.stg2[e]
             /\ Past(S, e - 1, SignEnd) => (e \in S.delivered <=> e \in U.delivered)
  <2>1. Past(S, e, Sma2End) => Past(T, e, Sma2End)
    BY PastStays, StageNumbers DEF Later
  <2>2. Past(S, e - 1, SignEnd) => Past(T, e - 1, SignEnd)
    BY PastStays, StageNumbers DEF Later
  <2> QED
    BY <2>1, <2>2 DEF Later, SameSettled
<1> QED
  BY <1>1, <1>2 DEF Later, SameSettled

\* Of two states that are settled as a third, the later is settled as the
\* earlier.
LEMMA LaterOfTwo ==
    ASSUME NEW S, NEW T, NEW U, InTime(S), InTime(T), NotAfter(S, T),
           SameSettled(S, U), SameSettled(T, U)
    PROVE  Later(S, T)
<1>1. ASSUME NEW e \in Epochs
      PROVE  /\ Past(S, e, Sma2End) => S.stg2[e] = T.stg2[e]
             /\ Past(S, e - 1, SignEnd) => (e \in S.delivered <=> e \in T.delivered)
  <2>1. Past(S, e, Sma2End) => Past(T, e, Sma2End)
    BY PastStays, StageNumbers
  <2>2. Past(S, e - 1, SignEnd) => Past(T, e - 1, SignEnd)
    BY PastStays, StageNumbers
  <2> QED
    BY <2>1, <2>2 DEF SameSettled
<1> QED
  BY <1>1 DEF Later, SameSettled

\* What fits a state fits every later one.
LEMMA LaterFits ==
    ASSUME NEW S, NEW T, InTime(S), InTime(T), Later(S, T), NEW e \in Epochs
    PROVE  /\ \A sma : SMAFits(S, e, sma) => SMAFits(T, e, sma)
           /\ \A r : RandomFits(S, e, r) => RandomFits(T, e, r)
<1>1. e - 1 \in Nat /\ Sma2End \in Nat /\ SignEnd \in Nat /\ SameSettled(S, T) /\ NotAfter(S, T)
  BY StageNumbers DEF Later
<1>2. ASSUME NEW sma, SMAFits(S, e, sma), sma # None PROVE SMAFits(T, e, sma)
  <2>1. /\ e - 1 \in Epochs /\ DOMAIN sma # {}
        /\ Past(S, e - 1, Sma2End) /\ sma = StageTwoAt(S, e - 1)
    BY <1>2 DEF SMAFits
  <2>2. S.stg2[e - 1] = T.stg2[e - 1]
    BY <1>1, <2>1 DEF SameSettled
  <2>3. Past(T, e - 1, Sma2End)
    BY <1>1, <2>1, PastStays
  <2>4. StageTwoAt(S, e - 1) = StageTwoAt(T, e - 1)
    BY <2>2 DEF StageTwoAt
  <2> QED
    BY <2>1, <2>3, <2>4 DEF SMAFits
<1>3. ASSUME NEW r, RandomFits(S, e, r), r # None PROVE RandomFits(T, e, r)
  <2>1. Past(S, e - 1, SignEnd) /\ r = RandomAt(S, e)
    BY <1>3 DEF RandomFits
  <2>2. RandomAt(S, e) = RandomAt(T, e)
    BY <1>1, <2>1 DEF SameSettled, RandomAt
  <2> QED
    BY <1>1, <2>1, <2>2, PastStays DEF RandomFits
<1> QED
  BY <1>2, <1>3 DEF SMAFits, RandomFits

\* The fields of the chain's state, before and after a step.
LEMMA SnapshotIs ==
    /\ Snapshot.epoch = epoch /\ Snapshot.slot = slot /\ Snapshot.stg1 = stg1
    /\ Snapshot.stg2 = stg2 /\ Snapshot.delivered = delivered
    /\ Snapshot'.epoch = epoch' /\ Snapshot'.slot = slot' /\ Snapshot'.stg1 = stg1'
    /\ Snapshot'.stg2 = stg2' /\ Snapshot'.delivered = delivered'
BY DEF Snapshot

\* The line of states is sound, and the chain's state is its latest.
LEMMA LineRight ==
    ASSUME SIInv
    PROVE  /\ Len(hist) \in Nat
           /\ \A i \in 0 .. Len(hist) :
                 /\ SoundState(Line(i)) /\ InTime(Line(i)) /\ Committed(Line(i))
                 /\ Time(Line(i).epoch, Line(i).slot) \in Nat
                 /\ Time(Line(i).epoch, Line(i).slot) <= Now
                 /\ Later(Line(i), Snapshot)
           /\ Now \in Nat /\ Clock \in Nat /\ SoundState(Snapshot) /\ InTime(Snapshot)
<1>1. Len(hist) \in Nat
  BY LenProperties DEF SIInv, Placed
<1>2. \A i \in 0 .. Len(hist) : SoundState(Line(i)) /\ InTime(Line(i)) /\ Committed(Line(i))
  BY DEF SIInv, Sound, SoundState
<1>3. SoundState(Snapshot) /\ InTime(Snapshot)
  BY <1>1, <1>2 DEF Line
<1>4. Now \in Nat /\ Clock \in Nat
  BY <1>3, TimeNat, SnapshotIs, StageNumbers DEF InTime, Now, Clock, SIInv, Placed
<1>5. ASSUME NEW i \in 0 .. Len(hist)
      PROVE  /\ Time(Line(i).epoch, Line(i).slot) \in Nat
             /\ Time(Line(i).epoch, Line(i).slot) <= Now /\ Later(Line(i), Snapshot)
  <2>0. InTime(Line(i)) /\ Time(Line(i).epoch, Line(i).slot) \in Nat
    BY <1>2, TimeNat, StageNumbers DEF InTime
  <2>1. Time(Line(i).epoch, Line(i).slot) <= Now
    <3>1. CASE i = 0
      BY <1>4, <3>1, SnapshotIs DEF Line, Now
    <3>2. CASE i # 0
      <4>1. i \in 1 .. Len(hist) /\ Line(i) = hist[i]
        BY <1>1, <3>2 DEF Line
      <4>2. Time(hist[i].epoch, hist[i].slot) + i = Now + 1
        BY <4>1 DEF SIInv, Placed
      <4> QED
        BY <1>1, <1>4, <2>0, <4>1, <4>2
    <3> QED
      BY <3>1, <3>2
  <2>3. NotAfter(Line(i), Snapshot)
    BY <1>3, <2>0, <2>1, TimeOrder, SnapshotIs, StageNumbers DEF InTime, Now, NotAfter
  <2> QED
    BY <2>0, <2>1, <2>3 DEF Later, SIInv, LineSettled
<1> QED
  BY <1>1, <1>2, <1>3, <1>4, <1>5

\* After a step of the chain alone the line consists of its new state, which
\* follows an old one, and of old states.
LEMMA LineMoves ==
    ASSUME SIInv, UNCHANGED <<sent, securityMsg, RndCache, askedEarly>>,
           NEW m \in Nat, Len(hist') = m,
           SoundState(Snapshot'), Committed(Snapshot'),
           NEW k \in 0 .. Len(hist), Later(Line(k), Snapshot'),
           \A i \in 1 .. m : \/ Line(i)' = Snapshot'
                             \/ \E j \in 0 .. Len(hist) : Line(i)' = Line(j) /\ Later(Line(j), Snapshot')
    PROVE  Sound' /\ LineSettled' /\ Reads'
<1>0. Line(0)' = Snapshot' /\ InTime(Snapshot')
  BY DEF Line, SoundState, InTime
<1>1. ASSUME NEW i \in 0 .. m
      PROVE  /\ SoundState(Line(i)') /\ Committed(Line(i)') /\ InTime(Line(i)')
             /\ SameSettled(Line(i)', Snapshot')
             /\ \E j \in 0 .. Len(hist) : InTime(Line(j)) /\ Later(Line(j), Line(i)')
  <2>1. CASE Line(i)' = Snapshot'
    <3>1. SameSettled(Snapshot', Snapshot')
      BY DEF SameSettled
    <3> QED
      BY <1>0, <2>1, <3>1, LineRight
  <2>2. CASE Line(i)' # Snapshot'
    <3>1. i \in 1 .. m
      BY <1>0, <2>2
    <3>2. PICK j \in 0 .. Len(hist) : Line(i)' = Line(j) /\ Later(Line(j), Snapshot')
      BY <2>2, <3>1
    <3>3. SoundState(Line(j)) /\ Committed(Line(j)) /\ InTime(Line(j)) /\ Later(Line(j), Line(j))
      BY LineRight, LaterSelf
    <3> QED
      BY <3>2, <3>3 DEF Later
  <2> QED
    BY <2>1, <2>2
<1>2. Sound'
  <2>1. ASSUME NEW i \in 0 .. m PROVE SoundState(Line(i))' /\ Committed(Line(i))'
    BY <1>1 DEF SoundState, Committed
  <2> QED
    BY <2>1 DEF Sound
<1>3. LineSettled'
  <2>1. ASSUME NEW i \in 0 .. m PROVE SameSettled(Line(i), Snapshot)'
    BY <1>1 DEF SameSettled, Past
  <2> QED
    BY <2>1 DEF LineSettled
<1>4. Reads'
  <2>1. ASSUME NEW n \in Node, NEW e \in Epochs, NEW i \in 0 .. m
        PROVE  /\ SMAFits(Line(i)', e, securityMsg[n][e])
               /\ <<n, e>> \notin askedEarly => RandomFits(Line(i)', e, RndCache[n][e])
    <3>1. PICK j \in 0 .. Len(hist) : InTime(Line(j)) /\ Later(Line(j), Line(i)')
      BY <1>1
    <3>2. /\ SMAFits(Line(j), e, securityMsg[n][e])
          /\ <<n, e>> \notin askedEarly => RandomFits(Line(j), e, RndCache[n][e])
      BY DEF SIInv, Reads
    <3> QED
      BY <1>1, <3>1, <3>2, LaterFits
  <2>2. ASSUME NEW n \in Node, NEW e \in Epochs, NEW i \in 0 .. m
        PROVE  (/\ SMAFits(Line(i), e, securityMsg[n][e])
                /\ <<n, e>> \notin askedEarly => RandomFits(Line(i), e, RndCache[n][e]))'
    BY <2>1 DEF SMAFits, RandomFits, Past, StageTwoAt, RandomAt
  <2> QED
    BY <2>2 DEF Reads
<1> QED
  BY <1>2, <1>3, <1>4

\* The nodes' records, which a step of the chain leaves alone.
LEMMA RecordsStay ==
    ASSUME SIInv, UNCHANGED <<workingEpoch, workStage, alpha, securityMsg, leadersOf, errorRetry,
                              RndCache, sent, torn>>,
           clockEpoch' \in Epochs, clockEpoch <= clockEpoch'
    PROVE  Types' /\ Records'
<1>1. Types'
  BY DEF SIInv, Types
<1>2. ASSUME NEW n \in Node PROVE Works(n)'
  <2>1. Works(n) /\ workingEpoch[n] \in Nat /\ clockEpoch \in Nat /\ clockEpoch' \in Nat
    BY StageNumbers, SlotLeaderAssumption DEF SIInv, Records, Types, Placed
  <2>2. workingEpoch[n] <= clockEpoch'
    BY <2>1 DEF Works
  <2>3. ASSUME NEW e \in Epochs, NEW i \in Index, alpha[n][e][i] # None, e = clockEpoch',
               <<e, i>> \notin torn
        PROVE  workStage[n][e] \notin {"init", "stage1"}
    <3>1. e <= workingEpoch[n] /\ workingEpoch[n] <= clockEpoch
      BY <2>1, <2>3 DEF Works
    <3>2. e = clockEpoch
      BY <2>1, <2>3, <3>1
    <3> QED
      BY <2>1, <2>3, <3>2 DEF Works
  <2> QED
    BY <2>1, <2>2, <2>3 DEF Works
<1>3. ASSUME NEW tx \in sent PROVE Carries(tx)'
  BY DEF SIInv, Records, Carries
<1> QED
  BY <1>1, <1>2, <1>3 DEF Records

\* A step within a slot of the chain keeps the invariant when the state
\* stays sound and what is settled the same.
LEMMA WithinSlot ==
    ASSUME SIInv, UNCHANGED <<epoch, slot, clock, hist, nodeVars>>,
           SoundState(Snapshot'), Committed(Snapshot'), SameSettled(Snapshot, Snapshot')
    PROVE  SIInv'
<1>1. UNCHANGED <<workingEpoch, workStage, alpha, securityMsg, leadersOf, errorRetry,
                  RndCache, sent, torn, askedEarly, clockEpoch, clockSlot, hist, epoch, slot>>
  BY DEF nodeVars, database, memory, history, clock
<1>2. Placed'
  BY <1>1 DEF SIInv, Placed, Now, Clock, Time, Elements
<1>3. Types' /\ Records'
  <2>1. clockEpoch' \in Epochs /\ clockEpoch <= clockEpoch'
    BY <1>1, StageNumbers DEF SIInv, Placed
  <2> QED
    BY <1>1, <2>1, RecordsStay
<1>4. InTime(Snapshot) /\ InTime(Snapshot') /\ Len(hist) \in Nat /\ Line(0) = Snapshot
  BY LineRight DEF Line, SoundState, InTime
<1>5. Later(Snapshot, Snapshot')
  BY <1>1, <1>4, SnapshotIs, StageNumbers DEF Later, NotAfter, InTime
<1>6. ASSUME NEW i \in 1 .. Len(hist) PROVE Line(i)' = Line(i) /\ Later(Line(i), Snapshot')
  <2>1. Line(i)' = Line(i)
    BY <1>1, <1>4 DEF Line
  <2>2. Later(Line(i), Snapshot) /\ InTime(Line(i))
    BY LineRight
  <2> QED
    BY <1>4, <1>5, <2>1, <2>2, LaterTransitive
<1>7. Len(hist') = Len(hist) /\ 0 \in 0 .. Len(hist)
  BY <1>1, <1>4
<1>8. Sound' /\ LineSettled' /\ Reads'
  BY <1>1, <1>4, <1>5, <1>6, <1>7, LineMoves
<1> QED
  BY <1>2, <1>3, <1>8 DEF SIInv

\* A transaction in a block keeps the invariant.
LEMMA IncludeStep == ASSUME SIInv, NEW tx \in sent, Include(tx) PROVE SIInv'
<1>1. Carries(tx) /\ UNCHANGED <<delivered, clock, hist, nodeVars>>
  BY DEF SIInv, Records, Include
<1>2. UNCHANGED <<epoch, slot>>
  BY DEF Include, handleStgOne, handleStgTwo
<1>3. /\ SoundState(Snapshot) /\ Committed(Snapshot) /\ tx.epoch \in Epochs /\ tx.index \in Index
      /\ epoch \in Epochs /\ slot \in 0 .. SlotCount - 1
  <2>1. Committed(Line(0)) /\ Line(0) = Snapshot
    BY LineRight DEF Line
  <2> QED
    BY <1>1, <2>1, LineRight, SnapshotIs, SlotLeaderAssumption DEF Carries, InTime
<1>4. CASE tx.type = "stg1" /\ handleStgOne(tx.epoch, tx.index, tx.from, tx.data)
  <2>1. /\ stg1' = [stg1 EXCEPT ![tx.epoch][tx.index] = tx.data]
        /\ stg2' = stg2 /\ delivered' = delivered
    BY <1>1, <1>4 DEF handleStgOne
  <2>2. SoundState(Snapshot')
    BY <1>1, <1>2, <1>3, <2>1, SnapshotIs DEF SoundState, InTime, Carries
  <2>3. Committed(Snapshot')
    <3>1. ASSUME NEW e \in Epochs, NEW i \in Index, stg1'[e][i] # None
          PROVE  e \in LeaderEpochs /\ Tx("stg1", e, i, Leaders[e][i], stg1'[e][i]) \in sent
      <4>1. CASE e = tx.epoch /\ i = tx.index
        <5>1. stg1'[e][i] = tx.data
          BY <1>3, <2>1, <4>1, SnapshotIs DEF SoundState
        <5>2. Tx("stg1", e, i, Leaders[e][i], stg1'[e][i]) = tx
          BY <1>1, <1>4, <4>1, <5>1 DEF Carries
        <5> QED
          BY <1>1, <4>1, <5>2 DEF Carries
      <4>2. CASE ~(e = tx.epoch /\ i = tx.index)
        <5>1. stg1'[e][i] = stg1[e][i]
          BY <1>3, <2>1, <4>2, SnapshotIs DEF SoundState
        <5> QED
          BY <1>3, <3>1, <5>1, SnapshotIs DEF Committed
      <4> QED
        BY <4>1, <4>2
    <3> QED
      BY <3>1, SnapshotIs DEF Committed
  <2>4. SameSettled(Snapshot, Snapshot')
    BY <2>1, SnapshotIs DEF SameSettled
  <2> QED
    BY <1>1, <1>2, <2>2, <2>3, <2>4, WithinSlot
<1>5. CASE tx.type = "stg2" /\ handleStgTwo(tx.epoch, tx.index, tx.from, tx.data)
  <2>1. /\ stg2' = [stg2 EXCEPT ![tx.epoch][tx.index] = tx.data]
        /\ stg1' = stg1 /\ delivered' = delivered
        /\ tx.epoch = epoch /\ slot <= Sma2End
    BY <1>1, <1>5 DEF handleStgTwo, validStg2, isInValidStage
  <2>2. SoundState(Snapshot')
    BY <1>1, <1>2, <1>3, <2>1, SnapshotIs DEF SoundState, InTime, Carries
  <2>3. Committed(Snapshot')
    BY <1>3, <2>1, SnapshotIs DEF Committed
  <2>4. ASSUME NEW e \in Epochs, Past(Snapshot, e, Sma2End) PROVE stg2'[e] = stg2[e]
    <3>1. e # tx.epoch
      BY <1>3, <2>1, <2>4, SnapshotIs, StageNumbers DEF Past
    <3> QED
      BY <1>3, <2>1, <3>1, SnapshotIs DEF SoundState
  <2>5. SameSettled(Snapshot, Snapshot')
    BY <2>1, <2>4, SnapshotIs DEF SameSettled
  <2> QED
    BY <1>1, <1>2, <2>2, <2>3, <2>5, WithinSlot
<1> QED
  BY <1>4, <1>5 DEF Include

\* The delivery of a random number keeps the invariant.
LEMMA DeliverStep == ASSUME SIInv, DeliverRandom PROVE SIInv'
<1>1. /\ UNCHANGED <<epoch, slot, stg1, stg2, clock, hist, nodeVars>>
      /\ slot \in 8 * K + 1 .. 10 * K - 1 /\ epoch + 1 \in Epochs
      /\ delivered' = delivered \cup {epoch + 1}
  BY DEF DeliverRandom, slvars
<1>2. SoundState(Snapshot) /\ Committed(Snapshot) /\ epoch \in Epochs /\ slot \in 0 .. SlotCount - 1
  <2>1. Committed(Line(0)) /\ Line(0) = Snapshot
    BY LineRight DEF Line
  <2> QED
    BY <2>1, LineRight, SnapshotIs DEF InTime
<1>3. SoundState(Snapshot') /\ Committed(Snapshot')
  BY <1>1, <1>2, SnapshotIs DEF SoundState, InTime, Committed
<1>4. ASSUME NEW e \in Epochs, Past(Snapshot, e - 1, SignEnd) PROVE e # epoch + 1
  BY <1>1, <1>2, <1>4, SnapshotIs, StageNumbers DEF Past
<1>5. SameSettled(Snapshot, Snapshot')
  BY <1>1, <1>4, SnapshotIs DEF SameSettled
<1> QED
  BY <1>1, <1>3, <1>5, WithinSlot

\* A sequence is one of its own elements.
LEMMA OwnElements ==
    ASSUME NEW T, NEW r \in Seq(T)
    PROVE  r \in Seq(Elements(r))
<1>1. Len(r) \in Nat /\ r \in [1 .. Len(r) -> T]
  BY LenProperties
<1>2. r \in [1 .. Len(r) -> Elements(r)]
  BY <1>1 DEF Elements
<1> QED
  BY <1>1, <1>2, SeqDef

\* The sequence of states after a slot.
LEMMA Remembered ==
    ASSUME NEW x, NEW h, h \in Seq(Elements(h)), NEW r, r = Remember(<<x>> \o h)
    PROVE  /\ Len(h) \in Nat /\ Len(r) \in Nat /\ r \in Seq(Elements(r))
           /\ Len(r) = IF Len(h) + 1 < MaxReorg THEN Len(h) + 1 ELSE MaxReorg
           /\ \A i \in 1 .. Len(r) : r[i] = IF i = 1 THEN x ELSE h[i - 1]
<1> DEFINE T == Elements(h) \cup {x}
           a == <<x>> \o h
           n == IF Len(a) < MaxReorg THEN Len(a) ELSE MaxReorg
<1>1. h \in Seq(T) /\ <<x>> \in Seq(T) /\ Len(h) \in Nat
  BY SeqMonotonic, LenProperties
<1>2. /\ a \in Seq(T) /\ Len(a) = Len(h) + 1
      /\ \A i \in 1 .. Len(h) + 1 : a[i] = IF i = 1 THEN x ELSE h[i - 1]
  <2> HIDE DEF T
  <2>1. /\ a \in Seq(T) /\ Len(a) = Len(<<x>>) + Len(h)
        /\ \A i \in 1 .. Len(<<x>>) + Len(h) :
              a[i] = IF i <= Len(<<x>>) THEN <<x>>[i] ELSE h[i - Len(<<x>>)]
    BY <1>1, ConcatProperties
  <2>2. Len(<<x>>) = 1 /\ <<x>>[1] = x
    OBVIOUS
  <2> QED
    BY <1>1, <2>1, <2>2
<1> HIDE DEF T, a
<1>3. n \in Nat /\ n <= Len(h) + 1 /\ r = SubSeq(a, 1, n)
  BY <1>1, <1>2, StageNumbers DEF Remember, a
<1>3a. n = IF Len(h) + 1 < MaxReorg THEN Len(h) + 1 ELSE MaxReorg
  BY <1>2
<1> HIDE DEF n
<1>4. \A i \in 1 .. n : a[i] \in T
  BY <1>1, <1>2, <1>3, ElementOfSeq
<1>5. /\ r \in Seq(T) /\ Len(r) = IF 1 <= n THEN n - 1 + 1 ELSE 0
      /\ \A i \in 1 .. n - 1 + 1 : r[i] = a[1 + i - 1]
  BY <1>3, <1>4, SubSeqProperties
<1>6. Len(r) = n /\ \A i \in 1 .. n : r[i] = a[i]
  BY <1>3, <1>5
<1>8. r \in Seq(Elements(r))
  BY <1>5, OwnElements
<1>9. ASSUME NEW i \in 1 .. Len(r) PROVE r[i] = IF i = 1 THEN x ELSE h[i - 1]
  <2>1. i \in 1 .. n /\ i \in 1 .. Len(h) + 1
    BY <1>1, <1>3, <1>6
  <2> QED
    BY <1>2, <1>6, <2>1
<1>10. Len(h) \in Nat /\ Len(r) \in Nat
       /\ Len(r) = IF Len(h) + 1 < MaxReorg THEN Len(h) + 1 ELSE MaxReorg
  BY <1>1, <1>3, <1>3a, <1>6
<1> QED
  BY <1>8, <1>9, <1>10

\* The next slot is one step of time.
LEMMA NextTime ==
    ASSUME InTime(Snapshot), NextSlot
    PROVE  Now' = Now + 1 /\ NotAfter(Snapshot, Snapshot') /\ InTime(Snapshot')
<1>1. /\ epoch \in Epochs /\ epoch \in Nat /\ slot \in 0 .. SlotCount - 1 /\ slot \in Nat
      /\ SlotCount \in Nat \ {0}
  BY StageNumbers, SnapshotIs DEF InTime
<1>2. /\ LastSlot \in Nat /\ LastSlot < SlotCount /\ LastEpochId \in Nat /\ epoch <= LastEpochId
      /\ epoch = LastEpochId => slot < LastSlot
  BY <1>1, SlotLeaderAssumption, SnapshotIs, StageNumbers DEF InTime, NextSlot, Epochs
<1>3. CASE slot + 1 < SlotCount
  <2>1. slot' = slot + 1 /\ epoch' = epoch /\ epoch * SlotCount \in Nat
    BY <1>1, <1>3 DEF NextSlot
  <2> QED
    BY <1>1, <1>2, <1>3, <2>1, SnapshotIs DEF Now, Time, NotAfter, InTime
<1>4. CASE ~(slot + 1 < SlotCount)
  <2>1. slot' = 0 /\ epoch' = epoch + 1 /\ slot = SlotCount - 1
    BY <1>1, <1>4 DEF NextSlot
  <2>2. epoch + 1 \in Epochs
    BY <1>1, <1>2, <2>1 DEF Epochs
  <2>3. (epoch + 1) * SlotCount = epoch * SlotCount + SlotCount /\ epoch * SlotCount \in Nat
    BY <1>1
  <2> QED
    BY <1>1, <1>2, <2>1, <2>2, <2>3, SnapshotIs DEF Now, Time, NotAfter, InTime
<1> QED
  BY <1>3, <1>4

\* The next slot of the chain, on the branch it has or on a new one, keeps
\* the invariant.
LEMMA AdvanceStep == ASSUME SIInv, Tick \/ CatchUp PROVE SIInv'
<1>1. /\ NextSlot /\ hist' = Remember(<<Snapshot'>> \o hist)
      /\ UNCHANGED <<delivered, workingEpoch, workStage, alpha, securityMsg, leadersOf, errorRetry,
                     RndCache, sent, torn, askedEarly>>
  BY DEF Tick, CatchUp, nodeVars, database, memory, history
<1>2. /\ Now' = Now + 1 /\ NotAfter(Snapshot, Snapshot') /\ InTime(Snapshot')
      /\ Now' \in Nat /\ Now \in Nat
  BY <1>1, LineRight, NextTime
<1>3. UNCHANGED <<stg1, stg2>>
  BY <1>1 DEF NextSlot
<1>4. hist \in Seq(Elements(hist))
  BY DEF SIInv, Placed
<1> DEFINE m == Len(hist')
<1>5. /\ Len(hist) \in Nat /\ m \in Nat /\ hist' \in Seq(Elements(hist'))
      /\ m = IF Len(hist) + 1 < MaxReorg THEN Len(hist) + 1 ELSE MaxReorg
      /\ \A i \in 1 .. m : hist'[i] = IF i = 1 THEN Snapshot' ELSE hist[i - 1]
  BY <1>1, <1>4, Remembered
<1> HIDE DEF m
<1>6. /\ clockEpoch \in Epochs /\ clockSlot \in 0 .. SlotCount - 1 /\ Now <= Clock
      /\ Len(hist) + Clock <= MaxReorg + Now /\ MaxReorg \in Nat /\ Clock \in Nat
      /\ Len(hist) <= MaxReorg /\ (Len(hist) = 0 => Now = Clock)
      /\ m <= Len(hist) + 1 /\ m <= MaxReorg
  BY <1>5, LineRight, StageNumbers DEF SIInv, Placed
<1>7. /\ SoundState(Snapshot') /\ Committed(Snapshot') /\ Later(Snapshot, Snapshot')
      /\ Line(0) = Snapshot /\ InTime(Snapshot)
  <2>1. SoundState(Snapshot) /\ Committed(Snapshot) /\ Line(0) = Snapshot /\ InTime(Snapshot)
    BY LineRight DEF Line
  <2> QED
    BY <1>1, <1>2, <1>3, <2>1, SnapshotIs DEF SoundState, Committed, Later, SameSettled
<1>8. ASSUME NEW i \in 1 .. m
      PROVE  \/ Line(i)' = Snapshot'
             \/ \E j \in 0 .. Len(hist) : Line(i)' = Line(j) /\ Later(Line(j), Snapshot')
  <2>1. CASE i = 1
    BY <1>5, <2>1 DEF Line
  <2>2. CASE i # 1
    <3>1. i - 1 \in 1 .. Len(hist) /\ i - 1 \in 0 .. Len(hist) /\ hist'[i] = hist[i - 1]
      BY <1>5, <1>6, <2>2
    <3>2. Line(i)' = Line(i - 1)
      BY <1>5, <3>1 DEF Line
    <3>3. Later(Line(i - 1), Snapshot')
      BY <1>2, <1>7, <3>1, LineRight, LaterTransitive
    <3> QED
      BY <3>1, <3>2, <3>3
  <2> QED
    BY <2>1, <2>2
<1>9. /\ clockEpoch' \in Epochs /\ clockSlot' \in 0 .. SlotCount - 1 /\ clockEpoch <= clockEpoch'
      /\ Now' <= Clock' /\ m + Clock' <= MaxReorg + Now' /\ (m = 0 => Now' = Clock')
  <2>1. CASE Tick
    <3>1. clockEpoch' = epoch' /\ clockSlot' = slot' /\ Now = Clock /\ clockEpoch = epoch
      BY <2>1 DEF Tick, CaughtUp, Now, Clock
    <3>2. Clock' = Now'
      BY <3>1 DEF Now, Clock
    <3>3. epoch' \in Epochs /\ slot' \in 0 .. SlotCount - 1 /\ epoch <= epoch'
      BY <1>2, <1>7, SnapshotIs, StageNumbers DEF InTime, NotAfter
    <3> QED
      BY <1>2, <1>5, <1>6, <3>1, <3>2, <3>3
  <2>2. CASE CatchUp
    <3>1. clockEpoch' = clockEpoch /\ clockSlot' = clockSlot /\ ~CaughtUp
      BY <2>2 DEF CatchUp, clock
    <3>2. Clock' = Clock
      BY <3>1 DEF Clock
    <3>3. Now # Clock
      <4> SUFFICES ASSUME Now = Clock PROVE FALSE
        OBVIOUS
      <4>1. epoch \in Nat /\ slot \in 0 .. SlotCount - 1 /\ clockEpoch \in Nat
        BY <1>6, <1>7, SnapshotIs, StageNumbers DEF InTime
      <4>2. Time(epoch, slot) <= Time(clockEpoch, clockSlot)
            /\ Time(clockEpoch, clockSlot) <= Time(epoch, slot)
        BY <1>2 DEF Now, Clock
      <4>3. epoch < clockEpoch \/ (epoch = clockEpoch /\ slot <= clockSlot)
        BY <1>6, <4>1, <4>2, TimeOrder
      <4>4. clockEpoch < epoch \/ (clockEpoch = epoch /\ clockSlot <= slot)
        BY <1>6, <4>1, <4>2, TimeOrder
      <4> QED
        BY <1>6, <3>1, <4>1, <4>3, <4>4, StageNumbers DEF CaughtUp
    <3>4. clockEpoch <= clockEpoch
      BY <1>6, StageNumbers
    <3>5. m # 0
      BY <1>5, <1>6, <3>3
    <3> QED
      BY <1>2, <1>5, <1>6, <3>1, <3>2, <3>3, <3>4, <3>5
  <2> QED
    BY <2>1, <2>2
<1>10. Placed'
  <2>1. ASSUME NEW i \in 1 .. m
        PROVE  Time(hist'[i].epoch, hist'[i].slot) + i = Now' + 1
    <3>1. CASE i = 1
      BY <1>2, <1>5, <3>1, SnapshotIs DEF Now
    <3>2. CASE i # 1
      <4>1. i - 1 \in 1 .. Len(hist) /\ hist'[i] = hist[i - 1] /\ i \in Nat
        BY <1>5, <1>6, <3>2
      <4>2. Time(hist[i - 1].epoch, hist[i - 1].slot) + (i - 1) = Now + 1
        BY <4>1 DEF SIInv, Placed
      <4>3. Time(hist[i - 1].epoch, hist[i - 1].slot) \in Nat
        <5>1. i - 1 \in 0 .. Len(hist) /\ Line(i - 1) = hist[i - 1]
          BY <1>5, <4>1 DEF Line
        <5>2. Time(Line(i - 1).epoch, Line(i - 1).slot) \in Nat
          BY <5>1, LineRight
        <5> QED
          BY <5>1, <5>2
      <4>4. Time(hist'[i].epoch, hist'[i].slot) = Time(hist[i - 1].epoch, hist[i - 1].slot)
        BY <4>1
      <4> DEFINE t == Time(hist[i - 1].epoch, hist[i - 1].slot)
                 n == Now
      <4>5. t \in Nat /\ n \in Nat /\ i \in Nat /\ t + (i - 1) = n + 1
        BY <1>2, <4>1, <4>2, <4>3
      <4>6. t + i = (n + 1) + 1
        <5> HIDE DEF t, n
        <5> QED
          BY <4>5
      <4> QED
        BY <1>2, <4>4, <4>6
    <3> QED
      BY <3>1, <3>2
  <2>2. \A i \in 1 .. m : (Time(hist[i].epoch, hist[i].slot) + i = Now + 1)'
    BY <2>1 DEF Time
  <2>3. (hist \in Seq(Elements(hist)))'
    BY <1>5
  <2> QED
    BY <1>5, <1>6, <1>9, <2>2, <2>3 DEF Placed, m
<1>11. Sound' /\ LineSettled' /\ Reads'
  <2>1. 0 \in 0 .. Len(hist) /\ Later(Line(0), Snapshot') /\ Len(hist') = m
    BY <1>5, <1>7 DEF m
  <2> QED
    BY <1>1, <1>5, <1>7, <1>8, <2>1, LineMoves
<1>12. Types' /\ Records'
  BY <1>1, <1>9, RecordsStay
<1> QED
  BY <1>10, <1>11, <1>12 DEF SIInv

\* r is h from its d-th element on.
IsSuffix(r, h, d) ==
    /\ Len(h) \in Nat /\ Len(r) \in Nat /\ Len(r) + d = Len(h) + 1 /\ r \in Seq(Elements(r))
    /\ \A i \in 1 .. Len(r) : i + d - 1 \in d .. Len(h) /\ r[i] = h[i + d - 1]

\* The states below a fork.
LEMMA FallenBack ==
    ASSUME NEW h, h \in Seq(Elements(h)), NEW d \in 1 .. Len(h), NEW r, r = SubSeq(h, d, Len(h))
    PROVE  IsSuffix(r, h, d)
<1> DEFINE T == Elements(h)
           n == Len(h) - d + 1
<1>1. h \in Seq(T) /\ Len(h) \in Nat /\ d \in Nat /\ d >= 1 /\ d <= Len(h)
  BY LenProperties
<1> HIDE DEF T
<1>2. \A i \in d .. Len(h) : h[i] \in T
  BY <1>1, ElementOfSeq
<1>3. /\ r \in Seq(T) /\ Len(r) = IF d <= Len(h) THEN Len(h) - d + 1 ELSE 0
      /\ \A i \in 1 .. Len(h) - d + 1 : r[i] = h[d + i - 1]
  BY <1>1, <1>2, SubSeqProperties
<1>4. n \in Nat /\ Len(r) = n /\ n + d = Len(h) + 1
  BY <1>1, <1>3
<1>5. ASSUME NEW i \in 1 .. n PROVE i + d - 1 \in d .. Len(h) /\ r[i] = h[i + d - 1]
  BY <1>1, <1>3
<1> HIDE DEF n
<1>6. r \in Seq(Elements(r))
  BY <1>3, OwnElements
<1> QED
  BY <1>1, <1>4, <1>5, <1>6 DEF IsSuffix

\* The same state, field by field.
Alike(S, T) ==
    /\ S.epoch = T.epoch /\ S.slot = T.slot /\ S.stg1 = T.stg1 /\ S.stg2 = T.stg2
    /\ S.delivered = T.delivered

\* The return to an earlier state keeps the invariant.
LEMMA ReorgStep == ASSUME SIInv, Reorg PROVE SIInv'
<1>1. CaughtUp /\ UNCHANGED <<clock, nodeVars>>
  BY DEF Reorg
<1>1a. UNCHANGED <<workingEpoch, workStage, alpha, securityMsg, leadersOf, errorRetry,
                   RndCache, sent, torn, askedEarly, clockEpoch, clockSlot>>
  BY <1>1 DEF nodeVars, database, memory, history, clock
<1>2. PICK d \in 1 .. Len(hist) : Alike(hist[d], Snapshot') /\ hist' = SubSeq(hist, d, Len(hist))
  BY SnapshotIs DEF Reorg, Alike
<1>3. hist \in Seq(Elements(hist))
  BY DEF SIInv, Placed
<1> DEFINE m == Len(hist')
<1>4a. IsSuffix(hist', hist, d)
  BY <1>2, <1>3, FallenBack
<1>4. Len(hist) \in Nat /\ m \in Nat /\ m + d = Len(hist) + 1 /\ hist' \in Seq(Elements(hist'))
  BY <1>4a DEF IsSuffix
<1>4b. \A i \in 1 .. m : i + d - 1 \in d .. Len(hist) /\ hist'[i] = hist[i + d - 1]
  BY <1>4a DEF IsSuffix
<1> HIDE DEF m
<1>5. d \in Nat /\ d >= 1 /\ d <= Len(hist) /\ d \in 0 .. Len(hist) /\ Line(d) = hist[d]
  BY <1>4 DEF Line
<1>6. ASSUME NEW i \in 1 .. m
      PROVE  /\ i + d - 1 \in 1 .. Len(hist) /\ i + d - 1 \in 0 .. Len(hist) /\ i \in Nat /\ i >= 1
             /\ Line(i)' = Line(i + d - 1) /\ Line(i + d - 1) = hist[i + d - 1]
  <2>1. i + d - 1 \in d .. Len(hist) /\ hist'[i] = hist[i + d - 1] /\ i # 0 /\ i \in Nat /\ i >= 1
    BY <1>4, <1>4b
  <2>2. i + d - 1 \in 1 .. Len(hist) /\ i + d - 1 \in 0 .. Len(hist) /\ i + d - 1 # 0
    BY <1>4, <1>5, <2>1
  <2> QED
    BY <2>1, <2>2 DEF Line
<1>8. /\ SoundState(hist[d]) /\ Committed(hist[d]) /\ InTime(hist[d])
      /\ SameSettled(hist[d], Snapshot) /\ Time(hist[d].epoch, hist[d].slot) \in Nat
  BY <1>5, LineRight DEF Later
<1>9. SoundState(Snapshot') /\ Committed(Snapshot') /\ InTime(Snapshot')
  BY <1>2, <1>8 DEF SoundState, InTime, Committed, Alike
<1>10. Later(hist[d], Snapshot')
  BY <1>2, <1>8, StageNumbers DEF Later, NotAfter, SameSettled, Alike, InTime
<1>11. Time(hist[d].epoch, hist[d].slot) + d = Now + 1
  BY DEF SIInv, Placed
<1>12. Now' = Time(hist[d].epoch, hist[d].slot)
  BY <1>2, SnapshotIs DEF Alike, Now, Time
<1>13. Now \in Nat /\ Clock \in Nat /\ Now' \in Nat /\ Now' + d = Now + 1
  BY <1>8, <1>11, <1>12, LineRight
<1>14. ASSUME NEW i \in 1 .. m
       PROVE  \E j \in 0 .. Len(hist) : Line(i)' = Line(j) /\ Later(Line(j), Snapshot')
  <2> DEFINE j == i + d - 1
  <2>1. /\ j \in 1 .. Len(hist) /\ j \in 0 .. Len(hist) /\ Line(j) = hist[j] /\ j >= d /\ j \in Nat
        /\ Line(i)' = Line(j)
    <3>1. j \in 1 .. Len(hist) /\ j \in 0 .. Len(hist) /\ Line(j) = hist[j] /\ i \in Nat /\ i >= 1
          /\ Line(i)' = Line(j)
      BY <1>6
    <3> QED
      BY <1>5, <3>1
  <2> HIDE DEF j
  <2>2. /\ InTime(hist[j]) /\ SameSettled(hist[j], Snapshot)
        /\ Time(hist[j].epoch, hist[j].slot) \in Nat
    BY <2>1, LineRight DEF Later
  <2>3. Time(hist[j].epoch, hist[j].slot) + j = Now + 1
    BY <2>1 DEF SIInv, Placed
  <2>4. Time(hist[j].epoch, hist[j].slot) <= Time(hist[d].epoch, hist[d].slot)
    BY <1>5, <1>8, <1>11, <1>13, <2>1, <2>2, <2>3
  <2>5. NotAfter(hist[j], hist[d])
    BY <1>8, <2>2, <2>4, TimeOrder, StageNumbers, SMTT(60) DEF InTime, NotAfter
  <2>6. Later(hist[j], hist[d])
    BY <1>8, <2>2, <2>5, LaterOfTwo
  <2>7. Later(hist[j], Snapshot')
    BY <1>8, <1>9, <1>10, <2>2, <2>6, LaterTransitive
  <2> QED
    BY <2>1, <2>7
<1>15. Placed'
  <2>1. /\ clockEpoch \in Epochs /\ clockSlot \in 0 .. SlotCount - 1 /\ Now <= Clock
        /\ Len(hist) + Clock <= MaxReorg + Now /\ MaxReorg \in Nat /\ Len(hist) <= MaxReorg
    BY StageNumbers DEF SIInv, Placed
  <2>2. clockEpoch' = clockEpoch /\ clockSlot' = clockSlot /\ Clock' = Clock
    BY <1>1 DEF clock, Clock, Time
  <2>3. Now' <= Clock' /\ m + Clock' <= MaxReorg + Now' /\ m <= MaxReorg /\ m # 0
    <3> DEFINE l == Len(hist)
               c == Clock
               n == Now
               k == Now'
    <3>1. c \in Nat /\ n \in Nat /\ k \in Nat /\ k + d = n + 1 /\ l \in Nat
      BY <1>4, <1>13
    <3>2. l + c <= MaxReorg + n /\ n <= c /\ MaxReorg \in Nat /\ l <= MaxReorg
      BY <2>1
    <3>3. d \in Nat /\ d >= 1 /\ d <= l /\ m + d = l + 1 /\ m \in Nat
      BY <1>4, <1>5
    <3> HIDE DEF l, c, n, k
    <3>4. m + c <= MaxReorg + k /\ k <= c /\ m <= MaxReorg /\ m # 0
      BY <3>1, <3>2, <3>3
    <3> QED
      BY <2>2, <3>4 DEF c, k
  <2>4. ASSUME NEW i \in 1 .. m
        PROVE  Time(hist'[i].epoch, hist'[i].slot) + i = Now' + 1
    <3> DEFINE j == i + d - 1
    <3>1. /\ j \in 1 .. Len(hist) /\ j \in 0 .. Len(hist) /\ Line(j) = hist[j]
          /\ hist'[i] = hist[j] /\ i \in Nat /\ j = i + d - 1
      BY <1>4b, <1>6
    <3> HIDE DEF j
    <3>2. Time(hist[j].epoch, hist[j].slot) + j = Now + 1
      BY <3>1 DEF SIInv, Placed
    <3>4. Time(hist[j].epoch, hist[j].slot) \in Nat
      BY <3>1, LineRight
    <3>5. Time(hist'[i].epoch, hist'[i].slot) = Time(hist[j].epoch, hist[j].slot)
      BY <3>1
    <3> DEFINE t == Time(hist[j].epoch, hist[j].slot)
               n == Now
               k == Now'
    <3>6. /\ t \in Nat /\ n \in Nat /\ k \in Nat /\ d \in Nat /\ i \in Nat
          /\ j = i + d - 1 /\ t + j = n + 1 /\ k + d = n + 1
      BY <1>5, <1>13, <3>1, <3>2, <3>4
    <3>7. t + i = k + 1
      <4> HIDE DEF t, n, k
      <4> QED
        BY <3>6
    <3> QED
      BY <3>5, <3>7
  <2>5. \A i \in 1 .. m : (Time(hist[i].epoch, hist[i].slot) + i = Now + 1)'
    BY <2>4 DEF Time
  <2>6. (hist \in Seq(Elements(hist)))'
    BY <1>4
  <2> QED
    BY <2>1, <2>2, <2>3, <2>5, <2>6 DEF Placed, m
<1>16. Sound' /\ LineSettled' /\ Reads'
  <2>1. Later(Line(d), Snapshot') /\ Len(hist') = m
    BY <1>5, <1>10 DEF m
  <2> QED
    BY <1>1a, <1>4, <1>5, <1>9, <1>14, <2>1, LineMoves
<1>17. Types' /\ Records'
  <2>1. clockEpoch' \in Epochs /\ clockEpoch <= clockEpoch'
    BY <1>1a, StageNumbers DEF SIInv, Placed
  <2> QED
    BY <1>1a, <2>1, RecordsStay
<1> QED
  BY <1>15, <1>16, <1>17 DEF SIInv

\* Whatever lies 2 * K slots before the clock is past in every state of the
\* line.
LEMMA LinePast ==
    ASSUME SIInv, NEW i \in 0 .. Len(hist), NEW e \in Nat, NEW s \in 0 .. SlotCount - 1,
           Time(e, s) + 2 * K <= Clock
    PROVE  Past(Line(i), e, s)
<1> DEFINE t == Time(Line(i).epoch, Line(i).slot)
           u == Time(e, s)
           c == Clock
           n == Now
           l == Len(hist)
<1>1. t \in Nat /\ u \in Nat /\ c \in Nat /\ n \in Nat /\ l \in Nat /\ K \in Nat \ {0}
  BY LineRight, TimeNat, StageNumbers
<1>2. /\ n <= c /\ l + c <= MaxReorg + n /\ (l = 0 => n = c)
      /\ MaxReorg \in Nat /\ MaxReorg <= 2 * K
  BY StageNumbers DEF SIInv, Placed
<1>3. i \in Nat /\ i <= l /\ (i = 0 => t = n)
  <2>1. i = 0 => t = n
    BY SnapshotIs DEF Line, Now
  <2> QED
    BY <1>1, <2>1
<1>4. i # 0 => t + i = n + 1
  <2>1. i # 0 => i \in 1 .. Len(hist) /\ Line(i) = hist[i]
    BY <1>1, <1>3 DEF Line
  <2> QED
    BY <2>1 DEF SIInv, Placed
<1>5. u + 2 * K <= c
  OBVIOUS
<1>6. Line(i).epoch \in Nat /\ Line(i).slot \in 0 .. SlotCount - 1
  BY LineRight, StageNumbers DEF InTime
<1>7. u < t
  <2> HIDE DEF t, u, c, n, l
  <2> QED
    BY <1>1, <1>2, <1>3, <1>4, <1>5
<1>8. e < Line(i).epoch \/ (e = Line(i).epoch /\ s <= Line(i).slot)
  BY <1>1, <1>6, <1>7, TimeOrder
<1>9. e = Line(i).epoch => s # Line(i).slot
  BY <1>1, <1>7
<1> QED
  BY <1>6, <1>8, <1>9 DEF Past

\* In the third stage the second-stage data, and in an epoch its random
\* number, are settled in every state of the line.
LEMMA SettledByClock ==
    ASSUME SIInv, NEW i \in 0 .. Len(hist)
    PROVE  /\ clockSlot >= Sma3Start => Past(Line(i), clockEpoch, Sma2End)
           /\ Past(Line(i), clockEpoch - 1, SignEnd)
           /\ Past(Line(i), epoch - 1, SignEnd)
<1>1. /\ clockEpoch \in Epochs /\ clockEpoch \in Nat /\ clockSlot \in 0 .. SlotCount - 1
      /\ clockEpoch - 1 \in Nat /\ epoch \in Nat /\ epoch - 1 \in Nat /\ slot \in 0 .. SlotCount - 1
      /\ Now <= Clock /\ Now \in Nat /\ Clock \in Nat
  BY LineRight, SnapshotIs, StageNumbers DEF SIInv, Placed, InTime
<1>2. ASSUME NEW f \in Nat, f - 1 \in Nat, NEW t \in 0 .. SlotCount - 1, Time(f, t) <= Clock
      PROVE  Past(Line(i), f - 1, SignEnd)
  <2>1. f * SlotCount = (f - 1) * SlotCount + SlotCount
        /\ f * SlotCount \in Nat /\ (f - 1) * SlotCount \in Nat
    BY <1>2, StageNumbers
  <2>2. SignEnd \in 0 .. SlotCount - 1 /\ SlotCount = 12 * K /\ SignEnd = 10 * K - 1 /\ K \in Nat \ {0}
    BY StageNumbers
  <2>3. Time(f - 1, SignEnd) + 2 * K <= Time(f, t)
    BY <2>1, <2>2 DEF Time
  <2>4. Time(f, t) \in Nat /\ Time(f - 1, SignEnd) \in Nat
    BY <1>2, <2>2, TimeNat
  <2>5. Time(f - 1, SignEnd) + 2 * K <= Clock
    BY <1>1, <1>2, <2>2, <2>3, <2>4
  <2> QED
    BY <1>2, <2>2, <2>5, LinePast
<1>3. ASSUME clockSlot >= Sma3Start PROVE Past(Line(i), clockEpoch, Sma2End)
  <2>1. Sma2End \in 0 .. SlotCount - 1 /\ Sma2End = 8 * K /\ Sma3Start = 10 * K /\ K \in Nat \ {0}
    BY StageNumbers DEF Sma3Start
  <2>2. clockEpoch * SlotCount \in Nat
    BY <1>1, StageNumbers
  <2>3. Time(clockEpoch, Sma2End) + 2 * K <= Clock
    BY <1>1, <1>3, <2>1, <2>2 DEF Time, Clock
  <2> QED
    BY <1>1, <2>1, <2>3, LinePast
<1> QED
  BY <1>1, <1>2, <1>3 DEF Now, Clock

\* What all states of the line have settled they agree on.
LEMMA LineAgrees ==
    ASSUME SIInv, NEW i \in 0 .. Len(hist), NEW e \in Epochs
    PROVE  /\ Past(Line(i), e, Sma2End) => StageTwoAt(Line(i), e) = StageTwo(e)
           /\ Past(Line(i), e - 1, SignEnd) => RandomAt(Line(i), e) = RandomAt(Snapshot, e)
<1>1. SameSettled(Line(i), Snapshot)
  BY LineRight DEF Later
<1>2. Past(Line(i), e, Sma2End) => Line(i).stg2[e] = stg2[e]
  BY <1>1, SnapshotIs DEF SameSettled
<1> QED
  BY <1>1, <1>2 DEF SameSettled, StageTwoAt, StageTwo, RandomAt

\* A random number that is cached when it is settled fits every branch.
LEMMA CacheRight ==
    ASSUME SIInv, NEW n \in Node, NEW e \in Epochs, Cache(n, e), askedEarly \subseteq askedEarly',
           <<n, e>> \in askedEarly' \/ \A i \in 0 .. Len(hist) : Past(Line(i), e - 1, SignEnd)
    PROVE  /\ RndCache' \in [Node -> [Epochs -> Randoms \cup {None}]]
           /\ \A k \in Node, f \in Epochs : <<k, f>> \notin askedEarly' =>
                 \A i \in 0 .. Len(hist) : RandomFits(Line(i), f, RndCache'[k][f])
<1>1. RndCache \in [Node -> [Epochs -> Randoms \cup {None}]]
  BY DEF SIInv, Types
<1>2. getRandom(n, e) \in Randoms \cup {None}
  BY <1>1 DEF getRandom, Randoms
<1>3. RndCache' = [RndCache EXCEPT ![n][e] = getRandom(n, e)]
  BY DEF Cache
<1>4. RndCache' \in [Node -> [Epochs -> Randoms \cup {None}]]
  BY <1>1, <1>2, <1>3
<1>5. ASSUME NEW k \in Node, NEW f \in Epochs, <<k, f>> \notin askedEarly', NEW i \in 0 .. Len(hist)
      PROVE  RandomFits(Line(i), f, RndCache'[k][f])
  <2>1. RandomFits(Line(i), f, RndCache[k][f])
    BY <1>5 DEF SIInv, Reads
  <2>2. CASE k = n /\ f = e /\ RndCache[n][e] = None
    <3>1. Past(Line(i), e - 1, SignEnd)
      BY <1>5, <2>2
    <3>2. RndCache'[k][f] = RandomAt(Snapshot, e)
      BY <1>1, <1>3, <2>2, SnapshotIs DEF getRandom, RandomAt
    <3> QED
      BY <2>2, <3>1, <3>2, LineAgrees DEF RandomFits
  <2>3. CASE ~(k = n /\ f = e /\ RndCache[n][e] = None)
    <3>1. RndCache'[k][f] = RndCache[k][f]
      BY <1>1, <1>3, <2>3 DEF getRandom
    <3> QED
      BY <2>1, <3>1
  <2> QED
    BY <2>2, <2>3
<1> QED
  BY <1>4, <1>5

\* A step of a node keeps the invariant when its records stay right and
\* what it has read fits every branch.
LEMMA NodeStep ==
    ASSUME SIInv, UNCHANGED <<chain, clock, hist>>, Types', Records', sent \subseteq sent',
           \A n \in Node, e \in Epochs : \A i \in 0 .. Len(hist) :
              /\ SMAFits(Line(i), e, securityMsg'[n][e])
              /\ <<n, e>> \notin askedEarly' => RandomFits(Line(i), e, RndCache'[n][e])
    PROVE  SIInv'
<1>1. UNCHANGED <<epoch, slot, stg1, stg2, delivered, clockEpoch, clockSlot, hist>>
  BY DEF chain, slvars, clock
<1>2. Placed'
  BY <1>1 DEF SIInv, Placed, Now, Clock, Time, Elements
<1>3. Snapshot' = Snapshot /\ \A i \in 0 .. Len(hist) : Line(i)' = Line(i)
  BY <1>1 DEF Snapshot, Line
<1>4. Sound'
  <2>1. ASSUME NEW i \in 0 .. Len(hist) PROVE SoundState(Line(i))' /\ Committed(Line(i))'
    <3>1. SoundState(Line(i)) /\ Committed(Line(i)) /\ Line(i)' = Line(i)
      BY <1>3 DEF SIInv, Sound
    <3>2. SoundState(Line(i))'
      BY <3>1 DEF SoundState, InTime
    <3>3. Committed(Line(i))'
      BY <3>1 DEF Committed
    <3> QED
      BY <3>2, <3>3
  <2> QED
    BY <1>1, <2>1 DEF Sound
<1>5. LineSettled'
  BY <1>1, <1>3 DEF SIInv, LineSettled, SameSettled, Past
<1>6. Reads'
  <2>1. ASSUME NEW n \in Node, NEW e \in Epochs, NEW i \in 0 .. Len(hist)
        PROVE  (/\ SMAFits(Line(i), e, securityMsg[n][e])
                /\ <<n, e>> \notin askedEarly => RandomFits(Line(i), e, RndCache[n][e]))'
    <3>1. Line(i)' = Line(i)
      BY <1>3
    <3> QED
      BY <3>1 DEF SMAFits, RandomFits, Past, StageTwoAt, RandomAt
  <2> QED
    BY <1>1, <2>1 DEF Reads
<1> QED
  BY <1>2, <1>4, <1>5, <1>6 DEF SIInv

\* What Recover and doInit leave of a node's working epoch and leaders.
Loaded(n) ==
    /\ leadersOf' \in [Node -> LeaderEpochs \cup {0}] /\ workingEpoch' \in [Node -> 0 .. LastEpochId]
    /\ \A k \in Node \ {n} : leadersOf'[k] = leadersOf[k] /\ workingEpoch'[k] = workingEpoch[k]
    /\ leadersOf'[n] \in {0, workingEpoch'[n]}
    /\ workingEpoch[n] <= workingEpoch'[n] /\ workingEpoch'[n] <= clockEpoch

LEMMA LoadRight ==
    ASSUME SIInv, NEW n \in Node,
           \/ doInit(n) \/ Recover(n)
           \/ leadersOf' = [leadersOf EXCEPT ![n] = 0]
              /\ (workingEpoch' = workingEpoch \/ workingEpoch' = [workingEpoch EXCEPT ![n] = clockEpoch])
    PROVE  Loaded(n)
<1>1. /\ leadersOf \in [Node -> LeaderEpochs \cup {0}] /\ workingEpoch \in [Node -> 0 .. LastEpochId]
      /\ clockEpoch \in Epochs /\ clockEpoch \in Nat /\ LastEpochId \in Nat
      /\ clockEpoch \in 0 .. LastEpochId
  BY StageNumbers, SlotLeaderAssumption DEF SIInv, Types, Placed, Epochs
<1>2. /\ leadersOf[n] \in {0, workingEpoch[n]} /\ workingEpoch[n] <= clockEpoch
      /\ workingEpoch[n] \in Nat
  BY <1>1 DEF SIInv, Records, Works
<1>3. CASE UNCHANGED <<leadersOf, workingEpoch>>
  BY <1>1, <1>2, <1>3 DEF Loaded
<1>4. CASE doInit(n)
  <2>1. /\ leadersOf' = [leadersOf EXCEPT ![n] = IF clockEpoch \in LeaderEpochs THEN clockEpoch ELSE 0]
        /\ workingEpoch' = [workingEpoch EXCEPT ![n] = clockEpoch]
    BY <1>4 DEF doInit, buildEpochLeaderGroup
  <2> QED
    BY <1>1, <1>2, <2>1 DEF Loaded
<1>5. CASE /\ leadersOf' = [leadersOf EXCEPT ![n] = 0]
           /\ workingEpoch' = workingEpoch \/ workingEpoch' = [workingEpoch EXCEPT ![n] = clockEpoch]
  BY <1>1, <1>2, <1>5 DEF Loaded
<1> QED
  BY <1>3, <1>4, <1>5 DEF Recover

\* The stage a node works on: a stage of the epoch of the clock.
LEMMA StageIs ==
    ASSUME SIInv, NEW n \in Node
    PROVE  /\ workingEpoch[n] \in Nat /\ clockEpoch \in Nat /\ clockEpoch \in Epochs
           /\ workingEpoch[n] <= clockEpoch
           /\ getWorkStage(n) # "init" =>
                 workingEpoch[n] = clockEpoch /\ workStage[n][clockEpoch] = getWorkStage(n)
           /\ \A i \in Index : alpha[n][clockEpoch][i] # None /\ <<clockEpoch, i>> \notin torn =>
                 getWorkStage(n) \notin {"init", "stage1"}
<1>1. workingEpoch[n] \in Nat /\ clockEpoch \in Nat /\ clockEpoch \in Epochs /\ Works(n)
  BY StageNumbers, SlotLeaderAssumption DEF SIInv, Types, Placed, Records
<1>2. workingEpoch[n] <= clockEpoch
  BY <1>1 DEF Works
<1>3. ASSUME getWorkStage(n) # "init"
      PROVE  workingEpoch[n] = clockEpoch /\ workStage[n][clockEpoch] = getWorkStage(n)
  BY <1>1, <1>2, <1>3 DEF getWorkStage
<1>4. ASSUME NEW i \in Index, alpha[n][clockEpoch][i] # None, <<clockEpoch, i>> \notin torn
      PROVE  getWorkStage(n) \notin {"init", "stage1"}
  <2>1. clockEpoch <= workingEpoch[n] /\ workStage[n][clockEpoch] \notin {"init", "stage1"}
    BY <1>1, <1>4 DEF Works
  <2>2. ~(clockEpoch > workingEpoch[n])
    BY <1>1, <2>1
  <2> QED
    BY <2>1, <2>2 DEF getWorkStage
<1> QED
  BY <1>1, <1>2, <1>3, <1>4

\* The records after a step of a node that draws no numbers.
LEMMA StageKept ==
    ASSUME SIInv, NEW n \in Node, Loaded(n), clockEpoch' = clockEpoch,
           UNCHANGED <<alpha, torn, sent>>,
           \/ workStage' = workStage
           \/ \E stage \in Stages :
                 /\ setWorkStage(n, stage)
                 /\ stage \in {"init", "stage1"} => getWorkStage(n) = "init"
    PROVE  workStage' \in [Node -> [Epochs -> Stages]] /\ Records'
<1>1. workStage \in [Node -> [Epochs -> Stages]] /\ clockEpoch \in Epochs
  BY DEF SIInv, Types, Placed
<1>2. workStage' \in [Node -> [Epochs -> Stages]]
  BY <1>1 DEF setWorkStage
<1>3. ASSUME NEW k \in Node PROVE Works(k)'
  <2>0. Works(k) /\ workingEpoch[k] \in Nat /\ workingEpoch'[k] \in Nat /\ clockEpoch \in Nat
    BY StageNumbers, SlotLeaderAssumption DEF SIInv, Types, Placed, Records, Loaded
  <2>1. /\ leadersOf'[k] \in {0, workingEpoch'[k]} /\ workingEpoch'[k] <= clockEpoch
        /\ workingEpoch[k] <= workingEpoch'[k]
    <3>1. CASE k = n
      BY <3>1 DEF Loaded
    <3>2. CASE k # n
      BY <2>0, <3>2 DEF Loaded, Works
    <3> QED
      BY <3>1, <3>2
  <2>2. ASSUME NEW e \in Epochs, NEW i \in Index, alpha[k][e][i] # None PROVE e <= workingEpoch'[k]
    <3>1. e <= workingEpoch[k] /\ e \in Nat
      BY <2>0, <2>2, StageNumbers DEF Works
    <3> QED
      BY <2>0, <2>1, <3>1
  <2>3. ASSUME NEW i \in Index, alpha[k][clockEpoch][i] # None, <<clockEpoch, i>> \notin torn
        PROVE  workStage'[k][clockEpoch] \notin {"init", "stage1"}
    <3>1. workStage[k][clockEpoch] \notin {"init", "stage1"}
      BY <1>1, <2>0, <2>3 DEF Works
    <3>2. CASE workStage' = workStage
      BY <3>1, <3>2
    <3>3. ASSUME NEW stage \in Stages, setWorkStage(n, stage),
                 stage \in {"init", "stage1"} => getWorkStage(n) = "init"
          PROVE  workStage'[k][clockEpoch] \notin {"init", "stage1"}
      <4>1. workStage' = [workStage EXCEPT ![n][clockEpoch] = stage]
        BY <3>3 DEF setWorkStage
      <4>2. CASE k = n
        <5>1. getWorkStage(n) # "init"
          BY <2>3, <4>2, StageIs
        <5>2. workStage'[k][clockEpoch] = stage
          BY <1>1, <4>1, <4>2
        <5> QED
          BY <3>3, <5>1, <5>2
      <4>3. CASE k # n
        BY <1>1, <3>1, <4>1, <4>3
      <4> QED
        BY <4>2, <4>3
    <3> QED
      BY <3>2, <3>3
  <2> QED
    BY <2>1, <2>2, <2>3 DEF Works
<1>4. ASSUME NEW tx \in sent PROVE Carries(tx)'
  BY DEF SIInv, Records, Carries
<1> QED
  BY <1>2, <1>3, <1>4 DEF Records

\* The numbers a node draws in its first stage are those it has stored and
\* sent afterwards: the records stay right whether the stage is finished or
\* the node crashes in it.
LEMMA DrawKept ==
    ASSUME SIInv, NEW n \in Node, Loaded(n), clockEpoch' = clockEpoch, getWorkStage(n) = "stage1",
           NEW done \in SUBSET MyIndexes(n, clockEpoch), Draw(done),
           alpha' = PutAlpha(n, clockEpoch, done),
           sent' = sent \cup {Tx("stg1", clockEpoch, i, n, drawn'[i]) : i \in done},
           \/ torn' = torn /\ setWorkStage(n, "stage2")
           \/ torn' = torn \cup {<<clockEpoch, i>> : i \in done} /\ workStage' = workStage
    PROVE  /\ workStage' \in [Node -> [Epochs -> Stages]] /\ Records'
           /\ alpha' \in [Node -> [Epochs -> [Index -> Alpha \cup {None}]]]
<1>1. /\ workStage \in [Node -> [Epochs -> Stages]] /\ clockEpoch \in Epochs
      /\ alpha \in [Node -> [Epochs -> [Index -> Alpha \cup {None}]]]
  BY DEF SIInv, Types, Placed
<1>2. workStage' \in [Node -> [Epochs -> Stages]]
  <2>1. "stage2" \in Stages
    BY DEF Stages
  <2>2. ASSUME NEW stage \in Stages PROVE [workStage EXCEPT ![n][clockEpoch] = stage] \in [Node -> [Epochs -> Stages]]
    BY <1>1
  <2>3. [workStage EXCEPT ![n][clockEpoch] = "stage2"] \in [Node -> [Epochs -> Stages]]
    BY <2>1, <2>2
  <2>4. workStage' = workStage \/ workStage' = [workStage EXCEPT ![n][clockEpoch] = "stage2"]
    BY DEF setWorkStage
  <2> QED
    BY <1>1, <2>3, <2>4
<1>3. /\ \A i \in done : drawn'[i] \in Alpha /\ i \in Index /\ Leaders[clockEpoch][i] = n
      /\ done # {} => clockEpoch \in LeaderEpochs
  BY DEF Draw, MyIndexes
<1> DEFINE new == [i \in Index |-> IF i \in done THEN drawn'[i] ELSE alpha[n][clockEpoch][i]]
<1>4. alpha' = [alpha EXCEPT ![n][clockEpoch] = new]
  BY DEF PutAlpha
<1>5. new \in [Index -> Alpha \cup {None}]
  BY <1>1, <1>3
<1>6. alpha' \in [Node -> [Epochs -> [Index -> Alpha \cup {None}]]]
  <2> HIDE DEF new
  <2> QED
    BY <1>1, <1>4, <1>5
<1>7. /\ alpha'[n][clockEpoch] = new
      /\ \A k \in Node, e \in Epochs : ~(k = n /\ e = clockEpoch) => alpha'[k][e] = alpha[k][e]
  <2> HIDE DEF new
  <2> QED
    BY <1>1, <1>4
<1> HIDE DEF new
<1>8. torn \subseteq torn'
  OBVIOUS
<1>9. workingEpoch[n] = clockEpoch /\ workStage[n][clockEpoch] = "stage1"
  BY StageIs
<1>10. \A i \in Index : alpha[n][clockEpoch][i] # None => <<clockEpoch, i>> \in torn
  BY StageIs
<1>11. ASSUME NEW k \in Node PROVE Works(k)'
  <2>0. Works(k) /\ workingEpoch[k] \in Nat /\ workingEpoch'[k] \in Nat /\ clockEpoch \in Nat
    BY StageNumbers, SlotLeaderAssumption DEF SIInv, Types, Placed, Records, Loaded
  <2>1. /\ leadersOf'[k] \in {0, workingEpoch'[k]} /\ workingEpoch'[k] <= clockEpoch
        /\ workingEpoch[k] <= workingEpoch'[k]
    <3>1. CASE k = n
      BY <3>1 DEF Loaded
    <3>2. CASE k # n
      BY <2>0, <3>2 DEF Loaded, Works
    <3> QED
      BY <3>1, <3>2
  <2>2. ASSUME NEW e \in Epochs, NEW i \in Index, alpha'[k][e][i] # None PROVE e <= workingEpoch'[k]
    <3>1. CASE k = n /\ e = clockEpoch
      BY <1>9, <2>0, <2>1, <3>1
    <3>2. CASE ~(k = n /\ e = clockEpoch)
      <4>1. alpha[k][e][i] # None
        BY <1>7, <2>2, <3>2
      <4>2. e <= workingEpoch[k] /\ e \in Nat
        BY <2>0, <4>1, StageNumbers DEF Works
      <4> QED
        BY <2>0, <2>1, <4>2
    <3> QED
      BY <3>1, <3>2
  <2>3. ASSUME NEW i \in Index, alpha'[k][clockEpoch][i] # None, <<clockEpoch, i>> \notin torn'
        PROVE  workStage'[k][clockEpoch] \notin {"init", "stage1"}
    <3>1. CASE k # n
      <4>1. alpha[k][clockEpoch][i] # None /\ <<clockEpoch, i>> \notin torn
        BY <1>1, <1>7, <1>8, <2>3, <3>1
      <4>2. workStage[k][clockEpoch] \notin {"init", "stage1"}
        BY <1>1, <2>0, <4>1 DEF Works
      <4>3. workStage'[k] = workStage[k]
        BY <1>1, <3>1 DEF setWorkStage
      <4> QED
        BY <4>2, <4>3
    <3>2. CASE k = n /\ setWorkStage(n, "stage2")
      <4>1. workStage'[k][clockEpoch] = "stage2"
        BY <1>1, <3>2 DEF setWorkStage
      <4> QED
        BY <4>1
    <3>3. CASE k = n /\ torn' = torn \cup {<<clockEpoch, j>> : j \in done}
      <4>1. i \notin done /\ <<clockEpoch, i>> \notin torn
        BY <2>3, <3>3
      <4>2. alpha[n][clockEpoch][i] # None
        BY <1>7, <2>3, <3>3, <4>1 DEF new
      <4> QED
        BY <1>10, <4>1, <4>2
    <3> QED
      BY <3>1, <3>2, <3>3
  <2> QED
    BY <1>1, <2>1, <2>2, <2>3 DEF Works
<1>12. ASSUME NEW tx \in sent' PROVE Carries(tx)'
  <2>1. CASE tx \in sent
    <3>1. Carries(tx)
      BY <2>1 DEF SIInv, Records
    <3>2. tx.epoch \in Epochs /\ tx.data # None
      BY <3>1, SlotLeaderAssumption DEF Carries
    <3>3. ASSUME <<tx.epoch, tx.index>> \notin torn'
          PROVE  alpha'[tx.from][tx.epoch][tx.index] = tx.data
      <4>1. alpha[tx.from][tx.epoch][tx.index] = tx.data
        BY <1>8, <3>1, <3>3 DEF Carries
      <4>2. ~(tx.from = n /\ tx.epoch = clockEpoch)
        BY <1>8, <1>10, <3>1, <3>2, <3>3, <4>1 DEF Carries
      <4> QED
        BY <1>7, <3>1, <3>2, <4>1, <4>2 DEF Carries
    <3> QED
      BY <3>1, <3>3 DEF Carries
  <2>2. ASSUME NEW i \in done, tx = Tx("stg1", clockEpoch, i, n, drawn'[i]) PROVE Carries(tx)'
    <3>1. /\ tx.type = "stg1" /\ tx.epoch = clockEpoch /\ tx.index = i /\ tx.from = n
          /\ tx.data = drawn'[i] /\ tx = Tx(tx.type, tx.epoch, tx.index, tx.from, tx.data)
      BY <2>2 DEF Tx
    <3>2. alpha'[n][clockEpoch][i] = drawn'[i]
      BY <1>3, <1>7 DEF new
    <3> QED
      BY <1>3, <3>1, <3>2 DEF Carries
  <2> QED
    BY <2>1, <2>2
<1> QED
  BY <1>2, <1>6, <1>11, <1>12 DEF Records

\* What a turn of the workflow guarantees.
Turned ==
    /\ workingEpoch' \in [Node -> 0 .. LastEpochId]
    /\ workStage' \in [Node -> [Epochs -> Stages]]
    /\ alpha' \in [Node -> [Epochs -> [Index -> Alpha \cup {None}]]]
    /\ securityMsg' \in [Node -> [Epochs -> SMAs \cup {None}]]
    /\ leadersOf' \in [Node -> LeaderEpochs \cup {0}]
    /\ errorRetry' \in [Node -> 0 .. MaxRetry]
    /\ Records' /\ sent \subseteq sent'
    /\ \A k \in Node, e \in Epochs : \A i \in 0 .. Len(hist) : SMAFits(Line(i), e, securityMsg'[k][e])

\* The turns that neither draw numbers nor make an SMA.
LEMMA PlainTurn ==
    ASSUME SIInv, NEW n \in Node, clockEpoch' = clockEpoch,
           workInit(n) \/ workStage2(n) \/ workTooLate(n) \/ workWait(n)
    PROVE  Turned
<1>1. UNCHANGED <<alpha, securityMsg, errorRetry, sent, torn>>
  BY DEF workInit, workStage2, workTooLate, workWait, history
<1>2. Loaded(n)
  <2>1. doInit(n) \/ Recover(n)
    BY DEF workInit, workStage2, workTooLate, workWait
  <2> QED
    BY <2>1, LoadRight
<1>3. \/ workStage' = workStage
      \/ \E stage \in Stages :
            /\ setWorkStage(n, stage)
            /\ stage \in {"init", "stage1"} => getWorkStage(n) = "init"
  <2>1. {"stage1", "stage3", "finished"} \subseteq Stages
    BY DEF Stages
  <2>2. CASE workInit(n)
    BY <2>1, <2>2 DEF workInit
  <2>3. CASE workStage2(n) \/ workTooLate(n)
    <3>1. setWorkStage(n, "stage3")
      BY <2>3 DEF workStage2, workTooLate
    <3> QED
      BY <2>1, <3>1
  <2>4. CASE workWait(n)
    BY <2>4 DEF workWait
  <2> QED
    BY <2>2, <2>3, <2>4
<1>4. workStage' \in [Node -> [Epochs -> Stages]] /\ Records'
  BY <1>1, <1>2, <1>3, StageKept
<1> QED
  BY <1>1, <1>2, <1>4 DEF SIInv, Types, Reads, Loaded, Turned

\* The first stage.
LEMMA FirstTurn ==
    ASSUME SIInv, NEW n \in Node, clockEpoch' = clockEpoch, workStage1(n)
    PROVE  Turned
<1>1. /\ UNCHANGED <<securityMsg, errorRetry, torn>> /\ Recover(n) /\ getWorkStage(n) = "stage1"
      /\ setWorkStage(n, "stage2") /\ startStage1Work(n, MyIndexes(n, clockEpoch))
  BY DEF workStage1, InStage1Work
<1>2. Loaded(n)
  BY <1>1, LoadRight
<1> DEFINE done == MyIndexes(n, clockEpoch)
<1>3. /\ Draw(done) /\ alpha' = PutAlpha(n, clockEpoch, done)
      /\ sent' = sent \cup {Tx("stg1", clockEpoch, i, n, drawn'[i]) : i \in done}
  BY <1>1 DEF startStage1Work
<1>4. done \in SUBSET MyIndexes(n, clockEpoch)
  OBVIOUS
<1> HIDE DEF done
<1>5. /\ workStage' \in [Node -> [Epochs -> Stages]] /\ Records'
      /\ alpha' \in [Node -> [Epochs -> [Index -> Alpha \cup {None}]]]
  BY <1>1, <1>2, <1>3, <1>4, DrawKept
<1>6. sent \subseteq sent'
  BY <1>3
<1> QED
  BY <1>1, <1>2, <1>5, <1>6 DEF SIInv, Types, Reads, Loaded, Turned

\* The third stage: the SMA is made from settled data.
LEMMA ThirdTurn ==
    ASSUME SIInv, NEW n \in Node, clockEpoch' = clockEpoch, workStage3(n)
    PROVE  Turned
<1>1. /\ UNCHANGED <<alpha, sent, torn>> /\ Recover(n) /\ clockSlot >= Sma3Start
  BY DEF workStage3, InStage3, history
<1>2. Loaded(n)
  BY <1>1, LoadRight
<1>3. /\ securityMsg \in [Node -> [Epochs -> SMAs \cup {None}]] /\ clockEpoch \in Epochs
      /\ errorRetry \in [Node -> 0 .. MaxRetry] /\ MaxRetry \in Nat
  BY SlotNodeAssumption DEF SIInv, Types, Placed
<1>4. workStage' = workStage \/ setWorkStage(n, "finished")
  BY DEF workStage3
<1>5. workStage' \in [Node -> [Epochs -> Stages]] /\ Records'
  <2>1. "finished" \in Stages
    BY DEF Stages
  <2>2. \/ workStage' = workStage
        \/ \E stage \in Stages :
              /\ setWorkStage(n, stage)
              /\ stage \in {"init", "stage1"} => getWorkStage(n) = "init"
    BY <1>4, <2>1
  <2> QED
    BY <1>1, <1>2, <2>2, StageKept
<1>6. errorRetry' \in [Node -> 0 .. MaxRetry]
  <2>1. \/ errorRetry' = [errorRetry EXCEPT ![n] = MaxRetry]
        \/ errorRetry[n] > 0 /\ errorRetry' = [errorRetry EXCEPT ![n] = errorRetry[n] - 1]
    BY DEF workStage3
  <2>2. errorRetry[n] \in 0 .. MaxRetry
    BY <1>3
  <2>3. errorRetry[n] > 0 => errorRetry[n] - 1 \in 0 .. MaxRetry
    BY <1>3, <2>2
  <2>4. MaxRetry \in 0 .. MaxRetry
    BY <1>3
  <2> QED
    BY <1>3, <2>1, <2>3, <2>4
<1>7. /\ securityMsg' \in [Node -> [Epochs -> SMAs \cup {None}]]
      /\ \A k \in Node, e \in Epochs : \A i \in 0 .. Len(hist) : SMAFits(Line(i), e, securityMsg'[k][e])
  <2>1. CASE UNCHANGED securityMsg
    BY <1>3, <2>1 DEF SIInv, Reads
  <2>2. CASE /\ DOMAIN StageTwo(clockEpoch) # {} /\ leadersOf'[n] = clockEpoch
             /\ securityMsg' = [securityMsg EXCEPT ![n][clockEpoch + 1] = StageTwo(clockEpoch)]
    <3>1. clockEpoch \in LeaderEpochs /\ clockEpoch + 1 \in Epochs /\ clockEpoch + 1 - 1 = clockEpoch
      <4>1. clockEpoch \in Nat /\ clockEpoch # 0
        BY <1>3, StageNumbers
      <4>2. leadersOf'[n] \in LeaderEpochs \cup {0}
        BY <1>2 DEF Loaded
      <4>3. clockEpoch \in LeaderEpochs
        BY <2>2, <4>1, <4>2
      <4> QED
        BY <4>1, <4>3, SlotNodeAssumption
    <3>2. StageTwo(clockEpoch) \in SMAs
      <4>1. stg2 \in [Epochs -> [Index -> Alpha \cup {None}]]
        BY LineRight, SnapshotIs DEF SoundState
      <4> DEFINE D == {j \in Index : stg2[clockEpoch][j] # None}
      <4>2. StageTwo(clockEpoch) \in [D -> Alpha] /\ D \in SUBSET Index
        BY <1>3, <4>1 DEF StageTwo
      <4> QED
        BY <4>2 DEF SMAs
    <3>3. ASSUME NEW i \in 0 .. Len(hist)
          PROVE  SMAFits(Line(i), clockEpoch + 1, StageTwo(clockEpoch))
      <4>1. Past(Line(i), clockEpoch, Sma2End)
        BY <1>1, SettledByClock
      <4>2. StageTwoAt(Line(i), clockEpoch) = StageTwo(clockEpoch)
        BY <1>3, <4>1, LineAgrees
      <4> DEFINE h == clockEpoch + 1
                 two == StageTwo(clockEpoch)
      <4>3. h - 1 = clockEpoch /\ DOMAIN two # {}
        <5>1. clockEpoch \in Nat
          BY <1>3, StageNumbers
        <5>2. h - 1 = clockEpoch
          BY <5>1
        <5>3. DOMAIN two # {}
          BY <2>2
        <5> QED
          BY <5>2, <5>3
      <4>4. StageTwoAt(Line(i), clockEpoch) = two
        BY <4>2
      <4> HIDE DEF h, two
      <4>5. h - 1 \in Epochs /\ Past(Line(i), h - 1, Sma2End) /\ two = StageTwoAt(Line(i), h - 1)
        BY <1>3, <4>1, <4>3, <4>4
      <4>6. SMAFits(Line(i), h, two)
        BY <4>3, <4>5 DEF SMAFits
      <4> QED
        BY <4>6 DEF h, two
    <3> DEFINE sma == StageTwo(clockEpoch)
               f == clockEpoch + 1
    <3>4. sma \in SMAs /\ f \in Epochs /\ securityMsg' = [securityMsg EXCEPT ![n][f] = sma]
      BY <2>2, <3>1, <3>2
    <3>5. \A i \in 0 .. Len(hist) : SMAFits(Line(i), f, sma)
      BY <3>3
    <3> HIDE DEF sma, f
    <3>6. securityMsg' \in [Node -> [Epochs -> SMAs \cup {None}]]
      BY <1>3, <3>4
    <3>7. ASSUME NEW k \in Node, NEW e \in Epochs, NEW i \in 0 .. Len(hist)
          PROVE  SMAFits(Line(i), e, securityMsg'[k][e])
      <4>1. CASE k = n /\ e = f
        BY <1>3, <3>4, <3>5, <4>1
      <4>2. CASE ~(k = n /\ e = f)
        <5>1. securityMsg'[k][e] = securityMsg[k][e]
          BY <1>3, <3>4, <4>2
        <5> QED
          BY <5>1 DEF SIInv, Reads
      <4> QED
        BY <4>1, <4>2
    <3> QED
      BY <3>6, <3>7
  <2> QED
    BY <2>1, <2>2 DEF workStage3
<1> QED
  BY <1>1, <1>2, <1>5, <1>6, <1>7 DEF SIInv, Types, Loaded, Turned

\* A turn of the loop keeps the invariant.
LEMMA LoopStep == ASSUME SIInv, NEW n \in Node, Loop(n) PROVE SIInv'
<1>1. UNCHANGED <<chain, clock, hist>> /\ clockEpoch' = clockEpoch
  BY DEF Loop, clock
<1>2. Turned
  BY <1>1, PlainTurn, FirstTurn, ThirdTurn DEF Loop
<1>3. askedEarly' = askedEarly
  BY DEF Loop, workInit, workStage1, workStage2, workStage3, workTooLate, workWait, history
<1>4. clockEpoch \in Epochs
  BY DEF SIInv, Placed
<1>5. /\ RndCache' \in [Node -> [Epochs -> Randoms \cup {None}]]
      /\ \A k \in Node, f \in Epochs : <<k, f>> \notin askedEarly' =>
            \A i \in 0 .. Len(hist) : RandomFits(Line(i), f, RndCache'[k][f])
  <2>1. CASE Cache(n, clockEpoch)
    <3>1. \A i \in 0 .. Len(hist) : Past(Line(i), clockEpoch - 1, SignEnd)
      BY SettledByClock
    <3> QED
      BY <1>3, <1>4, <2>1, <3>1, CacheRight
  <2>2. CASE UNCHANGED RndCache
    BY <1>3, <2>2 DEF SIInv, Types, Reads
  <2> QED
    BY <2>1, <2>2 DEF Loop
<1>6. Types' /\ Records' /\ sent \subseteq sent'
  BY <1>2, <1>5 DEF Turned, Types
<1>7. \A k \in Node, e \in Epochs : \A i \in 0 .. Len(hist) :
         /\ SMAFits(Line(i), e, securityMsg'[k][e])
         /\ <<k, e>> \notin askedEarly' => RandomFits(Line(i), e, RndCache'[k][e])
  BY <1>2, <1>5 DEF Turned
<1> QED
  BY <1>1, <1>6, <1>7, NodeStep

\* The second-stage goroutine sends the numbers that are stored.
LEMMA Stage2WorkStep == ASSUME SIInv, NEW n \in Node, doStage2Work(n) PROVE SIInv'
<1> DEFINE e == workingEpoch[n]
           mine == {i \in MyIndexes(n, leadersOf[n]) : alpha[n][e][i] # None}
<1>1. /\ sent' = sent \cup {Tx("stg2", e, i, n, alpha[n][e][i]) : i \in mine}
      /\ UNCHANGED <<chain, clock, hist, database, leadersOf, errorRetry, RndCache, history>>
  BY DEF doStage2Work, buildStage2TxPayload
<1>2. /\ UNCHANGED <<clockEpoch, workingEpoch, workStage, alpha, securityMsg, leadersOf>>
      /\ UNCHANGED <<errorRetry, RndCache, torn, askedEarly>>
  BY <1>1 DEF clock, database, history
<1>3. ASSUME NEW i \in mine
      PROVE  /\ i \in Index /\ e \in LeaderEpochs /\ Leaders[e][i] = n
             /\ alpha[n][e][i] \in Alpha
  <2>1. i \in Index /\ leadersOf[n] \in LeaderEpochs /\ Leaders[leadersOf[n]][i] = n /\ alpha[n][e][i] # None
    BY <1>3 DEF MyIndexes
  <2>2. leadersOf[n] # 0 /\ leadersOf[n] \in Epochs
    BY <2>1, SlotLeaderAssumption, StageNumbers
  <2>3. leadersOf[n] = e
    BY <2>2 DEF SIInv, Records, Works
  <2>4. alpha \in [Node -> [Epochs -> [Index -> Alpha \cup {None}]]]
    BY DEF SIInv, Types
  <2> QED
    BY <2>1, <2>2, <2>3, <2>4
<1>4. ASSUME NEW tx \in sent' PROVE Carries(tx)'
  <2>1. CASE tx \in sent
    <3>1. Carries(tx)
      BY <2>1 DEF SIInv, Records
    <3> QED
      BY <1>2, <3>1 DEF Carries
  <2>2. ASSUME NEW i \in mine, tx = Tx("stg2", e, i, n, alpha[n][e][i]) PROVE Carries(tx)'
    <3>1. /\ tx.type = "stg2" /\ tx.epoch = e /\ tx.index = i /\ tx.from = n
          /\ tx.data = alpha[n][e][i] /\ tx = Tx(tx.type, tx.epoch, tx.index, tx.from, tx.data)
      BY <2>2 DEF Tx
    <3> HIDE DEF e, mine
    <3> QED
      BY <1>2, <1>3, <2>2, <3>1 DEF Carries
  <2> HIDE DEF e, mine
  <2> QED
    BY <1>1, <2>1, <2>2
<1>5. Records'
  <2>1. \A k \in Node : Works(k)'
    BY <1>2 DEF SIInv, Records, Works
  <2> QED
    BY <1>4, <2>1 DEF Records
<1>6. Types' /\ sent \subseteq sent'
  BY <1>1, <1>2 DEF SIInv, Types
<1>7. \A k \in Node, f \in Epochs : \A i \in 0 .. Len(hist) :
         /\ SMAFits(Line(i), f, securityMsg'[k][f])
         /\ <<k, f>> \notin askedEarly' => RandomFits(Line(i), f, RndCache'[k][f])
  BY <1>2 DEF SIInv, Reads
<1> QED
  BY <1>1, <1>5, <1>6, <1>7, NodeStep

\* A step that only caches a random number keeps the invariant when the
\* number is settled or was asked for in advance.
LEMMA CacheStep ==
    ASSUME SIInv, NEW n \in Node, NEW e \in Epochs, Cache(n, e), askedEarly \subseteq askedEarly',
           <<n, e>> \in askedEarly' \/ \A i \in 0 .. Len(hist) : Past(Line(i), e - 1, SignEnd),
           UNCHANGED <<chain, clock, hist, database, leadersOf, errorRetry, sent, torn>>
    PROVE  SIInv'
<1>1. UNCHANGED <<clockEpoch, workingEpoch, workStage, alpha, securityMsg, leadersOf, errorRetry, sent, torn>>
  BY DEF clock, database
<1>2. /\ RndCache' \in [Node -> [Epochs -> Randoms \cup {None}]]
      /\ \A k \in Node, f \in Epochs : <<k, f>> \notin askedEarly' =>
            \A i \in 0 .. Len(hist) : RandomFits(Line(i), f, RndCache'[k][f])
  BY CacheRight
<1>3. Types'
  BY <1>1, <1>2 DEF SIInv, Types
<1>4. Records'
  BY <1>1 DEF SIInv, Records, Works, Carries
<1>5. \A k \in Node, f \in Epochs : \A i \in 0 .. Len(hist) :
         /\ SMAFits(Line(i), f, securityMsg'[k][f])
         /\ <<k, f>> \notin askedEarly' => RandomFits(Line(i), f, RndCache'[k][f])
  BY <1>1, <1>2 DEF SIInv, Reads
<1> QED
  BY <1>1, <1>3, <1>4, <1>5, NodeStep

\* A request for a slot leader of an epoch to come.
LEMMA AskStep ==
    ASSUME SIInv, NEW n \in Node, NEW e \in Epochs, GetSlotLeaderByEpochIDAndSlotID(n, e)
    PROVE  SIInv'
<1>1. /\ Cache(n, e) /\ askedEarly' = askedEarly \cup {<<n, e>>}
      /\ UNCHANGED <<chain, clock, hist, database, leadersOf, errorRetry, sent, torn>>
  BY DEF GetSlotLeaderByEpochIDAndSlotID
<1> QED
  BY <1>1, CacheStep

\* A block is received: the random number of the block's epoch is settled.
LEMMA ReceiveStep == ASSUME SIInv, NEW n \in Node, ReceiveBlock(n) PROVE SIInv'
<1>1. /\ Cache(n, epoch)
      /\ UNCHANGED <<chain, clock, hist, database, leadersOf, errorRetry, sent, torn, askedEarly>>
  BY DEF ReceiveBlock, history
<1>2. epoch \in Epochs
  BY LineRight, SnapshotIs DEF InTime
<1>3. \A i \in 0 .. Len(hist) : Past(Line(i), epoch - 1, SignEnd)
  BY SettledByClock
<1> QED
  BY <1>1, <1>2, <1>3, CacheStep

\* What a crash leaves of the caches and the counters is right.
LEMMA RestartRight ==
    ASSUME SIInv, NEW n \in Node, Restarted(n), UNCHANGED <<securityMsg, askedEarly>>
    PROVE  /\ errorRetry' \in [Node -> 0 .. MaxRetry]
           /\ RndCache' \in [Node -> [Epochs -> Randoms \cup {None}]]
           /\ \A k \in Node, e \in Epochs : \A i \in 0 .. Len(hist) :
                 /\ SMAFits(Line(i), e, securityMsg'[k][e])
                 /\ <<k, e>> \notin askedEarly' => RandomFits(Line(i), e, RndCache'[k][e])
<1>1. /\ errorRetry \in [Node -> 0 .. MaxRetry] /\ MaxRetry \in Nat
      /\ RndCache \in [Node -> [Epochs -> Randoms \cup {None}]]
  BY SlotNodeAssumption DEF SIInv, Types
<1>2. errorRetry' = [errorRetry EXCEPT ![n] = MaxRetry] /\ MaxRetry \in 0 .. MaxRetry
  BY <1>1 DEF Restarted
<1> DEFINE empty == [e \in Epochs |-> None]
<1>3. RndCache' = [RndCache EXCEPT ![n] = empty] /\ empty \in [Epochs -> Randoms \cup {None}]
      /\ \A e \in Epochs : empty[e] = None
  BY DEF Restarted
<1> HIDE DEF empty
<1>4. RndCache' \in [Node -> [Epochs -> Randoms \cup {None}]] /\ errorRetry' \in [Node -> 0 .. MaxRetry]
  BY <1>1, <1>2, <1>3
<1>5. ASSUME NEW k \in Node, NEW e \in Epochs, NEW i \in 0 .. Len(hist), <<k, e>> \notin askedEarly'
      PROVE  RandomFits(Line(i), e, RndCache'[k][e])
  <2>1. CASE k = n
    <3>1. RndCache'[k][e] = None
      BY <1>1, <1>3, <2>1
    <3> QED
      BY <3>1 DEF RandomFits
  <2>2. CASE k # n
    <3>1. RndCache'[k][e] = RndCache[k][e]
      BY <1>1, <1>3, <2>2
    <3> QED
      BY <1>5, <3>1 DEF SIInv, Reads
  <2> QED
    BY <2>1, <2>2
<1>6. \A k \in Node, e \in Epochs : \A i \in 0 .. Len(hist) : SMAFits(Line(i), e, securityMsg'[k][e])
  BY DEF SIInv, Reads
<1> QED
  BY <1>4, <1>5, <1>6

\* A crash between two loops.
LEMMA CrashStep == ASSUME SIInv, NEW n \in Node, Crash(n, {}) PROVE SIInv'
<1>1. /\ Restarted(n) /\ sent' = sent
      /\ UNCHANGED <<chain, clock, hist, database, torn, askedEarly>>
  BY DEF Crash
<1>2. UNCHANGED <<clockEpoch, workingEpoch, workStage, alpha, securityMsg>>
  BY <1>1 DEF clock, database
<1>3. leadersOf' = [leadersOf EXCEPT ![n] = 0]
  BY <1>1 DEF Restarted
<1>4. Loaded(n)
  BY <1>2, <1>3, LoadRight
<1>5. Records'
  BY <1>1, <1>2, <1>4, StageKept
<1>6. Types'
  BY <1>1, <1>2, <1>4, RestartRight DEF SIInv, Types, Loaded
<1> QED
  BY <1>1, <1>2, <1>5, <1>6, RestartRight, NodeStep

\* A crash in the middle of the first stage.
LEMMA CrashInStage1Step == ASSUME SIInv, NEW n \in Node, CrashInStage1(n, {}) PROVE SIInv'
<1>1. /\ Restarted(n) /\ InStage1Work(n)
      /\ workingEpoch' = [workingEpoch EXCEPT ![n] = clockEpoch]
      /\ UNCHANGED <<chain, clock, hist, workStage, securityMsg, askedEarly>>
  BY DEF CrashInStage1
<1>2. clockEpoch' = clockEpoch /\ getWorkStage(n) = "stage1"
  BY <1>1 DEF clock, InStage1Work
<1>3. Loaded(n)
  BY <1>1, LoadRight DEF Restarted
<1>4. PICK last \in MyIndexes(n, clockEpoch) :
         LET done == {i \in MyIndexes(n, clockEpoch) : i <= last} IN
         /\ Draw(done)
         /\ alpha' = PutAlpha(n, clockEpoch, done)
         /\ sent' = sent \cup {Tx("stg1", clockEpoch, i, n, drawn'[i]) : i \in done \ {}}
         /\ torn' = torn \cup {<<clockEpoch, i>> : i \in done}
  BY DEF CrashInStage1
<1> DEFINE done == {i \in MyIndexes(n, clockEpoch) : i <= last}
<1>5. done \in SUBSET MyIndexes(n, clockEpoch) /\ done \ {} = done
  OBVIOUS
<1>6. /\ Draw(done) /\ alpha' = PutAlpha(n, clockEpoch, done)
      /\ sent' = sent \cup {Tx("stg1", clockEpoch, i, n, drawn'[i]) : i \in done \ {}}
      /\ torn' = torn \cup {<<clockEpoch, i>> : i \in done}
  BY <1>4
<1> HIDE DEF done
<1>7. sent' = sent \cup {Tx("stg1", clockEpoch, i, n, drawn'[i]) : i \in done}
  BY <1>5, <1>6
<1>8. /\ workStage' \in [Node -> [Epochs -> Stages]] /\ Records'
      /\ alpha' \in [Node -> [Epochs -> [Index -> Alpha \cup {None}]]]
  BY <1>1, <1>2, <1>3, <1>5, <1>6, <1>7, DrawKept
<1>9. Types'
  BY <1>1, <1>3, <1>8, RestartRight DEF SIInv, Types, Loaded
<1>10. sent \subseteq sent'
  BY <1>7
<1> QED
  BY <1>1, <1>8, <1>9, <1>10, RestartRight, NodeStep

\* The first state.
LEMMA NodesStart == ASSUME SLNInit PROVE SIInv
<1>1. /\ epoch = 1 /\ slot = 0 /\ clockEpoch = 1 /\ clockSlot = 0 /\ hist = << >> /\ delivered = {}
      /\ stg1 = [e \in Epochs |-> [i \in Index |-> None]]
      /\ stg2 = [e \in Epochs |-> [i \in Index |-> None]]
  BY DEF SLNInit, SLInit
<1>2. 1 \in Epochs /\ 0 \in 0 .. LastEpochId /\ 0 \in 0 .. SlotCount - 1 /\ MaxRetry \in 0 .. MaxRetry
      /\ LastEpochId \in Nat /\ LastSlot \in Nat /\ MaxReorg \in Nat /\ SlotCount \in Nat
  BY SlotLeaderAssumption, SlotNodeAssumption, StageNumbers DEF Epochs
<1>3. Types
  <2>1. "init" \in Stages
    BY DEF Stages
  <2> QED
    BY <1>2, <2>1 DEF SLNInit, Types
<1>4. Len(hist) = 0 /\ hist \in Seq(Elements(hist))
  BY <1>1
<1>5. Now \in Nat /\ Now = Clock
  BY <1>1, <1>2 DEF Now, Clock, Time
<1>6. Placed
  BY <1>1, <1>2, <1>4, <1>5 DEF Placed
<1>7. \A i \in 0 .. Len(hist) : Line(i) = Snapshot
  BY <1>4 DEF Line
<1>8. SoundState(Snapshot) /\ Committed(Snapshot)
  <2>1. SoundState(Snapshot)
    BY <1>1, <1>2, SnapshotIs DEF SoundState, InTime
  <2>2. Committed(Snapshot)
    BY <1>1, SnapshotIs DEF Committed
  <2> QED
    BY <2>1, <2>2
<1>9. Sound /\ LineSettled
  <2>1. SameSettled(Snapshot, Snapshot)
    BY DEF SameSettled
  <2> QED
    BY <1>7, <1>8, <2>1 DEF Sound, LineSettled
<1>10. Reads
  <2>1. \A n \in Node, e \in Epochs : securityMsg[n][e] = None /\ RndCache[n][e] = None
    BY DEF SLNInit
  <2> QED
    BY <2>1 DEF Reads, SMAFits, RandomFits
<1>11. Records
  <2>1. \A n \in Node : leadersOf[n] = 0 /\ workingEpoch[n] = 0
    BY DEF SLNInit
  <2>2. \A n \in Node, e \in Epochs, i \in Index : alpha[n][e][i] = None
    BY DEF SLNInit
  <2>3. \A n \in Node : Works(n)
    BY <1>1, <2>1, <2>2 DEF Works
  <2>4. sent = {}
    BY DEF SLNInit
  <2> QED
    BY <2>3, <2>4 DEF Records
<1> QED
  BY <1>3, <1>6, <1>9, <1>10, <1>11 DEF SIInv

\* Every step keeps the invariant.
LEMMA NodesStep == SIInv /\ [SLNNext]_slnvars => SIInv'
<1> SUFFICES ASSUME SIInv, [SLNNext]_slnvars PROVE SIInv'
  OBVIOUS
<1>1. ASSUME NEW n \in Node, Loop(n) PROVE SIInv'
  BY <1>1, LoopStep
<1>2. ASSUME NEW n \in Node, doStage2Work(n) PROVE SIInv'
  BY <1>2, Stage2WorkStep
<1>3. ASSUME NEW n \in Node, ReceiveBlock(n) PROVE SIInv'
  BY <1>3, ReceiveStep
<1>4. ASSUME NEW n \in Node, NEW e \in Epochs, GetSlotLeaderByEpochIDAndSlotID(n, e) PROVE SIInv'
  BY <1>4, AskStep
<1>5. ASSUME NEW n \in Node, Crash(n, {}) \/ CrashInStage1(n, {}) PROVE SIInv'
  BY <1>5, CrashStep, CrashInStage1Step
<1>6. ASSUME NEW tx \in sent, Include(tx) PROVE SIInv'
  BY <1>6, IncludeStep
<1>7. CASE DeliverRandom
  BY <1>7, DeliverStep
<1>8. CASE Tick \/ CatchUp
  BY <1>8, AdvanceStep
<1>9. CASE Reorg
  BY <1>9, ReorgStep
<1>10. CASE UNCHANGED slnvars
  <2>1. /\ UNCHANGED <<chain, clock, hist, sent>>
        /\ UNCHANGED <<clockEpoch, workingEpoch, workStage, alpha, securityMsg>>
        /\ UNCHANGED <<leadersOf, errorRetry, RndCache, torn, askedEarly>>
    BY <1>10 DEF slnvars, nodeVars, database, memory, history, clock
  <2>2. Types'
    BY <2>1 DEF SIInv, Types
  <2>3. Records'
    BY <2>1 DEF SIInv, Records, Works, Carries
  <2>4. \A k \in Node, f \in Epochs : \A i \in 0 .. Len(hist) :
           /\ SMAFits(Line(i), f, securityMsg'[k][f])
           /\ <<k, f>> \notin askedEarly' => RandomFits(Line(i), f, RndCache'[k][f])
    BY <2>1 DEF SIInv, Reads
  <2> QED
    BY <2>1, <2>2, <2>3, <2>4, NodeStep
<1> QED
  BY <1>1, <1>2, <1>3, <1>4, <1>5, <1>6, <1>7, <1>8, <1>9, <1>10 DEF SLNNext

\* The nodes' records, the states of the chain and what was read from them
\* keep the inductive invariant, whatever the interleaving of loops,
\* goroutines, transactions, crashes and replaced branches.
THEOREM SlotNodesInductive == SLNSpec => []SIInv
<1>1. SLNInit => SIInv
  BY NodesStart
<1> QED
  BY <1>1, NodesStep, PTL DEF SLNSpec

\* The nodes' records have their types, and what a node publishes in the
\* second stage is what its commitment on the branch says (startStage1Work,
\* doStage2Work, handleStgOne), unless it crashed between the two.
THEOREM NodeRecordsFitAlways == SLNSpec => []NodeRecordsFit
<1>1. SIInv => NodeRecordsFit
  <2> SUFFICES ASSUME SIInv PROVE NodeRecordsFit
    OBVIOUS
  <2>1. SLNTypeOK
    <3>1. \A n \in Node, e \in Epochs : securityMsg[n][e] # None => securityMsg[n][e] \in SMAs
      BY DEF SIInv, Types
    <3>2. delivered \subseteq Epochs
      BY LineRight, SnapshotIs DEF SoundState
    <3> QED
      BY <3>1, <3>2 DEF SIInv, Types, Placed, SLNTypeOK, SMAs
  <2>2. ArraysFitCommitments
    <3> SUFFICES ASSUME NEW tx \in sent, tx.type = "stg2", <<tx.epoch, tx.index>> \notin torn
                 PROVE  stg1[tx.epoch][tx.index] \in {None, tx.data}
      BY DEF ArraysFitCommitments
    <3> DEFINE e == tx.epoch
               i == tx.index
               n == tx.from
    <3>1. /\ e \in LeaderEpochs /\ e \in Epochs /\ i \in Index /\ n = Leaders[e][i]
          /\ alpha[n][e][i] = tx.data
      BY SlotLeaderAssumption DEF SIInv, Records, Carries
    <3>2. Committed(Snapshot)
      <4>1. 0 \in 0 .. Len(hist) /\ Line(0) = Snapshot
        BY LineRight DEF Line
      <4> QED
        BY <4>1 DEF SIInv, Sound
    <3>3. ASSUME stg1[e][i] # None PROVE stg1[e][i] = tx.data
      <4> DEFINE c == Tx("stg1", e, i, n, stg1[e][i])
      <4>1. c \in sent
        BY <3>1, <3>2, <3>3, SnapshotIs DEF Committed
      <4>2. c.epoch = e /\ c.index = i /\ c.from = n /\ c.data = stg1[e][i]
        BY DEF Tx
      <4>3. Carries(c)
        BY <4>1 DEF SIInv, Records
      <4> HIDE DEF c, e, i, n
      <4>4. <<c.epoch, c.index>> \notin torn
        BY <4>2 DEF e, i
      <4>5. alpha[n][e][i] = c.data
        BY <4>2, <4>3, <4>4 DEF Carries
      <4> QED
        BY <3>1, <4>2, <4>5
    <3> QED
      BY <3>3
  <2> QED
    BY <2>1, <2>2 DEF NodeRecordsFit
<1> QED
  BY <1>1, SlotNodesInductive, PTL

\* The SMA a node has stored (generateSecurityMsg) is the one that every
\* branch yields the chain can still switch to.
THEOREM SMAIsFinalAlways == SLNSpec => []SMAIsFinal
<1>1. SIInv => SMAIsFinal
  <2> SUFFICES ASSUME SIInv, NEW n \in Node, NEW e \in Epochs, securityMsg[n][e] # None
               PROVE  /\ securityMsg[n][e] = StageTwo(e - 1)
                      /\ \A d \in 1 .. Len(hist) : hist[d].stg2[e - 1] = stg2[e - 1]
    BY DEF SMAIsFinal
  <2>1. ASSUME NEW i \in 0 .. Len(hist)
        PROVE  /\ e - 1 \in Epochs /\ Past(Line(i), e - 1, Sma2End)
               /\ securityMsg[n][e] = StageTwoAt(Line(i), e - 1)
    BY DEF SIInv, Reads, SMAFits
  <2>2. Len(hist) \in Nat
    BY LineRight
  <2>3. 0 \in 0 .. Len(hist)
    BY <2>2
  <2>4. e - 1 \in Epochs
    BY <2>1, <2>3
  <2>5. securityMsg[n][e] = StageTwo(e - 1)
    BY <2>1, <2>3, <2>4, LineAgrees
  <2>6. ASSUME NEW d \in 1 .. Len(hist) PROVE hist[d].stg2[e - 1] = stg2[e - 1]
    <3>1. d \in 0 .. Len(hist) /\ Line(d) = hist[d]
      BY <2>2 DEF Line
    <3>2. SameSettled(Line(d), Snapshot) /\ Past(Line(d), e - 1, Sma2End)
      BY <2>1, <3>1 DEF SIInv, LineSettled
    <3>3. Line(d).stg2[e - 1] = Snapshot.stg2[e - 1]
      BY <2>4, <3>2 DEF SameSettled
    <3> QED
      BY <3>1, <3>3, SnapshotIs
  <2> QED
    BY <2>5, <2>6
<1> QED
  BY <1>1, SlotNodesInductive, PTL

\* The random number a node has cached for the present epoch (getRandom) is
\* the chain's, unless it was asked for before the epoch began.
THEOREM CachedRandomIsChainsAlways == SLNSpec => []CachedRandomIsChains
<1>1. SIInv => CachedRandomIsChains
  <2> SUFFICES ASSUME SIInv, NEW n \in Node, <<n, clockEpoch>> \notin askedEarly,
                      RndCache[n][clockEpoch] # None
               PROVE  RndCache[n][clockEpoch] = IF clockEpoch \in delivered THEN "own" ELSE "default"
    BY DEF CachedRandomIsChains
  <2>1. clockEpoch \in Epochs /\ Len(hist) \in Nat
    BY LineRight DEF SIInv, Placed
  <2>2. 0 \in 0 .. Len(hist) /\ Line(0) = Snapshot
    BY <2>1 DEF Line
  <2>3. RndCache[n][clockEpoch] = RandomAt(Snapshot, clockEpoch)
    BY <2>1, <2>2 DEF SIInv, Reads, RandomFits
  <2> QED
    BY <2>3, SnapshotIs DEF RandomAt
<1> QED
  BY <1>1, SlotNodesInductive, PTL

\* The proof with which a leader seals (getSlotLeaderProof) is accepted by
\* every node (VerifySlotProof), at whatever moment each read the chain.
THEOREM ProofsVerifyAlways == SLNSpec => []ProofsVerify
<1>1. SIInv => ProofsVerify
  <2> SUFFICES ASSUME SIInv, NEW n \in Node, NEW v \in Node,
                      clockEpoch - 1 \in LeaderEpochs,
                      {<<n, clockEpoch>>, <<v, clockEpoch>>} \cap askedEarly = {},
                      securityMsg[n][clockEpoch] # None \/ DOMAIN StageTwo(clockEpoch - 1) = {}
               PROVE  VerifySlotProof(v, clockEpoch, Proof(n, clockEpoch))
    BY DEF ProofsVerify
  <2> DEFINE e == clockEpoch
             two == StageTwo(e - 1)
  <2>1. e \in Epochs /\ Len(hist) \in Nat
    BY LineRight DEF SIInv, Placed
  <2>2. 0 \in 0 .. Len(hist) /\ Line(0) = Snapshot
    BY <2>1 DEF Line
  <2>3. ASSUME NEW k \in Node, <<k, e>> \notin askedEarly
        PROVE  getRandom(k, e) = RandomAt(Snapshot, e)
    <3>1. RandomFits(Snapshot, e, RndCache[k][e])
      BY <2>1, <2>2, <2>3 DEF SIInv, Reads
    <3> QED
      BY <3>1, SnapshotIs DEF RandomFits, getRandom, RandomAt
  <2>4. getRandom(n, e) = getRandom(v, e)
    BY <2>3
  <2>5. ASSUME securityMsg[n][e] # None PROVE securityMsg[n][e] = two /\ DOMAIN two # {}
    <3>1. /\ e - 1 \in Epochs /\ DOMAIN securityMsg[n][e] # {}
          /\ Past(Snapshot, e - 1, Sma2End) /\ securityMsg[n][e] = StageTwoAt(Snapshot, e - 1)
      BY <2>1, <2>2, <2>5 DEF SIInv, Reads, SMAFits
    <3>2. StageTwoAt(Snapshot, e - 1) = StageTwo(e - 1)
      BY <2>2, <3>1, LineAgrees
    <3> QED
      BY <3>1, <3>2
  <2> HIDE DEF two
  <2>6. CASE securityMsg[n][e] # None
    BY <2>4, <2>5, <2>6 DEF VerifySlotProof, Proof, getStageTwoFromTrans, two
  <2>7. CASE securityMsg[n][e] = None
    BY <2>7 DEF VerifySlotProof, Proof, getStageTwoFromTrans, verifySlotProofByGenesis
  <2> QED
    BY <2>6, <2>7
<1> QED
  BY <1>1, SlotNodesInductive, PTL

=============================================================================
