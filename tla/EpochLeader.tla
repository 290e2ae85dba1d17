----------------------------- MODULE EpochLeader -----------------------------
(***************************************************************************)
(* pos/epochLeader: the draw of the epoch leaders and of the random number *)
(* proposers of one epoch by a goroutine, and the store of package posdb   *)
(* it writes them to one by one, with crashes between any two writes.      *)
(*                                                                         *)
(* A validator is its place in the order in which the state iterates over  *)
(* the stakers.  The chain of hashes that starts from the random number is *)
(* any sequence of numbers, the same in every attempt.                     *)
(***************************************************************************)
EXTENDS Integers, Sequences, FiniteSets, FiniteSetsExt, Functions

CONSTANTS
    MaxStakers,         \* bound on the validators that can be drawn
    MaxWeight,          \* bound on a validator's probability
    MaxDraw,            \* bound on the hashes
    EpochLeaderCount, RandomProperCount,  \* of posconfig
    White,              \* the white list of the epoch, in order
    MaxCrashes          \* bound on the crashes

ASSUME EpochLeaderAssumption ==
    /\ MaxStakers \in Nat /\ MaxWeight \in Nat \ {0} /\ MaxDraw \in Nat
    /\ EpochLeaderCount \in Nat /\ RandomProperCount \in Nat
    /\ White \in Seq(Nat) /\ Len(White) <= EpochLeaderCount
    /\ MaxCrashes \in Nat

VARIABLES
    weight,    \* what CalEpochProbabilityStaker gives, in the state's order
    draw,      \* per group: the hashes
    db,        \* per group: its database
    sel,       \* where SelectLeadersLoop is
    selected,  \* selectedEpochId is this epoch (memory of the process)
    ended,     \* the epoch in which the draw is made is over
    crashes

elvars == <<weight, draw, db, sel, selected, ended, crashes>>

Group == {"el", "rb"}
None == 0
Idle == [group |-> "none", i |-> 0, at |-> "idle"]
-----------------------------------------------------------------------------
(***************************************************************************)
(* The draw                                                                *)
(***************************************************************************)

\* The place of a validator: by weight, equal weights in the state's order.
Rank(i) ==
    Cardinality({j \in DOMAIN weight :
                    \/ weight[j] < weight[i]
                    \/ weight[j] = weight[i] /\ j <= i})

Sorted == [k \in DOMAIN weight |-> CHOOSE i \in DOMAIN weight : Rank(i) = k]

\* Sorted, then summed up.
createStakerProbabilityArray ==
    [k \in DOMAIN weight |->
        [id |-> Sorted[k],
         Probabilities |-> SumFunctionOnSet([j \in DOMAIN weight |-> weight[Sorted[j]]], 1..k)]]

TotalProbability == createStakerProbabilityArray[Len(weight)].Probabilities

PickNotBelow(cr) ==
    LET ps == createStakerProbabilityArray
        x == cr % TotalProbability
    IN  ps[Min({k \in DOMAIN ps : ps[k].Probabilities >= x})].id

\* The first whose sum is above the hash.
Pick(cr) ==
    LET ps == createStakerProbabilityArray
        x == cr % TotalProbability
    IN  ps[Min({k \in DOMAIN ps : ps[k].Probabilities > x})].id

\* The white list has the last places among the epoch leaders.  Its count
\* comes from the state SelectLeadersLoop has just opened, so that the
\* branch in which GetWhiteInfo cannot open it is left out.
selectionCount(g) ==
    IF g = "el" THEN EpochLeaderCount - Len(White) ELSE RandomProperCount

Picks(g) == [i \in 1..selectionCount(g) |-> Pick(draw[g][i])]
-----------------------------------------------------------------------------
(***************************************************************************)
(* posdb: a value is put, and if there was none under the key, the key is  *)
(* added to a list that is stored as numbered names and a count.           *)
(***************************************************************************)

EmptyDb(n) == [value |-> [i \in 1..n |-> None],
               keyName |-> [i \in 1..n |-> None],
               keyCount |-> 0]

getAllKeys(g) == [k \in 1..db[g].keyCount |-> db[g].keyName[k]]

GetStorageByteArray(g) ==
    [k \in 1..db[g].keyCount |-> db[g].value[getAllKeys(g)[k]]]

GetEpochLeadersFilledUp ==
    LET epArray == GetStorageByteArray("el")
    IN  IF epArray = <<>> THEN epArray
        ELSE epArray \o [i \in 1..(EpochLeaderCount - Len(epArray)) |->
                             White[1 + ((i - 1) % Len(White))]]

GetEpochLeaders ==
    LET epArray == GetStorageByteArray("el")
    IN  IF Len(epArray) = EpochLeaderCount - Len(White)
        THEN epArray \o White ELSE epArray

GetRBProposerGroup == GetStorageByteArray("rb")
-----------------------------------------------------------------------------
(***************************************************************************)
(* The goroutine                                                           *)
(***************************************************************************)

\* The next put: the epoch leaders, then the proposers.
From(g, i) ==
    CASE i <= selectionCount(g) -> [group |-> g, i |-> i, at |-> "put"]
      [] g = "el" /\ i > selectionCount(g) /\ RandomProperCount > 0 ->
            [group |-> "rb", i |-> 1, at |-> "put"]
      [] OTHER -> Idle

\* A block with a slot of at least 2 * K + 1 starts the selection once.
\* Without stakers it ends with nothing stored.
UpdateEpochBlock ==
    /\ ~ended /\ ~selected
    /\ selected' = TRUE
    /\ sel' = IF weight = <<>> THEN Idle ELSE From("el", 1)
    /\ UNCHANGED <<weight, draw, db, ended, crashes>>

PutValueSameHashes ==
    /\ sel.at = "put"
    /\ db' = [db EXCEPT ![sel.group].value[sel.i] = Pick(draw["el"][sel.i])]
    /\ sel' = [sel EXCEPT !.at = "name"]
    /\ UNCHANGED <<weight, draw, selected, ended, crashes>>

PutValueListed ==
    /\ sel.at = "put"
    /\ db' = [db EXCEPT ![sel.group].value[sel.i] = Picks(sel.group)[sel.i]]
    /\ sel' = [sel EXCEPT !.at =
                  IF db[sel.group].keyCount < selectionCount(sel.group)
                  THEN "name" ELSE "put"]
    /\ UNCHANGED <<weight, draw, selected, ended, crashes>>

\* put: has, then the value.  A key that was there is not listed again.
PutValue ==
    /\ sel.at = "put"
    /\ LET g == sel.group
           i == sel.i
           has == db[g].value[i] # None
       IN  /\ db' = [db EXCEPT ![g].value[i] = Picks(g)[i]]
           /\ sel' = IF has THEN From(g, i + 1) ELSE [sel EXCEPT !.at = "name"]
    /\ UNCHANGED <<weight, draw, selected, ended, crashes>>

\* saveKey: the key under the next number.
PutKeyName ==
    /\ sel.at = "name"
    /\ LET g == sel.group
       IN  db' = [db EXCEPT ![g].keyName[db[g].keyCount + 1] = sel.i]
    /\ sel' = [sel EXCEPT !.at = "count"]
    /\ UNCHANGED <<weight, draw, selected, ended, crashes>>

PutKeyCountTwice ==
    /\ sel.at = "count"
    /\ db' = [db EXCEPT ![sel.group].keyCount = @ + 2]
    /\ sel' = From(sel.group, sel.i + 1)
    /\ UNCHANGED <<weight, draw, selected, ended, crashes>>

\* saveKey: the count.
PutKeyCount ==
    /\ sel.at = "count"
    /\ db' = [db EXCEPT ![sel.group].keyCount = @ + 1]
    /\ sel' = From(sel.group, sel.i + 1)
    /\ UNCHANGED <<weight, draw, selected, ended, crashes>>

\* Blocks of the next epoch no longer start this selection.
EpochEnds ==
    /\ ~ended
    /\ ended' = TRUE
    /\ UNCHANGED <<weight, draw, db, sel, selected, crashes>>

\* The process dies and starts again; what is in the databases stays.
Crash ==
    /\ crashes < MaxCrashes
    /\ crashes' = crashes + 1
    /\ sel' = Idle /\ selected' = FALSE
    /\ UNCHANGED <<weight, draw, db, ended>>
-----------------------------------------------------------------------------
ELInit ==
    /\ weight \in UNION {[1..n -> 1..MaxWeight] : n \in 0..MaxStakers}
    /\ draw \in {f \in [Group -> UNION {[1..n -> 0..MaxDraw] :
                                 n \in {selectionCount(g) : g \in Group}}] :
                    \A g \in Group : Len(f[g]) = selectionCount(g)}
    /\ db = [g \in Group |-> EmptyDb(selectionCount(g))]
    /\ sel = Idle /\ selected = FALSE /\ ended = FALSE /\ crashes = 0

ELNext ==
    \/ UpdateEpochBlock \/ PutValue \/ PutKeyName \/ PutKeyCount
    \/ EpochEnds \/ Crash

ELSpec == ELInit /\ [][ELNext]_elvars
-----------------------------------------------------------------------------
(***************************************************************************)
(* Properties                                                              *)
(***************************************************************************)

\* Type: databases hold validators, keys are places of the group.
ELTypeOK ==
    /\ \A g \in Group :
         LET n == selectionCount(g)
         IN  /\ db[g].value \in [1..n -> 0..Len(weight)]
             /\ db[g].keyName \in [1..n -> 0..n]
             /\ db[g].keyCount \in 0..n
    /\ sel = Idle \/ sel \in [group : Group, at : {"put", "name", "count"},
                              i : 1..(EpochLeaderCount + RandomProperCount)]
    /\ selected \in BOOLEAN /\ ended \in BOOLEAN /\ crashes \in 0..MaxCrashes

\* Of the residues a hash can have, each validator is drawn for exactly as
\* many as its probability (createStakerProbabilityArray's sort and running
\* sums, and the binary search for the first sum above the residue).
FairShare ==
    weight # <<>> =>
        \A v \in DOMAIN weight :
            Cardinality({x \in 0..(TotalProbability - 1) : Pick(x) = v}) = weight[v]

\* Whatever is read of a group at any time, also in the middle of a write
\* and after crashes, is in the order of the draw, without repetition, and
\* holds the validators drawn for those places.
ListedInOrder ==
    \A g \in Group :
        LET keys == getAllKeys(g)
        IN  /\ \A a, b \in DOMAIN keys : a < b => keys[a] < keys[b]
            /\ \A a \in DOMAIN keys :
                   GetStorageByteArray(g)[a] = Picks(g)[keys[a]]

\* A group that is read with all its members, white list included, is the
\* group that was drawn: GetEpochLeaders never takes a group in the making,
\* or one left behind by a crash, for a complete one.  (GetEpLeaderGroup,
\* which answers a remote call, fills any group up to the full size.)
FullIsRight ==
    Len(GetEpochLeaders) = EpochLeaderCount /\ weight # <<>> =>
        GetEpochLeaders = Picks("el") \o White

\* Once the selection has ended, the node has the groups that every other
\* node draws from the same state.
SelectedAgree ==
    selected /\ sel = Idle /\ weight # <<>> =>
        /\ GetEpochLeaders = Picks("el") \o White
        /\ GetRBProposerGroup = Picks("rb")

\* The same for a node that did not crash in the selection.
AgreeUnlessCrashed == crashes = 0 => SelectedAgree

\* The database has its types and the draw is fair.
FairDraw == ELTypeOK /\ FairShare

\* Nothing that is read in the middle of a write or after crashes is out of
\* order, wrong or taken for more than it is.
ReadsRight == ListedInOrder /\ FullIsRight
=============================================================================
