-------------------------- MODULE BlockChainProofs --------------------------
(***************************************************************************)
(* Proofs about the block chain for every tree of blocks, every order of   *)
(* deliveries, own blocks and deaths: stored blocks have their ancestors,  *)
(* the index is the head's chain, blocks that are deep enough stay, and an *)
(* import without an error left nothing out.                               *)
(***************************************************************************)
EXTENDS BlockChain, SumLemmas, SequenceTheorems

-----------------------------------------------------------------------------
(* Chains and their ancestors.                                             *)

(* The slot before the first of the proof-of-stake stage.                  *)
Base == FirstEpochId * SlotCount - 1

(* The slot of the parent of the i-th block of b's chain.                  *)
Prev(b, i) == IF i = 1 THEN Base ELSE b[i - 1]

(* The slots of a chain grow.                                              *)
Chain == {b \in Seq(Nat) : \A i \in 1..Len(b) : Prev(b, i) < b[i]}

\* That slot is a number.
LEMMA BaseNat == Base \in Nat
<1>1. FirstEpochId * SlotCount \in Nat \ {0}
  BY ChainAssumption
<1> QED
  BY <1>1 DEF Base

\* The ancestor of b at height n holds the first n slots of b.
LEMMA AncestorRight ==
    ASSUME NEW b \in Seq(Nat), NEW n \in 0..Len(b)
    PROVE  /\ Ancestor(b, n) \in Seq(Nat) /\ Len(Ancestor(b, n)) = n
           /\ \A i \in 1..n : Ancestor(b, n)[i] = b[i]
           /\ n = 0 => Ancestor(b, n) = <<>>
           /\ n > 0 => Ancestor(b, n) # <<>>
           /\ n = Len(b) => Ancestor(b, n) = b
<1>1. Len(b) \in Nat /\ \A i \in 1..n : b[i] \in Nat
  OBVIOUS
<1>2. /\ SubSeq(b, 1, n) \in Seq(Nat)
      /\ Len(SubSeq(b, 1, n)) = IF 1 <= n THEN n - 1 + 1 ELSE 0
      /\ \A i \in 1..n - 1 + 1 : SubSeq(b, 1, n)[i] = b[1 + i - 1]
  BY <1>1, SubSeqProperties
<1>3. /\ Ancestor(b, n) \in Seq(Nat) /\ Len(Ancestor(b, n)) = n
      /\ \A i \in 1..n : Ancestor(b, n)[i] = b[i]
  BY <1>1, <1>2 DEF Ancestor
<1>4. n = 0 => Ancestor(b, n) = <<>>
  BY SubSeqEmpty DEF Ancestor
<1>5. n = Len(b) => Ancestor(b, n) = b
  BY SubSeqFull DEF Ancestor
<1>6. n > 0 => Ancestor(b, n) # <<>>
  BY <1>3
<1> QED
  BY <1>3, <1>4, <1>5, <1>6

\* Going back to a height in two steps or in one is the same.
LEMMA AncestorOfAncestor ==
    ASSUME NEW b \in Seq(Nat), NEW n \in 0..Len(b), NEW m \in 0..n
    PROVE  Ancestor(Ancestor(b, n), m) = Ancestor(b, m)
<1> DEFINE a == Ancestor(b, n)
<1>1. Len(b) \in Nat /\ m \in 0..Len(b)
  OBVIOUS
<1>2. a \in Seq(Nat) /\ Len(a) = n /\ \A i \in 1..n : a[i] = b[i]
  BY AncestorRight
<1> HIDE DEF a
<1>3. /\ Ancestor(a, m) \in Seq(Nat) /\ Len(Ancestor(a, m)) = m
      /\ \A i \in 1..m : Ancestor(a, m)[i] = a[i]
  BY <1>2, AncestorRight
<1>4. /\ Ancestor(b, m) \in Seq(Nat) /\ Len(Ancestor(b, m)) = m
      /\ \A i \in 1..m : Ancestor(b, m)[i] = b[i]
  BY <1>1, AncestorRight
<1>5. \A i \in 1..m : Ancestor(a, m)[i] = Ancestor(b, m)[i]
  BY <1>1, <1>2, <1>3, <1>4, SMTT(20)
<1>6. Ancestor(a, m) = Ancestor(b, m)
  BY <1>3, <1>4, <1>5, SeqEqual
<1> QED
  BY <1>6 DEF a

\* The parent is the ancestor one height below.
LEMMA ParentRight ==
    ASSUME NEW b \in Seq(Nat), b # <<>>
    PROVE  Len(b) \in Nat \ {0} /\ Parent(b) = Ancestor(b, Len(b) - 1) /\ Parent(b) \in Seq(Nat)
<1>1. Len(b) \in Nat \ {0}
  BY EmptySeq
<1>2. Len(b) - 1 \in 0..Len(b)
  BY <1>1
<1> QED
  BY <1>1, <1>2, AncestorRight DEF Parent, Front, Ancestor

(* The block before the n-th is the (n-1)-th, their slots are in the path, *)
(* and the transactions of the n-th are those that came in between.        *)
LEMMA StepsOfPath ==
    ASSUME NEW b \in Seq(Nat), NEW n \in 1..Len(b)
    PROVE  /\ Parent(Ancestor(b, n)) = Ancestor(b, n - 1)
           /\ SlotOf(Ancestor(b, n)) = b[n]
           /\ SlotOf(Ancestor(b, n - 1)) = Prev(b, n)
           /\ TxsOf(Ancestor(b, n)) = Prev(b, n) + 1 .. b[n]
<1> DEFINE a == Ancestor(b, n)
<1>1. Len(b) \in Nat /\ n \in Nat \ {0} /\ n \in 0..Len(b) /\ n - 1 \in 0..Len(b) /\ n - 1 \in 0..n
  OBVIOUS
<1>2. a \in Seq(Nat) /\ Len(a) = n /\ a # <<>> /\ a[n] = b[n]
  BY <1>1, AncestorRight
<1>3. Parent(a) = Ancestor(a, n - 1)
  BY <1>2, ParentRight
<1>4. Ancestor(a, n - 1) = Ancestor(b, n - 1)
  BY <1>1, AncestorOfAncestor
<1>5. SlotOf(a) = b[n]
  BY <1>2 DEF SlotOf, Last
<1>6. SlotOf(Ancestor(b, n - 1)) = Prev(b, n)
  <2>1. CASE n = 1
    BY <1>1, <2>1, AncestorRight DEF SlotOf, Prev, Base
  <2>2. CASE n # 1
    <3>1. /\ Ancestor(b, n - 1) # <<>> /\ Len(Ancestor(b, n - 1)) = n - 1
          /\ Ancestor(b, n - 1)[n - 1] = b[n - 1]
      <4>1. n - 1 > 0 /\ n - 1 \in 1..(n - 1)
        BY <1>1, <2>2
      <4> QED
        BY <1>1, <4>1, AncestorRight
    <3> QED
      BY <2>2, <3>1 DEF SlotOf, Prev, Last
  <2> QED
    BY <2>1, <2>2
<1> QED
  BY <1>3, <1>4, <1>5, <1>6 DEF TxsOf

\* The modelled stretch's root is a chain.
LEMMA EmptyChain == <<>> \in Chain
  BY DEF Chain

(* A block on a chain, in a later slot, is a chain.                        *)
LEMMA ChainExtends ==
    ASSUME NEW b \in Seq(Nat), b # <<>>, Parent(b) \in Chain, ~(SlotOf(b) <= SlotOf(Parent(b)))
    PROVE  b \in Chain
<1> DEFINE n == Len(b)
           p == Parent(b)
<1>1. n \in Nat \ {0} /\ p = Ancestor(b, n - 1) /\ p \in Seq(Nat)
  BY ParentRight
<1>2. Len(p) = n - 1 /\ \A i \in 1..(n - 1) : p[i] = b[i]
  <2>1. n - 1 \in 0..Len(b)
    BY <1>1
  <2>2. Len(Ancestor(b, n - 1)) = n - 1 /\ \A i \in 1..(n - 1) : Ancestor(b, n - 1)[i] = b[i]
    BY <2>1, AncestorRight
  <2> QED
    BY <1>1, <2>2
<1>3. n \in 1..Len(b) /\ Ancestor(b, n) = b
  BY <1>1, AncestorRight
<1>4. SlotOf(b) = b[n] /\ SlotOf(p) = Prev(b, n)
  BY <1>1, <1>3, StepsOfPath
<1>5. b[n] \in Nat /\ Prev(b, n) \in Nat
  <2>1. b[n] \in Nat
    BY <1>3
  <2>2. n # 1 => b[n - 1] \in Nat
    <3> SUFFICES ASSUME n # 1 PROVE b[n - 1] \in Nat
      OBVIOUS
    <3>1. n \in Nat /\ n # 0 /\ n # 1
      BY <1>1
    <3>2. n - 1 \in 1..n
      <4> HIDE DEF n
      <4> QED
        BY <3>1
    <3>3. n - 1 \in 1..Len(b)
      BY <3>2
    <3> QED
      BY <3>3
  <2> QED
    BY <2>1, <2>2, BaseNat DEF Prev
<1>6. Prev(b, n) < b[n]
  BY <1>4, <1>5
<1>7. ASSUME NEW i \in 1..n, i # n PROVE Prev(b, i) < b[i]
  <2>1. i \in 1..(n - 1) /\ (i # 1 => i - 1 \in 1..(n - 1))
    BY <1>1, <1>7
  <2>2. Prev(p, i) < p[i]
    BY <1>2, <2>1 DEF Chain
  <2> QED
    BY <1>2, <2>1, <2>2 DEF Prev
<1> QED
  BY <1>6, <1>7 DEF Chain

\* Every ancestor of a chain is a chain.
LEMMA ParentOfChain ==
    ASSUME NEW b \in Chain, NEW n \in 0..Len(b)
    PROVE  Ancestor(b, n) \in Chain
<1>1. b \in Seq(Nat) /\ Len(b) \in Nat
  BY DEF Chain
<1>2. Ancestor(b, n) \in Seq(Nat) /\ Len(Ancestor(b, n)) = n /\ \A i \in 1..n : Ancestor(b, n)[i] = b[i]
  BY <1>1, AncestorRight
<1>3. ASSUME NEW i \in 1..n PROVE Prev(Ancestor(b, n), i) < Ancestor(b, n)[i]
  <2>1. i \in 1..Len(b) /\ (i # 1 => i - 1 \in 1..n)
    BY <1>1
  <2>2. Prev(b, i) < b[i]
    BY <2>1 DEF Chain
  <2> QED
    BY <1>2, <2>1, <2>2 DEF Prev
<1> QED
  BY <1>2, <1>3 DEF Chain

(* Later blocks of a chain have later slots.                               *)
LEMMA ChainGrows ==
    ASSUME NEW b \in Chain, NEW i \in 1..Len(b), NEW j \in 1..Len(b), i < j
    PROVE  b[i] <= Prev(b, j)
<1> DEFINE C == {m \in Nat : m \in 1..Len(b) /\ i < m /\ ~(b[i] <= Prev(b, m))}
<1>1. b \in Seq(Nat) /\ Len(b) \in Nat /\ \A k \in 1..Len(b) : b[k] \in Nat /\ Prev(b, k) < b[k]
  BY DEF Chain
<1>2. C = {}
  <2> SUFFICES ASSUME C # {} PROVE FALSE
    OBVIOUS
  <2>1. PICK m \in C : \A n \in C : m <= n
    <3>1. C \in SUBSET Nat
      OBVIOUS
    <3> HIDE DEF C
    <3> QED
      BY <3>1, LeastNatural
  <2>2. m \in Nat /\ m \in 1..Len(b) /\ i < m /\ ~(b[i] <= Prev(b, m))
    OBVIOUS
  <2>3. m - 1 \in 1..Len(b) /\ m - 1 \in Nat /\ m # 1 /\ i \in Nat
    BY <1>1, <2>2
  <2>4. Prev(b, m) = b[m - 1]
    BY <2>3 DEF Prev
  <2>5. m - 1 # i
    BY <1>1, <2>2, <2>3, <2>4
  <2>6. i < m - 1
    BY <2>2, <2>3, <2>5
  <2>7. m - 1 \notin C
    BY <2>1, <2>2
  <2>8. b[i] <= Prev(b, m - 1)
    BY <2>3, <2>6, <2>7
  <2>9. Prev(b, m - 1) < b[m - 1] /\ Prev(b, m - 1) \in Nat
    <3>1. i # m - 1 /\ m - 1 # 1 /\ m - 1 - 1 \in 1..Len(b)
      BY <1>1, <2>3, <2>6
    <3> QED
      BY <1>1, <2>3, <3>1 DEF Prev
  <2> QED
    BY <1>1, <2>2, <2>3, <2>4, <2>8, <2>9, SMTT(20)
<1>3. j \in Nat
  BY <1>1
<1> QED
  BY <1>2, <1>3

(* A transaction is in one block of a chain.                               *)
LEMMA TxsDisjoint ==
    ASSUME NEW b \in Chain, NEW i \in 1..Len(b), NEW j \in 1..Len(b), NEW t,
           t \in TxsOf(Ancestor(b, i)), t \in TxsOf(Ancestor(b, j))
    PROVE  i = j
<1>1. b \in Seq(Nat) /\ Len(b) \in Nat /\ i \in Nat /\ j \in Nat
  BY DEF Chain
<1>2. t \in Prev(b, i) + 1 .. b[i] /\ t \in Prev(b, j) + 1 .. b[j]
  BY <1>1, StepsOfPath
<1>3. b[i] \in Nat /\ b[j] \in Nat
  BY <1>1
<1>4. \A k \in 1..Len(b) : Prev(b, k) \in Nat
  <2> TAKE k \in 1..Len(b)
  <2>1. k # 1 => k - 1 \in 1..Len(b)
    BY <1>1
  <2> QED
    BY <1>1, <2>1, BaseNat DEF Prev
<1>5. ~(i < j)
  <2> SUFFICES ASSUME i < j PROVE FALSE
    OBVIOUS
  <2>1. b[i] <= Prev(b, j)
    BY ChainGrows
  <2> QED
    BY <1>2, <1>3, <1>4, <2>1
<1>6. ~(j < i)
  <2> SUFFICES ASSUME j < i PROVE FALSE
    OBVIOUS
  <2>1. b[j] <= Prev(b, i)
    BY ChainGrows
  <2> QED
    BY <1>2, <1>3, <1>4, <2>1
<1> QED
  BY <1>1, <1>5, <1>6

\* A transaction of a chain is found in the block that carries it, because a
\* slot, and with it the block's transactions, occurs once in a chain.
LEMMA HomeRight ==
    ASSUME NEW b \in Chain, NEW i \in 1..Len(b), NEW t, t \in TxsOf(Ancestor(b, i))
    PROVE  HomeOf(b, t) = Ancestor(b, i)
<1> DEFINE A == {Ancestor(b, j) : j \in 1..Len(b)}
<1>1. Ancestor(b, i) \in A
  OBVIOUS
<1>2. \A a \in A : t \in TxsOf(a) => a = Ancestor(b, i)
  BY TxsDisjoint
<1>3. HomeOf(b, t) = CHOOSE a \in A : t \in TxsOf(a)
  BY DEF HomeOf
<1> HIDE DEF A
<1> QED
  BY <1>1, <1>2, <1>3

(* Common is the length of a common prefix.                                *)
LEMMA CommonRight ==
    ASSUME NEW a \in Seq(Nat), NEW b \in Seq(Nat)
    PROVE  /\ Common(a, b) \in 0..Len(a) /\ Common(a, b) \in 0..Len(b)
           /\ \A n \in 0..Common(a, b) : Ancestor(a, n) = Ancestor(b, n)
<1> DEFINE C == CommonPrefixes({a, b})
           L == {Len(a) - Len(p) : p \in C}
<1>1. Len(a) \in Nat /\ Len(b) \in Nat
  OBVIOUS
<1>2. ASSUME NEW p \in C
      PROVE  /\ p \in Seq(Nat) /\ Len(p) \in 0..Len(a) /\ Len(p) \in 0..Len(b)
             /\ p = Ancestor(a, Len(p)) /\ p = Ancestor(b, Len(p))
  <2>1. p \in UNION {Prefixes(s) : s \in {a, b}} /\ IsPrefix(p, a) /\ IsPrefix(p, b)
    BY DEF CommonPrefixes
  <2>2. PICK s \in {a, b} : p \in Prefixes(s)
    BY <2>1
  <2>3. s \in Seq(Nat) /\ Len(s) \in Nat
    BY <2>2
  <2>4. PICK l \in 0..Len(s) : p = SubSeq(s, 1, l)
    BY <2>2 DEF Prefixes
  <2>5. p \in Seq(Nat) /\ Len(p) \in Nat
    <3>1. Ancestor(s, l) \in Seq(Nat)
      BY <2>3, AncestorRight
    <3> QED
      BY <2>4, <3>1 DEF Ancestor
  <2>6. Len(p) <= Len(a) /\ Len(p) <= Len(b) /\ SubSeq(p, 1, Len(p)) = SubSeq(a, 1, Len(p))
        /\ SubSeq(p, 1, Len(p)) = SubSeq(b, 1, Len(p))
    BY <2>1 DEF IsPrefix
  <2>7. SubSeq(p, 1, Len(p)) = p
    BY <2>5, SubSeqFull
  <2>8. p = Ancestor(a, Len(p)) /\ p = Ancestor(b, Len(p))
    BY <2>6, <2>7 DEF Ancestor
  <2>9. Len(p) \in 0..Len(a) /\ Len(p) \in 0..Len(b)
    BY <1>1, <2>5, <2>6
  <2> QED
    BY <2>5, <2>8, <2>9
<1>3. <<>> \in C
  <2>1. SubSeq(a, 1, 0) = <<>> /\ SubSeq(b, 1, 0) = <<>> /\ SubSeq(<<>>, 1, 0) = <<>>
    BY SubSeqEmpty
  <2>2. <<>> \in Prefixes(a)
    BY <1>1, <2>1 DEF Prefixes
  <2>3. IsPrefix(<<>>, a) /\ IsPrefix(<<>>, b)
    BY <1>1, <2>1 DEF IsPrefix
  <2> QED
    BY <2>2, <2>3 DEF CommonPrefixes
<1>4. Common(a, b) = Len(CHOOSE p \in C : \A q \in C : Len(q) <= Len(p))
  BY DEF Common, LongestCommonPrefix
<1> HIDE DEF C
<1>5. L \in SUBSET Nat /\ L # {}
  BY <1>1, <1>2, <1>3
<1>6. PICK m \in L : \A k \in L : m <= k
  <2> HIDE DEF L
  <2> QED
    BY <1>5, LeastNatural
<1>7. PICK p \in C : m = Len(a) - Len(p)
  BY <1>6
<1>8. \A q \in C : Len(q) <= Len(p)
  <2> TAKE q \in C
  <2>1. Len(a) - Len(p) <= Len(a) - Len(q)
    BY <1>6, <1>7
  <2> QED
    BY <1>1, <1>2, <2>1
<1> DEFINE c == CHOOSE p0 \in C : \A q \in C : Len(q) <= Len(p0)
<1>9. c \in C
  BY <1>8
<1>10. Common(a, b) = Len(c)
  BY <1>4
<1> HIDE DEF c
<1>11. c \in Seq(Nat) /\ Len(c) \in 0..Len(a) /\ Len(c) \in 0..Len(b)
       /\ c = Ancestor(a, Len(c)) /\ c = Ancestor(b, Len(c))
  BY <1>2, <1>9
<1>12. ASSUME NEW n \in 0..Len(c) PROVE Ancestor(a, n) = Ancestor(b, n)
  BY <1>11, AncestorOfAncestor
<1> QED
  BY <1>10, <1>11, <1>12

-----------------------------------------------------------------------------
(* The invariant.                                                          *)

Offered == Seq(Nat) \ {<<>>}
Item == [op : {"restart", "insert"}, block : Offered]
Writer == {"import", "mine"}
Err == {"none", "no parent", "future", "orphan", "invalid", "quality", "reorg"}
Where == {"idle", "written", "reorg"}
Writing == [at : {"idle", "check", "write"}, block : Seq(Nat)]

(* What is stored is chains with all their ancestors.                      *)
Stored ==
    /\ blocks \subseteq Chain /\ <<>> \in blocks /\ head \in blocks
    /\ \A b \in blocks \ {<<>>} : Parent(b) \in blocks

(* What is queued or still to be imported is blocks.                       *)
Waiting ==
    /\ future \subseteq Offered /\ todo \in Seq(Item)
    /\ now \in Nat /\ ret \in [segment : SUBSET Offered, err : Err]
    /\ crashes \in Seq(Where)

(* A block on its way through WriteBlockAndState has its parent stored.    *)
InWriters ==
    /\ thread \in [Writer -> Writing]
    /\ \A w \in Writer : thread[w].at # "idle" =>
          /\ thread[w].block \in Chain \ {<<>>}
          /\ Parent(thread[w].block) \in blocks

(* A block of the segment is stored, queued, still to be imported, or      *)
(* being written.                                                          *)
Accounted(b) ==
    \/ b \in blocks \cup future
    \/ \E k \in 1..Len(todo) : todo[k].block = b
    \/ thread["import"].at = "write" /\ thread["import"].block = b

SegmentKept ==
    ret.err = "none" /\ ~procInterrupt /\ ~BeginsWithRestart(ret.segment) =>
        \A b \in ret.segment : Accounted(b)

(* The inductive invariant.                                                *)
ChainIInv == Stored /\ Waiting /\ InWriters /\ SegmentKept /\ HeadsIndex

\* The invariant holds at the start.
LEMMA ChainInit == Init => ChainIInv
<1> SUFFICES ASSUME Init PROVE ChainIInv
  OBVIOUS
<1>1. blocks = {<<>>} /\ head = <<>> /\ future = {} /\ todo = <<>> /\ crashes = <<>>
  BY DEF Init
<1>2. thread = [t \in {"import", "mine"} |-> Idle] /\ ret = [segment |-> {}, err |-> "none"]
  BY DEF Init
<1>3. Stored
  BY <1>1, EmptyChain DEF Stored
<1>4. now \in Nat
  <2>1. FirstEpochId * SlotCount \in Nat
    BY ChainAssumption
  <2> QED
    BY <2>1 DEF Init
<1>5. Waiting
  <2>1. <<>> \in Seq(Item) /\ <<>> \in Seq(Where)
    BY EmptySeq
  <2>2. ret \in [segment : SUBSET Offered, err : Err]
    BY <1>2 DEF Err
  <2> QED
    BY <1>1, <1>4, <2>1, <2>2 DEF Waiting
<1>6. Idle \in Writing
  BY DEF Idle, Writing
<1>7. InWriters
  BY <1>2, <1>6 DEF InWriters, Writer, Idle
<1>8. SegmentKept
  BY <1>2 DEF SegmentKept
<1>9. HeadsIndex
  <2>1. Len(head) = 0
    BY <1>1
  <2>2. CanonIsHeadsChain
    BY <2>1 DEF CanonIsHeadsChain, Init, Numbers
  <2>3. TxsAbove(head, 0) = {}
    BY <2>1 DEF TxsAbove
  <2>4. LookupsMatch
    BY <2>3 DEF LookupsMatch, Init
  <2> QED
    BY <2>2, <2>4 DEF HeadsIndex
<1> QED
  BY <1>3, <1>5, <1>7, <1>8, <1>9 DEF ChainIInv

(* HeadsIndex is about these variables only.                               *)
LEMMA IndexFixed ==
    ASSUME HeadsIndex, UNCHANGED <<head, canon, lookup, crashes>>
    PROVE  HeadsIndex'
  BY DEF HeadsIndex, Whole, CanonIsHeadsChain, LookupsMatch

(* The head's chain gives way to that of b: the index.                     *)
LEMMA CanonStep ==
    ASSUME CanonIsHeadsChain, head \in Chain, NEW b \in Chain, b # <<>>, BecomesCanonical(b),
           head' = b, canon' = CanonWith(b, Common(head, b) + 1)
    PROVE  CanonIsHeadsChain'
<1> DEFINE c == Common(head, b)
<1>1. head \in Seq(Nat) /\ b \in Seq(Nat) /\ Len(head) \in Nat /\ Len(b) \in Nat \ {0}
  BY EmptySeq DEF Chain
<1>2. c \in 0..Len(head) /\ c \in 0..Len(b) /\ \A n \in 0..c : Ancestor(head, n) = Ancestor(b, n)
  BY <1>1, CommonRight
<1>3. Len(b) > Len(head)
  BY <1>1 DEF BecomesCanonical
<1> HIDE DEF c
<1> SUFFICES ASSUME NEW n \in Numbers
             PROVE  canon'[n] = IF n <= Len(b) THEN Ancestor(b, n) ELSE <<>>
  BY DEF CanonIsHeadsChain, Numbers, Ancestor
<1>4. n \in Nat \ {0}
  BY ChainAssumption DEF Numbers
<1>5. canon'[n] = IF n \in c + 1..Len(b) THEN Ancestor(b, n) ELSE canon[n]
  BY DEF CanonWith, c
<1>6. canon[n] = IF n <= Len(head) THEN Ancestor(head, n) ELSE <<>>
  BY DEF CanonIsHeadsChain
<1>7. CASE n \in c + 1..Len(b)
  BY <1>1, <1>2, <1>4, <1>5, <1>7
<1>8. CASE n <= c
  <2>1. n \in 0..c /\ n \notin c + 1..Len(b) /\ n <= Len(head) /\ n <= Len(b)
    BY <1>1, <1>2, <1>4, <1>8
  <2> QED
    BY <1>2, <1>5, <1>6, <2>1
<1>9. CASE n > Len(b)
  <2>1. n \notin c + 1..Len(b) /\ ~(n <= Len(head)) /\ ~(n <= Len(b))
    BY <1>1, <1>2, <1>3, <1>4, <1>9
  <2> QED
    BY <1>5, <1>6, <2>1
<1> QED
  BY <1>1, <1>2, <1>4, <1>7, <1>8, <1>9

\* A transaction above height n is in one of the blocks above n.
LEMMA TxsAboveRight ==
    ASSUME NEW b, NEW n, NEW t
    PROVE  t \in TxsAbove(b, n) <=> \E i \in n + 1..Len(b) : t \in TxsOf(Ancestor(b, i))
  BY DEF TxsAbove

(* The head's chain gives way to that of b: the lookups.                   *)
LEMMA LookupStep ==
    ASSUME LookupsMatch, head \in Chain, NEW b \in Chain, b # <<>>,
           head' = b, lookup' = LookupWith(b)
    PROVE  LookupsMatch'
<1> DEFINE c == Common(head, b)
<1>1. head \in Seq(Nat) /\ b \in Seq(Nat) /\ Len(head) \in Nat /\ Len(b) \in Nat \ {0}
  BY EmptySeq DEF Chain
<1>2. c \in 0..Len(head) /\ c \in 0..Len(b) /\ \A n \in 0..c : Ancestor(head, n) = Ancestor(b, n)
  BY <1>1, CommonRight
<1> SUFFICES ASSUME NEW t \in Numbers
             PROVE  lookup'[t] = IF t \in TxsAbove(b, 0) THEN HomeOf(b, t) ELSE <<>>
  <2>1. TxsAbove(head, 0)' = TxsAbove(b, 0) /\ \A t \in Numbers : HomeOf(head, t)' = HomeOf(b, t)
    BY DEF TxsAbove, HomeOf, TxsOf, SlotOf, Parent, Ancestor
  <2> QED
    BY <2>1 DEF LookupsMatch, Numbers
<1>3. lookup'[t] = IF t \in TxsAbove(b, c) THEN HomeOf(b, t)
                   ELSE IF t \in TxsAbove(head, c) THEN <<>> ELSE lookup[t]
  BY DEF LookupWith
<1>4. lookup[t] = IF t \in TxsAbove(head, 0) THEN HomeOf(head, t) ELSE <<>>
  BY DEF LookupsMatch
<1> HIDE DEF c
<1>5. CASE t \in TxsAbove(b, c)
  <2>1. t \in TxsAbove(b, 0)
    <3>1. PICK i \in c + 1..Len(b) : t \in TxsOf(Ancestor(b, i))
      BY <1>5, TxsAboveRight
    <3>2. i \in 0 + 1..Len(b)
      BY <1>1, <1>2
    <3> QED
      BY <3>1, <3>2, TxsAboveRight
  <2> QED
    BY <1>3, <1>5, <2>1
<1>6. CASE t \notin TxsAbove(b, c) /\ t \in TxsAbove(head, c)
  <2>1. t \notin TxsAbove(b, 0)
    <3> SUFFICES ASSUME t \in TxsAbove(b, 0) PROVE FALSE
      OBVIOUS
    <3>1. PICK i \in 0 + 1..Len(b) : t \in TxsOf(Ancestor(b, i))
      BY TxsAboveRight
    <3>2. i \notin c + 1..Len(b)
      BY <1>6, <3>1, TxsAboveRight
    <3>3. i \in 0..c /\ i \in 1..Len(head)
      BY <1>1, <1>2, <3>1, <3>2
    <3>4. t \in TxsOf(Ancestor(head, i))
      BY <1>2, <3>1, <3>3
    <3>5. PICK j \in c + 1..Len(head) : t \in TxsOf(Ancestor(head, j))
      BY <1>6, TxsAboveRight
    <3>6. j \in 1..Len(head) /\ i # j
      BY <1>1, <1>2, <3>3, <3>5
    <3> QED
      BY <3>3, <3>4, <3>5, <3>6, TxsDisjoint
  <2> QED
    BY <1>3, <1>6, <2>1
<1>7. CASE t \notin TxsAbove(b, c) /\ t \notin TxsAbove(head, c)
  <2>1. CASE t \in TxsAbove(head, 0)
    <3>1. PICK i \in 0 + 1..Len(head) : t \in TxsOf(Ancestor(head, i))
      BY <2>1, TxsAboveRight
    <3>2. i \notin c + 1..Len(head)
      BY <1>7, <3>1, TxsAboveRight
    <3>3. i \in 0..c /\ i \in 1..Len(head) /\ i \in 1..Len(b) /\ i \in 0 + 1..Len(b)
      BY <1>1, <1>2, <3>1, <3>2
    <3>4. t \in TxsOf(Ancestor(b, i)) /\ Ancestor(head, i) = Ancestor(b, i)
      BY <1>2, <3>1, <3>3
    <3>5. HomeOf(head, t) = Ancestor(head, i) /\ HomeOf(b, t) = Ancestor(b, i)
      BY <3>1, <3>3, <3>4, HomeRight
    <3>6. t \in TxsAbove(b, 0)
      BY <3>3, <3>4, TxsAboveRight
    <3> QED
      BY <1>3, <1>4, <1>7, <2>1, <3>4, <3>5, <3>6
  <2>2. CASE t \notin TxsAbove(head, 0)
    <3>1. t \notin TxsAbove(b, 0)
      <4> SUFFICES ASSUME t \in TxsAbove(b, 0) PROVE FALSE
        OBVIOUS
      <4>1. PICK i \in 0 + 1..Len(b) : t \in TxsOf(Ancestor(b, i))
        BY TxsAboveRight
      <4>2. i \notin c + 1..Len(b)
        BY <1>7, <4>1, TxsAboveRight
      <4>3. i \in 0..c /\ i \in 0 + 1..Len(head)
        BY <1>1, <1>2, <4>1, <4>2
      <4>4. t \in TxsOf(Ancestor(head, i))
        BY <1>2, <4>1, <4>3
      <4> QED
        BY <2>2, <4>3, <4>4, TxsAboveRight
    <3> QED
      BY <1>3, <1>4, <1>7, <2>2, <3>1
  <2> QED
    BY <2>1, <2>2
<1> QED
  BY <1>5, <1>6, <1>7

-----------------------------------------------------------------------------
(* The steps.                                                              *)

(* What a write leaves: the block is stored, or nothing changed.           *)
LEMMA WriteStep ==
    ASSUME Stored, HeadsIndex, NEW b \in Chain \ {<<>>}, Parent(b) \in blocks, crashes' = crashes,
           Refuse(b) \/ WriteSide(b) \/ WriteCanonical(b)
    PROVE  /\ Stored' /\ HeadsIndex'
           /\ blocks \subseteq blocks'
           /\ future' \subseteq future
           /\ blocks \cup future \subseteq blocks' \cup future'
           /\ b \in blocks' \/ Refuse(b)
<1>1. CASE Refuse(b)
  <2>1. UNCHANGED <<blocks, canon, lookup, head, future, crashes>>
    BY <1>1 DEF Refuse
  <2> QED
    BY <1>1, <2>1, IndexFixed DEF Stored
<1>2. CASE WriteSide(b)
  <2>1. UNCHANGED <<canon, lookup, head, crashes>> /\ blocks' = blocks \cup {b} /\ future' = future \ {b}
    BY <1>2 DEF WriteSide
  <2> QED
    BY <2>1, IndexFixed DEF Stored
<1>3. CASE WriteCanonical(b)
  <2>1. /\ BecomesCanonical(b) /\ head' = b /\ canon' = CanonWith(b, Common(head, b) + 1)
        /\ lookup' = LookupWith(b)
        /\ blocks' = blocks \cup {b} /\ future' = future \ {b}
    BY <1>3 DEF WriteCanonical
  <2>2. head \in Chain /\ b \in Chain /\ b # <<>>
    BY DEF Stored
  <2>3. HeadsIndex'
    <3> SUFFICES ASSUME Whole PROVE CanonIsHeadsChain' /\ LookupsMatch'
      BY DEF HeadsIndex, Whole
    <3>1. CanonIsHeadsChain /\ LookupsMatch
      BY DEF HeadsIndex
    <3>2. CanonIsHeadsChain'
      BY <2>1, <2>2, <3>1, CanonStep
    <3>3. LookupsMatch'
      BY <2>1, <2>2, <3>1, LookupStep
    <3> QED
      BY <3>2, <3>3
  <2>4. Stored'
    BY <2>1 DEF Stored
  <2> QED
    BY <2>1, <2>3, <2>4
<1> QED
  BY <1>1, <1>2, <1>3

(* The importer takes blocks from the head of what it has to do.           *)
LEMMA TakeFirst ==
    ASSUME Waiting, todo # <<>>
    PROVE  /\ Head(todo) \in Item /\ Head(todo) = todo[1] /\ Head(todo).block \in Offered
           /\ Tail(todo) \in Seq(Item)
           /\ \A b : (\E k \in 1..Len(todo) : todo[k].block = b) =>
                 \/ b = Head(todo).block
                 \/ \E k \in 1..Len(Tail(todo)) : Tail(todo)[k].block = b
<1>1. todo \in Seq(Item) /\ Len(todo) \in Nat
  BY DEF Waiting
<1>2. /\ Head(todo) \in Item /\ Tail(todo) \in Seq(Item) /\ Len(Tail(todo)) = Len(todo) - 1
      /\ \A i \in 1..Len(Tail(todo)) : Tail(todo)[i] = todo[i + 1]
  BY <1>1, HeadTailProperties
<1>3. Head(todo) = todo[1]
  BY <1>1
<1>4. Head(todo).block \in Offered
  BY <1>2 DEF Item
<1>5. ASSUME NEW b, NEW k \in 1..Len(todo), todo[k].block = b, k # 1
      PROVE  \E j \in 1..Len(Tail(todo)) : Tail(todo)[j].block = b
  <2>1. k - 1 \in 1..Len(Tail(todo)) /\ (k - 1) + 1 = k
    BY <1>1, <1>2, <1>5
  <2>2. Tail(todo)[k - 1] = todo[k]
    BY <1>2, <2>1
  <2> QED
    BY <1>5, <2>1, <2>2
<1> QED
  BY <1>2, <1>3, <1>4, <1>5

(* Steps that leave the database, the writers and the importer alone.      *)
LEMMA ElsewhereStep ==
    ASSUME ChainIInv, now' \in Nat, procInterrupt' = procInterrupt \/ procInterrupt',
           UNCHANGED <<blocks, canon, lookup, head, future, todo, thread, ret, crashes>>
    PROVE  ChainIInv'
<1>1. HeadsIndex'
  BY IndexFixed DEF ChainIInv
<1>2. Stored' /\ Waiting' /\ InWriters'
  BY DEF ChainIInv, Stored, Waiting, InWriters
<1>3. SegmentKept'
  BY DEF ChainIInv, SegmentKept, Accounted, BeginsWithRestart, Gap, SlotOf, Parent, Sub
<1> QED
  BY <1>1, <1>2, <1>3 DEF ChainIInv

(* The restart predicate does not depend on the state.                     *)
LEMMA BeginsFixed ==
    ASSUME ret' = ret
    PROVE  BeginsWithRestart(ret.segment)' = BeginsWithRestart(ret.segment)
  BY DEF BeginsWithRestart, Gap, SlotOf, Parent, Sub

\* One lemma for each step of the chain. First the restart record that the first
\* block of a restarted chain writes.
LEMMA SetRestartStep == ASSUME ChainIInv, SetRestart PROVE ChainIInv'
<1>1. /\ UNCHANGED <<now, procInterrupt, blocks, canon, lookup, head, future, thread, ret, crashes>>
      /\ todo # <<>> /\ todo' = [todo EXCEPT ![1].op = "insert"]
  BY DEF SetRestart, Doing, db
<1>2. todo \in Seq(Item) /\ Len(todo) \in Nat \ {0}
  BY <1>1, EmptySeq DEF ChainIInv, Waiting
<1> DEFINE item == [todo[1] EXCEPT !.op = "insert"]
<1>3. todo[1] \in Item /\ item \in Item /\ item.block = todo[1].block
  <2>1. todo[1] \in Item
    BY <1>2, ElementOfSeq
  <2> QED
    BY <2>1 DEF Item
<1>4. todo' = [todo EXCEPT ![1] = item]
  BY <1>1
<1> HIDE DEF item
<1>5. /\ todo' \in Seq(Item) /\ Len(todo') = Len(todo)
      /\ \A j \in 1..Len(todo) : todo'[j] = IF j = 1 THEN item ELSE todo[j]
  BY <1>2, <1>3, <1>4, ExceptSeq
<1>6. \A j \in 1..Len(todo) : todo'[j].block = todo[j].block
  BY <1>3, <1>5
<1>7. HeadsIndex'
  BY <1>1, IndexFixed DEF ChainIInv
<1>8. Stored' /\ Waiting' /\ InWriters'
  BY <1>1, <1>5 DEF ChainIInv, Stored, Waiting, InWriters
<1>9. SegmentKept'
  BY <1>1, <1>5, <1>6, BeginsFixed DEF ChainIInv, SegmentKept, Accounted
<1> QED
  BY <1>7, <1>8, <1>9 DEF ChainIInv

\* insertChain puts a block of a future slot in the queue.
LEMMA QueueFutureStep == ASSUME ChainIInv, QueueFuture PROVE ChainIInv'
<1>1. /\ UNCHANGED <<now, procInterrupt, blocks, canon, lookup, head, thread, ret, crashes>>
      /\ todo # <<>> /\ todo' = Tail(todo) /\ future' = future \cup {Head(todo).block}
  BY DEF QueueFuture, Inserting, Doing, db
<1>2. Waiting
  BY DEF ChainIInv
<1>3. HeadsIndex'
  BY <1>1, IndexFixed DEF ChainIInv
<1>4. Stored' /\ Waiting' /\ InWriters'
  BY <1>1, <1>2, TakeFirst DEF ChainIInv, Stored, Waiting, InWriters
<1>5. ASSUME NEW b, Accounted(b) PROVE Accounted(b)'
  BY <1>1, <1>2, <1>5, TakeFirst DEF Accounted
<1>6. SegmentKept'
  BY <1>1, <1>5, BeginsFixed DEF ChainIInv, SegmentKept
<1> QED
  BY <1>3, <1>4, <1>6 DEF ChainIInv

\* insertChain passes over a block it has.
LEMMA SkipKnownStep == ASSUME ChainIInv, SkipKnown PROVE ChainIInv'
<1>1. /\ UNCHANGED <<now, procInterrupt, blocks, canon, lookup, head, future, thread, ret, crashes>>
      /\ todo # <<>> /\ todo' = Tail(todo) /\ Head(todo).block \in blocks
  BY DEF SkipKnown, Inserting, Doing, Known, db
<1>2. Waiting
  BY DEF ChainIInv
<1>3. HeadsIndex'
  BY <1>1, IndexFixed DEF ChainIInv
<1>4. Stored' /\ Waiting' /\ InWriters'
  BY <1>1, <1>2, TakeFirst DEF ChainIInv, Stored, Waiting, InWriters
<1>5. ASSUME NEW b, Accounted(b) PROVE Accounted(b)'
  BY <1>1, <1>2, <1>5, TakeFirst DEF Accounted
<1>6. SegmentKept'
  BY <1>1, <1>5, BeginsFixed DEF ChainIInv, SegmentKept
<1> QED
  BY <1>3, <1>4, <1>6 DEF ChainIInv

\* The loop of insertChain is left when the process stops.
LEMMA SkipInterruptedStep == ASSUME ChainIInv, SkipInterrupted PROVE ChainIInv'
<1>1. /\ UNCHANGED <<now, procInterrupt, blocks, canon, lookup, head, future, thread, ret, crashes>>
      /\ todo # <<>> /\ todo' = Tail(todo) /\ procInterrupt
  BY DEF SkipInterrupted, Doing, db
<1>2. Waiting
  BY DEF ChainIInv
<1>3. HeadsIndex'
  BY <1>1, IndexFixed DEF ChainIInv
<1>4. Stored' /\ Waiting' /\ InWriters'
  BY <1>1, <1>2, TakeFirst DEF ChainIInv, Stored, Waiting, InWriters
<1>5. SegmentKept'
  BY <1>1 DEF SegmentKept
<1> QED
  BY <1>3, <1>4, <1>5 DEF ChainIInv

(* An import that fails returns an error.                                  *)
LEMMA FailStep ==
    ASSUME Waiting, NEW e \in Err \ {"none"}, Fail(e)
    PROVE  /\ todo' \in Seq(Item) /\ ret' \in [segment : SUBSET Offered, err : Err]
           /\ ret'.err # "none"
<1>1. ret' = [ret EXCEPT !.err = e] /\ todo' = <<>>
  BY DEF Fail
<1>2. ret \in [segment : SUBSET Offered, err : Err]
  BY DEF Waiting
<1>3. ret'.err = e /\ ret' \in [segment : SUBSET Offered, err : Err]
  BY <1>1, <1>2
<1> QED
  BY <1>1, <1>3, EmptySeq

\* insertChain gives the segment up at a bad block.
LEMMA RejectBlockStep == ASSUME ChainIInv, RejectBlock PROVE ChainIInv'
<1>1. UNCHANGED <<now, blocks, canon, lookup, head, future, thread, crashes>>
  BY DEF RejectBlock, db
<1>2. \E e \in Err \ {"none"} : Fail(e)
  BY DEF RejectBlock, Err
<1>3. /\ todo' \in Seq(Item) /\ ret' \in [segment : SUBSET Offered, err : Err] /\ ret'.err # "none"
  BY <1>2, FailStep DEF ChainIInv
<1>4. HeadsIndex'
  BY <1>1, IndexFixed DEF ChainIInv
<1>5. Stored' /\ Waiting' /\ InWriters' /\ SegmentKept'
  BY <1>1, <1>3 DEF ChainIInv, Stored, Waiting, InWriters, SegmentKept
<1> QED
  BY <1>4, <1>5 DEF ChainIInv

\* insertChain checks the next block.
LEMMA CheckImportStep == ASSUME ChainIInv, CheckImport PROVE ChainIInv'
<1> DEFINE b == Head(todo).block
<1>1. /\ UNCHANGED <<now, procInterrupt, blocks, canon, lookup, head, future, crashes>>
      /\ todo # <<>> /\ thread["import"] = Idle /\ Linked(b) /\ ~Invalid(b)
      /\ \/ Fail("quality") /\ thread' = thread
         \/ /\ thread' = [thread EXCEPT !["import"] = [at |-> "write", block |-> b]]
            /\ todo' = Tail(todo) /\ ret' = ret
  BY DEF CheckImport, Inserting, Doing, db
<1>2. Waiting /\ b \in Seq(Nat) /\ b # <<>>
  BY <1>1, TakeFirst DEF ChainIInv, Offered
<1> HIDE DEF b
<1>3. HeadsIndex'
  BY <1>1, IndexFixed DEF ChainIInv
<1>4. CASE Fail("quality") /\ thread' = thread
  <2>1. /\ todo' \in Seq(Item) /\ ret' \in [segment : SUBSET Offered, err : Err] /\ ret'.err # "none"
    BY <1>2, <1>4, FailStep DEF Err
  <2>2. Stored' /\ Waiting' /\ InWriters' /\ SegmentKept'
    BY <1>1, <1>4, <2>1 DEF ChainIInv, Stored, Waiting, InWriters, SegmentKept
  <2> QED
    BY <1>3, <2>2 DEF ChainIInv
<1>5. CASE /\ thread' = [thread EXCEPT !["import"] = [at |-> "write", block |-> b]]
           /\ todo' = Tail(todo) /\ ret' = ret
  <2>1. Parent(b) \in blocks /\ ~(SlotOf(b) <= SlotOf(Parent(b)))
    BY <1>1 DEF Linked, Invalid
  <2>2. b \in Chain \ {<<>>}
    BY <1>2, <2>1, ChainExtends DEF ChainIInv, Stored
  <2>3. [at |-> "write", block |-> b] \in Writing
    BY <1>2 DEF Writing
  <2>4. /\ thread' \in [Writer -> Writing] /\ thread'["mine"] = thread["mine"]
        /\ thread'["import"].at = "write" /\ thread'["import"].block = b
    BY <1>5, <2>3 DEF ChainIInv, InWriters, Writer
  <2>5. InWriters'
    BY <1>1, <2>1, <2>2, <2>4 DEF ChainIInv, InWriters, Writer
  <2>6. Stored' /\ Waiting'
    BY <1>1, <1>2, <1>5, TakeFirst DEF ChainIInv, Stored, Waiting
  <2>7. ASSUME NEW a, Accounted(a) PROVE Accounted(a)'
    <3>1. thread["import"].at # "write"
      BY <1>1 DEF Idle
    <3> QED
      BY <1>1, <1>2, <1>5, <2>4, <2>7, <3>1, TakeFirst DEF Accounted, b
  <2>8. SegmentKept'
    BY <1>1, <1>5, <2>7, BeginsFixed DEF ChainIInv, SegmentKept
  <2> QED
    BY <1>3, <2>5, <2>6, <2>8 DEF ChainIInv
<1> QED
  BY <1>1, <1>4, <1>5

\* insertChain writes the checked block, with the reorganisation it causes.
LEMMA WriteImportStep == ASSUME ChainIInv, WriteImport PROVE ChainIInv'
<1> DEFINE b == thread["import"].block
<1>1. /\ thread["import"].at = "write" /\ thread' = [thread EXCEPT !["import"] = Idle]
      /\ UNCHANGED <<now, procInterrupt, crashes>>
      /\ \/ Refuse(b) /\ Fail("reorg")
         \/ (WriteSide(b) \/ WriteCanonical(b)) /\ UNCHANGED <<todo, ret>>
  BY DEF WriteImport
<1>2. b \in Chain \ {<<>>} /\ Parent(b) \in blocks
  BY <1>1 DEF ChainIInv, InWriters, Writer
<1>3. /\ Stored' /\ HeadsIndex' /\ blocks \subseteq blocks' /\ future' \subseteq future
      /\ blocks \cup future \subseteq blocks' \cup future' /\ (b \in blocks' \/ Refuse(b))
  BY <1>1, <1>2, WriteStep DEF ChainIInv
<1>4. /\ thread' \in [Writer -> Writing] /\ thread'["import"] = Idle /\ thread'["mine"] = thread["mine"]
  <2>1. Idle \in Writing
    BY DEF Idle, Writing
  <2> QED
    BY <1>1, <2>1 DEF ChainIInv, InWriters, Writer
<1>5. InWriters'
  BY <1>3, <1>4 DEF ChainIInv, InWriters, Writer, Idle
<1>6. CASE Refuse(b) /\ Fail("reorg")
  <2>1. /\ todo' \in Seq(Item) /\ ret' \in [segment : SUBSET Offered, err : Err] /\ ret'.err # "none"
    BY <1>6, FailStep DEF Err, ChainIInv
  <2>2. Waiting' /\ SegmentKept'
    BY <1>1, <1>3, <2>1 DEF ChainIInv, Waiting, SegmentKept
  <2> QED
    BY <1>3, <1>5, <2>2 DEF ChainIInv
<1>7. CASE (WriteSide(b) \/ WriteCanonical(b)) /\ UNCHANGED <<todo, ret>>
  <2>1. b \in blocks'
    BY <1>7 DEF WriteSide, WriteCanonical
  <2>2. Waiting'
    BY <1>1, <1>3, <1>7 DEF ChainIInv, Waiting
  <2>3. ASSUME NEW a, Accounted(a) PROVE Accounted(a)'
    BY <1>3, <1>7, <2>1, <2>3 DEF Accounted
  <2>4. SegmentKept'
    BY <1>1, <1>7, <2>3, BeginsFixed DEF ChainIInv, SegmentKept
  <2> QED
    BY <1>3, <1>5, <2>2, <2>4 DEF ChainIInv
<1> QED
  BY <1>1, <1>6, <1>7

\* The miner takes up the head as the parent of a block.
LEMMA MineStep == ASSUME ChainIInv, Mine PROVE ChainIInv'
<1> DEFINE b == Append(head, now)
<1>1. /\ UNCHANGED <<now, procInterrupt, blocks, canon, lookup, head, future, todo, ret, crashes>>
      /\ now > SlotOf(head)
      /\ thread' = [thread EXCEPT !["mine"] = [at |-> "check", block |-> b]]
  BY DEF Mine, db
<1>2. head \in Chain /\ head \in Seq(Nat) /\ head \in blocks /\ now \in Nat /\ Len(head) \in Nat
  BY DEF ChainIInv, Stored, Waiting, Chain
<1>3. /\ b \in Seq(Nat) /\ b # <<>> /\ Len(b) = Len(head) + 1
      /\ \A i \in 1..Len(head) : b[i] = head[i]
      /\ b[Len(head) + 1] = now
  BY <1>2, AppendProperties
<1> HIDE DEF b
<1>4. Parent(b) = head
  <2>1. Parent(b) = Ancestor(b, Len(head)) /\ Len(head) \in 0..Len(b)
    <3>1. Len(b) - 1 = Len(head) /\ Len(head) \in 0..Len(b)
      BY <1>2, <1>3
    <3>2. Parent(b) = Ancestor(b, Len(b) - 1)
      BY <1>3, ParentRight
    <3> QED
      BY <3>1, <3>2
  <2>2. /\ Ancestor(b, Len(head)) \in Seq(Nat) /\ Len(Ancestor(b, Len(head))) = Len(head)
        /\ \A i \in 1..Len(head) : Ancestor(b, Len(head))[i] = b[i]
    BY <1>3, <2>1, AncestorRight
  <2>3. \A i \in 1..Len(head) : Ancestor(b, Len(head))[i] = head[i]
    BY <1>3, <2>2
  <2>4. Ancestor(b, Len(head)) = head
    BY <1>2, <2>2, <2>3, SeqEqual
  <2> QED
    BY <2>1, <2>4
<1>5. SlotOf(b) = now
  BY <1>3 DEF SlotOf, Last
<1>6. SlotOf(head) \in Int
  <2>1. CASE head = <<>>
    BY <2>1, BaseNat DEF SlotOf, Base
  <2>2. CASE head # <<>>
    <3>1. Len(head) \in 1..Len(head)
      BY <1>2, <2>2, EmptySeq
    <3>2. head[Len(head)] \in Nat
      BY <1>2, <3>1
    <3> QED
      BY <2>2, <3>2 DEF SlotOf, Last
  <2> QED
    BY <2>1, <2>2
<1>7. b \in Chain \ {<<>>}
  BY <1>1, <1>2, <1>3, <1>4, <1>5, <1>6, ChainExtends
<1>8. [at |-> "check", block |-> b] \in Writing
  BY <1>3 DEF Writing
<1>9. /\ thread' \in [Writer -> Writing] /\ thread'["import"] = thread["import"]
      /\ thread'["mine"].block = b
  BY <1>1, <1>8 DEF ChainIInv, InWriters, Writer
<1>10. InWriters'
  BY <1>1, <1>2, <1>4, <1>7, <1>9 DEF ChainIInv, InWriters, Writer
<1>11. HeadsIndex' /\ Stored' /\ Waiting'
  BY <1>1, IndexFixed DEF ChainIInv, Stored, Waiting
<1>12. SegmentKept'
  BY <1>1, <1>9, BeginsFixed DEF ChainIInv, SegmentKept, Accounted
<1> QED
  BY <1>10, <1>11, <1>12 DEF ChainIInv

\* The mined block is checked for the quality of its chain.
LEMMA CheckMineStep == ASSUME ChainIInv, CheckMine PROVE ChainIInv'
<1>1. /\ UNCHANGED <<now, procInterrupt, blocks, canon, lookup, head, future, todo, ret, crashes>>
      /\ thread["mine"].at = "check"
      /\ \/ thread' = [thread EXCEPT !["mine"] = Idle]
         \/ thread' = [thread EXCEPT !["mine"] = [@ EXCEPT !.at = "write"]]
  BY DEF CheckMine, db
<1>2. thread["mine"] \in Writing /\ Idle \in Writing
  BY DEF ChainIInv, InWriters, Writer, Idle, Writing
<1>3. [thread["mine"] EXCEPT !.at = "write"] \in Writing
      /\ [thread["mine"] EXCEPT !.at = "write"].block = thread["mine"].block
  BY <1>2 DEF Writing
<1>4. /\ thread' \in [Writer -> Writing] /\ thread'["import"] = thread["import"]
      /\ thread'["mine"] = Idle \/ thread'["mine"].block = thread["mine"].block
  BY <1>1, <1>2, <1>3 DEF ChainIInv, InWriters, Writer
<1>5. InWriters'
  BY <1>1, <1>4 DEF ChainIInv, InWriters, Writer, Idle
<1>6. HeadsIndex' /\ Stored' /\ Waiting'
  BY <1>1, IndexFixed DEF ChainIInv, Stored, Waiting
<1>7. SegmentKept'
  BY <1>1, <1>4, BeginsFixed DEF ChainIInv, SegmentKept, Accounted
<1> QED
  BY <1>5, <1>6, <1>7 DEF ChainIInv

\* The mined block is written, with the reorganisation it causes.
LEMMA WriteMineStep == ASSUME ChainIInv, WriteMine PROVE ChainIInv'
<1> DEFINE b == thread["mine"].block
<1>1. /\ thread["mine"].at = "write" /\ thread' = [thread EXCEPT !["mine"] = Idle]
      /\ UNCHANGED <<now, procInterrupt, todo, ret, crashes>>
      /\ Refuse(b) \/ WriteSide(b) \/ WriteCanonical(b)
  BY DEF WriteMine
<1>2. b \in Chain \ {<<>>} /\ Parent(b) \in blocks
  BY <1>1 DEF ChainIInv, InWriters, Writer
<1>3. /\ Stored' /\ HeadsIndex' /\ blocks \subseteq blocks' /\ future' \subseteq future
      /\ blocks \cup future \subseteq blocks' \cup future'
  BY <1>1, <1>2, WriteStep DEF ChainIInv
<1>4. /\ thread' \in [Writer -> Writing] /\ thread'["mine"] = Idle /\ thread'["import"] = thread["import"]
  <2>1. Idle \in Writing
    BY DEF Idle, Writing
  <2> QED
    BY <1>1, <2>1 DEF ChainIInv, InWriters, Writer
<1>5. InWriters'
  BY <1>3, <1>4 DEF ChainIInv, InWriters, Writer, Idle
<1>6. Waiting'
  BY <1>1, <1>3 DEF ChainIInv, Waiting
<1>7. ASSUME NEW a, Accounted(a) PROVE Accounted(a)'
  BY <1>1, <1>3, <1>4, <1>7 DEF Accounted
<1>8. SegmentKept'
  BY <1>1, <1>7, BeginsFixed DEF ChainIInv, SegmentKept
<1> QED
  BY <1>3, <1>5, <1>6, <1>8 DEF ChainIInv

(* The process starts again with a stored head.                            *)
LEMMA NewBlockChainStep ==
    ASSUME ChainIInv, NEW h, NEW index, NEW where \in Where, NewBlockChain(h, index, where),
           h \in blocks',
           blocks' = blocks \/ \E b \in Chain \ {<<>>} : Parent(b) \in blocks /\ blocks' = blocks \cup {b},
           where = "idle" => h = head /\ index = canon /\ lookup' = lookup
    PROVE  ChainIInv'
<1>1. /\ head' = h /\ canon' = index /\ future' = {} /\ todo' = <<>>
      /\ thread' = [t \in {"import", "mine"} |-> Idle]
      /\ ret' = [segment |-> {}, err |-> "none"] /\ crashes' = Append(crashes, where) /\ now' = now
  BY DEF NewBlockChain
<1>2. Stored'
  BY <1>1 DEF ChainIInv, Stored
<1>3. crashes \in Seq(Where) /\ now \in Nat
  BY DEF ChainIInv, Waiting
<1>4. crashes' \in Seq(Where)
  BY <1>1, <1>3, AppendProperties
<1>5. Waiting'
  <2>1. <<>> \in Seq(Item)
    BY EmptySeq
  <2>2. ret' \in [segment : SUBSET Offered, err : Err]
    BY <1>1 DEF Err
  <2> QED
    BY <1>1, <1>3, <1>4, <2>1, <2>2 DEF Waiting
<1>6. InWriters'
  <2>1. Idle \in Writing
    BY DEF Idle, Writing
  <2> QED
    BY <1>1, <2>1 DEF InWriters, Writer, Idle
<1>7. SegmentKept'
  BY <1>1 DEF SegmentKept
<1>8. HeadsIndex'
  <2>1. CASE where = "idle"
    <3>1. UNCHANGED <<head, canon, lookup>>
      BY <1>1, <2>1
    <3>2. Whole' => Whole
      <4>1. /\ Len(crashes) \in Nat /\ Len(crashes') = Len(crashes) + 1
            /\ \A i \in 1..Len(crashes) : crashes'[i] = crashes[i]
        BY <1>1, <1>3, AppendProperties
      <4>2. DOMAIN crashes = 1..Len(crashes) /\ DOMAIN crashes' = 1..Len(crashes')
        BY <1>3, <1>4
      <4>3. \A i \in 1..Len(crashes) : i \in 1..Len(crashes')
        BY <4>1
      <4> QED
        BY <4>1, <4>2, <4>3 DEF Whole, ToSet
    <3> QED
      BY <3>1, <3>2 DEF ChainIInv, HeadsIndex, CanonIsHeadsChain, LookupsMatch
  <2>2. CASE where # "idle"
    <3>1. ~Whole'
      <4>1. Len(crashes) \in Nat /\ Len(crashes') = Len(crashes) + 1 /\ crashes'[Len(crashes) + 1] = where
        BY <1>1, <1>3, AppendProperties
      <4>2. DOMAIN crashes' = 1..Len(crashes')
        BY <1>4
      <4>3. Len(crashes) + 1 \in 1..Len(crashes')
        BY <4>1
      <4>4. where \in ToSet(crashes')
        BY <4>1, <4>2, <4>3 DEF ToSet
      <4> QED
        BY <2>2, <4>4 DEF Whole
    <3> QED
      BY <3>1 DEF HeadsIndex
  <2> QED
    BY <2>1, <2>2
<1> QED
  BY <1>2, <1>5, <1>6, <1>7, <1>8 DEF ChainIInv

\* The process dies: between blocks, after a write, in a reorganisation.
LEMMA DieStep == ASSUME ChainIInv, DieIdle \/ DieWritten \/ DieInReorg PROVE ChainIInv'
<1>1. head \in blocks /\ <<>> \in blocks
  BY DEF ChainIInv, Stored
<1>2. "idle" \in Where /\ "written" \in Where /\ "reorg" \in Where
  BY DEF Where
<1>3. CASE DieIdle
  <2>1. NewBlockChain(head, canon, "idle") /\ blocks' = blocks /\ lookup' = lookup
    BY <1>3 DEF DieIdle
  <2> QED
    BY <1>1, <1>2, <2>1, NewBlockChainStep
<1>4. CASE DieWritten
  <2>1. PICK t \in DOMAIN thread :
          /\ thread[t].at = "write" /\ blocks' = blocks \cup {thread[t].block}
          /\ \/ \E index : NewBlockChain(head, index, "written")
             \/ \E h, index : NewBlockChain(LoadedHead(h, blocks'), index, "written")
    BY <1>4 DEF DieWritten
  <2>2. thread[t].block \in Chain \ {<<>>} /\ Parent(thread[t].block) \in blocks
    BY <2>1 DEF ChainIInv, InWriters
  <2>3. head \in blocks' /\ \A h : LoadedHead(h, blocks') \in blocks'
    BY <1>1, <2>1 DEF LoadedHead
  <2> QED
    BY <1>1, <1>2, <2>1, <2>2, <2>3, NewBlockChainStep
<1>5. CASE DieInReorg
  <2>1. blocks' = blocks
    BY <1>5 DEF DieInReorg
  <2>2. \E h, index : NewBlockChain(h, index, "reorg") /\ (h = head \/ \E a : h = LoadedHead(a, blocks))
    BY <1>5 DEF DieInReorg
  <2>3. \A h : LoadedHead(h, blocks) \in blocks
    BY <1>1 DEF LoadedHead
  <2> QED
    BY <1>1, <1>2, <2>1, <2>2, <2>3, NewBlockChainStep
<1> QED
  BY <1>3, <1>4, <1>5

(* What InsertChain is going to do with a segment: blocks of the segment,  *)
(* and all of them if the first is not a restart point.                    *)
LEMMA WorkRight ==
    ASSUME NEW seg \in Seq(Offered), seg # <<>>
    PROVE  /\ Work(seg) \in Seq(Item)
           /\ 1 \notin RestartIdxs(seg) =>
                 /\ Len(Work(seg)) = Len(seg)
                 /\ \A j \in 1..Len(seg) : Work(seg)[j].block = seg[j]
<1> DEFINE idxs == RestartIdxs(seg)
           next == {j \in idxs : j > 1}
           resume == IF next = {} THEN Len(seg) + 1 ELSE Min(next)
           item(j) == [op |-> IF j \in idxs THEN "restart" ELSE "insert", block |-> seg[j]]
           items == [j \in 1..Len(seg) |-> item(j)]
           rest == SubSeq(items, resume, Len(seg))
<1>1. Len(seg) \in Nat \ {0} /\ 1 \in 1..Len(seg)
  BY EmptySeq
<1>2. idxs \subseteq 1..Len(seg)
  BY DEF RestartIdxs
<1>3. Work(seg) = IF 1 \in idxs THEN <<items[1]>> \o rest ELSE items
  BY DEF Work
<1>4. ASSUME NEW j \in 1..Len(seg) PROVE items[j] \in Item /\ items[j].block = seg[j]
  <2>1. seg[j] \in Offered
    BY ElementOfSeq
  <2> QED
    BY <2>1 DEF Item
<1>5. resume \in Nat \ {0}
  <2>1. CASE next = {}
    BY <1>1, <2>1
  <2>2. CASE next # {}
    <3>1. next \in SUBSET Nat /\ \A j \in next : j > 1
      BY <1>1, <1>2
    <3> HIDE DEF next
    <3>2. Min(next) \in next
      BY <2>2, <3>1, MinOfNaturals
    <3>3. Min(next) \in Nat /\ Min(next) > 1
      BY <3>1, <3>2
    <3>4. resume = Min(next)
      BY <2>2
    <3> HIDE DEF resume
    <3> QED
      BY <3>3, <3>4
  <2> QED
    BY <2>1, <2>2
<1>6. items \in [1..Len(seg) -> Item]
  BY <1>4
<1>7. items \in Seq(Item) /\ Len(items) = Len(seg)
  <2>1. items \in Seq(Item)
    BY <1>1, <1>6, SeqDef, ZenonT(40)
  <2>2. DOMAIN items = 1..Len(seg)
    OBVIOUS
  <2> HIDE DEF items
  <2> QED
    BY <1>1, <2>1, <2>2, LenProperties
<1> HIDE DEF idxs, next, resume, items
<1>8. rest \in Seq(Item)
  <2>1. \A i \in resume..Len(seg) : items[i] \in Item
    BY <1>1, <1>4, <1>5
  <2>2. resume \in Int /\ Len(seg) \in Int
    BY <1>1, <1>5
  <2> QED
    BY <2>1, <2>2, SubSeqProperties
<1>9. <<items[1]>> \o rest \in Seq(Item)
  <2>1. <<items[1]>> \in Seq(Item)
    BY <1>1, <1>4
  <2> HIDE DEF rest
  <2> QED
    BY <1>8, <2>1, ConcatProperties
<1> QED
  BY <1>3, <1>4, <1>7, <1>9 DEF idxs

\* A call of InsertChain with a segment in the order of heights.
LEMMA InsertChainStep ==
    ASSUME ChainIInv, NEW seg \in Seq(Offered), seg # <<>>,
           \A j \in 1..Len(seg) : Len(seg[1]) <= Len(seg[j]),
           InsertChain(seg)
    PROVE  ChainIInv'
<1>1. /\ UNCHANGED <<now, procInterrupt, blocks, canon, lookup, head, future, thread, crashes>>
      /\ todo' = IF NoParent(seg) THEN <<>> ELSE Work(seg)
      /\ ret' = [segment |-> ToSet(seg), err |-> IF NoParent(seg) THEN "no parent" ELSE "none"]
  BY DEF InsertChain, db
<1>2. DOMAIN seg = 1..Len(seg) /\ Len(seg) \in Nat \ {0} /\ 1 \in 1..Len(seg)
  BY EmptySeq
<1>3. todo' \in Seq(Item)
  BY <1>1, WorkRight, EmptySeq
<1>4. ret' \in [segment : SUBSET Offered, err : Err]
  <2>1. ToSet(seg) \subseteq Offered
    BY <1>2 DEF ToSet
  <2> QED
    BY <1>1, <2>1 DEF Err
<1>5. HeadsIndex'
  BY <1>1, IndexFixed DEF ChainIInv
<1>6. Stored' /\ Waiting' /\ InWriters'
  BY <1>1, <1>3, <1>4 DEF ChainIInv, Stored, Waiting, InWriters
<1>7. SegmentKept'
  <2> SUFFICES ASSUME ret'.err = "none", ~BeginsWithRestart(ret'.segment), NEW b \in ret'.segment
               PROVE  \E k \in 1..Len(todo') : todo'[k].block = b
    BY DEF SegmentKept, Accounted, BeginsWithRestart, Gap, SlotOf, Parent, Sub
  <2>1. ~NoParent(seg) /\ ret'.segment = ToSet(seg)
    BY <1>1
  <2>2. seg[1] \in ToSet(seg) /\ \A c \in ToSet(seg) : Len(seg[1]) <= Len(c)
    BY <1>2 DEF ToSet
  <2>3. 1 \notin RestartIdxs(seg)
    BY <2>1, <2>2 DEF BeginsWithRestart, RestartIdxs
  <2>4. Len(todo') = Len(seg) /\ \A j \in 1..Len(seg) : todo'[j].block = seg[j]
    BY <1>1, <2>1, <2>3, WorkRight
  <2>5. PICK j \in 1..Len(seg) : b = seg[j]
    BY <1>2, <2>1 DEF ToSet
  <2> QED
    BY <2>4, <2>5
<1> QED
  BY <1>5, <1>6, <1>7 DEF ChainIInv

\* A peer delivers a segment.
LEMMA DeliverStep == ASSUME ChainIInv, Deliver PROVE ChainIInv'
<1>0. PICK b \in Tree : \E k \in 0..Len(b) - 1 : InsertChain(Segment(b, k))
  BY DEF Deliver
<1>1. PICK i \in 0..Len(b) - 1 : InsertChain(Segment(b, i))
  BY <1>0
<1> DEFINE n == Len(b) - i
           seg == Segment(b, i)
<1>2. b \in Seq(Nat) /\ Len(b) \in Nat
  BY ChainAssumption
<1>3. n \in Nat \ {0} /\ i \in Nat
  BY <1>1, <1>2
<1>4. ASSUME NEW j \in 1..n PROVE seg[j] = Ancestor(b, i + j) /\ seg[j] \in Offered /\ Len(seg[j]) = i + j
  <2>1. i + j \in 0..Len(b) /\ i + j > 0
    BY <1>1, <1>2, <1>3
  <2>2. Ancestor(b, i + j) \in Offered /\ Len(Ancestor(b, i + j)) = i + j
    BY <1>2, <2>1, AncestorRight DEF Offered
  <2> QED
    BY <2>2 DEF Segment
<1>5. DOMAIN seg = 1..n /\ seg \in [1..n -> Offered]
  BY <1>4 DEF Segment
<1> HIDE DEF seg, n
<1>6. seg \in Seq(Offered) /\ Len(seg) = n
  <2>1. seg \in Seq(Offered)
    BY <1>3, <1>5, SeqDef
  <2> QED
    BY <1>3, <1>5, <2>1, LenProperties
<1>7. seg # <<>>
  BY <1>3, <1>6, EmptySeq
<1>8. \A j \in 1..Len(seg) : Len(seg[1]) <= Len(seg[j])
  BY <1>3, <1>4, <1>6
<1> QED
  BY <1>1, <1>6, <1>7, <1>8, InsertChainStep DEF seg

\* The ticker takes a block out of the queue of future blocks.
LEMMA ProcFutureStep == ASSUME ChainIInv, NEW b \in future, ProcFuture(b) PROVE ChainIInv'
<1>1. b \in Offered /\ InsertChain(<<b>>)
  BY DEF ChainIInv, Waiting, ProcFuture
<1>2. <<b>> \in Seq(Offered) /\ <<b>> # <<>> /\ Len(<<b>>) = 1 /\ <<b>>[1] = b
  BY <1>1
<1>3. Len(b) \in Nat
  BY <1>1 DEF Offered
<1>4. \A j \in 1..Len(<<b>>) : Len(<<b>>[1]) <= Len(<<b>>[j])
  BY <1>2, <1>3
<1> QED
  BY <1>1, <1>2, <1>4, InsertChainStep

\* Every step keeps the invariant.
LEMMA ChainInductive == ASSUME ChainIInv, [Next]_vars PROVE ChainIInv'
<1>1. now \in Nat
  BY DEF ChainIInv, Waiting
<1>2. CASE Tick
  <2>1. now' \in Nat
    BY <1>1, <1>2, ChainAssumption DEF Tick
  <2> QED
    BY <1>2, <2>1, ElsewhereStep DEF Tick, db
<1>3. CASE Stop \/ \E e \in selecting : SelectLeaders(e)
  BY <1>1, <1>3, ElsewhereStep DEF Stop, SelectLeaders, db
<1>4. CASE UNCHANGED vars
  BY <1>1, <1>4, ElsewhereStep DEF vars, db
<1>5. CASE Import
  BY <1>5, SetRestartStep, SkipInterruptedStep, QueueFutureStep, SkipKnownStep, RejectBlockStep, CheckImportStep,
     WriteImportStep DEF Import
<1>6. CASE Deliver
  BY <1>6, DeliverStep
<1>7. CASE \E b \in future : ProcFuture(b)
  BY <1>7, ProcFutureStep
<1>8. CASE Mine \/ CheckMine \/ WriteMine
  BY <1>8, MineStep, CheckMineStep, WriteMineStep
<1>9. CASE DieIdle \/ DieWritten \/ DieInReorg
  BY <1>9, DieStep
<1> QED
  BY <1>2, <1>3, <1>4, <1>5, <1>6, <1>7, <1>8, <1>9 DEF Next

\* The invariant holds in every reachable state.
LEMMA ChainAlways == Spec => []ChainIInv
<1>1. ChainIInv /\ [Next]_vars => ChainIInv'
  BY ChainInductive
<1> QED
  BY ChainInit, <1>1, PTL DEF Spec

-----------------------------------------------------------------------------
(* Every stored block has its stored parent, and the head is stored, in    *)
(* whatever order blocks arrive and wherever the process dies              *)
(* (WriteBlockAndState, loadLastState).                                    *)
THEOREM AlwaysKnownAncestors == Spec => []KnownAncestors
<1>1. ChainIInv => KnownAncestors
  BY DEF ChainIInv, Stored, KnownAncestors
<1> QED
  BY ChainAlways, <1>1, PTL

(* An import that returned no error left no block of its segment out,      *)
(* unless the segment begins with a restart point (insertChainWithRestart) *)
(* or the process is being stopped (procInterrupt).                        *)
THEOREM AlwaysSegmentStored == Spec => []SegmentStored
<1>1. ASSUME ChainIInv PROVE SegmentStored
  <2> SUFFICES ASSUME ~procInterrupt, ~BeginsWithRestart(ret.segment), todo = <<>>, thread["import"] = Idle,
                      ret.err = "none", NEW b \in ret.segment
               PROVE  b \in blocks \cup future
    BY DEF SegmentStored, NothingDropped
  <2>1. Accounted(b)
    BY <1>1 DEF ChainIInv, SegmentKept
  <2>2. Len(todo) = 0 /\ thread["import"].at # "write"
    BY DEF Idle
  <2> QED
    BY <2>1, <2>2 DEF Accounted
<1> QED
  BY ChainAlways, <1>1, PTL

(* As long as no write was cut off the canonical index and the transaction *)
(* lookups are those of the head's chain (reorg, insert, WriteTxLookup-    *)
(* Entries, DeleteTxLookupEntry).                                          *)
THEOREM AlwaysHeadsIndex == Spec => []HeadsIndex
<1>1. ChainIInv => HeadsIndex
  BY DEF ChainIInv
<1> QED
  BY ChainAlways, <1>1, PTL

(* What a block that becomes the head leaves of the chain below it.        *)
LEMMA PrefixKept ==
    ASSUME NEW b \in Chain \ {<<>>}, head \in Chain, WriteCanonical(b),
           NEW n \in 1..Len(head) - (K - 1)
    PROVE  n <= Len(b) /\ Ancestor(b, n) = Ancestor(head, n)
<1>1. /\ head \in Seq(Nat) /\ b \in Seq(Nat) /\ b # <<>> /\ Len(head) \in Nat
      /\ Len(b) \in Nat \ {0} /\ K \in Nat \ {0}
  BY ChainAssumption, EmptySeq DEF Chain
<1>2. n \in Nat \ {0} /\ n <= Len(head)
  BY <1>1
<1>3. BecomesCanonical(b)
  BY DEF WriteCanonical
<1>4. Len(b) > Len(head)
  BY <1>1, <1>3 DEF BecomesCanonical
<1>5. CASE Parent(b) = head
  <2>1. head = Ancestor(b, Len(b) - 1) /\ Len(b) - 1 \in 0..Len(b)
    BY <1>1, <1>5, ParentRight
  <2>2. Len(head) = Len(b) - 1
    BY <1>1, <2>1, AncestorRight
  <2>3. n \in 0..(Len(b) - 1)
    BY <1>1, <1>2, <2>2
  <2>4. Ancestor(Ancestor(b, Len(b) - 1), n) = Ancestor(b, n)
    BY <1>1, <2>1, <2>3, AncestorOfAncestor
  <2> QED
    BY <1>1, <1>2, <1>4, <2>1, <2>4
<1>6. CASE Parent(b) # head
  <2>1. ~(Len(b) - Common(head, b) > K)
    BY <1>3, <1>6 DEF WriteCanonical, NeedsReorg, ReorgTooLong
  <2>2. /\ Common(head, b) \in 0..Len(b)
        /\ \A m \in 0..Common(head, b) : Ancestor(head, m) = Ancestor(b, m)
    BY <1>1, CommonRight
  <2>3. n \in 0..Common(head, b)
    BY <1>1, <1>2, <1>4, <2>1, <2>2
  <2> QED
    BY <1>1, <1>2, <1>4, <2>2, <2>3
<1> QED
  BY <1>5, <1>6

(* What has K - 1 blocks on top of it stays canonical in every step that   *)
(* does not cut off a write: reorg refuses a branch of more than K blocks, *)
(* and a branch must be longer than what it replaces.                      *)
THEOREM AlwaysStablePrefix == Spec => StablePrefix
<1> DEFINE Stays == Whole' => \A n \in 1..Len(head) - (K - 1) :
                                n <= Len(head') /\ Ancestor(head', n) = Ancestor(head, n)
<1>1. ASSUME ChainIInv, [Next]_vars PROVE [Stays]_vars
  <2>1. head \in Chain /\ head \in Seq(Nat) /\ Len(head) \in Nat /\ K \in Nat \ {0}
    BY <1>1, ChainAssumption DEF ChainIInv, Stored, Chain
  <2>2. ASSUME head' = head PROVE Stays
    BY <2>1, <2>2
  <2>3. ASSUME NEW w \in Writer, thread[w].at = "write", WriteCanonical(thread[w].block)
        PROVE  Stays
    <3>1. thread[w].block \in Chain \ {<<>>} /\ head' = thread[w].block
      BY <1>1, <2>3 DEF ChainIInv, InWriters, WriteCanonical
    <3> QED
      BY <2>1, <2>3, <3>1, PrefixKept
  <2>4. ASSUME NEW w \in Writer, thread[w].at = "write",
               \/ Refuse(thread[w].block) \/ WriteSide(thread[w].block)
               \/ WriteCanonical(thread[w].block)
        PROVE  Stays
    BY <2>2, <2>3, <2>4 DEF Refuse, WriteSide
  <2>5. CASE WriteImport
    BY <2>4, <2>5 DEF WriteImport, Writer
  <2>6. CASE WriteMine
    BY <2>4, <2>6 DEF WriteMine, Writer
  <2>7. CASE DieIdle
    BY <2>2, <2>7 DEF DieIdle, NewBlockChain
  <2>8. ASSUME NEW h, NEW index, NEW where \in {"written", "reorg"}, NewBlockChain(h, index, where)
        PROVE  Stays
    <3>1. crashes \in Seq(Where) /\ crashes' = Append(crashes, where) /\ where \in Where
      BY <1>1, <2>8 DEF ChainIInv, Waiting, NewBlockChain, Where
    <3>2. /\ crashes' \in Seq(Where) /\ Len(crashes) \in Nat /\ Len(crashes') = Len(crashes) + 1
          /\ crashes'[Len(crashes) + 1] = where
      BY <3>1, AppendProperties
    <3>3. Len(crashes) + 1 \in DOMAIN crashes'
      BY <3>2
    <3>4. where \in ToSet(crashes')
      BY <3>2, <3>3 DEF ToSet
    <3> QED
      BY <2>8, <3>4 DEF Whole
  <2>9. CASE DieWritten \/ DieInReorg
    BY <2>8, <2>9 DEF DieWritten, DieInReorg
  <2>10. CASE Import /\ ~WriteImport
    BY <2>2, <2>10 DEF Import, SetRestart, SkipInterrupted, QueueFuture, SkipKnown, RejectBlock, CheckImport, db
  <2>11. CASE Mine \/ CheckMine
    BY <2>2, <2>11 DEF Mine, CheckMine, db
  <2>12. CASE Tick \/ Stop \/ Deliver \/ (\E b \in future : ProcFuture(b)) \/ (\E e \in selecting : SelectLeaders(e))
    BY <2>2, <2>12 DEF Tick, Stop, Deliver, ProcFuture, InsertChain, SelectLeaders, db
  <2> QED
    BY <1>1, <2>5, <2>6, <2>7, <2>9, <2>10, <2>11, <2>12 DEF Next
<1>2. ASSUME ChainIInv, [Next]_vars
      PROVE  [Whole' => \A n \in 1..Len(head) - (K - 1) :
                 n <= Len(head') /\ Ancestor(head', n) = Ancestor(head, n)]_vars
  BY <1>1, <1>2
<1> QED
  BY ChainAlways, <1>2, PTL DEF Spec, StablePrefix

-----------------------------------------------------------------------------
(* The types, and the cache of chain quality.                              *)

(* A cache has room for 2K keys.                                           *)
IsCache(c) == IsFiniteSet(c) /\ Cardinality(c) <= SlotSecurityParam

\* The empty cache is one, and so are some of the keys of a cache.
LEMMA SomeKeys ==
    /\ IsCache({})
    /\ \A c : \A d \in SUBSET c : IsCache(c) => IsCache(d)
<1>1. SlotSecurityParam \in Nat
  BY ChainAssumption DEF SlotSecurityParam
<1>2. IsCache({})
  BY <1>1, FS_EmptySet DEF IsCache
<1>3. ASSUME NEW c, NEW d \in SUBSET c, IsCache(c) PROVE IsCache(d)
  <2>1. IsFiniteSet(d) /\ Cardinality(d) \in Nat /\ Cardinality(c) \in Nat
        /\ Cardinality(d) <= Cardinality(c)
    BY <1>3, FS_Subset, FS_CardinalityType DEF IsCache
  <2> QED
    BY <1>1, <1>3, <2>1 DEF IsCache
<1> QED
  BY <1>2, <1>3

\* Pruning leaves a cache.
LEMMA CachePruned ==
    ASSUME IsCache(cqCache), NEW b
    PROVE  IsCache(PrunedFor(b))
<1>1. PrunedFor(b) \in SUBSET cqCache
  BY DEF PrunedFor
<1> QED
  BY <1>1, SomeKeys

\* A key that is added leaves a cache, whichever other key makes room.
LEMMA CacheAdded ==
    ASSUME NEW c, IsCache(c), NEW s, NEW d \in CacheAdds(c, s)
    PROVE  IsCache(d)
<1>1. SlotSecurityParam \in Nat /\ IsFiniteSet(c) /\ Cardinality(c) \in Nat
      /\ Cardinality(c) <= SlotSecurityParam
  BY ChainAssumption, FS_CardinalityType DEF IsCache, SlotSecurityParam
<1>2. ASSUME s \in c \/ Cardinality(c) < SlotSecurityParam, d = c \cup {s} PROVE IsCache(d)
  <2>1. IsFiniteSet(d) /\ Cardinality(d) = IF s \in c THEN Cardinality(c) ELSE Cardinality(c) + 1
    BY <1>1, <1>2, FS_AddElement
  <2> QED
    BY <1>1, <1>2, <2>1 DEF IsCache
<1>3. ASSUME NEW old \in c, s \notin c, d = (c \ {old}) \cup {s} PROVE IsCache(d)
  <2>1. IsFiniteSet(c \ {old}) /\ Cardinality(c \ {old}) = Cardinality(c) - 1 /\ s \notin c \ {old}
    BY <1>1, <1>3, FS_RemoveElement
  <2>2. IsFiniteSet(d) /\ Cardinality(d) = Cardinality(c \ {old}) + 1
    BY <1>3, <2>1, FS_AddElement
  <2> QED
    BY <1>1, <2>1, <2>2 DEF IsCache
<1> QED
  BY <1>2, <1>3 DEF CacheAdds

(* A chain has no more blocks than slots.                                  *)
LEMMA LengthBound ==
    ASSUME NEW b \in Chain
    PROVE  Len(b) \in Nat /\ SlotOf(b) \in Nat /\ Len(b) <= SlotOf(b)
<1> DEFINE C == {m \in Nat : m \in 1..Len(b) /\ ~(m <= b[m])}
<1>1. b \in Seq(Nat) /\ Len(b) \in Nat /\ \A k \in 1..Len(b) : b[k] \in Nat /\ Prev(b, k) < b[k]
  BY DEF Chain
<1>2. Base \in Nat
  BY BaseNat
<1>3. C = {}
  <2> SUFFICES ASSUME C # {} PROVE FALSE
    OBVIOUS
  <2>1. PICK m \in C : \A n \in C : m <= n
    <3>1. C \in SUBSET Nat
      OBVIOUS
    <3> HIDE DEF C
    <3> QED
      BY <3>1, LeastNatural
  <2>2. m \in Nat /\ m \in 1..Len(b) /\ ~(m <= b[m])
    OBVIOUS
  <2>3. CASE m = 1
    <3>1. Prev(b, 1) = Base
      BY DEF Prev
    <3> QED
      BY <1>1, <1>2, <2>2, <2>3, <3>1
  <2>4. CASE m # 1
    <3>1. m - 1 \in 1..Len(b) /\ m - 1 \in Nat
      BY <1>1, <2>2, <2>4
    <3>2. Prev(b, m) = b[m - 1]
      BY <2>4 DEF Prev
    <3>3. m - 1 \notin C
      BY <2>1, <2>2
    <3>4. m - 1 <= b[m - 1]
      BY <3>1, <3>3
    <3> QED
      BY <1>1, <2>2, <3>1, <3>2, <3>4
  <2> QED
    BY <2>3, <2>4
<1>4. CASE b = <<>>
  BY <1>2, <1>4 DEF SlotOf, Base
<1>5. CASE b # <<>>
  <2>1. Len(b) \in 1..Len(b)
    BY <1>1, <1>5, EmptySeq
  <2>2. SlotOf(b) = b[Len(b)]
    BY <1>5 DEF SlotOf, Last
  <2>3. Len(b) <= b[Len(b)]
    BY <1>1, <1>3, <2>1
  <2> QED
    BY <1>1, <2>1, <2>2, <2>3
<1> QED
  BY <1>4, <1>5

\* No more than m numbers have fewer than m before them.
LEMMA EarliestFew ==
    ASSUME NEW n \in Nat, NEW L \in SUBSET (1..n), NEW m \in Nat
    PROVE  /\ IsFiniteSet({i \in L : Cardinality({j \in L : j < i}) < m})
           /\ Cardinality({i \in L : Cardinality({j \in L : j < i}) < m}) <= m
<1> DEFINE A(i) == {j \in L : j < i}
           T == {i \in L : Cardinality(A(i)) < m}
<1>1. IsFiniteSet(L)
  <2>1. IsFiniteSet(1..n)
    BY FS_Interval
  <2> QED
    BY <2>1, FS_Subset
<1>2. T \in SUBSET L /\ (\A i \in T : Cardinality(A(i)) < m) /\ \A i : A(i) \in SUBSET L
  OBVIOUS
<1>3. \A i \in L : i \in Nat /\ i \in 0..n
  OBVIOUS
<1>4. \A i, j \in L : j < i => j \in A(i)
  OBVIOUS
<1> HIDE DEF A, T
<1>5. IsFiniteSet(T) /\ Cardinality(T) \in Nat
  BY <1>1, <1>2, FS_Subset, FS_CardinalityType
<1>6. ASSUME T = {} PROVE Cardinality(T) <= m
  BY <1>6, FS_EmptySet
<1>7. ASSUME T # {} PROVE Cardinality(T) <= m
  <2>1. T \in SUBSET (0..n)
    BY <1>2, <1>3
  <2>2. PICK t \in T : \A i \in T : i <= t
    BY <1>7, <2>1, GreatestUpTo
  <2>3. IsFiniteSet(T \ {t}) /\ Cardinality(T \ {t}) = Cardinality(T) - 1
    BY <1>5, <2>2, FS_RemoveElement
  <2>4. T \ {t} \subseteq A(t)
    <3> SUFFICES ASSUME NEW i \in T \ {t} PROVE i \in A(t)
      OBVIOUS
    <3>1. i \in L /\ t \in L /\ i \in Nat /\ t \in Nat /\ i <= t /\ i # t
      BY <1>2, <1>3, <2>2
    <3> QED
      BY <1>4, <3>1
  <2>5. IsFiniteSet(A(t)) /\ Cardinality(A(t)) \in Nat
    BY <1>1, <1>2, FS_Subset, FS_CardinalityType
  <2>6. Cardinality(T \ {t}) <= Cardinality(A(t))
    BY <2>4, <2>5, FS_Subset
  <2>7. Cardinality(A(t)) < m
    BY <1>2, <2>2
  <2> QED
    BY <1>5, <2>3, <2>5, <2>6, <2>7
<1>8. IsFiniteSet(T) /\ Cardinality(T) <= m
  BY <1>5, <1>6, <1>7
<1> QED
  BY <1>8 DEF T, A

\* What NewBlockChain fills the cache with is a cache.
LEMMA CacheLoaded ==
    ASSUME NEW h \in Chain, NEW index
    PROVE  IsCache(CacheOf(h, index))
<1> DEFINE near(n) == Sub(SlotOf(h), SlotOf(index[n])) <= SlotSecurityParam
           added   == {n \in 2..Len(h) : \A m \in n + 1..Len(h) : near(m)}
           kept    == {k \in added : Cardinality({m \in added : m < k}) < SlotSecurityParam}
           slot(n) == SlotOf(index[n])
           C       == {slot(n) : n \in kept}
           f       == [n \in kept |-> slot(n)]
<1>1. CacheOf(h, index) = C
  BY DEF CacheOf
<1>2. Len(h) \in Nat /\ SlotSecurityParam \in Nat
  BY LengthBound, ChainAssumption DEF SlotSecurityParam
<1>3. added \in SUBSET (1..Len(h))
  BY <1>2
<1> HIDE DEF added
<1>4. IsFiniteSet(kept) /\ Cardinality(kept) <= SlotSecurityParam
  BY <1>2, <1>3, EarliestFew
<1> HIDE DEF kept
<1>5. f \in Surjection(kept, C)
  BY DEF Surjection
<1>6. IsFiniteSet(C) /\ Cardinality(C) <= Cardinality(kept)
  BY <1>4, <1>5, FS_Surjection
<1>7. Cardinality(C) \in Nat /\ Cardinality(kept) \in Nat
  BY <1>4, <1>6, FS_CardinalityType
<1> HIDE DEF C
<1>8. IsCache(C)
  BY <1>2, <1>4, <1>6, <1>7 DEF IsCache
<1> QED
  BY <1>1, <1>8

(* What the types need: no stored or written block is ahead of the clock.  *)
ChainTypes ==
    /\ now \in 0..MaxNow
    /\ \A b \in blocks : SlotOf(b) <= now
    /\ \A w \in Writer : thread[w].at # "idle" => SlotOf(thread[w].block) <= now
    /\ thread["import"].at # "check"
    /\ IsCache(cqCache) /\ restartSucess \in BOOLEAN /\ procInterrupt \in BOOLEAN
    /\ selecting \subseteq Epochs /\ lastBlockEpoch \in [Epochs -> 0..MaxNow]

\* They hold at the start.
LEMMA TypesInit == Init => ChainTypes
<1> SUFFICES ASSUME Init PROVE ChainTypes
  OBVIOUS
<1>1. /\ now = FirstEpochId * SlotCount /\ blocks = {<<>>} /\ cqCache = {} /\ restartSucess = FALSE
      /\ procInterrupt = FALSE /\ lastBlockEpoch = [e \in Epochs |-> 0] /\ selecting = {}
      /\ thread = [t \in {"import", "mine"} |-> Idle]
  BY DEF Init
<1>2. now \in 0..MaxNow /\ SlotOf(<<>>) <= now
  <2>1. FirstEpochId * SlotCount \in Nat
    BY ChainAssumption
  <2>2. SlotOf(<<>>) = FirstEpochId * SlotCount - 1
    BY DEF SlotOf
  <2> QED
    BY <1>1, <2>1, <2>2, ChainAssumption
<1>3. IsCache(cqCache)
  BY <1>1, SomeKeys
<1>4. \A w \in Writer : thread[w].at = "idle"
  BY <1>1 DEF Writer, Idle
<1>5. lastBlockEpoch \in [Epochs -> 0..MaxNow]
  BY <1>1, ChainAssumption
<1> QED
  BY <1>1, <1>2, <1>3, <1>4, <1>5 DEF ChainTypes, Writer

\* A step elsewhere keeps them.
LEMMA TypesElsewhere ==
    ASSUME ChainTypes, blocks \subseteq Chain, InWriters, now' \in now..MaxNow,
           procInterrupt' \in BOOLEAN,
           UNCHANGED <<blocks, thread, cqCache, restartSucess, selecting, lastBlockEpoch>>
    PROVE  ChainTypes'
<1>1. now \in Nat /\ now' \in Nat /\ now <= now' /\ now' \in 0..MaxNow
  BY ChainAssumption DEF ChainTypes
<1>2. ASSUME NEW b \in blocks PROVE SlotOf(b) <= now'
  BY <1>1, <1>2, LengthBound DEF ChainTypes
<1>3. ASSUME NEW w \in Writer, thread[w].at # "idle" PROVE SlotOf(thread[w].block) <= now'
  <2>1. thread[w].block \in Chain
    BY <1>3 DEF InWriters
  <2> QED
    BY <1>1, <1>3, <2>1, LengthBound DEF ChainTypes
<1> QED
  BY <1>1, <1>2, <1>3 DEF ChainTypes

\* The check before a write keeps the cache a cache.
LEMMA TypesChecked ==
    ASSUME ChainTypes, NEW b, CheckEffect(b)
    PROVE  IsCache(cqCache)' /\ restartSucess' \in BOOLEAN
<1>1. cqCache' = PrunedFor(b) \/ cqCache' = cqCache
  BY DEF CheckEffect
<1>2. IsCache(PrunedFor(b)) /\ IsCache(cqCache)
  BY CachePruned DEF ChainTypes
<1>3. restartSucess' = TRUE \/ restartSucess' = restartSucess
  BY DEF CheckEffect, rst
<1> QED
  BY <1>1, <1>2, <1>3 DEF ChainTypes, IsCache

\* Epochs of slots up to the clock are epochs of the model.
LEMMA EpochInRange ==
    ASSUME NEW s \in Nat, s <= MaxNow
    PROVE  EpochOf(s) \in Nat /\ EpochOf(s) \in Epochs /\ EpochOf(s) + 1 \in Epochs
<1>1. MaxNow \in Nat /\ SlotCount \in Nat \ {0}
  BY ChainAssumption
<1>2. s \div SlotCount \in Nat /\ MaxNow \div SlotCount \in Nat /\ s \div SlotCount <= MaxNow \div SlotCount
  BY <1>1, QuotientOfNat, QuotientGrows
<1> QED
  BY <1>2 DEF EpochOf, Epochs

\* A write keeps them.
LEMMA TypesWritten ==
    ASSUME ChainTypes, NEW b \in Chain \ {<<>>}, SlotOf(b) <= now, now' = now,
           Refuse(b) \/ WriteSide(b) \/ WriteCanonical(b)
    PROVE  /\ \A a \in blocks' : SlotOf(a) <= now'
           /\ IsCache(cqCache)' /\ selecting' \subseteq Epochs
           /\ lastBlockEpoch' \in [Epochs -> 0..MaxNow]
<1>1. /\ now \in 0..MaxNow /\ IsCache(cqCache) /\ selecting \subseteq Epochs
      /\ lastBlockEpoch \in [Epochs -> 0..MaxNow] /\ \A a \in blocks : SlotOf(a) <= now
  BY DEF ChainTypes
<1>2. blocks' \subseteq blocks \cup {b}
  BY DEF Refuse, WriteSide, WriteCanonical
<1>3. \A a \in blocks' : SlotOf(a) <= now'
  BY <1>1, <1>2
<1>4. ASSUME UNCHANGED <<cqCache, selecting, lastBlockEpoch>>
      PROVE  /\ IsCache(cqCache)' /\ selecting' \subseteq Epochs
             /\ lastBlockEpoch' \in [Epochs -> 0..MaxNow]
  BY <1>1, <1>4 DEF IsCache
<1>5. CASE Refuse(b) \/ WriteSide(b)
  BY <1>3, <1>4, <1>5 DEF Refuse, WriteSide, cq, sel
<1>6. CASE WriteCanonical(b)
  <2> DEFINE e == EpochOf(SlotOf(b))
  <2>1. /\ cqCache' \in CacheAdds(cqCache, SlotOf(b))
        /\ selecting' \subseteq selecting \cup {e + 1}
        /\ lastBlockEpoch' = [lastBlockEpoch EXCEPT ![e] = Len(b)]
    BY <1>6 DEF WriteCanonical, UpdateEpochBlock
  <2>2. Len(b) \in Nat /\ SlotOf(b) \in Nat /\ Len(b) <= SlotOf(b)
    BY LengthBound
  <2>3. SlotOf(b) <= MaxNow /\ Len(b) \in 0..MaxNow
    BY <1>1, <2>2, ChainAssumption
  <2>4. e + 1 \in Epochs
    BY <2>2, <2>3, EpochInRange
  <2>5. IsCache(cqCache')
    BY <1>1, <2>1, CacheAdded
  <2> HIDE DEF e
  <2>6. lastBlockEpoch' \in [Epochs -> 0..MaxNow]
    BY <1>1, <2>1, <2>3
  <2>7. IsCache(cqCache)'
    BY <2>1, <2>5 DEF IsCache
  <2> QED
    BY <1>1, <1>3, <2>1, <2>4, <2>6, <2>7
<1> QED
  BY <1>5, <1>6

\* Another block for a writer keeps them.
LEMMA TypesThread ==
    ASSUME ChainTypes, InWriters, NEW w \in Writer, NEW x, thread' = [thread EXCEPT ![w] = x],
           x.at = "idle" \/ SlotOf(x.block) <= now, w = "import" => x.at # "check", now' = now
    PROVE  /\ \A v \in Writer : thread'[v].at # "idle" => SlotOf(thread'[v].block) <= now'
           /\ thread'["import"].at # "check"
<1>1. \A v \in Writer : thread'[v] = IF v = w THEN x ELSE thread[v]
  BY DEF InWriters
<1>2. "import" \in Writer
  BY DEF Writer
<1> QED
  BY <1>1, <1>2 DEF ChainTypes

\* One more step of the importer or the miner keeps them.
LEMMA TypesWriters ==
    ASSUME ChainIInv, ChainTypes, CheckImport \/ WriteImport \/ Mine \/ CheckMine \/ WriteMine
    PROVE  ChainTypes'
<1>1. Waiting /\ InWriters /\ Stored /\ "import" \in Writer /\ "mine" \in Writer
  BY DEF ChainIInv, Writer
<1>2. /\ Idle.at = "idle" /\ now \in 0..MaxNow /\ now \in Nat
  BY DEF Idle, ChainTypes
<1>3. CASE CheckImport
  <2> DEFINE b == Head(todo).block
             x == [at |-> "write", block |-> b]
  <2>1. /\ UNCHANGED <<now, procInterrupt, blocks, selecting, lastBlockEpoch>> /\ Linked(b) /\ CheckEffect(b)
        /\ thread' = thread \/ thread' = [thread EXCEPT !["import"] = x]
    BY <1>3 DEF CheckImport, db, sel
  <2>2. todo # <<>>
    BY <1>3 DEF CheckImport, Inserting, Doing
  <2>3. SlotOf(b) \in Nat /\ SlotOf(b) <= now
    <3>1. ~(SlotOf(b) > now)
      BY <2>1 DEF Linked, Early
    <3>2. b \in Seq(Nat) /\ b # <<>>
      BY <1>1, <2>2, TakeFirst DEF Offered
    <3>3. SlotOf(b) \in Nat
      <4> HIDE DEF b
      <4>1. Len(b) \in 1..Len(b)
        BY <3>2, EmptySeq
      <4>2. b[Len(b)] \in Nat
        BY <3>2, <4>1
      <4> QED
        BY <3>2, <4>2 DEF SlotOf, Last
    <3> HIDE DEF b
    <3> QED
      BY <1>2, <3>1, <3>3
  <2>4. IsCache(cqCache)' /\ restartSucess' \in BOOLEAN
    BY <2>1, TypesChecked
  <2> HIDE DEF b
  <2>5. /\ \A v \in Writer : thread'[v].at # "idle" => SlotOf(thread'[v].block) <= now'
        /\ thread'["import"].at # "check"
    <3>1. CASE thread' = thread
      BY <2>1, <3>1 DEF ChainTypes
    <3>2. CASE thread' = [thread EXCEPT !["import"] = x]
      <4>1. x.at = "write" /\ x.block = b
        OBVIOUS
      <4> HIDE DEF x
      <4> QED
        BY <1>1, <2>1, <2>3, <3>2, <4>1, TypesThread
    <3> QED
      BY <2>1, <3>1, <3>2
  <2> QED
    BY <2>1, <2>4, <2>5 DEF ChainTypes
<1>4. ASSUME NEW w \in Writer, thread[w].at = "write", thread' = [thread EXCEPT ![w] = Idle],
             now' = now, UNCHANGED <<restartSucess, procInterrupt>>,
             Refuse(thread[w].block) \/ WriteSide(thread[w].block) \/ WriteCanonical(thread[w].block)
      PROVE  ChainTypes'
  <2> DEFINE b == thread[w].block
  <2>1. b \in Chain \ {<<>>} /\ SlotOf(b) <= now
    BY <1>1, <1>4 DEF InWriters, ChainTypes
  <2>2. /\ \A a \in blocks' : SlotOf(a) <= now'
        /\ IsCache(cqCache)' /\ selecting' \subseteq Epochs
        /\ lastBlockEpoch' \in [Epochs -> 0..MaxNow]
    BY <1>4, <2>1, TypesWritten
  <2>3. /\ \A v \in Writer : thread'[v].at # "idle" => SlotOf(thread'[v].block) <= now'
        /\ thread'["import"].at # "check"
    BY <1>1, <1>2, <1>4, TypesThread
  <2> QED
    BY <1>2, <1>4, <2>2, <2>3 DEF ChainTypes
<1>5. CASE WriteImport
  BY <1>1, <1>4, <1>5 DEF WriteImport, rst
<1>6. CASE WriteMine
  BY <1>1, <1>4, <1>6 DEF WriteMine, rst
<1>7. CASE Mine
  <2> DEFINE b == Append(head, now)
             x == [at |-> "check", block |-> b]
  <2>1. /\ UNCHANGED <<now, procInterrupt, blocks, cqCache, restartSucess, selecting, lastBlockEpoch>>
        /\ thread' = [thread EXCEPT !["mine"] = x]
    BY <1>7 DEF Mine, db, cq, rst, sel
  <2>2. SlotOf(b) = now
    <3>1. head \in Seq(Nat)
      BY <1>1 DEF Stored, Chain
    <3>2. b \in Seq(Nat) /\ b # <<>> /\ Len(b) = Len(head) + 1 /\ b[Len(head) + 1] = now
      BY <1>2, <3>1, AppendProperties
    <3> HIDE DEF b
    <3> QED
      BY <3>2 DEF SlotOf, Last
  <2>3. x.at = "check" /\ x.block = b /\ "mine" # "import"
    OBVIOUS
  <2> HIDE DEF b, x
  <2>4. SlotOf(x.block) <= now
    BY <1>2, <2>2, <2>3
  <2>5. /\ \A v \in Writer : thread'[v].at # "idle" => SlotOf(thread'[v].block) <= now'
        /\ thread'["import"].at # "check"
    BY <1>1, <2>1, <2>3, <2>4, TypesThread
  <2> QED
    BY <2>1, <2>5 DEF ChainTypes, IsCache
<1>8. CASE CheckMine
  <2> DEFINE x == [thread["mine"] EXCEPT !.at = "write"]
  <2>1. /\ UNCHANGED <<now, procInterrupt, blocks, selecting, lastBlockEpoch>> /\ CheckEffect(thread["mine"].block)
        /\ thread["mine"].at = "check"
        /\ thread' = [thread EXCEPT !["mine"] = Idle] \/ thread' = [thread EXCEPT !["mine"] = x]
    BY <1>8 DEF CheckMine, db, sel
  <2>2. IsCache(cqCache)' /\ restartSucess' \in BOOLEAN
    BY <2>1, TypesChecked
  <2>3. SlotOf(thread["mine"].block) <= now
    BY <1>1, <2>1 DEF ChainTypes
  <2>4. x.block = thread["mine"].block
    BY <1>1 DEF InWriters, Writing
  <2> HIDE DEF x
  <2>5. /\ \A v \in Writer : thread'[v].at # "idle" => SlotOf(thread'[v].block) <= now'
        /\ thread'["import"].at # "check"
    BY <1>1, <1>2, <2>1, <2>3, <2>4, TypesThread
  <2> QED
    BY <2>1, <2>2, <2>5 DEF ChainTypes
<1> QED
  BY <1>3, <1>5, <1>6, <1>7, <1>8

\* The selection of leaders keeps them.
LEMMA TypesSelect ==
    ASSUME ChainIInv, ChainTypes, NEW e \in selecting, SelectLeaders(e)
    PROVE  ChainTypes'
<1> DEFINE d == e - 2
           n == GetEpochBlock(d)
<1>1. /\ UNCHANGED <<now, procInterrupt, blocks, thread, cqCache, restartSucess>> /\ selecting' = selecting \ {e}
      /\ \/ lastBlockEpoch' = lastBlockEpoch
         \/ /\ lastBlockEpoch[d] = 0 /\ lastBlockEpoch' = [lastBlockEpoch EXCEPT ![d] = n]
  BY DEF SelectLeaders, db, cq, rst
<1>2. ASSUME lastBlockEpoch[d] = 0 PROVE n \in 0..MaxNow
  <2> DEFINE S == {m \in 1..Len(head) : EpochOf(SlotOf(canon[m])) <= d}
  <2>1. n = IF S = {} THEN 0 ELSE CHOOSE m \in S : \A k \in S : k <= m
    BY <1>2 DEF GetEpochBlock, LastNumberOf
  <2>2. Len(head) \in Nat /\ Len(head) <= MaxNow
    <3>1. head \in blocks /\ head \in Chain
      BY DEF ChainIInv, Stored
    <3>2. now \in Nat /\ now <= MaxNow /\ SlotOf(head) <= now
      BY <3>1 DEF ChainTypes
    <3>3. Len(head) \in Nat /\ SlotOf(head) \in Nat /\ Len(head) <= SlotOf(head)
      BY <3>1, LengthBound
    <3> QED
      BY <3>2, <3>3, ChainAssumption
  <2>3. S \in SUBSET (0..Len(head))
    BY <2>2
  <2> HIDE DEF S, n
  <2>4. CASE S = {}
    BY <2>1, <2>4, ChainAssumption
  <2>5. CASE S # {}
    <3>1. \E m \in S : \A k \in S : k <= m
      BY <2>2, <2>3, <2>5, GreatestUpTo
    <3>2. n \in S
      BY <2>1, <2>5, <3>1
    <3> QED
      BY <2>2, <2>3, <3>2, ChainAssumption
  <2> QED
    BY <2>4, <2>5
<1> HIDE DEF n, d
<1>3. lastBlockEpoch' \in [Epochs -> 0..MaxNow]
  BY <1>1, <1>2 DEF ChainTypes
<1> QED
  BY <1>1, <1>3 DEF ChainTypes, IsCache

\* A start after a death between blocks has them again.
LEMMA TypesRestarted ==
    ASSUME ChainIInv, ChainTypes, Whole, DieIdle
    PROVE  ChainTypes'
<1>1. /\ UNCHANGED <<now, blocks>> /\ cqCache' = CacheOf(head, canon) /\ restartSucess' = FALSE
      /\ procInterrupt' = FALSE
      /\ thread' = [t \in {"import", "mine"} |-> Idle]
      /\ lastBlockEpoch' = [e \in Epochs |-> 0] /\ selecting' = {}
  BY DEF DieIdle, NewBlockChain
<1>2. head \in blocks /\ head \in Chain
  BY DEF ChainIInv, Stored
<1>5. IsCache(CacheOf(head, canon))
  BY <1>2, CacheLoaded
<1>6. IsCache(cqCache)'
  BY <1>1, <1>5 DEF IsCache
<1>7. \A w \in Writer : thread'[w].at = "idle"
  BY <1>1 DEF Writer, Idle
<1>8. lastBlockEpoch' \in [Epochs -> 0..MaxNow]
  BY <1>1, ChainAssumption
<1> QED
  BY <1>1, <1>6, <1>7, <1>8 DEF ChainTypes, Writer

\* Whoever dies within a write leaves a chain that is not whole.
LEMMA WholeBefore ==
    ASSUME ChainIInv, [Next]_vars, Whole'
    PROVE  Whole /\ ~DieWritten /\ ~DieInReorg
<1>1. crashes \in Seq(Where)
  BY DEF ChainIInv, Waiting
<1>2. ASSUME NEW where \in Where, crashes' = Append(crashes, where) PROVE Whole /\ where = "idle"
  <2>1. /\ Len(crashes) \in Nat /\ Len(crashes') = Len(crashes) + 1 /\ crashes' \in Seq(Where)
        /\ \A i \in 1..Len(crashes) : crashes'[i] = crashes[i]
        /\ crashes'[Len(crashes) + 1] = where
    BY <1>1, <1>2, AppendProperties
  <2>2. DOMAIN crashes = 1..Len(crashes) /\ DOMAIN crashes' = 1..Len(crashes')
    BY <1>1, <2>1
  <2>3. (\A i \in 1..Len(crashes) : i \in 1..Len(crashes')) /\ Len(crashes) + 1 \in 1..Len(crashes')
    BY <2>1
  <2> QED
    BY <2>1, <2>2, <2>3 DEF Whole, ToSet
<1>3. "idle" \in Where /\ "written" \in Where /\ "reorg" \in Where
  BY DEF Where
<1>4. ~DieWritten /\ ~DieInReorg
  BY <1>2, <1>3 DEF DieWritten, DieInReorg, NewBlockChain
<1>5. crashes' = crashes => Whole
  BY DEF Whole
<1>6. DieIdle => Whole
  BY <1>2, <1>3 DEF DieIdle, NewBlockChain
<1>7. CASE Import
  BY <1>4, <1>5, <1>7 DEF Import, SetRestart, SkipInterrupted, QueueFuture, SkipKnown, RejectBlock,
     CheckImport, WriteImport
<1>8. CASE Tick \/ Stop \/ Deliver \/ \E b \in future : ProcFuture(b)
  BY <1>4, <1>5, <1>8 DEF Tick, Stop, Deliver, ProcFuture, InsertChain
<1>9. CASE Mine \/ CheckMine \/ WriteMine \/ \E e \in selecting : SelectLeaders(e)
  BY <1>4, <1>5, <1>9 DEF Mine, CheckMine, WriteMine, SelectLeaders
<1>10. CASE UNCHANGED vars
  BY <1>4, <1>5, <1>10 DEF vars
<1> QED
  BY <1>4, <1>6, <1>7, <1>8, <1>9, <1>10 DEF Next

\* Every step keeps the types of a chain that stays whole.
LEMMA TypesInductive ==
    ASSUME ChainIInv, Whole => ChainTypes, [Next]_vars
    PROVE  (Whole => ChainTypes)'
<1> SUFFICES ASSUME Whole' PROVE ChainTypes'
  OBVIOUS
<1>1. ChainTypes /\ Whole /\ ~DieWritten /\ ~DieInReorg
  BY WholeBefore
<1>2. /\ blocks \subseteq Chain /\ InWriters /\ now \in 0..MaxNow /\ now \in now..MaxNow
      /\ procInterrupt \in BOOLEAN
  BY <1>1 DEF ChainIInv, Stored, ChainTypes
<1>3. CASE Tick
  <2>1. now' \in now..MaxNow
    BY <1>2, <1>3, ChainAssumption DEF Tick
  <2> QED
    BY <1>1, <1>2, <1>3, <2>1, TypesElsewhere DEF Tick, db, cq, rst, sel
<1>4. CASE Stop \/ Deliver \/ \E b \in future : ProcFuture(b)
  <2>1. /\ UNCHANGED <<now, blocks, thread, cqCache, restartSucess, selecting, lastBlockEpoch>>
        /\ procInterrupt' \in BOOLEAN
    BY <1>2, <1>4 DEF Stop, Deliver, ProcFuture, InsertChain, db, cq, rst, sel
  <2> QED
    BY <1>1, <1>2, <2>1, TypesElsewhere
<1>5. CASE SkipInterrupted \/ QueueFuture \/ SkipKnown \/ RejectBlock
  <2>1. UNCHANGED <<now, procInterrupt, blocks, thread, cqCache, restartSucess, selecting, lastBlockEpoch>>
    BY <1>5 DEF SkipInterrupted, QueueFuture, SkipKnown, RejectBlock, db, cq, rst, sel
  <2> QED
    BY <1>1, <1>2, <2>1, TypesElsewhere
<1>6. CASE UNCHANGED vars
  BY <1>1, <1>2, <1>6, TypesElsewhere DEF vars, db, cq, rst, sel
<1>7. CASE SetRestart
  <2>1. /\ UNCHANGED <<now, procInterrupt, blocks, thread, cqCache, selecting, lastBlockEpoch>>
        /\ restartSucess' \in BOOLEAN
    BY <1>7 DEF SetRestart, SetRestartBlock, db, cq, sel
  <2> QED
    BY <1>1, <2>1 DEF ChainTypes, IsCache
<1>8. CASE CheckImport \/ WriteImport \/ Mine \/ CheckMine \/ WriteMine
  BY <1>1, <1>8, TypesWriters
<1>9. CASE \E e \in selecting : SelectLeaders(e)
  BY <1>1, <1>9, TypesSelect
<1>10. CASE DieIdle
  BY <1>1, <1>10, TypesRestarted
<1> QED
  BY <1>1, <1>3, <1>4, <1>5, <1>6, <1>7, <1>8, <1>9, <1>10 DEF Next, Import

(* As long as no write was cut off, index, lookups and head are those of   *)
(* one chain, and what is kept beside them has its types: the quality      *)
(* cache never has more slots than its window has, however                 *)
(* pruning, adding and loading follow each other (isWriteBlockSecure,      *)
(* WriteBlockAndState, NewBlockChain).                                     *)
THEOREM AlwaysIndexIsHeads == Spec => []IndexIsHeads
<1>1. Init => (Whole => ChainTypes)
  BY TypesInit
<1>2. ChainIInv /\ (Whole => ChainTypes) /\ [Next]_vars => (Whole => ChainTypes)'
  BY TypesInductive
<1>3. ChainIInv /\ (Whole => ChainTypes) => IndexIsHeads
  <2> SUFFICES ASSUME ChainIInv, Whole, ChainTypes PROVE TypeOK
    BY DEF ChainIInv, IndexIsHeads
  <2>1. head \in blocks /\ head \in Chain
    BY DEF ChainIInv, Stored
  <2>2. \A n \in Numbers : canon[n] = <<>> \/ Len(canon[n]) = n
    <3> SUFFICES ASSUME NEW n \in Numbers PROVE canon[n] = <<>> \/ Len(canon[n]) = n
      OBVIOUS
    <3>1. canon[n] = IF n <= Len(head) THEN Ancestor(head, n) ELSE <<>>
      BY DEF ChainIInv, HeadsIndex, CanonIsHeadsChain
    <3>2. CASE n <= Len(head)
      <4>1. head \in Seq(Nat) /\ n \in 0..Len(head)
        BY <2>1, <3>2 DEF Chain, Numbers
      <4> QED
        BY <3>1, <3>2, <4>1, AncestorRight
    <3>3. CASE ~(n <= Len(head))
      BY <3>1, <3>3
    <3> QED
      BY <3>2, <3>3
  <2>3. /\ thread["import"].at \in {"idle", "write"}
        /\ thread["mine"].at \in {"idle", "check", "write"}
    BY DEF ChainIInv, InWriters, Writer, Writing, ChainTypes
  <2>4. \A e \in Epochs : lastBlockEpoch[e] \in 0..MaxNow
    BY DEF ChainTypes
  <2> QED
    BY <2>1, <2>2, <2>3, <2>4 DEF TypeOK, ChainTypes, IsCache
<1> QED
  BY <1>1, <1>2, <1>3, ChainAlways, PTL DEF Spec

=============================================================================
