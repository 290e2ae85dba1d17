---------------------------- MODULE MCBlockChain ----------------------------
(* Small trees of blocks for BlockChain, given by their branches.          *)
EXTENDS BlockChain

Closed(branches) == UNION {Prefixes(b) : b \in branches} \ {<<>>}

(* Two branches that leave after one and after two blocks.                 *)
ForkTree == Closed({<<2, 3, 4>>, <<2, 5, 7, 8>>})

(* Branches that may replace each other.                                   *)
ShortTree == Closed({<<2, 3, 4>>, <<2, 3, 5, 7>>})

(* A branch whose fourth block comes after a silence of 2K slots, and one  *)
(* that does not verify.                                                   *)
GapTree == Closed({<<2, 3, 4, 8>>, <<2, 4, 5>>})
GapBad  == {<<2, 4, 5>>}

(* A silence before the fourth block, and one more block.                  *)
RestartTree == Closed({<<2, 3, 4, 8, 9>>})

(* A full branch that gives way to one with other slots.                   *)
QualityTree == Closed({<<2, 3, 4, 5>>, <<2, 3, 4, 6, 7, 8, 10>>})

(* A branch that leaves before the end of the first epoch.                 *)
EpochTree == Closed({<<9, 10, 11>>, <<9, 10, 12, 13, 17>>})
=============================================================================
