--------------------------- MODULE MCRandomBeacon ---------------------------
(***************************************************************************)
(* The random beacon contract for TLC: every proposer is its own account,  *)
(* and one account is no proposer.                                         *)
(***************************************************************************)
EXTENDS RandomBeacon, TLC

CONSTANT Outsider

MCAddress == Pid \cup {Outsider}
MCGroup == [e \in Epochs |-> [p \in Pid |-> p]]
MCGroupEpochs == Epochs
Symmetry == Permutations(Pid)
=============================================================================
