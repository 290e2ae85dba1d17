------------------------------ MODULE MCStaking ------------------------------
(***************************************************************************)
(* Staking for TLC.                                                        *)
(***************************************************************************)
EXTENDS Staking, TLC

CONSTANTS a1, a2, v1, v2

\* Accounts may be exchanged.
Symmetry == Permutations(Account)
=============================================================================
