---------------------------- MODULE MCSlotLeader ----------------------------
(***************************************************************************)
(* Slot leader selection for TLC: in one epoch the first node leads at two *)
(* positions, the second at one; the next epoch has no leader group and is *)
(* there for the proofs.                                                   *)
(***************************************************************************)
EXTENDS SlotLeaderNode, TLC

CONSTANTS n1, n2, n3

MCLeaders == (1 :> (0 :> n1 @@ 1 :> n2 @@ 2 :> n1))

MCLeadersLive == (1 :> (0 :> n1 @@ 1 :> n2 @@ 2 :> n3))
=============================================================================
