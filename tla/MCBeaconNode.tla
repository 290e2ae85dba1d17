---------------------------- MODULE MCBeaconNode ----------------------------
(***************************************************************************)
(* Beacon nodes for TLC.  In the safety runs one node has two ids, one has *)
(* one; for liveness three nodes have one id each.  One id belongs to an   *)
(* account that no node runs.                                              *)
(***************************************************************************)
EXTENDS BeaconNode, TLC

CONSTANTS n1, n2, n3, n4, p1, p2, p3, p4

\* The ids of a node may be exchanged.
Symmetry == Permutations({p1, p2})

MCGroup == [e \in Epochs |-> (p1 :> n1 @@ p2 :> n1 @@ p3 :> n2 @@ p4 :> n4)]

MCGroupLive == [e \in Epochs |-> (p1 :> n1 @@ p2 :> n2 @@ p3 :> n3 @@ p4 :> n4)]
=============================================================================
