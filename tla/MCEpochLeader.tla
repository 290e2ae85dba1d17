---------------------------- MODULE MCEpochLeader ----------------------------
(* Instances of EpochLeader for TLC: one place of the white list. *)
EXTENDS EpochLeader

MCWhite == <<101>>
=============================================================================
