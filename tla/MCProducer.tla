---------------------------- MODULE MCProducer ----------------------------
(***************************************************************************)
(* Two roads for TLC: the first finalises a block of the lane, the second  *)
(* only blocks of other lanes.                                             *)
(***************************************************************************)
EXTENDS Producer

MCLaneNext == [r \in 0..MaxRoad |-> [l \in Lanes |-> 1]]

MCBlocksAt == [n \in 0..MaxBlock |-> {}]
=============================================================================
