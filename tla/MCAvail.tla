------------------------------ MODULE MCAvail ------------------------------
(***************************************************************************)
(* Roads and blocks for TLC: every road advances every lane by one block;  *)
(* a producer signs two blocks with number 2, one of which does not follow *)
(* the block it signed with number 1.                                      *)
(***************************************************************************)
EXTENDS Avail

MCLaneNext == [r \in 0..MaxRoad |-> [l \in Lanes |-> r + 1]]

MCBlocksAt ==
    [n \in 0..MaxBlock |->
        CASE n = 0 -> {[hash |-> 1, parent |-> zeroHash]}
          [] n = 2 -> {[hash |-> 1, parent |-> 1], [hash |-> 2, parent |-> zeroHash]}
          [] n = 3 -> [hash : {1}, parent : {1, 2}]
          [] OTHER -> {[hash |-> 1, parent |-> 1]}]
=============================================================================
