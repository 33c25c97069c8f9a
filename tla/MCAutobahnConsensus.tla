------------------------ MODULE MCAutobahnConsensus ------------------------
(***************************************************************************)
(* Leaders for TLC: one replica leads the even views, one the odd ones.    *)
(* Values are interchangeable.                                             *)
(***************************************************************************)
EXTENDS AutobahnConsensus, TLC

CONSTANTS FirstLeader, NextLeader

MCLeader(v) == IF v.Number % 2 = 0 THEN FirstLeader ELSE NextLeader

Symmetry == Permutations(Values)
=============================================================================
