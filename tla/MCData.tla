------------------------------ MODULE MCData ------------------------------
(***************************************************************************)
(* A chain of four blocks in three QCs and two lanes for TLC.             *)
(***************************************************************************)
EXTENDS Data

\* Three QCs; the second certifies the first block and the third the third.
MCChain == 1 :> [next |-> 3, app |-> 0] @@ 3 :> [next |-> 4, app |-> 1]
           @@ 4 :> [next |-> 5, app |-> 3]

MCLaneOf == <<1, 2, 2, 1>>

Symmetry == Permutations(Pushers)
=============================================================================
