-------------------------------- MODULE Road --------------------------------
(***************************************************************************)
(* What consensus promises the layers above it: a road of indices that are *)
(* decided one after the other, each once and for good.                    *)
(***************************************************************************)
EXTENDS Integers

CONSTANTS
    Values,   \* contents of a proposal
    MaxIndex  \* bound: highest road index

VARIABLE decided  \* decided[i]: the contents committed at index i

Init == decided = [i \in 0..MaxIndex |-> {}]

decide(i, value) ==
    /\ decided[i] = {}
    /\ i > 0 => decided[i - 1] # {}
    /\ decided' = [decided EXCEPT ![i] = {value}]

Next == \E i \in 0..MaxIndex, value \in Values : decide(i, value)

Spec == Init /\ [][Next]_decided
=============================================================================
