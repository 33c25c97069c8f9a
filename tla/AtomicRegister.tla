--------------------------- MODULE AtomicRegister ---------------------------
(***************************************************************************)
(* What a Persister promises its caller: a register that, across crashes,  *)
(* holds the last value whose write returned, or one whose write was cut   *)
(* short since.                                                            *)
(***************************************************************************)
CONSTANTS
    Data,  \* values written
    None   \* no value

VARIABLES
    possible,  \* the values a read after a crash may return
    pending    \* the value of the write under way

Init == possible = {None} /\ pending = None

some(S) == (SUBSET S) \ {{}}

\* A write is called; what was in doubt may be settled by it.
begin(data) ==
    /\ pending = None
    /\ pending' = data
    /\ \E S \in some(possible) : possible' = S \cup {data}

\* The write returns without error: the value is there to stay.
return ==
    /\ pending # None
    /\ possible' = {pending}
    /\ pending' = None

\* The write fails, or the process dies, or a restarted process reads.
settle ==
    /\ possible' \in some(possible)
    /\ pending' = None

Next == (\E data \in Data : begin(data)) \/ return \/ settle

Spec == Init /\ [][Next]_<<possible, pending>>
=============================================================================
