---------------------------- MODULE MCScheduler ----------------------------
(***************************************************************************)
(* Blocks for TLC: every block of three of the transactions below.         *)
(***************************************************************************)
EXTENDS Scheduler

MCTransactions ==
    LET get(k) == Serial!get(k)
        iter(l) == Serial!iter(l)
        set(of, k, l) == Serial!set(of, k, l)
        del(k) == Serial!del(k)
    IN  { <<get(1), get(2), set(1, 1, 2)>>,    \* the key written depends on what is read
          <<set(2, 2, 2), get(1), set(1, 2, 1)>>,
          <<get(2), del(1)>>,
          <<iter(1), set(1, 2, 1)>>,
          <<set(1, 1, 1), iter(2), del(2)>> }

MCBlocks == [1..3 -> MCTransactions]

MCStores == {[k \in Keys |-> IF k = 1 THEN 1 ELSE 0]}
=============================================================================
