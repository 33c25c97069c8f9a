---------------------------- MODULE SerialBlock ----------------------------
(***************************************************************************)
(* What parallel execution of a block promises: the store and the          *)
(* responses that one transaction after the other, in the order of the     *)
(* block, would leave.                                                     *)
(*                                                                         *)
(* A transaction is a sequence of accesses of the store, which remembers   *)
(* what it has read of every key; that is also its response:               *)
(*   get: read a key;                                                      *)
(*   iter: read the first limit keys of an iteration over all keys;        *)
(*   set: write one more than what was read of a key, to one of two keys   *)
(*        by its parity (so that reads decide which keys are written);     *)
(*   del: delete a key.                                                    *)
(***************************************************************************)
EXTENDS Integers, Sequences, FiniteSets

CONSTANT Keys

VARIABLES block, store, responses

get(k) == [op |-> "get", key |-> k]
iter(n) == [op |-> "iter", limit |-> n]
set(of, k, l) == [op |-> "set", of |-> of, keys |-> <<k, l>>]
del(k) == [op |-> "del", key |-> k]

Instructions ==
    [op : {"get"}, key : Keys] \cup [op : {"iter"}, limit : Nat \ {0}]
      \cup [op : {"set"}, of : Keys, keys : Keys \X Keys] \cup [op : {"del"}, key : Keys]

written(i, read) == i.keys[(read[i.of] % 2) + 1]

\* The first n keys of an iteration over all keys.
firstKeys(s, n) ==
    LET live == {k \in Keys : s[k] # 0}
    IN  {k \in live : Cardinality({l \in live : l < k}) < n}

\* What has been read after the keys K are.
readAlso(x, K) == [k \in Keys |-> IF k \in K THEN x.store[k] ELSE x.read[k]]

access(x, i) ==
    CASE i.op = "get" -> [x EXCEPT !.read = readAlso(x, {i.key})]
      [] i.op = "iter" -> [x EXCEPT !.read = readAlso(x, firstKeys(x.store, i.limit))]
      [] i.op = "set" -> [x EXCEPT !.store[written(i, x.read)] = x.read[i.of] + 1]
      [] i.op = "del" -> [x EXCEPT !.store[i.key] = 0]

nothingRead == [k \in Keys |-> 0]

deliverTx(s, tx) ==
    LET after[m \in 0..Len(tx)] ==
            IF m = 0 THEN [store |-> s, read |-> nothingRead] ELSE access(after[m - 1], tx[m])
    IN  after[Len(tx)]

deliver(x, tx) ==
    LET r == deliverTx(x.store, tx)
    IN  [store |-> r.store, responses |-> Append(x.responses, r.read)]

\* The store and the responses after the transactions of a block.
serial(s, txs) ==
    LET after[m \in 0..Len(txs)] ==
            IF m = 0 THEN [store |-> s, responses |-> <<>>] ELSE deliver(after[m - 1], txs[m])
    IN  after[Len(txs)]

Init == responses = <<>>

Next ==
    /\ responses = <<>>
    /\ store' = serial(store, block).store
    /\ responses' = serial(store, block).responses
    /\ UNCHANGED block

Spec == Init /\ [][Next]_<<block, store, responses>>
=============================================================================
