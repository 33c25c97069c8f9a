------------------------- MODULE MultiVersionStore -------------------------
(***************************************************************************)
(* The multi-version store behind parallel transaction execution           *)
(* (sei-cosmos/store/multiversion): for every transaction of a block the   *)
(* values it wrote, the keys it wrote, what it read and what it iterated   *)
(* over; the per-transaction view of it (VersionIndexedStore); and the     *)
(* validation of what a transaction read.                                  *)
(*                                                                         *)
(* Keys are numbers, for their order.  A value is a positive number and    *)
(* nil is 0.  One KV store stands for the several of a chain, which share  *)
(* no state.  The incarnation stored with an item is never read, and is    *)
(* left out; iterators are ascending and over the whole key range.         *)
(***************************************************************************)
EXTENDS Integers, Sequences, FiniteSets, FiniteSetsExt, Functions

CONSTANT Keys

ASSUME KeysAssumption == Keys \subseteq Nat \ {0} /\ IsFiniteSet(Keys)

VARIABLES
    store,          \* parentStore: [Keys -> value]
    mv,             \* multiVersionMap: [index -> [Keys -> item]]
    txWritesetKeys, \* [index -> SUBSET Keys]; a missing entry is {}
    txReadSets,     \* [index -> readset]; a missing entry is empty
    txIterateSets   \* [index -> Seq(iterationTracker)]

mvVars == <<mv, txWritesetKeys, txReadSets, txIterateSets>>

nil == 0
empty == <<>>

-----------------------------------------------------------------------------
(* Items of the version tree of a key.                                     *)

absent == [kind |-> "absent", value |-> nil]
NewEstimateItem == [kind |-> "estimate", value |-> nil]
NewValueItem(v) == [kind |-> "value", value |-> v]   \* v = nil: deleted

IsEstimate(item) == item.kind = "estimate"

\* The index of the writer whose item a transaction reads, 0 when there is none.
GetLatestBeforeIndex(i, k) == Max({j \in 1..(i - 1) : mv[j][k] # absent} \cup {0})

\* The latest value of a key before a transaction, when that is no estimate.
latestValue(i, k) ==
    LET j == GetLatestBeforeIndex(i, k)
    IN  IF j = 0 THEN store[k] ELSE mv[j][k].value

latestIsEstimate(i, k) ==
    LET j == GetLatestBeforeIndex(i, k) IN j # 0 /\ IsEstimate(mv[j][k])

CollectIteratorItems(i) == UNION {txWritesetKeys[j] : j \in 1..(i - 1)}

ParentKeys == {k \in Keys : store[k] # nil}

-----------------------------------------------------------------------------
(* VersionIndexedStore: the KV store of one execution of a transaction.    *)

NewVersionIndexedStore == [readset |-> empty, writeset |-> empty, iterateset |-> empty]

\* A map with one entry set.
put(f, k, v) == [j \in DOMAIN f \cup {k} |-> IF j = k THEN v ELSE f[j]]

UpdateReadSet(vs, k, v) ==
    IF k \notin DOMAIN vs.readset
    THEN [vs EXCEPT !.readset = put(@, k, <<v>>)]
    ELSE IF v \in Range(vs.readset[k]) THEN vs
    ELSE [vs EXCEPT !.readset[k] = Append(@, v)]

setValue(vs, k, v) == [vs EXCEPT !.writeset = put(@, k, v)]

\* Get: the value, the store after it, and the transaction to wait for when
\* the value is an estimate (the read then panics), 0 otherwise.
Get(vs, i, k) ==
    IF k \in DOMAIN vs.writeset
        THEN [vs |-> vs, value |-> vs.writeset[k], abort |-> 0]
    ELSE IF k \in DOMAIN vs.readset
        THEN [vs |-> vs, value |-> vs.readset[k][1], abort |-> 0]
    ELSE IF latestIsEstimate(i, k)
        THEN [vs |-> vs, value |-> nil, abort |-> GetLatestBeforeIndex(i, k)]
    ELSE [vs |-> UpdateReadSet(vs, k, latestValue(i, k)),
          value |-> latestValue(i, k), abort |-> 0]

NewIterationTracker(vs) ==
    [iteratedKeys |-> {}, earlyStopKey |-> nil, writeset |-> vs.writeset]

\* iterator(): the merge iterator over the parent and the keys that some
\* lower transaction, or this one, wrote or read.
iterator(vs, i) ==
    [vs |-> [vs EXCEPT !.iterateset = Append(@, NewIterationTracker(vs))],
     items |-> CollectIteratorItems(i) \cup DOMAIN vs.writeset \cup DOMAIN vs.readset]

\* trackedIterator: the last tracker learns of a key that is served, and of the end.
AddKey(vs, k) ==
    LET n == Len(vs.iterateset)
    IN  [vs EXCEPT !.iterateset[n].iteratedKeys = @ \cup {k},
                   !.iterateset[n].earlyStopKey = k]

reachedEnd(vs) == [vs EXCEPT !.iterateset[Len(vs.iterateset)].earlyStopKey = nil]

\* mvsMergeIterator at key k: from the items when they hold it, else from the parent.
mergeValue(vs, i, items, k) ==
    IF k \in items THEN Get(vs, i, k)
    ELSE [vs |-> UpdateReadSet(vs, k, store[k]), value |-> store[k], abort |-> 0]

-----------------------------------------------------------------------------
(* Validation of what transaction i read.                                  *)

\* The replay of an iteration: the keys that a new iterator would serve, up to
\* the key at which the transaction stopped, are the keys it was served.  A
\* replay that meets an estimate fails.
validateIterator(i, tracker) ==
    LET own == tracker.writeset
        cached == {k \in CollectIteratorItems(i) : GetLatestBeforeIndex(i, k) # 0}
                     \cup DOMAIN own
        met(k) == tracker.earlyStopKey = nil \/ k <= tracker.earlyStopKey
        live(k) == IF k \in DOMAIN own THEN own[k] # nil
                   ELSE k \in cached => latestValue(i, k) # nil
        served == {k \in ParentKeys \cup cached : met(k) /\ live(k)}
    IN  /\ \A k \in cached \ DOMAIN own : met(k) => ~latestIsEstimate(i, k)
        /\ served = tracker.iteratedKeys

checkIteratorAtIndex(i) ==
    \A n \in DOMAIN txIterateSets[i] : validateIterator(i, txIterateSets[i][n])

\* One key of the readset: whether it still has the value that was read, and
\* the transaction it conflicts with.  An estimate conflicts and is valid.
checkReadset(i, k) ==
    LET j == GetLatestBeforeIndex(i, k)
        read == txReadSets[i][k]
        same == latestIsEstimate(i, k) \/ latestValue(i, k) = read[1]
    IN  IF Len(read) # 1 THEN [valid |-> FALSE, conflicts |-> {}]
        ELSE [valid |-> same,
              conflicts |-> IF j # 0 /\ (latestIsEstimate(i, k) \/ ~same)
                            THEN {j} ELSE {}]

-----------------------------------------------------------------------------
(* WriteLatestToStore: the last item of every key that is no estimate.     *)

GetLatestNonEstimate(n, k) ==
    Max({j \in 1..n : mv[j][k] # absent /\ ~IsEstimate(mv[j][k])} \cup {0})

WriteLatestToStore(n) ==
    store' = [k \in Keys |->
                LET j == GetLatestNonEstimate(n, k)
                IN  IF j = 0 THEN store[k] ELSE mv[j][k].value]
=============================================================================
