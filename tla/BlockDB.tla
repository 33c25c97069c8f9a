------------------------------ MODULE BlockDB ------------------------------
(***************************************************************************)
(* The durable store of finalised blocks and of the QCs that cover them    *)
(* (sei-db/ledger_db/block/littblock).  Blocks and QCs share one LittDB    *)
(* table, so a crash leaves a prefix of the order they were written in.    *)
(*                                                                         *)
(* A record is a QC of the numbers n .. next-1 or the block n (next is     *)
(* then n+1): n .. next-1 are also the number keys it is stored under.     *)
(* The table is the sequence of the surviving records, oldest first.  A    *)
(* handle (blockDB) caches cursors and read floors.                        *)
(*                                                                         *)
(* The operators take the table and the handle as arguments; module Data   *)
(* composes them with their caller.  DBSpec below runs the store alone.    *)
(***************************************************************************)
EXTENDS Integers, Sequences, SequencesExt, FiniteSets

CONSTANT MaxBlock    \* bound: the highest block number

ASSUME MaxBlockAssumption == MaxBlock \in Nat

Numbers == 1..MaxBlock

QCRecord(first, next) == [kind |-> "qc", n |-> first, next |-> next]

BlockRecord(n) == [kind |-> "block", n |-> n, next |-> n + 1]

IsQC(r) == r.kind = "qc"

IsBlock(r) == r.kind = "block"

Keys(r) == r.n..(r.next - 1)

\* The records of table t, as a set.
Records(t) == {t[i] : i \in DOMAIN t}
-----------------------------------------------------------------------------
(***************************************************************************)
(* Opening the store.                                                      *)
(***************************************************************************)

\* Mutant: recovery takes the start of the newest QC for its end.
recoverCursorsFirst(t) ==
    LET qs == SelectSeq(t, IsQC)
        bs == SelectSeq(t, IsBlock)
    IN  [hasBlocks          |-> bs # <<>>,
         lastBlockNumber    |-> IF bs # <<>> THEN Last(bs).n ELSE 0,
         hasQC              |-> qs # <<>>,
         lastQCNext         |-> IF qs # <<>> THEN Last(qs).n ELSE 0,
         latestQCStartBlock |-> IF qs # <<>> THEN Last(qs).n ELSE 0]

\* The write cursors, from the newest surviving block and QC.
recoverCursors(t) ==
    LET qs == SelectSeq(t, IsQC)
        bs == SelectSeq(t, IsBlock)
    IN  [hasBlocks          |-> bs # <<>>,
         lastBlockNumber    |-> IF bs # <<>> THEN Last(bs).n ELSE 0,
         hasQC              |-> qs # <<>>,
         lastQCNext         |-> IF qs # <<>> THEN Last(qs).next ELSE 0,
         latestQCStartBlock |-> IF qs # <<>> THEN Last(qs).n ELSE 0]

\* Mutant: the watermark is not derived again when the store is opened.
recoverReadFloorsZero(t) ==
    LET qs == SelectSeq(t, IsQC)
        bs == SelectSeq(t, IsBlock)
    IN  [watermark        |-> 0,
         oldestQCStart    |-> IF qs # <<>> THEN Head(qs).n ELSE 0,
         firstBlockNumber |-> IF bs # <<>> THEN Head(bs).n ELSE 0]

\* The read floors, from the oldest surviving QC and block.
recoverReadFloors(t) ==
    LET qs == SelectSeq(t, IsQC)
        bs == SelectSeq(t, IsBlock)
    IN  [watermark        |-> IF qs # <<>> THEN Head(qs).n ELSE 0,
         oldestQCStart    |-> IF qs # <<>> THEN Head(qs).n ELSE 0,
         firstBlockNumber |-> IF bs # <<>> THEN Head(bs).n ELSE 0]

\* The handle that opening table t returns.
NewBlockDB(t) ==
    LET c == recoverCursors(t)
        f == recoverReadFloors(t)
    IN  [hasBlocks          |-> c.hasBlocks,
         lastBlockNumber    |-> c.lastBlockNumber,
         hasQC              |-> c.hasQC,
         lastQCNext         |-> c.lastQCNext,
         latestQCStartBlock |-> c.latestQCStartBlock,
         watermark          |-> f.watermark,
         oldestQCStart      |-> f.oldestQCStart,
         firstBlockNumber   |-> f.firstBlockNumber]

\* Blocks without any surviving QC: the store refuses to open.
openFails(t) == (\E r \in Records(t) : IsBlock(r)) /\ ~(\E r \in Records(t) : IsQC(r))
-----------------------------------------------------------------------------
(***************************************************************************)
(* Writing.                                                                *)
(***************************************************************************)

\* ErrQCNonContiguous is not returned.
WriteQCOK(h, first, next) ==
    /\ first < next
    /\ h.hasQC => first = h.lastQCNext

\* The handle after WriteQC.
WriteQC(h, first, next) ==
    [h EXCEPT !.oldestQCStart = IF h.hasQC THEN @ ELSE first,
              !.latestQCStartBlock = first,
              !.lastQCNext = next,
              !.hasQC = TRUE]

\* Mutant: a block may be written ahead of its QC.
WriteBlockOKUncovered(h, n) == h.hasBlocks => n = h.lastBlockNumber + 1

\* Neither ErrBlockOutOfOrder nor ErrBlockMissingQC is returned.
WriteBlockOK(h, n) ==
    /\ h.hasBlocks => n = h.lastBlockNumber + 1
    /\ h.hasQC
    /\ n < h.lastQCNext

\* The handle after WriteBlock.
WriteBlock(h, n) ==
    [h EXCEPT !.firstBlockNumber = IF h.hasBlocks THEN @ ELSE n,
              !.lastBlockNumber = n,
              !.hasBlocks = TRUE]

\* The write tips; zero when nothing of the kind was written.
Status(h) ==
    [NextBlock |-> IF h.hasBlocks THEN h.lastBlockNumber + 1 ELSE 0,
     NextQC    |-> IF h.hasQC THEN h.lastQCNext ELSE 0]
-----------------------------------------------------------------------------
(***************************************************************************)
(* Pruning and garbage collection.                                         *)
(***************************************************************************)

\* Mutant: the requested boundary is not rounded down to the start of a QC.
clampPruneBoundaryExact(t, n) == n

\* The start of the QC covering n, or n when no QC does.
clampPruneBoundary(t, n) ==
    LET qs == {r \in Records(t) : IsQC(r) /\ n \in Keys(r)}
    IN  IF qs = {} THEN n ELSE (CHOOSE r \in qs : TRUE).n

\* Mutant: the newest QC and its blocks may be pruned.
PruneBeforeAll(t, h, n) ==
    LET w == clampPruneBoundary(t, n)
    IN  IF h.hasBlocks /\ w > h.watermark THEN [h EXCEPT !.watermark = w] ELSE h

\* The handle after PruneBefore(n).
PruneBefore(t, h, n) ==
    LET ceiling == IF h.latestQCStartBlock < h.lastBlockNumber
                   THEN h.latestQCStartBlock ELSE h.lastBlockNumber
        w == clampPruneBoundary(t, IF n > ceiling THEN ceiling ELSE n)
    IN  IF h.hasBlocks /\ w > h.watermark THEN [h EXCEPT !.watermark = w] ELSE h

\* gcFilter for all the keys of a record: it may be reclaimed.
gcFilter(h, r) == \A n \in Keys(r) : n < h.watermark
-----------------------------------------------------------------------------
(***************************************************************************)
(* Reading.  A read is None, ErrPruned or the record.                      *)
(***************************************************************************)

\* ReadBlockByNumber(n) returns the block.
ReadBlock(t, h, n) == n >= h.watermark /\ BlockRecord(n) \in Records(t)

\* The result of ReadQCByBlockNumber(n), in a set: empty when there is none.
ReadQC(t, h, n) ==
    {r \in Records(t) : n >= h.watermark /\ IsQC(r) /\ n \in Keys(r)}

Max2(a, b) == IF a > b THEN a ELSE b

\* Where Iterator(n) opens: n clamped up to the read floors.
IteratorStart(h, n) ==
    LET start == Max2(n, Max2(h.watermark, h.oldestQCStart))
    IN  IF h.hasBlocks THEN Max2(start, h.firstBlockNumber) ELSE start

\* The numbers the iterator visits, in order.
IteratorNumbers(h, n) ==
    IF h.hasQC THEN IteratorStart(h, n)..(h.lastQCNext - 1) ELSE {}

\* What the forward scan from qcKey(start) sees, in insertion order.
ScanFrom(t, start) ==
    LET i == CHOOSE i \in DOMAIN t : IsQC(t[i]) /\ start \in Keys(t[i])
    IN  SubSeq(t, i, Len(t))

\* The scan reaches its end without a "corrupt store" error: it finds a QC to
\* position at, each QC extends the one before, and the blocks it holds are the
\* next number it yields, after a QC that covers them.
ScanOK(t, start) ==
    /\ \E r \in Records(t) : IsQC(r) /\ start \in Keys(r)
    /\ LET s  == ScanFrom(t, start)
           qs == SelectSeq(s, IsQC)
           bs == SelectSeq(s, LAMBDA r : IsBlock(r) /\ r.n >= start)
       IN  /\ \A i \in 2..Len(qs) : qs[i].n = qs[i-1].next
           /\ \A i \in 1..Len(bs) : bs[i].n = start + i - 1
           /\ \A j \in DOMAIN s : IsBlock(s[j]) /\ s[j].n >= start =>
                \E i \in 1..(j-1) : IsQC(s[i]) /\ s[j].n \in Keys(s[i])
-----------------------------------------------------------------------------
(***************************************************************************)
(* The store under any caller.                                             *)
(***************************************************************************)
VARIABLES
    table,     \* the surviving records, oldest first
    flushed,   \* how many of them no crash can take
    db         \* the open handle

dbVars == <<table, flushed, db>>

DBInit ==
    /\ table = <<>>
    /\ flushed = 0
    /\ db = NewBlockDB(<<>>)

DoWriteQC(first, next) ==
    /\ WriteQCOK(db, first, next)
    /\ table' = Append(table, QCRecord(first, next))
    /\ db' = WriteQC(db, first, next)
    /\ UNCHANGED flushed

DoWriteBlock(n) ==
    /\ WriteBlockOK(db, n)
    /\ table' = Append(table, BlockRecord(n))
    /\ db' = WriteBlock(db, n)
    /\ UNCHANGED flushed

\* LittDB writes the prefix of the order of writes.
Flush ==
    /\ flushed' = Len(table)
    /\ UNCHANGED <<table, db>>

DoPruneBefore(n) ==
    /\ db' = PruneBefore(table, db, n)
    /\ UNCHANGED <<table, flushed>>

\* LittDB reclaims segments from the oldest on, each as a whole and only when
\* the filter passes all its keys: any prefix of the table that passes.
GC(k) ==
    /\ k \in 1..flushed
    /\ \A i \in 1..k : gcFilter(db, table[i])
    /\ table' = SubSeq(table, k + 1, Len(table))
    /\ flushed' = flushed - k
    /\ UNCHANGED db

\* The process dies; k records survive, and the next process opens the store.
CrashAndOpen(k) ==
    /\ k \in flushed..Len(table)
    /\ table' = SubSeq(table, 1, k)
    /\ flushed' = k
    /\ db' = NewBlockDB(table')

\* runPersist writes the QC of its first block before that block.  WriteBlock
\* compares a first block with the end of the coverage only and would take one
\* from below its start.
FirstBlockCovered(n) == db.hasBlocks \/ n >= db.oldestQCStart

\* runExecute prunes after PushAppHash returned, when the block it prunes to is
\* flushed; any request is fine when everything is.  (PruneBefore itself counts
\* blocks that a crash can still take.)
PruneIsDurable(n) ==
    \/ flushed = Len(table)
    \/ \E i \in 1..flushed : IsBlock(table[i]) /\ n <= table[i].n

DBNext ==
    \/ \E first \in Numbers, next \in 2..(MaxBlock + 1) : DoWriteQC(first, next)
    \/ \E n \in Numbers : FirstBlockCovered(n) /\ DoWriteBlock(n)
    \/ Flush
    \/ \E n \in Numbers : PruneIsDurable(n) /\ DoPruneBefore(n)
    \/ \E k \in 1..flushed : GC(k)
    \/ \E k \in flushed..Len(table) : CrashAndOpen(k)

DBSpec == DBInit /\ [][DBNext]_dbVars
-----------------------------------------------------------------------------
(***************************************************************************)
(* Properties.                                                             *)
(***************************************************************************)

\* "A readable block always has a readable covering QC", although collection
\* may strand a block whose QC is gone and a crash forgets the watermark.
ServedBlockHasQC ==
    \A n \in Numbers : ReadBlock(table, db, n) => ReadQC(table, db, n) # {}

\* Whatever was written, pruned, collected and lost, the store opens again
\* and an iterator from any number reaches its end without reporting
\* corruption, and finds a block at each number below the block tip.
ScansAreSound ==
    /\ ~openFails(table)
    /\ \A n \in 0..MaxBlock : IteratorNumbers(db, n) # {} =>
         /\ ScanOK(table, IteratorStart(db, n))
         /\ \A m \in IteratorNumbers(db, n) :
              ReadBlock(table, db, m) <=> m < Status(db).NextBlock

\* "Pruning never empties the store": as long as the store knows of a block,
\* it serves one, whatever was pruned, collected or lost in a crash.
NeverEmpty == db.hasBlocks => \E n \in Numbers : ReadBlock(table, db, n)

\* "A QC's cohort of blocks changes readability atomically": the watermark
\* never falls strictly inside the range of a QC.
CohortsWhole ==
    \A r \in Records(table) : IsQC(r) => ~(r.n < db.watermark /\ db.watermark < r.next)

\* A crash takes no flushed record from the readers: what was readable and
\* flushed is readable in the next process, and the cursors of the next
\* process continue exactly where the surviving writes end.
FlushedSurvives ==
    [][\A k \in flushed..Len(table) : CrashAndOpen(k) =>
        /\ \A i \in 1..flushed :
             IsBlock(table[i]) /\ ReadBlock(table, db, table[i].n) =>
                ReadBlock(table', db', table[i].n)
        /\ k = Len(table) => Status(db') = Status(db)]_dbVars
=============================================================================
