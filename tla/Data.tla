------------------------------- MODULE Data -------------------------------
(***************************************************************************)
(* The finalised blocks of a node in global order                          *)
(* (sei-tendermint/internal/autobahn/data/state.go), composed with the     *)
(* block store that makes them durable (module BlockDB) and with the loop  *)
(* that executes them (runExecute of internal/p2p/giga_router_common.go).  *)
(*                                                                         *)
(* Consensus finalises one chain of QCs, the constant Chain: a QC is named *)
(* by the first number it covers, ends before next, and carries app, the   *)
(* number of the block whose AppHash it certifies (0 for none).  A block   *)
(* is named by the number whose header it matches, 0 for a block that no   *)
(* QC of the chain names.  blockHashes mirrors blocks and is left out;     *)
(* signatures are taken as verified.                                       *)
(***************************************************************************)
EXTENDS BlockDB

CONSTANTS
    FirstBlock,       \* Registry.FirstBlock(), GenDoc.InitialHeight
    Chain,            \* [first numbers -> [next, app]]
    LaneOf,           \* [numbers -> lane]: the lane of each finalised block
    blocksCacheSize,
    Pushers,          \* goroutines that call PushQC and PushBlock
    Prunes,           \* whether the application asks the store to prune
    MaxCrashes        \* bound: times the process dies

Firsts == DOMAIN Chain

Finalized == {n \in Numbers : \E f \in Firsts : f <= n /\ n < Chain[f].next}

\* The QC that covers n.
Covering(n) == CHOOSE f \in Firsts : f <= n /\ n < Chain[f].next

\* Proposal.Verify: a QC is not empty, follows the previous one and certifies
\* the execution of a block of an earlier QC only.
ASSUME ChainAssumption ==
    /\ FirstBlock \in Firsts
    /\ blocksCacheSize \in Nat /\ blocksCacheSize >= 2
    /\ \A f \in Firsts :
         /\ f \in Numbers /\ f >= FirstBlock
         /\ Chain[f].next \in (f + 1)..(MaxBlock + 1)
         /\ Chain[f].app \in 0..(f - 1)
         /\ f # FirstBlock => \E g \in Firsts : Chain[g].next = f
    /\ \A f, g \in Firsts : f < g => Chain[f].next <= g /\ Chain[f].app <= Chain[g].app

Empty == [x \in {} |-> 0]

VARIABLES
    inner,    \* inner: maps and cursors
    calls,    \* calls[p]: the PushQC or PushBlock that p is verifying
    persist,  \* runPersist: its local cursors and the batch it is writing
    exec,     \* runExecute: [pc, n]
    appTip,   \* the height the application has committed (0: none)
    halted,   \* the error that stopped the node, or "no"
    crashes

vars == <<table, flushed, db, inner, calls, persist, exec, appTip, halted, crashes>>

Idle == [op |-> "idle"]
-----------------------------------------------------------------------------
(***************************************************************************)
(* Operations on inner.                                                    *)
(***************************************************************************)

newInner ==
    [qcs |-> Empty, blocks |-> Empty, appProposals |-> Empty,
     first |-> FirstBlock, nextAppProposal |-> FirstBlock,
     nextBlockToPersist |-> FirstBlock, nextBlock |-> FirstBlock,
     nextQC |-> FirstBlock]

\* qcs is filled from nextQC to the end of QC f.
fillQCs(in, f) ==
    IF Chain[f].next <= in.nextQC THEN in
    ELSE [in EXCEPT
            !.qcs = [n \in DOMAIN in.qcs \cup in.nextQC..(Chain[f].next - 1) |->
                        IF n \in DOMAIN in.qcs THEN in.qcs[n] ELSE f],
            !.nextQC = Chain[f].next]

\* insertBlock returns an error: the block is wanted and its header differs
\* from the one in the QC.
insertError(in, n, b) ==
    /\ n >= in.nextBlock /\ n < in.nextQC /\ n \notin DOMAIN in.blocks
    /\ b # n

insertBlock(in, n, b) ==
    IF n < in.nextBlock \/ n >= in.nextQC \/ n \in DOMAIN in.blocks THEN in
    ELSE [in EXCEPT !.blocks = [m \in DOMAIN @ \cup {n} |-> IF m = n THEN b ELSE @[m]]]

\* nextBlock moves over the blocks that are there without a gap.
updateNextBlock(in) ==
    [in EXCEPT !.nextBlock =
        CHOOSE m \in in.nextBlock..in.nextQC :
            /\ m \notin DOMAIN in.blocks
            /\ \A i \in in.nextBlock..(m - 1) : i \in DOMAIN in.blocks]

\* insertBlocksByHash for blocks bs of QC f.
insertBlocksByHash(in, f, bs) ==
    LET new == {n \in bs \cap f..(Chain[f].next - 1) :
                    n >= in.nextBlock /\ n < in.nextQC /\ n \notin DOMAIN in.blocks}
    IN  updateNextBlock([in EXCEPT !.blocks =
            [m \in DOMAIN @ \cup new |-> IF m \in new THEN m ELSE @[m]]])

\* The exclusive floor that the tip QC certifies as executed.
certifiedAppFloor(in) ==
    IF in.first = in.nextQC \/ Chain[in.qcs[in.nextQC - 1]].app = 0 THEN 0
    ELSE Chain[in.qcs[in.nextQC - 1]].app + 1

\* The entries of map f at or above n.
AtOrAbove(f, n) == [m \in {i \in DOMAIN f : i >= n} |-> f[m]]

\* Mutant: eviction follows the certified floor past what this node executed.
evictBelowBoundFloor(in) ==
    LET bound == certifiedAppFloor(in)
    IN  IF bound <= in.first THEN in
        ELSE [in EXCEPT !.qcs = AtOrAbove(@, bound),
                        !.blocks = AtOrAbove(@, bound),
                        !.appProposals = AtOrAbove(@, bound),
                        !.first = bound]

evictBelowBound(in) ==
    LET floor == certifiedAppFloor(in)
        bound == IF in.nextAppProposal < floor THEN in.nextAppProposal ELSE floor
    IN  IF bound <= in.first THEN in
        ELSE [in EXCEPT !.qcs = AtOrAbove(@, bound),
                        !.blocks = AtOrAbove(@, bound),
                        !.appProposals = AtOrAbove(@, bound),
                        !.first = bound]
-----------------------------------------------------------------------------
(***************************************************************************)
(* Recovery.                                                               *)
(***************************************************************************)

\* Where loadFromBlockDB starts: the application's tip, or the last stored
\* block when the application is one block ahead of the store.
recoveryStart(h, tip) ==
    IF tip = 0 THEN FirstBlock
    ELSE IF Status(h).NextBlock # 0 /\ tip = Status(h).NextBlock
         THEN Status(h).NextBlock - 1
    ELSE tip

\* The errors of loadFromBlockDB: the store is too far behind the
\* application, is corrupt, or holds a QC from before genesis.
loadError(t, h, tip) ==
    LET start == IteratorStart(h, recoveryStart(h, tip))
    IN  \/ openFails(t)
        \/ tip > Max2(Status(h).NextBlock, FirstBlock)
        \/ /\ IteratorNumbers(h, recoveryStart(h, tip)) # {}
           /\ ~ScanOK(t, start) \/ \E r \in ReadQC(t, h, start) : r.n < FirstBlock

\* skipTo the first position, then insert each position's QC and block.
loadFromBlockDB(t, h, tip) ==
    LET start  == IteratorStart(h, recoveryStart(h, tip))
        nums   == IteratorNumbers(h, recoveryStart(h, tip))
        blks   == {n \in nums : ReadBlock(t, h, n)}
        next   == CHOOSE m \in start..h.lastQCNext :
                    m \notin blks /\ start..(m - 1) \subseteq blks
    IN  IF nums = {} THEN newInner
        ELSE [qcs |-> [n \in nums |-> (CHOOSE r \in ReadQC(t, h, n) : TRUE).n],
              blocks |-> [n \in blks |-> n], appProposals |-> Empty,
              first |-> start, nextAppProposal |-> start,
              nextBlockToPersist |-> next, nextBlock |-> next,
              nextQC |-> h.lastQCNext]

\* What is volatile, in a process that has just built its State.
Boot(t, h, tip) ==
    /\ inner' = IF loadError(t, h, tip) THEN newInner ELSE loadFromBlockDB(t, h, tip)
    /\ halted' = IF loadError(t, h, tip) THEN "load" ELSE "no"
    /\ calls' = [p \in Pushers |-> Idle]
    /\ persist' = [pc |-> "seed", nextQC |-> 0, nextBlock |-> 0, batch |-> <<>>, end |-> 0]
    /\ exec' = [pc |-> "start", n |-> 0, replay |-> FALSE]

Init ==
    /\ DBInit
    /\ inner = newInner
    /\ calls = [p \in Pushers |-> Idle]
    /\ persist = [pc |-> "seed", nextQC |-> 0, nextBlock |-> 0, batch |-> <<>>, end |-> 0]
    /\ exec = [pc |-> "start", n |-> 0, replay |-> FALSE]
    /\ appTip = 0
    /\ halted = "no"
    /\ crashes = 0

\* The process dies after any write and starts again: the store keeps what was
\* flushed and maybe more, the application what it committed.
Crash(k) ==
    /\ crashes < MaxCrashes
    /\ CrashAndOpen(k)
    /\ Boot(table', db', appTip)
    /\ crashes' = crashes + 1
    /\ UNCHANGED appTip
-----------------------------------------------------------------------------
(***************************************************************************)
(* PushQC and PushBlock: a wait and a decision under the lock, the         *)
(* verification without it, the insertion under the lock again.            *)
(***************************************************************************)
dataOnly == <<table, flushed, db, persist, exec, appTip, halted, crashes>>

PushQCBegin(p, f, bs) ==
    /\ calls[p] = Idle
    /\ f <= inner.nextQC
    /\ f < inner.nextAppProposal + blocksCacheSize
    /\ calls' = [calls EXCEPT ![p] =
         [op |-> "qc", f |-> f, bs |-> bs, needQC |-> inner.nextQC = f]]
    /\ UNCHANGED inner /\ UNCHANGED dataOnly

\* Mutant: a QC found needed before the verification is inserted whole,
\* although another call may have inserted it and later ones since.
pushedQCStale(in, c) ==
    LET in1 == IF ~c.needQC THEN in
               ELSE [in EXCEPT
                       !.qcs = [n \in DOMAIN in.qcs \cup c.f..(Chain[c.f].next - 1) |->
                                 IF n >= c.f /\ n < Chain[c.f].next THEN c.f ELSE in.qcs[n]],
                       !.nextQC = Chain[c.f].next]
        in2 == IF c.bs = {} THEN in1 ELSE insertBlocksByHash(in1, c.f, c.bs)
    IN  IF c.needQC THEN evictBelowBound(in2) ELSE in2

\* inner after the second critical section of PushQC.
pushedQC(in, c) ==
    LET in1 == IF c.needQC THEN fillQCs(in, c.f) ELSE in
        in2 == IF c.bs = {} THEN in1 ELSE insertBlocksByHash(in1, c.f, c.bs)
    IN  IF c.needQC THEN evictBelowBound(in2) ELSE in2

PushQCEnd(p) ==
    /\ calls[p].op = "qc"
    /\ inner' = pushedQC(inner, calls[p])
    /\ calls' = [calls EXCEPT ![p] = Idle]
    /\ UNCHANGED dataOnly

PushBlockBegin(p, n, b) ==
    /\ calls[p] = Idle
    /\ n < inner.nextQC
    /\ n >= inner.nextBlock
    /\ calls' = [calls EXCEPT ![p] = [op |-> "block", n |-> n, b |-> b]]
    /\ UNCHANGED inner /\ UNCHANGED dataOnly

PushBlockEnd(p) ==
    /\ calls[p].op = "block"
    /\ inner' = IF insertError(inner, calls[p].n, calls[p].b) THEN inner
                ELSE updateNextBlock(insertBlock(inner, calls[p].n, calls[p].b))
    /\ calls' = [calls EXCEPT ![p] = Idle]
    /\ UNCHANGED dataOnly
-----------------------------------------------------------------------------
(***************************************************************************)
(* runPersist.                                                             *)
(***************************************************************************)
persistOnly == <<calls, exec, appTip, crashes>>

\* The cursors start from the store's tips, or from the recovered tip.
PersistSeed ==
    /\ persist.pc = "seed"
    /\ persist' = [persist EXCEPT
         !.pc = "wait",
         !.nextQC = IF Status(db).NextQC # 0 THEN Status(db).NextQC
                    ELSE inner.nextBlockToPersist,
         !.nextBlock = IF Status(db).NextBlock # 0 THEN Status(db).NextBlock
                       ELSE inner.nextBlockToPersist]
    /\ UNCHANGED <<table, flushed, db, inner, halted>> /\ UNCHANGED persistOnly

\* Mutant: a QC is written again although the store holds it.
batchQCsAgain == {n \in persist.nextBlock..(inner.nextBlock - 1) : n = inner.qcs[n]}

\* The QCs to write with the new blocks: those that start at one of them and
\* that are not in the store.
batchQCs ==
    {n \in persist.nextBlock..(inner.nextBlock - 1) :
        n = inner.qcs[n] /\ n >= persist.nextQC}

\* Under the lock: the QCs, then the blocks that were not written yet.
PersistCollect ==
    /\ persist.pc = "wait"
    /\ persist.nextBlock < inner.nextBlock
    /\ persist' = [persist EXCEPT
         !.pc = "write",
         !.batch = [i \in 1..Cardinality(batchQCs) |->
                      LET f == SetToSortSeq(batchQCs, <)[i]
                      IN  QCRecord(f, Chain[f].next)]
                   \o [i \in 1..(inner.nextBlock - persist.nextBlock) |->
                        BlockRecord(persist.nextBlock + i - 1)],
         !.end = inner.nextBlock]
    /\ UNCHANGED <<table, flushed, db, inner, halted>> /\ UNCHANGED persistOnly

\* One WriteQC or WriteBlock; an error stops the node.
PersistWrite ==
    /\ persist.pc = "write" /\ persist.batch # <<>>
    /\ LET r  == Head(persist.batch)
           ok == IF IsQC(r) THEN WriteQCOK(db, r.n, r.next) ELSE WriteBlockOK(db, r.n)
       IN  /\ table' = IF ok THEN Append(table, r) ELSE table
           /\ db' = IF ~ok THEN db
                    ELSE IF IsQC(r) THEN WriteQC(db, r.n, r.next) ELSE WriteBlock(db, r.n)
           /\ persist' = [persist EXCEPT !.pc = IF ok THEN @ ELSE "error",
                                         !.batch = Tail(@),
                                         !.nextQC = IF IsQC(r) THEN Max2(r.next, @) ELSE @]
           /\ halted' = IF ok THEN halted ELSE "persist"
    /\ UNCHANGED <<flushed, inner>> /\ UNCHANGED persistOnly

\* Mutant: the batch is not flushed before the cursor moves.
PersistFlushNothing ==
    /\ persist.pc = "write" /\ persist.batch = <<>>
    /\ persist' = [persist EXCEPT !.pc = "advance", !.nextBlock = persist.end]
    /\ UNCHANGED <<table, flushed, db, inner, halted>> /\ UNCHANGED persistOnly

PersistFlush ==
    /\ persist.pc = "write" /\ persist.batch = <<>>
    /\ Flush
    /\ persist' = [persist EXCEPT !.pc = "advance", !.nextBlock = persist.end]
    /\ UNCHANGED <<inner, halted>> /\ UNCHANGED persistOnly

PersistAdvance ==
    /\ persist.pc = "advance"
    /\ inner' = [inner EXCEPT !.nextBlockToPersist = Max2(persist.nextBlock, @)]
    /\ persist' = [persist EXCEPT !.pc = "wait"]
    /\ UNCHANGED <<table, flushed, db, halted>> /\ UNCHANGED persistOnly
-----------------------------------------------------------------------------
(***************************************************************************)
(* runExecute.                                                             *)
(***************************************************************************)
execOnly == <<calls, persist, crashes>>

\* Mutant: execution starts from genesis again after a restart.
ExecStartFresh ==
    /\ exec.pc = "start"
    /\ exec' = [pc |-> "fetch", n |-> FirstBlock, replay |-> FALSE]
    /\ UNCHANGED <<table, flushed, db, inner, appTip, halted>> /\ UNCHANGED execOnly

ExecStart ==
    /\ exec.pc = "start"
    /\ exec' = IF appTip = 0 THEN [pc |-> "fetch", n |-> FirstBlock, replay |-> FALSE]
               ELSE [pc |-> "fetch", n |-> appTip, replay |-> TRUE]
    /\ UNCHANGED <<table, flushed, db, inner, appTip, halted>> /\ UNCHANGED execOnly

\* GlobalBlock(n): from memory, or from the store once evicted.
GlobalBlockOK(n) ==
    IF n >= inner.first THEN n \in DOMAIN inner.blocks /\ n \in DOMAIN inner.qcs
    ELSE ReadBlock(table, db, n) /\ ReadQC(table, db, n) # {}

ExecFetch ==
    /\ exec.pc = "fetch"
    /\ exec.n < inner.nextBlock
    /\ halted' = IF GlobalBlockOK(exec.n) THEN halted ELSE "fetch"
    /\ exec' = [exec EXCEPT !.pc = IF ~GlobalBlockOK(exec.n) THEN "error"
                                   ELSE IF exec.replay THEN "report" ELSE "commit"]
    /\ UNCHANGED <<table, flushed, db, inner, appTip>> /\ UNCHANGED execOnly

\* app.Commit: the application's height is durable from here on.
ExecCommit ==
    /\ exec.pc = "commit"
    /\ appTip' = exec.n
    /\ exec' = [exec EXCEPT !.pc = "report"]
    /\ UNCHANGED <<table, flushed, db, inner, halted>> /\ UNCHANGED execOnly

\* PushAppHash up to its wait: the order is checked on entry.
PushAppHashBegin ==
    /\ exec.pc = "report"
    /\ halted' = IF exec.n < inner.nextAppProposal THEN "report" ELSE halted
    /\ exec' = [exec EXCEPT !.pc =
         IF exec.n < inner.nextAppProposal THEN "error" ELSE "wait"]
    /\ UNCHANGED <<table, flushed, db, inner, appTip>> /\ UNCHANGED execOnly

\* Mutant: PushAppHash waits for the block and not for its persistence.
persistedMemory(in, n) == n < in.nextBlock

\* Mutant: PushAppHash waits for one block too many.
persistedPast(in, n) == n + 1 < in.nextBlockToPersist

\* The condition PushAppHash waits for.
persisted(in, n) == n < in.nextBlockToPersist

\* inner after PushAppHash(n): appProposals[m] is the number of the proposal.
pushedAppHash(in, n) ==
    evictBelowBound([in EXCEPT
        !.appProposals = [m \in DOMAIN @ \cup in.nextAppProposal..n |->
                            IF m \in DOMAIN @ THEN @[m] ELSE n],
        !.nextAppProposal = n + 1])

PushAppHashEnd ==
    /\ exec.pc = "wait"
    /\ persisted(inner, exec.n)
    /\ inner' = pushedAppHash(inner, exec.n)
    /\ exec' = IF exec.replay THEN [pc |-> "fetch", n |-> exec.n + 1, replay |-> FALSE]
               ELSE [exec EXCEPT !.pc = "prune"]
    /\ UNCHANGED <<table, flushed, db, appTip, halted>> /\ UNCHANGED execOnly

\* PruneBefore(commitResp.RetainHeight): the application asks for a height up
\* to the one it committed.
ExecPrune(r) ==
    /\ exec.pc = "prune"
    /\ DoPruneBefore(r)
    /\ exec' = [exec EXCEPT !.pc = "fetch", !.n = @ + 1]
    /\ UNCHANGED <<inner, appTip, halted>> /\ UNCHANGED execOnly
-----------------------------------------------------------------------------
(***************************************************************************)
(* nextToExecute, which WaitUntilExecuted compares a lane's blocks with.   *)
(***************************************************************************)
Lanes == {LaneOf[n] : n \in Finalized}

\* Blocks of a lane are numbered from 0 in the order they are finalised.
LaneBlocksBelow(lane, n) == Cardinality({m \in Finalized : m < n /\ LaneOf[m] = lane})

\* LaneRange(lane).First() and .Next() of QC f.
LaneFirst(f, lane) == LaneBlocksBelow(lane, f)

LaneNext(f, lane) == LaneBlocksBelow(lane, Chain[f].next)

\* Mutant: lanes on both sides of the next block are taken for executed.
nextToExecuteAhead(in, lane) ==
    IF in.first = in.nextQC THEN 0
    ELSE IF in.nextAppProposal = in.nextQC
         THEN LaneNext(in.qcs[in.nextAppProposal - 1], lane)
    ELSE LET n == in.nextAppProposal
             f == in.qcs[n]
         IN  IF lane # LaneOf[n] THEN LaneNext(f, lane) ELSE LaneBlocksBelow(lane, n)

\* A QC orders its blocks by lane: lanes before that of the next block are
\* executed to their end, lanes after it not at all.
nextToExecute(in, lane) ==
    IF in.first = in.nextQC THEN 0
    ELSE IF in.nextAppProposal = in.nextQC
         THEN LaneNext(in.qcs[in.nextAppProposal - 1], lane)
    ELSE LET n == in.nextAppProposal
             f == in.qcs[n]
         IN  IF lane < LaneOf[n] THEN LaneNext(f, lane)
             ELSE IF lane > LaneOf[n] THEN LaneFirst(f, lane)
             ELSE LaneBlocksBelow(lane, n)
-----------------------------------------------------------------------------
PushStep(p) ==
    \/ \E f \in Firsts, bs \in SUBSET Finalized :
         bs \subseteq f..(Chain[f].next - 1) /\ PushQCBegin(p, f, bs)
    \/ PushQCEnd(p)
    \/ \E n \in Finalized : \E b \in {n, 0} : PushBlockBegin(p, n, b)
    \/ PushBlockEnd(p)

PersistStep ==
    \/ PersistSeed \/ PersistCollect \/ PersistWrite
    \/ PersistFlush \/ PersistAdvance

ExecStep ==
    \/ ExecStart \/ ExecFetch \/ ExecCommit
    \/ PushAppHashBegin \/ PushAppHashEnd
    \/ \E r \in IF Prunes THEN {0, exec.n} ELSE {0} : ExecPrune(r)

Collect == \E k \in 1..flushed :
    GC(k) /\ UNCHANGED <<inner, calls, persist, exec, appTip, halted, crashes>>

Next ==
    \/ halted = "no" /\ \E p \in Pushers : PushStep(p)
    \/ halted = "no" /\ PersistStep
    \/ halted = "no" /\ ExecStep
    \/ Collect
    \/ \E k \in flushed..Len(table) : Crash(k)

Spec == Init /\ [][Next]_vars

\* The next QC, and the block at nextBlock, are brought again and again by
\* some stream: the stream of FullCommitQCs, and the fetch loop over the
\* numbers for which NeedBlock holds.  Strong fairness, since the calls of the
\* model contend for its few Pushers and those of the code for nothing.
NextQCComes ==
    /\ halted = "no"
    /\ \E p \in Pushers : inner.nextQC \in Firsts /\ PushQCBegin(p, inner.nextQC, {})

NextBlockComes ==
    /\ halted = "no"
    /\ \E p \in Pushers : PushBlockBegin(p, inner.nextBlock, inner.nextBlock)

Fairness ==
    /\ WF_vars(halted = "no" /\ PersistStep)
    /\ WF_vars(halted = "no" /\ ExecStep)
    /\ \A p \in Pushers : WF_vars(halted = "no" /\ (PushQCEnd(p) \/ PushBlockEnd(p)))
    /\ SF_vars(NextQCComes)
    /\ SF_vars(NextBlockComes)

FairSpec == Spec /\ Fairness
-----------------------------------------------------------------------------
(***************************************************************************)
(* Properties.                                                             *)
(***************************************************************************)

\* first <= nextAppProposal <= nextBlockToPersist <= nextBlock <= nextQC, as
\* the comment on inner says, through races, eviction and recovery.
CursorChain ==
    /\ inner.first <= inner.nextAppProposal
    /\ inner.nextAppProposal <= inner.nextBlockToPersist
    /\ inner.nextBlockToPersist <= inner.nextBlock
    /\ inner.nextBlock <= inner.nextQC

\* The maps hold the ranges that the comment on inner gives, the QC and the
\* block under each number being the finalised ones: no lookup that relies on
\* the cursors dereferences nil.
MapsMatchCursors ==
    /\ DOMAIN inner.qcs = inner.first..(inner.nextQC - 1)
    /\ \A n \in DOMAIN inner.qcs : inner.qcs[n] = Covering(n)
    /\ inner.first..(inner.nextBlock - 1) \subseteq DOMAIN inner.blocks
    /\ DOMAIN inner.blocks \subseteq inner.first..(inner.nextQC - 1)
    /\ \A n \in DOMAIN inner.blocks : inner.blocks[n] = n
    /\ DOMAIN inner.appProposals = inner.first..(inner.nextAppProposal - 1)
    /\ \A n \in DOMAIN inner.appProposals : inner.appProposals[n] >= n

\* No error stops the node: the writes of runPersist keep the contract of the
\* store, every crash leaves a state that NewState accepts, runExecute finds
\* the block of the application's tip and reports AppHashes in order.
NeverHalts == halted = "no"

\* An AppProposal is handed out only for blocks that the store has flushed
\* together with their QC, or has pruned since.
ProposalsDurable ==
    \A n \in DOMAIN inner.appProposals :
        \/ n < db.watermark
        \/ \E i, j \in 1..flushed : table[j] = BlockRecord(n) /\ i < j /\ table[i].kind = "qc"
                                    /\ n \in Keys(table[i])

\* A block below nextBlock that retention has not passed is served, from
\* memory or from the store.
ReadsServed ==
    \A n \in FirstBlock..(inner.nextBlock - 1) : n >= db.watermark => GlobalBlockOK(n)

\* nextToExecute is the number of blocks of the lane before nextAppProposal,
\* whatever was evicted and wherever recovery started.
NextToExecuteExact ==
    \A lane \in Lanes :
        nextToExecute(inner, lane) =
            IF inner.first = inner.nextQC THEN 0
            ELSE LaneBlocksBelow(lane, inner.nextAppProposal)

\* The application commits each block once, in order, across crashes.
ExecutesInOrder ==
    [][appTip' # appTip => appTip' = IF appTip = 0 THEN FirstBlock ELSE appTip + 1]_vars

\* Every finalised block is executed and reported in the end: neither the
\* cache limit on PushQC nor the wait of PushAppHash for persistence, nor a
\* crash between app.Commit and the flush, leaves everyone waiting.
EverythingReported ==
    <>[](\A n \in Finalized : n <= appTip /\ n < inner.nextAppProposal)
====
