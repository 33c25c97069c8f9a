------------------------------- MODULE Avail -------------------------------
(***************************************************************************)
(* The availability state of a node                                        *)
(* (sei-tendermint/internal/autobahn/avail) and the logs that make it      *)
(* durable (internal/autobahn/consensus/persist): the blocks of every      *)
(* lane, the CommitQCs and AppQCs, the loop that writes them to disk, the  *)
(* votes that are sent for durable blocks, and recovery.                   *)
(*                                                                         *)
(* Consensus finalises one CommitQC per road; road r covers the blocks     *)
(* LaneFirst(r, l) .. LaneNext[r][l] - 1 of lane l.  A block is named by   *)
(* its hash and its parent's; BlocksAt[n] are the blocks that producers    *)
(* sign with number n, and two of them in one lane are an equivocation.    *)
(* An optional QC is the index after it, 0 for none.  The committee is the *)
(* one of a single epoch, signatures are taken as verified, and the        *)
(* counting of votes is that of module VoteSets: of the app votes, only    *)
(* the one that completes an AppQC is a step.  Disk errors are left out.   *)
(***************************************************************************)
EXTENDS Integers, Sequences, SequencesExt, FiniteSetsExt

CONSTANTS
    Lanes,
    BlocksAt,         \* [0..MaxBlock -> SUBSET Blocks]: the blocks with a number
    MaxBlock,         \* bound: the last block number of a lane
    MaxRoad,          \* bound: the last road
    LaneNext,         \* [0..MaxRoad -> [Lanes -> Nat]]
    MaxLaneRangeInProposal,
    MaxCrashes        \* bound: times the process dies

Roads == 0..MaxRoad

BlocksPerLane == 3 * MaxLaneRangeInProposal

LaneFirst(r, l) == IF r = 0 THEN 0 ELSE LaneNext[r - 1][l]

\* Proposal.Verify: a road advances a lane by a bounded number of blocks.
ASSUME RoadsAssumption ==
    \A r \in Roads, l \in Lanes :
        LaneNext[r][l] \in LaneFirst(r, l)..(LaneFirst(r, l) + MaxLaneRangeInProposal)

\* BlockHeaderHash{}: the parent of a block appended to an empty queue.
zeroHash == 0


\* The goroutines of one round of runPersist.
QCs == "commitQCs"
Writers == Lanes \cup {QCs}

VARIABLES
    latestAppQC, latestCommitQC,
    commitQCs,                 \* [first, next]
    blocks,                    \* [Lanes -> [first, q]]
    nextBlockToPersist, persistedBlockStart,
    recvNext,                  \* LaneVotesRecv.next
    persist,                   \* runPersist: [pc, batch, last, writers]
    anchor,                    \* disk: the road after the prune anchor, 0: none
    wals,                      \* disk: [Writers -> WAL]
    voted,                     \* the lane votes this node has signed
    status, crashes

memory == <<latestAppQC, latestCommitQC, commitQCs, blocks, nextBlockToPersist,
            persistedBlockStart>>

vars == <<memory, recvNext, persist, anchor, wals, voted, status, crashes>>

max(a, b) == IF a > b THEN a ELSE b
min(a, b) == IF a < b THEN a ELSE b
-----------------------------------------------------------------------------
(***************************************************************************)
(* Queues (queue.go): the elements first, first + 1, ...                   *)
(***************************************************************************)

next(q) == q.first + Len(q.q)

pushBack(q, x) == [q EXCEPT !.q = Append(@, x)]

at(q, n) == q.q[n - q.first + 1]

pruneQueue(q, newFirst) ==
    IF newFirst <= q.first THEN q
    ELSE [first |-> newFirst, q |-> SubSeq(q.q, newFirst - q.first + 1, Len(q.q))]

\* A queue whose element n is n: only its bounds are kept.
pruneRange(q, newFirst) ==
    IF newFirst <= q.first THEN q
    ELSE [first |-> newFirst, next |-> max(q.next, newFirst)]

(***************************************************************************)
(* inner.prune, on a record of the fields of inner.                        *)
(***************************************************************************)
inner == [app |-> latestAppQC, commit |-> latestCommitQC, qcs |-> commitQCs,
          blocks |-> blocks, persisted |-> nextBlockToPersist,
          start |-> persistedBlockStart]

\* Mutant: the CommitQC that comes with the AppQC is not kept.
pruneDropsQC(in, r) ==
    IF r < in.app THEN in
    ELSE [in EXCEPT
            !.app = r + 1,
            !.qcs = pruneRange(@, r),
            !.blocks = [l \in Lanes |-> pruneQueue(@[l], LaneFirst(r, l))],
            !.persisted = [l \in Lanes |-> max(@[l], LaneFirst(r, l))]]

prune(in, r) ==
    IF r < in.app THEN in
    ELSE LET qcs == pruneRange(in.qcs, r) IN
         [in EXCEPT
            !.app = r + 1,
            !.qcs = IF qcs.next = r THEN [qcs EXCEPT !.next = r + 1] ELSE qcs,
            !.blocks = [l \in Lanes |-> pruneQueue(@[l], LaneFirst(r, l))],
            !.persisted = [l \in Lanes |-> max(@[l], LaneFirst(r, l))]]

SetInner(in) ==
    /\ latestAppQC' = in.app
    /\ latestCommitQC' = in.commit
    /\ commitQCs' = in.qcs
    /\ blocks' = in.blocks
    /\ nextBlockToPersist' = in.persisted
    /\ persistedBlockStart' = in.start
-----------------------------------------------------------------------------
(***************************************************************************)
(* The logs (wal.go, commitqcs.go, blocks.go).  recs are the records       *)
(* appended, the first synced of them flushed; records below low may be    *)
(* deleted at any time; next is the cursor the persister keeps in memory.  *)
(***************************************************************************)

emptyWAL == [recs |-> <<>>, synced |-> 0, low |-> 0, next |-> 0]

\* Append of the WAL refuses an index that does not grow.
grows(w, rec) == w.recs = <<>> \/ Last(w.recs).n < rec.n

\* A record that is in sequence is appended; another one is an error.
appendRec(w, rec, inSequence) ==
    IF inSequence /\ grows(w.wal, rec)
    THEN [w EXCEPT !.wal.recs = Append(@, rec), !.wal.next = rec.n + 1]
    ELSE [w EXCEPT !.ok = FALSE]

persistCommitQC(w, rec) ==
    IF ~w.ok \/ rec.n < w.wal.next THEN w ELSE appendRec(w, rec, rec.n = w.wal.next)

persistBlock(w, rec) ==
    IF ~w.ok THEN w ELSE appendRec(w, rec, w.wal.next \in {0, rec.n})

\* Mutant: the cursor stays where it was when the anchor moves past it.
truncateOnly(w, first) == [w EXCEPT !.low = max(@, first)]

\* PruneBefore, and the cursor moved up when the anchor passed every record.
truncate(w, first) == [w EXCEPT !.low = max(@, first), !.next = max(@, first)]

qcRec(r) == [n |-> r, b |-> [hash |-> zeroHash, parent |-> zeroHash]]

\* deleteBefore and truncateForAnchor for the anchor of road r.
prunedWAL(x, w, r) ==
    IF x = QCs THEN persistCommitQC([ok |-> TRUE, wal |-> truncate(w, r)], qcRec(r))
    ELSE [ok |-> TRUE, wal |-> truncate(w, LaneFirst(r, x))]

\* MaybePruneAndPersist(Lane) up to the flush.  a is the road after the
\* anchor, 0 for none.
written(x, w, a, recs) ==
    LET w1 == IF a = 0 THEN [ok |-> TRUE, wal |-> w] ELSE prunedWAL(x, w, a - 1)
    IN  IF x = QCs THEN FoldLeft(persistCommitQC, w1, recs)
                   ELSE FoldLeft(persistBlock, w1, recs)

flush(w) == [w EXCEPT !.synced = Len(w.recs)]

contiguousSuffix(recs) ==
    LET starts == {i \in 1..Len(recs) :
                     \A j \in (i + 1)..Len(recs) : recs[j].n = recs[j - 1].n + 1}
    IN  IF recs = <<>> THEN recs ELSE SubSeq(recs, Min(starts), Len(recs))

\* What a crash may leave of a log: every flushed record that was not pruned,
\* some of the pruned ones, and a prefix of the unflushed ones.
crashOutcomes(w) ==
    {SubSeq(w.recs, i, j) :
        i \in {k \in 1..(Len(w.recs) + 1) : \A m \in 1..(k - 1) : w.recs[m].n < w.low},
        j \in w.synced..Len(w.recs)}
-----------------------------------------------------------------------------
(***************************************************************************)
(* Recovery: loadPersistedState, newInner and the start of NewState.       *)
(***************************************************************************)

emptyInner ==
    [app |-> 0, commit |-> 0, qcs |-> [first |-> 0, next |-> 0],
     blocks |-> [l \in Lanes |-> [first |-> 0, q |-> <<>>]],
     persisted |-> [l \in Lanes |-> 0], start |-> [l \in Lanes |-> 0]]

\* The persisted prune anchor is applied before anything is restored.
anchored(a) ==
    IF a = 0 THEN emptyInner
    ELSE [prune(emptyInner, a - 1) EXCEPT !.start = [l \in Lanes |-> LaneFirst(a - 1, l)]]

\* The records of log x that newInner restores: the run that ends the log,
\* without what is below the anchor; newInner skips the QCs it already has.
live(x, recs, in) ==
    SelectSeq(contiguousSuffix(recs),
              LAMBDA rec : rec.n >= IF x = QCs THEN in.qcs.next ELSE in.blocks[x].first)

\* newInner finds no gap, no parent that differs and no more than a lane holds.
loadable(x, recs, in) ==
    LET s == live(x, recs, in)
        from == IF x = QCs THEN in.qcs.next ELSE in.blocks[x].first
    IN  s # <<>> =>
          /\ s[1].n = from
          /\ x # QCs => /\ Len(s) <= BlocksPerLane
                        /\ \A i \in 2..Len(s) : s[i].b.parent = s[i - 1].b.hash

restored(recs, a) ==
    LET in == anchored(a)
        n == in.qcs.next + Len(live(QCs, recs[QCs], in))
        q == [l \in Lanes |-> [first |-> in.blocks[l].first,
                               q |-> [i \in DOMAIN live(l, recs[l], in) |->
                                        live(l, recs[l], in)[i].b]]]
    IN  [in EXCEPT !.qcs.next = n,
                   !.commit = IF n > in.qcs.first THEN n ELSE 0,
                   !.blocks = q,
                   !.persisted = [l \in Lanes |-> IF q[l].q = <<>> THEN @[l] ELSE next(q[l])]]

\* The log as the persister opens it: its cursor follows the last record.
opened(recs) ==
    [recs |-> recs, synced |-> Len(recs), low |-> 0,
     next |-> IF recs = <<>> THEN 0 ELSE Last(recs).n + 1]

\* NewState truncates every log below the anchor before the state is used.
startupPrune(x, w, a) == IF a = 0 THEN w ELSE flush(written(x, w, a, <<>>).wal)

idleWriter == [pc |-> "done", marked |-> 0]

noBatch == [anchor |-> 0, recs |-> [x \in Writers |-> <<>>]]

idlePersist == [pc |-> "write", batch |-> noBatch, last |-> 0,
                writers |-> [x \in Writers |-> idleWriter]]

Init ==
    /\ latestAppQC = 0 /\ latestCommitQC = 0
    /\ commitQCs = emptyInner.qcs /\ blocks = emptyInner.blocks
    /\ nextBlockToPersist = emptyInner.persisted
    /\ persistedBlockStart = emptyInner.start
    /\ recvNext = [l \in Lanes |-> 0]
    /\ persist = idlePersist
    /\ anchor = 0
    /\ wals = [x \in Writers |-> emptyWAL]
    /\ voted = {}
    /\ status = "running" /\ crashes = 0

\* The process dies and starts again from what the crash left on disk.
Restart ==
    /\ crashes < MaxCrashes /\ status # "unloadable"
    /\ crashes' = crashes + 1
    /\ \E recs \in [Writers -> UNION {crashOutcomes(wals[x]) : x \in Writers}] :
         /\ \A x \in Writers : recs[x] \in crashOutcomes(wals[x])
         /\ IF \A x \in Writers : loadable(x, recs[x], anchored(anchor))
            THEN /\ SetInner(restored(recs, anchor))
                 /\ wals' = [x \in Writers |-> startupPrune(x, opened(recs[x]), anchor)]
                 /\ status' = "running"
            ELSE /\ SetInner(emptyInner)
                 /\ wals' = [x \in Writers |-> opened(recs[x])]
                 /\ status' = "unloadable"
    /\ recvNext' = [l \in Lanes |-> 0]
    /\ persist' = idlePersist
    /\ UNCHANGED <<anchor, voted>>
-----------------------------------------------------------------------------
(***************************************************************************)
(* Calls from consensus, from peers and from the block producer.  A call   *)
(* that waits is taken when its condition holds.                           *)
(***************************************************************************)

KeepRest == UNCHANGED <<recvNext, persist, anchor, wals, voted, status, crashes>>

\* PushCommitQC waits for the previous QC to be published.
PushCommitQC(r) ==
    /\ status = "running"
    /\ latestCommitQC >= r /\ r = commitQCs.next
    /\ commitQCs' = [commitQCs EXCEPT !.next = r + 1]
    /\ UNCHANGED <<latestAppQC, latestCommitQC, blocks, nextBlockToPersist,
                   persistedBlockStart>>
    /\ KeepRest

\* PushAppQC brings a CommitQC of its own, so it may jump ahead of the queues.
PushAppQC(r) ==
    /\ status = "running"
    /\ r >= latestAppQC
    /\ SetInner(prune(inner, r))
    /\ KeepRest

\* The vote that completes an AppQC; it waits for the CommitQC of its road.
PushAppVote(r) ==
    /\ status = "running"
    /\ latestCommitQC > r /\ r >= latestAppQC
    /\ IF r \in commitQCs.first..(commitQCs.next - 1)
       THEN SetInner(prune(inner, r)) /\ KeepRest
       ELSE /\ status' = "stopped"      \* Proposal().Verify of a missing QC
            /\ UNCHANGED <<memory, recvNext, persist, anchor, wals, voted, crashes>>

\* PushBlock: the window is counted from the anchor that is on disk.
hasCapacity(l, n) == n < persistedBlockStart[l] + BlocksPerLane

PushBlock(l, b) ==
    /\ status = "running"
    /\ hasCapacity(l, next(blocks[l]))
    /\ blocks[l].q # <<>> => b.parent = Last(blocks[l].q).hash
    /\ blocks' = [blocks EXCEPT ![l] = pushBack(@, b)]
    /\ UNCHANGED <<latestAppQC, latestCommitQC, commitQCs, nextBlockToPersist,
                   persistedBlockStart>>
    /\ KeepRest

\* Mutant: blocks are voted for as soon as they are in the queue.
upperBoundQueue(l) == next(blocks[l])

\* RecvBatch signs a vote for every block that is durable and was not yet
\* sent on this subscription; with nothing to sign it waits.
upperBound(l) == min(next(blocks[l]), nextBlockToPersist[l])

RecvBatch ==
    /\ status = "running"
    /\ recvNext' = [l \in Lanes |-> upperBound(l)]
    /\ voted' = voted \cup
         UNION {{[lane |-> l, n |-> n, hash |-> at(blocks[l], n).hash] :
                   n \in max(blocks[l].first, recvNext[l])..(upperBound(l) - 1)} : l \in Lanes}
    /\ UNCHANGED <<memory, persist, anchor, wals, status, crashes>>
-----------------------------------------------------------------------------
(***************************************************************************)
(* runPersist.                                                             *)
(***************************************************************************)

\* collectPersistBatch: the records of a queue from the persistence cursor on.
collected(x) ==
    IF x = QCs
    THEN LET from == max(latestCommitQC, commitQCs.first)
         IN  [i \in 1..(commitQCs.next - from) |-> qcRec(from + i - 1)]
    ELSE LET from == max(nextBlockToPersist[x], blocks[x].first)
         IN  [i \in 1..(next(blocks[x]) - from) |->
                [n |-> from + i - 1, b |-> at(blocks[x], from + i - 1)]]

\* Mutant: a new AppQC alone does not wake the loop.
hasWorkQueues ==
    \/ \E l \in Lanes : nextBlockToPersist[l] < next(blocks[l])
    \/ latestCommitQC < commitQCs.next

hasWork ==
    \/ latestAppQC # persist.last
    \/ \E l \in Lanes : nextBlockToPersist[l] < next(blocks[l])
    \/ latestCommitQC < commitQCs.next

\* Mutant: the anchor waits for a round that has no blocks to write.
collectedAnchorLate ==
    IF latestAppQC # persist.last /\ latestAppQC > 0
       /\ \A l \in Lanes : collected(l) = <<>>
    THEN latestAppQC ELSE 0

\* The anchor is collected when the QC of its road is in the queue.
collectedAnchor ==
    IF latestAppQC # persist.last /\ latestAppQC > 0
       /\ latestAppQC - 1 \in commitQCs.first..(commitQCs.next - 1)
    THEN latestAppQC ELSE 0

\* Every writer starts on its part of the batch.
startWriters == [x \in Writers |-> [pc |-> "append", marked |-> 0]]

Collect ==
    /\ status = "running"
    /\ persist.pc = "write" /\ \A x \in Writers : persist.writers[x].pc = "done"
    /\ hasWork
    /\ persist' = [persist EXCEPT
         !.pc = IF collectedAnchor = 0 THEN "write" ELSE "anchor",
         !.batch = [anchor |-> collectedAnchor, recs |-> [x \in Writers |-> collected(x)]],
         !.writers = IF collectedAnchor = 0 THEN startWriters ELSE @]
    /\ UNCHANGED <<memory, recvNext, anchor, wals, voted, status, crashes>>

\* The anchor is durable before any log is written (module ABPersister).
PersistAnchor ==
    /\ status = "running" /\ persist.pc = "anchor"
    /\ anchor' = persist.batch.anchor
    /\ persist' = [persist EXCEPT !.pc = "advance"]
    /\ UNCHANGED <<memory, recvNext, wals, voted, status, crashes>>

advancePersistedBlockStart ==
    /\ status = "running" /\ persist.pc = "advance"
    /\ persistedBlockStart' =
         [l \in Lanes |-> max(persistedBlockStart[l], LaneFirst(persist.batch.anchor - 1, l))]
    /\ persist' = [persist EXCEPT !.pc = "write", !.last = persist.batch.anchor,
                                  !.writers = startWriters]
    /\ UNCHANGED <<latestAppQC, latestCommitQC, commitQCs, blocks, nextBlockToPersist,
                   recvNext, anchor, wals, voted, status, crashes>>

\* A writer prunes its log, appends its records, ...
WriterAppend(x) ==
    /\ status = "running" /\ persist.pc = "write" /\ persist.writers[x].pc = "append"
    /\ LET w == written(x, wals[x], persist.batch.anchor, persist.batch.recs[x])
       IN  /\ wals' = [wals EXCEPT ![x] = w.wal]
           /\ status' = IF w.ok THEN status ELSE "stopped"
    /\ persist' = [persist EXCEPT !.writers[x].pc = "flush"]
    /\ UNCHANGED <<memory, recvNext, anchor, voted, crashes>>

\* ... flushes them, ...
afterFlush(x) == IF persist.batch.recs[x] = <<>> THEN "done" ELSE "mark"

\* Mutant: the records are published without a flush.
WriterFlushSkipped(x) ==
    /\ status = "running" /\ persist.pc = "write" /\ persist.writers[x].pc = "flush"
    /\ persist' = [persist EXCEPT !.writers[x].pc = afterFlush(x)]
    /\ UNCHANGED <<memory, recvNext, anchor, wals, voted, status, crashes>>

WriterFlush(x) ==
    /\ status = "running" /\ persist.pc = "write" /\ persist.writers[x].pc = "flush"
    /\ wals' = [wals EXCEPT ![x] = flush(@)]
    /\ persist' = [persist EXCEPT !.writers[x].pc = afterFlush(x)]
    /\ UNCHANGED <<memory, recvNext, anchor, voted, status, crashes>>

\* ... and publishes them one by one.
markPersisted(x, n) ==
    /\ latestCommitQC' = IF x = QCs THEN n ELSE latestCommitQC
    /\ nextBlockToPersist' = IF x = QCs THEN nextBlockToPersist
                             ELSE [nextBlockToPersist EXCEPT ![x] = n]

WriterMark(x) ==
    LET recs == persist.batch.recs[x]
        k == persist.writers[x].marked + 1
    IN  /\ status = "running" /\ persist.pc = "write" /\ persist.writers[x].pc = "mark"
        /\ markPersisted(x, recs[k].n + 1)
        /\ persist' = [persist EXCEPT !.writers[x] =
                         [pc |-> IF k = Len(recs) THEN "done" ELSE "mark", marked |-> k]]
        /\ UNCHANGED <<latestAppQC, commitQCs, blocks, persistedBlockStart, recvNext,
                       anchor, wals, voted, status, crashes>>
-----------------------------------------------------------------------------
PersistStep ==
    \/ Collect \/ PersistAnchor \/ advancePersistedBlockStart
    \/ \E x \in Writers : WriterAppend(x) \/ WriterFlush(x) \/ WriterMark(x)

Next ==
    \/ \E r \in Roads : PushCommitQC(r) \/ PushAppQC(r) \/ PushAppVote(r)
    \/ \E l \in Lanes : /\ next(blocks[l]) <= MaxBlock
                        /\ \E b \in BlocksAt[next(blocks[l])] : PushBlock(l, b)
    \/ RecvBatch
    \/ PersistStep
    \/ Restart

Spec == Init /\ [][Next]_vars

FairSpec == Spec /\ WF_vars(PersistStep) /\ WF_vars(RecvBatch)
-----------------------------------------------------------------------------
(***************************************************************************)
(* Properties.                                                             *)
(***************************************************************************)

\* newInner accepts whatever a crash leaves on disk: no gap, no broken chain
\* of parents and no more blocks than a lane holds.
RestartSucceeds == status # "unloadable"

\* runPersist never stops on a record that is out of sequence, and an app vote
\* that waited for its CommitQC finds it in the queue.
NeverStops == status # "stopped"

\* The node signs a vote only for a block that a crash cannot take away: it
\* is flushed, or below the prune anchor on disk.
VotesDurable ==
    \A v \in voted :
        \/ anchor > 0 /\ v.n < LaneFirst(anchor - 1, v.lane)
        \/ \E i \in 1..wals[v.lane].synced :
             wals[v.lane].recs[i].n = v.n /\ wals[v.lane].recs[i].b.hash = v.hash

\* The node never signs votes for two blocks of a lane with one number, not
\* even across a restart.
NoVoteEquivocation ==
    \A v, w \in voted : v.lane = w.lane /\ v.n = w.n => v = w

\* A CommitQC that was published to consensus is published after every crash:
\* latestCommitQC never moves back.
PublishedSurvives == [][latestCommitQC' >= latestCommitQC]_vars

\* Everything in the queues is durable, published and voted for, and the
\* window of every lane starts at the latest AppQC.
Settled ==
    /\ anchor = latestAppQC /\ latestCommitQC = commitQCs.next
    /\ \A l \in Lanes :
         /\ latestAppQC > 0 => persistedBlockStart[l] = LaneFirst(latestAppQC - 1, l)
         /\ \A n \in blocks[l].first..(next(blocks[l]) - 1) :
              [lane |-> l, n |-> n, hash |-> at(blocks[l], n).hash] \in voted

\* Once calls and crashes end, the persist loop and the vote subscription
\* settle the state.
PersistCatchesUp == <>[]Settled

\* What the comment of collectPersistBatch says: it waits for something to
\* persist, so no batch is empty.
BatchHasWork ==
    [][persist'.batch # persist.batch =>
         \/ persist'.batch.anchor > 0
         \/ \E x \in Writers : persist'.batch.recs[x] # <<>>]_vars
=============================================================================
