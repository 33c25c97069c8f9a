# TLA+ specification of sei-chain

This directory holds TLA+ models of the parts of sei-chain whose correctness depends on
interleavings, crashes and faulty peers, TLC configurations that check them on small
instances, and TLAPS proofs of the properties that matter most. It covers Autobahn, the
consensus stack under `sei-tendermint/internal/autobahn`, from votes to executed blocks,
and the optimistic parallel execution of a block (`sei-cosmos/tasks`,
`sei-cosmos/store/multiversion`).

## The system and its parts

A node is a Tendermint-style process around a Cosmos application. With Autobahn enabled,
validators each extend a *lane* of blocks; consensus decides, one *road index* after the
other, how far each lane has been finalised; the decided blocks form a global order that
the application executes.

| Part | State | Operations | Where |
|---|---|---|---|
| Consensus replica | `inner` (CommitQC, TimeoutQC, PrepareQC and the node's three votes), `myView`, outputs | `pushProposal`, `pushPrepareQC`, `pushCommitQC`, `pushTimeoutQC`, `voteTimeout`, `runPropose`, `runOutputs` | `consensus/inner.go`, `consensus/state.go` |
| Vote collectors | newest vote of each replica, votes grouped by hash or view, newest certificate | `pushVote` of prepare, commit and timeout votes | `consensus/{prepare,commit,timeout}_votes.go` |
| A/B persister | two files, a sequence number | `NewPersister`, `Persist` | `consensus/persist/persist.go` |
| Committee | weights | `NewCommittee`, quorums, `Leader` | `autobahn/types/committee.go` |
| Availability | blocks of each lane, CommitQC and AppQC queues, persistence cursors, write-ahead logs | `PushBlock`, `PushCommitQC`, `PushAppVote`, `PushAppQC`, `prune`, `runPersist`, recovery | `avail/`, `consensus/persist/{wal,commitqcs,blocks}.go` |
| Producer | sealed lane blocks, next block | `SealBlock`, `produceLocalBlock`, `pruneMempool` | `producer/` |
| Data | global blocks, QCs, app proposals, five cursors | `PushQC`, `PushBlock`, `PushAppHash`, eviction, `runPersist`, recovery | `data/state.go` |
| Block store | records of blocks and QCs, write cursors, read floors | `WriteQC`, `WriteBlock`, `Flush`, `PruneBefore`, iterators, reopening | `sei-db/ledger_db/block/littblock` |
| Execution loop | the block being executed | fetch, commit, report, prune | `internal/p2p/giga_router_common.go` |
| Parallel execution | transaction tasks, multi-version values, read sets, iterate sets | execute, validate, invalidate, execute again | `sei-cosmos/tasks`, `sei-cosmos/store/multiversion` |

How they interact: the producer fills its lane in availability; lane votes make blocks
certified; the leader proposes certified ranges; consensus turns votes into certificates;
a CommitQC goes to availability, which persists it and hands it back, and only then does
consensus enter the next index; data orders the finalised blocks and makes them durable in
the block store; the execution loop runs them and pushes the resulting hash, whose AppQC
prunes availability. The rest of the repository (Tendermint consensus and mempool, p2p,
storage engines, application modules, RPC) is listed in `PROJECT.json` with the reason why
it is not modelled.

What makes this hard to get right, and to test: votes must survive a crash between
signing, persisting and publishing; handlers check a message against a state they read
without the lock and apply it to one that may have moved; cursors that several goroutines
advance must stay in order; each log and file may lose its unflushed end, so that recovery
meets combinations nobody wrote a test for; leaders and producers may be faulty;
transactions run in parallel and must look serial. `PROJECT.json` lists these hazards at
the lines where they bite, with the properties that would catch them going wrong.

## Modules

| Module | Models | Code |
|---|---|---|
| `Road` | what consensus promises: indices decided in order, once and for good | abstract |
| `AutobahnVoting` | which votes a replica may sign, given the votes signed so far; certificates | `inner.go`, `types/timeout.go`, `types/*_qc.go` |
| `AutobahnConsensus` | replicas with memory, disk, outputs and crashes (extends `AutobahnVoting`) | `inner.go`, `state.go`, `persisted_inner.go`, `types/proposal.go` |
| `VoteSets` | the three vote collectors (extends `Committee`) | `*_votes.go` |
| `Committee` | construction of the committee, quorums, leader election | `types/committee.go` |
| `AtomicRegister` | what a persister promises | abstract |
| `ABPersister` | the two files, written chunk by chunk, with process deaths and power losses | `persist/persist.go` |
| `Avail` | queues, persist loop with its parallel writers, logs, recovery, lane votes of this node | `avail/`, `persist/{wal,commitqcs,blocks}.go` |
| `Producer` | the block producer on top of `Avail` | `producer/` |
| `BlockDB` | the block store | `littblock/` |
| `Data` | global order, persistence and execution, on top of `BlockDB` | `data/state.go`, `giga_router_common.go` |
| `SerialBlock` | what parallel execution promises: the serial result | abstract |
| `MultiVersionStore` | versions, estimates, read sets, iterators and their validation | `store/multiversion/` |
| `Scheduler` | rounds of parallel execution and validation (extends `MultiVersionStore`) | `tasks/scheduler.go` |
| `AutobahnVotingProofs` | proofs: agreement of the vote rules; they implement `Road` | |
| `ReplicaProofs` | proofs: replicas with disks and crashes implement the vote rules | |
| `ABPersisterProofs` | proofs: the persister implements `AtomicRegister` | |
| `CommitteeProofs` | proofs about `Committee` and `VoteSets`, and the facts about finite sums they need | |
| `SchedulerInvariant` | the inductive invariant of `Scheduler` | |
| `SchedulerSteps`, `SchedulerExecutions`, `SchedulerRounds`, `SchedulerProofs` | proofs: it is inductive, and `Scheduler` implements `SerialBlock` | |
| `MC*` | leaders, chains, blocks, transactions and symmetry for TLC | |

### Votes, and replicas that implement them

`AutobahnVoting` is the specification a reader should start from. Its state is the set of
votes honest replicas have published. Signed messages cannot be forged or retracted, so
this set *is* the network: a certificate exists as soon as the honest members of a quorum
have published its votes (faulty members sign anything), and a message that is lost, late,
duplicated or reordered is a certificate a replica acts on never, later, or twice. One
action, `publish`, adds the votes of one replica in one view; the operators `mayPrepare`,
`mayCommit`, `mayTimeout` and `mayEnter` say when.

`AutobahnConsensus` has the state of the code. `inner[n]` is `State.inner`, `disk[n]` what
`newInner` would load, `myView[n]`, `myProposal[n]` and `myVotes[n]` the outputs of the
running process, `outputs[n]` and `current[n]` the place of the `runOutputs` iteration and
the `inner` it has taken. Each handler is one action, because it changes state in one
critical section; the checks it makes before, on `myView`, are guards, and
`MyViewTrailsInner` is why that is enough. `runOutputs` is three actions (`myView`, persist,
publish) so that handlers and crashes fall between them. `crash` loses everything but the
disk and restarts the replica from it. Contents of proposals (lane ranges, timestamp, app
hash) are opaque values; the lane and application checks of `FullProposal.Verify` only
decide which values are legal. A faulty leader's proposal is any proposal that verifies.

Certificates are not stored messages but predicates over votes, and `myTimeoutQC` is not a
variable for the same reason. How a node collects votes into certificates is `VoteSets`.

### The persister

A file is empty, corrupt, or a record. `Persist` truncates one file, writes it in chunks
(any cut-off write reads as corrupt), fsyncs and returns. `crash` is the death of the
process: the operating system keeps what was written. `powerLoss` is the death of the
machine: a file whose content was not fsynced may read as the old content, the new one,
empty or corrupt. `RegisterSpec` says that the two files are one atomic register. The
consensus and availability models use exactly that: persisting `inner` or the prune anchor
is one step, and a crash during a write is a crash before or after it. A failed write ends
the process, as `runOutputs` returns the error. A node that cannot load its files stays
down, which for the others is a replica that does nothing.

### Availability and the producer

`Avail` has the queues of `inner` (blocks of each lane, bounds of the CommitQC queue), the
cursors, the disk (prune anchor and one log per lane and for CommitQCs) and the goroutines
of one `runPersist` round: the anchor first, then a writer per log, each appending,
flushing and marking on its own, while calls from peers and consensus interleave. A crash
keeps of each log every flushed record that was not pruned and any prefix of the others,
so that anchor and logs disagree in every way they can; `Restart` is `loadPersistedState`,
`newInner` and the truncation at the start of `NewState`. Producers may equivocate:
`BlocksAt` gives two blocks with one number. `Producer` adds this node's own production
loop and a committee that finalises blocks it was sent.

### Data, the block store and execution

`BlockDB` is the store alone, under any caller that keeps its contract: a table of records
in write order of which a crash keeps a prefix, a handle with cached cursors and floors,
collection of any prefix that the filter passes. `Data` composes it with `PushQC` and
`PushBlock` (a wait and decision under the lock, verification outside it, insertion under
the lock), `runPersist` (record by record), `runExecute` and recovery. The chain of QCs
that consensus finalises is a constant.

### Parallel execution

A transaction is a short program over the store (`SerialBlock`): reads, an iteration with a
limit, a write whose key and value depend on what was read, a deletion; its response is what
it has read. `Scheduler` executes a block
of them with one step per access of shared state; `SerialSpec` says the store and the
responses are those of the serial execution. Two things of several accesses are one step:
the collection of the keys of lower transactions for an iterator, and the replay of an
iteration in validation. One store stands for the several of a chain, which share nothing.
A transaction of the model does not write while one of its iterations is open, and no key
enters a read set with two values. `giga/deps/tasks` holds a copy of the scheduler.

## Runs

| Run | Shows | States |
|---|---|---|
| `voting_quorums` | agreement and its inductive invariant, four equal replicas, one faulty | 63,201 |
| `consensus_roads` | replicas with disks, unlocked reads, restarts and an equivocating leader implement the vote rules and the road; the inductive invariant behind that; restart always succeeds; the disk never goes back | 113,127 |
| `persister_crash` | an acknowledged record survives; the files are a register | 14,563 |
| `persister_crash_then_power` | violation, finding 1 | |
| `committee_votes` | overflow check exact in every iteration order, quorum overlap, leaders by weight; for every committee so made, collectors miss no certificate and make none too early | 172,512 |
| `blockdb_store` | a served block has its QC, scans are sound, pruning leaves something, QCs change readability with their blocks, flushed records survive | 47,621 |
| `data_crash` | cursors in order, maps match cursors, the node never halts, proposals only for durable blocks, reads served, `nextToExecute` exact, blocks executed once and in order | 677,941 |
| `data_liveness` | every finalised block is executed and reported, with two crashes anywhere | 61,093 |
| `avail_crash` | recovery accepts what any crash leaves, the persist loop never stops, votes only for durable blocks and never for two of one number, published CommitQCs survive, the loop catches up | 498,268 |
| `avail_idle` | violation, finding 2 | |
| `producer_sync` | violation, finding 3 | |
| `scheduler_serial` | the parallel result is the serial one, in a bounded number of rounds; it ends | 405,343 |

Deadlock is checked in `blockdb_store`, `data_crash` and `data_liveness`. Elsewhere the
bounds stop the model, and a replica that receives nothing may rightly wait.

Every property of a passing run has been seen to fail under a plausible bug: the operators
marked "Mutant" stand next to the definitions they replace and are used nowhere else.

### Bounds, and why they are enough

- `voting_quorums`: several honest replicas in two views, two values. Agreement over more
  views (a value committed in one view, a view that times out without a PrepareQC, a third
  that proposes something else) is covered by the proof, which has no bound.
- `consensus_roads`: one honest replica of weight 3 beside a faulty one of weight 1, so that
  its votes form certificates and the search reaches all its depth: two indices, which
  exercise every reset between indices, of two views each, and two crashes. The theorems
  hold for any committee, number of views and of crashes. A replica does not time out in
  the last view of an index.
- `persister_crash`: five writes let both files be written twice and once more.
- `committee_votes`: weights and their sums in a word that ends at 5, four keys, a limit of
  three validators, so that both checks of `NewCommittee` fail and succeed; nothing in the
  code depends on the width but the bound. Votes of three views let replicas overtake each
  other.
- `blockdb_store`: QCs of any length over five numbers, so that a collected prefix, a
  surviving suffix and an unflushed end can each hold a QC with several blocks.
- `data_crash`, `data_liveness`: four blocks in three QCs, a cache so small
  (`blocksCacheSize` = 2) that a QC has to wait until blocks before it are reported, two
  goroutines so that each can overtake the other between its critical sections.
- `avail_crash`: one lane (lanes only meet in the anchor), three roads, four block numbers
  with an equivocation, a window of three blocks: a full window, an anchor past the end of
  a log and a gap in a log all occur.
- `scheduler_serial`: all 125 blocks of three transactions out of five that conflict in
  keys written, read and iterated over; `maximumIterations` of 1, which forces the
  synchronous round, and of 10, which three transactions never reach.

Symmetry is used over values, over the honest replicas of `voting_quorums`, which have
equal weight, and over the pushing goroutines of `data_crash`; never with a liveness
property.

### Fairness

- `data_liveness`: weak fairness of the persist loop, of the execution loop and of the ends
  of `PushQC` and `PushBlock`, which are goroutines that Go schedules; strong fairness of
  the arrival of the next QC and of the block at `nextBlock`, which the stream of full
  CommitQCs and the fetch loop over `NeedBlock` bring again and again.
- `avail_crash`: weak fairness of the persist loop and of the vote subscription; nothing is
  assumed of peers.
- `scheduler_serial`: weak fairness of the scheduler as a whole.

## Proofs

TLAPS checks the eight proof modules completely. The constants' assumptions are named
(`QuorumAssumption`, `BoundsAssumption`, `NoneAssumption`, `CrashesAssumption`,
`CommitteeAssumption`, `VoteSetsAssumption`, `KeysAssumption`, `SchedulerAssumption` and those of the persister)
and TLC evaluates them in every run.

**Agreement** (`VotingAgreement`), for every set of replicas, values and views, from
`QuorumAssumption`: two quorums share an honest replica (theorem `ConsensusQuorums` shows
that `committee.go` computes such quorums). The invariant, `VotingInv`, adds three facts that
agreement needs to be inductive: an honest replica signs at most one vote of each kind per
view; a timeout vote after a commit vote names what was committed to; and the *lock*
(`LockInv`). A view is *skipped* when the honest members of a quorum have timed out in it
without a commit vote; it can then never have a CommitQC. The lock says that every prepare
vote is for a value that is *safe* (each earlier view is skipped or has prepared that
value), and that the views between the PrepareQC in a timeout vote and the vote's own view
are all skipped. The second half is where the inheritance in `voteTimeout`
(`inner.go:244-251`) is needed: without it, consecutive timeouts forget the lock. Lemma
`TimeoutQCSkips` lifts it from votes to TimeoutQCs, `MayPrepareSafe` shows that a legal
proposal is safe, the `Publish...` lemmas take the conjuncts of the invariant one by one,
and `InvImpliesAgreement` compares two CommitQCs: the later one's value is safe, the
earlier view is not skipped, so it prepared the same value, and a view prepares one value
only.

**The road** (`VotingImplementsRoad`): a CommitQC of an index needs honest votes in it, an
honest replica enters an index only with a CommitQC of the one before, and by agreement the
content of a decided index never changes; so each step of the votes is a step of `Road`, or
none.

**Replicas implement the vote rules** (`ReplicasImplementVoting`), for any number of
replicas, views, values and crashes. The invariant `ReplicaInv` relates the four places
where a replica keeps its votes: `inner`, the copy that `runOutputs` has taken, the disk and
what is published. Each *continues* the one before (`inStep`): it is of a later view with a
justification, or of the same view with every vote of the former kept. Published votes are
on disk, so a restart cannot forget one; the votes of `inner` in its view are legal given
what is published, and stay so, because publishing only adds certificates. The lemmas are in
that order: views and their order, what a handler may store (one lemma per handler), what
`runOutputs` persists and publishes, crash. `publish` is then a step of `AutobahnVoting`,
and every other step leaves the votes alone. From the refinement follow agreement for full
replicas (`ReplicasAgree`) and the road (`ReplicasImplementRoad`); from the invariant, that
what a crash leaves on disk passes `persistedInner.validate` (`RestartAlwaysSucceeds`), that
the unlocked reads of `myView` are safe (`MyViewAlwaysTrails`) and that no write to the disk
loses a vote (`DiskOnlyGrows`).

**The persister** (`PersisterInvariant`, `AckedRecordSurvives`, `PersisterIsRegister`), for
any number of writes, failed writes, power losses and, after them, of processes that die
(the assumption `~PowerAfterCrash`; finding 1 is what happens without it). The invariant
says that records lie in the file of their parity, that an open persister finds the record
of its `seq` in one file and writes to the other (`openAt`), that the last acknowledged
record is that one or was overtaken (`ackedBy`), and, until a process dies, that the file it
does not write to is fsynced and the disk's version of the other is older (`durable`). The
register's value is the record of `seq`, or one of `seq + 1` that a write left behind;
`LoadFromOpen` shows that a load returns one of these.

**The committee** (`CommitteeAccepted`, `QuorumsOverlap`, `ConsensusQuorums`,
`LeadersProportional`), for every finite set of keys, all weights and any width of the word.
The invariant `LoopInv` of the construction says that `totalWeight` is the sum of the keys
visited so far and that the clone has lost those of weight 0; an overflow check that passes
or fails then says the same of the whole sum, in whatever order Go visits the map. Quorums
overlap by inclusion and exclusion (`SumOverlap`). `randomReplica` maps each number below
the total weight to the replica in whose stretch it lies; `StretchesCover` and
`StretchOfReplica` show that the stretches cover the numbers and are as long as the weights.

**The vote collectors** (`CollectorsExact`, `CertificatesVerify`, `NoCertificateMissed`),
for any committee and any sequence of votes. `VotesInv` adds the types to the properties
themselves; the work is in `MatchRemove` and `MatchInsert`: taking a replica's older vote
out of its group and putting the new one in keeps the groups exact, weights included.

**Parallel execution is serial** (`ParallelIsSerial`), for every block of transactions over
any finite set of keys, any number of workers and any `maximumIterations`: `Scheduler`
implements `SerialBlock`. Serialisability needs to be said of single executions before it
can be said of a block. An execution is described by the contents of a store that it
*agrees with*: those that have every value it read and over which its finished iterations
would serve the keys they served. The invariant `Inv` (module `SchedulerInvariant`) says

- of an execution in progress (`running`): on any contents it agrees with, the serial
  execution of the transaction is in the same place, with the same values read and the same
  writes. Nothing is said about what is in the multi-version store, so steps of other
  workers cannot disturb it;
- of one that has ended (`records`, in `flushing` and `settled`): on any contents that agree
  with its read set and iterate set, `deliverTx` yields its writeset and its response;
- of every task (`owned`): its items are under the keys of its recorded writeset, which is
  how estimates are found and removed;
- of validation (`validation`, `checking`): if the tasks before it are all executed or
  validated and none is being invalidated, then a task validated in this round agrees with
  the contents before it (`consistent`), and one being checked does so for the keys checked
  so far. A task validated earlier is checked again whenever one before it may have changed;
- of the queues: a task is with one goroutine at a time, and no validated task is executed
  again, but in a synchronous round.

When all tasks are validated, each agrees with the contents left by those before it, and by
induction over the block the last items of all keys are the serial result (`SerialPrefix`,
`FinishSerial`). `SchedulerExecutions` has the accesses of a transaction, one lemma per kind
of access; `SchedulerSteps` what the steps of one task leave alone of the others, and the
flush of a writeset; `SchedulerRounds` one lemma for each remaining action, and `StepInv`.
The lemmas of these three take as hypotheses the facts about minima, cardinalities and
recursion that they need (`Latest`, `Basics` in `SchedulerInvariant`); `SchedulerProofs`
proves both (`LatestHolds`, `BasicsHold`), so that the theorems have no such hypothesis. `Inv`
quantifies over all contents of a store, which TLC cannot enumerate; TLC checks what follows
from it. From the same invariant follows `NoOrphanEstimates`.

**Induction.** The induction rules of the library take a property as an operator, which the
provers cannot instantiate. Where a proof needs induction it takes a minimal
counterexample: a least number (`LeastNumber`) or a minimal set (`MinimalSet`) that violates
the claim, and finds a smaller one. That a recursive function has a solution is shown in the
same way (`FoldsExist`, `ChainExists`).

Only model-checked: `BlockDB`, `Data`, `Avail` and `Producer`, whose recovery selects from
and folds over sequences of records; the bounds on the rounds of the scheduler (`RoundBound`,
`OneSynchronousRound`); and all liveness, as fairness and `ENABLED` are out of the prover's
reach.

## Findings

1. `persister_crash_then_power`: "A crash only corrupts the file being written"
   (`persist.go:18`). A process that dies between the last chunk and `Sync` leaves a complete
   record in the page cache. `NewPersister` goes on from it without an fsync, the next
   `Persist` truncates the other file, the only one on disk, and a power loss then finds both
   in doubt: the acknowledged record, with the node's votes, is gone. This rests on the
   model's reading of a power loss (any file without an fsync is in doubt, and an fsync of
   the directory does not help its files); a file system may promise more.
2. `avail_idle`: `markBlockPersisted` (`avail/state.go:846`) sets the cursor of a lane
   without a maximum. An AppQC that arrives during a write moves the cursor past the batch,
   and the mark moves it back. From then on there seems to be something to write:
   `collectPersistBatch` returns empty batches without waiting, and the loop spins until the
   lane gets a new block. Nothing is lost (`avail_crash` still passes).
3. `producer_sync`: a block of the own lane is served to peers as soon as it is queued. If
   the process dies before the flush and the committee finalises the block it was sent, the
   restarted producer numbers from the shorter lane, the AppQC prunes the lane past that
   number, and the producer stops with "unexpected block number" (`producer/state.go:149`;
   line 131 says the numbers "should always be in sync"). Without a crash the property
   holds (MaxBlock = 3, 911,754 states).

Smaller observations, not runs of their own:

- `persist.go:24` says of one corrupt file "Uses the other file". If a crash hits the first
  write of a fresh node, the other file is empty and the load fails, although nothing was
  acknowledged; `persist_test.go:96` accepts that.
- `BlockDB`: `WriteBlock` compares a first block with the end of the QC coverage and not
  with its start, and `PruneBefore` counts blocks that a crash can still take. Neither can
  happen with the calls that `runPersist` and `runExecute` make; `FirstBlockCovered` and
  `PruneIsDurable` state what the callers guarantee.
- `Avail`: counting a lane's window from memory instead of from the persisted anchor would
  not break recovery either, because the anchor is written before the blocks.
- `scheduler.go:368-369`: the comment no longer describes what `validateAll` does.

## Not modelled

Cryptography (signatures cannot be forged, hashes do not collide), encodings, epochs beyond
the first (the registry never gets a second), timestamps, metrics. Lane votes of others and
LaneQCs, which only decide what a leader may propose. Nonces and gas of the producer's
mempool. Liveness of consensus: it needs timers and the rebroadcast of votes and
certificates between replicas. Tendermint consensus, mempool, block and state sync, the p2p
stack, storage engines, application modules and RPC: see `PROJECT.json`.
