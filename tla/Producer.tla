----------------------------- MODULE Producer -----------------------------
(***************************************************************************)
(* The block producer of a node                                            *)
(* (sei-tendermint/internal/autobahn/producer), composed with its lane in  *)
(* the availability state (module Avail): the mempool that seals payloads, *)
(* the task that appends them to the lane, the task that prunes what was   *)
(* executed, and the peers that are sent the blocks of the lane.           *)
(*                                                                         *)
(* A payload is what one process built, so a block that is produced again  *)
(* after a restart has another hash.  Of the transactions of a payload     *)
(* only "none" and "some" are told apart; nonces are left out.             *)
(***************************************************************************)
EXTENDS Avail

CONSTANT Self         \* the lane of this node

VARIABLES
    mempool,          \* [first, next, blocks, pending]
    producer,         \* the task that pushes blocks to the lane: [pc, toProduce]
    served,           \* the blocks of the lane that some peer was sent
    final,            \* the number of roads finalised by the committee
    executed          \* the next block of the lane that this node executes

producerVars == <<mempool, producer>>
networkVars == <<served, final, executed>>
allVars == <<vars, producerVars, networkVars>>

capacity == BlocksPerLane
-----------------------------------------------------------------------------
\* The mempool (mempool.go).

newMempool(n) == [first |-> n, next |-> n, blocks |-> {}, pending |-> FALSE]

IsFull == mempool.next - mempool.first >= capacity /\ mempool.pending

\* CanSealBlock with AllowEmptyBlocks unset.
CanSealBlock == mempool.next - mempool.first < capacity /\ mempool.pending

SealBlock(m) == [m EXCEPT !.blocks = @ \cup {m.next}, !.next = @ + 1, !.pending = FALSE]

\* insertTx seals the payload that a transaction does not fit in.
InsertTx(fits) ==
    /\ status = "running" /\ ~IsFull
    /\ ~fits => mempool.pending
    /\ mempool' = [IF fits THEN mempool ELSE SealBlock(mempool) EXCEPT !.pending = TRUE]
    /\ UNCHANGED <<vars, producer, networkVars>>

\* pruneMempool(n): the loop reads the payload of every number it passes, a
\* nil pointer when there is none.
pruneMempool ==
    /\ status = "running" /\ executed > mempool.first
    /\ LET upto == min(executed, mempool.next)
       IN  /\ mempool' = [mempool EXCEPT !.first = upto,
                                         !.blocks = {n \in @ : n >= upto},
                                         !.next = max(@, executed)]
           /\ status' = IF mempool.first..(upto - 1) \subseteq mempool.blocks
                        THEN status ELSE "stopped"
    /\ UNCHANGED <<memory, recvNext, persist, anchor, wals, voted, crashes, producer,
                   networkVars>>
-----------------------------------------------------------------------------
\* The task that pushes blocks to the lane (state.go).

WaitForLocalCapacity ==
    /\ status = "running" /\ producer.pc = "capacity"
    /\ hasCapacity(Self, producer.toProduce)
    /\ producer' = [producer EXCEPT !.pc = "payload"]
    /\ UNCHANGED <<vars, mempool, networkVars>>

\* A payload is ready, or the block interval passed and one can be sealed.
TakePayload ==
    /\ status = "running" /\ producer.pc = "payload"
    /\ \/ producer.toProduce < mempool.next
       \/ producer.toProduce = mempool.next /\ CanSealBlock
    /\ LET m == IF producer.toProduce = mempool.next THEN SealBlock(mempool) ELSE mempool
       IN  /\ mempool' = m
           /\ status' = IF producer.toProduce \in m.blocks THEN status ELSE "stopped"
    /\ producer' = [producer EXCEPT !.pc = "produce"]
    /\ UNCHANGED <<memory, recvNext, persist, anchor, wals, voted, crashes, networkVars>>

\* produceLocalBlock returns an error, and Run with it, when the lane is full
\* or its next block is another one.
ProduceLocalBlock ==
    LET n == producer.toProduce
        q == blocks[Self]
        b == [hash |-> crashes + 1,
              parent |-> IF q.q = <<>> THEN zeroHash ELSE Last(q.q).hash]
        ok == hasCapacity(Self, n) /\ n = next(q)
    IN  /\ status = "running" /\ producer.pc = "produce" /\ n <= MaxBlock
        /\ blocks' = IF ok THEN [blocks EXCEPT ![Self] = pushBack(@, b)] ELSE blocks
        /\ status' = IF ok THEN status ELSE "stopped"
        /\ producer' = [pc |-> "capacity", toProduce |-> n + 1]
        /\ UNCHANGED <<latestAppQC, latestCommitQC, commitQCs, nextBlockToPersist,
                       persistedBlockStart, recvNext, persist, anchor, wals, voted, crashes,
                       mempool, networkVars>>

\* NewState of the producer: numbering starts at the next block of the lane.
RestartNode ==
    /\ Restart
    /\ mempool' = newMempool(next(blocks'[Self]))
    /\ producer' = [pc |-> "capacity", toProduce |-> next(blocks'[Self])]
    /\ UNCHANGED networkVars
-----------------------------------------------------------------------------
\* The rest of the committee.

\* Block: a peer is sent a block as soon as it is in the queue.
Block(n) ==
    /\ status = "running"
    /\ n >= blocks[Self].first /\ n < next(blocks[Self])
    /\ served' = served \cup {[n |-> n, b |-> at(blocks[Self], n)]}
    /\ UNCHANGED <<vars, producerVars, final, executed>>

\* The blocks of a road in this lane are a chain that the committee has seen.
Available(r) ==
    \E c \in [LaneFirst(r, Self)..(LaneNext[r][Self] - 1) -> {x.b : x \in served}] :
        \A n \in DOMAIN c :
            /\ [n |-> n, b |-> c[n]] \in served
            /\ n - 1 \in DOMAIN c => c[n].parent = c[n - 1].hash

Finalize ==
    /\ final <= MaxRoad /\ Available(final)
    /\ final' = final + 1
    /\ UNCHANGED <<vars, producerVars, served, executed>>

Execute ==
    /\ status = "running"
    /\ final > 0 /\ executed < LaneNext[final - 1][Self]
    /\ executed' = LaneNext[final - 1][Self]
    /\ UNCHANGED <<vars, producerVars, served, final>>

Peers == \E r \in 0..(final - 1) : PushCommitQC(r) \/ PushAppQC(r) \/ PushAppVote(r)

ProducerInit ==
    /\ Init
    /\ mempool = newMempool(0)
    /\ producer = [pc |-> "capacity", toProduce |-> 0]
    /\ served = {} /\ final = 0 /\ executed = 0

ProducerNext ==
    \/ (Peers \/ RecvBatch \/ PersistStep) /\ UNCHANGED <<producerVars, networkVars>>
    \/ \E fits \in BOOLEAN : InsertTx(fits)
    \/ pruneMempool \/ WaitForLocalCapacity \/ TakePayload \/ ProduceLocalBlock
    \/ \E n \in 0..MaxBlock : Block(n)
    \/ Finalize \/ Execute \/ RestartNode

ProducerSpec == ProducerInit /\ [][ProducerNext]_allVars
-----------------------------------------------------------------------------
\* What the comment in Run says of the numbers of blocks: the mempool and the
\* lane agree on the block to produce.
LaneInSync == producer.pc = "produce" => producer.toProduce = next(blocks[Self])
=============================================================================
