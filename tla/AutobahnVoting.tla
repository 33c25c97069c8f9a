--------------------------- MODULE AutobahnVoting ---------------------------
(***************************************************************************)
(* What a replica of Autobahn's consensus                                  *)
(* (sei-tendermint/internal/autobahn/consensus) promises the others: which *)
(* votes it signs, given the votes signed so far.  Everything a replica    *)
(* does about its own state, its disk and its crashes is left to           *)
(* AutobahnConsensus, which implements this specification.                 *)
(*                                                                         *)
(* A view is a pair (Index, Number).  In a view the leader proposes,       *)
(* replicas prepare-vote, a quorum of prepare votes (PrepareQC) makes      *)
(* replicas commit-vote, and a quorum of commit votes (CommitQC) finishes  *)
(* the road index.  A view that stalls is left through a quorum of timeout *)
(* votes (TimeoutQC), each of which carries the newest PrepareQC its       *)
(* signer knows of.                                                        *)
(*                                                                         *)
(* Signed messages are unforgeable and never retracted, so the network is  *)
(* the set of the votes honest replicas have published; delivery (lost,    *)
(* late, duplicated, reordered) is the choice of which certificate a       *)
(* replica acts on.  Faulty replicas sign anything, so a certificate       *)
(* exists as soon as the honest members of some quorum have published its  *)
(* votes.                                                                  *)
(***************************************************************************)
EXTENDS Integers

CONSTANTS
    Replicas,   \* committee members
    Faulty,     \* the replicas that do not follow the code
    Quorums,    \* sets of replicas whose weight reaches CommitQuorum
    Values,     \* contents of a proposal: lane ranges, timestamp, app hash
    MaxIndex,   \* bound: highest road index voted in
    MaxNumber,  \* bound: highest view number voted in
    None        \* utils.None

(***************************************************************************)
(* Committee.Faulty bounds the weight of faulty replicas below a third, so *)
(* any two quorums share an honest replica.                                *)
(***************************************************************************)
ASSUME QuorumAssumption ==
    /\ Quorums \subseteq SUBSET Replicas
    /\ \A Q1, Q2 \in Quorums : (Q1 \cap Q2) \ Faulty # {}

ASSUME BoundsAssumption ==
    /\ MaxIndex \in Nat
    /\ MaxNumber \in Nat

Honest == Replicas \ Faulty

\* types.View; the epoch index is constant, as the registry has one epoch.
Views == [Index : 0..MaxIndex, Number : 0..MaxNumber]

\* View.Less
Less(v, w) ==
    \/ v.Index < w.Index
    \/ v.Index = w.Index /\ v.Number < w.Number

LessEq(v, w) == v = w \/ Less(v, w)

\* A certificate or a vote is known by the view and the value it is for;
\* a TimeoutQC by its view and the newest PrepareQC among its votes.
QCs == [view : Views, value : Values]
VoteOpt == QCs \cup {None}
TimeoutQCs == [view : Views, latestPrepareQC : VoteOpt]
TimeoutQCOpt == TimeoutQCs \cup {None}
Proposals == [view : Views, value : Values, timeoutQC : TimeoutQCOpt]

ASSUME NoneAssumption == None \notin QCs \cup TimeoutQCs

VARIABLES
    prepareVotes,  \* PrepareVotes published by honest replicas
    commitVotes,   \* CommitVotes published by honest replicas
    timeoutVotes   \* FullTimeoutVotes published by honest replicas

votes == <<prepareVotes, commitVotes, timeoutVotes>>

SignedVotes == [key : Honest, view : Views, value : Values]
SignedTimeoutVotes == [key : Honest, view : Views, latestPrepareQC : VoteOpt]
-----------------------------------------------------------------------------
(***************************************************************************)
(* Certificates.  verifyQC accepts votes of distinct replicas whose weight *)
(* reaches the quorum; here: some quorum whose honest members have all     *)
(* published the vote.                                                     *)
(***************************************************************************)

\* PrepareQC.Verify
VerifyPrepareQC(qc) ==
    \E Q \in Quorums : \A n \in Q \ Faulty :
        [key |-> n, view |-> qc.view, value |-> qc.value] \in prepareVotes

\* CommitQC.Verify
VerifyCommitQC(qc) ==
    \E Q \in Quorums : \A n \in Q \ Faulty :
        [key |-> n, view |-> qc.view, value |-> qc.value] \in commitVotes

\* The view number an optional PrepareQC is ranked by in NewTimeoutQC.
RankOpt(qc) == IF qc = None THEN -1 ELSE qc.view.Number

\* NewTimeoutQC and TimeoutQC.Verify: votes of one view by a quorum, together
\* with a PrepareQC of that index whose view number is the highest any vote
\* names.  The votes of faulty replicas may name any PrepareQC that exists.
VerifyTimeoutQC(tqc) ==
    \E Q \in Quorums :
        /\ \A n \in Q \ Faulty : \E v \in timeoutVotes :
               /\ v.key = n
               /\ v.view = tqc.view
               /\ RankOpt(v.latestPrepareQC) <= RankOpt(tqc.latestPrepareQC)
        /\ tqc.latestPrepareQC # None =>
               /\ VerifyPrepareQC(tqc.latestPrepareQC)
               /\ tqc.latestPrepareQC.view.Index = tqc.view.Index
               /\ \/ Q \cap Faulty # {}
                  \/ \E v \in timeoutVotes :
                        /\ v.key \in Q
                        /\ v.view = tqc.view
                        /\ RankOpt(v.latestPrepareQC) = RankOpt(tqc.latestPrepareQC)
-----------------------------------------------------------------------------
(***************************************************************************)
(* The votes a replica may sign in view w.                                 *)
(***************************************************************************)

\* The view v is the one before w in the same index.
isNext(v, w) == v.Index = w.Index /\ v.Number + 1 = w.Number

\* Mutant: a proposal after a timeout may carry any value.
mayPrepareAnyValue(w, value) ==
    w.Number > 0 =>
        \E tqc \in TimeoutQCs : isNext(tqc.view, w) /\ VerifyTimeoutQC(tqc)

\* pushProposal: in a view reached by timeout, the proposal repeats the value
\* of the newest PrepareQC its TimeoutQC carries, if it carries one.
mayPrepare(w, value) ==
    w.Number > 0 =>
        \E tqc \in TimeoutQCs :
            /\ isNext(tqc.view, w)
            /\ VerifyTimeoutQC(tqc)
            /\ tqc.latestPrepareQC # None => value = tqc.latestPrepareQC.value

\* pushPrepareQC: a commit vote needs a PrepareQC of the view.
mayCommit(w, value) == VerifyPrepareQC([view |-> w, value |-> value])

\* Mutant: the PrepareQC of earlier views is not passed on.
mayTimeoutForgetful(w, pqc) == pqc = None

\* voteTimeout: without a PrepareQC of this view, pass on the newest one of
\* the TimeoutQC that justified entering it.
mayTimeout(w, pqc) ==
    IF w.Number = 0
    THEN pqc = None
    ELSE \E tqc \in TimeoutQCs :
            /\ isNext(tqc.view, w)
            /\ pqc = tqc.latestPrepareQC
            /\ VerifyTimeoutQC(tqc)

\* pushCommitQC: an index is entered with a CommitQC of the one before.
mayEnter(w) ==
    w.Index > 0 => \E qc \in QCs : qc.view.Index = w.Index - 1 /\ VerifyCommitQC(qc)

votesIn(set, n, w) == {v \in set : v.key = n /\ v.view = w}

\* Replica n may vote in view w: it has voted in no later view, has not timed
\* out in this one, and may be in its index.
mayVoteIn(n, w) ==
    /\ \A v \in prepareVotes \cup commitVotes \cup timeoutVotes :
          v.key = n => LessEq(v.view, w)
    /\ votesIn(timeoutVotes, n, w) = {}
    /\ mayEnter(w)

\* It publishes new votes there: a prepare vote for the value in P, a commit
\* vote for the value in C and a timeout vote with the PrepareQC in T, where
\* each of P, C and T has at most one element.
publish(n, w, P, C, T) ==
    LET committed == {c.value : c \in votesIn(commitVotes, n, w)} \cup C
    IN  /\ \A value \in P :
              votesIn(prepareVotes, n, w) = {} /\ mayPrepare(w, value)
        /\ \A value \in C :
              votesIn(commitVotes, n, w) = {} /\ mayCommit(w, value)
        /\ \A pqc \in T :
              IF committed # {}
              THEN \E value \in committed : pqc = [view |-> w, value |-> value]
              ELSE mayTimeout(w, pqc)
        /\ prepareVotes' = prepareVotes \cup
                              {[key |-> n, view |-> w, value |-> x] : x \in P}
        /\ commitVotes' = commitVotes \cup
                              {[key |-> n, view |-> w, value |-> x] : x \in C}
        /\ timeoutVotes' = timeoutVotes \cup
                              {[key |-> n, view |-> w, latestPrepareQC |-> q] : q \in T}

VotingInit ==
    /\ prepareVotes = {}
    /\ commitVotes = {}
    /\ timeoutVotes = {}

AtMostOne(S) == {{}} \cup {{x} : x \in S}

VotingNext ==
    \E n \in Honest, w \in Views :
        /\ mayVoteIn(n, w)
        /\ \E P \in AtMostOne(Values), C \in AtMostOne(Values), T \in AtMostOne(VoteOpt) :
              publish(n, w, P, C, T)

VotingSpec == VotingInit /\ [][VotingNext]_votes
-----------------------------------------------------------------------------
\* Published votes are signed by the honest replica they name.
VotingTypeOK ==
    /\ prepareVotes \subseteq SignedVotes
    /\ commitVotes \subseteq SignedVotes
    /\ timeoutVotes \subseteq SignedTimeoutVotes

\* Consensus: two CommitQCs of one road index are for the same content,
\* whatever views they come from, whatever faulty replicas signed and
\* whichever honest replicas crashed and restarted (inner.go: the lock that
\* voteTimeout passes on, and the guards of pushProposal and pushPrepareQC).
Agreement ==
    \A qc1, qc2 \in QCs :
        /\ VerifyCommitQC(qc1)
        /\ VerifyCommitQC(qc2)
        /\ qc1.view.Index = qc2.view.Index
        => qc1.value = qc2.value

\* "Persists state to disk before broadcasting votes [...] prevents
\* double-voting on crash" (runOutputs): no honest replica ever publishes two
\* different votes of one kind in one view.
NoDoubleVote ==
    /\ \A v, w \in prepareVotes : v.key = w.key /\ v.view = w.view => v = w
    /\ \A v, w \in commitVotes : v.key = w.key /\ v.view = w.view => v = w
    /\ \A v, w \in timeoutVotes : v.key = w.key /\ v.view = w.view => v = w

\* A replica that publishes both a commit vote and a timeout vote in a view
\* names, in the timeout vote, the PrepareQC it committed to (voteTimeout and
\* the TimeoutVote guard of pushPrepareQC, across a crash in between).
TimeoutRevealsCommit ==
    \A c \in commitVotes, t \in timeoutVotes :
        c.key = t.key /\ c.view = t.view =>
            t.latestPrepareQC = [view |-> c.view, value |-> c.value]

\* The contents for which a CommitQC exists, by road index.
decidedRoad ==
    [i \in 0..MaxIndex |->
        {value \in Values : \E v \in Views :
            v.Index = i /\ VerifyCommitQC([view |-> v, value |-> value])}]

Decisions == INSTANCE Road WITH decided <- decidedRoad

\* Published votes decide the road one index after the other, and a decided
\* index never changes (pushCommitQC enters an index only with the CommitQC
\* of the one before it).
RoadSpec == Decisions!Spec
-----------------------------------------------------------------------------
(***************************************************************************)
(* Why the votes agree.  A view is skipped when the honest members of some *)
(* quorum have timed out in it without a commit vote: no CommitQC of it    *)
(* can exist, now or later.  A value is safe in a view when every earlier  *)
(* view of the index is skipped or has prepared that very value.           *)
(***************************************************************************)
Skipped(w) ==
    \E Q \in Quorums : \A n \in Q \ Faulty :
        votesIn(timeoutVotes, n, w) # {} /\ votesIn(commitVotes, n, w) = {}

SafeAt(w, value) ==
    \A v \in Views :
        v.Index = w.Index /\ v.Number < w.Number =>
            Skipped(v) \/ VerifyPrepareQC([view |-> v, value |-> value])

\* The lock: prepare votes are for safe values, commit votes for prepared
\* ones, and the PrepareQC in a timeout vote outranks every view that might
\* have committed (the inheritance in voteTimeout is what keeps this true
\* across consecutive timeouts).
LockInv ==
    /\ \A p \in prepareVotes : SafeAt(p.view, p.value)
    /\ \A c \in commitVotes : VerifyPrepareQC([view |-> c.view, value |-> c.value])
    /\ \A t \in timeoutVotes :
          /\ t.latestPrepareQC # None => VerifyPrepareQC(t.latestPrepareQC)
          /\ \A v \in Views :
                /\ v.Index = t.view.Index
                /\ RankOpt(t.latestPrepareQC) < v.Number
                /\ v.Number < t.view.Number
                => Skipped(v)

\* The inductive invariant behind Agreement.
VotingInv == VotingTypeOK /\ NoDoubleVote /\ TimeoutRevealsCommit /\ LockInv
=============================================================================
