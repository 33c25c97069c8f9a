------------------------ MODULE AutobahnVotingProofs ------------------------
(***************************************************************************)
(* Agreement for every committee, every set of values and every bound, and *)
(* that the votes decide a road: the CommitQCs that exist implement Road.  *)
(***************************************************************************)
EXTENDS AutobahnVoting, TLAPS

\* Two quorums share an honest replica.
LEMMA QuorumsMeet ==
    ASSUME NEW Q1 \in Quorums, NEW Q2 \in Quorums
    PROVE  \E n \in Honest : n \in Q1 \ Faulty /\ n \in Q2 \ Faulty
BY QuorumAssumption DEF Honest

\* A view prepares at most one value: its two quorums share an honest replica,
\* which signed one prepare vote in it (PrepareVote guard of pushProposal).
LEMMA PrepareQCUnique ==
    ASSUME NoDoubleVote, NEW q1, NEW q2,
           VerifyPrepareQC(q1), VerifyPrepareQC(q2), q1.view = q2.view
    PROVE  q1.value = q2.value
<1>1. PICK Q1 \in Quorums : \A n \in Q1 \ Faulty :
          [key |-> n, view |-> q1.view, value |-> q1.value] \in prepareVotes
      BY DEF VerifyPrepareQC
<1>2. PICK Q2 \in Quorums : \A n \in Q2 \ Faulty :
          [key |-> n, view |-> q2.view, value |-> q2.value] \in prepareVotes
      BY DEF VerifyPrepareQC
<1>3. PICK n \in Honest : n \in Q1 \ Faulty /\ n \in Q2 \ Faulty
      BY QuorumsMeet
<1>4. [key |-> n, view |-> q1.view, value |-> q1.value]
        = [key |-> n, view |-> q2.view, value |-> q2.value]
      BY <1>1, <1>2, <1>3 DEF NoDoubleVote
<1> QED BY <1>4

\* A view that was skipped has no CommitQC.
LEMMA SkippedNotCommitted ==
    ASSUME NEW w, NEW value, Skipped(w)
    PROVE  ~VerifyCommitQC([view |-> w, value |-> value])
<1> SUFFICES ASSUME VerifyCommitQC([view |-> w, value |-> value]) PROVE FALSE
    OBVIOUS
<1>1. PICK Q1 \in Quorums : \A n \in Q1 \ Faulty : votesIn(commitVotes, n, w) = {}
      BY DEF Skipped
<1>2. PICK Q2 \in Quorums : \A n \in Q2 \ Faulty :
          [key |-> n, view |-> w, value |-> value] \in commitVotes
      BY DEF VerifyCommitQC
<1>3. PICK n \in Honest : n \in Q1 \ Faulty /\ n \in Q2 \ Faulty
      BY QuorumsMeet
<1>4. [key |-> n, view |-> w, value |-> value] \in votesIn(commitVotes, n, w)
      BY <1>2, <1>3 DEF votesIn
<1> QED BY <1>1, <1>3, <1>4

\* What a quorum of commit votes says: its value was prepared, and is safe.
LEMMA CommitQCPrepared ==
    ASSUME VotingInv, NEW qc \in QCs, VerifyCommitQC(qc)
    PROVE  VerifyPrepareQC(qc) /\ SafeAt(qc.view, qc.value)
<1>1. PICK Q \in Quorums : \A n \in Q \ Faulty :
          [key |-> n, view |-> qc.view, value |-> qc.value] \in commitVotes
      BY DEF VerifyCommitQC
<1>2. PICK n \in Honest : n \in Q \ Faulty
      BY QuorumsMeet
<1>3. VerifyPrepareQC([view |-> qc.view, value |-> qc.value])
      BY <1>1, <1>2 DEF VotingInv, LockInv
<1>4. VerifyPrepareQC(qc)
      BY <1>3 DEF VerifyPrepareQC
<1>5. PICK R \in Quorums : \A m \in R \ Faulty :
          [key |-> m, view |-> qc.view, value |-> qc.value] \in prepareVotes
      BY <1>4 DEF VerifyPrepareQC
<1>6. PICK m \in Honest : m \in R \ Faulty
      BY QuorumsMeet
<1>7. SafeAt(qc.view, qc.value)
      BY <1>5, <1>6 DEF VotingInv, LockInv
<1> QED BY <1>4, <1>7

\* The lock gives agreement.
LEMMA InvImpliesAgreement == VotingInv => Agreement
<1> SUFFICES ASSUME VotingInv, NEW qc1 \in QCs, NEW qc2 \in QCs,
                    VerifyCommitQC(qc1), VerifyCommitQC(qc2),
                    qc1.view.Index = qc2.view.Index
             PROVE  qc1.value = qc2.value
    BY DEF Agreement
<1>1. NoDoubleVote
      BY DEF VotingInv
<1>2. /\ VerifyPrepareQC(qc1) /\ SafeAt(qc1.view, qc1.value)
      /\ VerifyPrepareQC(qc2) /\ SafeAt(qc2.view, qc2.value)
      BY CommitQCPrepared
<1>3. /\ VerifyCommitQC([view |-> qc1.view, value |-> qc1.value])
      /\ VerifyCommitQC([view |-> qc2.view, value |-> qc2.value])
      BY DEF VerifyCommitQC
<1>4. qc1.view \in Views /\ qc2.view \in Views
      BY DEF QCs
<1>5. CASE qc1.view.Number < qc2.view.Number
  <2>1. VerifyPrepareQC([view |-> qc1.view, value |-> qc2.value])
        BY <1>2, <1>3, <1>4, <1>5, SkippedNotCommitted DEF SafeAt
  <2> QED BY <2>1, <1>1, <1>2, PrepareQCUnique
<1>6. CASE qc2.view.Number < qc1.view.Number
  <2>1. VerifyPrepareQC([view |-> qc2.view, value |-> qc1.value])
        BY <1>2, <1>3, <1>4, <1>6, SkippedNotCommitted DEF SafeAt
  <2> QED BY <2>1, <1>1, <1>2, PrepareQCUnique
<1>7. CASE qc1.view.Number = qc2.view.Number
  <2>1. qc1.view = qc2.view
        BY <1>4, <1>7 DEF Views
  <2> QED BY <2>1, <1>1, <1>2, PrepareQCUnique
<1> QED
    BY <1>4, <1>5, <1>6, <1>7, BoundsAssumption DEF Views
-----------------------------------------------------------------------------
(***************************************************************************)
(* What a verified TimeoutQC says, and what a step preserves.              *)
(***************************************************************************)

\* Between the PrepareQC a TimeoutQC carries and the view it closes, every
\* view is skipped.
LEMMA TimeoutQCSkips ==
    ASSUME VotingInv, NEW tqc \in TimeoutQCs, VerifyTimeoutQC(tqc),
           NEW v \in Views, v.Index = tqc.view.Index,
           RankOpt(tqc.latestPrepareQC) < v.Number, v.Number <= tqc.view.Number
    PROVE  Skipped(v)
<1>1. PICK Q \in Quorums : \A n \in Q \ Faulty : \E t \in timeoutVotes :
          /\ t.key = n
          /\ t.view = tqc.view
          /\ RankOpt(t.latestPrepareQC) <= RankOpt(tqc.latestPrepareQC)
      BY DEF VerifyTimeoutQC
<1>2. tqc.view \in Views /\ tqc.latestPrepareQC \in VoteOpt
      BY DEF TimeoutQCs
<1>3. \A x \in VoteOpt : RankOpt(x) \in Int
      BY BoundsAssumption DEF VoteOpt, RankOpt, QCs, Views
<1>4. v.Number \in Int /\ tqc.view.Number \in Int
      BY <1>2, BoundsAssumption DEF Views
<1>5. \A t \in timeoutVotes : t.latestPrepareQC \in VoteOpt
      BY DEF VotingInv, VotingTypeOK, SignedTimeoutVotes
<1>6. CASE v.Number = tqc.view.Number
  <2>1. v = tqc.view
        BY <1>2, <1>6 DEF Views
  <2>2. ASSUME NEW n \in Q \ Faulty
        PROVE  votesIn(timeoutVotes, n, v) # {} /\ votesIn(commitVotes, n, v) = {}
    <3>1. PICK t \in timeoutVotes :
              /\ t.key = n
              /\ t.view = tqc.view
              /\ RankOpt(t.latestPrepareQC) <= RankOpt(tqc.latestPrepareQC)
          BY <1>1
    <3>2. t \in votesIn(timeoutVotes, n, v)
          BY <2>1, <3>1 DEF votesIn
    <3>3. ASSUME NEW c \in commitVotes, c.key = n, c.view = v
          PROVE  FALSE
      <4>1. t.latestPrepareQC = [view |-> c.view, value |-> c.value]
            BY <2>1, <3>1, <3>3 DEF VotingInv, TimeoutRevealsCommit
      <4>2. [view |-> c.view, value |-> c.value] \in QCs
            BY <3>3 DEF VotingInv, VotingTypeOK, SignedVotes, QCs
      <4>3. [view |-> c.view, value |-> c.value] # None
            BY <4>2, NoneAssumption
      <4>4. RankOpt(t.latestPrepareQC) = v.Number
            BY <3>3, <4>1, <4>3 DEF RankOpt
      <4> QED BY <3>1, <4>4, <1>2, <1>3, <1>4
    <3> QED BY <3>2, <3>3 DEF votesIn
  <2> QED BY <2>2 DEF Skipped
<1>7. CASE v.Number < tqc.view.Number
  <2>1. PICK n \in Honest : n \in Q \ Faulty
        BY QuorumsMeet
  <2>2. PICK t \in timeoutVotes :
            /\ t.key = n
            /\ t.view = tqc.view
            /\ RankOpt(t.latestPrepareQC) <= RankOpt(tqc.latestPrepareQC)
        BY <1>1, <2>1
  <2>3. RankOpt(t.latestPrepareQC) < v.Number
        BY <1>2, <1>3, <1>4, <1>5, <2>2
  <2> QED BY <1>7, <2>2, <2>3 DEF VotingInv, LockInv
<1> QED BY <1>4, <1>6, <1>7

\* A certificate's PrepareQC was itself signed for a safe value.
LEMMA PrepareQCSafe ==
    ASSUME VotingInv, NEW qc, VerifyPrepareQC(qc)
    PROVE  SafeAt(qc.view, qc.value)
<1>1. PICK R \in Quorums : \A m \in R \ Faulty :
          [key |-> m, view |-> qc.view, value |-> qc.value] \in prepareVotes
      BY DEF VerifyPrepareQC
<1>2. PICK m \in Honest : m \in R \ Faulty
      BY QuorumsMeet
<1> QED BY <1>1, <1>2 DEF VotingInv, LockInv

\* pushProposal prepares only safe values.
LEMMA MayPrepareSafe ==
    ASSUME VotingInv, NEW w \in Views, NEW value \in Values, mayPrepare(w, value)
    PROVE  SafeAt(w, value)
<1> SUFFICES ASSUME NEW v \in Views, v.Index = w.Index, v.Number < w.Number
             PROVE  Skipped(v) \/ VerifyPrepareQC([view |-> v, value |-> value])
    BY DEF SafeAt
<1>1. v.Number \in Nat /\ w.Number \in Nat
      BY BoundsAssumption DEF Views
<1>2. PICK tqc \in TimeoutQCs :
          /\ isNext(tqc.view, w)
          /\ VerifyTimeoutQC(tqc)
          /\ tqc.latestPrepareQC # None => value = tqc.latestPrepareQC.value
      BY <1>1 DEF mayPrepare
<1>3. tqc.view \in Views /\ tqc.latestPrepareQC \in VoteOpt
      BY DEF TimeoutQCs
<1>4. v.Index = tqc.view.Index /\ v.Number <= tqc.view.Number
      BY <1>1, <1>2, <1>3, BoundsAssumption DEF isNext, Views
<1>5. CASE tqc.latestPrepareQC = None
  <2>1. RankOpt(tqc.latestPrepareQC) < v.Number
        BY <1>1, <1>5 DEF RankOpt
  <2> QED BY <1>2, <1>4, <2>1, TimeoutQCSkips
<1>6. CASE tqc.latestPrepareQC # None
  <2> DEFINE q == tqc.latestPrepareQC
  <2>1. q \in QCs /\ q.view \in Views /\ value = q.value
        BY <1>2, <1>3, <1>6 DEF VoteOpt, QCs
  <2>2. VerifyPrepareQC(q) /\ q.view.Index = tqc.view.Index
        BY <1>2, <1>6 DEF VerifyTimeoutQC
  <2>3. RankOpt(q) = q.view.Number /\ q.view.Number \in Nat
        BY <1>6, <2>1, BoundsAssumption DEF RankOpt, Views
  <2>4. CASE q.view.Number < v.Number
        BY <1>2, <1>4, <2>3, <2>4, TimeoutQCSkips
  <2>5. CASE q.view.Number = v.Number
    <3>1. q.view = v
          BY <1>4, <2>1, <2>2, <2>5 DEF Views
    <3> QED BY <2>1, <2>2, <3>1 DEF VerifyPrepareQC
  <2>6. CASE v.Number < q.view.Number
    <3>1. SafeAt(q.view, q.value)
          BY <2>2, PrepareQCSafe
    <3> QED BY <1>4, <2>1, <2>2, <2>6, <3>1 DEF SafeAt
  <2> QED BY <1>1, <2>3, <2>4, <2>5, <2>6
<1> QED BY <1>5, <1>6
-----------------------------------------------------------------------------
(***************************************************************************)
(* One step.                                                               *)
(***************************************************************************)

\* Votes are never retracted, and certificates stay valid.
LEMMA VerifyPrepareQCStable ==
    ASSUME prepareVotes \subseteq prepareVotes', NEW qc, VerifyPrepareQC(qc)
    PROVE  VerifyPrepareQC(qc)'
BY DEF VerifyPrepareQC

\* A skipped view stays skipped: a replica that has published a timeout vote
\* in it publishes no commit vote in it (TimeoutVote guard of pushPrepareQC).
LEMMA SkippedStable ==
    ASSUME NEW n \in Honest, NEW w \in Views, NEW P, NEW C, NEW T,
           mayVoteIn(n, w), publish(n, w, P, C, T), NEW v \in Views, Skipped(v)
    PROVE  Skipped(v)'
<1>1. PICK Q \in Quorums : \A m \in Q \ Faulty :
          votesIn(timeoutVotes, m, v) # {} /\ votesIn(commitVotes, m, v) = {}
      BY DEF Skipped
<1>2. ASSUME NEW m \in Q \ Faulty
      PROVE  votesIn(timeoutVotes', m, v) # {} /\ votesIn(commitVotes', m, v) = {}
  <2>1. timeoutVotes \subseteq timeoutVotes'
        BY DEF mayVoteIn, publish
  <2>2. votesIn(timeoutVotes', m, v) # {}
        BY <1>1, <2>1 DEF votesIn
  <2>3. ASSUME NEW c \in commitVotes', c.key = m, c.view = v
        PROVE  FALSE
    <3>1. CASE c \in commitVotes
          BY <1>1, <2>3, <3>1 DEF votesIn
    <3>2. CASE c \notin commitVotes
      <4>1. c.key = n /\ c.view = w
            BY <2>3, <3>2 DEF mayVoteIn, publish
      <4> QED BY <1>1, <2>3, <4>1 DEF mayVoteIn, publish
    <3> QED BY <3>1, <3>2
  <2> QED BY <2>2, <2>3 DEF votesIn
<1> QED BY <1>2 DEF Skipped

LEMMA SafeAtStable ==
    ASSUME NEW n \in Honest, NEW w \in Views, NEW P, NEW C, NEW T,
           mayVoteIn(n, w), publish(n, w, P, C, T), NEW v, NEW value, SafeAt(v, value)
    PROVE  SafeAt(v, value)'
<1>1. prepareVotes \subseteq prepareVotes'
      BY DEF mayVoteIn, publish
<1>2. ASSUME NEW u \in Views, u.Index = v.Index, u.Number < v.Number
      PROVE  Skipped(u)' \/ VerifyPrepareQC([view |-> u, value |-> value])'
      BY <1>1, <1>2, SkippedStable, VerifyPrepareQCStable DEF SafeAt
<1> QED BY <1>2 DEF SafeAt

LEMMA PublishTypeOK ==
    ASSUME VotingTypeOK, NEW n \in Honest, NEW w \in Views,
           NEW P \in AtMostOne(Values), NEW C \in AtMostOne(Values),
           NEW T \in AtMostOne(VoteOpt), mayVoteIn(n, w), publish(n, w, P, C, T)
    PROVE  VotingTypeOK'
<1>1. P \subseteq Values /\ C \subseteq Values /\ T \subseteq VoteOpt
      BY DEF AtMostOne
<1> QED BY <1>1 DEF VotingTypeOK, mayVoteIn, publish, SignedVotes, SignedTimeoutVotes

LEMMA PublishNoDoubleVote ==
    ASSUME VotingTypeOK, NoDoubleVote, NEW n \in Honest, NEW w \in Views,
           NEW P \in AtMostOne(Values), NEW C \in AtMostOne(Values),
           NEW T \in AtMostOne(VoteOpt), mayVoteIn(n, w), publish(n, w, P, C, T)
    PROVE  NoDoubleVote'
<1>1. /\ \A x, y \in P : x = y
      /\ \A x, y \in C : x = y
      /\ \A x, y \in T : x = y
      BY DEF AtMostOne
<1>2. ASSUME NEW u \in prepareVotes', NEW v \in prepareVotes',
             u.key = v.key, u.view = v.view
      PROVE  u = v
      BY <1>1, <1>2 DEF mayVoteIn, publish, votesIn, NoDoubleVote
<1>3. ASSUME NEW u \in commitVotes', NEW v \in commitVotes',
             u.key = v.key, u.view = v.view
      PROVE  u = v
      BY <1>1, <1>3 DEF mayVoteIn, publish, votesIn, NoDoubleVote
<1>4. ASSUME NEW u \in timeoutVotes', NEW v \in timeoutVotes',
             u.key = v.key, u.view = v.view
      PROVE  u = v
      BY <1>1, <1>4 DEF mayVoteIn, publish, votesIn, NoDoubleVote
<1> QED BY <1>2, <1>3, <1>4 DEF NoDoubleVote

\* The values the T guard of publish looks at are those of n's commit votes,
\* the one being published included.
LEMMA CommittedIsVoted ==
    ASSUME NEW n, NEW w, NEW P, NEW C, NEW T, mayVoteIn(n, w), publish(n, w, P, C, T),
           NEW value \in {d.value : d \in votesIn(commitVotes, n, w)} \cup C
    PROVE  \E c \in commitVotes' : c.key = n /\ c.view = w /\ c.value = value
<1>1. CASE value \in C
  <2>1. [key |-> n, view |-> w, value |-> value] \in commitVotes'
        BY <1>1 DEF mayVoteIn, publish
  <2> QED BY <2>1
<1>2. CASE value \notin C
  <2>1. PICK d \in votesIn(commitVotes, n, w) : value = d.value
        BY <1>2
  <2>2. d \in commitVotes' /\ d.key = n /\ d.view = w
        BY DEF mayVoteIn, publish, votesIn
  <2> QED BY <2>1, <2>2
<1> QED BY <1>1, <1>2

LEMMA PublishTimeoutRevealsCommit ==
    ASSUME VotingTypeOK, NoDoubleVote', TimeoutRevealsCommit,
           NEW n \in Honest, NEW w \in Views,
           NEW P \in AtMostOne(Values), NEW C \in AtMostOne(Values),
           NEW T \in AtMostOne(VoteOpt), mayVoteIn(n, w), publish(n, w, P, C, T)
    PROVE  TimeoutRevealsCommit'
<1> SUFFICES ASSUME NEW c \in commitVotes', NEW t \in timeoutVotes',
                    c.key = t.key, c.view = t.view
             PROVE  t.latestPrepareQC = [view |-> c.view, value |-> c.value]
    BY DEF TimeoutRevealsCommit
<1>1. CASE t \in timeoutVotes /\ c \in commitVotes
      BY <1>1 DEF TimeoutRevealsCommit
<1>2. CASE t \in timeoutVotes /\ c \notin commitVotes
  <2>1. c.key = n /\ c.view = w
        BY <1>2 DEF mayVoteIn, publish
  <2> QED BY <1>2, <2>1 DEF mayVoteIn, publish, votesIn
<1>3. CASE t \notin timeoutVotes
  <2> DEFINE committed == {d.value : d \in votesIn(commitVotes, n, w)} \cup C
  <2>1. t.key = n /\ t.view = w /\ t.latestPrepareQC \in T
        BY <1>3 DEF mayVoteIn, publish
  <2>2. c.value \in committed
        BY <2>1 DEF mayVoteIn, publish, votesIn
  <2>3. PICK value \in committed : t.latestPrepareQC = [view |-> w, value |-> value]
        BY <2>1, <2>2 DEF mayVoteIn, publish
  <2>4. PICK d \in commitVotes' : d.key = n /\ d.view = w /\ d.value = value
        BY CommittedIsVoted
  <2>5. c = d
        BY <2>1, <2>4 DEF NoDoubleVote
  <2> QED BY <2>1, <2>3, <2>4, <2>5
<1> QED BY <1>1, <1>2, <1>3

LEMMA PublishLockInv ==
    ASSUME VotingInv, NEW n \in Honest, NEW w \in Views,
           NEW P \in AtMostOne(Values), NEW C \in AtMostOne(Values),
           NEW T \in AtMostOne(VoteOpt), mayVoteIn(n, w), publish(n, w, P, C, T)
    PROVE  LockInv'
<1>1. prepareVotes \subseteq prepareVotes'
      BY DEF mayVoteIn, publish
<1>2. P \subseteq Values /\ C \subseteq Values /\ T \subseteq VoteOpt
      BY DEF AtMostOne
<1>3. ASSUME NEW p \in prepareVotes'
      PROVE  SafeAt(p.view, p.value)'
  <2>1. CASE p \in prepareVotes
        BY <2>1, SafeAtStable DEF VotingInv, LockInv
  <2>2. CASE p \notin prepareVotes
    <3>1. p.view = w /\ p.value \in P
          BY <1>3, <2>2 DEF mayVoteIn, publish
    <3>2. mayPrepare(w, p.value) /\ p.value \in Values
          BY <1>2, <3>1 DEF mayVoteIn, publish
    <3> QED BY <3>1, <3>2, MayPrepareSafe, SafeAtStable
  <2> QED BY <2>1, <2>2
<1>4. ASSUME NEW c \in commitVotes'
      PROVE  VerifyPrepareQC([view |-> c.view, value |-> c.value])'
  <2>1. CASE c \in commitVotes
        BY <1>1, <2>1, VerifyPrepareQCStable DEF VotingInv, LockInv
  <2>2. CASE c \notin commitVotes
    <3>1. c.view = w /\ c.value \in C
          BY <1>4, <2>2 DEF mayVoteIn, publish
    <3>2. VerifyPrepareQC([view |-> c.view, value |-> c.value])
          BY <3>1 DEF mayVoteIn, publish, mayCommit
    <3> QED BY <1>1, <3>2, VerifyPrepareQCStable
  <2> QED BY <2>1, <2>2
<1> DEFINE TimeoutSafe(t) ==
        /\ t.latestPrepareQC # None => VerifyPrepareQC(t.latestPrepareQC)'
        /\ \A v \in Views :
              /\ v.Index = t.view.Index
              /\ RankOpt(t.latestPrepareQC) < v.Number
              /\ v.Number < t.view.Number
              => Skipped(v)'
<1>5. ASSUME NEW t \in timeoutVotes'
      PROVE  TimeoutSafe(t)
  <2>1. CASE t \in timeoutVotes
        BY <1>1, <2>1, VerifyPrepareQCStable, SkippedStable DEF VotingInv, LockInv
  <2>2. CASE t \notin timeoutVotes
    <3> DEFINE q == t.latestPrepareQC
               committed == {d.value : d \in votesIn(commitVotes, n, w)} \cup C
    <3>1. t.view = w /\ q \in T
          BY <1>5, <2>2 DEF mayVoteIn, publish
    <3>2. CASE committed # {}
      <4>1. PICK value \in committed : q = [view |-> w, value |-> value]
            BY <3>1, <3>2 DEF mayVoteIn, publish
      <4>2. PICK c \in commitVotes' : c.view = w /\ c.value = value
            BY CommittedIsVoted
      <4>3. VerifyPrepareQC(q)'
            BY <1>4, <4>1, <4>2
      <4>4. q \in QCs /\ q # None
            BY <1>2, <3>1, <4>1, NoneAssumption DEF VoteOpt, VotingInv, VotingTypeOK,
                  SignedVotes, votesIn, QCs
      <4>5. RankOpt(q) = w.Number
            BY <4>1, <4>4 DEF RankOpt
      <4> QED BY <3>1, <4>3, <4>5, BoundsAssumption DEF Views
    <3>3. CASE committed = {}
      <4>1. mayTimeout(w, q)
            BY <3>1, <3>3 DEF mayVoteIn, publish
      <4>2. CASE w.Number = 0
        <5>1. q = None /\ RankOpt(q) = -1
              BY <4>1, <4>2 DEF mayTimeout, RankOpt
        <5> QED BY <3>1, <4>2, <5>1, BoundsAssumption DEF Views
      <4>3. CASE w.Number # 0
        <5>1. PICK tqc \in TimeoutQCs :
                  /\ isNext(tqc.view, w)
                  /\ q = tqc.latestPrepareQC
                  /\ VerifyTimeoutQC(tqc)
              BY <4>1, <4>3 DEF mayTimeout
        <5>2. tqc.view \in Views
              BY DEF TimeoutQCs
        <5>3. q # None => VerifyPrepareQC(q)'
              BY <1>1, <5>1, VerifyPrepareQCStable DEF VerifyTimeoutQC
        <5>4. ASSUME NEW v \in Views, v.Index = w.Index,
                     RankOpt(q) < v.Number, v.Number < w.Number
              PROVE  Skipped(v)'
          <6>1. v.Index = tqc.view.Index /\ v.Number <= tqc.view.Number
                BY <5>1, <5>2, <5>4, BoundsAssumption DEF isNext, Views
          <6>2. Skipped(v)
                BY <5>1, <5>4, <6>1, TimeoutQCSkips
          <6> QED BY <6>2, SkippedStable
        <5> QED BY <3>1, <5>3, <5>4
      <4> QED BY <4>2, <4>3
    <3> QED BY <3>2, <3>3
  <2> QED BY <2>1, <2>2
<1> QED BY <1>3, <1>4, <1>5 DEF LockInv, RankOpt

LEMMA PublishInv ==
    ASSUME VotingInv, VotingNext
    PROVE  VotingInv'
<1>1. PICK n \in Honest, w \in Views, P \in AtMostOne(Values),
           C \in AtMostOne(Values), T \in AtMostOne(VoteOpt) :
           mayVoteIn(n, w) /\ publish(n, w, P, C, T)
      BY DEF VotingNext
<1>2. VotingTypeOK'
      BY <1>1, PublishTypeOK DEF VotingInv
<1>3. NoDoubleVote'
      BY <1>1, PublishNoDoubleVote DEF VotingInv
<1>4. TimeoutRevealsCommit'
      BY <1>1, <1>3, PublishTimeoutRevealsCommit DEF VotingInv
<1>5. LockInv'
      BY <1>1, PublishLockInv
<1> QED BY <1>2, <1>3, <1>4, <1>5 DEF VotingInv
-----------------------------------------------------------------------------
\* The lock invariant holds in every reachable state: published votes are
\* typed, never doubled, and respect the rules inner.go votes by.
THEOREM VotingInvariant == VotingSpec => []VotingInv
<1>1. VotingInit => VotingInv
      BY DEF VotingInit, VotingInv, VotingTypeOK, NoDoubleVote, TimeoutRevealsCommit,
             LockInv
<1>2. VotingInv /\ [VotingNext]_votes => VotingInv'
  <2> SUFFICES ASSUME VotingInv, [VotingNext]_votes PROVE VotingInv'
      OBVIOUS
  <2>1. CASE VotingNext
        BY <2>1, PublishInv
  <2>2. CASE UNCHANGED votes
        BY <2>2 DEF votes, VotingInv, VotingTypeOK, NoDoubleVote, TimeoutRevealsCommit,
               LockInv, SafeAt, Skipped, VerifyPrepareQC, votesIn
  <2> QED BY <2>1, <2>2
<1> QED BY <1>1, <1>2, PTL DEF VotingSpec

\* No two CommitQCs of one road index are for different contents, for every
\* committee whose quorums meet in an honest replica.
THEOREM VotingAgreement == VotingSpec => []Agreement
<1>1. VotingInv => Agreement
      BY InvImpliesAgreement
<1> QED BY <1>1, VotingInvariant, PTL

-----------------------------------------------------------------------------
(***************************************************************************)
(* The road.                                                               *)
(***************************************************************************)

\* The decided contents of an index, as CommitQCs.
LEMMA DecidedDef ==
    ASSUME NEW i \in 0..MaxIndex, NEW value
    PROVE  value \in decidedRoad[i] <=>
             /\ value \in Values
             /\ \E v \in Views : v.Index = i /\ VerifyCommitQC([view |-> v, value |-> value])
BY DEF decidedRoad

\* A CommitQC stays one, and a new one is of the view that was voted in.
LEMMA CommitQCsOfView ==
    ASSUME NEW n, NEW w, NEW P, NEW C, NEW T, publish(n, w, P, C, T),
           NEW v \in Views, NEW value \in Values
    PROVE  /\ VerifyCommitQC([view |-> v, value |-> value])
                => VerifyCommitQC([view |-> v, value |-> value])'
           /\ v # w /\ VerifyCommitQC([view |-> v, value |-> value])'
                => VerifyCommitQC([view |-> v, value |-> value])
<1>1. commitVotes' = commitVotes \cup {[key |-> n, view |-> w, value |-> x] : x \in C}
      BY DEF publish
<1>2. \A m : v # w => [key |-> m, view |-> v, value |-> value]
                        \notin {[key |-> n, view |-> w, value |-> x] : x \in C}
      OBVIOUS
<1> QED BY <1>1, <1>2 DEF VerifyCommitQC

OneContent == \A i \in 0..MaxIndex : \A a, b \in decidedRoad[i] : a = b

\* An index with a CommitQC has one content, by agreement.
LEMMA DecidedOnce == Agreement => OneContent
<1> SUFFICES ASSUME Agreement, NEW i \in 0..MaxIndex,
                    NEW a \in decidedRoad[i], NEW b \in decidedRoad[i]
             PROVE  a = b
    BY DEF OneContent
<1>1. PICK v \in Views : v.Index = i /\ VerifyCommitQC([view |-> v, value |-> a])
      BY DecidedDef
<1>2. PICK w \in Views : w.Index = i /\ VerifyCommitQC([view |-> w, value |-> b])
      BY DecidedDef
<1>3. a \in Values /\ b \in Values
      BY DecidedDef
<1>4. [view |-> v, value |-> a] \in QCs /\ [view |-> w, value |-> b] \in QCs
      BY <1>3 DEF QCs
<1> QED BY <1>1, <1>2, <1>4 DEF Agreement

\* Votes in a view decide at most its index, and only after the index before.
LEMMA RoadStep ==
    ASSUME VotingNext, Agreement'
    PROVE  [Decisions!Next]_decidedRoad
<1>1. PICK n \in Honest, w \in Views, P \in AtMostOne(Values),
           C \in AtMostOne(Values), T \in AtMostOne(VoteOpt) :
           mayVoteIn(n, w) /\ publish(n, w, P, C, T)
      BY DEF VotingNext
<1> DEFINE i == w.Index
<1>2. i \in 0..MaxIndex
      BY DEF Views
<1>3. /\ decidedRoad = [j \in 0..MaxIndex |-> decidedRoad[j]]
      /\ decidedRoad' = [j \in 0..MaxIndex |-> decidedRoad'[j]]
      BY DEF decidedRoad
<1>4. ASSUME NEW j \in 0..MaxIndex
      PROVE  decidedRoad[j] \subseteq decidedRoad'[j]
      BY <1>1, CommitQCsOfView DEF decidedRoad
<1>5. ASSUME NEW j \in 0..MaxIndex, j # i
      PROVE  decidedRoad'[j] = decidedRoad[j]
      BY <1>1, <1>5, CommitQCsOfView DEF decidedRoad
<1>6. CASE decidedRoad'[i] = decidedRoad[i]
      BY <1>3, <1>5, <1>6
<1>7. CASE decidedRoad'[i] # decidedRoad[i]
  <2>1. PICK value \in decidedRoad'[i] : value \notin decidedRoad[i]
        BY <1>2, <1>4, <1>7
  <2>2. value \in Values
        BY <1>2, <2>1 DEF decidedRoad
  <2>3. \A b \in decidedRoad'[i] : b = value
    <3>1. OneContent'
          BY DecidedOnce, PTL
    <3> QED BY <1>2, <2>1, <3>1 DEF OneContent
  <2>4. decidedRoad[i] = {} /\ decidedRoad'[i] = {value}
        BY <1>2, <1>4, <2>1, <2>3
  <2>5. i > 0 => decidedRoad[i - 1] # {}
    <3> SUFFICES ASSUME i > 0 PROVE decidedRoad[i - 1] # {}
        OBVIOUS
    <3>1. PICK qc \in QCs : qc.view.Index = i - 1 /\ VerifyCommitQC(qc)
          BY <1>1 DEF mayVoteIn, mayEnter
    <3>2. qc = [view |-> qc.view, value |-> qc.value] /\ qc.view \in Views /\ qc.value \in Values
          BY DEF QCs
    <3>3. i - 1 \in 0..MaxIndex
          BY <1>2, BoundsAssumption
    <3> QED BY <3>1, <3>2, <3>3, DecidedDef
  <2>6. decidedRoad' = [decidedRoad EXCEPT ![i] = {value}]
        BY <1>2, <1>3, <1>5, <2>4
  <2>7. Decisions!decide(i, value)
        BY <2>4, <2>5, <2>6 DEF Decisions!decide
  <2> QED BY <1>2, <2>2, <2>7 DEF Decisions!Next
<1> QED BY <1>6, <1>7

\* The votes that replicas may sign decide the indices of the road in order,
\* each for one content that never changes, for every committee whose quorums
\* meet in an honest replica and every number of indices and views.
THEOREM VotingImplementsRoad == VotingSpec => RoadSpec
<1>1. VotingInit => Decisions!Init
  <2> SUFFICES ASSUME VotingInit PROVE decidedRoad = [j \in 0..MaxIndex |-> {}]
      BY DEF Decisions!Init
  <2>1. ASSUME NEW qc PROVE ~VerifyCommitQC(qc)
        BY QuorumAssumption DEF VotingInit, VerifyCommitQC
  <2> QED BY <2>1 DEF decidedRoad
<1>2. Agreement' /\ [VotingNext]_votes => [Decisions!Next]_decidedRoad
  <2> SUFFICES ASSUME Agreement', [VotingNext]_votes PROVE [Decisions!Next]_decidedRoad
      OBVIOUS
  <2>1. CASE VotingNext
        BY <2>1, RoadStep
  <2>2. CASE UNCHANGED votes
        BY <2>2 DEF votes, decidedRoad, VerifyCommitQC
  <2> QED BY <2>1, <2>2
<1> QED BY <1>1, <1>2, VotingAgreement, PTL DEF VotingSpec, RoadSpec, Decisions!Spec
=============================================================================
