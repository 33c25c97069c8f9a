--------------------------- MODULE ReplicaProofs ---------------------------
(***************************************************************************)
(* Proof that the replicas of AutobahnConsensus, with their disks and      *)
(* crashes, implement the vote rules of AutobahnVoting, and with them      *)
(* agreement and the road.                                                 *)
(***************************************************************************)
EXTENDS AutobahnConsensus, AutobahnVotingProofs

-----------------------------------------------------------------------------
(* Views.                                                                  *)

NatViews == [Index : Nat, Number : Nat]

ViewSpecs == [CommitQC : VoteOpt, TimeoutQC : TimeoutQCOpt]

LEMMA ViewsAreNat == Views \subseteq NatViews
BY BoundsAssumption DEF Views, NatViews

LEMMA LessTransitive ==
    ASSUME NEW u \in NatViews, NEW v \in NatViews, NEW w \in NatViews,
           Less(u, v), Less(v, w)
    PROVE  Less(u, w)
BY DEF NatViews, Less

LEMMA LessIrreflexive ==
    ASSUME NEW v \in NatViews
    PROVE  ~Less(v, v)
BY DEF NatViews, Less

LEMMA LessTotal ==
    ASSUME NEW v \in NatViews, NEW w \in NatViews
    PROVE  v = w \/ Less(v, w) \/ Less(w, v)
BY DEF NatViews, Less

\* The fields of an option that is not None.
LEMMA OptFields ==
    /\ \A q \in VoteOpt : q # None =>
          /\ q \in QCs /\ q.view \in Views /\ q.value \in Values
          /\ q = [view |-> q.view, value |-> q.value]
    /\ \A q \in TimeoutQCOpt : q # None =>
          /\ q \in TimeoutQCs /\ q.view \in Views /\ q.latestPrepareQC \in VoteOpt
          /\ q = [view |-> q.view, latestPrepareQC |-> q.latestPrepareQC]
BY DEF VoteOpt, QCs, TimeoutQCOpt, TimeoutQCs

\* View depends on the view spec only.
LEMMA ViewOfSpec ==
    ASSUME NEW i, NEW j, i.CommitQC = j.CommitQC, i.TimeoutQC = j.TimeoutQC
    PROVE  View(i) = View(j)
BY DEF View

LEMMA ViewIsNat ==
    ASSUME NEW i, i.CommitQC \in VoteOpt, i.TimeoutQC \in TimeoutQCOpt
    PROVE  View(i) \in NatViews
<1>1. NextIndexOpt(i.CommitQC) \in Nat
      BY OptFields, ViewsAreNat DEF NextIndexOpt, NatViews
<1>2. i.TimeoutQC # None => i.TimeoutQC.view.Number + 1 \in Nat
      BY OptFields, ViewsAreNat DEF NatViews
<1> QED BY <1>1, <1>2 DEF View, NatViews

\* The number of a view is that of the TimeoutQC, which is of its index.
LEMMA ViewNumber ==
    ASSUME NEW i, i.CommitQC \in VoteOpt, i.TimeoutQC \in TimeoutQCOpt,
           i.TimeoutQC # None => i.TimeoutQC.view.Index = NextIndexOpt(i.CommitQC)
    PROVE  /\ View(i).Index = NextIndexOpt(i.CommitQC)
           /\ i.TimeoutQC = None => View(i).Number = 0
           /\ i.TimeoutQC # None => isNext(i.TimeoutQC.view, View(i)) /\ View(i).Number > 0
<1>1. i.TimeoutQC # None => i.TimeoutQC.view.Number \in Nat
      BY OptFields, ViewsAreNat DEF NatViews
<1> QED BY <1>1 DEF View, isNext

LEMMA InnersViewSpec ==
    ASSUME NEW i \in Inners
    PROVE  /\ i.CommitQC \in VoteOpt /\ i.TimeoutQC \in TimeoutQCOpt
           /\ View(i) \in NatViews
           /\ ViewSpec(i) \in ViewSpecs
           /\ View(ViewSpec(i)) = View(i)
<1>1. i.CommitQC \in VoteOpt /\ i.TimeoutQC \in TimeoutQCOpt
      BY DEF Inners
<1>2. View(i) \in NatViews
      BY <1>1, ViewIsNat
<1>3. ViewSpec(i) \in ViewSpecs /\ View(ViewSpec(i)) = View(i)
      BY <1>1 DEF ViewSpec, ViewSpecs, View
<1> QED BY <1>1, <1>2, <1>3
-----------------------------------------------------------------------------
(* Continues is an order on inners.                                        *)

LEMMA SameViewSpec ==
    ASSUME NEW i, NEW j, ViewSpec(i) = ViewSpec(j)
    PROVE  i.CommitQC = j.CommitQC /\ i.TimeoutQC = j.TimeoutQC /\ View(i) = View(j)
<1>1. i.CommitQC = j.CommitQC /\ i.TimeoutQC = j.TimeoutQC
      BY DEF ViewSpec
<1> QED BY <1>1, ViewOfSpec

LEMMA ContinuesReflexive == \A i : Continues(i, i)
BY DEF Continues

LEMMA ContinuesTransitive ==
    ASSUME NEW i \in Inners, NEW j \in Inners, NEW k \in Inners,
           Continues(i, j), Continues(j, k)
    PROVE  Continues(i, k)
<1>1. View(i) \in NatViews /\ View(j) \in NatViews /\ View(k) \in NatViews
      BY InnersViewSpec
<1>2. CASE Less(View(i), View(j)) /\ Less(View(j), View(k))
      BY <1>1, <1>2, LessTransitive DEF Continues
<1>3. CASE Less(View(i), View(j)) /\ ViewSpec(j) = ViewSpec(k)
      BY <1>3, SameViewSpec DEF Continues
<1>4. CASE ViewSpec(i) = ViewSpec(j) /\ Less(View(j), View(k))
      BY <1>4, SameViewSpec DEF Continues
<1>5. CASE /\ ~Less(View(i), View(j)) /\ ViewSpec(i) = ViewSpec(j)
           /\ ~Less(View(j), View(k)) /\ ViewSpec(j) = ViewSpec(k)
      BY <1>5 DEF Continues
<1> QED BY <1>2, <1>3, <1>4, <1>5 DEF Continues

LEMMA ContinuesView ==
    ASSUME NEW i \in Inners, NEW j \in Inners, Continues(i, j)
    PROVE  LessEq(View(i), View(j)) /\ (View(i) = View(j) => ViewSpec(i) = ViewSpec(j))
<1>1. View(i) \in NatViews /\ ~Less(View(i), View(i))
      BY InnersViewSpec, LessIrreflexive
<1>2. CASE Less(View(i), View(j))
      BY <1>1, <1>2 DEF LessEq
<1>3. CASE ViewSpec(i) = ViewSpec(j)
      BY <1>3, SameViewSpec DEF LessEq
<1> QED BY <1>2, <1>3 DEF Continues
-----------------------------------------------------------------------------
(* Published votes are never taken back: what was verified stays so.       *)

VotesGrow ==
    /\ prepareVotes \subseteq prepareVotes'
    /\ commitVotes \subseteq commitVotes'
    /\ timeoutVotes \subseteq timeoutVotes'

LEMMA CertificatesStable ==
    ASSUME VotesGrow, NEW qc
    PROVE  /\ VerifyPrepareQC(qc) => VerifyPrepareQC(qc)'
           /\ VerifyCommitQC(qc) => VerifyCommitQC(qc)'
           /\ VerifyTimeoutQC(qc) => VerifyTimeoutQC(qc)'
<1>1. VerifyPrepareQC(qc) => VerifyPrepareQC(qc)'
      BY DEF VotesGrow, VerifyPrepareQC
<1>2. VerifyCommitQC(qc) => VerifyCommitQC(qc)'
      BY DEF VotesGrow, VerifyCommitQC
<1>3. VerifyPrepareQC(qc.latestPrepareQC) => VerifyPrepareQC(qc.latestPrepareQC)'
      BY DEF VotesGrow, VerifyPrepareQC
<1>4. VerifyTimeoutQC(qc) => VerifyTimeoutQC(qc)'
  <2> SUFFICES ASSUME VerifyTimeoutQC(qc) PROVE VerifyTimeoutQC(qc)'
      OBVIOUS
  <2>1. PICK Q \in Quorums :
        /\ \A n \in Q \ Faulty : \E v \in timeoutVotes :
               /\ v.key = n
               /\ v.view = qc.view
               /\ RankOpt(v.latestPrepareQC) <= RankOpt(qc.latestPrepareQC)
        /\ qc.latestPrepareQC # None =>
               /\ VerifyPrepareQC(qc.latestPrepareQC)
               /\ qc.latestPrepareQC.view.Index = qc.view.Index
               /\ \/ Q \cap Faulty # {}
                  \/ \E v \in timeoutVotes :
                        /\ v.key \in Q
                        /\ v.view = qc.view
                        /\ RankOpt(v.latestPrepareQC) = RankOpt(qc.latestPrepareQC)
        BY DEF VerifyTimeoutQC
  <2> QED BY <1>3, <2>1 DEF VerifyTimeoutQC, VotesGrow
<1> QED BY <1>1, <1>2, <1>4

LEMMA RulesStable ==
    ASSUME VotesGrow, NEW w, NEW x
    PROVE  /\ mayPrepare(w, x) => mayPrepare(w, x)'
           /\ mayTimeout(w, x) => mayTimeout(w, x)'
BY CertificatesStable DEF mayPrepare, mayTimeout

LEMMA JustifiedStable ==
    ASSUME VotesGrow, NEW i, Justified(i)
    PROVE  Justified(i)'
<1>1. Validate(i)'
      BY CertificatesStable DEF Justified, Validate
<1> QED BY <1>1, RulesStable DEF Justified
-----------------------------------------------------------------------------
(* The handlers make a justified inner that continues the one before.      *)

\* The inner of a view nothing was done in yet.
LEMMA FreshInner ==
    ASSUME NEW j \in Inners,
           j.CommitQC # None => VerifyCommitQC(j.CommitQC),
           j.TimeoutQC # None =>
              j.TimeoutQC.view.Index = NextIndexOpt(j.CommitQC) /\ VerifyTimeoutQC(j.TimeoutQC),
           j.PrepareQC = None, j.PrepareVote = None, j.CommitVote = None, j.TimeoutVote = None
    PROVE  Justified(j)
BY DEF Justified, Validate

LEMMA PushCommitQC ==
    ASSUME NEW i \in Inners, NEW qc \in QCs, qc.view.Index >= View(i).Index,
           VerifyCommitQC(qc)
    PROVE  LET j == [emptyInner EXCEPT !.CommitQC = qc]
           IN  Justified(j) /\ Continues(i, j)
<1> DEFINE j == [emptyInner EXCEPT !.CommitQC = qc]
<1>1. /\ j.CommitQC = qc /\ j.TimeoutQC = None /\ j.PrepareQC = None
      /\ j.PrepareVote = None /\ j.CommitVote = None /\ j.TimeoutVote = None
      BY DEF emptyInner
<1>2. j \in Inners
      BY DEF emptyInner, Inners, VoteOpt, TimeoutQCOpt
<1>3. Justified(j)
      BY <1>1, <1>2, FreshInner, Zenon
<1>4. qc # None /\ qc.view.Index \in Nat /\ View(i).Index \in Nat
      BY NoneAssumption, InnersViewSpec, ViewsAreNat DEF QCs, NatViews
<1>5. View(j).Index = qc.view.Index + 1
      BY <1>1, <1>4 DEF View, NextIndexOpt
<1>6. Less(View(i), View(j))
      BY <1>4, <1>5 DEF Less
<1> QED BY <1>3, <1>6 DEF Continues

LEMMA PushTimeoutQC ==
    ASSUME NEW i, Justified(i), NEW qc \in TimeoutQCs, View(i).Index >= qc.view.Index,
           ~Less(qc.view, View(i)), VerifyTimeoutQC(qc)
    PROVE  LET j == [emptyInner EXCEPT !.CommitQC = i.CommitQC, !.TimeoutQC = qc]
           IN  Justified(j) /\ Continues(i, j)
<1> DEFINE j == [emptyInner EXCEPT !.CommitQC = i.CommitQC, !.TimeoutQC = qc]
<1>1. i \in Inners /\ i.CommitQC \in VoteOpt /\ View(i) \in NatViews
      BY InnersViewSpec DEF Justified
<1>2. qc \in TimeoutQCOpt /\ qc # None /\ qc.view \in NatViews
      BY NoneAssumption, ViewsAreNat DEF TimeoutQCOpt, TimeoutQCs
<1>3. View(i).Index = NextIndexOpt(i.CommitQC)
      BY DEF View
<1>4. qc.view.Index = View(i).Index /\ qc.view.Number >= View(i).Number
      BY <1>1, <1>2 DEF Less, NatViews
<1>5. /\ j.CommitQC = i.CommitQC /\ j.TimeoutQC = qc /\ j.PrepareQC = None
      /\ j.PrepareVote = None /\ j.CommitVote = None /\ j.TimeoutVote = None
      BY DEF emptyInner
<1>6. j \in Inners
      BY <1>1, <1>2, Zenon DEF emptyInner, Inners, VoteOpt, TimeoutQCOpt
<1>7. Justified(j)
      BY <1>1, <1>3, <1>4, <1>5, <1>6, FreshInner DEF Justified, Validate
<1>8. View(j) = [Index |-> View(i).Index, Number |-> qc.view.Number + 1]
      BY <1>2, <1>3, <1>4, <1>5 DEF View
<1>9. Less(View(i), View(j))
      BY <1>1, <1>2, <1>4, <1>8 DEF Less, NatViews
<1> QED BY <1>7, <1>9 DEF Continues

LEMMA PushProposal ==
    ASSUME NEW i, Justified(i), i.TimeoutVote = None, i.PrepareVote = None,
           NEW p \in Proposals, View(i) = p.view, VerifyProposal(p, ViewSpec(i))
    PROVE  LET j == [i EXCEPT !.PrepareVote = [view |-> p.view, value |-> p.value]]
           IN  Justified(j) /\ Continues(i, j)
<1> DEFINE vote == [view |-> p.view, value |-> p.value]
           j == [i EXCEPT !.PrepareVote = vote]
<1>1. i \in Inners /\ Validate(i)
      BY DEF Justified
<1>2. vote \in VoteOpt
      BY DEF VoteOpt, QCs, Proposals
<1>3. /\ j.CommitQC = i.CommitQC /\ j.TimeoutQC = i.TimeoutQC /\ j.PrepareQC = i.PrepareQC
      /\ j.PrepareVote = vote /\ j.CommitVote = i.CommitVote
      /\ j.TimeoutVote = i.TimeoutVote /\ j \in Inners
      BY <1>1, <1>2 DEF Inners
<1>4. View(j) = View(i)
      BY <1>3, ViewOfSpec, Zenon
<1>5. Validate(j)
      BY <1>1, <1>3, <1>4 DEF Validate
<1>6. mayPrepare(View(j), vote.value)
  <2> SUFFICES ASSUME View(i).Number > 0 PROVE
          \E tqc \in TimeoutQCs :
            /\ isNext(tqc.view, View(i))
            /\ VerifyTimeoutQC(tqc)
            /\ tqc.latestPrepareQC # None => p.value = tqc.latestPrepareQC.value
      BY <1>4 DEF mayPrepare
  <2>1. i.TimeoutQC # None => i.TimeoutQC.view.Index = NextIndexOpt(i.CommitQC)
        BY <1>1 DEF Validate
  <2>2. i.TimeoutQC # None /\ isNext(i.TimeoutQC.view, View(i))
        BY <1>1, <2>1, InnersViewSpec, ViewNumber
  <2>3. ViewSpec(i).TimeoutQC = i.TimeoutQC
        BY DEF ViewSpec
  <2>4. p.timeoutQC # None /\ p.timeoutQC \in TimeoutQCs
        BY <2>2, <2>3 DEF VerifyProposal, Proposals, TimeoutQCOpt
  <2>5. /\ p.timeoutQC.view = i.TimeoutQC.view
        /\ VerifyTimeoutQC(p.timeoutQC)
        /\ p.timeoutQC.latestPrepareQC # None => p.value = p.timeoutQC.latestPrepareQC.value
        BY <2>3, <2>4 DEF VerifyProposal
  <2> QED BY <2>2, <2>4, <2>5
<1>7. Justified(j)
      BY <1>3, <1>4, <1>5, <1>6 DEF Justified
<1>8. Continues(i, j)
      BY <1>3 DEF Continues, ViewSpec
<1> QED BY <1>7, <1>8

LEMMA PushPrepareQC ==
    ASSUME NEW i, Justified(i), i.TimeoutVote = None, i.PrepareQC = None,
           NEW qc \in QCs, View(i) = qc.view, VerifyPrepareQC(qc)
    PROVE  LET j == [i EXCEPT !.PrepareQC = qc, !.CommitVote = qc]
           IN  Justified(j) /\ Continues(i, j)
<1> DEFINE j == [i EXCEPT !.PrepareQC = qc, !.CommitVote = qc]
<1>1. i \in Inners /\ Validate(i) /\ i.CommitVote = None
      BY DEF Justified
<1>2. qc \in VoteOpt
      BY DEF VoteOpt
<1>3. /\ j.CommitQC = i.CommitQC /\ j.TimeoutQC = i.TimeoutQC /\ j.PrepareQC = qc
      /\ j.PrepareVote = i.PrepareVote /\ j.CommitVote = qc
      /\ j.TimeoutVote = None /\ j \in Inners
      BY <1>1, <1>2, Zenon DEF Inners
<1>4. View(j) = View(i)
      BY <1>3, ViewOfSpec, Zenon
<1>5. Validate(j)
      BY <1>1, <1>3, <1>4 DEF Validate
<1>6. Justified(j)
      BY <1>3, <1>4, <1>5 DEF Justified
<1>7. Continues(i, j)
      BY <1>1, <1>3 DEF Continues, ViewSpec
<1> QED BY <1>6, <1>7

\* The PrepareQC that a timeout vote passes on.
inherited(i) ==
    IF i.TimeoutQC # None /\ i.PrepareQC = None
    THEN i.TimeoutQC.latestPrepareQC
    ELSE i.PrepareQC

LEMMA InheritedQC ==
    ASSUME NEW i, Justified(i)
    PROVE  /\ inherited(i) \in VoteOpt
           /\ inherited(i) # None =>
                 inherited(i).view.Index = View(i).Index /\ VerifyPrepareQC(inherited(i))
           /\ i.CommitVote # None => inherited(i) = i.CommitVote
           /\ i.CommitVote = None => mayTimeout(View(i), inherited(i))
<1>1. /\ i \in Inners /\ Validate(i) /\ i.CommitVote = i.PrepareQC
      /\ i.CommitQC \in VoteOpt /\ i.TimeoutQC \in TimeoutQCOpt /\ i.PrepareQC \in VoteOpt
      BY DEF Justified, Inners
<1>2. i.TimeoutQC # None => i.TimeoutQC.view.Index = NextIndexOpt(i.CommitQC)
      BY <1>1 DEF Validate
<1>3. /\ View(i).Index = NextIndexOpt(i.CommitQC)
      /\ i.TimeoutQC = None => View(i).Number = 0
      /\ i.TimeoutQC # None => isNext(i.TimeoutQC.view, View(i)) /\ View(i).Number > 0
      BY <1>1, <1>2, ViewNumber
<1>4. CASE i.PrepareQC # None
  <2>1. inherited(i) = i.PrepareQC
        BY <1>4 DEF inherited
  <2>2. i.PrepareQC.view = View(i) /\ VerifyPrepareQC(i.PrepareQC)
        BY <1>1, <1>4 DEF Validate
  <2> QED BY <1>1, <1>4, <2>1, <2>2
<1>5. CASE i.PrepareQC = None /\ i.TimeoutQC = None
  <2>1. inherited(i) = None
        BY <1>5 DEF inherited
  <2>2. mayTimeout(View(i), None)
        BY <1>3, <1>5 DEF mayTimeout
  <2> QED BY <1>1, <1>5, <2>1, <2>2
<1>6. CASE i.PrepareQC = None /\ i.TimeoutQC # None
  <2> DEFINE tqc == i.TimeoutQC
  <2>1. inherited(i) = tqc.latestPrepareQC
        BY <1>6 DEF inherited
  <2>2. tqc \in TimeoutQCs /\ tqc.latestPrepareQC \in VoteOpt
        BY <1>1, <1>6, OptFields
  <2>3. VerifyTimeoutQC(tqc) /\ tqc.view.Index = View(i).Index
        BY <1>1, <1>3, <1>6 DEF Validate
  <2>4. tqc.latestPrepareQC # None =>
           tqc.latestPrepareQC.view.Index = View(i).Index /\ VerifyPrepareQC(tqc.latestPrepareQC)
        BY <2>3 DEF VerifyTimeoutQC
  <2>5. View(i).Number # 0
        BY <1>3, <1>6
  <2>6. mayTimeout(View(i), tqc.latestPrepareQC)
        BY <1>3, <1>6, <2>2, <2>3, <2>5 DEF mayTimeout
  <2> QED BY <1>1, <1>6, <2>1, <2>2, <2>4, <2>6
<1> QED BY <1>4, <1>5, <1>6

LEMMA VoteTimeout ==
    ASSUME NEW i, Justified(i), i.TimeoutVote = None,
           View(i).Index <= MaxIndex, View(i).Number < MaxNumber
    PROVE  LET j == [i EXCEPT !.TimeoutVote =
                        [view |-> View(i), latestPrepareQC |-> inherited(i)]]
           IN  Justified(j) /\ Continues(i, j)
<1> DEFINE vote == [view |-> View(i), latestPrepareQC |-> inherited(i)]
           j == [i EXCEPT !.TimeoutVote = vote]
<1>1. i \in Inners /\ Validate(i) /\ i.CommitVote = i.PrepareQC /\ View(i) \in NatViews
      BY InnersViewSpec DEF Justified
<1>2. View(i) \in Views
      BY <1>1, BoundsAssumption DEF NatViews, Views
<1>3. vote \in TimeoutQCs
      BY <1>2, InheritedQC DEF TimeoutQCs
<1>4. /\ j.CommitQC = i.CommitQC /\ j.TimeoutQC = i.TimeoutQC /\ j.PrepareQC = i.PrepareQC
      /\ j.PrepareVote = i.PrepareVote /\ j.CommitVote = i.CommitVote
      /\ j.TimeoutVote = vote /\ j \in Inners
      BY <1>1, <1>3 DEF Inners, TimeoutQCOpt
<1>5. View(j) = View(i)
      BY <1>4, ViewOfSpec, Zenon
<1>6. vote.view = View(i) /\ vote.latestPrepareQC = inherited(i)
      OBVIOUS
<1>7. Validate(j)
      BY <1>1, <1>4, <1>5, <1>6, InheritedQC DEF Validate
<1>8. Justified(j)
      BY <1>4, <1>5, <1>6, <1>7, InheritedQC DEF Justified
<1>9. Continues(i, j)
      BY <1>4 DEF Continues, ViewSpec
<1> QED BY <1>8, <1>9
-----------------------------------------------------------------------------
(* Every step keeps the replicas in step with the votes.                   *)

\* A replica none of whose state changed stays in step while others vote.
LEMMA OthersInStep ==
    ASSUME NEW m \in Honest, inStep(m), UNCHANGED votes,
           inner'[m] = inner[m], disk'[m] = disk[m], current'[m] = current[m],
           outputs'[m] = outputs[m], myVotes'[m] = myVotes[m]
    PROVE  inStep(m)'
<1>1. VotesGrow
      BY DEF votes, VotesGrow
<1>2. /\ Justified(inner[m]) /\ Justified(disk[m]) /\ Continues(disk[m], inner[m])
      /\ outputs[m] = "persist" =>
            /\ Justified(current[m])
            /\ Continues(disk[m], current[m]) /\ Continues(current[m], inner[m])
      /\ recorded(m, disk[m]) /\ remembered(m, myVotes[m])
      BY DEF inStep
<1>3. Justified(inner[m])' /\ Justified(disk[m])'
      BY <1>1, <1>2, JustifiedStable
<1>4. outputs'[m] = "persist" => Justified(current[m])'
      BY <1>1, <1>2, JustifiedStable
<1>5. recorded(m, disk[m])'
      BY <1>2 DEF recorded, votes
<1>6. remembered(m, myVotes[m])'
      BY <1>2 DEF remembered, votes
<1> QED BY <1>2, <1>3, <1>4, <1>5, <1>6 DEF inStep

\* Handlers.
LEMMA StoreInv ==
    ASSUME ReplicaInv, NEW n \in Honest, NEW j, store(n, j),
           Justified(j), Continues(inner[n], j)
    PROVE  ReplicaInv'
<1>1. /\ inner' = [inner EXCEPT ![n] = j]
      /\ UNCHANGED <<disk, myView, myVotes, outputs, current>> /\ UNCHANGED votes
      BY DEF store, process, network
<1>2. TypeOK /\ MyViewTrailsInner /\ \A m \in Honest : inStep(m)
      BY DEF ReplicaInv
<1>3. inner \in [Honest -> Inners] /\ inner[n] \in Inners /\ j \in Inners
      BY <1>2 DEF TypeOK, Justified
<1>4. inner'[n] = j /\ \A m \in Honest : m # n => inner'[m] = inner[m]
      BY <1>1, <1>3
<1>5. TypeOK'
      BY <1>1, <1>2, <1>3 DEF TypeOK, VotingTypeOK, votes
<1>6. MyViewTrailsInner'
  <2>1. /\ LessEq(View(myView[n]), View(inner[n]))
        /\ View(myView[n]) = View(inner[n]) => myView[n] = ViewSpec(inner[n])
        BY <1>2 DEF MyViewTrailsInner
  <2>2. View(myView[n]) \in NatViews /\ View(inner[n]) \in NatViews /\ View(j) \in NatViews
        BY <1>2, <1>3, InnersViewSpec, ViewIsNat DEF TypeOK
  <2>3. LessEq(View(inner[n]), View(j)) /\ (View(inner[n]) = View(j) => ViewSpec(inner[n]) = ViewSpec(j))
        BY <1>3, ContinuesView
  <2>4. LessEq(View(myView[n]), View(j))
        BY <2>1, <2>2, <2>3, LessTransitive DEF LessEq
  <2>5. ASSUME View(myView[n]) = View(j) PROVE myView[n] = ViewSpec(j)
        BY <2>1, <2>2, <2>3, <2>5, LessTransitive, LessIrreflexive DEF LessEq
  <2> QED BY <1>1, <1>2, <1>4, <2>4, <2>5 DEF MyViewTrailsInner
<1>7. inStep(n)'
  <2>1. VotesGrow
        BY <1>1 DEF votes, VotesGrow
  <2>2. /\ Justified(disk[n]) /\ Continues(disk[n], inner[n]) /\ disk[n] \in Inners
        /\ outputs[n] = "persist" =>
              /\ Justified(current[n]) /\ current[n] \in Inners
              /\ Continues(disk[n], current[n]) /\ Continues(current[n], inner[n])
        /\ recorded(n, disk[n]) /\ remembered(n, myVotes[n])
    <3>1. inStep(n)
          BY <1>2
    <3>2. /\ Justified(disk[n]) /\ Continues(disk[n], inner[n])
          /\ outputs[n] = "persist" =>
                /\ Justified(current[n])
                /\ Continues(disk[n], current[n]) /\ Continues(current[n], inner[n])
          /\ recorded(n, disk[n]) /\ remembered(n, myVotes[n])
          BY ONLY <3>1 DEF inStep
    <3>3. \A x : Justified(x) => x \in Inners
          BY ONLY TRUE DEF Justified
    <3> QED BY ONLY <3>2, <3>3
  <2>3. Justified(inner[n])' /\ Justified(disk[n])'
        BY <1>1, <1>4, <2>1, <2>2, JustifiedStable
  <2>4. Continues(disk[n], inner[n])'
        BY <1>1, <1>3, <1>4, <2>2, ContinuesTransitive
  <2>5. ASSUME outputs'[n] = "persist"
        PROVE  (Justified(current[n]) /\ Continues(disk[n], current[n]) /\ Continues(current[n], inner[n]))'
    <3>1. outputs[n] = "persist"
          BY <1>1, <2>5
    <3>2. Continues(current[n], j)
          BY <1>3, <2>2, <3>1, ContinuesTransitive
    <3>3. Justified(current[n])'
          BY <1>1, <2>1, <2>2, <3>1, JustifiedStable
    <3> QED BY <1>1, <1>4, <2>2, <3>1, <3>2, <3>3
  <2>6. recorded(n, disk[n])' /\ remembered(n, myVotes[n])'
        BY <1>1, <2>2 DEF recorded, remembered, votes
  <2> QED BY <2>3, <2>4, <2>5, <2>6 DEF inStep
<1>8. ASSUME NEW m \in Honest, m # n PROVE inStep(m)'
      BY <1>1, <1>2, <1>4, <1>8, OthersInStep
<1> QED BY <1>5, <1>6, <1>7, <1>8 DEF ReplicaInv

\* runPropose changes nothing that the invariant is about.
LEMMA ProposeInv ==
    ASSUME ReplicaInv, UNCHANGED <<inner, disk, myView, myVotes, outputs, current>>,
           UNCHANGED votes
    PROVE  ReplicaInv'
<1>1. TypeOK'
      BY DEF ReplicaInv, TypeOK, VotingTypeOK, votes
<1>2. MyViewTrailsInner'
      BY DEF ReplicaInv, MyViewTrailsInner
<1>3. ASSUME NEW m \in Honest PROVE inStep(m)'
      BY OthersInStep DEF ReplicaInv
<1> QED BY <1>1, <1>2, <1>3 DEF ReplicaInv

LEMMA OutputsViewInv ==
    ASSUME ReplicaInv, NEW n \in Honest, runOutputsView(n)
    PROVE  ReplicaInv'
<1> DEFINE spec == IF Less(View(myView[n]), View(inner[n])) THEN ViewSpec(inner[n])
                   ELSE myView[n]
<1>1. /\ myView' = [myView EXCEPT ![n] = spec]
      /\ current' = [current EXCEPT ![n] = inner[n]]
      /\ outputs' = [outputs EXCEPT ![n] = "persist"]
      /\ UNCHANGED <<inner, disk, myVotes>> /\ UNCHANGED votes
      BY DEF runOutputsView, network, ReplicaInv, TypeOK
<1>2. TypeOK /\ MyViewTrailsInner /\ \A m \in Honest : inStep(m)
      BY DEF ReplicaInv
<1>3. inner[n] \in Inners /\ ViewSpec(inner[n]) \in ViewSpecs /\ View(ViewSpec(inner[n])) = View(inner[n])
      BY <1>2, InnersViewSpec DEF TypeOK
<1>4. spec \in [CommitQC : VoteOpt, TimeoutQC : TimeoutQCOpt]
      BY <1>2, <1>3 DEF TypeOK, ViewSpecs
<1>5. TypeOK'
      BY <1>1, <1>2, <1>3, <1>4 DEF TypeOK, VotingTypeOK, votes
<1>6. spec = ViewSpec(inner[n])
      BY <1>2 DEF MyViewTrailsInner, LessEq
<1>7. /\ myView'[n] = spec /\ current'[n] = inner[n] /\ outputs'[n] = "persist"
      /\ \A m \in Honest : m # n =>
            myView'[m] = myView[m] /\ current'[m] = current[m] /\ outputs'[m] = outputs[m]
      BY <1>1, <1>2 DEF TypeOK
<1>8. MyViewTrailsInner'
      BY <1>1, <1>2, <1>3, <1>6, <1>7 DEF MyViewTrailsInner, LessEq
<1>9. inStep(n)'
  <2>1. VotesGrow
        BY <1>1 DEF votes, VotesGrow
  <2>2. Justified(inner[n])' /\ Justified(disk[n])' /\ Justified(current[n])'
        BY <1>1, <1>2, <1>7, <2>1, JustifiedStable DEF inStep
  <2>3. (Continues(disk[n], inner[n]) /\ Continues(disk[n], current[n]) /\ Continues(current[n], inner[n]))'
        BY <1>1, <1>2, <1>7, ContinuesReflexive DEF inStep
  <2>4. recorded(n, disk[n])' /\ remembered(n, myVotes[n])'
    <3>1. inStep(n)
          BY <1>2
    <3>2. recorded(n, disk[n]) /\ remembered(n, myVotes[n])
          BY ONLY <3>1 DEF inStep
    <3>3. recorded(n, disk[n])'
          BY <1>1, <3>2 DEF recorded, votes
    <3>4. remembered(n, myVotes[n])'
          BY <1>1, <3>2 DEF remembered, votes
    <3> QED BY <3>3, <3>4
  <2> QED BY <2>2, <2>3, <2>4 DEF inStep
<1>10. ASSUME NEW m \in Honest, m # n PROVE inStep(m)'
       BY <1>1, <1>2, <1>7, <1>10, OthersInStep
<1> QED BY <1>5, <1>8, <1>9, <1>10 DEF ReplicaInv

\* What was published is still recorded in a later state.
LEMMA RecordedContinues ==
    ASSUME VotingTypeOK, NEW n, NEW d, NEW e, Justified(d), e \in Inners,
           Continues(d, e), recorded(n, d)
    PROVE  recorded(n, e)
<1>1. View(d) \in NatViews /\ View(e) \in NatViews
      BY InnersViewSpec DEF Justified
<1>2. /\ \A v \in prepareVotes : v.view \in NatViews
      /\ \A v \in commitVotes : v.view \in NatViews
      /\ \A v \in timeoutVotes : v.view \in NatViews
      BY ViewsAreNat DEF VotingTypeOK, SignedVotes, SignedTimeoutVotes
<1>3. /\ d.PrepareVote # None => d.PrepareVote.view = View(d)
      /\ d.CommitVote # None => d.CommitVote.view = View(d)
      /\ d.TimeoutVote # None => d.TimeoutVote.view = View(d)
      BY DEF Justified, Validate
<1>4. /\ \A v \in prepareVotes : [view |-> v.view, value |-> v.value] # None
      /\ \A v \in commitVotes : [view |-> v.view, value |-> v.value] # None
      /\ \A v \in timeoutVotes : [view |-> v.view, latestPrepareQC |-> v.latestPrepareQC] # None
      BY NoneAssumption
      DEF VotingTypeOK, SignedVotes, SignedTimeoutVotes, QCs, TimeoutQCs
<1>5. /\ \A v \in prepareVotes : v.key = n =>
            Less(v.view, View(d)) \/ d.PrepareVote = [view |-> v.view, value |-> v.value]
      /\ \A v \in commitVotes : v.key = n =>
            Less(v.view, View(d)) \/ d.CommitVote = [view |-> v.view, value |-> v.value]
      /\ \A v \in timeoutVotes : v.key = n =>
            \/ Less(v.view, View(d))
            \/ /\ d.TimeoutVote = [view |-> v.view, latestPrepareQC |-> v.latestPrepareQC]
               /\ d.PrepareVote # None => signed(n, d.PrepareVote) \in prepareVotes
               /\ d.CommitVote # None => signed(n, d.CommitVote) \in commitVotes
      BY DEF recorded
<1>6. CASE Less(View(d), View(e))
  <2>1. ASSUME NEW v \in prepareVotes \cup commitVotes \cup timeoutVotes, v.key = n
        PROVE  Less(v.view, View(d)) \/ v.view = View(d)
    <3>1. CASE v \in prepareVotes
      <4>1. Less(v.view, View(d)) \/ d.PrepareVote = [view |-> v.view, value |-> v.value]
            BY <1>5, <2>1, <3>1
      <4>2. [view |-> v.view, value |-> v.value] # None
            BY <1>4, <3>1
      <4>3. ASSUME d.PrepareVote = [view |-> v.view, value |-> v.value] PROVE v.view = d.PrepareVote.view
            BY <4>3
      <4> QED BY <1>3, <4>1, <4>2, <4>3
    <3>2. CASE v \in commitVotes
      <4>1. Less(v.view, View(d)) \/ d.CommitVote = [view |-> v.view, value |-> v.value]
            BY <1>5, <2>1, <3>2
      <4>2. [view |-> v.view, value |-> v.value] # None
            BY <1>4, <3>2
      <4>3. ASSUME d.CommitVote = [view |-> v.view, value |-> v.value] PROVE v.view = d.CommitVote.view
            BY <4>3
      <4> QED BY <1>3, <4>1, <4>2, <4>3
    <3>3. CASE v \in timeoutVotes
      <4>1. Less(v.view, View(d)) \/ d.TimeoutVote = [view |-> v.view, latestPrepareQC |-> v.latestPrepareQC]
            BY <1>5, <2>1, <3>3
      <4>2. [view |-> v.view, latestPrepareQC |-> v.latestPrepareQC] # None
            BY <1>4, <3>3
      <4>3. ASSUME d.TimeoutVote = [view |-> v.view, latestPrepareQC |-> v.latestPrepareQC] PROVE v.view = d.TimeoutVote.view
            BY <4>3
      <4> QED BY <1>3, <4>1, <4>2, <4>3
    <3> QED BY <2>1, <3>1, <3>2, <3>3
  <2>2. ASSUME NEW v \in prepareVotes \cup commitVotes \cup timeoutVotes, v.key = n
        PROVE  Less(v.view, View(e))
        BY <1>1, <1>2, <1>6, <2>1, <2>2, LessTransitive
  <2> QED BY <2>2 DEF recorded
<1>7. CASE ~Less(View(d), View(e))
  <2>1. /\ View(d) = View(e)
        /\ d.PrepareVote # None \/ d.TimeoutVote # None => d.PrepareVote = e.PrepareVote
        /\ d.CommitVote # None \/ d.TimeoutVote # None => d.CommitVote = e.CommitVote
        /\ d.TimeoutVote # None => d.TimeoutVote = e.TimeoutVote
        BY <1>7, SameViewSpec DEF Continues
  <2>2. /\ \A v \in prepareVotes : v.key = n =>
              Less(v.view, View(e)) \/ e.PrepareVote = [view |-> v.view, value |-> v.value]
        /\ \A v \in commitVotes : v.key = n =>
              Less(v.view, View(e)) \/ e.CommitVote = [view |-> v.view, value |-> v.value]
        BY <1>4, <1>5, <2>1
  <2>3. ASSUME NEW v \in timeoutVotes, v.key = n, ~Less(v.view, View(e))
        PROVE  /\ e.TimeoutVote = [view |-> v.view, latestPrepareQC |-> v.latestPrepareQC]
               /\ e.PrepareVote # None => signed(n, e.PrepareVote) \in prepareVotes
               /\ e.CommitVote # None => signed(n, e.CommitVote) \in commitVotes
        BY <1>4, <1>5, <2>1, <2>3
  <2> QED BY <2>2, <2>3 DEF recorded
<1> QED BY <1>6, <1>7

LEMMA OutputsPersistInv ==
    ASSUME ReplicaInv, NEW n \in Honest, runOutputsPersist(n)
    PROVE  ReplicaInv'
<1>1. /\ outputs[n] = "persist"
      /\ disk' = [disk EXCEPT ![n] = current[n]]
      /\ current' = [current EXCEPT ![n] = None]
      /\ outputs' = [outputs EXCEPT ![n] = "publish"]
      /\ UNCHANGED <<inner, myView, myVotes>> /\ UNCHANGED votes
      BY DEF runOutputsPersist, network
<1>2. TypeOK /\ MyViewTrailsInner /\ \A m \in Honest : inStep(m)
      BY DEF ReplicaInv
<1>3. /\ Justified(inner[n]) /\ Justified(disk[n]) /\ Justified(current[n])
      /\ Continues(disk[n], current[n]) /\ Continues(current[n], inner[n])
      /\ recorded(n, disk[n]) /\ remembered(n, myVotes[n])
      BY <1>1, <1>2 DEF inStep
<1>4. current[n] \in Inners
      BY <1>3 DEF Justified
<1>5. TypeOK'
      BY <1>1, <1>2, <1>4 DEF TypeOK, VotingTypeOK, votes
<1>6. MyViewTrailsInner'
      BY <1>1, <1>2 DEF MyViewTrailsInner
<1>7. /\ disk'[n] = current[n] /\ outputs'[n] = "publish"
      /\ \A m \in Honest : m # n =>
            disk'[m] = disk[m] /\ current'[m] = current[m] /\ outputs'[m] = outputs[m]
      BY <1>1, <1>2 DEF TypeOK
<1>8. inStep(n)'
  <2>1. VotesGrow
        BY <1>1 DEF votes, VotesGrow
  <2>2. Justified(inner[n])' /\ Justified(disk[n])'
        BY <1>1, <1>3, <1>7, <2>1, JustifiedStable
  <2>3. Continues(disk[n], inner[n])' /\ outputs'[n] # "persist"
        BY <1>1, <1>3, <1>7
  <2>4. recorded(n, current[n])
        BY <1>2, <1>3, <1>4, RecordedContinues DEF TypeOK
  <2>5. recorded(n, disk[n])'
        BY <1>1, <1>7, <2>4 DEF recorded, votes
  <2>6. remembered(n, myVotes[n])'
        BY <1>1, <1>3 DEF remembered, votes
  <2> QED BY <2>2, <2>3, <2>5, <2>6 DEF inStep
<1>9. ASSUME NEW m \in Honest, m # n PROVE inStep(m)'
      BY <1>1, <1>2, <1>7, <1>9, OthersInStep
<1> QED BY <1>5, <1>6, <1>8, <1>9 DEF ReplicaInv

LEMMA CrashInv ==
    ASSUME ReplicaInv, NEW n \in Honest, crash(n)
    PROVE  ReplicaInv'
<1>1. /\ inner' = [inner EXCEPT ![n] = disk[n]]
      /\ myView' = [myView EXCEPT ![n] = initialView]
      /\ myVotes' = [myVotes EXCEPT ![n] = noVotes]
      /\ outputs' = [outputs EXCEPT ![n] = "start"]
      /\ current' = [current EXCEPT ![n] = None]
      /\ UNCHANGED disk /\ UNCHANGED votes
      BY DEF crash, restart, network
<1>2. TypeOK /\ MyViewTrailsInner /\ \A m \in Honest : inStep(m)
      BY DEF ReplicaInv
<1> DEFINE d == disk[n]
<1>3. /\ d \in Inners /\ Justified(d) /\ Validate(d) /\ recorded(n, d)
      BY <1>2, Zenon DEF inStep, Justified
<1>4. /\ initialView \in [CommitQC : VoteOpt, TimeoutQC : TimeoutQCOpt]
      /\ initialView.CommitQC = None /\ initialView.TimeoutQC = None
      BY DEF initialView, ViewSpec, emptyInner, VoteOpt, TimeoutQCOpt
<1>5. noVotes \in [PrepareVote : VoteOpt, CommitVote : VoteOpt, TimeoutVote : TimeoutQCOpt]
      BY DEF noVotes, VoteOpt, TimeoutQCOpt
<1>6. TypeOK'
      BY <1>1, <1>2, <1>3, <1>4, <1>5 DEF TypeOK, VotingTypeOK, votes
<1>7. /\ inner'[n] = d /\ disk'[n] = d /\ myView'[n] = initialView /\ myVotes'[n] = noVotes
      /\ outputs'[n] = "start"
      /\ \A m \in Honest : m # n =>
            /\ inner'[m] = inner[m] /\ disk'[m] = disk[m] /\ myView'[m] = myView[m]
            /\ myVotes'[m] = myVotes[m] /\ outputs'[m] = outputs[m] /\ current'[m] = current[m]
      BY <1>1, <1>2 DEF TypeOK
<1>8. MyViewTrailsInner'
  <2>1. View(initialView) = [Index |-> 0, Number |-> 0]
        BY <1>4 DEF View, NextIndexOpt
  <2>2. View(d) \in NatViews /\ d.CommitQC \in VoteOpt /\ d.TimeoutQC \in TimeoutQCOpt
        BY <1>3, InnersViewSpec
  <2>3. LessEq(View(initialView), View(d))
        BY <2>1, <2>2 DEF LessEq, Less, NatViews
  <2>4. ASSUME View(initialView) = View(d) PROVE initialView = ViewSpec(d)
    <3>1. View(d).Index = 0 /\ View(d).Number = 0
          BY <2>1, <2>4
    <3>2. d.TimeoutQC # None => d.TimeoutQC.view.Index = NextIndexOpt(d.CommitQC)
          BY <1>3 DEF Validate
    <3>3. NextIndexOpt(d.CommitQC) = 0 /\ d.TimeoutQC = None
          BY <2>2, <3>1, <3>2, ViewNumber
    <3>4. d.CommitQC # None => d.CommitQC.view.Index \in Nat
          BY <2>2, OptFields, ViewsAreNat DEF NatViews
    <3>5. d.CommitQC = None
          BY <3>3, <3>4 DEF NextIndexOpt
    <3> QED BY <3>3, <3>5 DEF initialView, ViewSpec, emptyInner
  <2>5. ASSUME NEW m \in Honest
        PROVE  /\ LessEq(View(myView'[m]), View(inner'[m]))
               /\ View(myView'[m]) = View(inner'[m]) => myView'[m] = ViewSpec(inner'[m])
    <3>1. CASE m = n
          BY <1>7, <2>3, <2>4, <3>1, Zenon
    <3>2. CASE m # n
          BY <1>2, <1>7, <3>2, Zenon DEF MyViewTrailsInner
    <3> QED BY <3>1, <3>2
  <2> QED BY <2>5, Zenon DEF MyViewTrailsInner
<1>9. inStep(n)'
  <2>1. VotesGrow
        BY <1>1 DEF votes, VotesGrow
  <2>2. Justified(inner[n])' /\ Justified(disk[n])'
        BY <1>3, <1>7, <2>1, JustifiedStable
  <2>3. Continues(disk[n], inner[n])' /\ outputs'[n] # "persist"
        BY <1>7, ContinuesReflexive
  <2>4. recorded(n, disk[n])'
        BY <1>1, <1>3, <1>7, Zenon DEF recorded, votes
  <2>5. remembered(n, myVotes[n])'
    <3>1. noVotes.PrepareVote = None /\ noVotes.CommitVote = None /\ noVotes.TimeoutVote = None
          BY DEF noVotes
    <3> QED BY <1>7, <3>1 DEF remembered
  <2> QED BY <2>2, <2>3, <2>4, <2>5 DEF inStep
<1>10. ASSUME NEW m \in Honest, m # n PROVE inStep(m)'
       BY <1>1, <1>2, <1>7, <1>10, OthersInStep
<1> QED BY <1>6, <1>8, <1>9, <1>10 DEF ReplicaInv
-----------------------------------------------------------------------------
(* runOutputsPublish: with the new votes, all of disk[n]'s are published.  *)

\* What updateOutput is called with, and what it lets through.
VoteInput(n, S, old, vote, w) ==
    /\ old \in VoteOpt /\ vote \in VoteOpt /\ w \in NatViews
    /\ vote # None => vote.view = w
    /\ old # None => signed(n, old) \in S
    /\ \A v \in S : v.key = n =>
          Less(v.view, w) \/ vote = [view |-> v.view, value |-> v.value]

VoteOutput(n, S, old, vote, U) ==
    /\ U \subseteq {vote} \ {None}
    /\ vote # None => signed(n, vote) \in S \/ vote \in U
    /\ newest(old, U) \in VoteOpt
    /\ newest(old, U) # None =>
          signed(n, newest(old, U)) \in S \/ newest(old, U) \in U

LEMMA UpdateVotes ==
    ASSUME NEW n, NEW S, NEW old, NEW vote, NEW w, VoteInput(n, S, old, vote, w)
    PROVE  VoteOutput(n, S, old, vote, updateOutput(old, vote))
<1> DEFINE U == updateOutput(old, vote)
<1>1. U = {} \/ (U = {vote} /\ vote # None)
      BY DEF updateOutput
<1>2. ASSUME U = {}, vote # None PROVE signed(n, vote) \in S
  <2>1. old # None /\ ~Less(old.view, vote.view)
        BY <1>2 DEF updateOutput
  <2>2. /\ signed(n, old) \in S /\ signed(n, old).key = n
        /\ signed(n, old).view = old.view
        /\ signed(n, old).value = old.value
        BY <2>1 DEF VoteInput, signed
  <2>3. vote = [view |-> old.view, value |-> old.value]
        BY <1>2, <2>1, <2>2 DEF VoteInput
  <2>4. signed(n, vote) = signed(n, old)
        BY <2>3 DEF signed
  <2> QED BY <2>2, <2>4
<1>3. newest(old, U) = IF U = {} THEN old ELSE vote
      BY <1>1 DEF newest
<1> HIDE DEF U
<1>4. VoteOutput(n, S, old, vote, U)
      BY <1>1, <1>2, <1>3 DEF VoteInput, VoteOutput
<1> QED BY <1>4 DEF U

TimeoutInput(n, S, old, vote, w) ==
    /\ old \in TimeoutQCOpt /\ vote \in TimeoutQCOpt /\ w \in NatViews
    /\ vote # None => vote.view = w
    /\ old # None => signedTimeout(n, old) \in S
    /\ \A v \in S : v.key = n =>
          Less(v.view, w) \/ vote = [view |-> v.view, latestPrepareQC |-> v.latestPrepareQC]

TimeoutOutput(n, S, old, vote, U) ==
    /\ U \subseteq {vote} \ {None}
    /\ vote # None => signedTimeout(n, vote) \in S \/ vote \in U
    /\ newest(old, U) \in TimeoutQCOpt
    /\ newest(old, U) # None =>
          signedTimeout(n, newest(old, U)) \in S \/ newest(old, U) \in U

LEMMA UpdateTimeouts ==
    ASSUME NEW n, NEW S, NEW old, NEW vote, NEW w, TimeoutInput(n, S, old, vote, w)
    PROVE  TimeoutOutput(n, S, old, vote, updateOutput(old, vote))
<1> DEFINE U == updateOutput(old, vote)
<1>1. U = {} \/ (U = {vote} /\ vote # None)
      BY DEF updateOutput
<1>2. ASSUME U = {}, vote # None PROVE signedTimeout(n, vote) \in S
  <2>1. old # None /\ ~Less(old.view, vote.view)
        BY <1>2 DEF updateOutput
  <2>2. /\ signedTimeout(n, old) \in S /\ signedTimeout(n, old).key = n
        /\ signedTimeout(n, old).view = old.view
        /\ signedTimeout(n, old).latestPrepareQC = old.latestPrepareQC
        BY <2>1 DEF TimeoutInput, signedTimeout
  <2>3. vote = [view |-> old.view, latestPrepareQC |-> old.latestPrepareQC]
        BY <1>2, <2>1, <2>2 DEF TimeoutInput
  <2>4. signedTimeout(n, vote) = signedTimeout(n, old)
        BY <2>3 DEF signedTimeout
  <2> QED BY <2>2, <2>4
<1>3. newest(old, U) = IF U = {} THEN old ELSE vote
      BY <1>1 DEF newest
<1> HIDE DEF U
<1>4. TimeoutOutput(n, S, old, vote, U)
      BY <1>1, <1>2, <1>3 DEF TimeoutInput, TimeoutOutput
<1> QED BY <1>4 DEF U

\* The signed votes of d: what replica n has published once runOutputsPublish
\* is through with d.
allOf(n, d) ==
    /\ prepareVotes' = prepareVotes \cup {signed(n, v) : v \in {d.PrepareVote} \ {None}}
    /\ commitVotes' = commitVotes \cup {signed(n, v) : v \in {d.CommitVote} \ {None}}
    /\ timeoutVotes' = timeoutVotes \cup {signedTimeout(n, v) : v \in {d.TimeoutVote} \ {None}}

LEMMA PublishesAll ==
    ASSUME ReplicaInv, NEW n \in Honest, runOutputsPublish(n)
    PROVE  /\ allOf(n, disk[n])
           /\ myVotes'[n] \in [PrepareVote : VoteOpt, CommitVote : VoteOpt, TimeoutVote : TimeoutQCOpt]
           /\ \A m \in Honest : m # n => myVotes'[m] = myVotes[m]
           /\ myVotes' \in [Honest -> [PrepareVote : VoteOpt, CommitVote : VoteOpt,
                                       TimeoutVote : TimeoutQCOpt]]
           /\ remembered(n, myVotes[n])'
<1> DEFINE d == disk[n]
           m == myVotes[n]
           P == updateOutput(m.PrepareVote, d.PrepareVote)
           C == updateOutput(m.CommitVote, d.CommitVote)
           T == updateOutput(m.TimeoutVote, d.TimeoutVote)
           k == [PrepareVote |-> newest(m.PrepareVote, P),
                 CommitVote |-> newest(m.CommitVote, C),
                 TimeoutVote |-> newest(m.TimeoutVote, T)]
           Memory == [PrepareVote : VoteOpt, CommitVote : VoteOpt, TimeoutVote : TimeoutQCOpt]
<1>1. TypeOK /\ inStep(n)
      BY DEF ReplicaInv
<1>2. /\ d \in Inners /\ Justified(d) /\ Validate(d) /\ recorded(n, d) /\ remembered(n, m)
      BY <1>1, Zenon DEF inStep, Justified
<1>3. View(d) \in NatViews /\ m \in Memory /\ myVotes \in [Honest -> Memory]
      BY <1>1, <1>2, InnersViewSpec DEF TypeOK
<1>4. /\ d.PrepareVote \in VoteOpt /\ d.CommitVote \in VoteOpt /\ d.TimeoutVote \in TimeoutQCOpt
      /\ m.PrepareVote \in VoteOpt /\ m.CommitVote \in VoteOpt /\ m.TimeoutVote \in TimeoutQCOpt
      BY <1>2, <1>3 DEF Inners
<1>5. /\ prepareVotes' = prepareVotes \cup {signed(n, v) : v \in P}
      /\ commitVotes' = commitVotes \cup {signed(n, v) : v \in C}
      /\ timeoutVotes' = timeoutVotes \cup {signedTimeout(n, v) : v \in T}
      /\ myVotes' = [myVotes EXCEPT ![n] = k]
  <2>1. publishVotes(n, disk[n])
        BY DEF runOutputsPublish
  <2>2. prepareVotes' = prepareVotes \cup {signed(n, v) : v \in P}
        BY <2>1 DEF publishVotes
  <2>3. commitVotes' = commitVotes \cup {signed(n, v) : v \in C}
        BY <2>1 DEF publishVotes
  <2>4. timeoutVotes' = timeoutVotes \cup {signedTimeout(n, v) : v \in T}
        BY <2>1 DEF publishVotes
  <2>5. myVotes' = [myVotes EXCEPT ![n] = k]
        BY <2>1, Zenon DEF publishVotes
  <2> QED BY <2>2, <2>3, <2>4, <2>5
<1>6. VoteOutput(n, prepareVotes, m.PrepareVote, d.PrepareVote, P)
  <2>1. VoteInput(n, prepareVotes, m.PrepareVote, d.PrepareVote, View(d))
        BY <1>2, <1>3, <1>4, Zenon DEF Validate, recorded, remembered, VoteInput
  <2> QED BY <2>1, UpdateVotes
<1>7. VoteOutput(n, commitVotes, m.CommitVote, d.CommitVote, C)
  <2>1. VoteInput(n, commitVotes, m.CommitVote, d.CommitVote, View(d))
        BY <1>2, <1>3, <1>4, Zenon DEF Validate, recorded, remembered, VoteInput
  <2> QED BY <2>1, UpdateVotes, Zenon
<1>8. TimeoutOutput(n, timeoutVotes, m.TimeoutVote, d.TimeoutVote, T)
  <2>1. TimeoutInput(n, timeoutVotes, m.TimeoutVote, d.TimeoutVote, View(d))
        BY <1>2, <1>3, <1>4, Zenon DEF Validate, recorded, remembered, TimeoutInput
  <2> QED BY <2>1, UpdateTimeouts, Zenon
<1> HIDE DEF P, C, T, k
<1>9. allOf(n, d)
      BY <1>5, <1>6, <1>7, <1>8 DEF allOf, VoteOutput, TimeoutOutput
<1>10. /\ k = [PrepareVote |-> k.PrepareVote, CommitVote |-> k.CommitVote,
               TimeoutVote |-> k.TimeoutVote]
       /\ k.PrepareVote = newest(m.PrepareVote, P)
       /\ k.CommitVote = newest(m.CommitVote, C)
       /\ k.TimeoutVote = newest(m.TimeoutVote, T)
       BY Zenon DEF k
<1>11. k \in Memory /\ myVotes'[n] = k /\ myVotes' \in [Honest -> Memory]
       BY <1>3, <1>5, <1>6, <1>7, <1>8, <1>10 DEF VoteOutput, TimeoutOutput
<1>12. /\ k.PrepareVote # None => signed(n, k.PrepareVote) \in prepareVotes'
       /\ k.CommitVote # None => signed(n, k.CommitVote) \in commitVotes'
       /\ k.TimeoutVote # None => signedTimeout(n, k.TimeoutVote) \in timeoutVotes'
       BY <1>5, <1>6, <1>7, <1>8, <1>10 DEF VoteOutput, TimeoutOutput
<1>13. remembered(n, myVotes[n])'
       BY <1>11, <1>12 DEF remembered
<1>14. \A o \in Honest : o # n => myVotes'[o] = myVotes[o]
       BY <1>3, <1>5
<1> QED BY <1>9, <1>11, <1>13, <1>14

\* The votes of n that are not of an earlier view are the ones in d.
LEMMA RecordedVotes ==
    ASSUME VotingTypeOK, NEW n, NEW d, Justified(d), recorded(n, d)
    PROVE  /\ \A v \in prepareVotes : v.key = n =>
                 \/ Less(v.view, View(d))
                 \/ d.PrepareVote # None /\ v = signed(n, d.PrepareVote) /\ v.view = View(d)
           /\ \A v \in commitVotes : v.key = n =>
                 \/ Less(v.view, View(d))
                 \/ d.CommitVote # None /\ v = signed(n, d.CommitVote) /\ v.view = View(d)
           /\ \A v \in timeoutVotes : v.key = n =>
                 \/ Less(v.view, View(d))
                 \/ d.TimeoutVote # None /\ v = signedTimeout(n, d.TimeoutVote) /\ v.view = View(d)
<1>1. /\ d.PrepareVote # None => d.PrepareVote.view = View(d)
      /\ d.CommitVote # None => d.CommitVote.view = View(d)
      /\ d.TimeoutVote # None => d.TimeoutVote.view = View(d)
      BY DEF Justified, Validate
<1>2. ASSUME NEW v \in SignedVotes
      PROVE  /\ v = [key |-> v.key, view |-> v.view, value |-> v.value]
             /\ [view |-> v.view, value |-> v.value] \in QCs
      BY DEF SignedVotes, QCs
<1>3. ASSUME NEW v \in SignedTimeoutVotes
      PROVE  /\ v = [key |-> v.key, view |-> v.view, latestPrepareQC |-> v.latestPrepareQC]
             /\ [view |-> v.view, latestPrepareQC |-> v.latestPrepareQC] \in TimeoutQCs
      BY DEF SignedTimeoutVotes, TimeoutQCs
<1>4. ASSUME NEW v \in SignedVotes, v.key = n, NEW x,
             x = [view |-> v.view, value |-> v.value]
      PROVE  x # None /\ v = signed(n, x) /\ v.view = x.view
      BY <1>2, <1>4, NoneAssumption DEF signed
<1>5. ASSUME NEW v \in SignedTimeoutVotes, v.key = n, NEW x,
             x = [view |-> v.view, latestPrepareQC |-> v.latestPrepareQC]
      PROVE  x # None /\ v = signedTimeout(n, x) /\ v.view = x.view
      BY <1>3, <1>5, NoneAssumption DEF signedTimeout
<1>6. ASSUME NEW v \in prepareVotes, v.key = n, ~Less(v.view, View(d))
      PROVE  d.PrepareVote # None /\ v = signed(n, d.PrepareVote) /\ v.view = View(d)
  <2>1. d.PrepareVote = [view |-> v.view, value |-> v.value] /\ v \in SignedVotes
        BY <1>6 DEF recorded, VotingTypeOK
  <2> QED BY <1>1, <1>4, <1>6, <2>1
<1>7. ASSUME NEW v \in commitVotes, v.key = n, ~Less(v.view, View(d))
      PROVE  d.CommitVote # None /\ v = signed(n, d.CommitVote) /\ v.view = View(d)
  <2>1. d.CommitVote = [view |-> v.view, value |-> v.value] /\ v \in SignedVotes
        BY <1>7 DEF recorded, VotingTypeOK
  <2> QED BY <1>1, <1>4, <1>7, <2>1
<1>8. ASSUME NEW v \in timeoutVotes, v.key = n, ~Less(v.view, View(d))
      PROVE  d.TimeoutVote # None /\ v = signedTimeout(n, d.TimeoutVote) /\ v.view = View(d)
  <2>1. /\ d.TimeoutVote = [view |-> v.view, latestPrepareQC |-> v.latestPrepareQC]
        /\ v \in SignedTimeoutVotes
        BY <1>8 DEF recorded, VotingTypeOK
  <2> QED BY <1>1, <1>5, <1>8, <2>1
<1> QED BY <1>6, <1>7, <1>8

\* A replica is in an index with the CommitQC of the one before.
LEMMA JustifiedEnters ==
    ASSUME NEW d, Justified(d)
    PROVE  mayEnter(View(d))
<1>1. d.CommitQC \in VoteOpt /\ (d.CommitQC # None => VerifyCommitQC(d.CommitQC))
      BY DEF Justified, Inners, Validate
<1>2. View(d).Index = NextIndexOpt(d.CommitQC)
      BY DEF View
<1>3. d.CommitQC # None => d.CommitQC \in QCs /\ d.CommitQC.view.Index \in Nat
      BY <1>1, OptFields, ViewsAreNat DEF NatViews
<1> QED BY <1>1, <1>2, <1>3 DEF mayEnter, NextIndexOpt

\* Publishing the votes of a justified inner is a step of the vote rules.
LEMMA PublishRefines ==
    ASSUME VotingTypeOK, NEW n \in Honest, NEW d, Justified(d), recorded(n, d), allOf(n, d)
    PROVE  [VotingNext]_votes
<1> DEFINE w == View(d)
           P == IF d.PrepareVote = None \/ signed(n, d.PrepareVote) \in prepareVotes
                THEN {} ELSE {d.PrepareVote.value}
           C == IF d.CommitVote = None \/ signed(n, d.CommitVote) \in commitVotes
                THEN {} ELSE {d.CommitVote.value}
           T == IF d.TimeoutVote = None THEN {} ELSE {d.TimeoutVote.latestPrepareQC}
<1>1. /\ d \in Inners /\ Validate(d) /\ d.CommitVote = d.PrepareQC
      /\ d.PrepareVote \in VoteOpt /\ d.CommitVote \in VoteOpt /\ d.TimeoutVote \in TimeoutQCOpt
      BY DEF Justified, Inners
<1>2. /\ d.PrepareVote # None => d.PrepareVote.view = w
      /\ d.CommitVote # None => d.CommitVote.view = w
      /\ d.TimeoutVote # None => d.TimeoutVote.view = w
      BY <1>1 DEF Validate
<1>3. w \in NatViews /\ ~Less(w, w)
      BY <1>1, InnersViewSpec, LessIrreflexive
<1>4. CASE d.TimeoutVote # None /\ signedTimeout(n, d.TimeoutVote) \in timeoutVotes
  <2>1. signedTimeout(n, d.TimeoutVote).key = n /\ signedTimeout(n, d.TimeoutVote).view = w
        BY <1>2, <1>4 DEF signedTimeout
  <2>2. /\ d.PrepareVote # None => signed(n, d.PrepareVote) \in prepareVotes
        /\ d.CommitVote # None => signed(n, d.CommitVote) \in commitVotes
        BY <1>3, <1>4, <2>1, Zenon DEF recorded
  <2>3. UNCHANGED votes
        BY <1>4, <2>2 DEF allOf, votes
  <2> QED BY <2>3
<1>5. CASE d.PrepareVote = None /\ d.CommitVote = None /\ d.TimeoutVote = None
      BY <1>5 DEF allOf, votes
<1>6. CASE /\ ~(d.TimeoutVote # None /\ signedTimeout(n, d.TimeoutVote) \in timeoutVotes)
           /\ ~(d.PrepareVote = None /\ d.CommitVote = None /\ d.TimeoutVote = None)
  <2>1. w \in Views
        BY <1>1, <1>2, <1>6, OptFields
  <2>2. mayVoteIn(n, w)
    <3>1. ASSUME NEW v \in prepareVotes \cup commitVotes \cup timeoutVotes, v.key = n
          PROVE  LessEq(v.view, w)
          BY <3>1, RecordedVotes DEF LessEq
    <3>2. votesIn(timeoutVotes, n, w) = {}
          BY <1>3, <1>6, RecordedVotes DEF votesIn
    <3> QED BY <3>1, <3>2, JustifiedEnters DEF mayVoteIn
  <2>3. P \in AtMostOne(Values) /\ C \in AtMostOne(Values) /\ T \in AtMostOne(VoteOpt)
    <3>1. /\ d.PrepareVote # None => d.PrepareVote.value \in Values
          /\ d.CommitVote # None => d.CommitVote.value \in Values
          /\ d.TimeoutVote # None => d.TimeoutVote.latestPrepareQC \in VoteOpt
          BY <1>1, OptFields
    <3> QED BY <3>1 DEF AtMostOne
  <2>4. ASSUME NEW value \in P
        PROVE  votesIn(prepareVotes, n, w) = {} /\ mayPrepare(w, value)
    <3>1. d.PrepareVote # None /\ signed(n, d.PrepareVote) \notin prepareVotes
          /\ value = d.PrepareVote.value
          BY <2>4
    <3>2. votesIn(prepareVotes, n, w) = {}
          BY <1>3, <3>1, RecordedVotes DEF votesIn
    <3> QED BY <3>1, <3>2 DEF Justified
  <2>5. d.CommitVote # None => d.CommitVote = [view |-> w, value |-> d.CommitVote.value]
        BY <1>1, <1>2, OptFields
  <2>6. ASSUME NEW value \in C
        PROVE  votesIn(commitVotes, n, w) = {} /\ mayCommit(w, value)
    <3>1. d.CommitVote # None /\ signed(n, d.CommitVote) \notin commitVotes
          /\ value = d.CommitVote.value
          BY <2>6
    <3>2. votesIn(commitVotes, n, w) = {}
      <4> SUFFICES ASSUME NEW v \in commitVotes, v.key = n, v.view = w PROVE FALSE
          BY DEF votesIn
      <4>1. Less(w, w) \/ v = signed(n, d.CommitVote)
            BY RecordedVotes
      <4> QED BY ONLY <1>3, <3>1, <4>1, v \in commitVotes
    <3>3. VerifyPrepareQC(d.CommitVote)
          BY <1>1, <3>1 DEF Validate
    <3>4. d.CommitVote = [view |-> w, value |-> value]
          BY <2>5, <3>1, Zenon
    <3> QED BY <3>2, <3>3, <3>4 DEF mayCommit
  <2>7. ASSUME NEW pqc \in T
        PROVE  LET committed == {c.value : c \in votesIn(commitVotes, n, w)} \cup C
               IN  IF committed # {}
                   THEN \E value \in committed : pqc = [view |-> w, value |-> value]
                   ELSE mayTimeout(w, pqc)
    <3> DEFINE committed == {c.value : c \in votesIn(commitVotes, n, w)} \cup C
    <3>1. d.TimeoutVote # None /\ pqc = d.TimeoutVote.latestPrepareQC
          BY <2>7
    <3>2. CASE d.CommitVote # None
      <4>1. pqc = [view |-> w, value |-> d.CommitVote.value]
            BY <2>5, <3>1, <3>2 DEF Justified
      <4>2. d.CommitVote.value \in committed
        <5>1. CASE signed(n, d.CommitVote) \in commitVotes
              BY <1>2, <3>2, <5>1 DEF votesIn, signed
        <5>2. CASE signed(n, d.CommitVote) \notin commitVotes
              BY <3>2, <5>2
        <5> QED BY <5>1, <5>2
      <4> QED BY <4>1, <4>2, Zenon
    <3>3. CASE d.CommitVote = None
      <4>1. votesIn(commitVotes, n, w) = {}
        <5> SUFFICES ASSUME NEW v \in commitVotes, v.key = n, v.view = w PROVE FALSE
            BY DEF votesIn
        <5>1. Less(w, w) \/ d.CommitVote # None
              BY RecordedVotes
        <5> QED BY ONLY <1>3, <3>3, <5>1
      <4>2. mayTimeout(w, pqc)
            BY <3>1, <3>3 DEF Justified
      <4>3. committed = {}
            BY <3>3, <4>1
      <4> QED BY <4>2, <4>3
    <3> QED BY <3>2, <3>3, Zenon
  <2>8. /\ prepareVotes' = prepareVotes \cup {[key |-> n, view |-> w, value |-> x] : x \in P}
        /\ commitVotes' = commitVotes \cup {[key |-> n, view |-> w, value |-> x] : x \in C}
        /\ timeoutVotes' = timeoutVotes \cup {[key |-> n, view |-> w, latestPrepareQC |-> q] : q \in T}
    <3>1. /\ d.PrepareVote # None =>
                signed(n, d.PrepareVote) = [key |-> n, view |-> w, value |-> d.PrepareVote.value]
          /\ d.CommitVote # None =>
                signed(n, d.CommitVote) = [key |-> n, view |-> w, value |-> d.CommitVote.value]
          /\ d.TimeoutVote # None =>
                signedTimeout(n, d.TimeoutVote)
                  = [key |-> n, view |-> w, latestPrepareQC |-> d.TimeoutVote.latestPrepareQC]
          BY <1>2, Zenon DEF signed, signedTimeout
    <3>2. prepareVotes' = prepareVotes \cup {[key |-> n, view |-> w, value |-> x] : x \in P}
          BY <3>1 DEF allOf
    <3>3. commitVotes' = commitVotes \cup {[key |-> n, view |-> w, value |-> x] : x \in C}
          BY <3>1 DEF allOf
    <3>4. timeoutVotes' = timeoutVotes \cup {[key |-> n, view |-> w, latestPrepareQC |-> q] : q \in T}
          BY <3>1 DEF allOf
    <3> QED BY <3>2, <3>3, <3>4
  <2> HIDE DEF w, P, C, T
  <2>9. publish(n, w, P, C, T)
        BY <2>4, <2>6, <2>7, <2>8, Zenon DEF publish
  <2> QED BY <2>1, <2>2, <2>3, <2>9 DEF VotingNext
<1> QED BY <1>4, <1>5, <1>6

LEMMA OutputsPublishInv ==
    ASSUME ReplicaInv, NEW n \in Honest, runOutputsPublish(n)
    PROVE  ReplicaInv'
<1> DEFINE d == disk[n]
<1>1. TypeOK /\ MyViewTrailsInner /\ \A m \in Honest : inStep(m)
      BY DEF ReplicaInv
<1>2. /\ outputs' = [outputs EXCEPT ![n] = "idle"]
      /\ UNCHANGED <<inner, disk, myView, current>>
      BY DEF runOutputsPublish
<1>3. /\ d \in Inners /\ Justified(d) /\ recorded(n, d) /\ Continues(d, inner[n])
      BY <1>1, Zenon DEF inStep, Justified
<1>4. /\ prepareVotes' = prepareVotes \cup {signed(n, v) : v \in {d.PrepareVote} \ {None}}
      /\ commitVotes' = commitVotes \cup {signed(n, v) : v \in {d.CommitVote} \ {None}}
      /\ timeoutVotes' = timeoutVotes \cup {signedTimeout(n, v) : v \in {d.TimeoutVote} \ {None}}
      BY PublishesAll, Zenon DEF allOf
<1>5. VotesGrow
      BY <1>4 DEF VotesGrow
<1>6. TypeOK'
  <2>1. /\ d.PrepareVote # None => signed(n, d.PrepareVote) \in SignedVotes
        /\ d.CommitVote # None => signed(n, d.CommitVote) \in SignedVotes
        /\ d.TimeoutVote # None => signedTimeout(n, d.TimeoutVote) \in SignedTimeoutVotes
        BY <1>3, OptFields DEF Inners, signed, signedTimeout, SignedVotes, SignedTimeoutVotes
  <2>2. VotingTypeOK'
        BY <1>1, <1>4, <2>1 DEF TypeOK, VotingTypeOK
  <2> QED BY <1>1, <1>2, <2>2, PublishesAll DEF TypeOK
<1>7. MyViewTrailsInner'
      BY <1>1, <1>2 DEF MyViewTrailsInner
<1>8. /\ outputs'[n] = "idle" /\ \A m \in Honest : m # n => outputs'[m] = outputs[m]
      BY <1>1, <1>2 DEF TypeOK
<1>9. inStep(n)'
  <2>1. Justified(inner[n])' /\ Justified(disk[n])'
        BY <1>1, <1>2, <1>5, JustifiedStable DEF inStep
  <2>2. Continues(disk[n], inner[n])' /\ outputs'[n] # "persist"
        BY <1>2, <1>3, <1>8
  <2>3. recorded(n, d)'
    <3>1. ASSUME NEW v \in prepareVotes', v.key = n
          PROVE  Less(v.view, View(d)) \/ d.PrepareVote = [view |-> v.view, value |-> v.value]
      <4>1. CASE v \in prepareVotes
            BY <1>3, <3>1, <4>1 DEF recorded
      <4>2. CASE d.PrepareVote # None /\ v = signed(n, d.PrepareVote)
            BY <1>3, <4>2, OptFields DEF Inners, signed
      <4> QED BY <1>4, <3>1, <4>1, <4>2
    <3>2. ASSUME NEW v \in commitVotes', v.key = n
          PROVE  Less(v.view, View(d)) \/ d.CommitVote = [view |-> v.view, value |-> v.value]
      <4>1. CASE v \in commitVotes
            BY <1>3, <3>2, <4>1, Zenon DEF recorded
      <4>2. CASE d.CommitVote # None /\ v = signed(n, d.CommitVote)
            BY <1>3, <4>2, OptFields DEF Inners, signed
      <4> QED BY <1>4, <3>2, <4>1, <4>2
    <3>3. ASSUME NEW v \in timeoutVotes', v.key = n
          PROVE  \/ Less(v.view, View(d))
                 \/ d.TimeoutVote = [view |-> v.view, latestPrepareQC |-> v.latestPrepareQC]
      <4>1. CASE v \in timeoutVotes
            BY <1>3, <3>3, <4>1, Zenon DEF recorded
      <4>2. CASE d.TimeoutVote # None /\ v = signedTimeout(n, d.TimeoutVote)
            BY <1>3, <4>2, OptFields DEF Inners, signedTimeout
      <4> QED BY <1>4, <3>3, <4>1, <4>2
    <3>4. /\ d.PrepareVote # None => signed(n, d.PrepareVote) \in prepareVotes'
          /\ d.CommitVote # None => signed(n, d.CommitVote) \in commitVotes'
          BY <1>4
    <3>5. d' = d
          BY <1>2
    <3> HIDE DEF d
    <3> QED BY <3>1, <3>2, <3>3, <3>4, <3>5 DEF recorded
  <2> QED BY <1>2, <2>1, <2>2, <2>3, PublishesAll, Zenon DEF inStep
<1>10. ASSUME NEW m \in Honest, m # n PROVE inStep(m)'
  <2>1. inStep(m) /\ myVotes'[m] = myVotes[m] /\ outputs'[m] = outputs[m]
        BY <1>1, <1>8, <1>10, PublishesAll
  <2>2. Justified(inner[m])' /\ Justified(disk[m])'
        BY <1>2, <1>5, <2>1, JustifiedStable DEF inStep
  <2>3. Continues(disk[m], inner[m])'
        BY <1>2, <2>1 DEF inStep
  <2>4. (outputs[m] = "persist" =>
            /\ Justified(current[m])
            /\ Continues(disk[m], current[m]) /\ Continues(current[m], inner[m]))'
        BY <1>2, <1>5, <2>1, JustifiedStable, Zenon DEF inStep
  <2>5. /\ \A v \in prepareVotes' : v.key = m => v \in prepareVotes
        /\ \A v \in commitVotes' : v.key = m => v \in commitVotes
        /\ \A v \in timeoutVotes' : v.key = m => v \in timeoutVotes
        BY <1>4, <1>10 DEF signed, signedTimeout
  <2>6. recorded(m, disk[m])'
    <3>1. recorded(m, disk[m]) /\ disk'[m] = disk[m]
          BY <1>2, <2>1 DEF inStep
    <3> QED BY <1>5, <2>5, <3>1, Zenon DEF recorded, VotesGrow
  <2>7. remembered(m, myVotes[m])'
        BY <1>5, <2>1, Zenon DEF inStep, remembered, VotesGrow
  <2> QED BY <2>2, <2>3, <2>4, <2>6, <2>7 DEF inStep
<1> QED BY <1>6, <1>7, <1>9, <1>10 DEF ReplicaInv
-----------------------------------------------------------------------------
(* The steps of a replica, one by one.                                     *)

\* A handler stores a justified inner that continues the one before.
LEMMA HandlerStores ==
    ASSUME ReplicaInv, NEW n \in Honest,
           \/ \E qc \in QCs : pushCommitQC(n, qc)
           \/ \E qc \in TimeoutQCs : pushTimeoutQC(n, qc)
           \/ \E v \in Values, tqc \in TimeoutQCOpt :
                 pushProposal(n, [view |-> View(myView[n]), value |-> v, timeoutQC |-> tqc])
           \/ \E qc \in QCs : pushPrepareQC(n, qc)
           \/ voteTimeout(n)
    PROVE  \E j : store(n, j) /\ Justified(j) /\ Continues(inner[n], j)
<1> DEFINE i == inner[n]
<1>1. Justified(i) /\ i \in Inners
      BY Zenon DEF ReplicaInv, inStep, Justified
<1>2. ASSUME NEW qc \in QCs, pushCommitQC(n, qc)
      PROVE  \E j : store(n, j) /\ Justified(j) /\ Continues(i, j)
      BY <1>1, <1>2, PushCommitQC DEF pushCommitQC
<1>3. ASSUME NEW qc \in TimeoutQCs, pushTimeoutQC(n, qc)
      PROVE  \E j : store(n, j) /\ Justified(j) /\ Continues(i, j)
      BY <1>1, <1>3, PushTimeoutQC, Zenon DEF pushTimeoutQC
<1>4. ASSUME NEW v \in Values, NEW tqc \in TimeoutQCOpt,
             pushProposal(n, [view |-> View(myView[n]), value |-> v, timeoutQC |-> tqc])
      PROVE  \E j : store(n, j) /\ Justified(j) /\ Continues(i, j)
  <2> DEFINE p == [view |-> View(myView[n]), value |-> v, timeoutQC |-> tqc]
  <2>1. /\ i.TimeoutVote = None /\ i.PrepareVote = None /\ View(i) = p.view /\ p.view \in Views
        /\ VerifyProposal(p, myView[n])
        /\ store(n, [i EXCEPT !.PrepareVote = [view |-> p.view, value |-> p.value]])
        BY <1>4 DEF pushProposal
  <2>2. p \in Proposals
        BY <2>1 DEF Proposals
  <2>3. myView[n] = ViewSpec(i)
        BY <2>1 DEF ReplicaInv, MyViewTrailsInner
  <2>4. VerifyProposal(p, ViewSpec(i))
        BY <2>1, <2>3
  <2> HIDE DEF p, i
  <2> QED BY <1>1, <2>1, <2>2, <2>4, PushProposal
<1>5. ASSUME NEW qc \in QCs, pushPrepareQC(n, qc)
      PROVE  \E j : store(n, j) /\ Justified(j) /\ Continues(i, j)
      BY <1>1, <1>5, PushPrepareQC, Zenon DEF pushPrepareQC
<1>6. ASSUME voteTimeout(n)
      PROVE  \E j : store(n, j) /\ Justified(j) /\ Continues(i, j)
  <2>1. /\ View(i).Index <= MaxIndex /\ View(i).Number < MaxNumber /\ i.TimeoutVote = None
        /\ store(n, [i EXCEPT !.TimeoutVote =
                        [view |-> View(i), latestPrepareQC |-> inherited(i)]])
        BY <1>6 DEF voteTimeout, inherited
  <2> QED BY <1>1, <2>1, VoteTimeout
<1> QED BY <1>2, <1>3, <1>4, <1>5, <1>6, Zenon

\* What one step does: it keeps the invariant, it is a step of the vote rules,
\* and no disk loses a vote of its view.
LEMMA ReplicaStep ==
    ASSUME ReplicaInv, Next
    PROVE  /\ ReplicaInv'
           /\ [VotingNext]_votes
           /\ \A m \in Honest : Continues(disk[m], disk'[m])
<1>1. PICK n \in Honest :
        \/ \E qc \in QCs : pushCommitQC(n, qc)
        \/ \E qc \in TimeoutQCs : pushTimeoutQC(n, qc)
        \/ \E v \in Values, tqc \in TimeoutQCOpt :
              pushProposal(n, [view |-> View(myView[n]), value |-> v, timeoutQC |-> tqc])
        \/ \E qc \in QCs : pushPrepareQC(n, qc)
        \/ voteTimeout(n)
        \/ \E v \in Values : runPropose(n, v)
        \/ runOutputsView(n)
        \/ runOutputsPersist(n)
        \/ runOutputsPublish(n)
        \/ crash(n)
      BY DEF Next
<1>2. CASE \E j : store(n, j) /\ Justified(j) /\ Continues(inner[n], j)
  <2>1. PICK j : store(n, j) /\ Justified(j) /\ Continues(inner[n], j)
        BY <1>2
  <2>2. UNCHANGED votes /\ UNCHANGED disk
        BY <2>1 DEF store, network
  <2> QED BY <2>1, <2>2, StoreInv, ContinuesReflexive
<1>3. CASE \E v \in Values : runPropose(n, v)
  <2>1. UNCHANGED <<inner, disk, myView, myVotes, outputs, current>> /\ UNCHANGED votes
        BY <1>3 DEF runPropose
  <2> QED BY <2>1, ProposeInv, ContinuesReflexive
<1>4. CASE runOutputsView(n)
  <2>1. UNCHANGED votes /\ UNCHANGED disk
        BY <1>4 DEF runOutputsView, network
  <2> QED BY <1>4, <2>1, OutputsViewInv, ContinuesReflexive
<1>5. CASE runOutputsPersist(n)
  <2>1. /\ UNCHANGED votes /\ disk' = [disk EXCEPT ![n] = current[n]]
        /\ outputs[n] = "persist" /\ disk \in [Honest -> Inners] /\ inStep(n)
        BY <1>5 DEF runOutputsPersist, network, ReplicaInv, TypeOK
  <2>2. Continues(disk[n], disk'[n]) /\ \A m \in Honest : m # n => disk'[m] = disk[m]
        BY <2>1 DEF inStep
  <2> QED BY <1>5, <2>1, <2>2, OutputsPersistInv, ContinuesReflexive
<1>6. CASE runOutputsPublish(n)
  <2>1. UNCHANGED disk
        BY <1>6 DEF runOutputsPublish
  <2>2. VotingTypeOK /\ Justified(disk[n]) /\ recorded(n, disk[n])
        BY DEF ReplicaInv, TypeOK, inStep
  <2>3. allOf(n, disk[n])
        BY <1>6, PublishesAll
  <2>4. [VotingNext]_votes
        BY <2>2, <2>3, PublishRefines
  <2> QED BY <1>6, <2>1, <2>4, OutputsPublishInv, ContinuesReflexive
<1>7. CASE crash(n)
  <2>1. UNCHANGED votes /\ UNCHANGED disk
        BY <1>7 DEF crash, restart, network
  <2> QED BY <1>7, <2>1, CrashInv, ContinuesReflexive
<1> QED BY <1>1, <1>2, <1>3, <1>4, <1>5, <1>6, <1>7, HandlerStores, Zenon

LEMMA InitReplicaInv == Init => ReplicaInv /\ VotingInit
<1> SUFFICES ASSUME Init PROVE ReplicaInv /\ VotingInit
    OBVIOUS
<1>1. VotingInit
      BY DEF Init, VotingInit
<1>2. /\ emptyInner \in Inners
      /\ initialView \in [CommitQC : VoteOpt, TimeoutQC : TimeoutQCOpt]
      /\ noVotes \in [PrepareVote : VoteOpt, CommitVote : VoteOpt, TimeoutVote : TimeoutQCOpt]
      BY DEF emptyInner, initialView, ViewSpec, noVotes, Inners, VoteOpt, TimeoutQCOpt
<1>3. TypeOK
      BY <1>2 DEF Init, TypeOK, VotingTypeOK
<1>4. initialView = ViewSpec(emptyInner) /\ View(initialView) = View(emptyInner)
      BY <1>2, InnersViewSpec DEF initialView
<1>5. MyViewTrailsInner
      BY <1>4 DEF Init, MyViewTrailsInner, LessEq
<1>6. Justified(emptyInner)
      BY <1>2, FreshInner DEF emptyInner
<1>7. ASSUME NEW n \in Honest PROVE inStep(n)
  <2>1. inner[n] = emptyInner /\ disk[n] = emptyInner /\ myVotes[n] = noVotes /\ outputs[n] = "start"
        BY DEF Init
  <2>2. recorded(n, disk[n]) /\ remembered(n, myVotes[n])
        BY <2>1, Zenon DEF Init, recorded, remembered, noVotes
  <2> QED BY <1>6, <2>1, <2>2, ContinuesReflexive DEF inStep
<1> QED BY <1>1, <1>3, <1>5, <1>7 DEF ReplicaInv

\* A step that changes nothing.
LEMMA ReplicaStutter ==
    ASSUME ReplicaInv, UNCHANGED vars
    PROVE  ReplicaInv' /\ UNCHANGED votes /\ UNCHANGED disk
<1>1. UNCHANGED <<inner, disk, myView, myVotes, outputs, current>> /\ UNCHANGED votes
      BY DEF vars, process, network
<1> QED BY <1>1, ProposeInv
-----------------------------------------------------------------------------
\* inner, the copy runOutputs persists, the disk and the published votes of
\* every replica stay in step, through any interleaving of the handlers with
\* runOutputs and any number of crashes.
THEOREM ReplicaInvariant == Spec => []ReplicaInv
<1>1. Init => ReplicaInv
      BY InitReplicaInv
<1>2. ReplicaInv /\ [Next]_vars => ReplicaInv'
      BY ReplicaStep, ReplicaStutter
<1> QED BY <1>1, <1>2, PTL DEF Spec

\* Replicas that persist before they publish, and restart from what they
\* persisted, sign only votes that the vote rules allow.
THEOREM ReplicasImplementVoting == Spec => VotingSpec
<1>1. Init => VotingInit
      BY InitReplicaInv
<1>2. ReplicaInv /\ [Next]_vars => [VotingNext]_votes
      BY ReplicaStep, ReplicaStutter
<1> QED BY <1>1, <1>2, ReplicaInvariant, PTL DEF Spec, VotingSpec

\* No two CommitQCs of one road index differ, whatever the faulty replicas
\* sign and whenever the honest ones crash.
THEOREM ReplicasAgree == Spec => []Agreement
BY ReplicasImplementVoting, VotingAgreement, PTL

\* The CommitQCs that crashing replicas make decide the road in order.
THEOREM ReplicasImplementRoad == Spec => RoadSpec
BY ReplicasImplementVoting, VotingImplementsRoad, PTL

\* What a replica has on disk always passes the validation of a restart.
THEOREM RestartAlwaysSucceeds == Spec => []RestartSucceeds
<1>1. ReplicaInv => RestartSucceeds
      BY Zenon DEF ReplicaInv, inStep, Justified, RestartSucceeds
<1> QED BY <1>1, ReplicaInvariant, PTL

\* The view that handlers check without the lock is never ahead of inner, and
\* the justification of a view never differs between the two.
THEOREM MyViewAlwaysTrails == Spec => []MyViewTrailsInner
<1>1. ReplicaInv => MyViewTrailsInner
      BY DEF ReplicaInv
<1> QED BY <1>1, ReplicaInvariant, PTL

\* No write to a replica's disk moves its view back or drops a vote of it.
THEOREM DiskOnlyGrows == Spec => DiskMonotone
<1> DEFINE grows ==
        \A n \in Honest :
            LET d == disk[n]
                e == disk'[n]
            IN  \/ Less(View(d), View(e))
                \/ /\ ViewSpec(d) = ViewSpec(e)
                   /\ d.PrepareVote \in {None, e.PrepareVote}
                   /\ d.CommitVote \in {None, e.CommitVote}
                   /\ d.TimeoutVote \in {None, e.TimeoutVote}
<1>1. ReplicaInv /\ [Next]_vars => [grows]_vars
  <2> SUFFICES ASSUME ReplicaInv, Next PROVE grows
      OBVIOUS
  <2>1. \A m \in Honest : Continues(disk[m], disk'[m])
        BY ReplicaStep
  <2> QED BY <2>1, Zenon DEF Continues
<1> QED BY <1>1, ReplicaInvariant, PTL DEF Spec, DiskMonotone
=============================================================================
