------------------------- MODULE AutobahnConsensus -------------------------
(***************************************************************************)
(* The replicas of Autobahn's consensus                                    *)
(* (sei-tendermint/internal/autobahn/consensus): a replica keeps its state *)
(* in "inner", copies it to disk in runOutputs and only then publishes the *)
(* votes in it; it may crash at any point and restart from the disk.       *)
(*                                                                         *)
(* The handlers check a message against myView without the lock, then take *)
(* the lock and check inner again; as myView trails inner and a view has   *)
(* one justification (MyViewTrailsInner), the check that counts is the     *)
(* second, and each handler is one action.                                 *)
(***************************************************************************)
EXTENDS AutobahnVoting

CONSTANTS
    Leader(_),  \* the replica that leads a view
    MaxCrashes  \* bound: crashes, over all replicas

ASSUME CrashesAssumption == MaxCrashes \in Nat

VARIABLES
    inner,         \* inner[n]: State.inner of replica n
    disk,          \* disk[n]: what newInner would load after a crash
    myView,        \* myView[n]: State.myView, a ViewSpec
    myProposal,    \* myProposal[n]: State.myProposal, what n proposed last
    myVotes,       \* myVotes[n]: State.myPrepareVote, myCommitVote, myTimeoutVote
    outputs,       \* outputs[n]: where the iteration of runOutputs is
    current,       \* current[n]: the inner that iteration has yet to persist
    proposals,     \* FullProposals published by honest leaders
    crashes        \* crashes so far

network == <<proposals, votes>>
process == <<myView, myProposal, myVotes, outputs, current>>
vars == <<inner, disk, process, network, crashes>>
-----------------------------------------------------------------------------
(***************************************************************************)
(* Views and view specifications.                                          *)
(***************************************************************************)

\* types.NextIndexOpt
NextIndexOpt(commitQC) ==
    IF commitQC = None THEN 0 ELSE commitQC.view.Index + 1

\* ViewSpec.View: the view justified by a CommitQC and a TimeoutQC.
View(vs) ==
    LET idx == NextIndexOpt(vs.CommitQC)
    IN  [Index |-> idx,
         Number |-> IF vs.TimeoutQC # None /\ vs.TimeoutQC.view.Index = idx
                    THEN vs.TimeoutQC.view.Number + 1
                    ELSE 0]

\* The persistedInner of a fresh node, and of a view nothing was done in yet.
emptyInner ==
    [CommitQC |-> None, TimeoutQC |-> None, PrepareQC |-> None,
     PrepareVote |-> None, CommitVote |-> None, TimeoutVote |-> None]

noVotes == [PrepareVote |-> None, CommitVote |-> None, TimeoutVote |-> None]

ViewSpec(i) == [CommitQC |-> i.CommitQC, TimeoutQC |-> i.TimeoutQC]

\* NewState starts from the view spec of view (0, 0), whatever was restored.
initialView == ViewSpec(emptyInner)

\* FullProposal.Verify against the view spec vs.  Lane, application and
\* timestamp checks decide which contents are legal; Values are the legal ones.
VerifyProposal(p, vs) ==
    /\ p.view = View(vs)
    /\ Leader(p.view) \in Faulty \/ p \in proposals
    /\ (p.timeoutQC = None) <=> (vs.TimeoutQC = None)
    /\ p.timeoutQC # None =>
          /\ p.timeoutQC.view = vs.TimeoutQC.view
          /\ p.timeoutQC.view.Index = NextIndexOpt(vs.CommitQC)
          /\ VerifyTimeoutQC(p.timeoutQC)
          /\ p.timeoutQC.latestPrepareQC # None =>
                p.value = p.timeoutQC.latestPrepareQC.value

\* persistedInner.validate, the check newInner makes on what it loaded.
Validate(i) ==
    /\ i.CommitQC # None => VerifyCommitQC(i.CommitQC)
    /\ i.TimeoutQC # None =>
          /\ i.TimeoutQC.view.Index = NextIndexOpt(i.CommitQC)
          /\ VerifyTimeoutQC(i.TimeoutQC)
    /\ i.PrepareQC # None =>
          i.PrepareQC.view = View(i) /\ VerifyPrepareQC(i.PrepareQC)
    /\ i.CommitVote # None => i.PrepareQC # None /\ i.CommitVote.view = View(i)
    /\ i.PrepareVote # None => i.PrepareVote.view = View(i)
    /\ i.TimeoutVote # None =>
          /\ i.TimeoutVote.view = View(i)
          /\ LET pqc == i.TimeoutVote.latestPrepareQC
             IN  pqc # None => /\ pqc.view.Index = View(i).Index
                               /\ VerifyPrepareQC(pqc)
-----------------------------------------------------------------------------
Init ==
    /\ inner = [n \in Honest |-> emptyInner]
    /\ disk = [n \in Honest |-> emptyInner]
    /\ myView = [n \in Honest |-> initialView]
    /\ myProposal = [n \in Honest |-> None]
    /\ myVotes = [n \in Honest |-> noVotes]
    /\ outputs = [n \in Honest |-> "start"]
    /\ current = [n \in Honest |-> None]
    /\ proposals = {}
    /\ prepareVotes = {}
    /\ commitVotes = {}
    /\ timeoutVotes = {}
    /\ crashes = 0

\* The handlers below run under the lock on inner and change nothing else.
store(n, i) ==
    /\ inner' = [inner EXCEPT ![n] = i]
    /\ UNCHANGED <<disk, process, network, crashes>>

\* Mutant: a CommitQC of an index already left is taken.
pushCommitQCStale(n, qc) ==
    /\ VerifyCommitQC(qc)
    /\ store(n, [emptyInner EXCEPT !.CommitQC = qc])

\* A CommitQC that avail has sequenced moves the replica to the next index.
pushCommitQC(n, qc) ==
    /\ qc.view.Index >= View(inner[n]).Index
    /\ VerifyCommitQC(qc)
    /\ store(n, [emptyInner EXCEPT !.CommitQC = qc])

\* Mutant: the votes of the view left are kept.
pushTimeoutQCKeepsVotes(n, qc) ==
    /\ View(inner[n]).Index >= qc.view.Index
    /\ ~Less(qc.view, View(inner[n]))
    /\ VerifyTimeoutQC(qc)
    /\ store(n, [inner[n] EXCEPT !.TimeoutQC = qc])

\* A TimeoutQC of the current index moves the replica to the next view.
pushTimeoutQC(n, qc) ==
    /\ View(inner[n]).Index >= qc.view.Index
    /\ ~Less(qc.view, View(inner[n]))
    /\ VerifyTimeoutQC(qc)
    /\ store(n, [emptyInner EXCEPT !.CommitQC = inner[n].CommitQC,
                                   !.TimeoutQC = qc])

\* Mutant: a second proposal of the view replaces the prepare vote.
pushProposalTwice(n, p) ==
    /\ inner[n].TimeoutVote = None
    /\ View(inner[n]) = p.view
    /\ p.view \in Views
    /\ VerifyProposal(p, myView[n])
    /\ store(n, [inner[n] EXCEPT
                    !.PrepareVote = [view |-> p.view, value |-> p.value]])

\* The first valid proposal of the view gets the replica's prepare vote,
\* unless the replica has timed out.
pushProposal(n, p) ==
    /\ inner[n].TimeoutVote = None
    /\ inner[n].PrepareVote = None
    /\ View(inner[n]) = p.view
    /\ p.view \in Views
    /\ VerifyProposal(p, myView[n])
    /\ store(n, [inner[n] EXCEPT
                    !.PrepareVote = [view |-> p.view, value |-> p.value]])

\* Mutant: a replica that has timed out still commit-votes.
pushPrepareQCAfterTimeout(n, qc) ==
    /\ View(myView[n]) = qc.view
    /\ View(inner[n]) = qc.view
    /\ inner[n].PrepareQC = None
    /\ VerifyPrepareQC(qc)
    /\ store(n, [inner[n] EXCEPT !.PrepareQC = qc, !.CommitVote = qc])

\* The first PrepareQC of the view gets the replica's commit vote, unless the
\* replica has timed out.
pushPrepareQC(n, qc) ==
    /\ View(myView[n]) = qc.view
    /\ View(inner[n]) = qc.view
    /\ inner[n].TimeoutVote = None
    /\ inner[n].PrepareQC = None
    /\ VerifyPrepareQC(qc)
    /\ store(n, [inner[n] EXCEPT !.PrepareQC = qc, !.CommitVote = qc])

\* The timer of the current view fires.  A replica that saw no PrepareQC in
\* this view passes on the one in the TimeoutQC that brought it here.
voteTimeout(n) ==
    LET i   == inner[n]
        pqc == IF i.TimeoutQC # None /\ i.PrepareQC = None
               THEN i.TimeoutQC.latestPrepareQC
               ELSE i.PrepareQC
    IN  /\ View(myView[n]) = View(i)
        /\ View(i).Index <= MaxIndex /\ View(i).Number < MaxNumber
        /\ i.TimeoutVote = None
        /\ store(n, [i EXCEPT !.TimeoutVote =
                        [view |-> View(i), latestPrepareQC |-> pqc]])

\* NewReproposal and NewProposal: the value of the newest PrepareQC of the
\* TimeoutQC if there is one, otherwise a fresh value.
NewProposal(vs, value) ==
    vs.TimeoutQC # None =>
        (vs.TimeoutQC.latestPrepareQC # None => value = vs.TimeoutQC.latestPrepareQC.value)

\* runPropose: the leader proposes once per view.
runPropose(n, value) ==
    LET vs == myView[n]
        p  == [view |-> View(vs), value |-> value, timeoutQC |-> vs.TimeoutQC]
    IN  /\ View(vs) \in Views
        /\ Leader(View(vs)) = n
        /\ myProposal[n] # None => myProposal[n].view # View(vs)
        /\ NewProposal(vs, value)
        /\ myProposal' = [myProposal EXCEPT ![n] = p]
        /\ proposals' = proposals \cup {p}
        /\ UNCHANGED <<inner, disk, myView, myVotes, outputs, current, votes, crashes>>
-----------------------------------------------------------------------------
(***************************************************************************)
(* runOutputs: an iteration takes the newest inner, moves myView, persists *)
(* and then publishes what it persisted.  The first iteration of a process *)
(* runs at once, the later ones when inner has changed.  Handlers, and a   *)
(* crash, may run between the steps.                                       *)
(***************************************************************************)
runOutputsView(n) ==
    /\ \/ outputs[n] = "start"
       \/ outputs[n] = "idle" /\ inner[n] # disk[n]
    /\ myView' = [myView EXCEPT ![n] =
                     IF Less(View(@), View(inner[n])) THEN ViewSpec(inner[n]) ELSE @]
    /\ current' = [current EXCEPT ![n] = inner[n]]
    /\ outputs' = [outputs EXCEPT ![n] = "persist"]
    /\ UNCHANGED <<inner, disk, myProposal, myVotes, network, crashes>>

runOutputsPersist(n) ==
    /\ outputs[n] = "persist"
    /\ disk' = [disk EXCEPT ![n] = current[n]]
    /\ current' = [current EXCEPT ![n] = None]
    /\ outputs' = [outputs EXCEPT ![n] = "publish"]
    /\ UNCHANGED <<inner, myView, myProposal, myVotes, network, crashes>>

\* updateOutput: the vote to publish, if it is in a newer view than the one
\* this process published last.
updateOutput(old, vote) ==
    IF vote = None \/ (old # None /\ ~Less(old.view, vote.view)) THEN {} ELSE {vote}

newest(old, new) == IF new = {} THEN old ELSE CHOOSE vote \in new : TRUE

\* The vote v with the signature of replica n.
signed(n, v) == [key |-> n, view |-> v.view, value |-> v.value]

signedTimeout(n, v) == [key |-> n, view |-> v.view, latestPrepareQC |-> v.latestPrepareQC]

\* The votes of replica n in i that updateOutput lets through go out.
publishVotes(n, i) ==
    LET P == updateOutput(myVotes[n].PrepareVote, i.PrepareVote)
        C == updateOutput(myVotes[n].CommitVote, i.CommitVote)
        T == updateOutput(myVotes[n].TimeoutVote, i.TimeoutVote)
    IN  /\ prepareVotes' = prepareVotes \cup {signed(n, v) : v \in P}
        /\ commitVotes' = commitVotes \cup {signed(n, v) : v \in C}
        /\ timeoutVotes' = timeoutVotes \cup {signedTimeout(n, v) : v \in T}
        /\ myVotes' = [myVotes EXCEPT ![n] =
              [PrepareVote |-> newest(@.PrepareVote, P),
               CommitVote |-> newest(@.CommitVote, C),
               TimeoutVote |-> newest(@.TimeoutVote, T)]]

\* Mutant: what is published is the newest inner, not what was persisted.
runOutputsPublishUnsaved(n) ==
    /\ outputs[n] = "publish"
    /\ publishVotes(n, inner[n])
    /\ outputs' = [outputs EXCEPT ![n] = "idle"]
    /\ UNCHANGED <<inner, disk, myView, myProposal, current, proposals, crashes>>

runOutputsPublish(n) ==
    /\ outputs[n] = "publish"
    /\ publishVotes(n, disk[n])
    /\ outputs' = [outputs EXCEPT ![n] = "idle"]
    /\ UNCHANGED <<inner, disk, myView, myProposal, current, proposals, crashes>>

\* Everything but inner starts afresh in a new process.
restart(n) ==
    /\ crashes < MaxCrashes
    /\ myView' = [myView EXCEPT ![n] = initialView]
    /\ myProposal' = [myProposal EXCEPT ![n] = None]
    /\ myVotes' = [myVotes EXCEPT ![n] = noVotes]
    /\ outputs' = [outputs EXCEPT ![n] = "start"]
    /\ current' = [current EXCEPT ![n] = None]
    /\ crashes' = crashes + 1
    /\ UNCHANGED network

\* The process dies; NewState restores inner from the disk.  A disk that does
\* not validate keeps the node down.
crash(n) ==
    /\ Validate(disk[n])
    /\ inner' = [inner EXCEPT ![n] = disk[n]]
    /\ restart(n)
    /\ UNCHANGED disk

Next ==
    \E n \in Honest :
        \/ \E qc \in QCs : pushCommitQC(n, qc)
        \/ \E qc \in TimeoutQCs : pushTimeoutQC(n, qc)
        \/ \E v \in Values, tqc \in TimeoutQCOpt :
              pushProposal(n, [view |-> View(myView[n]), value |-> v, timeoutQC |-> tqc])
        \/ \E qc \in QCs : pushPrepareQC(n, qc)
        \/ voteTimeout(n)
        \/ \E v \in Values : runPropose(n, v)
        \/ runOutputsView(n)
        \/ runOutputsPersist(n)
        \/ runOutputsPublish(n)
        \/ crash(n)

Spec == Init /\ [][Next]_vars
-----------------------------------------------------------------------------
\* At any point a crash may hit, what is on the disk passes
\* persistedInner.validate: NewState never refuses the node's own state.
RestartSucceeds == \A n \in Honest : Validate(disk[n])

\* waitForView and the handlers behind it work on myView without the lock:
\* myView never runs ahead of inner, and a view has one justification.
MyViewTrailsInner ==
    \A n \in Honest :
        /\ LessEq(View(myView[n]), View(inner[n]))
        /\ View(myView[n]) = View(inner[n]) => myView[n] = ViewSpec(inner[n])

\* The view a replica has on disk never goes back, and while it stays in one
\* view no vote on disk is dropped or replaced.
DiskMonotone ==
    [][\A n \in Honest :
        LET d == disk[n]
            e == disk'[n]
        IN  \/ Less(View(d), View(e))
            \/ /\ ViewSpec(d) = ViewSpec(e)
               /\ d.PrepareVote \in {None, e.PrepareVote}
               /\ d.CommitVote \in {None, e.CommitVote}
               /\ d.TimeoutVote \in {None, e.TimeoutVote}]_vars
-----------------------------------------------------------------------------
(***************************************************************************)
(* Why the replicas keep to the vote rules.  The votes in inner, in the    *)
(* copy that runOutputs is about to persist and on disk are votes the      *)
(* rules allow; disk, copy and inner follow one another without losing a   *)
(* vote; and a published vote is on disk, or of a view before it.          *)
(***************************************************************************)
Inners == [CommitQC : VoteOpt, TimeoutQC : TimeoutQCOpt, PrepareQC : VoteOpt,
           PrepareVote : VoteOpt, CommitVote : VoteOpt, TimeoutVote : TimeoutQCOpt]

\* Every variable holds what its Go type holds: options of certificates and
\* votes, and votes signed by the replica they name.
TypeOK ==
    /\ inner \in [Honest -> Inners]
    /\ disk \in [Honest -> Inners]
    /\ myView \in [Honest -> [CommitQC : VoteOpt, TimeoutQC : TimeoutQCOpt]]
    /\ myVotes \in [Honest -> [PrepareVote : VoteOpt, CommitVote : VoteOpt,
                                TimeoutVote : TimeoutQCOpt]]
    /\ outputs \in [Honest -> {"start", "persist", "publish", "idle"}]
    /\ current \in [Honest -> Inners \cup {None}]
    /\ VotingTypeOK

\* The votes in i are ones its replica may publish.
Justified(i) ==
    /\ i \in Inners
    /\ Validate(i)
    /\ i.CommitVote = i.PrepareQC
    /\ i.PrepareVote # None => mayPrepare(View(i), i.PrepareVote.value)
    /\ i.TimeoutVote # None =>
          IF i.CommitVote # None THEN i.TimeoutVote.latestPrepareQC = i.CommitVote
          ELSE mayTimeout(View(i), i.TimeoutVote.latestPrepareQC)

\* j is a later state than i: of a later view, or with the votes of i, to
\* which none was added after a timeout vote.
Continues(i, j) ==
    \/ Less(View(i), View(j))
    \/ /\ ViewSpec(i) = ViewSpec(j)
       /\ i.PrepareVote # None \/ i.TimeoutVote # None => i.PrepareVote = j.PrepareVote
       /\ i.CommitVote # None \/ i.TimeoutVote # None => i.CommitVote = j.CommitVote
       /\ i.TimeoutVote # None => i.TimeoutVote = j.TimeoutVote

\* What n has published is in d or of an earlier view, and a timeout vote of
\* d's view was published with the other votes of d.
recorded(n, d) ==
    /\ \A v \in prepareVotes : v.key = n =>
          Less(v.view, View(d)) \/ d.PrepareVote = [view |-> v.view, value |-> v.value]
    /\ \A v \in commitVotes : v.key = n =>
          Less(v.view, View(d)) \/ d.CommitVote = [view |-> v.view, value |-> v.value]
    /\ \A v \in timeoutVotes : v.key = n =>
          \/ Less(v.view, View(d))
          \/ /\ d.TimeoutVote = [view |-> v.view, latestPrepareQC |-> v.latestPrepareQC]
             /\ d.PrepareVote # None => signed(n, d.PrepareVote) \in prepareVotes
             /\ d.CommitVote # None => signed(n, d.CommitVote) \in commitVotes

\* What this process remembers to have published was published.
remembered(n, m) ==
    /\ m.PrepareVote # None => signed(n, m.PrepareVote) \in prepareVotes
    /\ m.CommitVote # None => signed(n, m.CommitVote) \in commitVotes
    /\ m.TimeoutVote # None => signedTimeout(n, m.TimeoutVote) \in timeoutVotes

\* Replica n, its disk and what it has published agree.
inStep(n) ==
    /\ Justified(inner[n]) /\ Justified(disk[n])
    /\ Continues(disk[n], inner[n])
    /\ outputs[n] = "persist" =>
          /\ Justified(current[n])
          /\ Continues(disk[n], current[n]) /\ Continues(current[n], inner[n])
    /\ recorded(n, disk[n])
    /\ remembered(n, myVotes[n])

\* The inductive invariant behind VotingSpec: runOutputs and the handlers keep
\* inner, disk and the published votes in step, through any crash.
ReplicaInv == TypeOK /\ MyViewTrailsInner /\ \A n \in Honest : inStep(n)
=============================================================================
