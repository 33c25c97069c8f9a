------------------------------ MODULE VoteSets ------------------------------
(***************************************************************************)
(* The collectors that turn votes into certificates                        *)
(* (sei-tendermint/internal/autobahn/consensus: prepare_votes.go,          *)
(* commit_votes.go and timeout_votes.go).  A collector keeps the newest    *)
(* vote of each replica, groups the votes it keeps, and publishes a        *)
(* certificate when the weight of a group reaches the quorum.  Prepare and *)
(* commit votes are grouped by hash (the view and the content), timeout    *)
(* votes by view.  The committee is any that NewCommittee returns.         *)
(***************************************************************************)
EXTENDS Committee

CONSTANTS
    MaxView,   \* bound: views, numbered in the order of View.Less
    Values,    \* content, or the PrepareQC a timeout vote carries
    None

Votes == [key : Keys, view : 0..MaxView, value : Values]

ASSUME VoteSetsAssumption == MaxView \in Nat /\ None \notin Votes

VARIABLES
    groupBy,  \* "hash" in prepareVotes and commitVotes, "view" in timeoutVotes
    byKey,    \* byKey[k]: the vote of replica k that is kept
    byGroup,  \* byHash, or byView: the voteSet of each group with votes
    qc        \* the votes of the certificate published last

votesVars == <<groupBy, byKey, byGroup, qc>>

Init ==
    /\ CommitteeInit
    /\ groupBy \in {"hash", "view"}
    /\ byKey = [k \in Keys |-> None]
    /\ byGroup = [g \in {} |-> None]
    /\ qc = {}

viewOf(votes) == (CHOOSE v \in votes : TRUE).view

\* Mutant: the weight of the vote removed stays.
removeKeepsWeight(groups, g, vote) ==
    LET votes == groups[g].votes \ {vote}
    IN  [h \in DOMAIN groups \ (IF votes = {} THEN {g} ELSE {}) |->
            IF h = g THEN [weight |-> groups[g].weight, votes |-> votes]
            ELSE groups[h]]

\* The vote leaves its group; a group without votes is deleted.
remove(groups, g, vote) ==
    LET votes == groups[g].votes \ {vote}
    IN  [h \in DOMAIN groups \ (IF votes = {} THEN {g} ELSE {}) |->
            IF h = g THEN [weight |-> groups[g].weight - weights[vote.key], votes |-> votes]
            ELSE groups[h]]

insert(groups, g, vote) ==
    LET old == IF g \in DOMAIN groups THEN groups[g] ELSE [weight |-> 0, votes |-> {}]
    IN  [h \in DOMAIN groups \cup {g} |->
            IF h = g THEN [weight |-> old.weight + weights[vote.key],
                           votes |-> old.votes \cup {vote}]
            ELSE groups[h]]

\* Mutant: a quorum has to be exceeded.
certifyAboveQuorum(votes, weight, newView) ==
    IF weight <= CommitQuorum \/ (qc # {} /\ viewOf(qc) >= newView) THEN qc ELSE votes

\* The certificate is replaced only by one of a newer view.
certify(votes, weight, newView) ==
    IF weight < CommitQuorum \/ (qc # {} /\ viewOf(qc) >= newView) THEN qc ELSE votes

\* "Ignore older or equal votes."
supersedes(old, vote) == old # None => old.view < vote.view

\* The group of a vote: its hash, that is its view and value, or its view.
group(vote) == IF groupBy = "hash" THEN <<vote.view, vote.value>> ELSE <<vote.view>>

\* pushVote of the three collectors, for a vote that a replica has signed.
pushVote(vote) ==
    LET old    == byKey[vote.key]
        kept   == IF old = None THEN byGroup ELSE remove(byGroup, group(old), old)
        groups == insert(kept, group(vote), vote)
        set    == groups[group(vote)]
    IN  /\ result = "committee"
        /\ vote.key \in replicas
        /\ supersedes(old, vote)
        /\ byKey' = [byKey EXCEPT ![vote.key] = vote]
        /\ byGroup' = groups
        /\ qc' = certify(set.votes, set.weight, vote.view)
        /\ UNCHANGED groupBy
        /\ UNCHANGED committeeVars

Next ==
    \/ NewCommittee /\ UNCHANGED votesVars
    \/ \E vote \in Votes : pushVote(vote)

vars == <<committeeVars, votesVars>>

Spec == Init /\ [][Next]_vars
-----------------------------------------------------------------------------
current == {byKey[k] : k \in Keys} \ {None}

\* byHash, or byView, holds exactly the newest vote of each replica, in the
\* group it belongs to, and a weight, kept up by the additions and
\* subtractions of pushVote, that is the sum over the voters; no group is left
\* empty.
GroupsMatchVotes ==
    /\ DOMAIN byGroup = {group(v) : v \in current}
    /\ \A g \in DOMAIN byGroup :
          /\ byGroup[g].votes = {v \in current : group(v) = g}
          /\ byGroup[g].weight = sum(weights, {v.key : v \in byGroup[g].votes})

\* The certificate has one vote per replica, all for one view, of a weight
\* that verifyQC accepts, although replicas may change their votes and come
\* back from newer views.
QCVerifies ==
    qc # {} =>
        /\ \A v, w \in qc : v.view = w.view /\ (v.key = w.key => v = w)
        /\ sum(weights, {v.key : v \in qc}) >= CommitQuorum

\* No certificate is missed: when the newest votes of a quorum agree, a
\* certificate at least as new has been published, in whatever order the votes
\* came and whatever they replaced.
NoMissedQC ==
    \A g \in DOMAIN byGroup :
        byGroup[g].weight >= CommitQuorum => qc # {} /\ viewOf(qc) >= g[1]
=============================================================================
